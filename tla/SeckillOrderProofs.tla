------------------------- MODULE SeckillOrderProofs -------------------------
(***************************************************************************)
(* Safety of the seckill pipeline for any number of users, instances,      *)
(* consumer names, orders, retries and faults, in three parts: the ledger  *)
(* (stocks, buyers, orders), what becomes of an accepted order, and, for   *)
(* one instance whose Redis does not fail, the abstract sale.              *)
(***************************************************************************)
EXTENDS SeckillOrder, FiniteSetTheorems, WellFoundedInduction, TLAPS

(***************************************************************************)
(* The ledger.                                                             *)
(***************************************************************************)

-----------------------------------------------------------------------------
\* Facts about the helpers.

\* The least element of a non-empty set of naturals is one of its elements.
LEMMA MinLeast ==
  ASSUME NEW S \in SUBSET Nat, S # {}
  PROVE  /\ Min(S) \in S
         /\ \A o \in S : Min(S) =< o
<1> DEFINE R == OpToRel(<, Nat)
<1>1. IsWellFoundedOn(R, Nat)
  BY NatLessThanWellFounded
<1> HIDE DEF R
<1>2. PICK x \in S : \A y \in S : <<y, x>> \notin R
  BY <1>1, WFMin
<1>3. \A y \in S : x =< y
  <2> TAKE y \in S
  <2>1. <<y, x>> \notin {ss \in Nat \X Nat : ss[1] < ss[2]}
    BY <1>2 DEF R, OpToRel
  <2> QED  BY <2>1
<1> QED  BY <1>3 DEF Min

\* The minimum of two integers is one of them and exceeds neither.
LEMMA MinPair ==
  ASSUME NEW a \in Int, NEW b \in Int
  PROVE  /\ Min({a, b}) \in {a, b}
         /\ Min({a, b}) =< a /\ Min({a, b}) =< b
<1>1. \E x \in {a, b} : \A y \in {a, b} : x =< y
  <2>1. CASE a =< b  BY <2>1
  <2>2. CASE ~(a =< b)  BY <2>2
  <2> QED  BY <2>1, <2>2
<1> QED  BY <1>1 DEF Min

-----------------------------------------------------------------------------
\* The inductive invariant behind TypeOK, one part per group of variables: a
\* thread at work on a record has one, a lock is held exactly when its count
\* is positive, every order the system knows of was admitted and has a user.

ReservationOK ==
  /\ redisStock \in Int
  /\ buyers \subseteq Users
  /\ issued \in 0..MaxOrders
  /\ owner \in [Orders -> Users \cup {NoUser}]
  /\ \A o \in Admitted : owner[o] \in Users
  /\ dupMarker \subseteq Admitted
  /\ failMarker \subseteq Admitted

ProgressOK ==
  /\ status \in [Orders -> OrderStatus]
  /\ pendingZ \subseteq Admitted

StreamOK ==
  /\ delivered \in 0..issued
  /\ pel \in [Consumers -> SUBSET (1..delivered)]
  /\ retries \in [Orders -> 0..MaxRetries]
  /\ dlq \subseteq Admitted

LocksOK ==
  /\ lock \in [Users -> Instances \cup {Free, Orphan}]
  /\ holds \in [Users -> Nat]
  /\ \A u \in Users : lock[u] # Free => holds[u] > 0

DbOK ==
  /\ dbStock \in Int
  /\ dbOrders \subseteq Admitted

ConsumerOK ==
  /\ pc \in [Instances -> ConsumerPc]
  /\ batch \in [Instances -> SUBSET Admitted]
  /\ source \in [Instances -> {"new", "pending"}]
  /\ result \in [Instances -> PersistResult]
  /\ \A i \in Instances : pc[i] \notin {"poll", "recover"} => batch[i] # {}

JobOK ==
  /\ jobPc \in [Instances -> JobPc]
  /\ jobOrders \in [Instances -> SUBSET Admitted]
  /\ decision \in [Instances -> OrderStatus]
  /\ \A i \in Instances : jobPc[i] # "idle" => jobOrders[i] # {}

FaultsOK == faults \in [{"db", "redis", "crash"} -> Nat]

TypeInv ==
  /\ ReservationOK /\ ProgressOK /\ StreamOK /\ LocksOK
  /\ DbOK /\ ConsumerOK /\ JobOK /\ FaultsOK

LEMMA TypeInvImpliesTypeOK == TypeInv => TypeOK
<1> SUFFICES ASSUME TypeInv PROVE TypeOK
  OBVIOUS
<1>1. Admitted \subseteq Orders /\ 1..delivered \subseteq Orders
  BY BoundsAssumption DEF TypeInv, ReservationOK, StreamOK, Admitted, Orders
<1> QED
  BY <1>1 DEF TypeInv, TypeOK, ReservationOK, ProgressOK, StreamOK, LocksOK, DbOK,
              ConsumerOK, JobOK, FaultsOK

LEMMA TypeInvInit == Init => TypeInv
<1> SUFFICES ASSUME Init PROVE TypeInv
  OBVIOUS
<1> USE NamesAssumption, BoundsAssumption DEF Init, Admitted, Orders
<1>1. ReservationOK /\ ProgressOK /\ DbOK
  BY DEF ReservationOK, ProgressOK, DbOK, OrderStatus
<1>2. StreamOK /\ LocksOK /\ FaultsOK
  BY DEF StreamOK, LocksOK, FaultsOK
<1>3. ConsumerOK /\ JobOK
  BY DEF ConsumerOK, JobOK, ConsumerPc, JobPc, PersistResult, OrderStatus
<1> QED  BY <1>1, <1>2, <1>3 DEF TypeInv

\* The current record of a thread at work is an admitted order with a user.
LEMMA CurrentKnown ==
  ASSUME TypeInv, NEW i \in Instances, batch[i] # {}
  PROVE  /\ Current(i) \in batch[i]
         /\ Current(i) \in Admitted
         /\ Current(i) \in Orders
         /\ owner[Current(i)] \in Users
<1>1. batch[i] \subseteq Admitted
  BY DEF TypeInv, ConsumerOK
<1>2. Admitted \subseteq Nat /\ Admitted \subseteq Orders
  BY BoundsAssumption DEF TypeInv, ReservationOK, Admitted, Orders
<1>3. Current(i) \in batch[i]
  BY <1>1, <1>2, MinLeast DEF Current
<1> QED  BY <1>1, <1>2, <1>3 DEF TypeInv, ReservationOK

\* So is the current order of the job.
LEMMA JobCurrentKnown ==
  ASSUME TypeInv, NEW i \in Instances, jobOrders[i] # {}
  PROVE  /\ JobCurrent(i) \in jobOrders[i]
         /\ JobCurrent(i) \in Admitted
         /\ JobCurrent(i) \in Orders
         /\ owner[JobCurrent(i)] \in Users
<1>1. jobOrders[i] \subseteq Admitted
  BY DEF TypeInv, JobOK
<1>2. Admitted \subseteq Nat /\ Admitted \subseteq Orders
  BY BoundsAssumption DEF TypeInv, ReservationOK, Admitted, Orders
<1>3. JobCurrent(i) \in jobOrders[i]
  BY <1>1, <1>2, MinLeast DEF JobCurrent
<1> QED  BY <1>1, <1>2, <1>3 DEF TypeInv, ReservationOK

-----------------------------------------------------------------------------
\* Which actions write which group of variables.

LEMMA ReservationFrame ==
  ASSUME [Next]_vars
  PROVE  \/ UNCHANGED reservation
         \/ \E u \in Users : Seckill(u)
         \/ \E i \in Instances : RestoreReservation(i) \/ ReturnReservation(i)
BY DEF Next, Consume, Reconcile, vars, ReadNew, SkipRecovery, ReadPending, TryLock,
       SelectOrder, WriteOrder, CheckHeld, Unlock, MarkProcessed, RemovePending,
       DeleteRetries, AckProcessed, CountRetry, AddDeadLetter, MarkFailed, AckFailed,
       DeleteFailedRetries, ReadStatus, FindOrder, MarkReconciled, RemoveReconciled,
       StartJob, RedisCallFails, JobCallFails, Crash, LeaseExpires

LEMMA ReservationStep ==
  ASSUME TypeInv, [Next]_vars
  PROVE  ReservationOK' /\ Admitted \subseteq Admitted'
<1> USE DEF reservation, Admitted, Orders
<1>0. ReservationOK
  BY DEF TypeInv
<1>1. CASE UNCHANGED reservation
  BY <1>0, <1>1 DEF ReservationOK
<1>2. ASSUME NEW u \in Users, Seckill(u)
      PROVE  ReservationOK' /\ Admitted \subseteq Admitted'
  BY <1>0, <1>2, BoundsAssumption DEF Seckill, ReservationOK
<1>3. ASSUME NEW o \in Admitted, RestoreDuplicate(o) \/ CompensateFailed(o)
      PROVE  ReservationOK' /\ Admitted \subseteq Admitted'
  <2>1. CASE RestoreDuplicate(o)
    BY <1>0, <2>1 DEF RestoreDuplicate, ReservationOK
  <2>2. CASE CompensateFailed(o)
    BY <1>0, <2>2 DEF CompensateFailed, ReservationOK
  <2> QED  BY <1>3, <2>1, <2>2
<1>4. ASSUME NEW i \in Instances, RestoreReservation(i)
      PROVE  ReservationOK' /\ Admitted \subseteq Admitted'
  <2>1. batch[i] # {}
    BY <1>4 DEF RestoreReservation, TypeInv, ConsumerOK
  <2> QED  BY <2>1, <1>3, <1>4, CurrentKnown DEF RestoreReservation
<1>5. ASSUME NEW i \in Instances, ReturnReservation(i)
      PROVE  ReservationOK' /\ Admitted \subseteq Admitted'
  <2>1. jobOrders[i] # {}
    BY <1>5 DEF ReturnReservation, TypeInv, JobOK
  <2> QED  BY <2>1, <1>3, <1>5, JobCurrentKnown DEF ReturnReservation
<1> QED  BY <1>1, <1>2, <1>4, <1>5, ReservationFrame

LEMMA ProgressFrame ==
  ASSUME [Next]_vars
  PROVE  \/ UNCHANGED progress
         \/ \E u \in Users : Seckill(u)
         \/ \E i \in Instances : MarkProcessed(i) \/ RemovePending(i) \/ MarkFailed(i)
         \/ \E i \in Instances : MarkReconciled(i) \/ RemoveReconciled(i)
BY DEF Next, Consume, Reconcile, vars, ReadNew, SkipRecovery, ReadPending, TryLock,
       SelectOrder, WriteOrder, CheckHeld, Unlock, RestoreReservation, DeleteRetries,
       AckProcessed, CountRetry, AddDeadLetter, AckFailed, DeleteFailedRetries,
       ReadStatus, FindOrder, ReturnReservation, StartJob, RedisCallFails,
       JobCallFails, Crash, LeaseExpires

LEMMA ProgressStep ==
  ASSUME TypeInv, [Next]_vars
  PROVE  ProgressOK'
<1> USE DEF progress, MarkOrderStatus
<1>0. ProgressOK /\ ConsumerOK /\ JobOK /\ Admitted \subseteq Admitted'
  BY ReservationStep DEF TypeInv
<1>1. CASE UNCHANGED progress
  BY <1>0, <1>1 DEF ProgressOK
<1>2. ASSUME NEW u \in Users, Seckill(u)
      PROVE  ProgressOK'
  <2>1. issued + 1 \in Admitted'
    BY <1>2 DEF Seckill, TypeInv, ReservationOK, Admitted
  <2>2. status' = [status EXCEPT ![issued + 1] = "PENDING"] /\ pendingZ' = pendingZ \cup {issued + 1}
    BY <1>2 DEF Seckill
  <2> QED  BY <1>0, <2>1, <2>2 DEF ProgressOK, OrderStatus
<1>3. ASSUME NEW i \in Instances, MarkProcessed(i) \/ RemovePending(i) \/ MarkFailed(i)
      PROVE  ProgressOK'
  BY <1>0, <1>3 DEF MarkProcessed, RemovePending, MarkFailed, ProgressOK, OrderStatus
<1>4. ASSUME NEW i \in Instances, MarkReconciled(i) \/ RemoveReconciled(i)
      PROVE  ProgressOK'
  BY <1>0, <1>4 DEF MarkReconciled, RemoveReconciled, ProgressOK, JobOK
<1> QED  BY <1>1, <1>2, <1>3, <1>4, ProgressFrame

\* A blocking read returns no more records than the stream still has.
LEMMA NewCount ==
  ASSUME TypeInv
  PROVE  LET n == Min({ReadCount, issued - delivered})
         IN  n \in Nat /\ delivered + n =< issued
<1> DEFINE n == Min({ReadCount, issued - delivered})
<1>1. /\ ReadCount \in Int /\ ReadCount > 0
      /\ delivered \in Int /\ issued - delivered \in Int /\ issued - delivered >= 0
  BY BoundsAssumption DEF TypeInv, ReservationOK, StreamOK
<1>2. n \in {ReadCount, issued - delivered} /\ n =< issued - delivered
  BY <1>1, MinPair, Zenon
<1>3. issued \in Int
  BY BoundsAssumption DEF TypeInv, ReservationOK
<1> HIDE DEF n
<1>4. n \in Nat /\ delivered + n =< issued
  BY <1>1, <1>2, <1>3
<1> QED  BY <1>4 DEF n

LEMMA StreamFrame ==
  ASSUME [Next]_vars
  PROVE  \/ UNCHANGED stream
         \/ \E i \in Instances :
              \/ ReadNew(i) \/ DeleteRetries(i) \/ AckProcessed(i) \/ CountRetry(i)
              \/ AddDeadLetter(i) \/ AckFailed(i) \/ DeleteFailedRetries(i)
BY DEF Next, Consume, Reconcile, vars, Seckill, SkipRecovery, ReadPending, TryLock,
       SelectOrder, WriteOrder, CheckHeld, Unlock, RestoreReservation, MarkProcessed,
       RemovePending, MarkFailed, ReadStatus, FindOrder, ReturnReservation,
       MarkReconciled, RemoveReconciled, StartJob, RedisCallFails, JobCallFails,
       Crash, LeaseExpires

LEMMA StreamStep ==
  ASSUME TypeInv, [Next]_vars
  PROVE  StreamOK'
<1> USE DEF stream
<1>0. /\ StreamOK /\ ConsumerOK /\ issued \in Nat /\ issued' \in Nat /\ issued =< issued'
      /\ Admitted \subseteq Admitted'
  BY ReservationStep, BoundsAssumption DEF TypeInv, ReservationOK, Admitted
<1>1. CASE UNCHANGED stream
  BY <1>0, <1>1 DEF StreamOK
<1>2. ASSUME NEW i \in Instances, ReadNew(i)
      PROVE  StreamOK'
  <2> DEFINE n == Min({ReadCount, issued - delivered})
  <2>1. n \in Nat /\ delivered + n =< issued
    BY NewCount
  <2> HIDE DEF n
  <2>2. /\ delivered' = delivered + n
        /\ pel' = [pel EXCEPT ![ConsumerName[i]] = @ \cup ((delivered + 1)..(delivered + n))]
        /\ retries' = retries /\ dlq' = dlq
    BY <1>2 DEF ReadNew, n
  <2>3. delivered' \in 0..issued' /\ dlq' \subseteq Admitted'
    BY <1>0, <2>1, <2>2 DEF StreamOK
  <2>4. pel' \in [Consumers -> SUBSET (1..delivered')]
    <3> DEFINE new == (delivered + 1)..(delivered + n)
    <3>1. 1..delivered \subseteq 1..delivered' /\ new \subseteq 1..delivered'
      BY <1>0, <2>1, <2>2 DEF StreamOK
    <3>2. pel' = [pel EXCEPT ![ConsumerName[i]] = @ \cup new]
      BY <2>2
    <3> HIDE DEF new
    <3> QED  BY <1>0, <3>1, <3>2 DEF StreamOK
  <2> QED  BY <1>0, <2>2, <2>3, <2>4 DEF StreamOK, Orders
<1>3. ASSUME NEW i \in Instances, CountRetry(i)
      PROVE  StreamOK'
  <2>1. \A r \in 0..MaxRetries : Min({r + 1, MaxRetries}) \in 0..MaxRetries
    <3> TAKE r \in 0..MaxRetries
    <3>1. r + 1 \in Int /\ MaxRetries \in Int /\ r + 1 \in 0..(MaxRetries + 1)
      BY BoundsAssumption
    <3>2. Min({r + 1, MaxRetries}) \in {r + 1, MaxRetries} /\ Min({r + 1, MaxRetries}) =< MaxRetries
      BY <3>1, MinPair, Zenon
    <3> QED  BY <3>1, <3>2, BoundsAssumption
  <2> DEFINE m == Min({retries[Current(i)] + 1, MaxRetries})
  <2>2. retries' = [retries EXCEPT ![Current(i)] = m]
    BY <1>3 DEF CountRetry
  <2>3. Current(i) \in Orders
    BY <1>0, <1>3, CurrentKnown DEF CountRetry, ConsumerOK
  <2>4. m \in 0..MaxRetries
    BY <1>0, <2>1, <2>3, Zenon DEF StreamOK
  <2> HIDE DEF m
  <2>5. retries' \in [Orders -> 0..MaxRetries]
    BY <1>0, <2>2, <2>4 DEF StreamOK
  <2> QED  BY <1>0, <1>3, <2>5 DEF CountRetry, StreamOK
<1>4. ASSUME NEW i \in Instances, DeleteRetries(i) \/ DeleteFailedRetries(i)
      PROVE  StreamOK'
  BY <1>0, <1>4, BoundsAssumption DEF DeleteRetries, DeleteFailedRetries, ClearRetries, StreamOK
<1>5. ASSUME NEW i \in Instances, AckProcessed(i) \/ AckFailed(i)
      PROVE  StreamOK'
  BY <1>0, <1>5 DEF AckProcessed, AckFailed, Acknowledge, StreamOK
<1>6. ASSUME NEW i \in Instances, AddDeadLetter(i)
      PROVE  StreamOK'
  <2>1. Current(i) \in Admitted
    BY <1>0, <1>6, CurrentKnown DEF AddDeadLetter, ConsumerOK
  <2> QED  BY <1>0, <1>6, <2>1 DEF AddDeadLetter, StreamOK
<1> QED  BY <1>1, <1>2, <1>3, <1>4, <1>5, <1>6, StreamFrame

LEMMA LocksFrame ==
  ASSUME [Next]_vars
  PROVE  \/ UNCHANGED locks
         \/ \E i \in Instances : TryLock(i) \/ Unlock(i) \/ Crash(i)
         \/ \E u \in Users : LeaseExpires(u)
BY DEF Next, Consume, Reconcile, vars, Seckill, ReadNew, SkipRecovery, ReadPending,
       SelectOrder, WriteOrder, CheckHeld, RestoreReservation, MarkProcessed,
       RemovePending, DeleteRetries, AckProcessed, CountRetry, AddDeadLetter, MarkFailed,
       AckFailed, DeleteFailedRetries, ReadStatus, FindOrder, ReturnReservation,
       MarkReconciled, RemoveReconciled, StartJob, RedisCallFails, JobCallFails

LEMMA LocksStep ==
  ASSUME TypeInv, [Next]_vars
  PROVE  LocksOK'
<1> USE NamesAssumption DEF locks
<1>0. LocksOK /\ ConsumerOK
  BY DEF TypeInv
<1>1. CASE UNCHANGED locks
  BY <1>0, <1>1 DEF LocksOK
<1>2. ASSUME NEW i \in Instances, TryLock(i)
      PROVE  LocksOK'
  <2>1. owner[Current(i)] \in Users
    BY <1>0, <1>2, CurrentKnown DEF TryLock, ConsumerOK
  <2> QED  BY <1>0, <1>2, <2>1 DEF TryLock, LocksOK
<1>3. ASSUME NEW i \in Instances, Unlock(i)
      PROVE  LocksOK'
  <2>1. owner[Current(i)] \in Users
    BY <1>0, <1>3, CurrentKnown DEF Unlock, ConsumerOK
  <2> QED  BY <1>0, <1>3, <2>1 DEF Unlock, LocksOK
<1>4. ASSUME NEW i \in Instances, Crash(i)
      PROVE  LocksOK'
  BY <1>0, <1>4 DEF Crash, LocksOK
<1>5. ASSUME NEW u \in Users, LeaseExpires(u)
      PROVE  LocksOK'
  BY <1>0, <1>5 DEF LeaseExpires, LocksOK
<1> QED  BY <1>1, <1>2, <1>3, <1>4, <1>5, LocksFrame

LEMMA DbFrame ==
  ASSUME [Next]_vars
  PROVE  UNCHANGED db \/ \E i \in Instances : WriteOrder(i)
BY DEF Next, Consume, Reconcile, vars, Seckill, ReadNew, SkipRecovery, ReadPending, TryLock,
       SelectOrder, CheckHeld, Unlock, RestoreReservation, MarkProcessed, RemovePending,
       DeleteRetries, AckProcessed, CountRetry, AddDeadLetter, MarkFailed, AckFailed,
       DeleteFailedRetries, ReadStatus, FindOrder, ReturnReservation, MarkReconciled,
       RemoveReconciled, StartJob, RedisCallFails, JobCallFails, Crash, LeaseExpires

\* The only writes of the database: one unit of stock for one new row.
LEMMA DbWrite ==
  ASSUME TypeInv, [Next]_vars
  PROVE  \/ UNCHANGED db
         \/ \E o \in Admitted : /\ Accepts(o)
                                /\ dbStock' = dbStock - 1
                                /\ dbOrders' = dbOrders \cup {o}
<1>1. ASSUME NEW i \in Instances, WriteOrder(i)
      PROVE  \/ UNCHANGED db
             \/ \E o \in Admitted : /\ Accepts(o)
                                    /\ dbStock' = dbStock - 1
                                    /\ dbOrders' = dbOrders \cup {o}
  <2>1. Current(i) \in Admitted
    BY <1>1, CurrentKnown DEF WriteOrder, TypeInv, ConsumerOK
  <2> QED  BY <1>1, <2>1 DEF WriteOrder
<1> QED  BY <1>1, DbFrame

LEMMA DbStep ==
  ASSUME TypeInv, [Next]_vars
  PROVE  DbOK'
BY DbWrite, ReservationStep DEF TypeInv, DbOK, db

\* The moves of a consumer thread that is at work on a record.
Moves(i) ==
  \/ \E next \in ProcessPc \cup FailurePc : Goto(i, next)
  \/ NextRecord(i)
  \/ Throw(i)
  \/ \E r \in PersistResult : Persisted(i, r)

LEMMA MovesPreserve ==
  ASSUME ConsumerOK, Admitted \subseteq Admitted',
         NEW i \in Instances, batch[i] # {}, Moves(i)
  PROVE  ConsumerOK'
<1> USE DEF ConsumerPc, ProcessPc, FailurePc
<1>1. ASSUME NEW next \in ProcessPc \cup FailurePc, Goto(i, next)
      PROVE  ConsumerOK'
  BY <1>1 DEF Goto, ConsumerOK
<1>2. CASE NextRecord(i)
  BY <1>2 DEF NextRecord, ConsumerOK, PersistResult
<1>3. CASE Throw(i)
  <2>1. CASE pc[i] \in ProcessPc
    BY <1>1, <1>3, <2>1 DEF Throw
  <2>2. CASE pc[i] \notin ProcessPc
    BY <1>3, <2>2 DEF Throw, ConsumerOK, PersistResult
  <2> QED  BY <2>1, <2>2
<1>4. ASSUME NEW r \in PersistResult, Persisted(i, r)
      PROVE  ConsumerOK'
  BY <1>4 DEF Persisted, ConsumerOK
<1> QED  BY <1>1, <1>2, <1>3, <1>4 DEF Moves

\* What each step of the system does to the consumer threads.
LEMMA ConsumerFrame ==
  ASSUME TypeInv, [Next]_vars
  PROVE  \/ UNCHANGED consumer
         \/ \E i \in Instances : ReadNew(i) \/ ReadPending(i) \/ Crash(i)
         \/ \E i \in Instances : pc[i] \in {"poll", "recover"} /\ (Goto(i, "poll") \/ Throw(i))
         \/ \E i \in Instances : pc[i] \notin {"poll", "recover"} /\ Moves(i)
<1> DEFINE P == \/ UNCHANGED consumer
                \/ \E i \in Instances : ReadNew(i) \/ ReadPending(i) \/ Crash(i)
                \/ \E i \in Instances : pc[i] \in {"poll", "recover"} /\ (Goto(i, "poll") \/ Throw(i))
                \/ \E i \in Instances : pc[i] \notin {"poll", "recover"} /\ Moves(i)
<1>1. ASSUME NEW i \in Instances, SkipRecovery(i) \/ RedisCallFails(i)
      PROVE  P
  BY <1>1 DEF SkipRecovery, RedisCallFails, Moves
<1>2. ASSUME NEW i \in Instances, SelectOrder(i) \/ WriteOrder(i)
      PROVE  P
  BY <1>2 DEF SelectOrder, WriteOrder, Moves, PersistResult, ProcessPc
<1>3. ASSUME NEW i \in Instances, TryLock(i) \/ CheckHeld(i) \/ Unlock(i)
      PROVE  P
  BY <1>3 DEF TryLock, CheckHeld, Unlock, AfterPersist, Reply, Moves, ProcessPc, FailurePc
<1>4. ASSUME NEW i \in Instances,
             \/ RestoreReservation(i) \/ MarkProcessed(i) \/ RemovePending(i)
             \/ DeleteRetries(i) \/ AckProcessed(i)
      PROVE  P
  BY <1>4 DEF RestoreReservation, MarkProcessed, RemovePending, DeleteRetries, AckProcessed,
              Reply, Moves, ProcessPc, FailurePc
<1>5. ASSUME NEW i \in Instances,
             \/ CountRetry(i) \/ AddDeadLetter(i) \/ MarkFailed(i) \/ AckFailed(i)
             \/ DeleteFailedRetries(i)
      PROVE  P
  BY <1>5 DEF CountRetry, AddDeadLetter, MarkFailed, AckFailed, DeleteFailedRetries,
              Reply, Moves, ProcessPc, FailurePc
<1>6. ASSUME \/ \E u \in Users : Seckill(u) \/ LeaseExpires(u)
             \/ \E i \in Instances : Reconcile(i) \/ JobCallFails(i) \/ \E o \in Orders : StartJob(i, o)
             \/ UNCHANGED vars
      PROVE  P
  BY <1>6 DEF Seckill, LeaseExpires, Reconcile, ReadStatus, FindOrder, ReturnReservation,
              MarkReconciled, RemoveReconciled, JobCallFails, StartJob, vars
<1> HIDE DEF P
<1>7. P
  BY <1>1, <1>2, <1>3, <1>4, <1>5, <1>6 DEF Next, Consume, P
<1> QED  BY <1>7 DEF P

LEMMA ConsumerStep ==
  ASSUME TypeInv, [Next]_vars
  PROVE  ConsumerOK'
<1>0. ConsumerOK /\ StreamOK /\ Admitted \subseteq Admitted' /\ issued \in Nat
  BY ReservationStep, BoundsAssumption DEF TypeInv, ReservationOK
<1>1. CASE UNCHANGED consumer
  BY <1>0, <1>1 DEF ConsumerOK, consumer
<1>2. ASSUME NEW i \in Instances, pc[i] \notin {"poll", "recover"}, Moves(i)
      PROVE  ConsumerOK'
  <2>1. batch[i] # {}
    BY <1>0, <1>2 DEF ConsumerOK
  <2> QED  BY <1>0, <1>2, <2>1, MovesPreserve
<1>3. ASSUME NEW i \in Instances, pc[i] \in {"poll", "recover"}, Goto(i, "poll") \/ Throw(i)
      PROVE  ConsumerOK'
  BY <1>0, <1>3 DEF Goto, Throw, ConsumerOK, ConsumerPc, ProcessPc, PersistResult
<1>4. ASSUME NEW i \in Instances, Crash(i)
      PROVE  ConsumerOK'
  BY <1>0, <1>4 DEF Crash, ConsumerOK, ConsumerPc, PersistResult
<1>5. ASSUME NEW i \in Instances, ReadPending(i)
      PROVE  ConsumerOK'
  <2> DEFINE p == FirstN(pel[ConsumerName[i]], PendingCount)
  <2>1. p \subseteq Admitted'
    BY <1>0, NamesAssumption DEF FirstN, StreamOK, Admitted, TypeInv, ReservationOK
  <2> HIDE DEF p
  <2>2. /\ batch' = [batch EXCEPT ![i] = p]
        /\ source' = [source EXCEPT ![i] = "pending"]
        /\ pc' = [pc EXCEPT ![i] = IF p = {} THEN "poll" ELSE "lock"]
        /\ UNCHANGED result
    BY <1>5 DEF ReadPending, p
  <2> QED  BY <1>0, <2>1, <2>2 DEF ConsumerOK, ConsumerPc, ProcessPc
<1>6. ASSUME NEW i \in Instances, ReadNew(i)
      PROVE  ConsumerOK'
  <2> DEFINE n == Min({ReadCount, issued - delivered})
             new == (delivered + 1)..(delivered + n)
  <2>1. CASE Throw(i)
    BY <1>3, <1>6, <2>1 DEF ReadNew
  <2>2. CASE /\ batch' = [batch EXCEPT ![i] = new]
             /\ source' = [source EXCEPT ![i] = "new"]
             /\ pc' = [pc EXCEPT ![i] = IF n = 0 THEN "recover" ELSE "lock"]
             /\ UNCHANGED result
    <3>1. n \in Nat /\ delivered + n =< issued
      BY NewCount
    <3> HIDE DEF n
    <3>2. new \subseteq Admitted'
      BY <1>0, <3>1 DEF Admitted, StreamOK
    <3>3. ASSUME n # 0  PROVE  delivered + n \in new
      BY <1>0, <3>1, <3>3 DEF StreamOK
    <3> HIDE DEF new
    <3> QED  BY <1>0, <2>2, <3>2, <3>3 DEF ConsumerOK, ConsumerPc, ProcessPc
  <2> QED  BY <1>6, <2>1, <2>2 DEF ReadNew, Reply
<1> QED  BY <1>1, <1>2, <1>3, <1>4, <1>5, <1>6, ConsumerFrame

\* The same for the job threads.
LEMMA JobFrame ==
  ASSUME [Next]_vars
  PROVE  \/ UNCHANGED job
         \/ \E i \in Instances : AbortJob(i)
         \/ \E i \in Instances, o \in Orders : StartJob(i, o)
         \/ \E i \in Instances : FindOrder(i)
         \/ \E i \in Instances : /\ jobPc[i] # "idle"
                                 /\ NextOrder(i) \/ \E next \in JobPc : JobGoto(i, next)
<1> DEFINE P == \/ UNCHANGED job
                \/ \E i \in Instances : AbortJob(i)
                \/ \E i \in Instances, o \in Orders : StartJob(i, o)
                \/ \E i \in Instances : FindOrder(i)
                \/ \E i \in Instances : /\ jobPc[i] # "idle"
                                        /\ NextOrder(i) \/ \E next \in JobPc : JobGoto(i, next)
<1>1. ASSUME NEW i \in Instances,
             \/ ReadStatus(i) \/ ReturnReservation(i) \/ MarkReconciled(i)
             \/ RemoveReconciled(i) \/ JobCallFails(i) \/ Crash(i)
      PROVE  P
  BY <1>1 DEF ReadStatus, ReturnReservation, MarkReconciled, RemoveReconciled,
              JobCallFails, Crash, JobReply, JobPc
<1>2. ASSUME \/ \E u \in Users : Seckill(u) \/ LeaseExpires(u)
             \/ \E i \in Instances : Consume(i) \/ RedisCallFails(i)
             \/ UNCHANGED vars
      PROVE  UNCHANGED job
  BY <1>2 DEF Seckill, LeaseExpires, Consume, RedisCallFails, vars, ReadNew, SkipRecovery,
              ReadPending, TryLock, SelectOrder, WriteOrder, CheckHeld, Unlock,
              RestoreReservation, MarkProcessed, RemovePending, DeleteRetries, AckProcessed,
              CountRetry, AddDeadLetter, MarkFailed, AckFailed, DeleteFailedRetries
<1> HIDE DEF P
<1>3. P
  BY <1>1, <1>2 DEF Next, Reconcile, P
<1> QED  BY <1>3 DEF P

LEMMA JobStep ==
  ASSUME TypeInv, [Next]_vars
  PROVE  JobOK'
<1> USE DEF JobPc, OrderStatus
<1>0. JobOK /\ ProgressOK /\ Admitted \subseteq Admitted' /\ issued \in Nat
  BY ReservationStep, BoundsAssumption DEF TypeInv, ReservationOK
<1>1. CASE UNCHANGED job
  BY <1>0, <1>1 DEF JobOK, job
<1>2. ASSUME NEW i \in Instances, AbortJob(i)
      PROVE  JobOK'
  BY <1>0, <1>2 DEF AbortJob, JobOK
<1>3. ASSUME NEW i \in Instances, FindOrder(i)
      PROVE  JobOK'
  BY <1>0, <1>3 DEF FindOrder, Decide, JobOK
<1>4. ASSUME NEW i \in Instances, jobPc[i] # "idle", NextOrder(i)
      PROVE  JobOK'
  BY <1>0, <1>4 DEF NextOrder, JobOK
<1>5. ASSUME NEW i \in Instances, jobPc[i] # "idle", NEW next \in JobPc, JobGoto(i, next)
      PROVE  JobOK'
  BY <1>0, <1>5 DEF JobGoto, JobOK
<1>6. ASSUME NEW i \in Instances, NEW k \in Orders, StartJob(i, k)
      PROVE  JobOK'
  <2> DEFINE S == {o \in pendingZ : o =< k}
             T == FirstN(S, JobBatch)
  <2>1. T \subseteq Admitted'
    BY <1>0 DEF FirstN, ProgressOK
  <2>2. T # {}
    <3>1. S \subseteq Nat
      <4>1. pendingZ \subseteq Admitted /\ S \subseteq pendingZ
        BY <1>0 DEF ProgressOK
      <4>2. Admitted \subseteq Nat
        BY <1>0 DEF Admitted
      <4> QED  BY <4>1, <4>2
    <3>2. k \in S
      BY <1>6, BoundsAssumption DEF StartJob, Orders
    <3> HIDE DEF S
    <3> DEFINE m == Min(S)
    <3>3. m \in S /\ \A o \in S : m =< o
      BY <3>1, <3>2, MinLeast
    <3> HIDE DEF m
    <3>4. {p \in S : p < m} = {}
      <4>1. \A p \in S : p \in Nat /\ m \in Nat /\ m =< p
        BY <3>1, <3>3
      <4>2. \A p \in S : ~(p < m)
        BY <4>1
      <4> QED  BY <4>2
    <3>5. Cardinality({p \in S : p < m}) < JobBatch
      BY <3>4, FS_EmptySet, BoundsAssumption
    <3> QED  BY <3>3, <3>5 DEF FirstN
  <2> HIDE DEF T
  <2>3. /\ jobOrders' = [jobOrders EXCEPT ![i] = T]
        /\ jobPc' = [jobPc EXCEPT ![i] = "status"]
        /\ UNCHANGED decision
    BY <1>6 DEF StartJob, T
  <2> QED  BY <1>0, <2>1, <2>2, <2>3 DEF JobOK
<1> QED  BY <1>1, <1>2, <1>3, <1>4, <1>5, <1>6, JobFrame

LEMMA FaultsStep ==
  ASSUME TypeInv, [Next]_vars
  PROVE  FaultsOK'
<1>1. \/ UNCHANGED faults
      \/ \E kind \in {"db", "redis", "crash"} : Spend(kind)
  <2>1. ASSUME NEW i \in Instances, Consume(i)
        PROVE  UNCHANGED faults \/ \E kind \in {"db", "redis", "crash"} : Spend(kind)
    BY <2>1 DEF Consume, ReadNew, SkipRecovery, ReadPending, TryLock, SelectOrder, WriteOrder,
                CheckHeld, Unlock, RestoreReservation, MarkProcessed, RemovePending,
                DeleteRetries, AckProcessed, CountRetry, AddDeadLetter, MarkFailed, AckFailed,
                DeleteFailedRetries, Reply
  <2>2. ASSUME NEW i \in Instances,
               \/ Reconcile(i) \/ RedisCallFails(i) \/ JobCallFails(i) \/ Crash(i)
               \/ \E o \in Orders : StartJob(i, o)
        PROVE  UNCHANGED faults \/ \E kind \in {"db", "redis", "crash"} : Spend(kind)
    BY <2>2 DEF Reconcile, ReadStatus, FindOrder, ReturnReservation, MarkReconciled,
                RemoveReconciled, RedisCallFails, JobCallFails, Crash, StartJob, JobReply
  <2>3. ASSUME NEW u \in Users, Seckill(u) \/ LeaseExpires(u)
        PROVE  UNCHANGED faults
    BY <2>3 DEF Seckill, LeaseExpires
  <2>4. CASE UNCHANGED vars
    BY <2>4 DEF vars
  <2> QED  BY <2>1, <2>2, <2>3, <2>4 DEF Next
<1>2. FaultsOK
  BY DEF TypeInv
<1> QED  BY <1>1, <1>2 DEF Spend, FaultsOK

LEMMA TypeInvNext ==
  ASSUME TypeInv, [Next]_vars
  PROVE  TypeInv'
BY ReservationStep, ProgressStep, StreamStep, LocksStep, DbStep, ConsumerStep, JobStep,
   FaultsStep DEF TypeInv

LEMMA TypeInvariant == Spec => []TypeInv
BY TypeInvInit, TypeInvNext, PTL DEF Spec

\* Every variable keeps its type, whatever fails and however the threads
\* interleave.
THEOREM TypeCorrect == Spec => []TypeOK
BY TypeInvariant, TypeInvImpliesTypeOK, PTL

-----------------------------------------------------------------------------
\* What the reservation scripts and the transactions do to the two stocks.

\* The scripts of the consumers and of the jobs act on admitted orders.
LEMMA ReservationWrite ==
  ASSUME TypeInv, [Next]_vars
  PROVE  \/ UNCHANGED reservation
         \/ \E u \in Users : Seckill(u)
         \/ \E o \in Admitted : RestoreDuplicate(o) \/ CompensateFailed(o)
<1>1. ASSUME NEW i \in Instances, RestoreReservation(i)
      PROVE  \E o \in Admitted : RestoreDuplicate(o)
  <2>1. batch[i] # {}
    BY <1>1 DEF RestoreReservation, TypeInv, ConsumerOK
  <2> QED  BY <1>1, <2>1, CurrentKnown DEF RestoreReservation
<1>2. ASSUME NEW i \in Instances, ReturnReservation(i)
      PROVE  \E o \in Admitted : RestoreDuplicate(o) \/ CompensateFailed(o)
  <2>1. jobOrders[i] # {}
    BY <1>2 DEF ReturnReservation, TypeInv, JobOK
  <2> QED  BY <1>2, <2>1, JobCurrentKnown DEF ReturnReservation
<1> QED  BY <1>1, <1>2, ReservationFrame

\* An admitted order keeps its user.
LEMMA OwnerFixed ==
  ASSUME TypeInv, [Next]_vars, NEW o \in Admitted
  PROVE  owner'[o] = owner[o]
<1>1. ASSUME NEW u \in Users, Seckill(u)
      PROVE  owner'[o] = owner[o]
  <2>1. o # issued + 1
    BY BoundsAssumption DEF TypeInv, ReservationOK, Admitted
  <2>2. owner' = [owner EXCEPT ![issued + 1] = u]
    BY <1>1 DEF Seckill
  <2>3. o \in Orders
    BY BoundsAssumption DEF TypeInv, ReservationOK, Admitted, Orders
  <2> QED  BY <2>1, <2>2, <2>3 DEF TypeInv, ReservationOK
<1>2. ASSUME NEW p \in Admitted, RestoreDuplicate(p) \/ CompensateFailed(p)
      PROVE  owner'[o] = owner[o]
  BY <1>2 DEF RestoreDuplicate, CompensateFailed
<1>3. CASE UNCHANGED reservation
  BY <1>3 DEF reservation
<1> QED  BY <1>1, <1>2, <1>3, ReservationWrite

LEMMA AdmittedFinite ==
  ASSUME TypeInv, NEW S, S \subseteq Admitted
  PROVE  IsFiniteSet(S)
<1>1. IsFiniteSet(Admitted)
  BY BoundsAssumption, FS_Interval DEF TypeInv, ReservationOK, Admitted
<1> QED  BY <1>1, FS_Subset

-----------------------------------------------------------------------------
\* The database.

LEMMA NoOversellNext ==
  ASSUME TypeInv, NoOversell, [Next]_vars
  PROVE  NoOversell'
<1>1. CASE UNCHANGED db
  BY <1>1 DEF NoOversell, db
<1>2. ASSUME NEW o \in Admitted, Accepts(o),
             dbStock' = dbStock - 1, dbOrders' = dbOrders \cup {o}
      PROVE  NoOversell'
  <2>1. o \notin dbOrders
    BY <1>2 DEF Accepts, OrderOf
  <2>2. IsFiniteSet(dbOrders)
    BY AdmittedFinite DEF TypeInv, DbOK
  <2>3. Cardinality(dbOrders') = Cardinality(dbOrders) + 1
    BY <1>2, <2>1, <2>2, FS_AddElement
  <2>4. Cardinality(dbOrders) \in Nat
    BY <2>2, FS_CardinalityType
  <2>5. dbStock \in Int /\ dbStock > 0
    BY <1>2 DEF Accepts, TypeInv, DbOK
  <2> QED  BY <1>2, <2>3, <2>4, <2>5 DEF NoOversell
<1> QED  BY <1>1, <1>2, DbWrite

\* The database never sells more vouchers than the stock.
THEOREM NeverOversold == Spec => []NoOversell
<1>1. Init => NoOversell
  BY BoundsAssumption, FS_EmptySet DEF Init, NoOversell
<1>2. TypeInv /\ NoOversell /\ [Next]_vars => NoOversell'
  BY NoOversellNext
<1> QED  BY <1>1, <1>2, TypeInvariant, PTL DEF Spec

LEMMA OneOrderPerUserNext ==
  ASSUME TypeInv, OneOrderPerUser, [Next]_vars
  PROVE  OneOrderPerUser'
<1>1. \A o \in dbOrders : o \in Admitted /\ owner'[o] = owner[o]
  BY OwnerFixed DEF TypeInv, DbOK
<1>2. CASE UNCHANGED db
  BY <1>1, <1>2 DEF OneOrderPerUser, db
<1>3. ASSUME NEW o \in Admitted, Accepts(o), dbOrders' = dbOrders \cup {o}
      PROVE  OneOrderPerUser'
  <2>1. \A p \in dbOrders : owner[p] # owner[o]
    BY <1>3 DEF Accepts, OrderOf
  <2>2. owner'[o] = owner[o]
    BY OwnerFixed
  <2> QED  BY <1>1, <1>3, <2>1, <2>2 DEF OneOrderPerUser
<1> QED  BY <1>2, <1>3, DbWrite

\* No user ever has two orders of the voucher, whatever happens to the locks.
THEOREM NeverTwoOrders == Spec => []OneOrderPerUser
<1>1. Init => OneOrderPerUser
  BY DEF Init, OneOrderPerUser
<1>2. TypeInv /\ OneOrderPerUser /\ [Next]_vars => OneOrderPerUser'
  BY OneOrderPerUserNext
<1> QED  BY <1>1, <1>2, TypeInvariant, PTL DEF Spec

-----------------------------------------------------------------------------
\* The Redis side: the buyers set and the stock follow the markers.

LEMMA OneLiveReservationNext ==
  ASSUME TypeInv, OneLiveReservation, [Next]_vars
  PROVE  OneLiveReservation'
<1> DEFINE Live == Admitted \ failMarker
<1>0. /\ buyers = {owner[o] : o \in Live}
      /\ \A o, p \in Live : owner[o] = owner[p] => o = p
  BY DEF OneLiveReservation
<1>1. \A o \in Admitted : owner'[o] = owner[o]
  BY OwnerFixed
<1>2. CASE UNCHANGED reservation
  BY <1>2 DEF OneLiveReservation, reservation, Admitted
<1>3. ASSUME NEW u \in Users, Seckill(u)
      PROVE  OneLiveReservation'
  <2> DEFINE o == issued + 1
  <2>1. issued \in Nat /\ failMarker \subseteq Admitted
    BY BoundsAssumption DEF TypeInv, ReservationOK
  <2>2. /\ issued' = o /\ failMarker' = failMarker
        /\ owner' = [owner EXCEPT ![o] = u]
        /\ buyers' = buyers \cup {u} /\ u \notin buyers
    BY <1>3 DEF Seckill
  <2>3. Live' = Live \cup {o} /\ o \notin Admitted
    BY <2>1, <2>2 DEF Admitted
  <2>4. o \in Orders
    BY <1>3, <2>1, BoundsAssumption DEF Seckill, Orders
  <2>5. owner'[o] = u
    BY <2>2, <2>4 DEF TypeInv, ReservationOK
  <2> HIDE DEF o
  <2>6. \A p \in Live : owner'[p] = owner[p] /\ owner[p] # u
    BY <1>0, <1>1, <2>2
  <2>7. buyers' = {owner'[p] : p \in Live'}
    BY <1>0, <2>2, <2>3, <2>5, <2>6
  <2>8. \A p, q \in Live' : owner'[p] = owner'[q] => p = q
    BY <1>0, <2>3, <2>5, <2>6
  <2> QED  BY <2>7, <2>8 DEF OneLiveReservation
<1>4. ASSUME NEW o \in Admitted, RestoreDuplicate(o)
      PROVE  OneLiveReservation'
  BY <1>4 DEF RestoreDuplicate, OneLiveReservation, Admitted
<1>5. ASSUME NEW o \in Admitted, CompensateFailed(o)
      PROVE  OneLiveReservation'
  <2>1. Live' = Live \ {o} /\ owner' = owner
    BY <1>5 DEF CompensateFailed, Admitted
  <2>2. buyers' = {owner[p] : p \in Live \ {o}}
    <3>1. CASE o \in failMarker
      BY <1>0, <1>5, <3>1 DEF CompensateFailed
    <3>2. CASE o \notin failMarker
      <4>1. o \in Live /\ owner[o] \in buyers
        BY <1>0, <3>2
      <4>2. buyers' = buyers \ {owner[o]}
        BY <1>5, <3>2, <4>1 DEF CompensateFailed
      <4> QED  BY <1>0, <4>1, <4>2
    <3> QED  BY <3>1, <3>2
  <2> QED  BY <1>0, <2>1, <2>2 DEF OneLiveReservation
<1> QED  BY <1>2, <1>3, <1>4, <1>5, ReservationWrite

\* The buyers set is exact: a user is in it exactly while one admitted order
\* of the user was not compensated.
THEOREM BuyersAreExact == Spec => []OneLiveReservation
<1>1. Init => OneLiveReservation
  BY DEF Init, OneLiveReservation, Admitted
<1>2. TypeInv /\ OneLiveReservation /\ [Next]_vars => OneLiveReservation'
  BY OneLiveReservationNext
<1> QED  BY <1>1, <1>2, TypeInvariant, PTL DEF Spec

LEMMA RedisLedgerNext ==
  ASSUME TypeInv, OneLiveReservation, RedisLedger, [Next]_vars
  PROVE  RedisLedger'
<1>0. /\ IsFiniteSet(dupMarker) /\ IsFiniteSet(failMarker)
      /\ Cardinality(dupMarker) \in Nat /\ Cardinality(failMarker) \in Nat
  BY AdmittedFinite, FS_CardinalityType DEF TypeInv, ReservationOK
<1>1. redisStock \in Int /\ issued \in Nat /\ InitialStock \in Nat
  BY BoundsAssumption DEF TypeInv, ReservationOK
<1>2. CASE UNCHANGED reservation
  BY <1>2 DEF RedisLedger, reservation
<1>3. ASSUME NEW u \in Users, Seckill(u)
      PROVE  RedisLedger'
  BY <1>0, <1>1, <1>3 DEF Seckill, RedisLedger
<1>4. ASSUME NEW o \in Admitted, RestoreDuplicate(o)
      PROVE  RedisLedger'
  <2>1. CASE o \in dupMarker
    <3>1. dupMarker' = dupMarker
      BY <1>4, <2>1 DEF RestoreDuplicate
    <3> QED  BY <1>4, <2>1, <3>1 DEF RestoreDuplicate, RedisLedger
  <2>2. CASE o \notin dupMarker
    <3>1. Cardinality(dupMarker') = Cardinality(dupMarker) + 1
      BY <1>0, <1>4, <2>2, FS_AddElement DEF RestoreDuplicate
    <3> QED  BY <1>0, <1>1, <1>4, <2>2, <3>1 DEF RestoreDuplicate, RedisLedger
  <2> QED  BY <2>1, <2>2
<1>5. ASSUME NEW o \in Admitted, CompensateFailed(o)
      PROVE  RedisLedger'
  <2>1. CASE o \in failMarker
    <3>1. failMarker' = failMarker
      BY <1>5, <2>1 DEF CompensateFailed
    <3> QED  BY <1>5, <2>1, <3>1 DEF CompensateFailed, RedisLedger
  <2>2. CASE o \notin failMarker
    <3>1. owner[o] \in buyers
      BY <2>2 DEF OneLiveReservation
    <3>2. Cardinality(failMarker') = Cardinality(failMarker) + 1
      BY <1>0, <1>5, <2>2, FS_AddElement DEF CompensateFailed
    <3> QED  BY <1>0, <1>1, <1>5, <2>2, <3>1, <3>2 DEF CompensateFailed, RedisLedger
  <2> QED  BY <2>1, <2>2
<1> QED  BY <1>2, <1>3, <1>4, <1>5, ReservationWrite

\* The Redis stock moves by one unit per admission and per first return.
THEOREM LedgerHolds == Spec => []RedisLedger
<1>1. Init => RedisLedger
  BY BoundsAssumption, FS_EmptySet DEF Init, RedisLedger
<1>2. TypeInv /\ OneLiveReservation /\ RedisLedger /\ [Next]_vars => RedisLedger'
  BY RedisLedgerNext
<1> QED  BY <1>1, <1>2, TypeInvariant, BuyersAreExact, PTL DEF Spec

(***************************************************************************)
(* What a client polls is true and no accepted order is lost.              *)
(***************************************************************************)

-----------------------------------------------------------------------------
\* The inductive invariant.

Settled(o) == o \in dbOrders \cup Released

\* Another order of the user is in the database, so this one never will be.
IsDuplicate(o) == o \notin dbOrders /\ OrderOf(owner[o]) # {}

\* The stream may forget the order: the job will find it if it has to.
Safe(o) == Settled(o) \/ (o \in dlq /\ status[o] = "FAILED")

\* What a consumer thread knows of its current record at each of its calls.
ThreadKnows(i) ==
  /\ pc[i] \in {"poll", "recover"} => result[i] = "NONE"
  /\ pc[i] \in {"unlock", "release"} => result[i] # "NONE"
  /\ pc[i] = "restore" => result[i] = "DUPLICATE"
  /\ pc[i] = "mark" => result[i] \in {"CREATED", "IDEMPOTENT", "DUPLICATE"}
  /\ result[i] \in {"CREATED", "IDEMPOTENT"} => Current(i) \in dbOrders
  /\ result[i] = "DUPLICATE" => IsDuplicate(Current(i))
  /\ pc[i] \in {"mark", "zrem", "hdel", "ack"} => Settled(Current(i))
  /\ pc[i] = "markFailed" => Current(i) \in dlq
  /\ pc[i] = "ackFailed" => Safe(Current(i))

\* What the job knows of its current order.
JobKnows(i) ==
  /\ jobPc[i] \in {"idle", "status", "find"} => decision[i] = "NONE"
  /\ decision[i] # "FAILED"
  /\ decision[i] = "SUCCESS" => JobCurrent(i) \in dbOrders
  /\ decision[i] = "DUPLICATE" => IsDuplicate(JobCurrent(i))
  /\ jobPc[i] \in {"mark", "zrem"} => Settled(JobCurrent(i))
  /\ jobPc[i] \in {"mark", "zrem"} /\ decision[i] = "COMPENSATED" => JobCurrent(i) \in Released

OrderKept(o) ==
  /\ ~Settled(o) => o \in pendingZ
  /\ o > delivered \/ (\E c \in Consumers : o \in pel[c]) \/ Safe(o)

Knowledge ==
  /\ \A i \in Instances : ThreadKnows(i) /\ JobKnows(i)
  /\ \A o \in Admitted : OrderKept(o)
  /\ \A o \in Orders \ Admitted : status[o] = "NONE"
  /\ TruthfulStatus

LEMMA KnowledgeInit == Init => Knowledge
<1> SUFFICES ASSUME Init PROVE Knowledge
  OBVIOUS
<1>1. Admitted = {}
  BY DEF Init, Admitted
<1>2. TruthfulStatus /\ \A o \in Orders : status[o] = "NONE"
  BY DEF Init, TruthfulStatus
<1>3. \A i \in Instances : ThreadKnows(i) /\ JobKnows(i)
  BY DEF Init, ThreadKnows, JobKnows
<1> QED  BY <1>1, <1>2, <1>3 DEF Knowledge

-----------------------------------------------------------------------------
\* What stays true once it is.

\* Rows and markers are never removed, dead letters neither.
LEMMA Monotone ==
  ASSUME TypeInv, [Next]_vars
  PROVE  /\ dbOrders \subseteq dbOrders' /\ Released \subseteq Released'
         /\ dlq \subseteq dlq' /\ delivered =< delivered'
<1>1. dbOrders \subseteq dbOrders'
  BY DbWrite DEF db
<1>2. Released \subseteq Released'
  BY ReservationWrite DEF reservation, Seckill, RestoreDuplicate, CompensateFailed, Released
<1>3. dlq \subseteq dlq'
  BY StreamFrame DEF stream, ReadNew, DeleteRetries, AckProcessed, CountRetry, AddDeadLetter,
                     AckFailed, DeleteFailedRetries
<1>4. delivered =< delivered'
  <2>1. \A i \in Instances : ReadNew(i) => delivered' \in Int /\ delivered =< delivered'
    <3> SUFFICES ASSUME NEW i \in Instances, ReadNew(i)
                 PROVE  delivered' \in Int /\ delivered =< delivered'
      OBVIOUS
    <3> DEFINE n == Min({ReadCount, issued - delivered})
    <3>1. n \in Nat
      BY NewCount
    <3>2. delivered' = delivered + n
      BY DEF ReadNew
    <3> HIDE DEF n
    <3>3. delivered \in Int
      BY BoundsAssumption DEF TypeInv, StreamOK, ReservationOK
    <3> QED  BY <3>1, <3>2, <3>3
  <2>2. delivered' = delivered \/ \E i \in Instances : ReadNew(i)
    BY StreamFrame DEF stream, DeleteRetries, AckProcessed, CountRetry, AddDeadLetter,
                       AckFailed, DeleteFailedRetries
  <2>3. delivered \in Int
    BY BoundsAssumption DEF TypeInv, StreamOK, ReservationOK
  <2> QED  BY <2>1, <2>2, <2>3
<1> QED  BY <1>1, <1>2, <1>3, <1>4

LEMMA SettledStays ==
  ASSUME TypeInv, [Next]_vars, NEW o, Settled(o)
  PROVE  Settled(o)'
BY Monotone DEF Settled

LEMMA DuplicateStays ==
  ASSUME TypeInv, [Next]_vars, NEW o \in Admitted, IsDuplicate(o)
  PROVE  IsDuplicate(o)'
<1>1. PICK p \in dbOrders : owner[p] = owner[o]
  BY DEF IsDuplicate, OrderOf
<1>2. p \in Admitted
  BY DEF TypeInv, DbOK
<1>3. owner'[p] = owner[p] /\ owner'[o] = owner[o] /\ p \in dbOrders'
  BY <1>1, <1>2, OwnerFixed, Monotone
<1>4. o \notin dbOrders'
  BY DbWrite DEF IsDuplicate, db, Accepts
<1> QED  BY <1>1, <1>3, <1>4 DEF IsDuplicate, OrderOf

\* The current record of a thread that does not change its batch.
LEMMA CurrentStays ==
  ASSUME NEW i \in Instances, batch'[i] = batch[i]
  PROVE  Current(i)' = Current(i)
BY DEF Current

LEMMA JobCurrentStays ==
  ASSUME NEW i \in Instances, jobOrders'[i] = jobOrders[i]
  PROVE  JobCurrent(i)' = JobCurrent(i)
BY DEF JobCurrent

\* Who may write the status of an order: nobody takes FAILED away from an order
\* that is not settled.
LEMMA StatusWrite ==
  ASSUME TypeInv, Knowledge, [Next]_vars, NEW o \in Admitted, status'[o] # status[o]
  PROVE  \/ status'[o] = "FAILED" /\ o \in dlq
         \/ /\ Settled(o) /\ status'[o] # "FAILED"
            /\ status'[o] = "SUCCESS" => o \in dbOrders
            /\ status'[o] = "DUPLICATE" => IsDuplicate(o)
            /\ status'[o] = "COMPENSATED" => o \in Released
<1> DEFINE P == \/ status'[o] = "FAILED" /\ o \in dlq
                \/ /\ Settled(o) /\ status'[o] # "FAILED"
                   /\ status'[o] = "SUCCESS" => o \in dbOrders
                   /\ status'[o] = "DUPLICATE" => IsDuplicate(o)
                   /\ status'[o] = "COMPENSATED" => o \in Released
<1>0. status \in [Orders -> OrderStatus] /\ Admitted \subseteq Orders /\ issued \in Nat
  BY BoundsAssumption DEF TypeInv, ProgressOK, ReservationOK, Admitted, Orders
<1>1. ASSUME NEW u \in Users, Seckill(u)
      PROVE  FALSE
  <2>1. status' = [status EXCEPT ![issued + 1] = "PENDING"]
    BY <1>1 DEF Seckill
  <2>2. o # issued + 1
    BY <1>0 DEF Admitted
  <2> QED  BY <1>0, <2>1, <2>2
<1>2. ASSUME NEW i \in Instances, MarkFailed(i)
      PROVE  P
  <2>1. o = Current(i) /\ status'[o] = "FAILED"
    BY <1>0, <1>2 DEF MarkFailed, MarkOrderStatus
  <2>2. pc[i] = "markFailed" /\ ThreadKnows(i)
    BY <1>2 DEF MarkFailed, Knowledge
  <2> QED  BY <2>1, <2>2 DEF ThreadKnows
<1>3. ASSUME NEW i \in Instances, MarkProcessed(i)
      PROVE  P
  <2>1. o = Current(i)
    BY <1>0, <1>3 DEF MarkProcessed, MarkOrderStatus
  <2>2. status'[o] = IF result[i] = "DUPLICATE" THEN "DUPLICATE" ELSE "SUCCESS"
    BY <1>0, <1>3, <2>1 DEF MarkProcessed, MarkOrderStatus
  <2>3. pc[i] = "mark" /\ ThreadKnows(i)
    BY <1>3 DEF MarkProcessed, Knowledge
  <2> QED  BY <2>1, <2>2, <2>3 DEF ThreadKnows
<1>4. ASSUME NEW i \in Instances, MarkReconciled(i)
      PROVE  P
  <2>1. o = JobCurrent(i) /\ status'[o] = decision[i]
    BY <1>0, <1>4 DEF MarkReconciled, MarkOrderStatus
  <2>2. jobPc[i] = "mark" /\ JobKnows(i) /\ decision[i] # "FAILED"
    BY <1>4 DEF MarkReconciled, Knowledge, JobKnows
  <2> QED  BY <2>1, <2>2 DEF JobKnows
<1>5. \/ \E u \in Users : Seckill(u)
      \/ \E i \in Instances : MarkFailed(i) \/ MarkProcessed(i) \/ MarkReconciled(i)
  BY ProgressFrame DEF progress, RemovePending, RemoveReconciled
<1> HIDE DEF P
<1>6. P
  BY <1>1, <1>2, <1>3, <1>4, <1>5
<1> QED  BY <1>6 DEF P

LEMMA SafeStays ==
  ASSUME TypeInv, Knowledge, [Next]_vars, NEW o \in Admitted, Safe(o)
  PROVE  Safe(o)'
<1>1. CASE Settled(o)
  BY <1>1, SettledStays DEF Safe
<1>2. CASE ~Settled(o)
  <2>1. o \in dlq' /\ status[o] = "FAILED"
    BY <1>2, Monotone DEF Safe
  <2>2. status'[o] = "FAILED"
    BY <1>2, <2>1, StatusWrite
  <2> QED  BY <2>1, <2>2 DEF Safe
<1> QED  BY <1>1, <1>2

-----------------------------------------------------------------------------
\* What each client polls.

LEMMA UnknownNext ==
  ASSUME TypeInv, Knowledge, [Next]_vars, NEW o \in Orders, o \notin Admitted'
  PROVE  status'[o] = "NONE"
<1>0. status \in [Orders -> OrderStatus] /\ o \notin Admitted /\ status[o] = "NONE"
  BY ReservationStep DEF TypeInv, ProgressOK, Knowledge
<1>1. ASSUME NEW u \in Users, Seckill(u)
      PROVE  status'[o] = status[o]
  <2>1. issued + 1 \in Admitted'
    BY <1>1, BoundsAssumption DEF Seckill, TypeInv, ReservationOK, Admitted
  <2> QED  BY <1>0, <1>1, <2>1 DEF Seckill
<1>2. ASSUME NEW i \in Instances, MarkProcessed(i) \/ MarkFailed(i)
      PROVE  status'[o] = status[o]
  <2>1. Current(i) \in Admitted
    BY <1>2, CurrentKnown DEF MarkProcessed, MarkFailed, TypeInv, ConsumerOK
  <2> QED  BY <1>0, <1>2, <2>1 DEF MarkProcessed, MarkFailed, MarkOrderStatus
<1>3. ASSUME NEW i \in Instances, MarkReconciled(i)
      PROVE  status'[o] = status[o]
  <2>1. JobCurrent(i) \in Admitted
    BY <1>3, JobCurrentKnown DEF MarkReconciled, TypeInv, JobOK
  <2> QED  BY <1>0, <1>3, <2>1 DEF MarkReconciled, MarkOrderStatus
<1>4. status'[o] = status[o]
  BY <1>1, <1>2, <1>3, ProgressFrame DEF progress, RemovePending, RemoveReconciled
<1> QED  BY <1>0, <1>4

LEMMA TruthNext ==
  ASSUME TypeInv, Knowledge, [Next]_vars
  PROVE  TruthfulStatus'
<1> DEFINE Told(o) == /\ status'[o] = "SUCCESS" => o \in dbOrders'
                      /\ status'[o] = "DUPLICATE" => IsDuplicate(o)' /\ o \in Released'
                      /\ status'[o] = "COMPENSATED" => o \in Released'
                      /\ status'[o] = "FAILED" => o \in dlq'
<1> SUFFICES ASSUME NEW o \in Orders
             PROVE  Told(o)
  BY DEF TruthfulStatus, IsDuplicate, Orders, OrderOf
<1>1. ASSUME o \in Admitted,
             status'[o] = "SUCCESS" => o \in dbOrders,
             status'[o] = "DUPLICATE" => IsDuplicate(o) /\ o \in Released,
             status'[o] = "COMPENSATED" => o \in Released,
             status'[o] = "FAILED" => o \in dlq
      PROVE  Told(o)
  BY <1>1, Monotone, DuplicateStays
<1>2. CASE o \in Admitted /\ status'[o] = status[o]
  BY <1>1, <1>2 DEF Knowledge, TruthfulStatus, IsDuplicate
<1>3. CASE o \in Admitted /\ status'[o] # status[o]
  BY <1>1, <1>3, StatusWrite DEF Settled, IsDuplicate
<1>4. CASE o \notin Admitted /\ o \in Admitted'
  <2>1. issued' # issued
    BY <1>4 DEF Admitted
  <2>2. PICK u \in Users : Seckill(u)
    BY <2>1, ReservationWrite DEF reservation, RestoreDuplicate, CompensateFailed
  <2>3. status'[o] = "PENDING"
    <3>1. o = issued + 1 /\ issued' = issued + 1
      BY <1>4, <2>2, BoundsAssumption DEF Seckill, Admitted, TypeInv, ReservationOK
    <3> QED  BY <2>2, <3>1 DEF Seckill, TypeInv, ProgressOK
  <2> QED  BY <2>3
<1>5. CASE o \notin Admitted'
  BY <1>5, UnknownNext
<1> QED  BY <1>2, <1>3, <1>4, <1>5

-----------------------------------------------------------------------------
\* The consumer threads.

SameThread(i) == pc'[i] = pc[i] /\ batch'[i] = batch[i] /\ result'[i] = result[i]

ThreadActs(i) == Consume(i) \/ RedisCallFails(i) \/ Crash(i)

\* A step is at most one thread's.
LEMMA ThreadFrame ==
  ASSUME TypeInv, [Next]_vars, NEW j \in Instances
  PROVE  SameThread(j) \/ ThreadActs(j)
<1> DEFINE Only(i) == \A k \in Instances \ {i} : SameThread(k)
<1>0. ConsumerOK
  BY DEF TypeInv
<1>1. ASSUME NEW i \in Instances,
             Moves(i) \/ ReadNew(i) \/ ReadPending(i) \/ Crash(i) \/ Throw(i) \/ Goto(i, "poll")
      PROVE  Only(i)
  BY <1>0, <1>1 DEF Moves, ReadNew, ReadPending, Crash, Throw, Goto, Reply, NextRecord, Persisted,
                    ConsumerOK, SameThread
<1>2. ASSUME NEW i \in Instances, Consume(i)
      PROVE  Only(i)
  <2>1. ASSUME NEW next \in ProcessPc \cup FailurePc, Goto(i, next)  PROVE Moves(i)
    BY <2>1 DEF Moves
  <2>2. CASE SelectOrder(i) \/ WriteOrder(i)
    BY <1>1, <2>2 DEF SelectOrder, WriteOrder, Moves, PersistResult, ProcessPc
  <2>3. CASE TryLock(i) \/ CheckHeld(i) \/ Unlock(i)
    BY <1>1, <2>3 DEF TryLock, CheckHeld, Unlock, AfterPersist, Reply, Moves, ProcessPc, FailurePc
  <2>4. CASE \/ RestoreReservation(i) \/ MarkProcessed(i) \/ RemovePending(i)
             \/ DeleteRetries(i) \/ AckProcessed(i)
    BY <1>1, <2>4 DEF RestoreReservation, MarkProcessed, RemovePending, DeleteRetries, AckProcessed,
                      Reply, Moves, ProcessPc, FailurePc
  <2>5. CASE \/ CountRetry(i) \/ AddDeadLetter(i) \/ MarkFailed(i) \/ AckFailed(i)
             \/ DeleteFailedRetries(i)
    BY <1>1, <2>5 DEF CountRetry, AddDeadLetter, MarkFailed, AckFailed, DeleteFailedRetries,
                      Reply, Moves, ProcessPc, FailurePc
  <2>6. CASE SkipRecovery(i)
    BY <1>1, <2>6 DEF SkipRecovery
  <2>7. CASE ReadNew(i) \/ ReadPending(i)
    BY <1>1, <2>7
  <2> HIDE DEF Only
  <2> QED  BY <1>2, <2>2, <2>3, <2>4, <2>5, <2>6, <2>7 DEF Consume
<1>3. ASSUME NEW i \in Instances, RedisCallFails(i)
      PROVE  Only(i)
  BY <1>1, <1>3 DEF RedisCallFails
<1>4. ASSUME \/ \E u \in Users : Seckill(u) \/ LeaseExpires(u)
             \/ \E i \in Instances : Reconcile(i) \/ JobCallFails(i) \/ \E o \in Orders : StartJob(i, o)
             \/ UNCHANGED vars
      PROVE  SameThread(j)
  BY <1>4 DEF Seckill, LeaseExpires, Reconcile, ReadStatus, FindOrder, ReturnReservation,
              MarkReconciled, RemoveReconciled, JobCallFails, StartJob, vars, consumer, SameThread
<1>5. ASSUME NEW i \in Instances, ThreadActs(i)
      PROVE  SameThread(j) \/ ThreadActs(j)
  BY <1>1, <1>2, <1>3, <1>5 DEF ThreadActs
<1> QED  BY <1>4, <1>5 DEF Next, ThreadActs

\* The result of the transaction stays true while the thread has the record.
LEMMA ResultStays ==
  ASSUME TypeInv, Knowledge, [Next]_vars, NEW i \in Instances,
         batch'[i] = batch[i], result'[i] = result[i]
  PROVE  /\ result'[i] \in {"CREATED", "IDEMPOTENT"} => Current(i)' \in dbOrders'
         /\ result'[i] = "DUPLICATE" => IsDuplicate(Current(i))'
<1>1. Current(i)' = Current(i)
  BY CurrentStays
<1>2. ThreadKnows(i)
  BY DEF Knowledge
<1>3. result[i] # "NONE" => Current(i) \in Admitted
  BY <1>2, CurrentKnown DEF ThreadKnows, TypeInv, ConsumerOK
<1>4. result[i] = "DUPLICATE" => IsDuplicate(Current(i))'
  <2> SUFFICES ASSUME result[i] = "DUPLICATE" PROVE IsDuplicate(Current(i))'
    OBVIOUS
  <2> DEFINE o == Current(i)
  <2>1. o \in Admitted /\ IsDuplicate(o)
    BY <1>2, <1>3 DEF ThreadKnows
  <2>2. o' = o
    BY <1>1
  <2> HIDE DEF o
  <2>3. owner'[o] = owner[o]
    BY <2>1, OwnerFixed
  <2>4. \E p \in dbOrders' : owner'[p] = owner'[o]
    BY <2>1, DuplicateStays DEF IsDuplicate, OrderOf
  <2>5. o \notin dbOrders'
    BY <2>1, DuplicateStays DEF IsDuplicate
  <2>6. o' \notin dbOrders' /\ \E p \in dbOrders' : owner'[p] = owner'[o']
    BY <2>2, <2>4, <2>5
  <2> QED  BY <2>6 DEF IsDuplicate, OrderOf, o
<1> QED  BY <1>1, <1>2, <1>4, Monotone DEF ThreadKnows

\* A thread that goes on with its record, given what it must know at its next
\* call.
LEMMA GoesOn ==
  ASSUME TypeInv, Knowledge, [Next]_vars, NEW i \in Instances,
         batch'[i] = batch[i], result'[i] = result[i],
         pc'[i] \notin {"poll", "recover"},
         pc'[i] \in {"unlock", "release"} => result[i] # "NONE",
         pc'[i] = "restore" => result[i] = "DUPLICATE",
         pc'[i] = "mark" => result[i] \in {"CREATED", "IDEMPOTENT", "DUPLICATE"},
         pc'[i] \in {"mark", "zrem", "hdel", "ack"} => Current(i) \in dbOrders' \cup Released',
         pc'[i] = "markFailed" => Current(i) \in dlq',
         pc'[i] = "ackFailed" => \/ Current(i) \in dbOrders' \cup Released'
                                 \/ Current(i) \in dlq' /\ status'[Current(i)] = "FAILED"
  PROVE  ThreadKnows(i)'
<1>1. Current(i)' = Current(i)
  BY CurrentStays
<1> QED  BY <1>1, ResultStays DEF ThreadKnows, Settled, Safe

\* A thread without a result has nothing to know yet.
LEMMA StartsAnew ==
  ASSUME NEW i \in Instances, result'[i] = "NONE", pc'[i] \in {"poll", "recover", "lock"}
  PROVE  ThreadKnows(i)'
BY DEF ThreadKnows

LEMMA ThrowKnows ==
  ASSUME TypeInv, Knowledge, [Next]_vars, NEW i \in Instances, Throw(i)
  PROVE  ThreadKnows(i)'
<1>1. CASE pc[i] \in ProcessPc
  BY <1>1, GoesOn DEF Throw, Goto, TypeInv, ConsumerOK
<1>2. CASE pc[i] \notin ProcessPc
  BY <1>2, StartsAnew DEF Throw, TypeInv, ConsumerOK
<1> QED  BY <1>1, <1>2

LEMMA NextRecordKnows ==
  ASSUME TypeInv, NEW i \in Instances, NextRecord(i)
  PROVE  ThreadKnows(i)'
BY StartsAnew DEF NextRecord, TypeInv, ConsumerOK

\* Whatever a thread does, it knows what it has to know at its next call.
LEMMA ThreadNext ==
  ASSUME TypeInv, Knowledge, [Next]_vars, NEW i \in Instances
  PROVE  ThreadKnows(i)'
<1> DEFINE o == Current(i)
<1>0. ConsumerOK /\ ThreadKnows(i)
  BY DEF TypeInv, Knowledge
<1>1. CASE SameThread(i)
  <2>1. /\ pc[i] \in {"mark", "zrem", "hdel", "ack"} => o \in dbOrders' \cup Released'
        /\ pc[i] = "ackFailed" => \/ o \in dbOrders' \cup Released'
                                  \/ o \in dlq' /\ status'[o] = "FAILED"
        /\ pc[i] = "markFailed" => o \in dlq'
    <3>1. pc[i] = "ackFailed" => o \in Admitted
      BY <1>0, CurrentKnown DEF ConsumerOK
    <3>2. /\ pc[i] \in {"mark", "zrem", "hdel", "ack"} => Settled(o)
          /\ pc[i] = "ackFailed" => Safe(o)
          /\ pc[i] = "markFailed" => o \in dlq
      BY <1>0 DEF ThreadKnows
    <3> HIDE DEF o
    <3> QED  BY <3>1, <3>2, SettledStays, SafeStays, Monotone DEF Settled, Safe, o
  <2>2. o' = o
    BY <1>1, CurrentStays DEF SameThread
  <2>3. CASE pc[i] \in {"poll", "recover"}
    BY <1>0, <1>1, <2>3, StartsAnew DEF SameThread, ThreadKnows
  <2>4. CASE pc[i] \notin {"poll", "recover"}
    BY <1>0, <1>1, <2>1, <2>2, <2>4, GoesOn DEF SameThread, ThreadKnows, Settled, Safe
  <2> QED  BY <2>3, <2>4
<1>2. CASE ReadNew(i) \/ SkipRecovery(i) \/ ReadPending(i)
  <2>1. result[i] = "NONE" /\ pc[i] \in {"poll", "recover"}
    BY <1>0, <1>2 DEF ReadNew, SkipRecovery, ReadPending, ThreadKnows
  <2>2. CASE Throw(i)
    BY <2>2, ThrowKnows
  <2>3. CASE ~Throw(i)
    BY <1>0, <1>2, <2>1, <2>3, StartsAnew DEF ReadNew, SkipRecovery, ReadPending, Reply, Goto, ConsumerOK
  <2> QED  BY <2>2, <2>3
<1>3. ASSUME NEW next \in {"select", "write", "retry", "deadLetter", "hdelFailed"}, Goto(i, next)
      PROVE  ThreadKnows(i)'
  BY <1>0, <1>3, GoesOn DEF Goto, ConsumerOK
<1>4. CASE TryLock(i) \/ RedisCallFails(i) \/ AckFailed(i)
  BY <1>3, <1>4, ThrowKnows DEF TryLock, RedisCallFails, AckFailed, Reply
<1>5. CASE Crash(i)
  BY <1>0, <1>5, StartsAnew DEF Crash, ConsumerOK
<1>6. ASSUME NEW r \in PersistResult, Persisted(i, r), r # "NONE",
             r \in {"CREATED", "IDEMPOTENT"} => o \in dbOrders',
             r = "DUPLICATE" => o \in Admitted /\ IsDuplicate(o)
      PROVE  ThreadKnows(i)'
  <2>1. batch'[i] = batch[i] /\ result'[i] = r /\ pc'[i] = "unlock"
    BY <1>0, <1>6 DEF Persisted, ConsumerOK
  <2>2. o' = o
    BY <2>1, CurrentStays
  <2>3. r = "DUPLICATE" => o \notin dbOrders' /\ \E p \in dbOrders' : owner'[p] = owner'[o]
    BY <1>6, DuplicateStays DEF IsDuplicate, OrderOf
  <2> HIDE DEF o
  <2>4. r = "DUPLICATE" => o' \notin dbOrders' /\ \E p \in dbOrders' : owner'[p] = owner'[o']
    BY <2>2, <2>3
  <2> QED  BY <1>6, <2>1, <2>2, <2>4 DEF ThreadKnows, IsDuplicate, OrderOf, o
<1>7. CASE SelectOrder(i)
  <2>1. o \in Admitted /\ dbOrders' = dbOrders
    BY <1>0, <1>7, CurrentKnown DEF SelectOrder, ConsumerOK, db
  <2> QED  BY <1>3, <1>6, <1>7, <2>1 DEF SelectOrder, PersistResult, IsDuplicate
<1>8. CASE WriteOrder(i)
  BY <1>6, <1>8 DEF WriteOrder, PersistResult
<1>9. CASE CheckHeld(i) \/ Unlock(i)
  <2>1. result[i] \in PersistResult \ {"NONE"} /\ pc[i] \in {"unlock", "release"}
    BY <1>0, <1>9 DEF CheckHeld, Unlock, ThreadKnows, ConsumerOK
  <2>2. AfterPersist(i) \in {"retry", "restore", "mark"}
    BY DEF AfterPersist
  <2>3. AfterPersist(i) = "restore" => result[i] = "DUPLICATE"
    BY DEF AfterPersist
  <2>4. AfterPersist(i) = "mark" => result[i] \notin {"ERROR", "DUPLICATE"}
    BY DEF AfterPersist
  <2>5. result[i] \in {"CREATED", "IDEMPOTENT"} => o \in dbOrders'
    BY <1>0, Monotone DEF ThreadKnows
  <2>6. ASSUME Goto(i, AfterPersist(i))  PROVE ThreadKnows(i)'
    <3>1. pc'[i] = AfterPersist(i) /\ batch' = batch /\ result' = result
      BY <1>0, <2>6 DEF Goto, ConsumerOK
    <3> HIDE DEF o
    <3> QED  BY <2>1, <2>2, <2>3, <2>4, <2>5, <3>1, GoesOn DEF PersistResult, o
  <2>7. ASSUME Goto(i, "release")  PROVE ThreadKnows(i)'
    BY <1>0, <2>1, <2>7, GoesOn DEF Goto, ConsumerOK
  <2>8. \/ Goto(i, "release") \/ Goto(i, AfterPersist(i)) \/ Goto(i, "retry") \/ Throw(i)
    BY <1>9 DEF CheckHeld, Unlock, Reply
  <2> QED  BY <1>3, <2>6, <2>7, <2>8, ThrowKnows
<1>10. ASSUME NEW next \in {"mark", "zrem", "hdel", "ack"}, Goto(i, next),
              o \in dbOrders' \cup Released',
              next = "mark" => result[i] = "DUPLICATE"
       PROVE  ThreadKnows(i)'
  BY <1>0, <1>10, GoesOn DEF Goto, ConsumerOK
<1>11. CASE RestoreReservation(i)
  <2>1. result[i] = "DUPLICATE"
    BY <1>0, <1>11 DEF RestoreReservation, ThreadKnows
  <2>2. o \in Released'
    BY <1>11 DEF RestoreReservation, RestoreDuplicate, Released
  <2>3. Goto(i, "mark") \/ Throw(i)
    BY <1>11 DEF RestoreReservation, Reply
  <2> QED  BY <1>10, <2>1, <2>2, <2>3, ThrowKnows
<1>12. CASE MarkProcessed(i) \/ RemovePending(i) \/ DeleteRetries(i)
  <2>1. o \in dbOrders' \cup Released'
    BY <1>0, <1>12, SettledStays DEF MarkProcessed, RemovePending, DeleteRetries, ThreadKnows, Settled
  <2>2. Goto(i, "zrem") \/ Goto(i, "hdel") \/ Goto(i, "ack") \/ Throw(i)
    BY <1>12 DEF MarkProcessed, RemovePending, DeleteRetries, Reply
  <2> QED  BY <1>10, <2>1, <2>2, ThrowKnows
<1>13. CASE AckProcessed(i) \/ CountRetry(i) \/ DeleteFailedRetries(i)
  BY <1>3, <1>13, NextRecordKnows, ThrowKnows DEF AckProcessed, CountRetry, DeleteFailedRetries, Reply
<1>14. CASE AddDeadLetter(i)
  <2>1. o \in dlq' /\ (Goto(i, "markFailed") \/ Throw(i))
    BY <1>14 DEF AddDeadLetter, Reply
  <2>2. ASSUME Goto(i, "markFailed")  PROVE ThreadKnows(i)'
    BY <1>0, <2>1, <2>2, GoesOn DEF Goto, ConsumerOK
  <2> QED  BY <2>1, <2>2, ThrowKnows
<1>15. CASE MarkFailed(i)
  <2>1. o \in Orders /\ pc[i] = "markFailed" /\ o \in dlq'
    BY <1>0, <1>15, CurrentKnown, Monotone DEF MarkFailed, ThreadKnows, ConsumerOK
  <2>2. status'[o] = "FAILED"
    BY <1>15, <2>1 DEF MarkFailed, MarkOrderStatus, TypeInv, ProgressOK
  <2>3. Goto(i, "ackFailed") \/ Throw(i)
    BY <1>15 DEF MarkFailed, Reply
  <2>4. ASSUME Goto(i, "ackFailed")  PROVE ThreadKnows(i)'
    BY <1>0, <2>1, <2>2, <2>4, GoesOn DEF Goto, ConsumerOK
  <2> QED  BY <2>3, <2>4, ThrowKnows
<1> HIDE DEF o
<1> QED  BY <1>1, <1>2, <1>4, <1>5, <1>7, <1>8, <1>9, <1>11, <1>12, <1>13, <1>14, <1>15,
            ThreadFrame DEF ThreadActs, Consume

-----------------------------------------------------------------------------
\* The job threads.

SameJob(i) == jobPc'[i] = jobPc[i] /\ jobOrders'[i] = jobOrders[i] /\ decision'[i] = decision[i]

JobActs(i) ==
  Reconcile(i) \/ JobCallFails(i) \/ AbortJob(i) \/ \E o \in Orders : StartJob(i, o)

LEMMA JobThreadFrame ==
  ASSUME TypeInv, [Next]_vars, NEW j \in Instances
  PROVE  SameJob(j) \/ JobActs(j)
<1>0. JobOK
  BY DEF TypeInv
<1>1. ASSUME NEW i \in Instances,
             \/ ReadStatus(i) \/ FindOrder(i) \/ ReturnReservation(i) \/ MarkReconciled(i)
             \/ RemoveReconciled(i) \/ JobCallFails(i) \/ Crash(i) \/ \E o \in Orders : StartJob(i, o)
      PROVE  \A k \in Instances \ {i} : SameJob(k)
  <2>1. \/ AbortJob(i) \/ NextOrder(i) \/ (\E next \in JobPc : JobGoto(i, next))
        \/ FindOrder(i) \/ \E o \in Orders : StartJob(i, o)
    BY <1>1 DEF ReadStatus, ReturnReservation, MarkReconciled, RemoveReconciled, JobCallFails,
                Crash, JobReply, JobPc
  <2> QED  BY <1>0, <2>1 DEF AbortJob, NextOrder, JobGoto, FindOrder, StartJob, JobOK, SameJob
<1>2. ASSUME \/ \E u \in Users : Seckill(u) \/ LeaseExpires(u)
             \/ \E i \in Instances : Consume(i) \/ RedisCallFails(i)
             \/ UNCHANGED vars
      PROVE  SameJob(j)
  BY <1>2 DEF Seckill, LeaseExpires, Consume, RedisCallFails, vars, job, SameJob, ReadNew,
              SkipRecovery, ReadPending, TryLock, SelectOrder, WriteOrder, CheckHeld, Unlock,
              RestoreReservation, MarkProcessed, RemovePending, DeleteRetries, AckProcessed,
              CountRetry, AddDeadLetter, MarkFailed, AckFailed, DeleteFailedRetries
<1>3. ASSUME NEW i \in Instances,
             Reconcile(i) \/ JobCallFails(i) \/ Crash(i) \/ \E o \in Orders : StartJob(i, o)
      PROVE  SameJob(j) \/ JobActs(j)
  <2>1. CASE i = j
    BY <1>3, <2>1 DEF JobActs, Crash
  <2>2. CASE i # j
    BY <1>1, <1>3, <2>2 DEF Reconcile
  <2> QED  BY <2>1, <2>2
<1> QED  BY <1>2, <1>3 DEF Next

\* The decision stays true while the job has the order.
LEMMA JobGoesOn ==
  ASSUME TypeInv, Knowledge, [Next]_vars, NEW i \in Instances, jobPc[i] # "idle",
         jobOrders'[i] = jobOrders[i], decision'[i] = decision[i],
         jobPc'[i] \in {"idle", "status", "find"} => decision[i] = "NONE",
         jobPc'[i] \in {"mark", "zrem"} => JobCurrent(i) \in dbOrders' \cup Released',
         jobPc'[i] \in {"mark", "zrem"} /\ decision[i] = "COMPENSATED" => JobCurrent(i) \in Released'
  PROVE  JobKnows(i)'
<1> DEFINE o == JobCurrent(i)
<1>1. o' = o
  BY JobCurrentStays
<1>2. JobKnows(i) /\ o \in Admitted
  BY JobCurrentKnown DEF Knowledge, TypeInv, JobOK
<1>3. decision[i] = "DUPLICATE" => o \notin dbOrders' /\ \E p \in dbOrders' : owner'[p] = owner'[o]
  BY <1>2, DuplicateStays DEF JobKnows, IsDuplicate, OrderOf
<1>4. decision[i] = "SUCCESS" => o \in dbOrders'
  BY <1>2, Monotone DEF JobKnows
<1>6. decision[i] # "FAILED"
  BY <1>2 DEF JobKnows
<1> HIDE DEF o
<1>5. decision[i] = "DUPLICATE" => o' \notin dbOrders' /\ \E p \in dbOrders' : owner'[p] = owner'[o']
  BY <1>1, <1>3
<1> QED  BY <1>1, <1>4, <1>5, <1>6 DEF JobKnows, IsDuplicate, OrderOf, Settled, o

LEMMA JobNext ==
  ASSUME TypeInv, Knowledge, [Next]_vars, NEW i \in Instances
  PROVE  JobKnows(i)'
<1> DEFINE o == JobCurrent(i)
<1>0. JobOK /\ JobKnows(i)
  BY DEF TypeInv, Knowledge
<1>1. ASSUME decision'[i] = "NONE", jobPc'[i] \in {"idle", "status", "find"}
      PROVE  JobKnows(i)'
  BY <1>1 DEF JobKnows
<1>2. CASE AbortJob(i) \/ NextOrder(i) \/ \E k \in Orders : StartJob(i, k)
  BY <1>0, <1>1, <1>2 DEF AbortJob, NextOrder, StartJob, JobOK, JobKnows
<1>3. CASE SameJob(i)
  <2>1. CASE jobPc[i] = "idle"
    BY <1>0, <1>1, <1>3, <2>1 DEF SameJob, JobKnows
  <2>2. CASE jobPc[i] # "idle"
    <3>1. jobPc[i] \in {"mark", "zrem"} => o \in dbOrders' \cup Released'
      BY <1>0, SettledStays DEF JobKnows, Settled
    <3>2. o \in Released => o \in Released'
      BY <1>0, JobCurrentKnown, Monotone DEF JobOK
    <3> QED  BY <1>0, <1>3, <2>2, <3>1, <3>2, JobGoesOn DEF SameJob, JobKnows
  <2> QED  BY <2>1, <2>2
<1>4. CASE ReadStatus(i)
  <2>1. ASSUME JobGoto(i, "find")  PROVE JobKnows(i)'
    BY <1>0, <1>1, <1>4, <2>1 DEF ReadStatus, JobGoto, JobOK, JobKnows
  <2> QED  BY <1>2, <1>4, <2>1 DEF ReadStatus
<1>5. CASE FindOrder(i)
  <2> DEFINE d == Decide(o)
  <2>1. /\ decision'[i] = d /\ jobOrders'[i] = jobOrders[i]
        /\ jobPc'[i] = IF d = "SUCCESS" THEN "mark" ELSE "return"
    BY <1>0, <1>5 DEF FindOrder, JobOK
  <2>2. dbOrders' = dbOrders /\ owner' = owner
    BY <1>5 DEF FindOrder, db, reservation
  <2>3. o' = o
    BY <2>1, JobCurrentStays
  <2>4. d = "SUCCESS" => o \in dbOrders
    BY DEF Decide
  <2>5. d = "DUPLICATE" => o \notin dbOrders /\ \E p \in dbOrders : owner[p] = owner[o]
    BY DEF Decide, OrderOf
  <2>6. d # "NONE" /\ d # "FAILED"
    BY DEF Decide
  <2> HIDE DEF o, d
  <2>7. d = "DUPLICATE" => o' \notin dbOrders' /\ \E p \in dbOrders' : owner'[p] = owner'[o']
    BY <2>2, <2>3, <2>5
  <2> QED  BY <2>1, <2>2, <2>3, <2>4, <2>6, <2>7 DEF JobKnows, IsDuplicate, OrderOf, Settled, o
<1>6. ASSUME NEW next \in {"mark", "zrem"}, JobGoto(i, next), jobPc[i] # "idle",
             o \in dbOrders' \cup Released',
             decision[i] = "COMPENSATED" => o \in Released'
      PROVE  JobKnows(i)'
  BY <1>0, <1>6, JobGoesOn DEF JobGoto, JobOK
<1>7. CASE ReturnReservation(i)
  <2>1. o \in Released'
    BY <1>7 DEF ReturnReservation, RestoreDuplicate, CompensateFailed, Released
  <2> QED  BY <1>2, <1>6, <1>7, <2>1 DEF ReturnReservation, JobReply
<1>8. CASE MarkReconciled(i)
  <2>1. o \in dbOrders' \cup Released'
    BY <1>0, <1>8, SettledStays DEF MarkReconciled, JobKnows, Settled
  <2>2. decision[i] = "COMPENSATED" => o \in Released'
    BY <1>0, <1>8, Monotone DEF MarkReconciled, JobKnows
  <2> QED  BY <1>2, <1>6, <1>8, <2>1, <2>2 DEF MarkReconciled, JobReply
<1>9. CASE RemoveReconciled(i) \/ JobCallFails(i)
  BY <1>2, <1>9 DEF RemoveReconciled, JobCallFails, JobReply
<1> HIDE DEF o
<1> QED  BY <1>2, <1>3, <1>4, <1>5, <1>7, <1>8, <1>9, JobThreadFrame DEF JobActs, Reconcile

-----------------------------------------------------------------------------
\* Where an order is that is neither sold nor given back.

\* It leaves the pending ZSET only when it is settled.
LEMMA PendingNext ==
  ASSUME TypeInv, Knowledge, [Next]_vars, NEW o \in Admitted', ~Settled(o)'
  PROVE  o \in pendingZ'
<1>1. CASE o \notin Admitted
  <2>1. issued' # issued
    BY <1>1 DEF Admitted
  <2>2. PICK u \in Users : Seckill(u)
    BY <2>1, ReservationWrite DEF reservation, RestoreDuplicate, CompensateFailed
  <2>3. o = issued + 1
    BY <1>1, <2>2, BoundsAssumption DEF Seckill, Admitted, TypeInv, ReservationOK
  <2> QED  BY <2>2, <2>3 DEF Seckill
<1>2. CASE o \in Admitted
  <2>1. ~Settled(o) /\ o \in pendingZ
    BY <1>2, SettledStays DEF Knowledge, OrderKept
  <2>2. ASSUME NEW i \in Instances, RemovePending(i)
        PROVE  o \in pendingZ'
    <3>1. Settled(Current(i))
      BY <2>2 DEF RemovePending, Knowledge, ThreadKnows
    <3> QED  BY <2>1, <2>2, <3>1 DEF RemovePending
  <2>3. ASSUME NEW i \in Instances, RemoveReconciled(i)
        PROVE  o \in pendingZ'
    <3>1. Settled(JobCurrent(i))
      BY <2>3 DEF RemoveReconciled, Knowledge, JobKnows
    <3> QED  BY <2>1, <2>3, <3>1 DEF RemoveReconciled
  <2> QED  BY <2>1, <2>2, <2>3, ProgressFrame DEF progress, Seckill, MarkProcessed, MarkFailed,
                                                  MarkReconciled
<1> QED  BY <1>1, <1>2

\* It leaves the pending entries lists only when it is safe.
LEMMA StreamKeeps ==
  ASSUME TypeInv, Knowledge, [Next]_vars, NEW o \in Admitted'
  PROVE  o > delivered' \/ (\E c \in Consumers : o \in pel'[c]) \/ Safe(o)'
<1> DEFINE Kept == o > delivered' \/ (\E c \in Consumers : o \in pel'[c]) \/ Safe(o)'
<1>0. /\ delivered \in Int /\ delivered =< issued /\ pel \in [Consumers -> SUBSET (1..delivered)]
      /\ issued \in Int
  BY BoundsAssumption DEF TypeInv, ReservationOK, StreamOK
<1>1. CASE o \notin Admitted
  <2>1. issued' # issued
    BY <1>1 DEF Admitted
  <2>2. PICK u \in Users : Seckill(u)
    BY <2>1, ReservationWrite DEF reservation, RestoreDuplicate, CompensateFailed
  <2>3. o = issued + 1 /\ delivered' = delivered
    BY <1>0, <1>1, <2>2 DEF Seckill, Admitted, stream
  <2> QED  BY <1>0, <2>3
<1>2. CASE o \in Admitted /\ Safe(o)
  BY <1>2, SafeStays
<1>3. CASE o \in Admitted /\ ~Safe(o)
  <2>1. o > delivered \/ \E c \in Consumers : o \in pel[c]
    BY <1>3 DEF Knowledge, OrderKept
  <2>2. ASSUME NEW i \in Instances, AckProcessed(i) \/ AckFailed(i)
        PROVE  delivered' = delivered /\ \A c \in Consumers : o \in pel[c] => o \in pel'[c]
    <3>1. Safe(Current(i))
      BY <2>2 DEF AckProcessed, AckFailed, Knowledge, ThreadKnows, Safe
    <3> QED  BY <1>0, <1>3, <2>2, <3>1 DEF AckProcessed, AckFailed, Acknowledge
  <2>3. ASSUME NEW i \in Instances, ReadNew(i)
        PROVE  o > delivered' \/ \E c \in Consumers : o \in pel'[c]
    <3> DEFINE n == Min({ReadCount, issued - delivered})
               new == (delivered + 1)..(delivered + n)
               c == ConsumerName[i]
    <3>1. n \in Nat
      BY NewCount
    <3>2. delivered' = delivered + n /\ pel' = [pel EXCEPT ![c] = @ \cup new]
      BY <2>3 DEF ReadNew
    <3>3. c \in Consumers
      BY NamesAssumption
    <3>4. o \in Int
      BY <1>0, <1>3 DEF Admitted
    <3>5. CASE \E d \in Consumers : o \in pel[d]
      <4> HIDE DEF new, c
      <4> QED  BY <1>0, <3>2, <3>3, <3>5
    <3>6. CASE o > delivered
      <4> HIDE DEF n
      <4>1. o > delivered' \/ o \in new
        BY <1>0, <3>1, <3>2, <3>4, <3>6
      <4> HIDE DEF new, c
      <4> QED  BY <1>0, <3>2, <3>3, <4>1
    <3> QED  BY <2>1, <3>5, <3>6
  <2>4. \/ UNCHANGED <<delivered, pel>>
        \/ \E i \in Instances : ReadNew(i) \/ AckProcessed(i) \/ AckFailed(i)
    BY StreamFrame DEF stream, DeleteRetries, CountRetry, AddDeadLetter, DeleteFailedRetries
  <2> QED  BY <2>1, <2>2, <2>3, <2>4
<1> QED  BY <1>1, <1>2, <1>3

-----------------------------------------------------------------------------
LEMMA KnowledgeNext ==
  ASSUME TypeInv, Knowledge, [Next]_vars
  PROVE  Knowledge'
<1>1. \A i \in Instances : ThreadKnows(i)' /\ JobKnows(i)'
  BY ThreadNext, JobNext
<1>2. \A o \in Admitted' : OrderKept(o)'
  BY PendingNext, StreamKeeps DEF OrderKept
<1>3. \A o \in Orders' \ Admitted' : status'[o] = "NONE"
  BY UnknownNext DEF Orders
<1> QED  BY <1>1, <1>2, <1>3, TruthNext DEF Knowledge

LEMMA KnowledgeInvariant == Spec => []Knowledge
BY KnowledgeInit, KnowledgeNext, TypeInvariant, PTL DEF Spec

\* A client that polls is never told SUCCESS of an order that is not in the
\* database, DUPLICATE of one without a sold rival or that is not given back,
\* COMPENSATED of one that is not given back, nor FAILED of one without a dead
\* letter, whatever fails and however many instances share a consumer name.
THEOREM PolledStatusIsTrue == Spec => []TruthfulStatus
<1>1. Knowledge => TruthfulStatus
  BY DEF Knowledge
<1> QED  BY <1>1, KnowledgeInvariant, PTL

\* No accepted order is forgotten: it is to be read, pending, or a dead letter
\* that the reconciliation job will find, until it is sold or given back.
THEOREM NothingIsLost == Spec => []NoLostReservation
<1>1. Knowledge => NoLostReservation
  <2> SUFFICES ASSUME Knowledge, NEW o \in Outstanding
               PROVE  \/ o > delivered
                      \/ \E c \in Consumers : o \in pel[c]
                      \/ o \in dlq /\ o \in pendingZ /\ status[o] = "FAILED"
    BY DEF NoLostReservation
  <2>1. o \in Admitted /\ ~Settled(o)
    BY DEF Outstanding, Settled
  <2> QED  BY <2>1 DEF Knowledge, OrderKept, Safe
<1> QED  BY <1>1, KnowledgeInvariant, PTL

(***************************************************************************)
(* On one instance whose Redis does not fail, the pipeline is the abstract *)
(* sale, for any users, orders, stock and failing transactions.            *)
(***************************************************************************)

-----------------------------------------------------------------------------
\* One instance and a reliable Redis; the database may fail.
me == CHOOSE i \in Instances : TRUE
Solo == Instances = {me} /\ RedisFaults = 0 /\ Crashes = 0

\* The consumer will still come to the order, or is at it.
Open(o) == o > delivered \/ \E c \in Consumers : o \in pel[c]

Untouched(o) == o \notin Released /\ status[o] = "PENDING" /\ o \in pendingZ

\* The calls at which the outcome of the current record may be known to others.
TellPc == {"mark", "zrem", "hdel", "ack", "ackFailed"}
Final == {"SUCCESS", "DUPLICATE", "COMPENSATED"}

\* Nothing happens to an order before the consumer is through with it, and the job
\* only touches what the consumer has given up.
OpenInv ==
  \A o \in Admitted : Open(o) => Untouched(o) \/ (pc[me] \in TellPc /\ o = Current(me))

\* A record stays in the pending entries list until it is acknowledged.
BatchInv ==
  \A o \in batch[me] :
    (\E c \in Consumers : o \in pel[c]) \/ (pc[me] = "hdelFailed" /\ o = Current(me))

ThreadInv ==
  /\ pc[me] = "mark" => status[Current(me)] = "PENDING"
  /\ pc[me] \in {"zrem", "hdel", "ack"} => status[Current(me)] \in Final

\* The job holds a dead letter that nobody else touches: it stays out of the database
\* once the job has not found it there.
JobInv ==
  /\ jobPc[me] \in {"find", "return", "mark"} => status[JobCurrent(me)] = "FAILED"
  /\ jobPc[me] = "return" => /\ decision[me] \in {"DUPLICATE", "COMPENSATED"}
                             /\ JobCurrent(me) \notin dbOrders
  /\ jobPc[me] = "mark" => decision[me] \in Final
  /\ jobPc[me] = "zrem" => status[JobCurrent(me)] \in Final

\* A dead letter is within reach of the job, which releases it only to settle it next.
FailedInv ==
  \A o \in Admitted : status[o] = "FAILED" =>
    o \in pendingZ /\ (o \in Released => jobPc[me] = "mark" /\ o = JobCurrent(me))

Reliable == faults["redis"] = 0 /\ faults["crash"] = 0

SoloInv ==
  Reliable /\ ReleasedOnce /\ OpenInv /\ BatchInv /\ ThreadInv /\ JobInv /\ FailedInv

-----------------------------------------------------------------------------
\* What every proof about a step needs.

LEMMA SoloInit ==
  ASSUME Solo, Init
  PROVE  SoloInv
<1>1. me \in Instances /\ Admitted = {}
  BY DEF Solo, Init, Admitted
<1>2. pc[me] = "poll" /\ batch[me] = {} /\ jobPc[me] = "idle"
  BY <1>1 DEF Init
<1>3. Reliable /\ ReleasedOnce
  BY DEF Solo, Init, Reliable, ReleasedOnce
<1> QED  BY <1>1, <1>2, <1>3 DEF SoloInv, OpenInv, BatchInv, ThreadInv, JobInv, FailedInv

\* Nothing that Redis executes or refuses fails, and nobody crashes.
LEMMA NothingFails ==
  ASSUME Solo, SoloInv
  PROVE  /\ me \in Instances /\ \A i \in Instances : i = me
         /\ ~Spend("redis") /\ ~Spend("crash")
BY DEF Solo, SoloInv, Reliable, Spend

LEMMA ReliableNext ==
  ASSUME TypeInv, SoloInv, UNCHANGED faults \/ Spend("db")
  PROVE  Reliable'
BY DEF TypeInv, FaultsOK, SoloInv, Reliable, Spend

\* A record in the hands of the consumer is untouched until the consumer tells.
LEMMA CurrentUntouched ==
  ASSUME Solo, TypeInv, SoloInv, pc[me] \notin {"poll", "recover"}
  PROVE  /\ Current(me) \in batch[me] /\ Current(me) \in Admitted /\ Current(me) \in Orders
         /\ pc[me] \notin TellPc \cup {"hdelFailed"} => Untouched(Current(me))
<1>1. me \in Instances
  BY DEF Solo
<1>2. batch[me] # {}
  BY <1>1 DEF TypeInv, ConsumerOK
<1>3. Current(me) \in batch[me] /\ Current(me) \in Admitted /\ Current(me) \in Orders
  BY <1>1, <1>2, CurrentKnown
<1>4. pc[me] # "hdelFailed" => Open(Current(me))
  BY <1>3 DEF SoloInv, BatchInv, Open
<1> QED  BY <1>3, <1>4 DEF SoloInv, OpenInv

-----------------------------------------------------------------------------
\* Steps of the consumer that touch no order.

LEMMA ConsumerKeeps ==
  ASSUME Solo, TypeInv, SoloInv, Reliable', BatchInv', ThreadInv',
         UNCHANGED <<reservation, progress, dbOrders, job>>,
         \A o \in Admitted : (Open(o)') => Open(o),
         pc[me] \in TellPc =>
           \/ pc'[me] \in TellPc /\ batch'[me] = batch[me]
           \/ \A o \in Admitted : (Open(o)') => o # Current(me)
  PROVE  SoloInv'
<1>1. Admitted' = Admitted /\ Released' = Released
  BY DEF reservation, Admitted, Released
<1>2. \A o : Untouched(o) => Untouched(o)'
  BY <1>1 DEF Untouched, progress
<1>3. batch'[me] = batch[me] => Current(me)' = Current(me)
  BY DEF Current
<1>4. OpenInv'
  BY <1>1, <1>2, <1>3 DEF SoloInv, OpenInv
<1>5. JobCurrent(me)' = JobCurrent(me)
  BY DEF JobCurrent, job
<1>6. JobInv' /\ FailedInv'
  BY <1>1, <1>5 DEF SoloInv, JobInv, FailedInv, job, progress
<1>7. ReleasedOnce'
  BY DEF SoloInv, ReleasedOnce, reservation
<1> QED  BY <1>4, <1>6, <1>7 DEF SoloInv

LEMMA ReadKeeps ==
  ASSUME Solo, TypeInv, SoloInv, ReadNew(me) \/ SkipRecovery(me) \/ ReadPending(me)
  PROVE  SoloInv'
<1>0. me \in Instances /\ ~Spend("redis") /\ Reliable'
  BY NothingFails, ReliableNext DEF ReadNew, SkipRecovery, ReadPending, Reply
<1>1. pc \in [Instances -> ConsumerPc] /\ batch \in [Instances -> SUBSET Admitted]
  BY DEF TypeInv, ConsumerOK
<1>2. /\ pc[me] \in {"poll", "recover"} /\ pc'[me] \in {"poll", "recover", "lock"}
      /\ UNCHANGED <<reservation, progress, dbOrders, job>>
  BY <1>0, <1>1 DEF ReadNew, SkipRecovery, ReadPending, Reply, Goto, db
<1>3. ThreadInv'
  BY <1>2 DEF ThreadInv
<1>4. CASE ReadNew(me)
  <2> DEFINE n == Min({ReadCount, issued - delivered})
             new == (delivered + 1)..(delivered + n)
             c == ConsumerName[me]
  <2>1. n \in Nat /\ delivered \in Nat /\ c \in Consumers /\ issued \in Nat
    BY <1>0, NewCount, NamesAssumption, BoundsAssumption DEF TypeInv, StreamOK, ReservationOK
  <2>2. /\ delivered' = delivered + n /\ pel' = [pel EXCEPT ![c] = @ \cup new]
        /\ batch'[me] = new
    BY <1>0, <1>1, <1>4 DEF ReadNew, Reply
  <2>3. pel \in [Consumers -> SUBSET (1..delivered)]
    BY DEF TypeInv, StreamOK
  <2> HIDE DEF n
  <2>4. \A o \in new : o > delivered
    BY <2>1
  <2>5. \A o \in Admitted : o > delivered' => o > delivered
    BY <2>1, <2>2 DEF Admitted
  <2> HIDE DEF new, c
  <2>6. \A o \in Admitted : (Open(o)') => Open(o)
    BY <2>1, <2>2, <2>3, <2>4, <2>5 DEF Open
  <2>7. BatchInv'
    BY <2>1, <2>2, <2>3 DEF BatchInv
  <2> QED  BY <1>0, <1>2, <1>3, <2>6, <2>7, ConsumerKeeps DEF TellPc
<1>5. CASE SkipRecovery(me) \/ ReadPending(me)
  <2>1. UNCHANGED stream
    BY <1>5 DEF SkipRecovery, ReadPending
  <2>2. \A o \in Admitted : (Open(o)') => Open(o)
    BY <2>1 DEF Open, stream
  <2>3. BatchInv'
    <3>1. CASE SkipRecovery(me)
      BY <1>2, <2>1, <3>1 DEF SkipRecovery, Goto, SoloInv, BatchInv, stream
    <3>2. CASE ReadPending(me)
      <4>1. batch'[me] \subseteq pel[ConsumerName[me]]
        BY <1>0, <1>1, <3>2 DEF ReadPending, FirstN
      <4> QED  BY <1>0, <2>1, <4>1, NamesAssumption DEF BatchInv, stream
    <3> QED  BY <1>5, <3>1, <3>2
  <2> QED  BY <1>0, <1>2, <1>3, <2>2, <2>3, ConsumerKeeps DEF TellPc
<1> QED  BY <1>4, <1>5

LEMMA ThinkKeeps ==
  ASSUME Solo, TypeInv, SoloInv,
         \/ TryLock(me) \/ SelectOrder(me) \/ CheckHeld(me) \/ Unlock(me)
         \/ CountRetry(me) \/ AddDeadLetter(me)
  PROVE  SoloInv'
<1>0. me \in Instances /\ ~Spend("redis")
  BY NothingFails
<1>1. /\ pc \in [Instances -> ConsumerPc] /\ batch \in [Instances -> SUBSET Admitted]
      /\ result \in [Instances -> PersistResult]
  BY DEF TypeInv, ConsumerOK
<1>2. /\ pc[me] \in {"lock", "select", "unlock", "release", "retry", "deadLetter"}
      /\ UNCHANGED <<reservation, progress, delivered, pel, dbOrders, job>>
      /\ UNCHANGED faults \/ Spend("db")
      /\ batch'[me] \subseteq batch[me]
      /\ pc'[me] \notin {"zrem", "hdel", "ack"}
      /\ pc'[me] = "mark" => batch'[me] = batch[me]
  <2>1. CASE TryLock(me)
    BY <1>0, <1>1, <2>1 DEF TryLock, Reply, Goto, stream, db
  <2>2. CASE SelectOrder(me)
    BY <1>0, <1>1, <2>2 DEF SelectOrder, Persisted, Goto, stream, db
  <2>3. CASE CheckHeld(me) \/ Unlock(me)
    <3>1. AfterPersist(me) \in {"retry", "restore", "mark"}
      BY DEF AfterPersist
    <3> QED  BY <1>0, <1>1, <2>3, <3>1 DEF CheckHeld, Unlock, Reply, Goto, stream, db
  <2>4. CASE CountRetry(me) \/ AddDeadLetter(me)
    BY <1>0, <1>1, <2>4 DEF CountRetry, AddDeadLetter, Reply, Goto, NextRecord, db
  <2> QED  BY <2>1, <2>2, <2>3, <2>4
<1>3. Untouched(Current(me)) /\ Current(me) \in Orders
  BY <1>2, CurrentUntouched DEF TellPc
<1>4. ThreadInv'
  BY <1>2, <1>3, CurrentStays, <1>0 DEF ThreadInv, Untouched, progress
<1>5. BatchInv'
  BY <1>2 DEF SoloInv, BatchInv
<1>6. \A o \in Admitted : (Open(o)') => Open(o)
  BY <1>2 DEF Open
<1>7. Reliable'
  BY <1>2, ReliableNext
<1> QED  BY <1>2, <1>4, <1>5, <1>6, <1>7, ConsumerKeeps DEF TellPc

LEMMA ForgetKeeps ==
  ASSUME Solo, TypeInv, SoloInv,
         DeleteRetries(me) \/ AckProcessed(me) \/ AckFailed(me) \/ DeleteFailedRetries(me)
  PROVE  SoloInv'
<1> DEFINE r == Current(me)
<1>0. me \in Instances /\ ~Spend("redis")
  BY NothingFails
<1>1. pc \in [Instances -> ConsumerPc] /\ batch \in [Instances -> SUBSET Admitted]
  BY DEF TypeInv, ConsumerOK
<1>2. /\ pc[me] \in {"hdel", "ack", "ackFailed", "hdelFailed"}
      /\ UNCHANGED <<reservation, progress, delivered, dbOrders, job, faults>>
  BY <1>0 DEF DeleteRetries, AckProcessed, AckFailed, DeleteFailedRetries, Reply, db
<1>3. r \in batch[me] /\ r \in Admitted /\ Reliable'
  BY <1>2, CurrentUntouched, ReliableNext
<1>4. pel \in [Consumers -> SUBSET (1..delivered)] /\ delivered \in Nat
  BY BoundsAssumption DEF TypeInv, StreamOK, ReservationOK
<1>5. CASE DeleteRetries(me)
  <2>1. pc[me] = "hdel" /\ pc'[me] = "ack" /\ UNCHANGED <<batch, pel>>
    BY <1>0, <1>1, <1>5 DEF DeleteRetries, Reply, Goto
  <2>2. r' = r
    BY <2>1 DEF Current
  <2>3. BatchInv' /\ ThreadInv' /\ \A o \in Admitted : (Open(o)') => Open(o)
    BY <1>2, <2>1, <2>2 DEF SoloInv, BatchInv, ThreadInv, Open, progress
  <2> QED  BY <1>2, <1>3, <2>1, <2>3, ConsumerKeeps DEF TellPc
<1>6. CASE AckProcessed(me) \/ AckFailed(me)
  <2>1. /\ pel' = [c \in Consumers |-> pel[c] \ {r}] /\ pc[me] \in {"ack", "ackFailed"}
        /\ \/ batch'[me] = batch[me] \ {r} /\ pc'[me] \in {"lock", "recover", "poll"}
           \/ batch' = batch /\ pc'[me] = "hdelFailed"
    BY <1>0, <1>1, <1>6 DEF AckProcessed, AckFailed, Acknowledge, Reply, Goto, NextRecord
  <2>2. batch' = batch => r' = r
    BY DEF Current
  <2>3. ThreadInv'
    BY <2>1 DEF ThreadInv
  <2>4. \A o \in batch[me] : \E c \in Consumers : o \in pel[c]
    BY <2>1 DEF SoloInv, BatchInv
  <2>5. r =< delivered
    <3>1. PICK c \in Consumers : r \in pel[c]
      BY <1>3, <2>4
    <3> QED  BY <1>4, <3>1
  <2>6. r \in Nat
    BY <1>3 DEF Admitted
  <2> HIDE DEF r
  <2>7. BatchInv'
    BY <2>1, <2>2, <2>4 DEF BatchInv, r
  <2>8. \A o \in Admitted : (Open(o)') => Open(o) /\ o # r
    BY <1>2, <1>4, <2>1, <2>5, <2>6 DEF Open
  <2> QED  BY <1>2, <1>3, <2>3, <2>7, <2>8, ConsumerKeeps DEF r
<1>7. CASE DeleteFailedRetries(me)
  <2>1. /\ pc[me] = "hdelFailed" /\ batch'[me] = batch[me] \ {r} /\ UNCHANGED pel
        /\ pc'[me] \in {"lock", "recover", "poll"}
    BY <1>0, <1>1, <1>7 DEF DeleteFailedRetries, Reply, NextRecord
  <2>2. BatchInv' /\ ThreadInv' /\ \A o \in Admitted : (Open(o)') => Open(o)
    BY <1>2, <2>1 DEF SoloInv, BatchInv, ThreadInv, Open
  <2> QED  BY <1>2, <1>3, <2>1, <2>2, ConsumerKeeps DEF TellPc
<1> QED  BY <1>5, <1>6, <1>7

-----------------------------------------------------------------------------
\* Steps of the consumer that touch its record.

\* What the job holds, and every dead letter, is another order.
LEMMA TouchKeeps ==
  ASSUME Solo, TypeInv, SoloInv, Reliable', ThreadInv', ReleasedOnce',
         UNCHANGED <<issued, batch, stream, job>>,
         pc[me] \notin {"poll", "recover", "hdelFailed"},
         pc'[me] \notin TellPc =>
           /\ Current(me) \notin Released' /\ Current(me) \in pendingZ'
           /\ status'[Current(me)] = "PENDING",
         status[Current(me)] # "FAILED",
         status[Current(me)] \in Final => status'[Current(me)] \in Final,
         status'[Current(me)] = "FAILED" => Current(me) \in pendingZ' /\ Current(me) \notin Released',
         \A o \in Admitted \ {Current(me)} :
           /\ status'[o] = status[o] /\ (o \in pendingZ => o \in pendingZ')
           /\ (o \in Released' => o \in Released) /\ (o \in dbOrders' => o \in dbOrders)
  PROVE  SoloInv'
<1> DEFINE r == Current(me)
           j == JobCurrent(me)
<1>1. Admitted' = Admitted /\ r' = r /\ j' = j
  BY DEF Admitted, Current, JobCurrent, job
<1>2. \A o : (Open(o)') <=> Open(o)
  BY DEF Open, stream
<1>3. jobPc[me] # "idle" => j \in Admitted
  BY JobCurrentKnown DEF Solo, TypeInv, JobOK
<1> HIDE DEF r, j
<1>4. OpenInv'
  BY <1>1, <1>2 DEF SoloInv, OpenInv, Untouched, r
<1>5. BatchInv'
  BY <1>1 DEF SoloInv, BatchInv, stream, r
<1>6. JobInv'
  <2>1. /\ jobPc[me] \in {"find", "return", "mark"} => status[j] = "FAILED" /\ j # r
        /\ jobPc[me] = "return" => decision[me] \in {"DUPLICATE", "COMPENSATED"} /\ j \notin dbOrders
        /\ jobPc[me] = "mark" => decision[me] \in Final
        /\ jobPc[me] = "zrem" => status[j] \in Final
    BY DEF SoloInv, JobInv, r, j
  <2>2. \A o \in Admitted : o # r => status'[o] = status[o] /\ (o \in dbOrders' => o \in dbOrders)
    BY DEF r
  <2>3. status[r] \in Final => status'[r] \in Final
    BY DEF r
  <2>4. jobPc' = jobPc /\ decision' = decision /\ JobCurrent(me)' = j
    BY <1>1 DEF job, j
  <2> QED  BY <1>3, <2>1, <2>2, <2>3, <2>4 DEF JobInv
<1>7. FailedInv'
  <2>1. \A o \in Admitted : status[o] = "FAILED" =>
          o \in pendingZ /\ (o \in Released => jobPc[me] = "mark" /\ o = j)
    BY DEF SoloInv, FailedInv, j
  <2>2. \A o \in Admitted : status'[o] = "FAILED" =>
          o \in pendingZ' /\ (o \in Released' => jobPc[me] = "mark" /\ o = j)
    BY <2>1 DEF r
  <2>3. jobPc' = jobPc /\ JobCurrent(me)' = j
    BY <1>1 DEF job, j
  <2> QED  BY <1>1, <2>2, <2>3 DEF FailedInv
<1> QED  BY <1>4, <1>5, <1>6, <1>7 DEF SoloInv

LEMMA WriteKeeps ==
  ASSUME Solo, TypeInv, SoloInv, WriteOrder(me)
  PROVE  SoloInv'
<1> DEFINE r == Current(me)
<1>1. /\ me \in Instances /\ pc \in [Instances -> ConsumerPc] /\ pc[me] = "write"
      /\ Untouched(r)
  BY NothingFails, CurrentUntouched DEF WriteOrder, TellPc, TypeInv, ConsumerOK
<1>2. /\ pc'[me] = "unlock" /\ UNCHANGED <<reservation, progress, batch, stream, job>>
      /\ dbOrders' \subseteq dbOrders \cup {r}
  BY <1>1 DEF WriteOrder, Persisted, db
<1>3. Reliable'
  BY ReliableNext DEF WriteOrder
<1>4. ReleasedOnce'
  BY <1>1, <1>2 DEF SoloInv, ReleasedOnce, Untouched, Released, reservation
<1>5. Released' = Released
  BY <1>2 DEF Released, reservation
<1>6. ThreadInv'
  BY <1>2 DEF ThreadInv
<1> HIDE DEF r
<1> QED  BY <1>1, <1>2, <1>3, <1>4, <1>5, <1>6, TouchKeeps
            DEF Untouched, progress, reservation, Final, r

\* The record turns out to be a duplicate: its unit goes back.
LEMMA RestoreKeeps ==
  ASSUME Solo, TypeInv, SoloInv, Knowledge, RestoreReservation(me)
  PROVE  SoloInv'
<1> DEFINE r == Current(me)
<1>1. /\ me \in Instances /\ ~Spend("redis")
      /\ pc \in [Instances -> ConsumerPc] /\ pc[me] = "restore" /\ Untouched(r)
  BY NothingFails, CurrentUntouched DEF RestoreReservation, TellPc, TypeInv, ConsumerOK
<1>2. /\ pc'[me] = "mark" /\ UNCHANGED <<progress, batch, stream, job, dbOrders, faults>>
      /\ dupMarker' = dupMarker \cup {r} /\ UNCHANGED <<issued, failMarker>>
  BY <1>1 DEF RestoreReservation, RestoreDuplicate, Reply, Goto, db
<1>3. r \notin dbOrders
  BY <1>1 DEF Knowledge, ThreadKnows, IsDuplicate
<1>4. Reliable'
  BY <1>2, ReliableNext
<1>5. ReleasedOnce'
  BY <1>1, <1>2, <1>3 DEF SoloInv, ReleasedOnce, Untouched, Released
<1>6. ThreadInv'
  BY <1>1, <1>2 DEF ThreadInv, Untouched, progress, Current
<1>7. \A o : o # r => (o \in Released' <=> o \in Released)
  BY <1>2 DEF Released
<1> HIDE DEF r
<1> QED  BY <1>1, <1>2, <1>4, <1>5, <1>6, <1>7, TouchKeeps
            DEF Untouched, progress, TellPc, Final, r

\* The client may know, whatever the status is set to: the record is settled, or a
\* dead letter from now on.
LEMMA MarkKeeps ==
  ASSUME Solo, TypeInv, SoloInv, MarkProcessed(me) \/ RemovePending(me) \/ MarkFailed(me)
  PROVE  SoloInv'
<1> DEFINE r == Current(me)
<1>1. /\ me \in Instances /\ ~Spend("redis")
      /\ pc \in [Instances -> ConsumerPc] /\ status \in [Orders -> OrderStatus]
      /\ pc[me] \in {"mark", "zrem", "markFailed"}
  BY NothingFails DEF MarkProcessed, RemovePending, MarkFailed, TypeInv, ConsumerOK, ProgressOK
<1>2. /\ r \in Orders /\ (pc[me] = "markFailed" => Untouched(r))
      /\ Admitted \subseteq Orders
  BY <1>1, CurrentUntouched, BoundsAssumption
     DEF TellPc, TypeInv, ReservationOK, Admitted, Orders
<1>3. /\ pc[me] = "mark" => status[r] = "PENDING"
      /\ pc[me] = "zrem" => status[r] \in Final
  BY DEF SoloInv, ThreadInv
<1>4. UNCHANGED <<reservation, batch, stream, job, dbOrders, faults>>
  BY <1>1 DEF MarkProcessed, RemovePending, MarkFailed, Reply, Goto, db
<1>5. CASE MarkProcessed(me)
  <2>1. /\ pc[me] = "mark" /\ pc'[me] = "zrem" /\ UNCHANGED pendingZ
        /\ \E s \in Final : status' = [status EXCEPT ![r] = s]
    BY <1>1, <1>5 DEF MarkProcessed, MarkOrderStatus, Reply, Goto, Final
  <2>2. Current(me)' = r /\ Released' = Released /\ Reliable'
    BY <1>4, ReliableNext DEF Current, Released, reservation
  <2> HIDE DEF r
  <2>3. status'[r] \in Final /\ \A o \in Admitted : o # r => status'[o] = status[o]
    BY <1>1, <1>2, <2>1
  <2>4. ThreadInv' /\ ReleasedOnce'
    BY <1>4, <2>1, <2>2, <2>3 DEF ThreadInv, SoloInv, ReleasedOnce, reservation
  <2> QED  BY <1>3, <1>4, <2>1, <2>2, <2>3, <2>4, TouchKeeps DEF TellPc, Final, reservation, r
<1>6. CASE RemovePending(me)
  <2>1. /\ pc[me] = "zrem" /\ pc'[me] = "hdel" /\ UNCHANGED status
        /\ pendingZ' = pendingZ \ {r}
    BY <1>1, <1>6 DEF RemovePending, Reply, Goto
  <2>2. Current(me)' = r /\ Released' = Released /\ Reliable'
    BY <1>4, ReliableNext DEF Current, Released, reservation
  <2> HIDE DEF r
  <2>3. ThreadInv' /\ ReleasedOnce'
    BY <1>3, <1>4, <2>1, <2>2 DEF ThreadInv, SoloInv, ReleasedOnce, reservation
  <2> QED  BY <1>3, <1>4, <2>1, <2>2, <2>3, TouchKeeps DEF TellPc, Final, reservation, r
<1>7. CASE MarkFailed(me)
  <2>1. /\ pc[me] = "markFailed" /\ pc'[me] = "ackFailed" /\ UNCHANGED pendingZ
        /\ status' = [status EXCEPT ![r] = "FAILED"]
    BY <1>1, <1>7 DEF MarkFailed, MarkOrderStatus, Reply, Goto
  <2>2. Current(me)' = r /\ Released' = Released /\ Reliable'
    BY <1>4, ReliableNext DEF Current, Released, reservation
  <2> HIDE DEF r
  <2>3. status'[r] = "FAILED" /\ \A o \in Admitted : o # r => status'[o] = status[o]
    BY <1>1, <1>2, <2>1
  <2>4. ThreadInv' /\ ReleasedOnce'
    BY <1>4, <2>1 DEF ThreadInv, SoloInv, ReleasedOnce, reservation
  <2> QED  BY <1>2, <1>4, <2>1, <2>2, <2>3, <2>4, TouchKeeps
              DEF TellPc, Final, Untouched, reservation, r
<1> QED  BY <1>5, <1>6, <1>7 DEF MarkProcessed, RemovePending, MarkFailed

-----------------------------------------------------------------------------
\* A new order, and the steps of the job.

LEMMA SeckillKeeps ==
  ASSUME Solo, TypeInv, SoloInv, NEW u \in Users, Seckill(u)
  PROVE  SoloInv'
<1> DEFINE o == issued + 1
<1>0. me \in Instances
  BY NothingFails
<1>1. /\ issued \in Nat /\ delivered \in Nat /\ delivered =< issued /\ o \in Orders
      /\ pel \in [Consumers -> SUBSET (1..delivered)] /\ status \in [Orders -> OrderStatus]
      /\ Released \subseteq Admitted /\ dbOrders \subseteq Admitted /\ Admitted \subseteq Orders
  BY BoundsAssumption
     DEF Seckill, TypeInv, ReservationOK, StreamOK, ProgressOK, DbOK, Orders, Admitted, Released
<1>2. /\ Admitted' = Admitted \cup {o} /\ o \notin Admitted /\ o > delivered
      /\ pendingZ' = pendingZ \cup {o} /\ status' = [status EXCEPT ![o] = "PENDING"]
      /\ Released' = Released /\ UNCHANGED <<dupMarker, failMarker, stream, db, consumer, job, faults>>
  BY <1>1 DEF Seckill, Admitted, Released
<1> HIDE DEF o
<1>3. /\ status'[o] = "PENDING" /\ \A p \in Admitted : status'[p] = status[p]
  BY <1>1, <1>2
<1>4. /\ Current(me)' = Current(me) /\ JobCurrent(me)' = JobCurrent(me)
      /\ \A p : (Open(p)') <=> Open(p)
  BY <1>2 DEF Current, JobCurrent, consumer, job, Open, stream
<1>5. /\ pc[me] \notin {"poll", "recover"} => Current(me) \in Admitted
      /\ jobPc[me] # "idle" => JobCurrent(me) \in Admitted
  BY <1>0, CurrentKnown, JobCurrentKnown DEF TypeInv, ConsumerOK, JobOK
<1>6. OpenInv'
  BY <1>1, <1>2, <1>3, <1>4 DEF SoloInv, OpenInv, Untouched, consumer
<1>7. BatchInv' /\ Reliable' /\ ReleasedOnce'
  BY <1>2, <1>4 DEF SoloInv, BatchInv, Reliable, ReleasedOnce, stream, consumer, db
<1>8. ThreadInv' /\ JobInv'
  BY <1>2, <1>3, <1>4, <1>5 DEF SoloInv, ThreadInv, JobInv, consumer, job, db
<1>9. FailedInv'
  BY <1>2, <1>3, <1>4 DEF SoloInv, FailedInv, job
<1> QED  BY <1>6, <1>7, <1>8, <1>9 DEF SoloInv

\* The job looks around.
LEMMA JobLooksKeeps ==
  ASSUME Solo, TypeInv, SoloInv, jobPc[me] # "mark",
         UNCHANGED <<reservation, progress, stream, db, consumer>>, Reliable', JobInv'
  PROVE  SoloInv'
<1>1. /\ Admitted' = Admitted /\ Released' = Released /\ Current(me)' = Current(me)
      /\ \A o : ((Open(o)') <=> Open(o)) /\ ((Untouched(o)') <=> Untouched(o))
  BY DEF Admitted, Released, Current, Open, Untouched, reservation, progress, stream, consumer
<1>2. OpenInv' /\ BatchInv' /\ ThreadInv' /\ ReleasedOnce'
  BY <1>1 DEF SoloInv, OpenInv, BatchInv, ThreadInv, ReleasedOnce, consumer, stream, progress,
              reservation, db
<1>3. FailedInv'
  BY <1>1 DEF SoloInv, FailedInv, progress
<1> QED  BY <1>2, <1>3 DEF SoloInv

LEMMA JobLooks ==
  ASSUME Solo, TypeInv, SoloInv,
         ReadStatus(me) \/ FindOrder(me) \/ JobCallFails(me) \/ \E o \in Orders : StartJob(me, o)
  PROVE  SoloInv'
<1> DEFINE j == JobCurrent(me)
<1>0. /\ me \in Instances /\ ~Spend("redis") /\ jobPc \in [Instances -> JobPc]
      /\ jobOrders \in [Instances -> SUBSET Admitted] /\ decision \in [Instances -> OrderStatus]
  BY NothingFails DEF TypeInv, JobOK
<1>1. /\ UNCHANGED <<reservation, progress, stream, db, consumer>>
      /\ UNCHANGED faults \/ Spend("db")
      /\ jobPc[me] \in {"idle", "status", "find"}
  BY <1>0 DEF ReadStatus, FindOrder, JobCallFails, StartJob
<1>2. Reliable'
  BY <1>1, ReliableNext
<1>3. CASE ReadStatus(me)
  <2>1. CASE status[j] = "FAILED"
    <3>1. jobPc'[me] = "find" /\ UNCHANGED <<jobOrders, decision>>
      BY <1>0, <1>3, <2>1 DEF ReadStatus, JobGoto
    <3>2. JobInv'
      BY <1>1, <2>1, <3>1 DEF JobInv, JobCurrent, progress
    <3> QED  BY <1>1, <1>2, <3>1, <3>2, JobLooksKeeps
  <2>2. CASE status[j] # "FAILED"
    <3>1. jobPc'[me] \in {"idle", "status"}
      BY <1>0, <1>3, <2>2 DEF ReadStatus, NextOrder
    <3>2. JobInv'
      BY <3>1 DEF JobInv
    <3> QED  BY <1>1, <1>2, <3>1, <3>2, JobLooksKeeps
  <2> QED  BY <2>1, <2>2
<1>4. CASE FindOrder(me)
  <2> DEFINE d == Decide(j)
  <2>1. /\ d \in Final /\ (d # "SUCCESS" => j \notin dbOrders)
    BY DEF Decide, Final
  <2>2. /\ jobPc[me] = "find" /\ UNCHANGED jobOrders /\ decision'[me] = d
        /\ jobPc'[me] = IF d = "SUCCESS" THEN "mark" ELSE "return"
    BY <1>0, <1>4 DEF FindOrder
  <2>3. status[j] = "FAILED"
    BY <2>2 DEF SoloInv, JobInv
  <2>4. j' = j
    BY <2>2 DEF JobCurrent
  <2> HIDE DEF j, d
  <2>5. JobInv'
    BY <1>1, <2>1, <2>2, <2>3, <2>4 DEF JobInv, Final, progress, db, j
  <2> QED  BY <1>1, <1>2, <2>2, <2>5, JobLooksKeeps
<1>5. CASE JobCallFails(me) \/ \E o \in Orders : StartJob(me, o)
  <2>1. jobPc'[me] \in {"idle", "status"}
    BY <1>0, <1>5 DEF JobCallFails, AbortJob, StartJob
  <2>2. JobInv'
    BY <2>1 DEF JobInv
  <2> QED  BY <1>1, <1>2, <2>1, <2>2, JobLooksKeeps
<1> QED  BY <1>3, <1>4, <1>5

\* The job gives the unit of a dead letter back.
LEMMA ReturnKeeps ==
  ASSUME Solo, TypeInv, SoloInv, ReturnReservation(me)
  PROVE  /\ SoloInv'
         /\ JobCurrent(me) \in Admitted \ (dbOrders \cup Released)
<1> DEFINE j == JobCurrent(me)
<1>0. /\ me \in Instances /\ ~Spend("redis") /\ jobPc \in [Instances -> JobPc]
      /\ jobPc[me] = "return"
  BY NothingFails DEF ReturnReservation, TypeInv, JobOK
<1>1. /\ UNCHANGED <<issued, progress, stream, db, consumer, jobOrders, decision, faults>>
      /\ jobPc'[me] = "mark"
      /\ \/ dupMarker' = dupMarker \cup {j} /\ failMarker' = failMarker
         \/ failMarker' = failMarker \cup {j} /\ dupMarker' = dupMarker
  BY <1>0 DEF ReturnReservation, RestoreDuplicate, CompensateFailed, JobReply, JobGoto
<1>2. /\ status[j] = "FAILED" /\ decision[me] \in Final /\ j \notin dbOrders
      /\ j \in Admitted
  BY <1>0, JobCurrentKnown DEF SoloInv, JobInv, Final, TypeInv, JobOK
<1>3. j \notin Released
  BY <1>0, <1>2 DEF SoloInv, FailedInv
<1>4. /\ Admitted' = Admitted /\ Current(me)' = Current(me) /\ JobCurrent(me)' = j
      /\ \A o : (Open(o)') <=> Open(o)
  BY <1>1 DEF Admitted, Current, JobCurrent, Open, stream, consumer
<1> HIDE DEF j
<1>5. \A o : Untouched(o) => Untouched(o)'
  BY <1>1, <1>2 DEF Untouched, Released, progress
<1>6. OpenInv' /\ BatchInv' /\ ThreadInv'
  BY <1>1, <1>4, <1>5 DEF SoloInv, OpenInv, BatchInv, ThreadInv, consumer, stream, progress
<1>7. ReleasedOnce'
  BY <1>1, <1>2, <1>3 DEF SoloInv, ReleasedOnce, Released, db
<1>8. JobInv' /\ Reliable'
  BY <1>1, <1>2, <1>4, ReliableNext DEF JobInv, progress
<1>9. FailedInv'
  BY <1>0, <1>1, <1>4 DEF SoloInv, FailedInv, Released, progress
<1> QED  BY <1>2, <1>3, <1>6, <1>7, <1>8, <1>9 DEF SoloInv, j

\* The job settles a dead letter.
LEMMA SettleKeeps ==
  ASSUME Solo, TypeInv, SoloInv, MarkReconciled(me) \/ RemoveReconciled(me)
  PROVE  SoloInv'
<1> DEFINE j == JobCurrent(me)
<1>0. /\ me \in Instances /\ ~Spend("redis") /\ jobPc \in [Instances -> JobPc]
      /\ jobPc[me] \in {"mark", "zrem"} /\ status \in [Orders -> OrderStatus]
      /\ Admitted \subseteq Orders
  BY NothingFails, BoundsAssumption
     DEF MarkReconciled, RemoveReconciled, TypeInv, JobOK, ProgressOK, ReservationOK, Admitted, Orders
<1>1. /\ UNCHANGED <<reservation, stream, db, consumer, faults>>
      /\ \/ /\ jobPc[me] = "mark" /\ jobPc'[me] = "zrem" /\ UNCHANGED <<jobOrders, pendingZ>>
            /\ status' = [status EXCEPT ![j] = decision[me]]
         \/ /\ jobPc[me] = "zrem" /\ jobPc'[me] \in {"idle", "status"}
            /\ UNCHANGED status /\ pendingZ' = pendingZ \ {j}
  BY <1>0 DEF MarkReconciled, RemoveReconciled, MarkOrderStatus, JobReply, JobGoto, NextOrder
<1>2. /\ jobPc[me] = "mark" => status[j] = "FAILED" /\ decision[me] \in Final
      /\ jobPc[me] = "zrem" => status[j] \in Final
      /\ status[j] # "PENDING"
  BY <1>0, JobCurrentKnown DEF SoloInv, JobInv, Final, TypeInv, JobOK
<1>3. /\ Admitted' = Admitted /\ Released' = Released /\ Current(me)' = Current(me)
      /\ jobOrders' = jobOrders => JobCurrent(me)' = j
      /\ \A o : (Open(o)') <=> Open(o)
  BY <1>1 DEF Admitted, Released, Current, JobCurrent, Open, stream, consumer, reservation
<1>4. j \in Orders
  BY <1>0, JobCurrentKnown DEF TypeInv, JobOK
<1>5. pc[me] \in {"mark", "zrem", "hdel", "ack"} => Current(me) \in Orders
  BY CurrentUntouched
<1> HIDE DEF j
<1>6. /\ \A o \in Orders : o # j => status'[o] = status[o] /\ (o \in pendingZ => o \in pendingZ')
      /\ status'[j] \in Final
  BY <1>0, <1>1, <1>2, <1>4
<1>7. OpenInv' /\ BatchInv'
  <2>1. \A o \in Admitted : Untouched(o) => Untouched(o)'
    BY <1>0, <1>2, <1>3, <1>6 DEF Untouched
  <2> QED  BY <1>1, <1>3, <2>1 DEF SoloInv, OpenInv, BatchInv, consumer, stream
<1>8. ThreadInv' /\ ReleasedOnce' /\ Reliable'
  <2>1. ThreadInv'
    BY <1>1, <1>2, <1>3, <1>5, <1>6 DEF SoloInv, ThreadInv, consumer, Final
  <2> QED  BY <1>1, <2>1, ReliableNext DEF SoloInv, ReleasedOnce, reservation, db
<1>9. JobInv'
  BY <1>1, <1>3, <1>6 DEF JobInv
<1>10. FailedInv'
  BY <1>0, <1>1, <1>3, <1>6 DEF SoloInv, FailedInv, Final, j
<1> QED  BY <1>7, <1>8, <1>9, <1>10 DEF SoloInv

-----------------------------------------------------------------------------
\* The inductive invariant.

LEMMA IdleKeeps ==
  ASSUME Solo, TypeInv, SoloInv,
         UNCHANGED <<reservation, progress, stream, db, consumer, job, faults>>
  PROVE  SoloInv'
<1>1. /\ \A o : (Open(o)') <=> Open(o)
      /\ Current(me)' = Current(me)
  BY DEF Open, Current, stream, consumer
<1>2. Reliable' /\ BatchInv' /\ ThreadInv'
  BY <1>1 DEF SoloInv, Reliable, BatchInv, ThreadInv, stream, consumer, progress
<1> QED  BY <1>1, <1>2, ConsumerKeeps DEF consumer, db

LEMMA SoloNext ==
  ASSUME Solo, TypeInv, Knowledge, SoloInv, [Next]_vars
  PROVE  SoloInv'
<1>0. me \in Instances /\ (\A i \in Instances : i = me) /\ ~Spend("redis") /\ ~Spend("crash")
  BY NothingFails
<1>1. ASSUME Consume(me)  PROVE SoloInv'
  BY <1>1, ReadKeeps, ThinkKeeps, ForgetKeeps, WriteKeeps, RestoreKeeps, MarkKeeps DEF Consume
<1>2. ASSUME Reconcile(me) \/ JobCallFails(me) \/ \E o \in Orders : StartJob(me, o)
      PROVE  SoloInv'
  BY <1>2, JobLooks, ReturnKeeps, SettleKeeps DEF Reconcile
<1>3. ASSUME NEW u \in Users, Seckill(u) \/ LeaseExpires(u)  PROVE SoloInv'
  BY <1>3, SeckillKeeps, IdleKeeps DEF LeaseExpires
<1>4. CASE UNCHANGED vars
  BY <1>4, IdleKeeps DEF vars
<1>5. ~RedisCallFails(me) /\ ~Crash(me)
  BY <1>0 DEF RedisCallFails, Crash
<1> QED  BY <1>0, <1>1, <1>2, <1>3, <1>4, <1>5 DEF Next

LEMMA SoloInvariant ==
  ASSUME Solo
  PROVE  Spec => [](TypeInv /\ Knowledge /\ SoloInv)
<1>1. Init => SoloInv
  BY SoloInit
<1>2. TypeInv /\ Knowledge /\ SoloInv /\ [Next]_vars => SoloInv'
  BY SoloNext
<1> QED  BY <1>1, <1>2, TypeInvariant, KnowledgeInvariant, PTL DEF Spec

\* No order is sold and given back, or given back twice, whatever the transactions do
\* and whenever the job comes between two steps of the consumer.
THEOREM SettledOnce ==
  ASSUME Solo
  PROVE  Spec => []ReleasedOnce
<1>1. SoloInv => ReleasedOnce
  BY DEF SoloInv
<1> QED  BY <1>1, SoloInvariant, PTL

\* A dead letter stays where the job finds it until the job has settled it.
THEOREM DeadLettersStay ==
  ASSUME Solo
  PROVE  Spec => []FailedIsTracked
<1>1. TypeInv /\ Knowledge /\ SoloInv => FailedIsTracked
  BY DEF SoloInv, FailedInv, FailedIsTracked, Knowledge
<1> QED  BY <1>1, SoloInvariant, PTL

\* The units of the settled orders, counted.
LEMMA StocksAgree ==
  ASSUME TypeInv, NoOversell, RedisLedger, ReleasedOnce
  PROVE  ExactStock
<1>1. /\ issued \in Nat /\ InitialStock \in Nat /\ redisStock \in Int /\ dbStock \in Int
      /\ Released \subseteq Admitted /\ dbOrders \subseteq Admitted
  BY BoundsAssumption DEF TypeInv, ReservationOK, DbOK, Released
<1>2. /\ IsFiniteSet(dupMarker) /\ IsFiniteSet(failMarker) /\ IsFiniteSet(dbOrders)
      /\ IsFiniteSet(Released) /\ IsFiniteSet(dbOrders \cup Released) /\ IsFiniteSet(Admitted)
  BY <1>1, AdmittedFinite DEF TypeInv, ReservationOK
<1>3. Cardinality(Admitted) = issued
  BY <1>1, FS_Interval DEF Admitted
<1>4. Cardinality(Released) = Cardinality(dupMarker) + Cardinality(failMarker)
  <2>1. Cardinality(Released) =
          Cardinality(dupMarker) + Cardinality(failMarker) - Cardinality(dupMarker \cap failMarker)
    BY <1>2, FS_Union DEF Released
  <2>2. Cardinality(dupMarker \cap failMarker) = 0
    BY FS_EmptySet DEF ReleasedOnce
  <2> QED  BY <1>2, <2>1, <2>2, FS_CardinalityType
<1>5. Cardinality(dbOrders \cup Released) = Cardinality(dbOrders) + Cardinality(Released)
  <2>1. Cardinality(dbOrders \cup Released) =
          Cardinality(dbOrders) + Cardinality(Released) - Cardinality(dbOrders \cap Released)
    BY <1>2, FS_Union
  <2>2. dbOrders \cap Released = {}
    BY DEF ReleasedOnce, Released
  <2>3. Cardinality(dbOrders \cap Released) = 0
    BY <2>2, FS_EmptySet
  <2> QED  BY <1>2, <2>1, <2>3, FS_CardinalityType
<1>6. Cardinality(Outstanding) = issued - Cardinality(dbOrders \cup Released)
  <2> DEFINE S == dbOrders \cup Released
  <2>1. Cardinality(Admitted \ S) = Cardinality(Admitted) - Cardinality(Admitted \cap S)
    BY <1>2, FS_Difference
  <2>2. Admitted \cap S = S
    BY <1>1
  <2> QED  BY <1>3, <2>1, <2>2 DEF Outstanding
<1>7. /\ Cardinality(dupMarker) \in Nat /\ Cardinality(failMarker) \in Nat
      /\ Cardinality(dbOrders) \in Nat
  BY <1>2, FS_CardinalityType
<1> QED  BY <1>1, <1>4, <1>5, <1>6, <1>7 DEF ExactStock, NoOversell, RedisLedger

\* Redis and the database agree on what is left, up to the orders in flight.
THEOREM StocksAreExact ==
  ASSUME Solo
  PROVE  Spec => []ExactStock
<1>1. TypeInv /\ NoOversell /\ RedisLedger /\ ReleasedOnce => ExactStock
  BY StocksAgree
<1> QED  BY <1>1, TypeInvariant, NeverOversold, LedgerHolds, SettledOnce, PTL

-----------------------------------------------------------------------------
\* The refinement: each step is one of the abstract sale or a stutter.

Fates == [o \in Orders |-> Fate(o)]

LEMMA FateIs ==
  ASSUME TypeInv, NEW o
  PROVE  Fate(o) = IF o \in dbOrders THEN "sold" ELSE IF o \in Released THEN "released"
                   ELSE IF o \in Admitted THEN "reserved" ELSE "free"
<1>1. dbOrders \subseteq Admitted /\ Released \subseteq Admitted
  BY DEF TypeInv, ReservationOK, DbOK, Released
<1> QED  BY <1>1 DEF Fate, Outstanding

LEMMA FateWillBe ==
  ASSUME TypeInv', NEW o
  PROVE  Fate(o)' = IF o \in dbOrders' THEN "sold" ELSE IF o \in Released' THEN "released"
                    ELSE IF o \in Admitted' THEN "reserved" ELSE "free"
<1>1. dbOrders' \subseteq Admitted' /\ Released' \subseteq Admitted'
  BY DEF TypeInv, ReservationOK, DbOK, Released
<1> QED  BY <1>1 DEF Fate, Outstanding

\* One order changes its fate.
LEMMA FateChanges ==
  ASSUME TypeInv, TypeInv', NEW k \in Orders, NEW f, Fate(k)' = f,
         \A o \in Orders \ {k} : /\ (o \in dbOrders') <=> (o \in dbOrders)
                                 /\ (o \in Released') <=> (o \in Released)
                                 /\ (o \in Admitted') <=> (o \in Admitted)
  PROVE  Fates' = [Fates EXCEPT ![k] = f]
<1>1. \A o \in Orders \ {k} : Fate(o)' = Fate(o)
  BY FateIs, FateWillBe
<1>2. Orders' = Orders
  BY DEF Orders
<1> QED  BY <1>1, <1>2 DEF Fates

LEMMA ReserveStep ==
  ASSUME Solo, TypeInv, SoloInv, OneLiveReservation, [Next]_vars,
         NEW u \in Users, NEW o, o = issued + 1, Seckill(u)
  PROVE  Sale!SaleNext
<1>1. /\ TypeInv' /\ issued \in Nat /\ o \in Orders /\ o \notin Admitted
      /\ dbOrders \subseteq Admitted /\ Released \subseteq Admitted /\ failMarker \subseteq Admitted
      /\ redisStock > 0
  BY TypeInvNext, BoundsAssumption
     DEF Seckill, TypeInv, ReservationOK, DbOK, Orders, Admitted, Released
<1>2. /\ Admitted' = Admitted \cup {o} /\ owner' = [owner EXCEPT ![o] = u]
      /\ Released' = Released /\ dbOrders' = dbOrders /\ redisStock' = redisStock - 1
  BY <1>1 DEF Seckill, Admitted, Released, db
<1>3. Fate(o) = "free" /\ Fate(o)' = "reserved"
  BY <1>1, <1>2, FateIs, FateWillBe
<1>4. Fates' = [Fates EXCEPT ![o] = "reserved"]
  BY <1>1, <1>2, <1>3, FateChanges
<1>5. \A p \in Orders : Fate(p) \in {"reserved", "sold"} => owner[p] # u
  <2>1. \A p \in Orders : Fate(p) \in {"reserved", "sold"} => p \in Admitted \ failMarker
    BY <1>1, FateIs DEF SoloInv, ReleasedOnce, Released
  <2>2. \A p \in Admitted \ failMarker : owner[p] # u
    BY DEF Seckill, OneLiveReservation
  <2> QED  BY <2>1, <2>2
<1>6. Sale!Reserve(o, u)
  BY <1>1, <1>2, <1>3, <1>4, <1>5 DEF Sale!Reserve, Sale!Live, Sale!With, Fates
<1> QED  BY <1>1, <1>6 DEF Sale!SaleNext

LEMMA SellStep ==
  ASSUME TypeInv, TypeInv', NEW o \in Admitted, o \notin dbOrders \cup Released,
         UNCHANGED reservation, dbOrders' = dbOrders \cup {o}
  PROVE  Sale!SaleNext
<1>1. /\ o \in Orders /\ Admitted' = Admitted /\ Released' = Released
      /\ UNCHANGED <<redisStock, owner>>
  BY BoundsAssumption
     DEF TypeInv, ReservationOK, Admitted, Orders, Released, reservation
<1>2. Fate(o) = "reserved" /\ Fate(o)' = "sold"
  BY <1>1, FateIs, FateWillBe
<1>3. Fates' = [Fates EXCEPT ![o] = "sold"]
  BY <1>1, <1>2, FateChanges
<1>4. Sale!Sell(o)
  BY <1>1, <1>2, <1>3 DEF Sale!Sell, Fates
<1> QED  BY <1>1, <1>4 DEF Sale!SaleNext

LEMMA ReleaseStep ==
  ASSUME TypeInv, TypeInv', NEW o \in Admitted, o \notin dbOrders \cup Released,
         UNCHANGED <<issued, owner, dbOrders>>, Released' = Released \cup {o},
         redisStock' = redisStock + 1
  PROVE  Sale!SaleNext
<1>1. o \in Orders /\ Admitted' = Admitted
  BY BoundsAssumption DEF TypeInv, ReservationOK, Admitted, Orders
<1>2. Fate(o) = "reserved" /\ Fate(o)' = "released"
  BY <1>1, FateIs, FateWillBe
<1>3. Fates' = [Fates EXCEPT ![o] = "released"]
  BY <1>1, <1>2, FateChanges
<1>4. Sale!Release(o)
  BY <1>1, <1>2, <1>3 DEF Sale!Release, Fates
<1> QED  BY <1>1, <1>4 DEF Sale!SaleNext

\* The two scripts that give units back, and the transaction, act on an order that is
\* neither sold nor given back.
LEMMA ScriptsStep ==
  ASSUME Solo, TypeInv, Knowledge, SoloInv, OneLiveReservation, [Next]_vars,
         RestoreReservation(me) \/ ReturnReservation(me)
  PROVE  Sale!SaleNext
<1>1. \E o \in Admitted : /\ RestoreDuplicate(o) \/ CompensateFailed(o)
                          /\ o \notin dbOrders \cup Released
  <2>1. CASE RestoreReservation(me)
    <3>1. pc[me] = "restore" /\ me \in Instances
      BY <2>1, NothingFails DEF RestoreReservation
    <3>2. Current(me) \in Admitted /\ Untouched(Current(me)) /\ Current(me) \notin dbOrders
      BY <3>1, CurrentUntouched DEF TellPc, Knowledge, ThreadKnows, IsDuplicate
    <3> QED  BY <2>1, <3>2 DEF RestoreReservation, Untouched
  <2>2. CASE ReturnReservation(me)
    BY <2>2, ReturnKeeps DEF ReturnReservation
  <2> QED  BY <2>1, <2>2
<1>2. PICK o \in Admitted : /\ RestoreDuplicate(o) \/ CompensateFailed(o)
                            /\ o \notin dbOrders \cup Released
  BY <1>1
<1>3. UNCHANGED dbOrders /\ TypeInv'
  BY TypeInvNext DEF RestoreReservation, ReturnReservation, db
<1>4. owner[o] \in buyers
  BY <1>2 DEF OneLiveReservation, Released
<1>5. /\ UNCHANGED <<issued, owner>> /\ Released' = Released \cup {o}
      /\ redisStock' = redisStock + 1
  BY <1>2, <1>4 DEF RestoreDuplicate, CompensateFailed, Released
<1> QED  BY <1>2, <1>3, <1>5, ReleaseStep

LEMMA WriteStep ==
  ASSUME Solo, TypeInv, SoloInv, [Next]_vars, WriteOrder(me)
  PROVE  Sale!SaleNext \/ UNCHANGED <<reservation, db>>
<1> DEFINE o == Current(me)
<1>1. o \in Admitted /\ Untouched(o)
  BY CurrentUntouched DEF WriteOrder, TellPc
<1>2. CASE UNCHANGED db
  BY <1>2 DEF WriteOrder
<1>3. CASE Accepts(o) /\ dbOrders' = dbOrders \cup {o}
  <2>1. o \notin dbOrders \cup Released /\ TypeInv' /\ UNCHANGED reservation
    BY <1>1, <1>3, TypeInvNext DEF Accepts, OrderOf, Untouched, WriteOrder
  <2> HIDE DEF o
  <2> QED  BY <1>1, <1>3, <2>1, SellStep
<1> QED  BY <1>2, <1>3 DEF WriteOrder

LEMMA SaleStep ==
  ASSUME Solo, TypeInv, Knowledge, SoloInv, OneLiveReservation, [Next]_vars
  PROVE  [Sale!SaleNext]_(Sale!saleVars)
<1>0. \A i \in Instances : i = me
  BY NothingFails
<1>1. CASE UNCHANGED <<reservation, db>>
  <2>1. \A o \in Orders : Fate(o)' = Fate(o)
    BY <1>1 DEF Fate, Outstanding, Admitted, Released, reservation, db
  <2>2. UNCHANGED <<redisStock, owner, Fates>>
    BY <1>1, <2>1 DEF Fates, Orders, reservation
  <2> QED  BY <2>2 DEF Sale!saleVars, Fates
<1>2. CASE \E i \in Instances : RestoreReservation(i) \/ ReturnReservation(i)
  BY <1>0, <1>2, ScriptsStep
<1>3. CASE \E i \in Instances : WriteOrder(i)
  BY <1>0, <1>1, <1>3, WriteStep
<1>4. CASE \E u \in Users : Seckill(u)
  BY <1>4, ReserveStep
<1> QED  BY <1>1, <1>2, <1>3, <1>4, ReservationFrame, DbFrame

LEMMA SaleInitial == Init => Sale!SaleInit
<1> SUFFICES ASSUME Init PROVE Sale!SaleInit
  OBVIOUS
<1>1. \A o \in Orders : Fate(o) = "free"
  BY DEF Init, Fate, Outstanding, Released, Admitted
<1> QED  BY <1>1 DEF Init, Sale!SaleInit

\* The pipeline, with its queue, retries, dead letters and two background threads, is
\* the sale of FlashSale: each admitted order is sold or given back exactly once, and
\* the stock in Redis counts the free units.
THEOREM SaleIsImplemented ==
  ASSUME Solo
  PROVE  Spec => ImplementsSale
<1>1. TypeInv /\ Knowledge /\ SoloInv /\ OneLiveReservation /\ [Next]_vars
        => [Sale!SaleNext]_(Sale!saleVars)
  BY SaleStep
<1> QED  BY <1>1, SaleInitial, SoloInvariant, BuyersAreExact, PTL
         DEF Spec, ImplementsSale, Sale!SaleSpec

=============================================================================
