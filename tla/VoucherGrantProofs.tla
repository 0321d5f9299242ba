--------------------------- MODULE VoucherGrantProofs ---------------------------
(***************************************************************************)
(* Safety of the voucher grants for any number of users, requests,         *)
(* threads, consumers, retries and faults.                                 *)
(***************************************************************************)
EXTENDS VoucherGrant, FiniteSetTheorems, TLAPS

-----------------------------------------------------------------------------
\* The inductive invariant behind the types, one part per group of variables:
\* whoever is at work has a request that was created, and a snapshot shows no
\* owner who has lost his voucher since.

Created == {r \in Requests : status[r] # "NONE"}

DatabaseOK ==
  /\ status \in [Requests -> Statuses]
  /\ holding \in [Users -> Requests \cup {NoRequest, OldRequest}]
  /\ lapsed \subseteq Users /\ dbStock \in Nat
  /\ template \in {"open", "over", "disabled"}

RedisOK ==
  /\ stock \in Nat \cup {Absent} /\ members \subseteq Users
  /\ reserved \subseteq Requests
  /\ stream \in Seq(Created) /\ Len(stream) <= MaxRecords

GroupOK == acked \subseteq Records /\ retries \in [Records -> 0..MaxRetries]

Views == {s \in Snapshots : s.owners \subseteq Owners}

PublishingOK ==
  /\ initLock \in Threads \cup {Free, Orphan}
  /\ pc \in [Threads -> ThreadPc]
  /\ request \in [Threads -> Created \cup {NoRequest}]
  /\ seen \in [Threads -> Nat]
  /\ view \in [Threads -> {<<>>} \cup {<<s>> : s \in Views}]
  /\ \A t \in Threads : pc[t] # "idle" => request[t] \in Created

ConsumingOK ==
  /\ cpc \in [Consumers -> ConsumerPc]
  /\ record \in [Consumers -> (1..Len(stream)) \cup {0}]
  /\ \A c \in Consumers : cpc[c] # "idle" => record[c] \in 1..Len(stream)

FaultsOK == faults \in 0..MaxFaults

TypeInv ==
  DatabaseOK /\ RedisOK /\ GroupOK /\ PublishingOK /\ ConsumingOK /\ FaultsOK

LEMMA TypeInvImpliesTypeOK == TypeInv => TypeOK
<1> SUFFICES ASSUME TypeInv PROVE TypeOK
  OBVIOUS
<1>1. Created \subseteq Requests /\ stream \in Seq(Requests)
  BY DEF Created, TypeInv, RedisOK
<1>2. \A s \in Views : <<s>> \in Seq(Snapshots)
  BY DEF Views
<1>3. (1..Len(stream)) \subseteq Records
  BY LimitsAssumption DEF TypeInv, RedisOK, Records
<1>4. request \in [Threads -> Requests \cup {NoRequest}]
  BY <1>1 DEF TypeInv, PublishingOK
<1>5. view \in [Threads -> {<<>>} \cup Seq(Snapshots)]
  <2>1. {<<s>> : s \in Views} \subseteq Seq(Snapshots)
    BY <1>2
  <2> QED  BY <2>1, Zenon DEF TypeInv, PublishingOK
<1>6. record \in [Consumers -> Records \cup {0}]
  BY <1>3 DEF TypeInv, ConsumingOK
<1>7. DatabaseOK /\ RedisOK /\ GroupOK /\ PublishingOK /\ ConsumingOK /\ FaultsOK
  BY DEF TypeInv
<1> QED
  BY <1>1, <1>4, <1>5, <1>6, <1>7
     DEF TypeOK, DatabaseOK, RedisOK, GroupOK, PublishingOK, ConsumingOK, FaultsOK

LEMMA TypeInvInit == Init => TypeInv
<1> SUFFICES ASSUME Init PROVE TypeInv
  OBVIOUS
<1> USE OwnerAssumption, LimitsAssumption, ThreadsAssumption DEF Init
<1>1. DatabaseOK
  BY DEF DatabaseOK, Statuses
<1>2. RedisOK /\ GroupOK /\ FaultsOK
  BY DEF RedisOK, GroupOK, FaultsOK, Records
<1>3. PublishingOK
  BY DEF PublishingOK, ThreadPc
<1>4. ConsumingOK
  BY DEF ConsumingOK, ConsumerPc
<1> QED  BY <1>1, <1>2, <1>3, <1>4 DEF TypeInv

\* The request of the record at work was created.
LEMMA CurrentCreated ==
  ASSUME TypeInv, NEW c \in Consumers, cpc[c] # "idle"
  PROVE  /\ Current(c) \in Created /\ Current(c) \in Requests
         /\ record[c] \in 1..Len(stream) /\ record[c] \in Records
<1>1. record[c] \in 1..Len(stream) /\ stream \in Seq(Created) /\ Len(stream) <= MaxRecords
  BY DEF TypeInv, ConsumingOK, RedisOK
<1>2. stream[record[c]] \in Created
  BY <1>1
<1>3. record[c] \in Records
  BY <1>1, LimitsAssumption DEF Records
<1> QED  BY <1>1, <1>2, <1>3 DEF Current, Created

\* What a thread reads is a snapshot whose owners still own their voucher.
LEMMA ViewKnown ==
  ASSUME TypeInv, NEW t \in Threads
  PROVE  Snapshot \in Views /\ View(t) \in Views
<1>1. Owners \subseteq Users /\ {q \in Requests : status[q] \in {"CREATED", "PENDING"}} \subseteq Requests
  BY DEF Owners
<1>2. Snapshot \in Views
  BY <1>1 DEF Snapshot, Views, Snapshots, TypeInv, DatabaseOK
<1>3. CASE view[t] = <<>>
  BY <1>2, <1>3 DEF View
<1>4. CASE view[t] # <<>>
  <2>1. PICK s \in Views : view[t] = <<s>>
    BY <1>4 DEF TypeInv, PublishingOK
  <2> QED  BY <1>2, <1>4, <2>1 DEF View
<1> QED  BY <1>3, <1>4

-----------------------------------------------------------------------------
\* Which actions write which group of variables.

LEMMA DatabaseFrame ==
  ASSUME [Next]_vars
  PROVE  \/ UNCHANGED database
         \/ \E t \in Threads :
              \/ \E r \in Requests : Create(t, r)
              \/ MarkPending(t) \/ PublishFailed(t) \/ CompleteOwned(t)
         \/ \E c \in Consumers : PersistDuplicate(c) \/ PersistCreated(c) \/ FailDead(c)
         \/ TemplateEnds \/ ExpireVouchers
BY DEF Next, vars, Publisher, Consumer, Scan, PublisherStops, SelectGrant, ReadTemplate,
       GrantScript, LockInit, CheckStock, WarmOwners, WriteStock, FindInFlight, RemoveMember,
       CallFails, ConsumerStops, Take, PersistDecided, PersistFails, ReturnUnit, ClearRetry,
       Acknowledge, CountRetry, WriteDeadLetter, CompensateDead, LockExpires

LEMMA RedisFrame ==
  ASSUME [Next]_vars
  PROVE  \/ UNCHANGED redis
         \/ \E t \in Threads : GrantScript(t) \/ WarmOwners(t) \/ WriteStock(t) \/ RemoveMember(t)
         \/ \E c \in Consumers : ReturnUnit(c) \/ CompensateDead(c)
BY DEF Next, vars, Publisher, Consumer, Create, Scan, Publish, PublisherStops, SelectGrant,
       ReadTemplate, MarkPending, PublishFailed, LockInit, CheckStock, CompleteOwned, FindInFlight,
       CallFails, ConsumerStops, Take, PersistDecided, PersistDuplicate, PersistCreated,
       PersistFails, ClearRetry, Acknowledge, CountRetry, WriteDeadLetter, FailDead,
       LockExpires, TemplateEnds, ExpireVouchers

LEMMA GroupFrame ==
  ASSUME [Next]_vars
  PROVE  \/ UNCHANGED group
         \/ \E c \in Consumers : ClearRetry(c) \/ Acknowledge(c) \/ CountRetry(c)
BY DEF Next, vars, Publisher, Consumer, Create, Scan, Publish, PublisherStops, SelectGrant,
       ReadTemplate, GrantScript, MarkPending, PublishFailed, LockInit, CheckStock, WarmOwners,
       WriteStock, CompleteOwned, FindInFlight, RemoveMember, CallFails, ConsumerStops, Take,
       PersistDecided, PersistDuplicate, PersistCreated, PersistFails, ReturnUnit,
       WriteDeadLetter, FailDead, CompensateDead, LockExpires, TemplateEnds, ExpireVouchers

-----------------------------------------------------------------------------
\* The database: a request that was created stays so, an owner stays one.

LEMMA DatabaseStep ==
  ASSUME TypeInv, [Next]_vars
  PROVE  DatabaseOK' /\ Created \subseteq Created' /\ Owners \subseteq Owners'
<1> DEFINE P == DatabaseOK' /\ Created \subseteq Created' /\ Owners \subseteq Owners'
<1>0. DatabaseOK
  BY DEF TypeInv
<1>1. CASE UNCHANGED database
  BY <1>0, <1>1 DEF database, DatabaseOK, Created, Owners
<1>2. ASSUME NEW r \in Requests, NEW s \in Statuses \ {"NONE"}, SetStatus(r, s),
             UNCHANGED <<holding, lapsed, dbStock, template>>
      PROVE  P
  BY <1>0, <1>2 DEF SetStatus, DatabaseOK, Created, Owners
<1>3. ASSUME NEW r \in Requests, MarkFailed(r)
      PROVE  P
  BY <1>2, <1>3 DEF MarkFailed, Statuses
<1>4. ASSUME NEW t \in Threads, NEW r \in Requests, Create(t, r)
      PROVE  P
  BY <1>2, <1>4 DEF Create, Statuses
<1>5. ASSUME NEW t \in Threads, MarkPending(t) \/ PublishFailed(t) \/ CompleteOwned(t)
      PROVE  P
  <2>1. request[t] \in Requests /\ status[request[t]] \in Statuses \ {"NONE"}
    BY <1>5 DEF MarkPending, PublishFailed, CompleteOwned, TypeInv, PublishingOK, DatabaseOK, Created
  <2>2. "SUCCESS" \in Statuses \ {"NONE"} /\ "PENDING" \in Statuses \ {"NONE"}
    BY DEF Statuses
  <2>3. CASE MarkPending(t)
    BY <1>2, <2>1, <2>2, <2>3 DEF MarkPending
  <2>4. CASE PublishFailed(t)
    BY <1>3, <2>1, <2>4 DEF PublishFailed
  <2>5. CASE CompleteOwned(t)
    BY <1>0, <1>2, <2>1, <2>2, <2>5 DEF CompleteOwned, DatabaseOK, Created, Owners
  <2> QED  BY <1>5, <2>3, <2>4, <2>5
<1>6. ASSUME NEW c \in Consumers, PersistDuplicate(c) \/ FailDead(c)
      PROVE  P
  <2>1. Current(c) \in Requests
    BY <1>6, CurrentCreated DEF PersistDuplicate, FailDead
  <2> QED  BY <1>2, <1>3, <1>6, <2>1 DEF PersistDuplicate, FailDead, Statuses
<1>7. ASSUME NEW c \in Consumers, PersistCreated(c)
      PROVE  P
  <2> DEFINE r == Current(c)
  <2>1. r \in Requests /\ Owner[r] \in Users
    BY <1>7, CurrentCreated, OwnerAssumption DEF PersistCreated
  <2>2. /\ dbStock > 0 /\ dbStock' = dbStock - 1
        /\ holding' = [holding EXCEPT ![Owner[r]] = r]
        /\ status' = [status EXCEPT ![r] = "SUCCESS"]
        /\ UNCHANGED <<lapsed, template>>
    BY <1>7 DEF PersistCreated, Persistable, SetStatus
  <2>3. r # NoRequest
    BY <2>1, OwnerAssumption
  <2> HIDE DEF r
  <2> QED  BY <1>0, <2>1, <2>2, <2>3 DEF DatabaseOK, Statuses, Created, Owners
<1>8. CASE TemplateEnds \/ ExpireVouchers
  BY <1>0, <1>8, OwnerAssumption DEF TemplateEnds, ExpireVouchers, DatabaseOK, Created, Owners
<1> HIDE DEF P
<1>9. P
  BY <1>1, <1>4, <1>5, <1>6, <1>7, <1>8, DatabaseFrame
     DEF P, DatabaseOK, Created, Owners, database
<1> QED  BY <1>9 DEF P

-----------------------------------------------------------------------------
\* Redis and the group.

LEMMA CompensateStep ==
  ASSUME TypeInv, NEW r \in Requests, NEW b \in BOOLEAN, Compensate(r, b)
  PROVE  /\ stock' \in Nat \cup {Absent} /\ members' \subseteq Users
         /\ reserved' \subseteq reserved /\ stream' = stream
BY DEF Compensate, TypeInv, RedisOK, Absent

LEMMA RedisStep ==
  ASSUME TypeInv, [Next]_vars
  PROVE  RedisOK' /\ Len(stream) <= Len(stream')
                  /\ \A k \in 1..Len(stream) : stream'[k] = stream[k]
<1> DEFINE P == RedisOK' /\ Len(stream) <= Len(stream')
                         /\ \A k \in 1..Len(stream) : stream'[k] = stream[k]
<1>0. /\ RedisOK /\ DatabaseOK /\ Created \subseteq Created'
      /\ Seq(Created) \subseteq Seq(Created') /\ stream \in Seq(Created)
  BY DatabaseStep DEF TypeInv, RedisOK
<1>1. ASSUME stock' \in Nat \cup {Absent}, members' \subseteq Users, reserved' \subseteq Requests,
             stream' = stream
      PROVE  P
  BY <1>0, <1>1 DEF RedisOK
<1>2. CASE UNCHANGED redis
  BY <1>0, <1>1, <1>2 DEF redis, RedisOK
<1>3. ASSUME NEW t \in Threads, GrantScript(t)
      PROVE  P
  <2>1. CASE UNCHANGED redis
    BY <1>2, <2>1
  <2>2. CASE stock > 0 /\ Len(stream) < MaxRecords /\ Reserve(request[t])
    <3>1. request[t] \in Created /\ request[t] \in Requests /\ Owner[request[t]] \in Users
      BY <1>3, OwnerAssumption DEF GrantScript, TypeInv, PublishingOK, Created
    <3>2. stream' = Append(stream, request[t]) /\ stream' \in Seq(Created')
      BY <1>0, <2>2, <3>1 DEF Reserve
    <3>3. /\ Len(stream') = Len(stream) + 1
          /\ \A k \in 1..Len(stream) : stream'[k] = stream[k]
      BY <1>0, <3>2
    <3>4. Len(stream) \in Nat /\ Len(stream) + 1 <= MaxRecords
      BY <1>0, <2>2, LimitsAssumption
    <3>5. stock' \in Nat /\ members' \subseteq Users /\ reserved' \subseteq Requests
      BY <1>0, <2>2, <3>1 DEF Reserve, RedisOK, Absent
    <3> QED  BY <3>2, <3>3, <3>4, <3>5 DEF RedisOK
  <2> QED  BY <1>3, <2>1, <2>2 DEF GrantScript
<1>4. ASSUME NEW t \in Threads, WarmOwners(t) \/ WriteStock(t) \/ RemoveMember(t)
      PROVE  P
  <2>1. View(t).owners \subseteq Users /\ seen[t] \in Nat
    BY ViewKnown DEF Views, Snapshots, TypeInv, PublishingOK
  <2> QED  BY <1>0, <1>1, <1>4, <2>1 DEF WarmOwners, WriteStock, RemoveMember, RedisOK
<1>5. ASSUME NEW c \in Consumers, ReturnUnit(c) \/ CompensateDead(c)
      PROVE  P
  <2>1. Current(c) \in Requests
    BY <1>5, CurrentCreated DEF ReturnUnit, CompensateDead
  <2>2. PICK b \in BOOLEAN : Compensate(Current(c), b)
    <3>1. ReturnUnit(c) => Compensate(Current(c), cpc[c] = "drop")
      BY DEF ReturnUnit
    <3>2. CompensateDead(c) => Compensate(Current(c), TRUE)
      BY DEF CompensateDead
    <3> QED  BY <1>5, <3>1, <3>2
  <2>3. /\ stock' \in Nat \cup {Absent} /\ members' \subseteq Users
        /\ reserved' \subseteq reserved /\ stream' = stream
    BY <2>1, <2>2, CompensateStep
  <2>4. reserved' \subseteq Requests
    BY <1>0, <2>3 DEF RedisOK
  <2> HIDE DEF P
  <2> QED  BY <1>1, <2>3, <2>4
<1>6. ASSUME ~UNCHANGED redis
      PROVE  P
  <2> HIDE DEF P
  <2> QED  BY <1>3, <1>4, <1>5, <1>6, RedisFrame
<1> QED  BY <1>2, <1>6

LEMMA GroupStep ==
  ASSUME TypeInv, [Next]_vars
  PROVE  GroupOK'
<1>0. GroupOK
  BY DEF TypeInv
<1>1. CASE UNCHANGED group
  BY <1>0, <1>1 DEF group, GroupOK
<1>2. ASSUME NEW c \in Consumers, ClearRetry(c) \/ Acknowledge(c) \/ CountRetry(c)
      PROVE  GroupOK'
  <2>1. record[c] \in Records
    BY <1>2, CurrentCreated DEF ClearRetry, Acknowledge, CountRetry
  <2>2. CASE ClearRetry(c)
    BY <1>0, <2>1, <2>2, LimitsAssumption DEF ClearRetry, GroupOK
  <2>3. CASE Acknowledge(c)
    BY <1>0, <2>1, <2>3 DEF Acknowledge, GroupOK
  <2>4. CASE CountRetry(c)
    <3> DEFINE n == retries[record[c]] + 1
               m == IF n < MaxRetries THEN n ELSE MaxRetries
    <3>1. m \in 0..MaxRetries
      BY <1>0, <2>1, LimitsAssumption DEF GroupOK
    <3>2. retries' = [retries EXCEPT ![record[c]] = m] /\ acked' = acked
      BY <2>4 DEF CountRetry
    <3> HIDE DEF m
    <3> QED  BY <1>0, <2>1, <3>1, <3>2 DEF GroupOK
  <2> QED  BY <1>2, <2>2, <2>3, <2>4
<1> QED  BY <1>1, <1>2, GroupFrame

-----------------------------------------------------------------------------
\* The threads.

\* What each step does to them: one goes on, takes a request or a snapshot.
LEMMA PublishingStep ==
  ASSUME TypeInv, [Next]_vars
  PROVE  PublishingOK'
<1> DEFINE Lock == initLock' \in Threads \cup {Free, Orphan}
<1>0. /\ PublishingOK /\ Created \subseteq Created' /\ Views \subseteq Views'
  BY DatabaseStep DEF TypeInv, Views, Snapshots
<1>1. CASE UNCHANGED publishing
  BY <1>0, <1>1 DEF publishing, PublishingOK
<1>2. ASSUME NEW t \in Threads, NEW next \in ThreadPc, pc[t] # "idle", Goto(t, next), Lock
      PROVE  PublishingOK'
  <2>1. next # "idle" => request'[t] \in Created'
    BY <1>0, <1>2 DEF Goto, PublishingOK
  <2>2. request' \in [Threads -> Created' \cup {NoRequest}]
    BY <1>0, <1>2 DEF Goto, PublishingOK
  <2>3. seen' \in [Threads -> Nat] /\ pc' \in [Threads -> ThreadPc]
    BY <1>0, <1>2 DEF Goto, PublishingOK
  <2>4. view' \in [Threads -> {<<>>} \cup {<<s>> : s \in Views'}]
    <3>1. {<<s>> : s \in Views} \subseteq {<<s>> : s \in Views'}
      BY <1>0
    <3> QED  BY <1>0, <1>2, <3>1 DEF Goto, PublishingOK
  <2>5. \A k \in Threads : pc'[k] # "idle" => request'[k] \in Created'
    BY <1>0, <1>2, <2>1 DEF Goto, PublishingOK
  <2> QED  BY <1>2, <2>2, <2>3, <2>4, <2>5 DEF PublishingOK
<1>3. ASSUME NEW t \in Threads, NEW r \in Requests, Create(t, r) \/ Scan(t, r)
      PROVE  PublishingOK'
  <2>1. r \in Created'
    BY <1>3 DEF Create, Scan, Scannable, SetStatus, Created, TypeInv, DatabaseOK, database
  <2>2. \E first \in ThreadPc \ {"idle"} : Publish(t, r, first)
    BY <1>3 DEF Create, Scan, ThreadPc
  <2>3. {<<s>> : s \in Views} \subseteq {<<s>> : s \in Views'}
    BY <1>0
  <2> QED  BY <1>0, <2>1, <2>2, <2>3 DEF Publish, PublishingOK
<1>4. ASSUME NEW t \in Threads, SelectGrant(t)
      PROVE  PublishingOK'
  <2>1. CASE Goto(t, "idle")
    BY <1>0, <1>2, <1>4, <2>1 DEF SelectGrant, ThreadPc, PublishingOK
  <2>2. CASE ~Goto(t, "idle")
    <3>1. {<<s>> : s \in Views} \subseteq {<<s>> : s \in Views'} /\ Snapshot \in Views'
      BY <1>0, ViewKnown
    <3>2. /\ pc' = [pc EXCEPT ![t] = "template"] /\ pc[t] # "idle"
          /\ view' = [view EXCEPT ![t] = IF pc[t] = "first" THEN <<Snapshot>> ELSE <<>>]
          /\ UNCHANGED <<initLock, request, seen>>
      BY <1>4, <2>2 DEF SelectGrant
    <3> QED  BY <1>0, <3>1, <3>2 DEF PublishingOK, ThreadPc
  <2> QED  BY <2>1, <2>2
<1>5. ASSUME NEW t \in Threads, ReadTemplate(t)
      PROVE  PublishingOK'
  <2>1. View(t).stock \in Nat
    BY ViewKnown DEF Views, Snapshots
  <2>2. {<<s>> : s \in Views} \subseteq {<<s>> : s \in Views'}
    BY <1>0
  <2> HIDE DEF Lock
  <2> QED  BY <1>0, <1>5, <2>1, <2>2 DEF ReadTemplate, PublishingOK, ThreadPc
<1>6. ASSUME NEW t \in Threads,
             \/ GrantScript(t) \/ MarkPending(t) \/ PublishFailed(t) \/ CompleteOwned(t)
             \/ FindInFlight(t) \/ RemoveMember(t) \/ WarmOwners(t)
      PROVE  PublishingOK'
  <2>1. \E next \in ThreadPc : Goto(t, next)
    BY <1>6 DEF GrantScript, MarkPending, PublishFailed, CompleteOwned, FindInFlight,
                RemoveMember, WarmOwners, ThreadPc
  <2>2. Lock /\ pc[t] # "idle"
    BY <1>0, <1>6 DEF GrantScript, MarkPending, PublishFailed, CompleteOwned, FindInFlight,
                      RemoveMember, WarmOwners, PublishingOK
  <2> HIDE DEF Lock
  <2> QED  BY <1>2, <2>1, <2>2
<1>7. ASSUME NEW t \in Threads,
             LockInit(t) \/ CheckStock(t) \/ WriteStock(t) \/ PublisherStops(t)
      PROVE  PublishingOK'
  <2>1. \E next \in ThreadPc : Goto(t, next)
    BY <1>7 DEF LockInit, CheckStock, WriteStock, PublisherStops, ThreadPc
  <2>2. Lock /\ pc[t] # "idle"
    BY <1>0, <1>7 DEF LockInit, CheckStock, WriteStock, PublisherStops, Unlock, PublishingOK
  <2> HIDE DEF Lock
  <2> QED  BY <1>2, <2>1, <2>2
<1>8. CASE LockExpires
  <2>1. {<<s>> : s \in Views} \subseteq {<<s>> : s \in Views'}
    BY <1>0
  <2> QED  BY <1>0, <1>8, <2>1 DEF LockExpires, PublishingOK
<1>9. \/ UNCHANGED publishing
      \/ \E t \in Threads :
           \/ Publisher(t) \/ PublisherStops(t) \/ \E r \in Requests : Create(t, r) \/ Scan(t, r)
      \/ LockExpires
  BY DEF Next, vars, Consumer, CallFails, ConsumerStops, Take, PersistDecided, PersistDuplicate,
         PersistCreated, PersistFails, ReturnUnit, ClearRetry, Acknowledge, CountRetry,
         WriteDeadLetter, FailDead, CompensateDead, TemplateEnds, ExpireVouchers
<1> HIDE DEF Lock
<1> QED  BY <1>1, <1>3, <1>4, <1>5, <1>6, <1>7, <1>8, <1>9 DEF Publisher

-----------------------------------------------------------------------------
\* The consumers.

LEMMA ConsumingStep ==
  ASSUME TypeInv, [Next]_vars
  PROVE  ConsumingOK'
<1>0. /\ ConsumingOK /\ 1..Len(stream) \subseteq 1..Len(stream')
      /\ Len(stream) \in Nat
  BY RedisStep DEF TypeInv, RedisOK
<1>1. CASE UNCHANGED consuming
  BY <1>0, <1>1 DEF consuming, ConsumingOK
<1>2. ASSUME NEW c \in Consumers, cpc[c] # "idle", \E next \in ConsumerPc : Step(c, next)
      PROVE  ConsumingOK'
  <2>1. PICK next \in ConsumerPc : Step(c, next)
    BY <1>2
  <2> QED  BY <1>0, <1>2, <2>1 DEF Step, ConsumingOK
<1>3. ASSUME NEW c \in Consumers, NEW k \in Records, Take(c, k)
      PROVE  ConsumingOK'
  BY <1>0, <1>3 DEF Take, ConsumingOK, ConsumerPc
<1>4. ASSUME NEW c \in Consumers, Consumer(c) \/ CallFails(c) \/ ConsumerStops(c)
      PROVE  cpc[c] # "idle" /\ \E next \in ConsumerPc : Step(c, next)
  BY <1>4 DEF Consumer, CallFails, ConsumerStops, PersistDecided, PersistDuplicate, PersistCreated,
              PersistFails, ReturnUnit, ClearRetry, Acknowledge, CountRetry, WriteDeadLetter,
              FailDead, CompensateDead, Executed, ConsumerPc
<1>5. \/ UNCHANGED consuming
      \/ \E c \in Consumers : \/ Consumer(c) \/ CallFails(c) \/ ConsumerStops(c)
                              \/ \E k \in Records : Take(c, k)
  BY DEF Next, vars, Publisher, Create, Scan, Publish, PublisherStops, SelectGrant, ReadTemplate,
         GrantScript, MarkPending, PublishFailed, LockInit, CheckStock, WarmOwners, WriteStock,
         CompleteOwned, FindInFlight, RemoveMember, LockExpires, TemplateEnds, ExpireVouchers
<1> QED  BY <1>1, <1>2, <1>3, <1>4, <1>5

LEMMA FaultsStep ==
  ASSUME TypeInv, [Next]_vars
  PROVE  FaultsOK'
<1>1. UNCHANGED faults \/ Fault
  BY DEF Next, vars, Publisher, Consumer, Create, Scan, Publish, PublisherStops, SelectGrant,
         ReadTemplate, GrantScript, MarkPending, PublishFailed, LockInit, CheckStock, WarmOwners,
         WriteStock, CompleteOwned, FindInFlight, RemoveMember, CallFails, ConsumerStops, Take,
         PersistDecided, PersistDuplicate, PersistCreated, PersistFails, ReturnUnit, ClearRetry,
         Acknowledge, CountRetry, WriteDeadLetter, FailDead, CompensateDead, Executed,
         LockExpires, TemplateEnds, ExpireVouchers
<1> QED  BY <1>1, LimitsAssumption DEF Fault, FaultsOK, TypeInv

LEMMA TypeInvNext ==
  ASSUME TypeInv, [Next]_vars
  PROVE  TypeInv'
BY DatabaseStep, RedisStep, GroupStep, PublishingStep, ConsumingStep, FaultsStep DEF TypeInv

LEMMA TypeInvariant == Spec => []TypeInv
BY TypeInvInit, TypeInvNext, PTL DEF Spec

\* Every variable keeps its type, whatever fails and however the threads and
\* the consumers interleave.
THEOREM TypeCorrect == Spec => []TypeOK
BY TypeInvariant, TypeInvImpliesTypeOK, PTL

-----------------------------------------------------------------------------
\* The refinement: each step of the database is one of Grant or a stutter.

GrantStep == [Grants!Next]_(Grants!vars)

Fates == [r \in Requests |-> Fate(r)]

LEMMA GrantStutters ==
  ASSUME UNCHANGED <<status, holding, dbStock>>
  PROVE  GrantStep
BY DEF GrantStep, Grants!vars, Fate, Owners

\* A new status of one request is its new fate.
LEMMA FateOf ==
  ASSUME TypeInv, NEW r \in Requests, NEW s \in Statuses, SetStatus(r, s)
  PROVE  /\ Fates' = [Fates EXCEPT ![r] = Fate(r)']
         /\ Fate(r)' = CASE s = "NONE" -> "none" [] s \in {"CREATED", "PENDING"} -> "waiting"
                         [] s = "SUCCESS" -> "granted" [] s = "FAILED" -> "refused"
<1>1. status' = [status EXCEPT ![r] = s] /\ status \in [Requests -> Statuses]
  BY DEF SetStatus, TypeInv, DatabaseOK
<1>2. status'[r] = s /\ \A q \in Requests \ {r} : status'[q] = status[q]
  BY <1>1
<1>3. \A q \in Requests \ {r} : Fate(q)' = Fate(q)
  BY <1>2 DEF Fate
<1>4. Fates' = [Fates EXCEPT ![r] = Fate(r)']
  BY <1>3 DEF Fates
<1> QED  BY <1>2, <1>4 DEF Fate

LEMMA RefusesStep ==
  ASSUME TypeInv, NEW r \in Created, MarkFailed(r)
  PROVE  GrantStep
<1>1. r \in Requests /\ status[r] \in Statuses \ {"NONE"}
  BY DEF Created, TypeInv, DatabaseOK
<1>2. CASE status[r] = "SUCCESS"
  <2>1. status' = status
    BY <1>1, <1>2 DEF MarkFailed, SetStatus, TypeInv, DatabaseOK
  <2> QED  BY <2>1, GrantStutters DEF MarkFailed
<1>3. CASE status[r] # "SUCCESS"
  <2>1. SetStatus(r, "FAILED") /\ "FAILED" \in Statuses /\ UNCHANGED <<holding, dbStock>>
    BY <1>3 DEF MarkFailed, Statuses
  <2>2. Fates' = [Fates EXCEPT ![r] = "refused"]
    BY <1>1, <2>1, FateOf
  <2>3. Fates[r] \in {"waiting", "refused"}
    BY <1>1, <1>3 DEF Fates, Fate, Statuses
  <2>4. Owners' = Owners
    BY <2>1 DEF Owners
  <2>5. Grants!Refuse(r)
    BY <2>1, <2>2, <2>3, <2>4 DEF Grants!Refuse, Fates
  <2> QED  BY <1>1, <2>5 DEF GrantStep, Grants!Next
<1> QED  BY <1>2, <1>3

LEMMA OwnsStep ==
  ASSUME TypeInv, NEW r \in Created, Owner[r] \in Owners, SetStatus(r, "SUCCESS"),
         UNCHANGED <<holding, dbStock>>
  PROVE  GrantStep
<1>1. r \in Requests /\ "SUCCESS" \in Statuses
  BY DEF Created, Statuses
<1>2. Fates' = [Fates EXCEPT ![r] = "granted"]
  BY <1>1, FateOf
<1>3. Fates[r] # "none"
  BY <1>1 DEF Fates, Fate, Created, Statuses, TypeInv, DatabaseOK
<1>4. Owners' = Owners
  BY DEF Owners
<1>5. Grants!Own(r)
  BY <1>2, <1>3, <1>4 DEF Grants!Own, Fates
<1> QED  BY <1>1, <1>5 DEF GrantStep, Grants!Next

LEMMA GrantNext ==
  ASSUME TypeInv, [Next]_vars
  PROVE  GrantStep
<1>1. ASSUME NEW t \in Threads, NEW r \in Requests, Create(t, r)
      PROVE  GrantStep
  <2>1. SetStatus(r, "CREATED") /\ "CREATED" \in Statuses /\ status[r] = "NONE"
        /\ UNCHANGED <<holding, dbStock>>
    BY <1>1 DEF Create, Statuses
  <2>2. Fates' = [Fates EXCEPT ![r] = "waiting"]
    BY <2>1, FateOf
  <2>3. Fates[r] = "none" /\ Owners' = Owners
    BY <2>1 DEF Fates, Fate, Owners
  <2>4. Grants!Request(r)
    BY <2>1, <2>2, <2>3 DEF Grants!Request, Fates
  <2> QED  BY <2>4 DEF GrantStep, Grants!Next
<1>2. ASSUME NEW t \in Threads, MarkPending(t)
      PROVE  GrantStep
  <2> DEFINE r == request[t]
             s == IF status[r] = "CREATED" THEN "PENDING" ELSE status[r]
  <2>1. r \in Requests /\ status[r] \in Statuses
    BY <1>2 DEF MarkPending, TypeInv, PublishingOK, DatabaseOK, Created
  <2>2. SetStatus(r, s) /\ UNCHANGED <<holding, dbStock>> /\ s \in Statuses
    BY <1>2, <2>1 DEF MarkPending, Statuses
  <2> HIDE DEF r
  <2>3. CASE status[r] = "CREATED"
    <3>1. SetStatus(r, "PENDING") /\ "PENDING" \in Statuses
      BY <2>2, <2>3 DEF Statuses
    <3>2. Fates' = [Fates EXCEPT ![r] = "waiting"]
      BY <2>1, <3>1, FateOf
    <3>3. Fates[r] = "waiting" /\ Owners' = Owners
      BY <2>1, <2>2, <2>3 DEF Fates, Fate, Owners
    <3>4. Fates' = Fates
      BY <3>2, <3>3 DEF Fates
    <3> QED  BY <2>2, <3>3, <3>4 DEF GrantStep, Grants!vars, Fates
  <2>4. CASE status[r] # "CREATED"
    <3>1. status' = status
      BY <2>1, <2>2, <2>4 DEF SetStatus, TypeInv, DatabaseOK
    <3> QED  BY <2>2, <3>1, GrantStutters
  <2> QED  BY <2>3, <2>4
<1>3. ASSUME NEW t \in Threads, PublishFailed(t)
      PROVE  GrantStep
  BY <1>3, RefusesStep DEF PublishFailed, TypeInv, PublishingOK
<1>4. ASSUME NEW t \in Threads, CompleteOwned(t)
      PROVE  GrantStep
  <2>1. View(t).owners \subseteq Owners /\ request[t] \in Created
    BY <1>4, ViewKnown DEF CompleteOwned, Views, TypeInv, PublishingOK
  <2> QED  BY <1>4, <2>1, OwnsStep, GrantStutters DEF CompleteOwned
<1>5. ASSUME NEW c \in Consumers, PersistDuplicate(c) \/ FailDead(c)
      PROVE  GrantStep
  <2>1. Current(c) \in Created
    BY <1>5, CurrentCreated DEF PersistDuplicate, FailDead
  <2> QED  BY <1>5, <2>1, OwnsStep, RefusesStep DEF PersistDuplicate, FailDead
<1>6. ASSUME NEW c \in Consumers, PersistCreated(c)
      PROVE  GrantStep
  <2> DEFINE r == Current(c)
  <2>1. r \in Requests /\ r \in Created /\ Owner[r] \in Users
    BY <1>6, CurrentCreated, OwnerAssumption DEF PersistCreated
  <2>2. /\ dbStock > 0 /\ dbStock' = dbStock - 1 /\ Owner[r] \notin Owners
        /\ holding' = [holding EXCEPT ![Owner[r]] = r]
        /\ SetStatus(r, "SUCCESS") /\ Undecided(r)
    BY <1>6 DEF PersistCreated, Persistable
  <2> HIDE DEF r
  <2>3. "SUCCESS" \in Statuses /\ r # NoRequest
    BY <2>1, OwnerAssumption DEF Statuses
  <2>4. Fates' = [Fates EXCEPT ![r] = "granted"]
    BY <2>1, <2>2, <2>3, FateOf
  <2>5. Fates[r] = "waiting"
    BY <2>1, <2>2 DEF Fates, Fate, Created, Undecided, Statuses, TypeInv, DatabaseOK
  <2>6. Owners' = Owners \cup {Owner[r]}
    BY <2>1, <2>2, <2>3 DEF Owners, TypeInv, DatabaseOK
  <2>7. Grants!Give(r)
    BY <2>2, <2>4, <2>5, <2>6 DEF Grants!Give, Fates
  <2> QED  BY <2>1, <2>7 DEF GrantStep, Grants!Next
<1>7. CASE TemplateEnds \/ ExpireVouchers \/ UNCHANGED database
  BY <1>7, GrantStutters DEF TemplateEnds, ExpireVouchers, database
<1>8. ASSUME ~UNCHANGED database
      PROVE  GrantStep
  BY <1>1, <1>2, <1>3, <1>4, <1>5, <1>6, <1>7, <1>8, DatabaseFrame
<1> QED  BY <1>7, <1>8

LEMMA GrantInit == Init => Grants!Init
<1> SUFFICES ASSUME Init PROVE Grants!Init
  OBVIOUS
<1>1. [r \in Requests |-> Fate(r)] = [r \in Requests |-> "none"]
  BY DEF Init, Fate
<1>2. Owners = OldOwners
  BY OwnerAssumption DEF Init, Owners
<1> QED  BY <1>1, <1>2 DEF Init, Grants!Init

\* The pipeline from the grant log to the voucher implements Grant: whatever
\* fails, no request loses its voucher, nobody gets two, no unit is given twice.
THEOREM GrantsAreImplemented == Spec => ImplementsGrant
<1>1. Spec => [][Grants!Next]_(Grants!vars)
  <2>1. TypeInv /\ [Next]_vars => [Grants!Next]_(Grants!vars)
    BY GrantNext DEF GrantStep
  <2> QED  BY <2>1, TypeInvariant, PTL DEF Spec
<1> QED  BY <1>1, GrantInit, PTL DEF Spec, ImplementsGrant, Grants!Spec

-----------------------------------------------------------------------------
\* The units: what Redis holds and what the database has sold.

Decided(r) == status[r] \in {"SUCCESS", "FAILED"}

\* A voucher comes from a request of its owner that has succeeded; a record whose
\* request is not decided has its unit in Redis; a unit goes back only after the
\* decision, and not to make room for a voucher of the same request.
UnitsInv ==
  /\ IsFiniteSet(reserved)
  /\ \A u \in Users : holding[u] \in Requests => status[holding[u]] = "SUCCESS" /\ Owner[holding[u]] = u
  /\ \A k \in 1..Len(stream) : Decided(stream[k]) \/ stream[k] \in reserved
  /\ \A c \in Consumers :
       /\ cpc[c] \in {"keep", "drop", "compensate"} => Decided(Current(c))
       /\ cpc[c] \in {"keep", "drop"} => holding[Owner[Current(c)]] # Current(c)

LEMMA UnitsInit == Init => UnitsInv
<1> SUFFICES ASSUME Init PROVE UnitsInv
  OBVIOUS
<1>1. IsFiniteSet(reserved) /\ Len(stream) = 0
  BY FS_EmptySet DEF Init
<1> QED  BY <1>1, OwnerAssumption DEF Init, UnitsInv

\* SUCCESS is final, and what is decided stays decided.
LEMMA StatusStep ==
  ASSUME TypeInv, [Next]_vars, NEW r \in Requests
  PROVE  /\ status[r] = "SUCCESS" => status'[r] = "SUCCESS"
         /\ Decided(r) => status'[r] \in {"SUCCESS", "FAILED"}
<1>0. status \in [Requests -> Statuses]
  BY DEF TypeInv, DatabaseOK
<1>1. CASE UNCHANGED status
  BY <1>1 DEF Decided
<1>2. ASSUME NEW q \in Requests, NEW s \in Statuses, SetStatus(q, s),
             status[q] = "SUCCESS" => s = "SUCCESS",
             Decided(q) => s \in {"SUCCESS", "FAILED"}
      PROVE  /\ status[r] = "SUCCESS" => status'[r] = "SUCCESS"
             /\ Decided(r) => status'[r] \in {"SUCCESS", "FAILED"}
  BY <1>0, <1>2 DEF SetStatus, Decided
<1>3. ASSUME ~UNCHANGED status
      PROVE  \E q \in Requests, s \in Statuses :
               /\ SetStatus(q, s)
               /\ status[q] = "SUCCESS" => s = "SUCCESS"
               /\ Decided(q) => s \in {"SUCCESS", "FAILED"}
  <2> DEFINE Q(q, s) == /\ SetStatus(q, s)
                        /\ status[q] = "SUCCESS" => s = "SUCCESS"
                        /\ Decided(q) => s \in {"SUCCESS", "FAILED"}
  <2>0. {"CREATED", "PENDING", "SUCCESS", "FAILED"} \subseteq Statuses
    BY DEF Statuses
  <2>1. ASSUME NEW q \in Requests, MarkFailed(q)
        PROVE  \E s \in Statuses : Q(q, s)
    BY <2>0, <2>1 DEF MarkFailed
  <2>2. ASSUME NEW t \in Threads, NEW q \in Requests, Create(t, q)
        PROVE  Q(q, "CREATED")
    BY <2>2 DEF Create, Decided
  <2>3. ASSUME NEW t \in Threads, MarkPending(t) \/ PublishFailed(t) \/ CompleteOwned(t)
        PROVE  \E q \in Requests, s \in Statuses : Q(q, s)
    <3>1. request[t] \in Requests /\ status[request[t]] \in Statuses
      BY <2>3 DEF MarkPending, PublishFailed, CompleteOwned, TypeInv, PublishingOK, DatabaseOK, Created
    <3>2. CASE MarkPending(t)
      BY <2>0, <3>1, <3>2 DEF MarkPending, Decided
    <3>3. CASE PublishFailed(t)
      BY <2>1, <3>1, <3>3 DEF PublishFailed
    <3>4. CASE CompleteOwned(t)
      BY <1>3, <2>0, <3>1, <3>4 DEF CompleteOwned
    <3> QED  BY <2>3, <3>2, <3>3, <3>4
  <2>4. ASSUME NEW c \in Consumers, PersistDuplicate(c) \/ PersistCreated(c) \/ FailDead(c)
        PROVE  \E q \in Requests, s \in Statuses : Q(q, s)
    <3>1. Current(c) \in Requests
      BY <2>4, CurrentCreated DEF PersistDuplicate, PersistCreated, FailDead
    <3>2. CASE FailDead(c)
      BY <2>1, <3>1, <3>2 DEF FailDead
    <3>3. CASE PersistDuplicate(c) \/ PersistCreated(c)
      BY <2>0, <3>1, <3>3 DEF PersistDuplicate, PersistCreated
    <3> QED  BY <2>4, <3>2, <3>3
  <2>5. UNCHANGED database => UNCHANGED status
    BY DEF database
  <2>6. TemplateEnds \/ ExpireVouchers => UNCHANGED status
    BY DEF TemplateEnds, ExpireVouchers
  <2> HIDE DEF Q
  <2>7. \E q \in Requests, s \in Statuses : Q(q, s)
    BY <1>3, <2>0, <2>2, <2>3, <2>4, <2>5, <2>6, DatabaseFrame
  <2> QED  BY <2>7 DEF Q
<1> QED  BY <1>1, <1>2, <1>3

\* Vouchers are given by PersistCreated alone.
LEMMA HoldingStep ==
  ASSUME TypeInv, [Next]_vars
  PROVE  \/ UNCHANGED holding
         \/ \E c \in Consumers : PersistCreated(c)
<1>1. ASSUME ~UNCHANGED database, ~\E c \in Consumers : PersistCreated(c)
      PROVE  UNCHANGED holding
  BY <1>1, DatabaseFrame DEF Create, MarkPending, PublishFailed, CompleteOwned, PersistDuplicate,
                             FailDead, MarkFailed, TemplateEnds, ExpireVouchers
<1>2. UNCHANGED database => UNCHANGED holding
  BY DEF database
<1> QED  BY <1>1, <1>2

\* A unit is taken by the script, and goes back after a decision.
LEMMA ReservedStep ==
  ASSUME TypeInv, [Next]_vars
  PROVE  \/ UNCHANGED <<reserved, stream>>
         \/ \E t \in Threads : GrantScript(t) /\ Reserve(request[t]) /\ request[t] \notin reserved
         \/ \E c \in Consumers : /\ cpc[c] \in {"keep", "drop", "compensate"}
                                 /\ reserved' = reserved \ {Current(c)} /\ stream' = stream
<1>1. ASSUME NEW t \in Threads, GrantScript(t)
      PROVE  UNCHANGED <<reserved, stream>> \/ (Reserve(request[t]) /\ request[t] \notin reserved)
  BY <1>1 DEF GrantScript, redis
<1>2. ASSUME NEW t \in Threads, WarmOwners(t) \/ WriteStock(t) \/ RemoveMember(t)
      PROVE  UNCHANGED <<reserved, stream>>
  BY <1>2 DEF WarmOwners, WriteStock, RemoveMember
<1>3. ASSUME NEW c \in Consumers, ReturnUnit(c) \/ CompensateDead(c)
      PROVE  /\ cpc[c] \in {"keep", "drop", "compensate"}
             /\ reserved' = reserved \ {Current(c)} /\ stream' = stream
  BY <1>3 DEF ReturnUnit, CompensateDead, Compensate
<1>4. UNCHANGED redis => UNCHANGED <<reserved, stream>>
  BY DEF redis
<1> QED  BY <1>1, <1>2, <1>3, <1>4, RedisFrame

SameConsumer(c) == cpc'[c] = cpc[c] /\ record'[c] = record[c]

LEMMA ConsumerFrame ==
  ASSUME TypeInv, [Next]_vars, NEW d \in Consumers
  PROVE  \/ SameConsumer(d)
         \/ Consumer(d) \/ CallFails(d) \/ ConsumerStops(d) \/ \E k \in Records : Take(d, k)
<1>0. ConsumingOK
  BY DEF TypeInv
<1>1. ASSUME NEW c \in Consumers, \E next \in ConsumerPc : Step(c, next), c # d
      PROVE  SameConsumer(d)
  BY <1>0, <1>1 DEF Step, SameConsumer, ConsumingOK
<1>2. ASSUME NEW c \in Consumers, Consumer(c) \/ CallFails(c) \/ ConsumerStops(c)
      PROVE  \E next \in ConsumerPc : Step(c, next)
  BY <1>2 DEF Consumer, CallFails, ConsumerStops, PersistDecided, PersistDuplicate, PersistCreated,
              PersistFails, ReturnUnit, ClearRetry, Acknowledge, CountRetry, WriteDeadLetter,
              FailDead, CompensateDead, Executed, ConsumerPc
<1>3. ASSUME NEW c \in Consumers, NEW k \in Records, Take(c, k), c # d
      PROVE  SameConsumer(d)
  BY <1>0, <1>3 DEF Take, SameConsumer, ConsumingOK
<1>4. UNCHANGED consuming => SameConsumer(d)
  BY DEF consuming, SameConsumer
<1>5. \/ UNCHANGED consuming
      \/ \E c \in Consumers : \/ Consumer(c) \/ CallFails(c) \/ ConsumerStops(c)
                              \/ \E k \in Records : Take(c, k)
  BY DEF Next, vars, Publisher, Create, Scan, Publish, PublisherStops, SelectGrant, ReadTemplate,
         GrantScript, MarkPending, PublishFailed, LockInit, CheckStock, WarmOwners, WriteStock,
         CompleteOwned, FindInFlight, RemoveMember, LockExpires, TemplateEnds, ExpireVouchers
<1> QED  BY <1>1, <1>2, <1>3, <1>4, <1>5

\* What a consumer knows when it is about to return a unit.
LEMMA ConsumerKnows ==
  ASSUME TypeInv, UnitsInv, [Next]_vars, NEW c \in Consumers
  PROVE  /\ cpc'[c] \in {"keep", "drop", "compensate"} => Decided(Current(c))'
         /\ cpc'[c] \in {"keep", "drop"} => (holding[Owner[Current(c)]] # Current(c))'
<1> DEFINE r == Current(c)
           Goal == /\ cpc'[c] \in {"keep", "drop", "compensate"} => Decided(Current(c))'
                   /\ cpc'[c] \in {"keep", "drop"} => (holding[Owner[Current(c)]] # Current(c))'
<1>0. ConsumingOK
  BY DEF TypeInv
<1>1. ASSUME record'[c] = record[c], cpc[c] # "idle"
      PROVE  r' = r /\ r \in Requests /\ Owner[r] \in Users
  <2>1. r \in Requests /\ record[c] \in 1..Len(stream)
    BY <1>1, CurrentCreated
  <2>2. stream'[record[c]] = stream[record[c]]
    BY <2>1, RedisStep
  <2> QED  BY <1>1, <2>1, <2>2, OwnerAssumption DEF Current
<1>2. ASSUME cpc'[c] \notin {"keep", "drop", "compensate"}
      PROVE  Goal
  BY <1>2
<1>3. ASSUME record'[c] = record[c], cpc[c] # "idle",
             cpc'[c] \in {"keep", "drop", "compensate"} => status'[r] \in {"SUCCESS", "FAILED"},
             cpc'[c] \in {"keep", "drop"} => holding'[Owner[r]] # r
      PROVE  Goal
  <2>1. r' = r
    BY <1>1, <1>3
  <2> HIDE DEF r
  <2>2. /\ cpc'[c] \in {"keep", "drop", "compensate"} => status'[r'] \in {"SUCCESS", "FAILED"}
        /\ cpc'[c] \in {"keep", "drop"} => holding'[Owner[r']] # r'
    BY <1>3, <2>1
  <2> QED  BY <2>2 DEF Decided, r
<1> SUFFICES Goal
  OBVIOUS
<1> HIDE DEF Goal
<1>4. CASE SameConsumer(c)
  <2>1. CASE cpc[c] \notin {"keep", "drop", "compensate"}
    BY <1>2, <1>4, <2>1 DEF SameConsumer
  <2>2. CASE cpc[c] \in {"keep", "drop", "compensate"}
    <3>1. /\ Decided(r) /\ r \in Requests /\ Owner[r] \in Users
          /\ cpc[c] \in {"keep", "drop"} => holding[Owner[r]] # r
      BY <1>1, <1>4, <2>2 DEF UnitsInv, SameConsumer
    <3> HIDE DEF r
    <3>2. status'[r] \in {"SUCCESS", "FAILED"}
      BY <3>1, StatusStep
    <3>3. holding'[Owner[r]] \in {holding[Owner[r]]} \cup (Requests \ {r})
      <4>1. ASSUME NEW d \in Consumers, PersistCreated(d)
            PROVE  holding'[Owner[r]] \in {holding[Owner[r]]} \cup (Requests \ {r})
        <5>1. Current(d) \in Requests /\ Current(d) # r
          BY <3>1, <4>1, CurrentCreated DEF PersistCreated, Persistable, Undecided, Decided
        <5>2. holding' = [holding EXCEPT ![Owner[Current(d)]] = Current(d)]
          BY <4>1 DEF PersistCreated
        <5> QED  BY <3>1, <5>1, <5>2 DEF TypeInv, DatabaseOK
      <4> QED  BY <4>1, HoldingStep
    <3>4. cpc'[c] \in {"keep", "drop"} => holding'[Owner[r]] # r
      BY <1>4, <3>1, <3>3 DEF SameConsumer
    <3> QED  BY <1>3, <1>4, <2>2, <3>2, <3>4 DEF SameConsumer, r
  <2> QED  BY <2>1, <2>2
<1>5. CASE PersistDuplicate(c)
  <2>1. cpc[c] = "persist" /\ Undecided(r) /\ Owner[r] \in Owners /\ SetStatus(r, "SUCCESS")
        /\ holding' = holding
    BY <1>5 DEF PersistDuplicate
  <2>2. r \in Requests /\ Owner[r] \in Users
    BY <2>1, CurrentCreated, OwnerAssumption
  <2>3. Step(c, "keep") \/ Step(c, "count")
    BY <1>5 DEF PersistDuplicate, Executed
  <2>4. record'[c] = record[c]
    BY <1>0, <2>3 DEF Step, ConsumingOK
  <2> HIDE DEF r
  <2>5. status'[r] = "SUCCESS"
    BY <2>1, <2>2 DEF SetStatus, TypeInv, DatabaseOK
  <2>6. holding[Owner[r]] # r
    BY <2>1, <2>2 DEF UnitsInv, Undecided
  <2> QED  BY <1>3, <2>1, <2>4, <2>5, <2>6 DEF r
<1>6. CASE PersistDecided(c)
  <2>1. cpc[c] = "persist" /\ UNCHANGED <<status, holding>>
        /\ (Step(c, "clear") \/ (status[r] = "FAILED" /\ Step(c, "drop")))
    BY <1>6 DEF PersistDecided, database
  <2>2. r \in Requests /\ Owner[r] \in Users
    BY <2>1, CurrentCreated, OwnerAssumption
  <2>3. CASE Step(c, "clear")
    BY <1>0, <1>2, <2>3 DEF Step, ConsumingOK
  <2>4. CASE status[r] = "FAILED" /\ Step(c, "drop")
    <3>1. record'[c] = record[c]
      BY <1>0, <2>4 DEF Step, ConsumingOK
    <3> HIDE DEF r
    <3>2. holding[Owner[r]] # r
      BY <2>2, <2>4 DEF UnitsInv
    <3> QED  BY <1>3, <2>1, <2>4, <3>1, <3>2 DEF r
  <2> QED  BY <2>1, <2>3, <2>4
<1>7. CASE FailDead(c)
  <2>1. cpc[c] = "fail" /\ Step(c, "compensate") /\ MarkFailed(r)
    BY <1>7 DEF FailDead
  <2>2. r \in Requests
    BY <2>1, CurrentCreated
  <2>3. record'[c] = record[c] /\ cpc'[c] = "compensate"
    BY <1>0, <2>1 DEF Step, ConsumingOK
  <2> HIDE DEF r
  <2>4. status'[r] \in {"SUCCESS", "FAILED"}
    BY <2>1, <2>2 DEF MarkFailed, SetStatus, TypeInv, DatabaseOK
  <2> QED  BY <1>3, <2>1, <2>3, <2>4 DEF r
<1>8. CASE \/ PersistCreated(c) \/ PersistFails(c) \/ ReturnUnit(c) \/ ClearRetry(c)
           \/ Acknowledge(c) \/ CountRetry(c) \/ WriteDeadLetter(c) \/ CompensateDead(c)
           \/ CallFails(c) \/ ConsumerStops(c)
  <2>1. \E next \in ConsumerPc \ {"keep", "drop", "compensate"} : Step(c, next)
    BY <1>8 DEF PersistCreated, PersistFails, ReturnUnit, ClearRetry, Acknowledge, CountRetry,
                WriteDeadLetter, CompensateDead, CallFails, ConsumerStops, Executed, ConsumerPc
  <2>2. cpc'[c] \notin {"keep", "drop", "compensate"}
    BY <1>0, <2>1 DEF Step, ConsumingOK
  <2> QED  BY <1>2, <2>2
<1>9. ASSUME NEW k \in Records, Take(c, k)
      PROVE  Goal
  BY <1>0, <1>2, <1>9 DEF Take, ConsumingOK
<1> QED
  BY <1>4, <1>5, <1>6, <1>7, <1>8, <1>9, ConsumerFrame DEF Consumer

LEMMA UnitsNext ==
  ASSUME TypeInv, UnitsInv, [Next]_vars
  PROVE  UnitsInv'
<1>1. IsFiniteSet(reserved')
  <2>1. IsFiniteSet(reserved)
    BY DEF UnitsInv
  <2>2. \/ reserved' = reserved
        \/ \E r \in Requests : reserved' = reserved \cup {r} \/ reserved' = reserved \ {r}
    <3>1. \A t \in Threads : GrantScript(t) => request[t] \in Requests
      BY DEF GrantScript, TypeInv, PublishingOK, Created
    <3>2. \A c \in Consumers : cpc[c] # "idle" => Current(c) \in Requests
      BY CurrentCreated
    <3> QED  BY <3>1, <3>2, ReservedStep DEF Reserve
  <2> QED  BY <2>1, <2>2, FS_AddElement, FS_RemoveElement
<1>2. ASSUME NEW u \in Users, holding'[u] \in Requests
      PROVE  status'[holding'[u]] = "SUCCESS" /\ Owner[holding'[u]] = u
  <2>1. CASE holding'[u] = holding[u]
    BY <1>2, <2>1, StatusStep DEF UnitsInv
  <2>2. CASE holding'[u] # holding[u]
    <3>1. PICK c \in Consumers : PersistCreated(c)
      BY <2>2, HoldingStep
    <3>2. Current(c) \in Requests /\ Owner[Current(c)] \in Users
      BY <3>1, CurrentCreated, OwnerAssumption DEF PersistCreated
    <3>3. holding' = [holding EXCEPT ![Owner[Current(c)]] = Current(c)]
          /\ status' = [status EXCEPT ![Current(c)] = "SUCCESS"]
      BY <3>1 DEF PersistCreated, SetStatus
    <3> QED  BY <2>2, <3>2, <3>3 DEF TypeInv, DatabaseOK
  <2> QED  BY <2>1, <2>2
<1>3. ASSUME NEW k \in 1..Len(stream')
      PROVE  status'[stream'[k]] \in {"SUCCESS", "FAILED"} \/ stream'[k] \in reserved'
  <2>0. Len(stream) \in Nat /\ stream \in Seq(Created) /\ Created \subseteq Requests
    BY DEF TypeInv, RedisOK, Created
  <2>1. CASE k \in 1..Len(stream)
    <3> DEFINE r == stream[k]
    <3>1. stream'[k] = r /\ r \in Requests
      BY <2>0, <2>1, RedisStep
    <3>2. Decided(r) \/ r \in reserved
      BY <2>1 DEF UnitsInv
    <3> HIDE DEF r
    <3>3. CASE Decided(r)
      BY <3>1, <3>3, StatusStep
    <3>4. CASE ~Decided(r) /\ r \in reserved
      <4>1. \A c \in Consumers : cpc[c] \in {"keep", "drop", "compensate"} => Current(c) # r
        BY <3>4 DEF UnitsInv
      <4>2. r \in reserved'
        BY <3>4, <4>1, ReservedStep DEF Reserve
      <4> QED  BY <3>1, <4>2
    <3> QED  BY <3>2, <3>3, <3>4
  <2>2. CASE k \notin 1..Len(stream)
    <3>1. stream' # stream
      BY <1>3, <2>2
    <3>2. PICK t \in Threads : Reserve(request[t]) /\ GrantScript(t)
      BY <3>1, ReservedStep
    <3>3. request[t] \in Created
      BY <3>2 DEF GrantScript, TypeInv, PublishingOK
    <3>4. stream' = Append(stream, request[t]) /\ reserved' = reserved \cup {request[t]}
      BY <3>2 DEF Reserve
    <3>5. Len(stream') = Len(stream) + 1 /\ stream'[Len(stream) + 1] = request[t]
      BY <2>0, <3>3, <3>4
    <3>6. k = Len(stream) + 1
      BY <1>3, <2>0, <2>2, <3>5
    <3> QED  BY <3>4, <3>5, <3>6
  <2> QED  BY <2>1, <2>2
<1>4. \A c \in Consumers :
        /\ cpc'[c] \in {"keep", "drop", "compensate"} => Decided(Current(c))'
        /\ cpc'[c] \in {"keep", "drop"} => (holding[Owner[Current(c)]] # Current(c))'
  BY ConsumerKnows
<1> QED  BY <1>1, <1>2, <1>3, <1>4 DEF UnitsInv, Decided

LEMMA UnitsInvariant == Spec => []UnitsInv
BY UnitsInit, UnitsNext, TypeInvariant, PTL DEF Spec

\* One unit less is outstanding.
LEMMA OneLess ==
  ASSUME TypeInv, UnitsInv, NEW r \in Outstanding, Outstanding' = Outstanding \ {r}
  PROVE  /\ Cardinality(Outstanding) \in Nat
         /\ Cardinality(Outstanding') = Cardinality(Outstanding) - 1
<1>1. IsFiniteSet(Outstanding)
  BY FS_Subset DEF UnitsInv, Outstanding
<1> QED  BY <1>1, FS_RemoveElement, FS_CardinalityType

\* A compensation returns an outstanding unit, or nothing.
LEMMA CompensateBalance ==
  ASSUME TypeInv, UnitsInv, stock # Absent, UNCHANGED <<holding, dbStock>>,
         NEW r \in Requests, holding[Owner[r]] # r, NEW b \in BOOLEAN, Compensate(r, b)
  PROVE  Balance' = Balance
<1>1. stock \in Nat /\ dbStock \in Nat
  BY DEF TypeInv, DatabaseOK, RedisOK
<1>2. Outstanding' = Outstanding \ {r}
  BY DEF Compensate, Outstanding
<1>3. CASE r \in reserved
  <2>1. r \in Outstanding /\ stock' = stock + 1
    BY <1>3 DEF Outstanding, Compensate
  <2>2. /\ Cardinality(Outstanding) \in Nat
        /\ Cardinality(Outstanding') = Cardinality(Outstanding) - 1
    BY <1>2, <2>1, OneLess
  <2> QED  BY <1>1, <2>1, <2>2 DEF Balance
<1>4. CASE r \notin reserved
  <2>1. Outstanding' = Outstanding /\ stock' = stock
    BY <1>2, <1>4 DEF Outstanding, Compensate
  <2> QED  BY <2>1 DEF Balance
<1> QED  BY <1>3, <1>4

\* The script takes a unit for a request that holds none.
LEMMA ReserveBalance ==
  ASSUME TypeInv, UnitsInv, stock # Absent, UNCHANGED <<holding, dbStock>>,
         NEW r \in Requests, r \notin reserved, holding[Owner[r]] # r, Reserve(r)
  PROVE  Balance' = Balance
<1>1. stock \in Nat /\ dbStock \in Nat
  BY DEF TypeInv, DatabaseOK, RedisOK
<1>2. Outstanding' = Outstanding \cup {r} /\ r \notin Outstanding
  BY DEF Reserve, Outstanding
<1>3. IsFiniteSet(Outstanding)
  BY FS_Subset DEF UnitsInv, Outstanding
<1>4. /\ Cardinality(Outstanding) \in Nat
      /\ Cardinality(Outstanding') = Cardinality(Outstanding) + 1
  BY <1>2, <1>3, FS_AddElement, FS_CardinalityType
<1> QED  BY <1>1, <1>4 DEF Reserve, Balance

\* A sale turns an outstanding unit into a sold one.
LEMMA SaleBalance ==
  ASSUME TypeInv, UnitsInv, stock # Absent, NEW c \in Consumers, PersistCreated(c)
  PROVE  Balance' = Balance
<1> DEFINE r == Current(c)
<1>1. stock \in Nat /\ dbStock \in Nat
  BY DEF TypeInv, DatabaseOK, RedisOK
<1>2. /\ r \in Requests /\ Owner[r] \in Users /\ record[c] \in 1..Len(stream)
  BY CurrentCreated, OwnerAssumption DEF PersistCreated
<1>3. ~Decided(r) /\ holding[Owner[r]] = NoRequest
  BY <1>2 DEF PersistCreated, Persistable, Undecided, Decided, Owners
<1>4. r \in reserved
  BY <1>2, <1>3 DEF UnitsInv, Current
<1>5. /\ dbStock' = dbStock - 1 /\ UNCHANGED <<stock, reserved>>
      /\ holding' = [holding EXCEPT ![Owner[r]] = r]
  BY DEF PersistCreated, redis
<1> HIDE DEF r
<1>6. r \in Outstanding
  BY <1>2, <1>3, <1>4, OwnerAssumption DEF Outstanding
<1>7. Outstanding' = Outstanding \ {r}
  <2>1. ASSUME NEW q \in reserved
        PROVE  holding'[Owner[q]] # q <=> q # r /\ holding[Owner[q]] # q
    <3>1. q \in Requests /\ Owner[q] \in Users /\ q # NoRequest
      BY OwnerAssumption DEF TypeInv, RedisOK
    <3> QED  BY <1>2, <1>3, <1>5, <3>1 DEF TypeInv, DatabaseOK
  <2> QED  BY <1>5, <2>1 DEF Outstanding
<1>8. /\ Cardinality(Outstanding) \in Nat
      /\ Cardinality(Outstanding') = Cardinality(Outstanding) - 1
  BY <1>6, <1>7, OneLess
<1> QED  BY <1>1, <1>5, <1>8 DEF Balance

LEMMA BalanceStep ==
  ASSUME TypeInv, UnitsInv, [Next]_vars, stock # Absent
  PROVE  Balance' = Balance \/ ReturnsSold \/ ReservesSold \/ LoadsLate
<1>1. ASSUME UNCHANGED <<holding, dbStock, stock, reserved>>
      PROVE  Balance' = Balance
  BY <1>1 DEF Balance, Outstanding
<1>2. ASSUME NEW t \in Threads, GrantScript(t)
      PROVE  Balance' = Balance \/ ReservesSold
  <2>1. request[t] \in Requests /\ Owner[request[t]] \in Users
    BY <1>2, OwnerAssumption DEF GrantScript, TypeInv, PublishingOK, Created
  <2>2. UNCHANGED <<holding, dbStock>>
    BY <1>2 DEF GrantScript, database
  <2>3. UNCHANGED redis \/ (Reserve(request[t]) /\ request[t] \notin reserved)
    BY <1>2 DEF GrantScript
  <2>4. CASE UNCHANGED redis
    BY <1>1, <2>2, <2>4 DEF redis
  <2>5. CASE Reserve(request[t]) /\ request[t] \notin reserved
    <3>1. CASE holding[Owner[request[t]]] = request[t]
      BY <1>2, <2>1, <3>1 DEF UnitsInv, ReservesSold
    <3>2. CASE holding[Owner[request[t]]] # request[t]
      BY <2>1, <2>2, <2>5, <3>2, ReserveBalance
    <3> QED  BY <3>1, <3>2
  <2> QED  BY <2>3, <2>4, <2>5
<1>3. ASSUME NEW c \in Consumers, ReturnUnit(c)
      PROVE  Balance' = Balance
  <2>1. /\ cpc[c] \in {"keep", "drop"} /\ Compensate(Current(c), cpc[c] = "drop")
        /\ UNCHANGED <<holding, dbStock>>
    BY <1>3 DEF ReturnUnit, database
  <2>2. Current(c) \in Requests /\ holding[Owner[Current(c)]] # Current(c)
    BY <2>1, CurrentCreated DEF UnitsInv
  <2>3. (cpc[c] = "drop") \in BOOLEAN
    OBVIOUS
  <2> QED  BY <2>1, <2>2, <2>3, CompensateBalance
<1>4. ASSUME NEW c \in Consumers, CompensateDead(c)
      PROVE  Balance' = Balance \/ ReturnsSold
  <2>1. /\ cpc[c] = "compensate" /\ Compensate(Current(c), TRUE)
        /\ UNCHANGED <<holding, dbStock>>
    BY <1>4 DEF CompensateDead, database
  <2>2. Current(c) \in Requests
    BY <2>1, CurrentCreated
  <2>3. CASE holding[Owner[Current(c)]] = Current(c)
    BY <1>4, <2>3 DEF ReturnsSold
  <2>4. CASE holding[Owner[Current(c)]] # Current(c)
    BY <2>1, <2>2, <2>4, CompensateBalance
  <2> QED  BY <2>3, <2>4
<1>5. ASSUME ~UNCHANGED database, ~\E c \in Consumers : PersistCreated(c)
      PROVE  UNCHANGED <<holding, dbStock, stock, reserved>>
  BY <1>5, DatabaseFrame DEF Create, Publish, MarkPending, PublishFailed, CompleteOwned,
       PersistDuplicate, FailDead, MarkFailed, TemplateEnds, ExpireVouchers, redis
<1>6. ASSUME ~UNCHANGED redis, ~\E t \in Threads : GrantScript(t),
             ~\E c \in Consumers : ReturnUnit(c) \/ CompensateDead(c)
      PROVE  (UNCHANGED <<holding, dbStock, stock, reserved>>) \/ LoadsLate
  BY <1>6, RedisFrame DEF WarmOwners, RemoveMember, LoadsLate, database
<1>7. UNCHANGED <<database, redis>> => UNCHANGED <<holding, dbStock, stock, reserved>>
  BY DEF database, redis
<1> QED  BY <1>1, <1>2, <1>3, <1>4, <1>5, <1>6, <1>7, SaleBalance

\* The units of Redis keep in step with those of the database for any number of
\* requests, threads, consumers and faults, up to the three steps UnitsKeepStep names.
THEOREM UnitsStayInStep == Spec => UnitsKeepStep
<1>1. TypeInv /\ UnitsInv /\ [Next]_vars
        => [stock # Absent => Balance' = Balance \/ ReturnsSold \/ ReservesSold \/ LoadsLate]_vars
  BY BalanceStep
<1> QED  BY <1>1, TypeInvariant, UnitsInvariant, PTL DEF Spec, UnitsKeepStep

===============================================================================
