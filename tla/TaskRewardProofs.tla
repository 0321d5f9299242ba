---------------------------- MODULE TaskRewardProofs ----------------------------
(***************************************************************************)
(* Safety of tasks and rewards for any tasks, events, days, request ids,   *)
(* threads and pages.                                                      *)
(***************************************************************************)
EXTENDS TaskReward, FiniteSetTheorems, TLAPS

LEMMA RowFacts ==
  \A w \in Row : w[1] \in Tasks /\ Target[w[1]] \in Nat \ {0}
BY TasksAssumption DEF Row

LEMMA RowOfFacts ==
  ASSUME day \in 1..LastDay, NEW k \in Tasks
  PROVE  RowOf(k) \in Row /\ RowOf(k)[1] = k
BY TasksAssumption DEF Row, RowOf

LEMMA SmallerFacts ==
  ASSUME NEW m \in Nat, NEW n \in Nat
  PROVE  Smaller(m, n) \in Nat /\ Smaller(m, n) <= n
BY DEF Smaller

-----------------------------------------------------------------------------
\* Types: a claim knows its task and its request, and from the SELECT FOR UPDATE on
\* its row; a grant belongs to a row of a voucher task.

ClaimsOK ==
  \A t \in Threads :
    /\ pc[t] # "idle" => task[t] \in Tasks /\ request[t] \in Requests
    /\ pc[t] = "write" => row[t] \in Row /\ row[t][1] = task[t]

GrantsOK ==
  \A q \in Requests :
    fate[q] # "none" => grantRow[q] \in Row /\ grantRow[q][1] \in VoucherTasks

TypeInv == TypeOK /\ ClaimsOK /\ GrantsOK

LEMMA TypeInit == Init => TypeInv
<1> SUFFICES ASSUME Init PROVE TypeInv
  OBVIOUS
<1>1. /\ fate = [q \in Requests |-> "none"] /\ holders \subseteq {User} /\ left \in Nat
  BY GrantsAssumption DEF Init, G!Init
<1>2. \A w \in Row : 0 <= Target[w[1]]
  BY RowFacts
<1>3. TypeOK
  BY <1>1, <1>2, TasksAssumption DEF Init, TypeOK
<1>4. ClaimsOK /\ GrantsOK
  BY <1>1 DEF Init, ClaimsOK, GrantsOK
<1> QED  BY <1>3, <1>4 DEF TypeInv

\* What the transactions on grants do to the grants.
LEMMA GrantSteps ==
  ASSUME TypeOK, NEW q \in Requests
  PROVE  /\ G!Request(q) => fate[q] = "none" /\ fate' = [fate EXCEPT ![q] = "waiting"]
                            /\ UNCHANGED <<holders, left>>
         /\ G!Give(q) \/ G!Own(q) =>
              /\ fate[q] # "none" /\ fate' = [fate EXCEPT ![q] = "granted"]
              /\ holders' \subseteq {User} /\ left' \in Nat
         /\ G!Refuse(q) => /\ fate[q] \in {"waiting", "refused"}
                           /\ fate' = [fate EXCEPT ![q] = "refused"]
                           /\ UNCHANGED <<holders, left>>
BY DEF TypeOK, G!Request, G!Give, G!Own, G!Refuse

LEMMA ClaimsNext ==
  ASSUME TypeInv, [Next]_vars
  PROVE  ClaimsOK'
<1> USE DEF TypeInv, TypeOK, ClaimsOK
<1>1. UNCHANGED claims => ClaimsOK'
  BY DEF claims
<1>2. ASSUME NEW t \in Threads, Finish(t)
      PROVE  ClaimsOK'
  BY <1>2 DEF Finish
<1>3. ASSUME NEW t \in Threads, ClaimRead(t)
      PROVE  ClaimsOK'
  <2>1. task[t] \in Tasks /\ RowOf(task[t]) \in Row /\ RowOf(task[t])[1] = task[t]
    BY <1>3, RowOfFacts DEF ClaimRead
  <2> QED  BY <1>2, <1>3, <2>1 DEF ClaimRead
<1>4. ASSUME NEW t \in Threads, ClaimPoints(t) \/ ClaimVoucher(t) \/ ClaimAborts(t)
      PROVE  ClaimsOK'
  BY <1>2, <1>4 DEF ClaimPoints, ClaimVoucher, ClaimAborts
<1>5. ASSUME NEW p \in Pages, NEW t \in Threads, NEW k \in Tasks, NEW q \in Requests, Send(p, t, k, q)
      PROVE  ClaimsOK'
  BY <1>5 DEF Send
<1> QED  BY <1>1, <1>3, <1>4, <1>5
         DEF Next, Claim, vars, Increment, EventFails, InsertEvent, Forget, Grant, Refuse, Midnight

LEMMA GrantsNext ==
  ASSUME TypeInv, [Next]_vars
  PROVE  GrantsOK'
<1> USE DEF TypeInv, TypeOK, ClaimsOK, GrantsOK
<1>1. UNCHANGED <<fate, grantRow>> => GrantsOK'
  OBVIOUS
<1>2. ASSUME NEW t \in Threads, ClaimVoucher(t)
      PROVE  GrantsOK'
  BY <1>1, <1>2, GrantSteps DEF ClaimVoucher, grants
<1>3. ASSUME NEW q \in Requests, Grant(q) \/ Refuse(q)
      PROVE  GrantsOK'
  BY <1>3, GrantSteps DEF Grant, Refuse
<1> QED  BY <1>1, <1>2, <1>3
         DEF Next, Claim, vars, grants, Increment, EventFails, InsertEvent, Send, Forget, ClaimRead,
             ClaimPoints, ClaimAborts, Midnight

LEMMA TypeOKNext ==
  ASSUME TypeInv, [Next]_vars
  PROVE  TypeOK'
<1> USE DEF TypeInv, TypeOK
<1>1. ASSUME UNCHANGED vars  PROVE TypeOK'
  BY <1>1 DEF vars, rows, points, grants, claims, pages
<1>2. ASSUME NEW e \in EventThreads, NEW k \in Tasks, NEW b \in Biz, InsertEvent(e, k, b)
      PROVE  TypeOK'
  BY <1>2, RowOfFacts DEF InsertEvent, rows, points, grants, claims, pages
<1>3. ASSUME NEW e \in EventThreads, Increment(e)
      PROVE  TypeOK'
  <2> DEFINE w == inserted[e][1]
  <2>1. w \in Row /\ inserted[e][2] \in Biz
    BY <1>3 DEF Increment
  <2>2. Advance(w) \in Nat /\ Advance(w) <= Target[w[1]]
    <3>1. progress[w] + 1 \in Nat /\ Target[w[1]] \in Nat
      BY <2>1, RowFacts
    <3> QED  BY <3>1, SmallerFacts DEF Advance
  <2>3. progress' \in [Row -> Nat] /\ \A v \in Row : progress'[v] <= Target[v[1]]
    BY <1>3, <2>1, <2>2 DEF Increment
  <2>4. recorded' \in [Row -> SUBSET Biz] /\ completed' \in [Row -> BOOLEAN]
    BY <1>3, <2>1 DEF Increment, Completes
  <2> QED  BY <1>3, <2>3, <2>4 DEF Increment, points, grants, claims, pages
<1>4. ASSUME NEW e \in EventThreads, EventFails(e)
      PROVE  TypeOK'
  BY <1>4 DEF EventFails, rows, points, grants, claims, pages
<1>5. ASSUME NEW p \in Pages, NEW t \in Threads, NEW k \in Tasks, NEW q \in Requests, Send(p, t, k, q)
      PROVE  TypeOK'
  <2>1. stored' \in [Pages -> [Row -> Requests \cup {None}]] /\ used' \subseteq Requests
    BY <1>5, RowOfFacts DEF Send
  <2> QED  BY <1>5, <2>1 DEF Send, rows, points, grants
<1>6. ASSUME NEW p \in Pages, NEW w \in Row, Forget(p, w)
      PROVE  TypeOK'
  BY <1>6 DEF Forget, rows, points, grants, claims
<1>7. ASSUME NEW t \in Threads, ClaimRead(t)
      PROVE  TypeOK'
  <2>1. task[t] \in Tasks
    BY <1>7 DEF ClaimRead, ClaimsOK
  <2>2. RowOf(task[t]) \in Row
    BY <2>1, RowOfFacts
  <2>3. /\ pc' \in [Threads -> {"idle", "read", "write"}]
        /\ task' \in [Threads -> Tasks \cup {None}]
        /\ request' \in [Threads -> Requests \cup {None}]
        /\ row' \in [Threads -> Row \cup {None}]
    BY <1>7, <2>2 DEF ClaimRead, Finish
  <2> QED  BY <1>7, <2>3 DEF ClaimRead, rows, points, grants, pages
<1>8. ASSUME NEW t \in Threads, ClaimPoints(t)
      PROVE  TypeOK'
  <2>1. request[t] \in Requests /\ row[t] \in Row
    BY <1>8 DEF ClaimPoints, ClaimsOK
  <2> QED  BY <1>8, <2>1 DEF ClaimPoints, Finish, points, grants, pages
<1>9. ASSUME NEW t \in Threads, ClaimVoucher(t)
      PROVE  TypeOK'
  <2>1. request[t] \in Requests /\ row[t] \in Row
    BY <1>9 DEF ClaimVoucher, ClaimsOK
  <2>2. /\ fate' \in [Requests -> {"none", "waiting", "granted", "refused"}]
        /\ holders' \subseteq {User} /\ left' \in Nat
        /\ grantRow' \in [Requests -> Row \cup {None}]
    BY <1>9, <2>1, GrantSteps DEF ClaimVoucher, grants
  <2> QED  BY <1>9, <2>1, <2>2 DEF ClaimVoucher, Finish, points, pages
<1>10. ASSUME NEW t \in Threads, ClaimAborts(t)
       PROVE  TypeOK'
  BY <1>10 DEF ClaimAborts, Finish, rows, points, grants, pages
<1>11. ASSUME NEW q \in Requests, Grant(q)
       PROVE  TypeOK'
  <2>1. grantRow[q] \in Row
    BY <1>11, GrantSteps DEF Grant, GrantsOK
  <2>2. fate' \in [Requests -> {"none", "waiting", "granted", "refused"}]
    BY <1>11, GrantSteps DEF Grant
  <2>3. received' \in [Row -> BOOLEAN]
    BY <1>11, <2>1 DEF Grant, Receives
  <2> QED  BY <1>11, <2>2, <2>3, GrantSteps DEF Grant, points, claims, pages
<1>12. ASSUME NEW q \in Requests, Refuse(q)
       PROVE  TypeOK'
  <2>1. fate' \in [Requests -> {"none", "waiting", "granted", "refused"}]
    BY <1>12, GrantSteps DEF Refuse
  <2>2. rewardRequest' \in [Row -> Requests \cup {None}]
    BY <1>12 DEF Refuse
  <2>3. UNCHANGED <<holders, left>>
    BY <1>12, GrantSteps DEF Refuse
  <2> QED  BY <1>12, <2>1, <2>2, <2>3 DEF Refuse, points, claims, pages
<1>13. ASSUME Midnight  PROVE TypeOK'
  BY <1>13, TasksAssumption DEF Midnight, rows, points, grants, claims, pages
<1> QED  BY <1>1, <1>2, <1>3, <1>4, <1>5, <1>6, <1>7, <1>8, <1>9, <1>10, <1>11, <1>12, <1>13
         DEF Next, Claim

LEMMA TypeInvariant == Spec => []TypeInv
<1>1. TypeInv /\ [Next]_vars => TypeInv'
  BY TypeOKNext, ClaimsNext, GrantsNext DEF TypeInv
<1> QED  BY <1>1, TypeInit, PTL DEF Spec

\* The columns of the progress rows, the points, the grants and the claims keep their
\* types for any number of tasks, requests, threads and days.
THEOREM TypeCorrect == Spec => []TypeOK
<1>1. TypeInv => TypeOK
  BY DEF TypeInv
<1> QED  BY <1>1, TypeInvariant, PTL

-----------------------------------------------------------------------------
\* Events: a transaction has inserted an event that is not on record, and no other
\* transaction has inserted the same.

EventsInv ==
  /\ \A w \in Row : IsFiniteSet(recorded[w])
  /\ \A e \in EventThreads : inserted[e] # None =>
       inserted[e][2] \notin recorded[inserted[e][1]]
  /\ \A e, f \in EventThreads : inserted[e] # None /\ inserted[e] = inserted[f] => e = f

ProgressInv == EventsInv /\ ProgressExact

LEMMA ProgressInit == Init => ProgressInv
<1> SUFFICES ASSUME Init PROVE ProgressInv
  OBVIOUS
<1>1. EventsInv
  BY FS_EmptySet DEF Init, EventsInv
<1>2. \A w \in Row : Smaller(0, Target[w[1]]) = 0 /\ Target[w[1]] # 0
  BY RowFacts DEF Smaller
<1>3. ProgressExact
  BY <1>2, FS_EmptySet DEF Init, ProgressExact
<1> QED  BY <1>1, <1>3 DEF ProgressInv

LEMMA IncrementExact ==
  ASSUME TypeInv, ProgressInv, NEW e \in EventThreads, Increment(e)
  PROVE  ProgressInv'
<1> USE DEF TypeInv, TypeOK, ProgressInv, EventsInv, ProgressExact
<1> DEFINE w == inserted[e][1]
           b == inserted[e][2]
           c == Cardinality(recorded[w])
<1>1. /\ w \in Row /\ b \in Biz /\ inserted[e] = <<w, b>> /\ b \notin recorded[w]
      /\ inserted[e] # None
  BY DEF Increment
<1>2. /\ recorded' = [recorded EXCEPT ![w] = @ \cup {b}]
      /\ completed' = [completed EXCEPT ![w] = @ \/ Completes(w)]
      /\ progress' = [progress EXCEPT ![w] = Advance(w)]
      /\ inserted' = [inserted EXCEPT ![e] = None]
  BY DEF Increment
<1>3. IsFiniteSet(recorded'[w]) /\ Cardinality(recorded'[w]) = c + 1 /\ c \in Nat
  <2>1. recorded'[w] = recorded[w] \cup {b} /\ IsFiniteSet(recorded[w])
    BY <1>1, <1>2
  <2> HIDE DEF w, b
  <2>2. Cardinality(recorded[w] \cup {b}) = Cardinality(recorded[w]) + 1
    BY <1>1, <2>1, FS_AddElement
  <2>3. IsFiniteSet(recorded[w] \cup {b}) /\ Cardinality(recorded[w]) \in Nat
    BY <2>1, FS_AddElement, FS_CardinalityType
  <2> QED  BY <2>1, <2>2, <2>3
<1>4. EventsInv'
  <2>1. \A v \in Row : IsFiniteSet(recorded'[v])
    BY <1>2, <1>3
  <2>2. ASSUME NEW f \in EventThreads, inserted'[f] # None
        PROVE  inserted'[f][2] \notin recorded'[inserted'[f][1]]
    <3>1. inserted'[f] = inserted[f] /\ f # e /\ inserted[f] # <<w, b>>
      BY <1>1, <1>2, <2>2
    <3>2. inserted[f] \in Row \X Biz
      BY <2>2, <3>1
    <3> QED  BY <1>1, <1>2, <2>2, <3>1, <3>2
  <2>3. \A f, g \in EventThreads : inserted'[f] # None /\ inserted'[f] = inserted'[g] => f = g
    BY <1>2
  <2> QED  BY <2>1, <2>2, <2>3
<1>5. progress[w] = Smaller(c, Target[w[1]]) /\ (completed[w] <=> progress[w] = Target[w[1]])
  BY <1>1
<1>6. Target[w[1]] \in Nat \ {0}
  BY <1>1, RowFacts
<1>7. /\ Advance(w) = Smaller(c + 1, Target[w[1]])
      /\ completed[w] \/ Completes(w) <=> Advance(w) = Target[w[1]]
  BY <1>3, <1>5, <1>6 DEF Advance, Completes, Smaller
<1>8. ProgressExact'
  BY <1>1, <1>2, <1>3, <1>7
<1> QED  BY <1>4, <1>8

LEMMA ProgressNext ==
  ASSUME TypeInv, ProgressInv, [Next]_vars
  PROVE  ProgressInv'
<1> USE DEF TypeInv, TypeOK, ProgressInv, EventsInv
<1>1. UNCHANGED <<recorded, progress, completed>> => ProgressExact'
  BY DEF ProgressExact
<1>2. UNCHANGED <<recorded, progress, completed, inserted>> => ProgressInv'
  BY <1>1
<1>3. ASSUME NEW e \in EventThreads, NEW k \in Tasks, NEW b \in Biz, InsertEvent(e, k, b)
      PROVE  ProgressInv'
  BY <1>1, <1>3 DEF InsertEvent, rows
<1>4. ASSUME NEW e \in EventThreads, EventFails(e)
      PROVE  ProgressInv'
  BY <1>1, <1>4 DEF EventFails, rows
<1> QED  BY <1>2, <1>3, <1>4, IncrementExact
         DEF Next, Claim, vars, rows, Send, Forget, ClaimRead, ClaimPoints, ClaimVoucher,
             ClaimAborts, Grant, Refuse, Midnight

\* The progress of a row is the number of its events on record, up to the target, for
\* any number of events that are reported at once, repeated or rolled back.
THEOREM ProgressIsExact == Spec => []ProgressExact
<1>1. TypeInv /\ ProgressInv /\ [Next]_vars => ProgressInv'
  BY ProgressNext
<1>2. ProgressInv => ProgressExact
  BY DEF ProgressInv
<1> QED  BY <1>1, <1>2, ProgressInit, TypeInvariant, PTL DEF Spec

-----------------------------------------------------------------------------
\* Claims: the lock of the row keeps what the claim has read true until its COMMIT.

WriteInv ==
  /\ \A t \in Threads : pc[t] = "write" => ~received[row[t]] /\ rewardRequest[row[t]] = None
  /\ \A t, u \in Threads :
       pc[t] = "write" /\ pc[u] = "write" /\ row[t] = row[u] => t = u

Paid == {w \in Row : w[1] \in PointTasks /\ received[w]}

PointsInv ==
  /\ IsFiniteSet(Paid)
  /\ balance = Cardinality(Paid)
  /\ \A q \in Requests : pointsLog[q] # None => received[pointsLog[q]]

\* The request of a row belongs to the row: the points of a row are there with its
\* request, its voucher when the request is granted.
RequestInv ==
  \A w \in Row : rewardRequest[w] # None =>
    /\ w[1] \in PointTasks => received[w]
    /\ w[1] \in VoucherTasks =>
         grantRow[rewardRequest[w]] = w /\ fate[rewardRequest[w]] # "none"

RewardInv == WriteInv /\ PointsInv /\ RequestInv /\ ReceivedIsGranted

LEMMA RewardInit == Init => RewardInv
<1> SUFFICES ASSUME Init PROVE RewardInv
  OBVIOUS
<1>1. Paid = {}
  BY DEF Init, Paid
<1>2. PointsInv
  BY <1>1, FS_EmptySet DEF Init, PointsInv
<1>3. WriteInv /\ RequestInv /\ ReceivedIsGranted
  BY DEF Init, WriteInv, RequestInv, ReceivedIsGranted
<1> QED  BY <1>2, <1>3 DEF RewardInv

LEMMA ClaimReadKeeps ==
  ASSUME TypeInv, RewardInv, NEW t \in Threads, ClaimRead(t)
  PROVE  RewardInv'
<1> USE DEF TypeInv, TypeOK, RewardInv
<1>1. UNCHANGED <<received, rewardRequest, pointsLog, balance, fate, grantRow>>
  BY DEF ClaimRead, rows, points, grants
<1>2. PointsInv' /\ RequestInv' /\ ReceivedIsGranted'
  BY <1>1 DEF PointsInv, Paid, RequestInv, ReceivedIsGranted
<1>3. WriteInv'
  <2> DEFINE w == RowOf(task[t])
  <2>1. CASE pc' = [pc EXCEPT ![t] = "write"]
    <3>1. row' = [row EXCEPT ![t] = w] /\ Unlocked(w) /\ ~received[w] /\ rewardRequest[w] = None
      BY <2>1 DEF ClaimRead, Finish
    <3> HIDE DEF w
    <3> QED  BY <1>1, <2>1, <3>1 DEF Unlocked, WriteInv
  <2>2. CASE Finish(t)
    BY <1>1, <2>2 DEF Finish, WriteInv
  <2> QED  BY <2>1, <2>2 DEF ClaimRead
<1> QED  BY <1>2, <1>3

LEMMA ClaimPointsKeeps ==
  ASSUME TypeInv, RewardInv, NEW t \in Threads, ClaimPoints(t)
  PROVE  RewardInv'
<1> USE DEF TypeInv, TypeOK, RewardInv
<1> DEFINE w == row[t]
           q == request[t]
<1>1. /\ w \in Row /\ w[1] \in PointTasks /\ q \in Requests /\ w # None
      /\ ~received[w] /\ rewardRequest[w] = None
  BY NoneAssumption DEF ClaimPoints, ClaimsOK, WriteInv
<1>2. /\ pointsLog' = [pointsLog EXCEPT ![q] = w] /\ balance' = balance + 1
      /\ received' = [received EXCEPT ![w] = TRUE]
      /\ rewardRequest' = [rewardRequest EXCEPT ![w] = q]
      /\ UNCHANGED <<fate, grantRow>>
  BY <1>1 DEF ClaimPoints, PointsInv, grants
<1>3. WriteInv'
  <2>1. \A u \in Threads : pc'[u] = "write" =>
          pc[u] = "write" /\ row'[u] = row[u] /\ row[u] \in Row /\ row[u] # w
    BY DEF ClaimPoints, Finish, WriteInv, ClaimsOK
  <2>2. \A v \in Row : v # w =>
          received'[v] = received[v] /\ rewardRequest'[v] = rewardRequest[v]
    BY <1>1, <1>2
  <2> QED  BY <2>1, <2>2 DEF WriteInv
<1>4. PointsInv'
  <2>1. Paid' = Paid \cup {w} /\ w \notin Paid
    BY <1>1, <1>2 DEF Paid
  <2>2. IsFiniteSet(Paid) /\ balance = Cardinality(Paid)
    BY DEF PointsInv
  <2>3. IsFiniteSet(Paid') /\ balance' = Cardinality(Paid')
    <3> HIDE DEF w
    <3>1. IsFiniteSet(Paid \cup {w}) /\ Cardinality(Paid \cup {w}) = Cardinality(Paid) + 1
      BY <2>1, <2>2, FS_AddElement
    <3> QED  BY <1>2, <2>1, <2>2, <3>1
  <2>4. \A r \in Requests : pointsLog'[r] # None => received'[pointsLog'[r]]
    BY <1>1, <1>2 DEF PointsInv
  <2> QED  BY <2>3, <2>4 DEF PointsInv
<1>5. RequestInv'
  BY <1>1, <1>2, TasksAssumption DEF RequestInv
<1>6. ReceivedIsGranted'
  BY <1>1, <1>2, TasksAssumption DEF ReceivedIsGranted
<1> QED  BY <1>3, <1>4, <1>5, <1>6

LEMMA ClaimVoucherKeeps ==
  ASSUME TypeInv, RewardInv, NEW t \in Threads, ClaimVoucher(t)
  PROVE  RewardInv'
<1> USE DEF TypeInv, TypeOK, RewardInv
<1> DEFINE w == row[t]
           q == request[t]
<1>1. /\ w \in Row /\ w[1] \in VoucherTasks /\ q \in Requests
      /\ ~received[w] /\ rewardRequest[w] = None
  BY DEF ClaimVoucher, ClaimsOK, WriteInv
<1>2. /\ rewardRequest' = [rewardRequest EXCEPT ![w] = q]
      /\ UNCHANGED <<received, pointsLog, balance>>
  BY DEF ClaimVoucher, points
<1>3. /\ fate'[q] # "none" /\ grantRow'[q] = w
      /\ \A r \in Requests : fate[r] # "none" => fate'[r] = fate[r] /\ grantRow'[r] = grantRow[r]
  BY <1>1, GrantSteps DEF ClaimVoucher, grants
<1>4. WriteInv'
  BY <1>1, <1>2 DEF ClaimVoucher, Finish, WriteInv, ClaimsOK
<1>5. PointsInv'
  BY <1>2 DEF PointsInv, Paid
<1>6. RequestInv'
  BY <1>1, <1>2, <1>3, TasksAssumption DEF RequestInv
<1>7. ReceivedIsGranted'
  BY <1>1, <1>2, <1>3 DEF ReceivedIsGranted
<1> QED  BY <1>4, <1>5, <1>6, <1>7

LEMMA GrantKeeps ==
  ASSUME TypeInv, RewardInv, NEW q \in Requests, Grant(q)
  PROVE  RewardInv'
<1> USE DEF TypeInv, TypeOK, RewardInv
<1> DEFINE w == grantRow[q]
<1>1. /\ w \in Row /\ w[1] \in VoucherTasks /\ fate' = [fate EXCEPT ![q] = "granted"]
      /\ Unlocked(w)
      /\ received' = [received EXCEPT ![w] = @ \/ Receives(q)]
      /\ UNCHANGED <<rewardRequest, pointsLog, balance, grantRow, pc, row>>
  BY GrantSteps DEF Grant, GrantsOK, points, claims
<1>2. WriteInv'
  BY <1>1 DEF WriteInv, Unlocked, ClaimsOK
<1>3. PointsInv'
  <2>1. Paid' = Paid
    BY <1>1, TasksAssumption DEF Paid
  <2> QED  BY <1>1, <2>1, NoneAssumption DEF PointsInv
<1>4. RequestInv'
  BY <1>1 DEF RequestInv
<1>5. ReceivedIsGranted'
  <2>1. ASSUME NEW v \in Row, v[1] \in VoucherTasks, received'[v]
        PROVE  /\ rewardRequest[v] # None /\ grantRow[rewardRequest[v]] = v
               /\ fate'[rewardRequest[v]] = "granted"
    <3>1. CASE received[v]
      <4>1. rewardRequest[v] \in Requests /\ grantRow[rewardRequest[v]] = v
            /\ fate[rewardRequest[v]] = "granted"
        BY <2>1, <3>1 DEF ReceivedIsGranted
      <4> QED  BY <1>1, <4>1, NoneAssumption
    <3>2. CASE ~received[v]
      BY <1>1, <2>1, <3>2, NoneAssumption DEF Receives
    <3> QED  BY <3>1, <3>2
  <2> QED  BY <1>1, <2>1 DEF ReceivedIsGranted
<1> QED  BY <1>2, <1>3, <1>4, <1>5

LEMMA RefuseKeeps ==
  ASSUME TypeInv, RewardInv, NEW q \in Requests, Refuse(q)
  PROVE  RewardInv'
<1> USE DEF TypeInv, TypeOK, RewardInv
<1> DEFINE w == grantRow[q]
<1>1. /\ fate[q] \in {"waiting", "refused"} /\ fate' = [fate EXCEPT ![q] = "refused"]
      /\ w \in Row
      /\ rewardRequest' = [rewardRequest EXCEPT ![w] = IF Frees(q) THEN None ELSE @]
      /\ UNCHANGED <<received, pointsLog, balance, grantRow, pc, row>>
  BY GrantSteps DEF Refuse, GrantsOK, points, claims
<1>2. WriteInv'
  BY <1>1 DEF WriteInv, ClaimsOK
<1>3. PointsInv'
  BY <1>1 DEF PointsInv, Paid
<1>4. RequestInv'
  BY <1>1 DEF RequestInv
<1>5. ReceivedIsGranted'
  <2>1. \A v \in Row : received'[v] => rewardRequest'[v] = rewardRequest[v] /\ received[v]
    BY <1>1 DEF Frees
  <2>2. \A r \in Requests : fate[r] = "granted" => fate'[r] = "granted"
    BY <1>1
  <2>3. ASSUME NEW v \in Row, v[1] \in VoucherTasks, received'[v]
        PROVE  /\ rewardRequest'[v] # None /\ grantRow'[rewardRequest'[v]] = v
               /\ fate'[rewardRequest'[v]] = "granted"
    <3>1. rewardRequest[v] \in Requests /\ grantRow[rewardRequest[v]] = v
          /\ fate[rewardRequest[v]] = "granted"
      BY <2>1, <2>3 DEF ReceivedIsGranted
    <3> QED  BY <1>1, <2>1, <2>2, <2>3, <3>1, NoneAssumption
  <2> QED  BY <2>3 DEF ReceivedIsGranted
<1> QED  BY <1>2, <1>3, <1>4, <1>5

LEMMA RewardNext ==
  ASSUME TypeInv, RewardInv, [Next]_vars
  PROVE  RewardInv'
<1>1. ASSUME UNCHANGED <<received, rewardRequest, points, fate, grantRow>>,
             \A t \in Threads : pc'[t] = "write" => pc[t] = "write" /\ row'[t] = row[t]
      PROVE  RewardInv'
  BY <1>1 DEF RewardInv, WriteInv, PointsInv, Paid, RequestInv, ReceivedIsGranted, points
<1>2. ASSUME NEW p \in Pages, NEW t \in Threads, NEW k \in Tasks, NEW q \in Requests, Send(p, t, k, q)
      PROVE  RewardInv'
  BY <1>1, <1>2 DEF Send, rows, grants, TypeInv, TypeOK
<1>3. ASSUME NEW t \in Threads, ClaimAborts(t)
      PROVE  RewardInv'
  BY <1>1, <1>3 DEF ClaimAborts, Finish, rows, grants, TypeInv, TypeOK
<1>4. ASSUME UNCHANGED <<received, rewardRequest, points, grants, claims>>
      PROVE  RewardInv'
  BY <1>1, <1>4 DEF grants, claims
<1> QED  BY <1>2, <1>3, <1>4, ClaimReadKeeps, ClaimPointsKeeps, ClaimVoucherKeeps, GrantKeeps, RefuseKeeps
         DEF Next, Claim, vars, rows, Increment, EventFails, InsertEvent, Forget, Midnight

LEMMA RewardInvariant == Spec => []RewardInv
<1>1. TypeInv /\ RewardInv /\ [Next]_vars => RewardInv'
  BY RewardNext
<1> QED  BY <1>1, RewardInit, TypeInvariant, PTL DEF Spec

\* The balance is the number of point rows that are received: each pays once, for any
\* number of claims with any request ids.
THEOREM PaidOnce == Spec => []PointsPaidOnce
<1>1. RewardInv => PointsPaidOnce
  BY DEF RewardInv, PointsInv, Paid, PointsPaidOnce
<1> QED  BY <1>1, RewardInvariant, PTL

\* A voucher row is received only by the request that is granted.
THEOREM ReceivedOnGrant == Spec => []ReceivedIsGranted
<1>1. RewardInv => ReceivedIsGranted
  BY DEF RewardInv
<1> QED  BY <1>1, RewardInvariant, PTL

-----------------------------------------------------------------------------
LEMMA DeadByClaim ==
  ASSUME TypeInv, RewardInv, [Next]_vars, NEW w \in Row, Dead(w)', ~Dead(w)
  PROVE  \E t \in Threads : ClaimVoucher(t)
<1> USE DEF TypeInv, TypeOK, Dead
<1>1. ASSUME UNCHANGED <<received, rewardRequest, fate>>  PROVE FALSE
  BY <1>1
<1>2. ASSUME NEW t \in Threads, ClaimPoints(t)  PROVE FALSE
  BY <1>2 DEF ClaimPoints, grants, ClaimsOK
<1>3. ASSUME NEW q \in Requests, Grant(q)  PROVE FALSE
  <2>1. /\ fate' = [fate EXCEPT ![q] = "granted"] /\ grantRow[q] \in Row
        /\ received' = [received EXCEPT ![grantRow[q]] = @ \/ Receives(q)]
        /\ UNCHANGED rewardRequest
    BY <1>3, GrantSteps DEF Grant, GrantsOK
  <2>2. rewardRequest[w] = q /\ ~received[w]
    BY <2>1
  <2>3. grantRow[q] = w
    BY <2>2, RowFacts, NoneAssumption DEF RewardInv, RequestInv, Tasks
  <2> QED  BY <2>1, <2>2, <2>3 DEF Receives
<1>4. ASSUME NEW q \in Requests, Refuse(q)  PROVE FALSE
  <2>1. /\ fate' = [fate EXCEPT ![q] = "refused"] /\ grantRow[q] \in Row
        /\ rewardRequest' = [rewardRequest EXCEPT ![grantRow[q]] = IF Frees(q) THEN None ELSE @]
        /\ UNCHANGED received
    BY <1>4, GrantSteps DEF Refuse, GrantsOK
  <2>2. rewardRequest[w] = q /\ ~received[w]
    BY <2>1
  <2>3. grantRow[q] = w
    BY <2>2, RowFacts, NoneAssumption DEF RewardInv, RequestInv, Tasks
  <2> QED  BY <2>1, <2>2, <2>3 DEF Frees
<1> QED  BY <1>1, <1>2, <1>3, <1>4
         DEF Next, Claim, vars, rows, grants, Increment, EventFails, InsertEvent, Send, Forget,
             ClaimRead, ClaimAborts, Midnight

\* A decision never leaves its row behind with a decided request: only a claim that
\* comes with an old request id does.
THEOREM DecisionSettles == Spec => DecisionSettlesRow
<1>1. TypeInv /\ RewardInv /\ [Next]_vars =>
        [\A w \in Row : Dead(w)' /\ ~Dead(w) => \E t \in Threads : ClaimVoucher(t)]_vars
  BY DeadByClaim
<1> QED  BY <1>1, TypeInvariant, RewardInvariant, PTL DEF Spec, DecisionSettlesRow

===============================================================================
