------------------------------ MODULE TaskReward ------------------------------
(***************************************************************************)
(* Tasks and rewards of one user: events that advance a task               *)
(* (TaskProgressTransactionalService), claims of the reward                *)
(* (TaskRewardService), and the pages of the task center that send them.   *)
(* A voucher reward is a grant, here by its abstract specification Grant,  *)
(* whose transactions also write the row of the task.                      *)
(***************************************************************************)
EXTENDS Integers, FiniteSets

CONSTANTS
  PointTasks, VoucherTasks,
  DailyTasks,     \* the tasks that begin anew every day
  Target,         \* target_value of each task
  Biz,            \* biz_id of the events
  LastDay,        \* bound on the days
  Requests,       \* the request ids, each created once
  Stock,          \* of the voucher
  User, OldHolders,
  Threads,        \* of the web server, for claims
  EventThreads,   \* of the web server, for events
  Pages,          \* open pages of the task center
  None

Tasks == PointTasks \cup VoucherTasks

ASSUME TasksAssumption ==
  /\ PointTasks \cap VoucherTasks = {} /\ DailyTasks \subseteq Tasks
  /\ Target \in [Tasks -> Nat \ {0}] /\ LastDay \in Nat \ {0}
ASSUME GrantsAssumption ==
  Stock \in Nat /\ OldHolders \subseteq {User}

VARIABLES
  day,
  recorded,       \* task_event_record: the events of each row
  progress, completed, received, rewardRequest,   \* user_task_progress
  pointsLog,      \* points_change_log: the row each request was paid for
  balance,        \* user_points_account
  fate, holders, left,    \* the grants
  grantRow,       \* voucher_grant_log.task_progress_id
  inserted,       \* the event each transaction has inserted and not committed
  pc, task, request, row,     \* of each claim
  stored,         \* the request ids in sessionStorage, by task and date
  used            \* the request ids that have been created

rows == <<recorded, progress, completed, received, rewardRequest>>
points == <<pointsLog, balance>>
grants == <<fate, holders, left, grantRow>>
claims == <<pc, task, request, row>>
pages == <<stored, used>>
vars == <<day, rows, points, grants, inserted, claims, pages>>

\* A row of user_task_progress: ONCE_TASK_DATE is 0.
Row == {w \in Tasks \X (0..LastDay) : w[2] > 0 <=> w[1] \in DailyTasks}

ASSUME NoneAssumption == None \notin Requests \cup Row

\* taskDate
RowOf(k) == <<k, IF k \in DailyTasks THEN day ELSE 0>>

Smaller(m, n) == IF m < n THEN m ELSE n

G == INSTANCE Grant WITH Users <- {User}, Owner <- [q \in Requests |-> User]

Init ==
  /\ day = 1
  /\ recorded = [w \in Row |-> {}] /\ progress = [w \in Row |-> 0]
  /\ completed = [w \in Row |-> FALSE] /\ received = [w \in Row |-> FALSE]
  /\ rewardRequest = [w \in Row |-> None]
  /\ pointsLog = [q \in Requests |-> None] /\ balance = 0
  /\ G!Init /\ grantRow = [q \in Requests |-> None]
  /\ inserted = [e \in EventThreads |-> None]
  /\ pc = [t \in Threads |-> "idle"] /\ task = [t \in Threads |-> None]
  /\ request = [t \in Threads |-> None] /\ row = [t \in Threads |-> None]
  /\ stored = [p \in Pages |-> [w \in Row |-> None]]
  /\ used = {}

\* Defect: SELECT without FOR UPDATE.
Unlocked_Always(w) == TRUE

\* No claim holds the lock of row w.
Unlocked(w) == \A t \in Threads : pc[t] = "write" => row[t] # w

-----------------------------------------------------------------------------
\* recordEvent, a transaction of two statements.

\* INSERT IGNORE waits for a transaction that inserts the same event.
InsertEvent(e, k, b) ==
  /\ inserted[e] = None
  /\ b \notin recorded[RowOf(k)]
  /\ \A f \in EventThreads : inserted[f] # <<RowOf(k), b>>
  /\ inserted' = [inserted EXCEPT ![e] = <<RowOf(k), b>>]
  /\ UNCHANGED <<day, rows, points, grants, claims, pages>>

\* Defect: the assignments of the UPDATE are swapped.
Completes_Swapped(w) ==
  Smaller(progress[w] + 1, Target[w[1]]) + 1 >= Target[w[1]]

Completes(w) == progress[w] + 1 >= Target[w[1]]

\* Defect: progress is not capped.
Advance_Uncapped(w) == progress[w] + 1

Advance(w) == Smaller(progress[w] + 1, Target[w[1]])

\* incrementProgress and COMMIT.
Increment(e) ==
  /\ inserted[e] # None
  /\ LET w == inserted[e][1] IN
       /\ Unlocked(w)
       /\ recorded' = [recorded EXCEPT ![w] = @ \cup {inserted[e][2]}]
       /\ completed' = [completed EXCEPT ![w] = @ \/ Completes(w)]
       /\ progress' = [progress EXCEPT ![w] = Advance(w)]
  /\ inserted' = [inserted EXCEPT ![e] = None]
  /\ UNCHANGED <<day, received, rewardRequest, points, grants, claims, pages>>

\* recordSafely swallows the exception.
EventFails(e) ==
  /\ inserted[e] # None
  /\ inserted' = [inserted EXCEPT ![e] = None]
  /\ UNCHANGED <<day, rows, points, grants, claims, pages>>

-----------------------------------------------------------------------------
\* The page of the task center.

\* claimReward sends the stored id, or a new one.
Send(p, t, k, q) ==
  /\ pc[t] = "idle"
  /\ completed[RowOf(k)]
  /\ \/ q = stored[p][RowOf(k)] /\ UNCHANGED used
     \/ stored[p][RowOf(k)] = None /\ q \notin used /\ used' = used \cup {q}
  /\ stored' = [stored EXCEPT ![p][RowOf(k)] = q]
  /\ pc' = [pc EXCEPT ![t] = "read"]
  /\ task' = [task EXCEPT ![t] = k]
  /\ request' = [request EXCEPT ![t] = q]
  /\ UNCHANGED <<day, rows, points, grants, inserted, row>>

\* The page removes the id when an answer or a poll says SUCCESS or FAILED, and
\* when the list of tasks shows no request.
Forget(p, w) ==
  /\ stored[p][w] # None
  /\ \/ received[w] \/ rewardRequest[w] = None
     \/ \E q \in Requests : grantRow[q] = w /\ fate[q] \in {"granted", "refused"}
  /\ stored' = [stored EXCEPT ![p][w] = None]
  /\ UNCHANGED <<day, rows, points, grants, inserted, claims, used>>

-----------------------------------------------------------------------------
\* claim, a transaction from the SELECT FOR UPDATE to the COMMIT.

Finish(t) ==
  /\ pc' = [pc EXCEPT ![t] = "idle"]
  /\ task' = [task EXCEPT ![t] = None]
  /\ request' = [request EXCEPT ![t] = None]
  /\ row' = [row EXCEPT ![t] = None]

ClaimRead(t) ==
  LET w == RowOf(task[t]) IN
  /\ pc[t] = "read"
  /\ Unlocked(w)
  /\ \/ /\ completed[w] /\ ~received[w] /\ rewardRequest[w] = None
        /\ pc' = [pc EXCEPT ![t] = "write"]
        /\ row' = [row EXCEPT ![t] = w]
        /\ UNCHANGED <<task, request>>
     \/ ~completed[w] /\ Finish(t)
     \/ completed[w] /\ (received[w] \/ rewardRequest[w] # None) /\ Finish(t)
  /\ UNCHANGED <<day, rows, points, grants, inserted, pages>>

\* grantPoints: a request that was paid before is accepted for the same row.
ClaimPoints(t) ==
  LET q == request[t] IN
  /\ pc[t] = "write" /\ task[t] \in PointTasks
  /\ \/ /\ pointsLog[q] = None
        /\ pointsLog' = [pointsLog EXCEPT ![q] = row[t]]
        /\ balance' = balance + 1
     \/ pointsLog[q] = row[t] /\ UNCHANGED points
  /\ received' = [received EXCEPT ![row[t]] = TRUE]
  /\ rewardRequest' = [rewardRequest EXCEPT ![row[t]] = q]
  /\ Finish(t)
  /\ UNCHANGED <<day, recorded, progress, completed, grants, inserted, pages>>

\* createVoucherGrant: a request that exists is accepted for the same row, whatever
\* has become of it.
ClaimVoucher(t) ==
  LET q == request[t] IN
  /\ pc[t] = "write" /\ task[t] \in VoucherTasks
  /\ \/ G!Request(q) /\ grantRow' = [grantRow EXCEPT ![q] = row[t]]
     \/ fate[q] # "none" /\ grantRow[q] = row[t] /\ UNCHANGED grants
  /\ rewardRequest' = [rewardRequest EXCEPT ![row[t]] = q]
  /\ Finish(t)
  /\ UNCHANGED <<day, recorded, progress, completed, received, points, inserted, pages>>

\* The id belongs to another reward, the voucher is over, or the database fails.
ClaimAborts(t) ==
  /\ pc[t] \in {"read", "write"}
  /\ Finish(t)
  /\ UNCHANGED <<day, rows, points, grants, inserted, pages>>

-----------------------------------------------------------------------------
\* The transactions on a grant write the row, too.

\* Defect: any grant of the row marks it.
Receives_Any(q) == TRUE

\* markTaskRewardReceived
Receives(q) == rewardRequest[grantRow[q]] = q

\* persistGrant and completeAlreadyOwned
Grant(q) ==
  /\ G!Give(q) \/ G!Own(q)
  /\ Unlocked(grantRow[q])
  /\ received' = [received EXCEPT ![grantRow[q]] = @ \/ Receives(q)]
  /\ UNCHANGED <<day, recorded, progress, completed, rewardRequest, points, grantRow,
                 inserted, claims, pages>>

\* Defect: the row keeps the request that has failed.
Frees_Nothing(q) == FALSE

Frees(q) == rewardRequest[grantRow[q]] = q /\ ~received[grantRow[q]]

\* markFailed
Refuse(q) ==
  /\ G!Refuse(q)
  /\ Unlocked(grantRow[q])
  /\ rewardRequest' = [rewardRequest EXCEPT ![grantRow[q]] = IF Frees(q) THEN None ELSE @]
  /\ UNCHANGED <<day, recorded, progress, completed, received, points, grantRow,
                 inserted, claims, pages>>

Midnight ==
  /\ day < LastDay
  /\ day' = day + 1
  /\ UNCHANGED <<rows, points, grants, inserted, claims, pages>>

-----------------------------------------------------------------------------
Claim(t) == ClaimRead(t) \/ ClaimPoints(t) \/ ClaimVoucher(t)

Next ==
  \/ \E e \in EventThreads :
       Increment(e) \/ EventFails(e) \/ \E k \in Tasks, b \in Biz : InsertEvent(e, k, b)
  \/ \E p \in Pages :
       \/ \E t \in Threads, k \in Tasks, q \in Requests : Send(p, t, k, q)
       \/ \E w \in Row : Forget(p, w)
  \/ \E t \in Threads : Claim(t) \/ ClaimAborts(t)
  \/ \E q \in Requests : Grant(q) \/ Refuse(q)
  \/ Midnight

Spec == Init /\ [][Next]_vars

-----------------------------------------------------------------------------
\* Properties.

TypeOK ==
  /\ day \in 1..LastDay
  /\ recorded \in [Row -> SUBSET Biz]
  /\ progress \in [Row -> Nat] /\ \A w \in Row : progress[w] <= Target[w[1]]
  /\ completed \in [Row -> BOOLEAN] /\ received \in [Row -> BOOLEAN]
  /\ rewardRequest \in [Row -> Requests \cup {None}]
  /\ pointsLog \in [Requests -> Row \cup {None}] /\ balance \in Nat
  /\ fate \in [Requests -> {"none", "waiting", "granted", "refused"}]
  /\ holders \subseteq {User} /\ left \in Nat
  /\ grantRow \in [Requests -> Row \cup {None}]
  /\ inserted \in [EventThreads -> (Row \X Biz) \cup {None}]
  /\ pc \in [Threads -> {"idle", "read", "write"}] /\ task \in [Threads -> Tasks \cup {None}]
  /\ request \in [Threads -> Requests \cup {None}] /\ row \in [Threads -> Row \cup {None}]
  /\ stored \in [Pages -> [Row -> Requests \cup {None}]] /\ used \subseteq Requests

\* Events that are repeated, reported at once or rolled back count once: the progress
\* is the number of events on record, up to the target.
ProgressExact ==
  \A w \in Row :
    /\ progress[w] = Smaller(Cardinality(recorded[w]), Target[w[1]])
    /\ completed[w] <=> progress[w] = Target[w[1]]

\* Each row pays its points once, however many claims with whatever ids are under way.
PointsPaidOnce ==
  balance = Cardinality({w \in Row : w[1] \in PointTasks /\ received[w]})

\* A voucher reward counts as received only when the request of the row is granted.
ReceivedIsGranted ==
  \A w \in Row :
    w[1] \in VoucherTasks /\ received[w] =>
      /\ rewardRequest[w] # None /\ grantRow[rewardRequest[w]] = w
      /\ fate[rewardRequest[w]] = "granted"

\* The request of the row is decided and the row will never be received.
Dead(w) ==
  ~received[w] /\ rewardRequest[w] # None /\ fate[rewardRequest[w]] \in {"granted", "refused"}

\* A decision settles its row or frees it for the next request: no row is left with a
\* decided request, unless a claim brings one back.
DecisionSettlesRow ==
  [][\A w \in Row : Dead(w)' /\ ~Dead(w) => \E t \in Threads : ClaimVoucher(t)]_vars

\* A retry that uses its id again, as a client must, does not block its own reward:
\* the request of a row that has failed frees the row.
FailedFreesRow ==
  \A w \in Row : w[1] \in VoucherTasks /\ rewardRequest[w] # None =>
    fate[rewardRequest[w]] # "refused"
===============================================================================
