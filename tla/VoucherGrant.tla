----------------------------- MODULE VoucherGrant -----------------------------
(***************************************************************************)
(* How a reward request becomes a voucher: the publisher that moves the    *)
(* grant log into the Redis stream (VoucherGrantPublisher), the consumer   *)
(* that persists the grants (VoucherGrantConsumer) and its transactions    *)
(* (VoucherGrantTransactionalService).  One voucher template; what the     *)
(* transactions also write to the task of a request is in TaskReward.      *)
(*                                                                         *)
(*   thread     of the web server or the scheduler, publishing one request *)
(*   consumer   the consumer thread of an instance; all have the default   *)
(*              consumer name and share one pending list                   *)
(***************************************************************************)
EXTENDS Integers, Sequences, FiniteSets

CONSTANTS
  Users, Requests,
  Owner,          \* the user of each request
  Stock,          \* remaining_stock of the template
  OldOwners,      \* users who have the voucher from earlier
  Threads, Consumers,
  MaxRetries,     \* hmdp.marketing.max-retries
  MaxRecords,     \* bound on the records of the stream
  MaxFaults,      \* bound on the faults
  NoRequest, OldRequest, Free, Orphan

ASSUME OwnerAssumption ==
  /\ Owner \in [Requests -> Users]
  /\ OldOwners \subseteq Users
  /\ NoRequest \notin Requests /\ OldRequest \notin Requests /\ NoRequest # OldRequest
ASSUME LimitsAssumption ==
  /\ Stock \in Nat /\ MaxRetries \in Nat \ {0} /\ MaxRecords \in Nat
  /\ MaxFaults \in Nat
ASSUME ThreadsAssumption == Free \notin Threads /\ Orphan \notin Threads

Absent == -1      \* a stock key that does not exist

VARIABLES
  status,         \* voucher_grant_log.status
  holding,        \* user_voucher: the request that gave each user the voucher
  lapsed,         \* the users whose voucher has expired
  dbStock,        \* voucher_template.remaining_stock
  template,       \* "open"; "over" after its end; "disabled" once the job has seen that
  stock,          \* marketing:voucher:stock
  members,        \* marketing:voucher:users
  reserved,       \* the marketing:voucher:request keys
  stream,         \* the request of each record of stream.voucher.grants
  acked,          \* the acknowledged records
  retries,        \* stream.voucher.grants:retry
  initLock,       \* lock:marketing:voucher:init
  pc, request, seen,    \* of each thread: next call, request, the stock it has read
  view,           \* the snapshot a thread reads from, none for the scheduler
  cpc, record,          \* of each consumer: next call, record
  faults          \* the faults that may still happen

database == <<status, holding, lapsed, dbStock, template>>
redis == <<stock, members, reserved, stream>>
group == <<acked, retries>>
publishing == <<initLock, pc, request, seen, view>>
consuming == <<cpc, record>>
vars == <<database, redis, group, publishing, consuming, faults>>

Statuses == {"NONE", "CREATED", "PENDING", "SUCCESS", "FAILED"}
Records == 1..MaxRecords
ThreadPc == {"idle", "first", "select", "template", "script", "initLock", "initCheck", "initOwners",
             "initStock", "again", "pending", "fail", "owned", "inFlight", "remove"}
ConsumerPc == {"idle", "persist", "keep", "drop", "clear", "ack",
               "count", "dlq", "fail", "compensate", "clearDead", "ackDead"}

Owners == {u \in Users : holding[u] # NoRequest}

\* The voucher may have been given before, and such vouchers may have expired.
Init ==
  /\ status = [r \in Requests |-> "NONE"]
  /\ holding = [u \in Users |-> IF u \in OldOwners THEN OldRequest ELSE NoRequest]
  /\ lapsed = {} /\ dbStock = Stock /\ template = "open"
  /\ stock = Absent /\ members = {} /\ reserved = {} /\ stream = <<>>
  /\ acked = {} /\ retries = [k \in Records |-> 0]
  /\ initLock = Free
  /\ pc = [t \in Threads |-> "idle"]
  /\ request = [t \in Threads |-> NoRequest]
  /\ seen = [t \in Threads |-> 0]
  /\ view = [t \in Threads |-> <<>>]
  /\ cpc = [c \in Consumers |-> "idle"]
  /\ record = [c \in Consumers |-> 0]
  /\ faults = MaxFaults

\* A call that fails, a reply or a lease that gets lost, a process that dies.
Fault ==
  /\ faults > 0
  /\ faults' = faults - 1

-----------------------------------------------------------------------------
\* The transactions on a grant.

\* markGrantSuccess
SetStatus(r, s) == status' = [status EXCEPT ![r] = s]

\* Defect: a grant that has succeeded becomes FAILED.
MarkFailed_Always(r) == SetStatus(r, "FAILED") /\ UNCHANGED <<holding, lapsed, dbStock, template>>

\* markFailed leaves a grant that has succeeded alone.
MarkFailed(r) ==
  /\ SetStatus(r, IF status[r] = "SUCCESS" THEN "SUCCESS" ELSE "FAILED")
  /\ UNCHANGED <<holding, lapsed, dbStock, template>>

-----------------------------------------------------------------------------
\* The publisher.

\* Thread t goes on; it forgets its request at the end.
Goto(t, next) ==
  /\ pc' = [pc EXCEPT ![t] = next]
  /\ request' = [request EXCEPT ![t] = IF next = "idle" THEN NoRequest ELSE @]
  /\ seen' = [seen EXCEPT ![t] = IF next = "idle" THEN 0 ELSE @]
  /\ view' = [view EXCEPT ![t] = IF next = "idle" THEN <<>> ELSE @]

\* What a plain SELECT can see.
Snapshot ==
  [owners |-> Owners, lapsed |-> lapsed, stock |-> dbStock, template |-> template,
   undecided |-> {q \in Requests : status[q] \in {"CREATED", "PENDING"}}]

\* afterCommit runs before the connection is reset: all plain SELECTs of publish
\* belong to one transaction and read what its first one has read.
View(t) == IF view[t] = <<>> THEN Snapshot ELSE view[t][1]

Publish(t, r, first) ==
  /\ pc[t] = "idle"
  /\ pc' = [pc EXCEPT ![t] = first]
  /\ request' = [request EXCEPT ![t] = r]
  /\ UNCHANGED <<redis, group, initLock, seen, view, consuming, faults>>

\* createVoucherGrant commits a new grant; afterCommit publishes it.
Create(t, r) ==
  /\ status[r] = "NONE" /\ template = "open"
  /\ Publish(t, r, "first")
  /\ SetStatus(r, "CREATED")
  /\ UNCHANGED <<holding, lapsed, dbStock, template>>

\* Defect: the scan takes the grants that are PENDING.
Scannable_Pending(r) == status[r] = "PENDING"

Scannable(r) == status[r] = "CREATED"

\* retryCreatedRequests; by the time of "select" the list may be old.
Scan(t, r) == Scannable(r) /\ Publish(t, r, "select") /\ UNCHANGED database

SelectGrant(t) ==
  /\ pc[t] \in {"first", "select"}
  /\ \/ status[request[t]] \in {"SUCCESS", "FAILED"} /\ Goto(t, "idle")
     \/ /\ status[request[t]] \notin {"SUCCESS", "FAILED"}
        /\ pc' = [pc EXCEPT ![t] = "template"]
        /\ view' = [view EXCEPT ![t] = IF pc[t] = "first" THEN <<Snapshot>> ELSE <<>>]
        /\ UNCHANGED <<request, seen>>
  /\ UNCHANGED <<database, redis, group, initLock, consuming, faults>>

ReadTemplate(t) ==
  /\ pc[t] = "template"
  /\ pc' = [pc EXCEPT ![t] = IF View(t).template = "open" THEN "script" ELSE "fail"]
  /\ seen' = [seen EXCEPT ![t] = View(t).stock]
  /\ UNCHANGED <<database, redis, group, initLock, request, view, consuming, faults>>

\* voucher_grant.lua, code 0.
Reserve(r) ==
  /\ stock' = stock - 1
  /\ members' = members \cup {Owner[r]}
  /\ reserved' = reserved \cup {r}
  /\ stream' = Append(stream, r)

\* voucher_grant.lua: codes 3, 4, 1, 2 and 0.
GrantScript(t) ==
  LET r == request[t] IN
  /\ pc[t] \in {"script", "again"}
  /\ \/ r \in reserved /\ Goto(t, "pending") /\ UNCHANGED redis
     \/ /\ r \notin reserved /\ stock = Absent
        /\ Goto(t, IF pc[t] = "script" THEN "initLock" ELSE "idle")
        /\ UNCHANGED redis
     \/ r \notin reserved /\ stock = 0 /\ Goto(t, "fail") /\ UNCHANGED redis
     \/ /\ r \notin reserved /\ stock > 0 /\ Owner[r] \in members
        /\ Goto(t, "owned") /\ UNCHANGED redis
     \/ /\ r \notin reserved /\ stock > 0 /\ Owner[r] \notin members
        /\ Len(stream) < MaxRecords
        /\ Goto(t, "pending") /\ Reserve(r)
  /\ UNCHANGED <<database, group, initLock, consuming, faults>>

MarkPending(t) ==
  /\ pc[t] = "pending"
  /\ Goto(t, "idle")
  /\ SetStatus(request[t], IF status[request[t]] = "CREATED" THEN "PENDING" ELSE status[request[t]])
  /\ UNCHANGED <<holding, lapsed, dbStock, template, redis, group, initLock, consuming, faults>>

PublishFailed(t) ==
  /\ pc[t] = "fail"
  /\ Goto(t, "idle")
  /\ MarkFailed(request[t])
  /\ UNCHANGED <<redis, group, initLock, consuming, faults>>

\* initializeVoucherCache: without the lock the request is left to the scan.
LockInit(t) ==
  /\ pc[t] = "initLock"
  /\ \/ initLock = Free /\ initLock' = t /\ Goto(t, "initCheck")
     \/ initLock # Free /\ UNCHANGED initLock /\ Goto(t, "idle")
  /\ UNCHANGED <<database, redis, group, consuming, faults>>

\* A thread that has outlived its lease finds that the lock is not its own.
Unlock(t) == initLock' = IF initLock = t THEN Free ELSE initLock

CheckStock(t) ==
  /\ pc[t] = "initCheck"
  /\ \/ stock # Absent /\ Goto(t, "again") /\ Unlock(t)
     \/ stock = Absent /\ Goto(t, "initOwners") /\ UNCHANGED initLock
  /\ UNCHANGED <<database, redis, group, consuming, faults>>

\* selectOwnerIds leaves out the vouchers that have expired.
WarmOwners(t) ==
  /\ pc[t] = "initOwners"
  /\ Goto(t, "initStock")
  /\ members' = members \cup (View(t).owners \ View(t).lapsed)
  /\ UNCHANGED <<database, stock, reserved, stream, group, initLock, consuming, faults>>

WriteStock(t) ==
  /\ pc[t] = "initStock"
  /\ Goto(t, "again")
  /\ stock' = seen[t]
  /\ Unlock(t)
  /\ UNCHANGED <<database, members, reserved, stream, group, consuming, faults>>

\* handleAlreadyReserved: completeAlreadyOwned.
CompleteOwned(t) ==
  LET r == request[t] IN
  /\ pc[t] = "owned"
  /\ \/ Owner[r] \in View(t).owners /\ SetStatus(r, "SUCCESS") /\ Goto(t, "idle")
     \/ Owner[r] \notin View(t).owners /\ UNCHANGED status /\ Goto(t, "inFlight")
  /\ UNCHANGED <<holding, lapsed, dbStock, template, redis, group, initLock, consuming, faults>>

\* The other requests of the owner that are not decided.
InFlight(t) ==
  {q \in View(t).undecided \ {request[t]} : Owner[q] = Owner[request[t]]}

FindInFlight(t) ==
  /\ pc[t] = "inFlight"
  /\ Goto(t, IF InFlight(t) # {} THEN "fail" ELSE "remove")
  /\ UNCHANGED <<database, redis, group, initLock, consuming, faults>>

RemoveMember(t) ==
  /\ pc[t] = "remove"
  /\ Goto(t, "idle")
  /\ members' = members \ {Owner[request[t]]}
  /\ UNCHANGED <<database, stock, reserved, stream, group, initLock, consuming, faults>>

\* A call fails, before or after it took effect, or the process dies.
PublisherStops(t) ==
  /\ pc[t] # "idle"
  /\ Fault
  /\ Goto(t, "idle")
  /\ initLock' \in IF initLock = t THEN {Free, Orphan} ELSE {initLock}
  /\ UNCHANGED <<database, redis, group, consuming>>

\* The lock of a process that died runs out; so does that of a slow thread.
LockExpires ==
  /\ \/ initLock = Orphan /\ UNCHANGED faults
     \/ initLock \in Threads /\ Fault
  /\ initLock' = Free
  /\ UNCHANGED <<database, redis, group, pc, request, seen, view, consuming>>

-----------------------------------------------------------------------------
\* The consumer.

Current(c) == stream[record[c]]

Step(c, next) ==
  /\ cpc' = [cpc EXCEPT ![c] = next]
  /\ record' = [record EXCEPT ![c] = IF next = "idle" THEN 0 ELSE @]

\* A call that is executed; its reply may get lost, which is an exception.
Executed(c, next, onError) ==
  \/ Step(c, next) /\ UNCHANGED faults
  \/ Step(c, onError) /\ Fault

\* consume and recoverPending hand each new or pending record to processRecord.
Take(c, k) ==
  /\ cpc[c] = "idle"
  /\ k \in 1..Len(stream) \ acked
  /\ cpc' = [cpc EXCEPT ![c] = "persist"]
  /\ record' = [record EXCEPT ![c] = k]
  /\ UNCHANGED <<database, redis, group, publishing, faults>>

\* persistGrant of a request that has its voucher already, or was refused.
PersistDecided(c) ==
  LET r == Current(c) IN
  /\ cpc[c] = "persist"
  /\ \/ status[r] = "SUCCESS" /\ Step(c, "clear")
     \/ status[r] = "FAILED" /\ Step(c, "drop")
  /\ UNCHANGED <<database, redis, group, publishing, faults>>

Undecided(r) == status[r] \notin {"SUCCESS", "FAILED"}

\* persistGrant of an owner: DUPLICATE.
PersistDuplicate(c) ==
  LET r == Current(c) IN
  /\ cpc[c] = "persist"
  /\ Undecided(r) /\ Owner[r] \in Owners
  /\ SetStatus(r, "SUCCESS")
  /\ Executed(c, "keep", "count")
  /\ UNCHANGED <<holding, lapsed, dbStock, template, redis, group, publishing>>

\* decrementStock needs an enabled template with stock.
Persistable(r) ==
  Undecided(r) /\ Owner[r] \notin Owners /\ dbStock > 0 /\ template # "disabled"

\* persistGrant: the stock, the voucher and the grant in one transaction.
PersistCreated(c) ==
  LET r == Current(c) IN
  /\ cpc[c] = "persist"
  /\ Persistable(r)
  /\ dbStock' = dbStock - 1
  /\ holding' = [holding EXCEPT ![Owner[r]] = r]
  /\ SetStatus(r, "SUCCESS")
  /\ Executed(c, "clear", "count")
  /\ UNCHANGED <<lapsed, template, redis, group, publishing>>

\* persistGrant rolls back: no stock, or the database fails.
PersistFails(c) ==
  LET r == Current(c) IN
  /\ cpc[c] = "persist"
  /\ \/ /\ Undecided(r) /\ Owner[r] \notin Owners /\ ~Persistable(r)
        /\ UNCHANGED faults
     \/ Fault
  /\ Step(c, "count")
  /\ UNCHANGED <<database, redis, group, publishing>>

\* Defect: the request key stays.
Compensate_KeepsKey(r, removeUser) ==
  /\ stock' = IF r \in reserved THEN stock + 1 ELSE stock
  /\ members' = IF r \in reserved /\ removeUser THEN members \ {Owner[r]} ELSE members
  /\ UNCHANGED <<reserved, stream>>

\* voucher_grant_compensate.lua, once per request key.
Compensate(r, removeUser) ==
  /\ stock' = IF r \in reserved THEN stock + 1 ELSE stock
  /\ members' = IF r \in reserved /\ removeUser THEN members \ {Owner[r]} ELSE members
  /\ reserved' = reserved \ {r}
  /\ UNCHANGED stream

\* compensate for DUPLICATE keeps the user, for FAILED it removes him.
ReturnUnit(c) ==
  /\ cpc[c] \in {"keep", "drop"}
  /\ Compensate(Current(c), cpc[c] = "drop")
  /\ Executed(c, "clear", "count")
  /\ UNCHANGED <<database, group, publishing>>

ClearRetry(c) ==
  /\ \/ cpc[c] = "clear" /\ Executed(c, "ack", "count")
     \/ cpc[c] = "clearDead" /\ Step(c, "ackDead") /\ UNCHANGED faults
  /\ retries' = [retries EXCEPT ![record[c]] = 0]
  /\ UNCHANGED <<database, redis, acked, publishing>>

Acknowledge(c) ==
  /\ \/ cpc[c] = "ack" /\ Executed(c, "idle", "count")
     \/ cpc[c] = "ackDead" /\ Step(c, "idle") /\ UNCHANGED faults
  /\ acked' = acked \cup {record[c]}
  /\ UNCHANGED <<database, redis, retries, publishing>>

\* A call of processRecord is not executed.
CallFails(c) ==
  /\ cpc[c] \in {"keep", "drop", "clear", "ack"}
  /\ Fault
  /\ Step(c, "count")
  /\ UNCHANGED <<database, redis, group, publishing>>

\* Defect: the retries never run out.
CountRetry_NeverDead(c) ==
  /\ cpc[c] = "count"
  /\ retries' = [retries EXCEPT ![record[c]] = @ + 1]
  /\ Step(c, "idle")
  /\ UNCHANGED <<database, redis, acked, publishing, faults>>

\* handleFailure, until the retries run out.
CountRetry(c) ==
  LET n == retries[record[c]] + 1 IN
  /\ cpc[c] = "count"
  /\ retries' = [retries EXCEPT ![record[c]] = IF n < MaxRetries THEN n ELSE MaxRetries]
  /\ Step(c, IF n < MaxRetries THEN "idle" ELSE "dlq")
  /\ UNCHANGED <<database, redis, acked, publishing, faults>>

\* The dead letter is only written; nothing reads it.
WriteDeadLetter(c) ==
  /\ cpc[c] = "dlq"
  /\ Step(c, "fail")
  /\ UNCHANGED <<database, redis, group, publishing, faults>>

FailDead(c) ==
  /\ cpc[c] = "fail"
  /\ MarkFailed(Current(c))
  /\ Step(c, "compensate")
  /\ UNCHANGED <<redis, group, publishing, faults>>

\* The unit goes back and the user is removed, whatever markFailed has found.
CompensateDead(c) ==
  /\ cpc[c] = "compensate"
  /\ Compensate(Current(c), TRUE)
  /\ Step(c, "clearDead")
  /\ UNCHANGED <<database, group, publishing, faults>>

\* A call of handleFailure fails, or the process dies.
ConsumerStops(c) ==
  /\ cpc[c] # "idle"
  /\ Fault
  /\ Step(c, "idle")
  /\ UNCHANGED <<database, redis, group, publishing>>

-----------------------------------------------------------------------------
\* Time: the template ends, and expireVouchers marks what has expired.

TemplateEnds ==
  /\ template = "open"
  /\ template' = "over"
  /\ UNCHANGED <<status, holding, lapsed, dbStock, redis, group, publishing, consuming, faults>>

\* No voucher lasts longer than its template; those from earlier may end before.
ExpireVouchers ==
  /\ \/ template = "open" /\ OldOwners \ lapsed # {}
        /\ lapsed' = OldOwners /\ UNCHANGED template
     \/ template = "over" /\ lapsed' = Owners /\ template' = "disabled"
  /\ UNCHANGED <<status, holding, dbStock, redis, group, publishing, consuming, faults>>

-----------------------------------------------------------------------------
Publisher(t) ==
  \/ SelectGrant(t) \/ ReadTemplate(t) \/ GrantScript(t) \/ MarkPending(t) \/ PublishFailed(t)
  \/ LockInit(t) \/ CheckStock(t) \/ WarmOwners(t) \/ WriteStock(t)
  \/ CompleteOwned(t) \/ FindInFlight(t) \/ RemoveMember(t)

Consumer(c) ==
  \/ PersistDecided(c) \/ PersistDuplicate(c) \/ PersistCreated(c) \/ PersistFails(c)
  \/ ReturnUnit(c) \/ ClearRetry(c) \/ Acknowledge(c)
  \/ CountRetry(c) \/ WriteDeadLetter(c) \/ FailDead(c) \/ CompensateDead(c)

Next ==
  \/ \E t \in Threads :
       Publisher(t) \/ PublisherStops(t) \/ \E r \in Requests : Create(t, r) \/ Scan(t, r)
  \/ \E c \in Consumers :
       Consumer(c) \/ CallFails(c) \/ ConsumerStops(c) \/ \E k \in Records : Take(c, k)
  \/ LockExpires \/ TemplateEnds \/ ExpireVouchers

Spec == Init /\ [][Next]_vars

\* Threads run, the scan comes back to each new grant and the consumers to each
\* pending record, and locks have a lease.
Fairness ==
  /\ \A t \in Threads : WF_vars(Publisher(t))
  /\ \A c \in Consumers : WF_vars(Consumer(c))
  /\ \A r \in Requests : SF_vars(\E t \in Threads : Scan(t, r))
  /\ \A k \in Records : SF_vars(\E c \in Consumers : Take(c, k))
  /\ WF_vars(LockExpires)

FairSpec == Spec /\ Fairness

-----------------------------------------------------------------------------
\* Properties.

Snapshots ==
  [owners : SUBSET Users, lapsed : SUBSET Users, stock : Nat,
   template : {"open", "over", "disabled"}, undecided : SUBSET Requests]

TypeOK ==
  /\ status \in [Requests -> Statuses]
  /\ holding \in [Users -> Requests \cup {NoRequest, OldRequest}]
  /\ lapsed \subseteq Users /\ dbStock \in Nat
  /\ template \in {"open", "over", "disabled"}
  /\ stock \in Nat \cup {Absent} /\ members \subseteq Users
  /\ reserved \subseteq Requests /\ stream \in Seq(Requests) /\ Len(stream) <= MaxRecords
  /\ acked \subseteq Records /\ retries \in [Records -> 0..MaxRetries]
  /\ initLock \in Threads \cup {Free, Orphan}
  /\ pc \in [Threads -> ThreadPc] /\ request \in [Threads -> Requests \cup {NoRequest}]
  /\ seen \in [Threads -> Nat] /\ view \in [Threads -> {<<>>} \cup Seq(Snapshots)]
  /\ cpc \in [Consumers -> ConsumerPc] /\ record \in [Consumers -> Records \cup {0}]
  /\ faults \in 0..MaxFaults

\* Requests that hold a unit in Redis which the database has not sold.
Outstanding == {r \in reserved : holding[Owner[r]] # r}

\* A record whose grant has succeeded runs out of retries.
ReturnsSold == \E c \in Consumers : CompensateDead(c) /\ holding[Owner[Current(c)]] = Current(c)

\* A publisher that has read that request as undecided reserves it once more.
ReservesSold == \E t \in Threads : GrantScript(t) /\ status[request[t]] = "SUCCESS"

\* A loader that has outlived its lease writes a stock others have reserved from.
LoadsLate == \E t \in Threads : WriteStock(t)

Balance == stock + Cardinality(Outstanding) - dbStock

\* Whatever fails and is repeated, no unit is reserved, sold or returned twice: the
\* units of Redis keep in step with those of the database.  Only a dead letter whose
\* transaction has committed returns a unit that is sold, only a publisher that has
\* read its request before takes one for a request that is sold, and only a loader
\* that has outlived its lease sets a stock in use.
UnitsKeepStep == [][stock # Absent => Balance' = Balance \/ ReturnsSold \/ ReservesSold \/ LoadsLate]_vars

\* Publishing, consuming and either process may fail anywhere: in the end no request
\* is without its voucher or its refusal.  (There are finitely many requests.)
EveryGrantSettles ==
  <>[](\A r \in Requests : status[r] \notin {"CREATED", "PENDING"})

Fate(r) ==
  CASE status[r] = "NONE" -> "none"
    [] status[r] \in {"CREATED", "PENDING"} -> "waiting"
    [] status[r] = "SUCCESS" -> "granted"
    [] status[r] = "FAILED" -> "refused"

\* Whatever fails, the grants of the database are those of Grant: no request loses
\* its voucher, no user gets two, no unit is given twice.
Grants == INSTANCE Grant WITH
  OldHolders <- OldOwners,
  fate <- [r \in Requests |-> Fate(r)], holders <- Owners, left <- dbStock

ImplementsGrant == Grants!Spec
===============================================================================
