---------------------------- MODULE SeckillOrder ----------------------------
(***************************************************************************)
(* The flash-sale ("seckill") order pipeline of one voucher.               *)
(*                                                                         *)
(*   request   seckill.lua reserves stock in Redis and appends the order   *)
(*             to the stream                                               *)
(*   consumer  one thread per instance reads the stream through group g1   *)
(*             and persists the order (VoucherOrderServiceImpl,            *)
(*             VoucherOrderTransactionalService)                           *)
(*   job       one scheduled thread per instance compensates dead letters  *)
(*             (VoucherOrderReconciliationJob)                             *)
(*                                                                         *)
(* Every Redis command, Lua script and database statement is one step, so  *)
(* every interleaving of the threads and every crash between two calls is  *)
(* a behaviour.  Order ids are numbered in the order in which the scripts  *)
(* admit them; it is also the order of the stream and of the pending ZSET. *)
(***************************************************************************)
EXTENDS Integers, FiniteSets, FiniteSetsExt

CONSTANTS
  Users,           \* the users who may buy the voucher
  Instances,       \* the application instances
  Consumers,       \* the consumer names of the stream group g1
  ConsumerName,    \* hmdp.seckill.consumer-name of each instance
  Free, Orphan,    \* lock states: not held, held by a crashed process
  NoUser,          \* the owner of an order that does not exist
  InitialStock,    \* the stock the sale starts with
  MaxOrders,       \* bound on the number of admitted orders
  MaxRetries,      \* hmdp.seckill.max-retries
  ReadCount,       \* count(10) of the blocking read
  PendingCount,    \* PENDING_BATCH_SIZE
  JobBatch,        \* hmdp.seckill.reconcile-batch-size
  DbFaults,        \* bound on the database calls that fail
  RedisFaults,     \* bound on the Redis calls that fail
  Crashes          \* bound on the crashes of an instance

ASSUME NamesAssumption ==
  /\ NoUser \notin Users
  /\ Free \notin Instances /\ Orphan \notin Instances /\ Free # Orphan
  /\ ConsumerName \in [Instances -> Consumers]

ASSUME BoundsAssumption ==
  /\ InitialStock \in Nat /\ MaxOrders \in Nat
  /\ MaxRetries \in Nat \ {0}
  /\ ReadCount \in Nat \ {0} /\ PendingCount \in Nat \ {0} /\ JobBatch \in Nat \ {0}
  /\ DbFaults \in Nat /\ RedisFaults \in Nat /\ Crashes \in Nat

VARIABLES
  redisStock,   \* seckill:stock:{voucher}
  buyers,       \* seckill:order:{voucher}, the users with a reservation
  owner,        \* the user of each admitted order (stream entry, status hash)
  issued,       \* orders 1..issued were appended to stream.orders
  dupMarker,    \* orders returned by restore_duplicate_reservation.lua
  failMarker,   \* orders whose compensate_failed_order.lua marker is set
  status,       \* seckill:order:status:{order}
  pendingZ,     \* seckill:orders:pending
  delivered,    \* last-delivered-id of group g1
  pel,          \* pending entries list of each consumer name
  retries,      \* stream.orders:retry, saturated at MaxRetries
  dlq,          \* orders with an entry in stream.orders.dlq
  lock,         \* lock:order:{voucher}:{user}, its holder
  holds,        \* its reentrancy count
  dbStock,      \* tb_seckill_voucher.stock
  dbOrders,     \* rows of tb_voucher_order
  pc,           \* next call of the consumer thread of each instance
  batch,        \* the records it still has to process, the first is current
  source,       \* where it read the batch: "new" or "pending"
  result,       \* PersistResult of the current record
  jobPc,        \* next call of the reconciliation job of each instance
  jobOrders,    \* the orders it still has to look at
  decision,     \* the status it will give to the current order
  faults        \* faults that may still happen, by kind

reservation == <<redisStock, buyers, owner, issued, dupMarker, failMarker>>
progress == <<status, pendingZ>>
stream == <<delivered, pel, retries, dlq>>
locks == <<lock, holds>>
db == <<dbStock, dbOrders>>
consumer == <<pc, batch, source, result>>
job == <<jobPc, jobOrders, decision>>
vars == <<reservation, progress, stream, locks, db, consumer, job, faults>>

Orders == 1..MaxOrders
Admitted == 1..issued

OrderStatus ==
  {"NONE", "PENDING", "SUCCESS", "DUPLICATE", "FAILED", "COMPENSATED"}

\* The calls of processRecord, in its try block and in handleRecordFailure.
ProcessPc ==
  {"lock", "select", "write", "unlock", "release", "restore", "mark", "zrem", "hdel", "ack"}
FailurePc == {"retry", "deadLetter", "markFailed", "ackFailed", "hdelFailed"}
ConsumerPc == {"poll", "recover"} \cup ProcessPc \cup FailurePc
JobPc == {"idle", "status", "find", "return", "mark", "zrem"}

PersistResult == {"NONE", "CREATED", "IDEMPOTENT", "DUPLICATE", "ERROR"}

-----------------------------------------------------------------------------
\* Helpers.

\* The first n orders of S: what a read with a count, or a LIMIT, returns.
FirstN(S, n) == {o \in S : Cardinality({p \in S : p < o}) < n}

\* The current record of a consumer and the current order of a job.
Current(i) == Min(batch[i])
JobCurrent(i) == Min(jobOrders[i])

Spend(kind) ==
  /\ faults[kind] > 0
  /\ faults' = [faults EXCEPT ![kind] = @ - 1]

OrderOf(u) == {o \in dbOrders : owner[o] = u}

-----------------------------------------------------------------------------
Init ==
  /\ redisStock = InitialStock
  /\ buyers = {}
  /\ owner = [o \in Orders |-> NoUser]
  /\ issued = 0
  /\ dupMarker = {} /\ failMarker = {}
  /\ status = [o \in Orders |-> "NONE"]
  /\ pendingZ = {}
  /\ delivered = 0
  /\ pel = [c \in Consumers |-> {}]
  /\ retries = [o \in Orders |-> 0]
  /\ dlq = {}
  /\ lock = [u \in Users |-> Free]
  /\ holds = [u \in Users |-> 0]
  /\ dbStock = InitialStock
  /\ dbOrders = {}
  /\ pc = [i \in Instances |-> "poll"]
  /\ batch = [i \in Instances |-> {}]
  /\ source = [i \in Instances |-> "new"]
  /\ result = [i \in Instances |-> "NONE"]
  /\ jobPc = [i \in Instances |-> "idle"]
  /\ jobOrders = [i \in Instances |-> {}]
  /\ decision = [i \in Instances |-> "NONE"]
  /\ faults = [db |-> DbFaults, redis |-> RedisFaults, crash |-> Crashes]

-----------------------------------------------------------------------------
\* The request.  The voucher cache is loaded and the sale is open.

\* Defect: the script forgets SISMEMBER.
Seckill_AnyUser(u) ==
  /\ issued < MaxOrders
  /\ redisStock > 0
  /\ LET o == issued + 1 IN
       /\ issued' = o
       /\ owner' = [owner EXCEPT ![o] = u]
       /\ status' = [status EXCEPT ![o] = "PENDING"]
       /\ pendingZ' = pendingZ \cup {o}
  /\ redisStock' = redisStock - 1
  /\ buyers' = buyers \cup {u}
  /\ UNCHANGED <<dupMarker, failMarker, stream, locks, db, consumer, job, faults>>

\* seckill.lua returning 0; every other return leaves Redis as it was.
Seckill(u) ==
  /\ issued < MaxOrders
  /\ redisStock > 0
  /\ u \notin buyers
  /\ LET o == issued + 1 IN
       /\ issued' = o
       /\ owner' = [owner EXCEPT ![o] = u]
       /\ status' = [status EXCEPT ![o] = "PENDING"]
       /\ pendingZ' = pendingZ \cup {o}
  /\ redisStock' = redisStock - 1
  /\ buyers' = buyers \cup {u}
  /\ UNCHANGED <<dupMarker, failMarker, stream, locks, db, consumer, job, faults>>

-----------------------------------------------------------------------------
\* Control flow of the consumer thread.

Goto(i, next) ==
  /\ pc' = [pc EXCEPT ![i] = next]
  /\ UNCHANGED <<batch, source, result>>

\* Back to the loop: recovery follows a batch of new records only.
NextRecord(i) ==
  LET rest == batch[i] \ {Current(i)} IN
  /\ batch' = [batch EXCEPT ![i] = rest]
  /\ result' = [result EXCEPT ![i] = "NONE"]
  /\ pc' = [pc EXCEPT ![i] =
              IF rest # {} THEN "lock"
              ELSE IF source[i] = "new" THEN "recover" ELSE "poll"]
  /\ UNCHANGED source

\* An exception in the try block of processRecord goes to
\* handleRecordFailure; one in the handler or in a read leaves the loop over
\* the batch, whose remaining records stay in the pending entries list.
Throw(i) ==
  IF pc[i] \in ProcessPc
    THEN Goto(i, "retry")
    ELSE /\ pc' = [pc EXCEPT ![i] = "poll"]
         /\ batch' = [batch EXCEPT ![i] = {}]
         /\ result' = [result EXCEPT ![i] = "NONE"]
         /\ UNCHANGED source

\* A Redis call was executed: the thread goes on, or the reply is lost.
Reply(i, goOn) ==
  \/ goOn /\ UNCHANGED faults
  \/ Spend("redis") /\ Throw(i)

\* A Redis call of the consumer was not executed and raised an exception.
RedisCallFails(i) ==
  /\ pc[i] \notin {"select", "write"}
  /\ Spend("redis")
  /\ Throw(i)
  /\ UNCHANGED <<reservation, progress, stream, locks, db, job>>

-----------------------------------------------------------------------------
\* consumeOrders and recoverPendingMessages.

ReadNew(i) ==
  LET n == Min({ReadCount, issued - delivered})
      new == (delivered + 1)..(delivered + n)
      c == ConsumerName[i]
  IN
  /\ pc[i] = "poll"
  /\ delivered' = delivered + n
  /\ pel' = [pel EXCEPT ![c] = @ \cup new]
  /\ Reply(i, /\ batch' = [batch EXCEPT ![i] = new]
              /\ source' = [source EXCEPT ![i] = "new"]
              /\ pc' = [pc EXCEPT ![i] = IF n = 0 THEN "recover" ELSE "lock"]
              /\ UNCHANGED result)
  /\ UNCHANGED <<reservation, progress, retries, dlq, locks, db, job>>

\* Less than five seconds have passed since the last recovery.
SkipRecovery(i) ==
  /\ pc[i] = "recover"
  /\ Goto(i, "poll")
  /\ UNCHANGED <<reservation, progress, stream, locks, db, job, faults>>

\* Defect: the recovery reads with ">" and never sees its own list.
ReadPending_OnlyNew(i) ==
  /\ pc[i] = "recover"
  /\ pc' = [pc EXCEPT ![i] = "poll"]
  /\ UNCHANGED <<batch, source, result, reservation, progress, stream, locks, db, job, faults>>

ReadPending(i) ==
  LET pending == FirstN(pel[ConsumerName[i]], PendingCount) IN
  /\ pc[i] = "recover"
  /\ batch' = [batch EXCEPT ![i] = pending]
  /\ source' = [source EXCEPT ![i] = "pending"]
  /\ pc' = [pc EXCEPT ![i] = IF pending = {} THEN "poll" ELSE "lock"]
  /\ UNCHANGED <<result, reservation, progress, stream, locks, db, job, faults>>

-----------------------------------------------------------------------------
\* persistWithUserLock.

\* tryLock(0, 15 s): no waiting, reentrant for the thread that holds it.
TryLock(i) ==
  LET u == owner[Current(i)] IN
  /\ pc[i] = "lock"
  /\ IF lock[u] \in {Free, i}
       THEN /\ lock' = [lock EXCEPT ![u] = i]
            /\ holds' = [holds EXCEPT ![u] = @ + 1]
            /\ Reply(i, Goto(i, "select"))
       ELSE /\ Reply(i, Goto(i, "retry"))
            /\ UNCHANGED locks
  /\ UNCHANGED <<reservation, progress, stream, db, job>>

\* Defect: an exception of the transaction is swallowed.
AfterPersist_SwallowsError(i) ==
  IF result[i] = "DUPLICATE" THEN "restore" ELSE "mark"

\* Once the transaction is over: the branches of processRecord.
AfterPersist(i) ==
  CASE result[i] = "ERROR" -> "retry"
    [] result[i] = "DUPLICATE" -> "restore"
    [] OTHER -> "mark"

\* isHeldByCurrentThread in the finally block.
CheckHeld(i) ==
  /\ pc[i] = "unlock"
  /\ Reply(i, Goto(i, IF lock[owner[Current(i)]] = i THEN "release" ELSE AfterPersist(i)))
  /\ UNCHANGED <<reservation, progress, stream, locks, db, job>>

\* Defect: the lock is deleted whoever holds it.
Unlock_Unchecked(i) ==
  LET u == owner[Current(i)] IN
  /\ pc[i] = "release"
  /\ lock' = [lock EXCEPT ![u] = Free]
  /\ holds' = [holds EXCEPT ![u] = @ - 1]
  /\ Reply(i, Goto(i, AfterPersist(i)))
  /\ UNCHANGED <<reservation, progress, stream, db, job>>

\* unlock() raises an exception when the lease has expired in between.
Unlock(i) ==
  LET u == owner[Current(i)] IN
  /\ pc[i] = "release"
  /\ IF lock[u] = i
       THEN /\ lock' = [lock EXCEPT ![u] = IF holds[u] = 1 THEN Free ELSE i]
            /\ holds' = [holds EXCEPT ![u] = @ - 1]
            /\ Reply(i, Goto(i, AfterPersist(i)))
       ELSE /\ Reply(i, Goto(i, "retry"))
            /\ UNCHANGED locks
  /\ UNCHANGED <<reservation, progress, stream, db, job>>

\* The 15 seconds of a lock are over.
LeaseExpires(u) ==
  /\ lock[u] # Free
  /\ lock' = [lock EXCEPT ![u] = Free]
  /\ holds' = [holds EXCEPT ![u] = 0]
  /\ UNCHANGED <<reservation, progress, stream, db, consumer, job, faults>>

-----------------------------------------------------------------------------
\* createVoucherOrder, one transaction at REPEATABLE READ.

Persisted(i, r) ==
  /\ pc' = [pc EXCEPT ![i] = "unlock"]
  /\ result' = [result EXCEPT ![i] = r]
  /\ UNCHANGED <<batch, source>>

\* The two SELECTs, on the snapshot the first one takes.
SelectOrder(i) ==
  LET o == Current(i) IN
  /\ pc[i] = "select"
  /\ \/ o \in dbOrders /\ Persisted(i, "IDEMPOTENT") /\ UNCHANGED faults
     \/ o \notin dbOrders /\ OrderOf(owner[o]) # {}
        /\ Persisted(i, "DUPLICATE") /\ UNCHANGED faults
     \/ o \notin dbOrders /\ OrderOf(owner[o]) = {}
        /\ Goto(i, "write") /\ UNCHANGED faults
     \/ Spend("db") /\ Persisted(i, "ERROR")
  /\ UNCHANGED <<reservation, progress, stream, locks, db, job>>

\* Defects: the UPDATE without its stock > 0, the table without its unique key.
Accepts_NoStockCheck(o) == OrderOf(owner[o]) = {}
Accepts_NoUniqueKey(o) == dbStock > 0 /\ o \notin dbOrders

\* The UPDATE finds a row with stock and the INSERT violates no key.
Accepts(o) == dbStock > 0 /\ OrderOf(owner[o]) = {}

\* UPDATE ... stock > 0, INSERT under uk_user_voucher, COMMIT.  The UPDATE
\* holds the row lock until the commit, so the three are one step.
WriteOrder(i) ==
  LET o == Current(i) IN
  /\ pc[i] = "write"
  /\ \/ /\ Accepts(o)
        /\ dbStock' = dbStock - 1
        /\ dbOrders' = dbOrders \cup {o}
        /\ \/ Persisted(i, "CREATED") /\ UNCHANGED faults
           \/ Spend("db") /\ Persisted(i, "ERROR")  \* the reply to COMMIT is lost
     \/ ~Accepts(o) /\ Persisted(i, "ERROR") /\ UNCHANGED <<db, faults>>
     \/ Spend("db") /\ Persisted(i, "ERROR") /\ UNCHANGED db
  /\ UNCHANGED <<reservation, progress, stream, locks, job>>

-----------------------------------------------------------------------------
\* processRecord after the transaction.

\* restore_duplicate_reservation.lua
RestoreDuplicate(o) ==
  /\ dupMarker' = dupMarker \cup {o}
  /\ redisStock' = IF o \in dupMarker THEN redisStock ELSE redisStock + 1
  /\ UNCHANGED <<buyers, owner, issued, failMarker>>

\* Defects: no marker; the stock is not returned; the user is not removed.
CompensateFailed_NoMarker(o) ==
  LET returned == owner[o] \in buyers IN
  /\ failMarker' = failMarker \cup {o}
  /\ redisStock' = IF returned THEN redisStock + 1 ELSE redisStock
  /\ buyers' = buyers \ {owner[o]}
  /\ UNCHANGED <<owner, issued, dupMarker>>

CompensateFailed_KeepsStock(o) ==
  /\ failMarker' = failMarker \cup {o}
  /\ buyers' = IF o \in failMarker THEN buyers ELSE buyers \ {owner[o]}
  /\ UNCHANGED <<redisStock, owner, issued, dupMarker>>

CompensateFailed_KeepsBuyer(o) ==
  /\ failMarker' = failMarker \cup {o}
  /\ redisStock' = IF o \in failMarker THEN redisStock ELSE redisStock + 1
  /\ UNCHANGED <<buyers, owner, issued, dupMarker>>

\* compensate_failed_order.lua
CompensateFailed(o) ==
  LET returned == o \notin failMarker /\ owner[o] \in buyers IN
  /\ failMarker' = failMarker \cup {o}
  /\ redisStock' = IF returned THEN redisStock + 1 ELSE redisStock
  /\ buyers' = IF returned THEN buyers \ {owner[o]} ELSE buyers
  /\ UNCHANGED <<owner, issued, dupMarker>>

RestoreReservation(i) ==
  /\ pc[i] = "restore"
  /\ RestoreDuplicate(Current(i))
  /\ Reply(i, Goto(i, "mark"))
  /\ UNCHANGED <<progress, stream, locks, db, job>>

MarkOrderStatus(o, s) ==
  status' = [status EXCEPT ![o] = s]

MarkProcessed(i) ==
  /\ pc[i] = "mark"
  /\ MarkOrderStatus(Current(i), IF result[i] = "DUPLICATE" THEN "DUPLICATE" ELSE "SUCCESS")
  /\ Reply(i, Goto(i, "zrem"))
  /\ UNCHANGED <<reservation, pendingZ, stream, locks, db, job>>

RemovePending(i) ==
  /\ pc[i] = "zrem"
  /\ pendingZ' = pendingZ \ {Current(i)}
  /\ Reply(i, Goto(i, "hdel"))
  /\ UNCHANGED <<reservation, status, stream, locks, db, job>>

ClearRetries(o) == retries' = [retries EXCEPT ![o] = 0]

DeleteRetries(i) ==
  /\ pc[i] = "hdel"
  /\ ClearRetries(Current(i))
  /\ Reply(i, Goto(i, "ack"))
  /\ UNCHANGED <<reservation, progress, delivered, pel, dlq, locks, db, job>>

\* XACK removes the entry from the list of whichever consumer holds it.
Acknowledge(o) == pel' = [c \in Consumers |-> pel[c] \ {o}]

AckProcessed(i) ==
  /\ pc[i] = "ack"
  /\ Acknowledge(Current(i))
  /\ Reply(i, NextRecord(i))
  /\ UNCHANGED <<reservation, progress, delivered, retries, dlq, locks, db, job>>

-----------------------------------------------------------------------------
\* handleRecordFailure.

\* Defect: a record that failed too often is only acknowledged.
CountRetry_NoDeadLetter(i) ==
  LET o == Current(i) IN
  /\ pc[i] = "retry"
  /\ retries' = [retries EXCEPT ![o] = Min({@ + 1, MaxRetries})]
  /\ Reply(i, IF retries[o] + 1 < MaxRetries THEN NextRecord(i) ELSE Goto(i, "ackFailed"))
  /\ UNCHANGED <<reservation, progress, delivered, pel, dlq, locks, db, job>>

CountRetry(i) ==
  LET o == Current(i) IN
  /\ pc[i] = "retry"
  /\ retries' = [retries EXCEPT ![o] = Min({@ + 1, MaxRetries})]
  /\ Reply(i, IF retries[o] + 1 < MaxRetries THEN NextRecord(i) ELSE Goto(i, "deadLetter"))
  /\ UNCHANGED <<reservation, progress, delivered, pel, dlq, locks, db, job>>

\* Defect: a dead letter leaves the pending ZSET.
AddDeadLetter_Untracked(i) ==
  /\ pc[i] = "deadLetter"
  /\ dlq' = dlq \cup {Current(i)}
  /\ pendingZ' = pendingZ \ {Current(i)}
  /\ Reply(i, Goto(i, "markFailed"))
  /\ UNCHANGED <<reservation, status, delivered, pel, retries, locks, db, job>>

AddDeadLetter(i) ==
  /\ pc[i] = "deadLetter"
  /\ dlq' = dlq \cup {Current(i)}
  /\ Reply(i, Goto(i, "markFailed"))
  /\ UNCHANGED <<reservation, progress, delivered, pel, retries, locks, db, job>>

MarkFailed(i) ==
  /\ pc[i] = "markFailed"
  /\ MarkOrderStatus(Current(i), "FAILED")
  /\ Reply(i, Goto(i, "ackFailed"))
  /\ UNCHANGED <<reservation, pendingZ, stream, locks, db, job>>

AckFailed(i) ==
  /\ pc[i] = "ackFailed"
  /\ Acknowledge(Current(i))
  /\ Reply(i, Goto(i, "hdelFailed"))
  /\ UNCHANGED <<reservation, progress, delivered, retries, dlq, locks, db, job>>

DeleteFailedRetries(i) ==
  /\ pc[i] = "hdelFailed"
  /\ ClearRetries(Current(i))
  /\ Reply(i, NextRecord(i))
  /\ UNCHANGED <<reservation, progress, delivered, pel, dlq, locks, db, job>>

-----------------------------------------------------------------------------
\* VoucherOrderReconciliationJob.

JobGoto(i, next) ==
  /\ jobPc' = [jobPc EXCEPT ![i] = next]
  /\ UNCHANGED <<jobOrders, decision>>

NextOrder(i) ==
  LET rest == jobOrders[i] \ {JobCurrent(i)} IN
  /\ jobOrders' = [jobOrders EXCEPT ![i] = rest]
  /\ decision' = [decision EXCEPT ![i] = "NONE"]
  /\ jobPc' = [jobPc EXCEPT ![i] = IF rest = {} THEN "idle" ELSE "status"]

\* Any exception ends the round.
AbortJob(i) ==
  /\ jobPc' = [jobPc EXCEPT ![i] = "idle"]
  /\ jobOrders' = [jobOrders EXCEPT ![i] = {}]
  /\ decision' = [decision EXCEPT ![i] = "NONE"]

JobReply(i, goOn) ==
  \/ goOn /\ UNCHANGED faults
  \/ Spend("redis") /\ AbortJob(i)

JobCallFails(i) ==
  /\ jobPc[i] # "idle"
  /\ Spend(IF jobPc[i] = "find" THEN "db" ELSE "redis")
  /\ AbortJob(i)
  /\ UNCHANGED <<reservation, progress, stream, locks, db, consumer>>

\* rangeByScore up to the grace cutoff: `newest` is the youngest order the
\* cutoff lets through.
StartJob(i, newest) ==
  /\ jobPc[i] = "idle"
  /\ newest \in pendingZ
  /\ jobOrders' = [jobOrders EXCEPT ![i] =
                     FirstN({o \in pendingZ : o =< newest}, JobBatch)]
  /\ jobPc' = [jobPc EXCEPT ![i] = "status"]
  /\ UNCHANGED <<decision, reservation, progress, stream, locks, db, consumer, faults>>

ReadStatus(i) ==
  /\ jobPc[i] = "status"
  /\ IF status[JobCurrent(i)] = "FAILED" THEN JobGoto(i, "find") ELSE NextOrder(i)
  /\ UNCHANGED <<reservation, progress, stream, locks, db, consumer, faults>>

\* Defect: the job compensates without looking at the database.
Decide_Blind(o) == "COMPENSATED"

Decide(o) ==
  CASE o \in dbOrders -> "SUCCESS"
    [] o \notin dbOrders /\ OrderOf(owner[o]) # {} -> "DUPLICATE"
    [] OTHER -> "COMPENSATED"

\* findOrder, outside any transaction, and the branch it selects.
FindOrder(i) ==
  LET d == Decide(JobCurrent(i)) IN
  /\ jobPc[i] = "find"
  /\ decision' = [decision EXCEPT ![i] = d]
  /\ jobPc' = [jobPc EXCEPT ![i] = IF d = "SUCCESS" THEN "mark" ELSE "return"]
  /\ UNCHANGED <<jobOrders, reservation, progress, stream, locks, db, consumer, faults>>

ReturnReservation(i) ==
  /\ jobPc[i] = "return"
  /\ IF decision[i] = "DUPLICATE"
       THEN RestoreDuplicate(JobCurrent(i))
       ELSE CompensateFailed(JobCurrent(i))
  /\ JobReply(i, JobGoto(i, "mark"))
  /\ UNCHANGED <<progress, stream, locks, db, consumer>>

MarkReconciled(i) ==
  /\ jobPc[i] = "mark"
  /\ MarkOrderStatus(JobCurrent(i), decision[i])
  /\ JobReply(i, JobGoto(i, "zrem"))
  /\ UNCHANGED <<reservation, pendingZ, stream, locks, db, consumer>>

RemoveReconciled(i) ==
  /\ jobPc[i] = "zrem"
  /\ pendingZ' = pendingZ \ {JobCurrent(i)}
  /\ JobReply(i, NextOrder(i))
  /\ UNCHANGED <<reservation, status, stream, locks, db, consumer>>

-----------------------------------------------------------------------------
\* An instance dies and is started again: its threads begin anew, its open
\* transaction is rolled back, its locks stay until the lease is over.
Crash(i) ==
  /\ Spend("crash")
  /\ pc' = [pc EXCEPT ![i] = "poll"]
  /\ batch' = [batch EXCEPT ![i] = {}]
  /\ source' = [source EXCEPT ![i] = "new"]
  /\ result' = [result EXCEPT ![i] = "NONE"]
  /\ AbortJob(i)
  /\ lock' = [u \in Users |-> IF lock[u] = i THEN Orphan ELSE lock[u]]
  /\ UNCHANGED <<holds, reservation, progress, stream, db>>

Consume(i) ==
  \/ ReadNew(i) \/ SkipRecovery(i) \/ ReadPending(i)
  \/ TryLock(i) \/ SelectOrder(i) \/ WriteOrder(i) \/ CheckHeld(i) \/ Unlock(i)
  \/ RestoreReservation(i) \/ MarkProcessed(i) \/ RemovePending(i)
  \/ DeleteRetries(i) \/ AckProcessed(i)
  \/ CountRetry(i) \/ AddDeadLetter(i) \/ MarkFailed(i) \/ AckFailed(i)
  \/ DeleteFailedRetries(i)

Reconcile(i) ==
  \/ ReadStatus(i) \/ FindOrder(i) \/ ReturnReservation(i)
  \/ MarkReconciled(i) \/ RemoveReconciled(i)

Next ==
  \/ \E u \in Users : Seckill(u) \/ LeaseExpires(u)
  \/ \E i \in Instances :
       \/ Consume(i) \/ Reconcile(i) \/ \E o \in Orders : StartJob(i, o)
       \/ RedisCallFails(i) \/ JobCallFails(i) \/ Crash(i)

Spec == Init /\ [][Next]_vars

\* The threads run, a read of the pending list comes every five seconds, the
\* job is scheduled again and again with a growing cutoff, leases run out.
Fairness ==
  /\ \A i \in Instances :
       /\ WF_vars(Consume(i)) /\ SF_vars(ReadPending(i))
       /\ WF_vars(Reconcile(i)) /\ \A o \in Orders : SF_vars(StartJob(i, o))
  /\ \A u \in Users : WF_vars(LeaseExpires(u))

FairSpec == Spec /\ Fairness

-----------------------------------------------------------------------------
\* Properties.

Released == dupMarker \cup failMarker

\* Admitted, neither sold nor given back.
Outstanding == Admitted \ (dbOrders \cup Released)

TypeOK ==
  /\ redisStock \in Int
  /\ buyers \subseteq Users
  /\ issued \in 0..MaxOrders
  /\ owner \in [Orders -> Users \cup {NoUser}]
  /\ dupMarker \subseteq Orders /\ failMarker \subseteq Orders
  /\ status \in [Orders -> OrderStatus]
  /\ pendingZ \subseteq Orders
  /\ delivered \in 0..issued
  /\ pel \in [Consumers -> SUBSET Orders]
  /\ retries \in [Orders -> 0..MaxRetries]
  /\ dlq \subseteq Orders
  /\ lock \in [Users -> Instances \cup {Free, Orphan}]
  /\ holds \in [Users -> Nat]
  /\ dbStock \in Int
  /\ dbOrders \subseteq Orders
  /\ pc \in [Instances -> ConsumerPc]
  /\ batch \in [Instances -> SUBSET Orders]
  /\ source \in [Instances -> {"new", "pending"}]
  /\ result \in [Instances -> PersistResult]
  /\ jobPc \in [Instances -> JobPc]
  /\ jobOrders \in [Instances -> SUBSET Orders]
  /\ decision \in [Instances -> OrderStatus]
  /\ faults \in [{"db", "redis", "crash"} -> Nat]

\* The database never sells more than the stock: each row took one unit.
NoOversell ==
  /\ dbStock >= 0
  /\ dbStock + Cardinality(dbOrders) = InitialStock

\* One order per user (uk_user_voucher), whatever the locks and leases do.
OneOrderPerUser ==
  \A o, p \in dbOrders : owner[o] = owner[p] => o = p

\* What a client polling the order is told is true: SUCCESS only for a row in the
\* database, DUPLICATE only when another order of the user is there and this one is
\* given back, COMPENSATED only when it is given back, and FAILED only with a dead
\* letter.
TruthfulStatus ==
  \A o \in Orders :
    /\ status[o] = "SUCCESS" => o \in dbOrders
    /\ status[o] = "DUPLICATE" => o \in Released \ dbOrders /\ OrderOf(owner[o]) # {}
    /\ status[o] = "COMPENSATED" => o \in Released
    /\ status[o] = "FAILED" => o \in dlq

\* No accepted order is lost: as long as it is neither sold nor given back,
\* it waits in the stream, is pending in the group, or is a dead letter that
\* the reconciliation job will find.
NoLostReservation ==
  \A o \in Outstanding :
    \/ o > delivered
    \/ \E c \in Consumers : o \in pel[c]
    \/ o \in dlq /\ o \in pendingZ /\ status[o] = "FAILED"

\* The Redis stock is the initial stock less the admissions plus the returns,
\* each marker counting once: no compensation finds its user already removed.
RedisLedger ==
  redisStock = InitialStock - issued + Cardinality(dupMarker) + Cardinality(failMarker)

\* The buyers set holds exactly the users with a reservation that was not
\* compensated, and a user has at most one such reservation.
OneLiveReservation ==
  /\ buyers = {owner[o] : o \in Admitted \ failMarker}
  /\ \A o, p \in Admitted \ failMarker : owner[o] = owner[p] => o = p

\* Redis and the database agree up to the orders in flight.
ExactStock == redisStock = dbStock - Cardinality(Outstanding)

\* A sold order is never given back, and no order is given back twice.
ReleasedOnce ==
  /\ (dupMarker \cup failMarker) \cap dbOrders = {}
  /\ dupMarker \cap failMarker = {}

\* A dead letter stays within reach of the job until it is settled.
FailedIsTracked ==
  \A o \in Orders : status[o] = "FAILED" => o \in pendingZ

\* The fate of an order in the abstract sale.
Fate(o) ==
  CASE o \in dbOrders -> "sold"
    [] o \in Released \ dbOrders -> "released"
    [] o \in Outstanding -> "reserved"
    [] OTHER -> "free"

Sale == INSTANCE FlashSale WITH
  Stock <- InitialStock, available <- redisStock, buyer <- owner,
  fate <- [o \in Orders |-> Fate(o)]

\* The pipeline implements the abstract sale: each admitted order is sold or
\* given back exactly once, and the Redis stock counts the free units.
ImplementsSale == Sale!SaleSpec

\* The job looks at nothing but entries that are not FAILED, and those stay.
JobIsBlocked ==
  /\ \E o \in pendingZ : status[o] = "FAILED"
  /\ \A o \in FirstN(pendingZ, JobBatch) : status[o] # "FAILED"

\* Every accepted order is eventually sold or given back, unless as many entries as a
\* batch of the job, left by calls that failed, keep it from the dead letters for good.
EveryOrderSettles ==
  \/ \A o \in Orders : o \in Admitted ~> o \in dbOrders \cup Released
  \/ <>[]JobIsBlocked

\* A client that polls stops seeing PENDING.
PollingEnds ==
  \A o \in Orders : status[o] = "PENDING" ~> status[o] # "PENDING"

=============================================================================
