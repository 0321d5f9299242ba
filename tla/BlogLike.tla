------------------------------- MODULE BlogLike -------------------------------
(***************************************************************************)
(* The asynchronous like counter of blogs.                                 *)
(*                                                                         *)
(*   request    blog_like.lua toggles a like in Redis and adds it to the   *)
(*              net change of the blog (BlogServiceImpl.likeBlog)          *)
(*   scheduler  one thread per instance that flushes the net changes to    *)
(*              MySQL in batches, overwrites the counters with the counts  *)
(*              of Redis now and then, and deletes old batch records       *)
(*              (BlogLikeSyncJob)                                          *)
(*                                                                         *)
(* Spring runs all @Scheduled methods of an instance on one thread.  Every *)
(* Redis command, Lua script and transaction is one step.  The number of   *)
(* clicks is not bounded.  The keys are never evicted and nobody edits     *)
(* them by hand.                                                           *)
(***************************************************************************)
EXTENDS Integers, FiniteSets, SequencesExt

CONSTANTS
  Users, Blogs,
  Instances,         \* the application instances
  Reconcilers,       \* those whose reconciliation is due during the run
  Batches, NoBatch,  \* batch ids; bounds the batches that are in use at once
  Free, Orphan,      \* lock states: not held, held by a crashed process
  NoRequest,         \* the user is not between the two calls of likeBlog
  OldLikes,          \* likes in Redis from before the counter, per blog
  OldLiked,          \* tb_blog.liked from before the counter
  OldCount,          \* counts in Redis without a baseline, or Absent
  BatchSize,         \* hmdp.blog-like.batch-size
  ReconcileBatch,    \* hmdp.blog-like.reconcile-batch-size
  DbFaults,          \* bound on the transactions that fail
  RedisFaults,       \* bound on the Redis calls that fail
  LeaseLosses,       \* bound on the locks a live thread loses
  Crashes            \* bound on the crashes of an instance

Absent == -1         \* a hash field that does not exist

ASSUME NamesAssumption ==
  /\ Reconcilers \subseteq Instances
  /\ NoBatch \notin Batches
  /\ Free \notin Instances /\ Orphan \notin Instances /\ Free # Orphan

ASSUME OldDataAssumption ==
  /\ OldLikes \in [Blogs -> SUBSET Users]
  /\ OldLiked \in [Blogs -> Nat]
  /\ OldCount \in [Blogs -> Int]
  /\ \A b \in Blogs : OldCount[b] \in {Absent, OldLiked[b]}
  /\ \A b \in Blogs : IsFiniteSet(OldLikes[b]) /\ Cardinality(OldLikes[b]) =< OldLiked[b]

ASSUME BoundsAssumption ==
  /\ BatchSize \in Nat \ {0} /\ ReconcileBatch \in Nat \ {0}
  /\ DbFaults \in Nat /\ RedisFaults \in Nat /\ LeaseLosses \in Nat /\ Crashes \in Nat

VARIABLES
  likes,        \* blog:liked:{blog}, the users who like it
  count,        \* blog:liked:count
  baseline,     \* blog:liked:baseline
  delta,        \* blog:liked:delta, 0 where the field is absent
  dirty,        \* blog:liked:dirty, in the order of its scores
  processing,   \* blog:liked:delta:processing, 0 where the field is absent
  batch,        \* blog:liked:delta:processing:batch
  tracked,      \* blog:liked:reconcile, in the order of its scores
  liked,        \* tb_blog.liked
  applied,      \* batch ids in tb_blog_like_sync_batch
  lock,         \* the Redisson locks of the two jobs
  seed,         \* blog and tb_blog.liked as read by a request of the user
  pc,           \* next call of the scheduler thread of each instance
  id,           \* its batch id
  deltas,       \* the net changes it has read
  due,          \* the blogs it reconciles
  todo,         \* those it has not reached yet
  counts,       \* their counts, as read
  candidates,   \* batch records it may delete
  faults        \* faults that may still happen, by kind

redis == <<likes, count, baseline, delta, dirty, processing, batch, tracked>>
db == <<liked, applied>>
work == <<id, deltas, due, todo, counts, candidates>>
thread == <<pc, work>>
vars == <<redis, db, lock, seed, thread, faults>>

Locks == {"flush", "reconcile"}

Pc == {"idle", "claim", "read", "apply", "ack", "ackEmpty", "find", "prepare",
       "overwrite", "rotate", "delete", "unlockFlush", "unlockReconcile"}

NoDelta == [b \in Blogs |-> 0]
NoCounts == [b \in Blogs |-> Absent]

\* Ids that no record, no snapshot and no thread holds: a new UUID.
NewIds ==
  Batches \ (applied \cup {batch} \cup UNION {{id[i]} \cup candidates[i] : i \in Instances})

Spend(kind) ==
  /\ faults[kind] > 0
  /\ faults' = [faults EXCEPT ![kind] = @ - 1]

-----------------------------------------------------------------------------
Init ==
  /\ likes = OldLikes /\ count = OldCount
  /\ baseline = NoCounts
  /\ delta = NoDelta /\ dirty = <<>>
  /\ processing = NoDelta /\ batch = NoBatch
  /\ tracked = <<>>
  /\ liked = OldLiked /\ applied = {}
  /\ lock = [l \in Locks |-> Free]
  /\ seed = [u \in Users |-> NoRequest]
  /\ pc = [i \in Instances |-> "idle"]
  /\ id = [i \in Instances |-> NoBatch]
  /\ deltas = [i \in Instances |-> NoDelta]
  /\ due = [i \in Instances |-> <<>>] /\ todo = [i \in Instances |-> <<>>]
  /\ counts = [i \in Instances |-> NoCounts]
  /\ candidates = [i \in Instances |-> {}]
  /\ faults = [db |-> DbFaults, redis |-> RedisFaults, lease |-> LeaseLosses, crash |-> Crashes]

-----------------------------------------------------------------------------
\* likeBlog and blog_like.lua.

\* ZREM: a blog has one place in a queue at most.
Without(queue, b) ==
  IF b \in ToSet(queue)
    THEN RemoveAt(queue, CHOOSE k \in DOMAIN queue : queue[k] = b)
    ELSE queue

\* Defect: a blog whose changes cancel out stays in the queue.
MarkDirty_Stays(b, net) ==
  dirty' = IF b \in ToSet(dirty) THEN dirty ELSE Append(dirty, b)

\* Defect: the blog that changed last comes first.
MarkDirty_First(b, net) ==
  dirty' = CASE net = 0 -> Without(dirty, b)
             [] net # 0 /\ b \in ToSet(dirty) -> dirty
             [] OTHER -> <<b>> \o dirty

\* The queue keeps the place of a blog's first unflushed change.
MarkDirty(b, net) ==
  dirty' = CASE net = 0 -> Without(dirty, b)
             [] net # 0 /\ b \in ToSet(dirty) -> dirty
             [] OTHER -> Append(dirty, b)

NotNegative(n) == IF n < 0 THEN 0 ELSE n

\* Defect: the value a request has read replaces the count that is there.
CurrentLiked_Reseeds(b, initial) ==
  IF initial = Absent THEN count[b] ELSE initial

\* The count before the click: a blog without one starts from the database.
CurrentLiked(b, initial) ==
  CASE count[b] # Absent -> count[b]
    [] count[b] = Absent /\ initial < Cardinality(likes[b]) -> Cardinality(likes[b])
    [] OTHER -> initial

\* The script; the baseline stands for the likes that are not in the ZSET.
ToggleLike(u, b, initial) ==
  LET current == CurrentLiked(b, initial)
      change == IF u \in likes[b] THEN -1 ELSE 1
  IN
  /\ likes' = [likes EXCEPT ![b] = IF u \in @ THEN @ \ {u} ELSE @ \cup {u}]
  /\ count' = [count EXCEPT ![b] = NotNegative(current + change)]
  /\ baseline' = [baseline EXCEPT ![b] =
                    IF @ = Absent THEN NotNegative(current - Cardinality(likes[b])) ELSE @]
  /\ delta' = [delta EXCEPT ![b] = @ + change]
  /\ MarkDirty(b, delta[b] + change)
  /\ tracked' = IF b \in ToSet(tracked) THEN tracked ELSE <<b>> \o tracked
  /\ UNCHANGED <<processing, batch>>

\* likeBlog when Redis has the count: one script.
Like(u, b) ==
  /\ seed[u] = NoRequest
  /\ count[b] # Absent
  /\ ToggleLike(u, b, Absent)
  /\ UNCHANGED <<db, lock, seed, thread, faults>>

\* likeBlog when it has not: the request reads the database ...
ReadLiked(u, b) ==
  /\ seed[u] = NoRequest
  /\ count[b] = Absent
  /\ seed' = [seed EXCEPT ![u] = [blog |-> b, liked |-> liked[b]]]
  /\ UNCHANGED <<redis, db, lock, thread, faults>>

\* ... and calls the script again.
LikeSeeded(u) ==
  /\ seed[u] # NoRequest
  /\ ToggleLike(u, seed[u].blog, seed[u].liked)
  /\ seed' = [seed EXCEPT ![u] = NoRequest]
  /\ UNCHANGED <<db, lock, thread, faults>>

-----------------------------------------------------------------------------
\* Control flow of the scheduler thread.

Goto(i, next) == pc' = [pc EXCEPT ![i] = next]

\* What the thread has read is gone when its job returns.
Forget(i) ==
  /\ id' = [id EXCEPT ![i] = NoBatch]
  /\ deltas' = [deltas EXCEPT ![i] = NoDelta]
  /\ due' = [due EXCEPT ![i] = <<>>]
  /\ todo' = [todo EXCEPT ![i] = <<>>]
  /\ counts' = [counts EXCEPT ![i] = NoCounts]
  /\ candidates' = [candidates EXCEPT ![i] = {}]

\* The way out of a job: its finally block, if it has one.
Leave(i) ==
  /\ Goto(i, CASE pc[i] \in {"claim", "read", "apply", "ack", "ackEmpty"} -> "unlockFlush"
               [] pc[i] \in {"find", "prepare", "overwrite", "rotate"} -> "unlockReconcile"
               [] OTHER -> "idle")
  /\ Forget(i)

\* A call was executed: the thread goes on, or the reply is lost and the
\* exception ends the job.
Reply(i, kind, goOn) ==
  \/ goOn /\ UNCHANGED faults
  \/ Spend(kind) /\ Leave(i)

\* A call was not executed and raised an exception.
CallFails(i) ==
  /\ pc[i] # "idle"
  /\ Spend(IF pc[i] \in {"apply", "overwrite", "delete"} THEN "db" ELSE "redis")
  /\ Leave(i)
  /\ UNCHANGED <<redis, db, lock, seed>>

TryLock(i, l) ==
  /\ lock[l] \in {Free, i}
  /\ lock' = [lock EXCEPT ![l] = i]

\* unlockIfHeld
Unlock(i) ==
  LET l == IF pc[i] = "unlockFlush" THEN "flush" ELSE "reconcile" IN
  /\ pc[i] \in {"unlockFlush", "unlockReconcile"}
  /\ lock' = [lock EXCEPT ![l] = IF @ = i THEN Free ELSE @]
  /\ Reply(i, "redis", Leave(i))
  /\ UNCHANGED <<redis, db, seed>>

-----------------------------------------------------------------------------
\* flushPendingDeltas.

StartFlush(i) ==
  /\ pc[i] = "idle"
  /\ TryLock(i, "flush")
  /\ \/ /\ Goto(i, "claim")
        /\ \E new \in NewIds : id' = [id EXCEPT ![i] = new]
        /\ UNCHANGED <<deltas, due, todo, counts, candidates, faults>>
     \/ Spend("redis") /\ UNCHANGED thread
  /\ UNCHANGED <<redis, db, seed>>

\* The changes that wait once those of the blogs taken are in the snapshot.
Waiting(taken) == [b \in Blogs |-> IF b \in taken THEN 0 ELSE delta[b]]

\* claim_blog_like_delta.lua: the active batch, else the oldest dirty blogs.
ClaimDelta(i) ==
  LET n == IF Len(dirty) < BatchSize THEN Len(dirty) ELSE BatchSize
      taken == ToSet(SubSeq(dirty, 1, n))
  IN
  /\ pc[i] = "claim"
  /\ IF batch # NoBatch
       THEN /\ Reply(i, "redis", /\ Goto(i, "read")
                                 /\ id' = [id EXCEPT ![i] = batch]
                                 /\ UNCHANGED <<deltas, due, todo, counts, candidates>>)
            /\ UNCHANGED redis
       ELSE /\ dirty' = SubSeq(dirty, n + 1, Len(dirty))
            /\ processing' = [b \in Blogs |-> IF b \in taken THEN delta[b] ELSE 0]
            /\ delta' = Waiting(taken)
            /\ batch' = IF taken = {} THEN NoBatch ELSE id[i]
            /\ Reply(i, "redis", IF taken = {} THEN Leave(i)
                                 ELSE Goto(i, "read") /\ UNCHANGED work)
            /\ UNCHANGED <<likes, count, baseline, tracked>>
  /\ UNCHANGED <<db, lock, seed>>

\* read_blog_like_delta.lua
ReadDelta(i) ==
  /\ pc[i] = "read"
  /\ IF batch = id[i] /\ processing # NoDelta
       THEN Goto(i, "apply") /\ deltas' = [deltas EXCEPT ![i] = processing]
       ELSE Goto(i, "ackEmpty") /\ UNCHANGED deltas
  /\ UNCHANGED <<redis, db, lock, seed, id, due, todo, counts, candidates, faults>>

\* applyDeltaBatch, one transaction; the batch record makes it idempotent.
ApplyBatch(i) ==
  /\ pc[i] = "apply"
  /\ applied' = applied \cup {id[i]}
  /\ liked' = IF id[i] \in applied
                THEN liked
                ELSE [b \in Blogs |-> NotNegative(liked[b] + deltas[i][b])]
  /\ Reply(i, "db", Goto(i, "ack") /\ UNCHANGED work)
  /\ UNCHANGED <<redis, lock, seed>>

\* Defect: the snapshot is deleted without comparing the batch id.
AckBatch_Unchecked(i) ==
  /\ pc[i] \in {"ack", "ackEmpty"}
  /\ batch' = NoBatch /\ processing' = NoDelta
  /\ Reply(i, "redis", Leave(i))
  /\ UNCHANGED <<likes, count, baseline, delta, dirty, tracked, db, lock, seed>>

\* Defect: only one of the two keys is deleted.
AckBatch_KeepsId(i) ==
  /\ pc[i] \in {"ack", "ackEmpty"}
  /\ processing' = IF batch = id[i] THEN NoDelta ELSE processing
  /\ Reply(i, "redis", Leave(i))
  /\ UNCHANGED <<likes, count, baseline, delta, dirty, batch, tracked, db, lock, seed>>

\* ack_blog_like_delta.lua
AckBatch(i) ==
  /\ pc[i] \in {"ack", "ackEmpty"}
  /\ IF batch = id[i]
       THEN batch' = NoBatch /\ processing' = NoDelta
       ELSE UNCHANGED <<batch, processing>>
  /\ Reply(i, "redis", Leave(i))
  /\ UNCHANGED <<likes, count, baseline, delta, dirty, tracked, db, lock, seed>>

-----------------------------------------------------------------------------
\* reconcileLikeCounts.

StartReconcile(i) ==
  /\ pc[i] = "idle" /\ i \in Reconcilers
  /\ TryLock(i, "reconcile")
  /\ \/ Goto(i, "find") /\ UNCHANGED faults
     \/ Spend("redis") /\ UNCHANGED pc
  /\ UNCHANGED <<redis, db, seed, work>>

\* rangeByScore: the blogs that were not reconciled lately come first; `n` of
\* them are due.
FindDue(i, n) ==
  LET ids == SubSeq(tracked, 1, n) IN
  /\ pc[i] = "find"
  /\ n =< Len(tracked) /\ n =< ReconcileBatch
  /\ IF n = 0
       THEN Leave(i)
       ELSE /\ Goto(i, "prepare")
            /\ due' = [due EXCEPT ![i] = ids]
            /\ todo' = [todo EXCEPT ![i] = ids]
            /\ UNCHANGED <<id, deltas, counts, candidates>>
  /\ UNCHANGED <<redis, db, lock, seed, faults>>

\* Defect: the script does not look at the snapshot that is being flushed.
Settled_IgnoresProcessing(b) == delta[b] = 0 /\ baseline[b] # Absent

\* No change of the blog is on its way to the database.
Settled(b) == delta[b] = 0 /\ processing[b] = 0 /\ baseline[b] # Absent

\* Defect: a blog that cannot be reconciled now keeps its place in the queue.
AfterPrepare_NoRotation(i, read) ==
  Goto(i, IF read = NoCounts THEN "unlockReconcile" ELSE "overwrite")

\* The database is written if there is something to write; either way the
\* blogs go to the end of the queue.
AfterPrepare(i, read) ==
  Goto(i, IF read = NoCounts THEN "rotate" ELSE "overwrite")

\* reconcile_blog_like.lua, for one blog.
PrepareReconciliation(i) ==
  LET b == Head(todo[i])
      expected == baseline[b] + Cardinality(likes[b])
      read == IF Settled(b) THEN [counts[i] EXCEPT ![b] = expected] ELSE counts[i]
      last == Len(todo[i]) = 1
  IN
  /\ pc[i] = "prepare"
  /\ count' = IF Settled(b) THEN [count EXCEPT ![b] = expected] ELSE count
  /\ Reply(i, "redis",
       /\ counts' = [counts EXCEPT ![i] = read]
       /\ todo' = [todo EXCEPT ![i] = IF last THEN due[i] ELSE Tail(@)]
       /\ IF last THEN AfterPrepare(i, read) ELSE Goto(i, "prepare")
       /\ UNCHANGED <<id, deltas, due, candidates>>)
  /\ UNCHANGED <<likes, baseline, delta, dirty, processing, batch, tracked, db, lock, seed>>

\* Defect: blogs without a reading are written as well.
Overwrite_All(i) ==
  /\ pc[i] = "overwrite"
  /\ liked' = counts[i]
  /\ Reply(i, "db", Goto(i, "rotate") /\ UNCHANGED work)
  /\ UNCHANGED <<redis, applied, lock, seed>>

\* batchReconcileLiked, one transaction.
Overwrite(i) ==
  /\ pc[i] = "overwrite"
  /\ liked' = [b \in Blogs |-> IF counts[i][b] = Absent THEN liked[b] ELSE counts[i][b]]
  /\ Reply(i, "db", Goto(i, "rotate") /\ UNCHANGED work)
  /\ UNCHANGED <<redis, applied, lock, seed>>

\* markReconciled, for one blog.
Rotate(i) ==
  LET b == Head(todo[i])
      last == Len(todo[i]) = 1
  IN
  /\ pc[i] = "rotate"
  /\ tracked' = Append(Without(tracked, b), b)
  /\ Reply(i, "redis",
       IF last
         THEN Leave(i)
         ELSE /\ todo' = [todo EXCEPT ![i] = Tail(@)]
              /\ UNCHANGED <<pc, id, deltas, due, counts, candidates>>)
  /\ UNCHANGED <<likes, count, baseline, delta, dirty, processing, batch, db, lock, seed>>

-----------------------------------------------------------------------------
\* cleanExpiredSyncLogs.

\* The records that are there when the job reads the active batch id.
Deletable == applied \ {batch}

StartCleanup(i) ==
  /\ pc[i] = "idle"
  /\ Goto(i, "delete")
  /\ candidates' = [candidates EXCEPT ![i] = Deletable]
  /\ UNCHANGED <<redis, db, lock, seed, id, deltas, due, todo, counts, faults>>

\* Those of them that are older than the retention.  No flush takes that long.
DeleteBatches(i, old) ==
  /\ pc[i] = "delete"
  /\ old \subseteq candidates[i] \ {id[j] : j \in Instances}
  /\ applied' = applied \ old
  /\ Reply(i, "db", Leave(i))
  /\ UNCHANGED <<redis, liked, lock, seed>>

-----------------------------------------------------------------------------
\* A lock runs out: its process has died, or was paused for too long.
LeaseExpires(l) ==
  /\ lock[l] # Free
  /\ IF lock[l] = Orphan THEN UNCHANGED faults ELSE Spend("lease")
  /\ lock' = [lock EXCEPT ![l] = Free]
  /\ UNCHANGED <<redis, db, seed, thread>>

\* An instance dies and is started again.
Crash(i) ==
  /\ Spend("crash")
  /\ Goto(i, "idle") /\ Forget(i)
  /\ lock' = [l \in Locks |-> IF lock[l] = i THEN Orphan ELSE lock[l]]
  /\ UNCHANGED <<redis, db, seed>>

Flush(i) == ClaimDelta(i) \/ ReadDelta(i) \/ ApplyBatch(i) \/ AckBatch(i)

Reconcile(i) ==
  \/ \E n \in 0..ReconcileBatch : FindDue(i, n)
  \/ PrepareReconciliation(i) \/ Overwrite(i) \/ Rotate(i)

Next ==
  \/ \E u \in Users : LikeSeeded(u) \/ \E b \in Blogs : Like(u, b) \/ ReadLiked(u, b)
  \/ \E i \in Instances :
       \/ StartFlush(i) \/ StartReconcile(i) \/ StartCleanup(i)
       \/ Flush(i) \/ Reconcile(i) \/ \E old \in SUBSET Batches : DeleteBatches(i, old)
       \/ Unlock(i) \/ CallFails(i) \/ Crash(i)
  \/ \E l \in Locks : LeaseExpires(l)

Spec == Init /\ [][Next]_vars

\* The jobs are scheduled again and again, every tracked blog and every batch
\* record grows old, orphaned locks run out.
Fairness ==
  /\ \A i \in Instances :
       /\ WF_vars(Flush(i) \/ Reconcile(i) \/ Unlock(i) \/ DeleteBatches(i, {}))
       /\ SF_vars(StartFlush(i)) /\ SF_vars(StartReconcile(i)) /\ SF_vars(StartCleanup(i))
       /\ \A n \in 1..ReconcileBatch : SF_vars(FindDue(i, n))
       /\ SF_vars(\E old \in SUBSET Batches : old # {} /\ DeleteBatches(i, old))
  /\ \A l \in Locks : WF_vars(LeaseExpires(l) /\ lock[l] = Orphan)

FairSpec == Spec /\ Fairness

-----------------------------------------------------------------------------
\* Properties.

\* The types: counters in the database never go below zero, and what the threads
\* and the queues hold are blogs and batches.
TypeOK ==
  /\ likes \in [Blogs -> SUBSET Users]
  /\ count \in [Blogs -> Int] /\ baseline \in [Blogs -> Int]
  /\ delta \in [Blogs -> Int] /\ processing \in [Blogs -> Int]
  /\ dirty \in Seq(Blogs) /\ tracked \in Seq(Blogs)
  /\ batch \in Batches \cup {NoBatch}
  /\ liked \in [Blogs -> Nat]
  /\ applied \subseteq Batches
  /\ lock \in [Locks -> Instances \cup {Free, Orphan}]
  /\ seed \in [Users -> [blog : Blogs, liked : Nat] \cup {NoRequest}]
  /\ pc \in [Instances -> Pc]
  /\ id \in [Instances -> Batches \cup {NoBatch}]
  /\ deltas \in [Instances -> [Blogs -> Int]]
  /\ due \in [Instances -> Seq(Blogs)] /\ todo \in [Instances -> Seq(Blogs)]
  /\ counts \in [Instances -> [Blogs -> Int]]
  /\ candidates \in [Instances -> SUBSET Batches]
  /\ faults \in [{"db", "redis", "lease", "crash"} -> Nat]

\* The part of a blog's active snapshot that the database does not have.
Unapplied(b) == IF batch \in applied THEN 0 ELSE processing[b]

\* What the database has to show: the likes, without the changes on their way to it.
Owed(b) == baseline[b] + Cardinality(likes[b]) - delta[b] - Unapplied(b)

Exact(b) == baseline[b] # Absent => liked[b] = Owed(b)

\* No like is lost and none is counted twice: what the database shows and
\* what is on its way to it add up to the likes there are.
BacklogExact == \A b \in Blogs : Exact(b)

\* The count that pages show is the number of likes, old and new.
CountExact ==
  \A b \in Blogs : baseline[b] # Absent => count[b] = baseline[b] + Cardinality(likes[b])

\* A change that waits is in the queue, once, and a snapshot has a batch id:
\* nothing is left where no flush looks for it.
QueueExact ==
  /\ ToSet(dirty) = {b \in Blogs : delta[b] # 0} /\ IsInjective(dirty)
  /\ ToSet(tracked) = {b \in Blogs : baseline[b] # Absent} /\ IsInjective(tracked)
  /\ batch = NoBatch <=> processing = NoDelta

\* A reconciliation that runs beside nothing finds nothing to repair.
RepairsNothing ==
  [][\A i \in Instances : pc[i] = "overwrite" /\ pc'[i] = "rotate" => liked' = liked]_vars

\* A blog with changes is flushed however busy the other blogs are.
EveryChangeIsFlushed ==
  \A b \in Blogs : b \in ToSet(dirty) ~> b \notin ToSet(dirty)

\* Every tracked blog gets its turn to be reconciled.
EveryBlogIsReconciled ==
  \A b \in Blogs : b \in ToSet(tracked) ~>
    \E i \in Instances : pc[i] = "prepare" /\ b = Head(todo[i])

\* Once nobody clicks any more the database comes to agree with Redis, even
\* after a reconciliation has overwritten it with an outdated count.
Converges ==
  <>[][UNCHANGED likes]_vars =>
    <>[](\A b \in Blogs : baseline[b] # Absent => liked[b] = baseline[b] + Cardinality(likes[b]))

===============================================================================
