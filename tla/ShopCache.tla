------------------------------- MODULE ShopCache ------------------------------
(***************************************************************************)
(* The cache of one shop: queries that initialise a missing entry or have  *)
(* an expired one rebuilt in the background (CacheClient), and updates     *)
(* that delete the entry after their commit (ShopServiceImpl.update).      *)
(* The value of the shop is its version; 0 is a shop that does not exist,  *)
(* and the blank entry that says so.                                       *)
(***************************************************************************)
EXTENDS Integers, Sequences

CONSTANTS
  Readers,        \* threads of the web server, querying
  Workers,        \* threads of the rebuild pool
  Updaters,       \* threads of the web server, updating
  QueueSize,      \* of the rebuild pool
  FirstVersion,   \* the version the shop has at first
  MaxVersion,     \* bound on the versions
  MaxFaults,      \* bound on the faults
  Free, Orphan

ASSUME SizesAssumption ==
  /\ QueueSize \in Nat \ {0} /\ MaxFaults \in Nat
  /\ MaxVersion \in Nat \ {0} /\ FirstVersion \in 0..MaxVersion
ASSUME ThreadsAssumption ==
  /\ Readers \cap Workers = {}
  /\ Free \notin Readers \cup Workers /\ Orphan \notin Readers \cup Workers

Threads == Readers \cup Workers

Missing == -1

VARIABLES
  db,             \* the committed version
  cache, fresh,   \* the entry, and whether its logical expiry is to come
  lock,           \* lock:shop:
  queue,          \* the rebuilds that wait for a worker
  pc, seen,       \* of each reader and worker: next call, the version it has loaded
  step,           \* of each updater: the number of its steps done
  faults,
  newest,         \* history: the newest version the cache has had
  raced,          \* history: the entry was loaded before a commit, or not deleted
  overrun         \* history: a thread has been slower than the lease of its lock

history == <<newest, raced, overrun>>
vars == <<db, cache, fresh, lock, queue, pc, seen, step, faults, history>>

Init ==
  /\ db = FirstVersion
  /\ cache = Missing /\ fresh = FALSE
  /\ lock = Free /\ queue = 0
  /\ pc = [t \in Threads |-> "idle"] /\ seen = [t \in Threads |-> 0]
  /\ step = [u \in Updaters |-> 0]
  /\ faults = MaxFaults
  /\ newest = 0 /\ raced = FALSE /\ overrun = FALSE

Fault ==
  /\ faults > 0
  /\ faults' = faults - 1

Goto(t, next) == pc' = [pc EXCEPT ![t] = next]

-----------------------------------------------------------------------------
\* queryWithLogicalExpire

\* A hit, fresh or blank, needs nothing; a miss initialises the entry.
QueryHitOrMiss(r) ==
  /\ pc[r] = "idle"
  /\ cache = Missing
  /\ Goto(r, "lock")
  /\ UNCHANGED <<db, cache, fresh, lock, queue, seen, step, faults, history>>

\* Defect: the queue is not bounded.
Accepted_Always == TRUE

Accepted == queue < QueueSize

\* scheduleRebuild: a full queue rejects, and the old value is returned all the same.
QueryExpired(r) ==
  /\ pc[r] = "idle"
  /\ cache > 0 /\ ~fresh
  /\ Accepted
  /\ queue' = queue + 1
  /\ UNCHANGED <<db, cache, fresh, lock, pc, seen, step, faults, history>>

\* initializeMissingCache: who does not get the lock returns what is there by then.
LockMiss(r) ==
  /\ pc[r] = "lock"
  /\ \/ lock = Free /\ lock' = r /\ Goto(r, "check")
     \/ lock # Free /\ UNCHANGED lock /\ Goto(r, "idle")
  /\ UNCHANGED <<db, cache, fresh, queue, seen, step, faults, history>>

\* Defect: a rebuild does not ask for the lock.
MayRebuild_Always == TRUE

MayRebuild == lock = Free

\* rebuildIfNecessary of a worker
StartRebuild(w) ==
  /\ pc[w] = "idle"
  /\ queue > 0
  /\ queue' = queue - 1
  /\ \/ MayRebuild /\ lock' = w /\ Goto(w, "check")
     \/ ~MayRebuild /\ UNCHANGED <<lock, pc>>
  /\ UNCHANGED <<db, cache, fresh, seen, step, faults, history>>

\* The second look: a reader is content with any entry, a worker with a fresh one.
Present(t) == IF t \in Readers THEN cache # Missing ELSE cache > 0 /\ fresh

Check(t) ==
  /\ pc[t] = "check"
  /\ Goto(t, IF Present(t) THEN "unlock" ELSE "load")
  /\ UNCHANGED <<db, cache, fresh, lock, queue, seen, step, faults, history>>

Load(t) ==
  /\ pc[t] = "load"
  /\ seen' = [seen EXCEPT ![t] = db]
  /\ Goto(t, "write")
  /\ UNCHANGED <<db, cache, fresh, lock, queue, step, faults, history>>

\* setWithLogicalExpire, or the blank entry
Write(t) ==
  /\ pc[t] = "write"
  /\ cache' = seen[t] /\ fresh' = TRUE
  /\ newest' = IF seen[t] > newest THEN seen[t] ELSE newest
  /\ raced' = (seen[t] # db)
  /\ seen' = [seen EXCEPT ![t] = 0]
  /\ Goto(t, "unlock")
  /\ UNCHANGED <<db, lock, queue, step, faults, overrun>>

\* unlock, unless the lease has run out.
Release(t) == lock' = IF lock = t THEN Free ELSE lock

Unlock(t) ==
  /\ pc[t] = "unlock"
  /\ Release(t)
  /\ Goto(t, "idle")
  /\ UNCHANGED <<db, cache, fresh, queue, seen, step, faults, history>>

\* A call fails, and finally unlocks; or the unlock fails, or the process dies.
Fails(t) ==
  /\ pc[t] # "idle"
  /\ Fault
  /\ Release(t) \/ (lock = t /\ lock' = Orphan)
  /\ seen' = [seen EXCEPT ![t] = 0]
  /\ Goto(t, "idle")
  /\ UNCHANGED <<db, cache, fresh, queue, step, history>>

\* The lease of a lock nobody will release runs out.
LeaseExpires ==
  /\ lock = Orphan
  /\ lock' = Free
  /\ UNCHANGED <<db, cache, fresh, queue, pc, seen, step, faults, history>>

\* A thread is slower than the lease of its lock.
LeaseLost ==
  /\ lock \in Threads
  /\ Fault
  /\ lock' = Free /\ overrun' = TRUE
  /\ UNCHANGED <<db, cache, fresh, queue, pc, seen, step, newest, raced>>

-----------------------------------------------------------------------------
\* update

\* Defect: the entry is deleted in the transaction.
UpdateSteps_DeleteFirst == <<"delete", "commit">>

UpdateSteps == <<"commit", "delete">>

NextStep(u) == UpdateSteps[step[u] + 1]
Advance(u) == step' = [step EXCEPT ![u] = (@ + 1) % Len(UpdateSteps)]

Commit(u) ==
  /\ NextStep(u) = "commit"
  /\ db > 0 /\ db < MaxVersion
  /\ db' = db + 1
  /\ Advance(u)
  /\ UNCHANGED <<cache, fresh, lock, queue, pc, seen, faults, history>>

Delete(u) ==
  /\ NextStep(u) = "delete"
  /\ cache' = Missing /\ fresh' = FALSE
  /\ raced' = FALSE
  /\ Advance(u)
  /\ UNCHANGED <<db, lock, queue, pc, seen, faults, newest, overrun>>

DeleteFails(u) ==
  /\ NextStep(u) = "delete"
  /\ Fault
  /\ raced' = TRUE
  /\ Advance(u)
  /\ UNCHANGED <<db, cache, fresh, lock, queue, pc, seen, newest, overrun>>

\* ShopController.saveShop: a new shop does not touch the cache.
SaveShop ==
  /\ db = 0
  /\ db' = 1
  /\ UNCHANGED <<cache, fresh, lock, queue, pc, seen, step, faults, history>>

-----------------------------------------------------------------------------
\* Time.

\* Defect: a blank entry does not expire.
Expirable_Value == cache > 0 /\ fresh

Expirable == cache = 0 \/ (cache > 0 /\ fresh)

\* The logical expiry of a value, the physical expiry of a blank entry.
Expire ==
  /\ Expirable
  /\ cache' = IF cache = 0 THEN Missing ELSE cache
  /\ fresh' = FALSE
  /\ UNCHANGED <<db, lock, queue, pc, seen, step, faults, history>>

-----------------------------------------------------------------------------
Query(r) == QueryHitOrMiss(r) \/ QueryExpired(r)

Run(t) == Check(t) \/ Load(t) \/ Write(t) \/ Unlock(t)

Next ==
  \/ \E r \in Readers : Query(r) \/ LockMiss(r)
  \/ \E w \in Workers : StartRebuild(w)
  \/ \E t \in Threads : Run(t) \/ Fails(t)
  \/ \E u \in Updaters : Commit(u) \/ Delete(u) \/ DeleteFails(u)
  \/ SaveShop \/ LeaseExpires \/ LeaseLost \/ Expire

Spec == Init /\ [][Next]_vars

\* Threads run, somebody queries the shop again and again, time passes.
Fairness ==
  /\ \A r \in Readers : SF_vars(Query(r)) /\ SF_vars(LockMiss(r) /\ lock = Free)
  /\ \A w \in Workers : WF_vars(StartRebuild(w))
  /\ \A t \in Threads : WF_vars(Run(t))
  /\ \A u \in Updaters : WF_vars(Delete(u))
  /\ WF_vars(LeaseExpires) /\ WF_vars(Expire)

FairSpec == Spec /\ Fairness

-----------------------------------------------------------------------------
\* Properties.

TypeOK ==
  /\ db \in 0..MaxVersion
  /\ cache \in 0..MaxVersion \cup {Missing} /\ fresh \in BOOLEAN
  /\ cache = Missing => ~fresh
  /\ lock \in Threads \cup {Free, Orphan} /\ queue \in 0..QueueSize
  /\ pc \in [Threads -> {"idle", "lock", "check", "load", "write", "unlock"}]
  /\ seen \in [Threads -> 0..MaxVersion]
  /\ step \in [Updaters -> 0..1]
  /\ faults \in 0..MaxFaults /\ newest \in 0..MaxVersion /\ raced \in BOOLEAN /\ overrun \in BOOLEAN

\* An old value stays in the cache only when a loader has read it before the commit
\* and written it after the deletion, or the deletion has failed; the order of commit
\* and deletion leaves no other way.
StaleIsRaced ==
  cache > 0 /\ cache # db => raced \/ \E u \in Updaters : step[u] # 0

\* The cache never goes back to an older version than it has had, until a loader
\* has outlived the lease of its lock.
NeverGoesBack ==
  [][\A t \in Threads : Write(t) => seen[t] >= newest \/ overrun]_vars

\* Whatever is raced, rejected or fails, the cache agrees with the database in the end.
Converges == <>[](cache \in {Missing, db})
===============================================================================
