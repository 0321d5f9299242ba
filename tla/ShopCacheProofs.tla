----------------------------- MODULE ShopCacheProofs -----------------------------
(***************************************************************************)
(* Safety of the shop cache for any number of readers, workers, updaters,  *)
(* versions and faults.                                                    *)
(***************************************************************************)
EXTENDS ShopCache, TLAPS

\* Whatever has been loaded was committed.
OldOrCurrent ==
  /\ cache <= db /\ newest <= db
  /\ \A t \in Threads : seen[t] <= db

\* Between the second look and the unlock a thread has the lock, unless one has been
\* slower than its lease; what it is about to write is no older than the cache was.
AtWork == {"check", "load", "write", "unlock"}

OneLoader ==
  ~overrun => \A t \in Threads :
    /\ pc[t] \in AtWork => lock = t
    /\ pc[t] = "write" => newest <= seen[t]

Inv == TypeOK /\ OldOrCurrent /\ StaleIsRaced /\ OneLoader

LEMMA InvInit == Init => Inv
<1> SUFFICES ASSUME Init PROVE Inv
  OBVIOUS
<1>1. TypeOK
  <2>1. /\ db \in 0..MaxVersion /\ newest \in 0..MaxVersion /\ cache = Missing /\ queue \in 0..QueueSize
        /\ faults \in 0..MaxFaults /\ lock = Free /\ ~fresh
    BY SizesAssumption DEF Init
  <2>2. /\ pc \in [Threads -> {"idle", "lock", "check", "load", "write", "unlock"}]
        /\ seen \in [Threads -> 0..MaxVersion] /\ step \in [Updaters -> 0..1]
    BY SizesAssumption DEF Init
  <2>3. fresh \in BOOLEAN /\ raced \in BOOLEAN /\ overrun \in BOOLEAN
    BY DEF Init
  <2> QED  BY <2>1, <2>2, <2>3 DEF TypeOK
<1>2. OldOrCurrent
  BY SizesAssumption DEF Init, OldOrCurrent, Missing
<1>3. StaleIsRaced
  BY DEF Init, StaleIsRaced, Missing
<1>4. OneLoader
  BY DEF Init, OneLoader, AtWork
<1> QED  BY <1>1, <1>2, <1>3, <1>4 DEF Inv

LEMMA TypeNext ==
  ASSUME TypeOK, [Next]_vars
  PROVE  TypeOK'
<1> USE SizesAssumption DEF TypeOK
<1>1. ASSUME NEW t \in Threads, Query(t) \/ LockMiss(t)
      PROVE  TypeOK'
  BY <1>1 DEF Query, QueryHitOrMiss, QueryExpired, Accepted, LockMiss, Goto, history
<1>2. ASSUME NEW t \in Threads, StartRebuild(t)
      PROVE  TypeOK'
  BY <1>2 DEF StartRebuild, Goto, history
<1>3. ASSUME NEW t \in Threads, Run(t)
      PROVE  TypeOK'
  <2>1. CASE Check(t)
    BY <1>3, <2>1 DEF Check, Goto, history
  <2>2. CASE Load(t)
    BY <1>3, <2>2 DEF Load, Goto, history
  <2>3. CASE Write(t)
    BY <1>3, <2>3 DEF Write, Goto, Missing
  <2>4. CASE Unlock(t)
    BY <1>3, <2>4 DEF Unlock, Release, Goto, history
  <2> QED  BY <1>3, <2>1, <2>2, <2>3, <2>4 DEF Run
<1>f. ASSUME Fault
      PROVE  faults' \in 0..MaxFaults
  BY <1>f DEF Fault
<1>4. ASSUME NEW t \in Threads, Fails(t)
      PROVE  TypeOK'
  <2>1. lock' \in Threads \cup {Free, Orphan} /\ faults' \in 0..MaxFaults
    BY <1>4, <1>f DEF Fails, Release
  <2> QED  BY <1>4, <2>1 DEF Fails, Goto, history
<1>5. ASSUME NEW u \in Updaters, Commit(u) \/ Delete(u) \/ DeleteFails(u)
      PROVE  TypeOK'
  <2>1. step' \in [Updaters -> 0..1]
    <3>1. Advance(u) /\ Len(UpdateSteps) = 2
      BY <1>5 DEF Commit, Delete, DeleteFails, UpdateSteps
    <3>2. (step[u] + 1) % 2 \in 0..1
      OBVIOUS
    <3> QED  BY <3>1, <3>2 DEF Advance
  <2>2. CASE Commit(u)
    BY <2>1, <2>2 DEF Commit, history
  <2>3. CASE Delete(u)
    BY <2>1, <2>3 DEF Delete, Missing
  <2>4. CASE DeleteFails(u)
    BY <1>f, <2>1, <2>4 DEF DeleteFails
  <2> QED  BY <1>5, <2>2, <2>3, <2>4
<1>6. SaveShop \/ LeaseExpires => TypeOK'
  BY DEF SaveShop, LeaseExpires, history
<1>9. Expire => TypeOK'
  BY DEF Expire, Expirable, history, Missing
<1>8. LeaseLost => TypeOK'
  BY <1>f DEF LeaseLost
<1>7. UNCHANGED vars => TypeOK'
  BY DEF vars, history
<1> QED  BY <1>1, <1>2, <1>3, <1>4, <1>5, <1>6, <1>7, <1>8, <1>9 DEF Next, Threads

LEMMA OldOrCurrentNext ==
  ASSUME TypeOK, OldOrCurrent, [Next]_vars
  PROVE  OldOrCurrent'
<1> USE DEF TypeOK, OldOrCurrent
<1>1. ASSUME NEW t \in Threads, Query(t) \/ LockMiss(t) \/ StartRebuild(t)
      PROVE  OldOrCurrent'
  BY <1>1 DEF Query, QueryHitOrMiss, QueryExpired, LockMiss, StartRebuild, history
<1>2. ASSUME NEW t \in Threads, Run(t) \/ Fails(t)
      PROVE  OldOrCurrent'
  BY <1>2 DEF Run, Check, Load, Write, Unlock, Fails, history
<1>3. ASSUME NEW u \in Updaters, Commit(u) \/ Delete(u) \/ DeleteFails(u)
      PROVE  OldOrCurrent'
  BY <1>3 DEF Commit, Delete, DeleteFails, history, Missing
<1>4. SaveShop \/ LeaseExpires \/ LeaseLost \/ Expire => OldOrCurrent'
  BY DEF SaveShop, LeaseExpires, LeaseLost, Expire, history, Missing
<1>5. UNCHANGED vars => OldOrCurrent'
  BY DEF vars, history
<1> QED  BY <1>1, <1>2, <1>3, <1>4, <1>5 DEF Next, Threads

LEMMA StaleNext ==
  ASSUME TypeOK, OldOrCurrent, StaleIsRaced, [Next]_vars
  PROVE  StaleIsRaced'
<1> USE DEF StaleIsRaced, TypeOK
<1>1. ASSUME NEW t \in Threads, Query(t) \/ LockMiss(t) \/ StartRebuild(t)
      PROVE  StaleIsRaced'
  BY <1>1 DEF Query, QueryHitOrMiss, QueryExpired, LockMiss, StartRebuild, history
<1>2. ASSUME NEW t \in Threads, Run(t) \/ Fails(t)
      PROVE  StaleIsRaced'
  BY <1>2 DEF Run, Check, Load, Write, Unlock, Fails, history
<1>3. ASSUME NEW u \in Updaters, Commit(u)
      PROVE  StaleIsRaced'
  <2>1. step[u] = 0 /\ step'[u] = 1
    BY <1>3 DEF Commit, NextStep, Advance, UpdateSteps
  <2> QED  BY <2>1
<1>4. ASSUME NEW u \in Updaters, Delete(u) \/ DeleteFails(u)
      PROVE  StaleIsRaced'
  BY <1>4 DEF Delete, DeleteFails, Missing
<1>5. SaveShop => StaleIsRaced'
  BY DEF SaveShop, OldOrCurrent
<1>6. LeaseExpires \/ LeaseLost \/ Expire => StaleIsRaced'
  BY DEF LeaseExpires, LeaseLost, Expire, history, Missing
<1>7. UNCHANGED vars => StaleIsRaced'
  BY DEF vars, history
<1> QED  BY <1>1, <1>2, <1>3, <1>4, <1>5, <1>6, <1>7 DEF Next, Threads

LEMMA OneLoaderNext ==
  ASSUME TypeOK, OldOrCurrent, OneLoader, [Next]_vars
  PROVE  OneLoader'
<1> USE ThreadsAssumption DEF OneLoader, TypeOK, AtWork, Threads
<1>1. ASSUME NEW t \in Threads, Query(t)
      PROVE  OneLoader'
  BY <1>1 DEF Query, QueryHitOrMiss, QueryExpired, Goto, history
<1>2. ASSUME NEW t \in Threads, LockMiss(t)
      PROVE  OneLoader'
  BY <1>2 DEF LockMiss, Goto, history
<1>3. ASSUME NEW t \in Threads, StartRebuild(t)
      PROVE  OneLoader'
  BY <1>3 DEF StartRebuild, MayRebuild, Goto, history
<1>4. ASSUME NEW t \in Threads, Check(t)
      PROVE  OneLoader'
  BY <1>4 DEF Check, Goto, history
<1>5. ASSUME NEW t \in Threads, Load(t)
      PROVE  OneLoader'
  BY <1>5 DEF Load, Goto, history, OldOrCurrent
<1>6. ASSUME NEW t \in Threads, Write(t)
      PROVE  OneLoader'
  BY <1>6 DEF Write, Goto
<1>7. ASSUME NEW t \in Threads, Unlock(t) \/ Fails(t)
      PROVE  OneLoader'
  BY <1>7 DEF Unlock, Fails, Release, Goto, history
<1>8. ASSUME NEW u \in Updaters, Commit(u) \/ Delete(u) \/ DeleteFails(u)
      PROVE  OneLoader'
  BY <1>8 DEF Commit, Delete, DeleteFails, history
<1>9. SaveShop \/ LeaseExpires \/ LeaseLost \/ Expire => OneLoader'
  BY DEF SaveShop, LeaseExpires, LeaseLost, Expire, history
<1>10. UNCHANGED vars => OneLoader'
  BY DEF vars, history
<1> QED  BY <1>1, <1>2, <1>3, <1>4, <1>5, <1>6, <1>7, <1>8, <1>9, <1>10 DEF Next, Run

LEMMA Invariance == Spec => []Inv
<1>1. Inv /\ [Next]_vars => Inv'
  BY TypeNext, OldOrCurrentNext, StaleNext, OneLoaderNext DEF Inv
<1> QED  BY <1>1, InvInit, PTL DEF Spec

\* Every variable keeps its type: the rebuild queue within its bound, versions within
\* those that were committed.
THEOREM TypeCorrect == Spec => []TypeOK
BY Invariance, PTL DEF Inv

\* An old value in the cache needs a loader that has raced a commit, an update that is
\* between its commit and its deletion, or a deletion that has failed.
THEOREM OldValuesAreRaced == Spec => []StaleIsRaced
BY Invariance, PTL DEF Inv

\* While no thread is slower than its lease, the entry never goes back to an older version.
THEOREM CacheNeverGoesBack == Spec => NeverGoesBack
<1>1. Inv /\ [Next]_vars => [\A t \in Threads : Write(t) => seen[t] >= newest \/ overrun]_vars
  BY DEF Inv, OneLoader, TypeOK, Write
<1> QED  BY <1>1, Invariance, PTL DEF Spec, NeverGoesBack

===============================================================================
