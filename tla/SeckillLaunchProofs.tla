-------------------------- MODULE SeckillLaunchProofs --------------------------
(***************************************************************************)
(* Safety of the publication and loading of a voucher for any requests, any *)
(* stock and any number of failing calls.                                  *)
(***************************************************************************)
EXTENDS SeckillLaunch, FiniteSetTheorems, TLAPS

\* The admitted orders that wait for the database.
Waiting == admitted \ sold

\* Nobody is admitted before the stock is in Redis, and the loads that are under way
\* until then have read all of it.
UnloadedInv ==
  stock = Absent =>
    /\ admitted = {} /\ dbStock = Stock
    /\ \A r \in Requests : read[r] \in {Absent, Stock}

\* A request asks once, and writes what it has read.
RequestsInv ==
  \A r \in Requests :
    /\ request[r] # "done" => r \notin admitted
    /\ request[r] = "setStock" => read[r] # Absent

\* Until the publisher has set the stock the ledger is exact.  He sets it once: what is
\* on offer or admitted exceeds what the database will sell by no more than he sets.
OfferInv ==
  stock # Absent =>
    /\ publisher \in {"save", "stock"} => stock + Cardinality(Waiting) = dbStock
    /\ stock + Cardinality(Waiting) <= Stock + dbStock

IInv == TypeOK /\ IsFiniteSet(admitted) /\ UnloadedInv /\ RequestsInv /\ OfferInv

LEMMA InitInv == Init => IInv
<1> SUFFICES ASSUME Init PROVE IInv
  OBVIOUS
<1>1. TypeOK
  BY LaunchAssumption DEF Init, TypeOK, Absent, PublisherPc, RequestPc
<1>2. IsFiniteSet(admitted)
  BY FS_EmptySet DEF Init
<1>3. UnloadedInv /\ RequestsInv /\ OfferInv
  BY DEF Init, UnloadedInv, RequestsInv, OfferInv
<1> QED  BY <1>1, <1>2, <1>3 DEF IInv

LEMMA WaitingFacts ==
  ASSUME IInv
  PROVE  IsFiniteSet(Waiting) /\ Cardinality(Waiting) \in Nat
BY FS_Difference, FS_CardinalityType DEF IInv, Waiting

\* An order that comes in or goes out.
LEMMA WaitingMoves ==
  ASSUME IInv, NEW r
  PROVE  /\ r \in Waiting => /\ Waiting # {} /\ Cardinality(Waiting) \in Nat \ {0}
                             /\ Cardinality(Waiting \ {r}) = Cardinality(Waiting) - 1
         /\ r \notin Waiting => Cardinality(Waiting \cup {r}) = Cardinality(Waiting) + 1
<1>1. IsFiniteSet(Waiting) /\ Cardinality(Waiting) \in Nat
  BY WaitingFacts
<1>2. Cardinality(Waiting) = 0 <=> Waiting = {}
  BY <1>1, FS_EmptySet
<1> QED  BY <1>1, <1>2, FS_AddElement, FS_RemoveElement

-----------------------------------------------------------------------------
\* Each kind of step: its effect on stock, orders, requests and publisher.

LEMMA AdmitKeeps ==
  ASSUME IInv, NEW r \in Requests, Script(r), stock' # stock
  PROVE  IInv' /\ (LaunchedOnce => LaunchedOnce')
<1>1. /\ request[r] \in {"script", "again"} /\ stock # Absent /\ stock > 0
      /\ stock' = stock - 1 /\ admitted' = admitted \cup {r}
      /\ request' = [request EXCEPT ![r] = "done"]
      /\ UNCHANGED <<committed, window, dbStock, sold, publisher, read, faults>>
  BY DEF Script, Complete, Goto, keys, orders
<1>2. r \notin admitted /\ stock \in 0..2 * Stock /\ stock' \in 0..2 * Stock /\ stock' # Absent
  BY <1>1, LaunchAssumption DEF IInv, RequestsInv, TypeOK, Absent
<1>3. /\ Waiting' = Waiting \cup {r} /\ r \notin Waiting
      /\ Cardinality(Waiting') = Cardinality(Waiting) + 1 /\ Cardinality(Waiting) \in Nat
  <2>1. Waiting' = Waiting \cup {r} /\ r \notin Waiting
    BY <1>1, <1>2 DEF Waiting, IInv, TypeOK
  <2> QED  BY <2>1, WaitingMoves, WaitingFacts
<1>4. TypeOK'
  BY <1>1, <1>2 DEF IInv, TypeOK, RequestPc
<1>5. IsFiniteSet(admitted')
  BY <1>1, FS_AddElement DEF IInv
<1>6. UnloadedInv' /\ RequestsInv'
  BY <1>1, <1>2 DEF IInv, TypeOK, UnloadedInv, RequestsInv
<1>7. dbStock \in Int /\ stock \in Int /\ Stock \in Int
  BY <1>2, LaunchAssumption DEF IInv, TypeOK
<1>8. OfferInv' /\ (LaunchedOnce => LaunchedOnce')
  BY <1>1, <1>2, <1>3, <1>7 DEF IInv, OfferInv, LaunchedOnce, Waiting
<1> QED  BY <1>4, <1>5, <1>6, <1>8 DEF IInv

LEMMA PersistKeeps ==
  ASSUME IInv, NEW r \in Requests, Persist(r)
  PROVE  IInv' /\ (LaunchedOnce => LaunchedOnce')
<1>1. /\ r \in Waiting /\ dbStock > 0 /\ dbStock' = dbStock - 1 /\ sold' = sold \cup {r}
      /\ UNCHANGED <<committed, keys, admitted, publisher, request, read, faults>>
  BY DEF Persist, Waiting
<1>2. /\ Waiting' = Waiting \ {r} /\ Cardinality(Waiting) \in Nat \ {0}
      /\ Cardinality(Waiting') = Cardinality(Waiting) - 1
  <2>1. Waiting' = Waiting \ {r}
    BY <1>1 DEF Waiting
  <2> QED  BY <1>1, <2>1, WaitingMoves
<1>3. TypeOK'
  BY <1>1, LaunchAssumption DEF IInv, TypeOK, Waiting, keys
<1>4. stock # Absent /\ UnloadedInv' /\ RequestsInv'
  BY <1>1 DEF IInv, UnloadedInv, RequestsInv, Waiting, keys
<1>5. dbStock \in Int /\ stock \in Int /\ Stock \in Int
  BY LaunchAssumption DEF IInv, TypeOK, Absent
<1>6. OfferInv' /\ (LaunchedOnce => LaunchedOnce')
  BY <1>1, <1>2, <1>4, <1>5 DEF IInv, OfferInv, LaunchedOnce, Waiting, keys
<1> QED  BY <1>1, <1>3, <1>4, <1>6 DEF IInv

LEMMA RejectKeeps ==
  ASSUME IInv, NEW r \in Requests, Reject(r)
  PROVE  IInv' /\ (LaunchedOnce => LaunchedOnce')
<1>1. /\ r \in Waiting /\ stock' = stock + 1 /\ admitted' = admitted \ {r}
      /\ UNCHANGED <<committed, window, dbStock, sold, publisher, request, read, faults>>
  BY DEF Reject, Waiting
<1>2. /\ Waiting' = Waiting \ {r} /\ Cardinality(Waiting) \in Nat \ {0}
      /\ Cardinality(Waiting') = Cardinality(Waiting) - 1
  <2>1. Waiting' = Waiting \ {r}
    BY <1>1 DEF Waiting
  <2> QED  BY <1>1, <2>1, WaitingMoves
<1>3. stock # Absent /\ stock \in 0..2 * Stock /\ Stock \in Nat /\ dbStock \in 0..Stock
  BY <1>1, LaunchAssumption DEF IInv, UnloadedInv, Waiting, TypeOK
<1>4. stock' \in 0..2 * Stock /\ stock' # Absent
  <2>1. stock + Cardinality(Waiting) <= Stock + dbStock
    BY <1>3 DEF IInv, OfferInv
  <2> QED  BY <1>1, <1>2, <1>3, <2>1 DEF Absent
<1>5. TypeOK'
  BY <1>1, <1>4 DEF IInv, TypeOK, Waiting
<1>6. IsFiniteSet(admitted')
  BY <1>1, FS_RemoveElement DEF IInv
<1>7. UnloadedInv' /\ RequestsInv'
  BY <1>1, <1>4 DEF IInv, UnloadedInv, RequestsInv
<1>8. OfferInv' /\ (LaunchedOnce => LaunchedOnce')
  BY <1>1, <1>2, <1>3 DEF IInv, OfferInv, LaunchedOnce, Waiting
<1> QED  BY <1>5, <1>6, <1>7, <1>8 DEF IInv

\* The stock of the database, by the publisher: late if a request was faster.
LEMMA PublishStockKeeps ==
  ASSUME IInv, PublishStock
  PROVE  IInv' /\ (LaunchedOnce => LaunchedOnce' \/ PublishesLate)
<1>1. /\ publisher = "stock" /\ publisher' \in {"begin", "done"} /\ stock' = Stock
      /\ faults' \in {faults, faults - 1} /\ (faults' = faults \/ faults > 0)
      /\ UNCHANGED <<committed, window, orders, request, read>>
  BY DEF PublishStock, Publish, Fail
<1>2. Stock \in Nat /\ Stock # Absent /\ stock' \in 0..2 * Stock /\ Faults \in Nat
  BY <1>1, LaunchAssumption DEF Absent
<1>3. TypeOK'
  BY <1>1, <1>2 DEF IInv, TypeOK, PublisherPc, orders
<1>4. UNCHANGED Waiting /\ Cardinality(Waiting) \in Nat
  BY <1>1, WaitingFacts DEF Waiting, orders
<1>5. UnloadedInv' /\ RequestsInv'
  BY <1>1, <1>2 DEF IInv, UnloadedInv, RequestsInv, orders
<1>6. CASE stock = Absent
  <2>1. Waiting = {} /\ Cardinality(Waiting) = 0 /\ dbStock = Stock
    BY <1>6, FS_EmptySet DEF IInv, UnloadedInv, Waiting
  <2>2. OfferInv' /\ LaunchedOnce'
    BY <1>1, <1>2, <1>4, <2>1 DEF OfferInv, LaunchedOnce, Waiting, orders
  <2> QED  BY <1>1, <1>3, <1>5, <2>2 DEF IInv, orders
<1>7. CASE stock # Absent
  <2>1. stock + Cardinality(Waiting) = dbStock /\ stock \in Nat
    BY <1>1, <1>2, <1>7 DEF IInv, OfferInv, TypeOK
  <2>2. OfferInv'
    BY <1>1, <1>2, <1>4, <2>1 DEF OfferInv, orders
  <2> QED  BY <1>1, <1>3, <1>5, <1>7, <2>2 DEF IInv, orders, PublishesLate
<1> QED  BY <1>6, <1>7

\* SETNX, by a request.
LEMMA LoadStockKeeps ==
  ASSUME IInv, NEW r \in Requests, LoadStock(r)
  PROVE  IInv' /\ (LaunchedOnce => LaunchedOnce')
<1>1. /\ request[r] = "setStock"
      /\ \E p \in {"setBegin", "done"} : request' = [request EXCEPT ![r] = p]
      /\ read' = [read EXCEPT ![r] = Absent]
      /\ stock' = IF stock = Absent THEN read[r] ELSE stock
      /\ faults' \in {faults, faults - 1} /\ (faults' = faults \/ faults > 0)
      /\ UNCHANGED <<committed, window, orders, publisher>>
  BY DEF LoadStock, Load, Goto, Fail, StockAfterLoad
<1>2. read[r] # Absent /\ r \notin admitted
  BY <1>1 DEF IInv, RequestsInv
<1>3. stock' # Absent /\ stock' \in 0..2 * Stock
  BY <1>1, <1>2, LaunchAssumption DEF IInv, TypeOK
<1>4. TypeOK'
  BY <1>1, <1>3, LaunchAssumption DEF IInv, TypeOK, RequestPc, orders
<1>5. UnloadedInv' /\ RequestsInv'
  BY <1>1, <1>2, <1>3 DEF IInv, UnloadedInv, RequestsInv, TypeOK, orders
<1>6. UNCHANGED <<Waiting, dbStock>>
  BY <1>1 DEF Waiting, orders
<1>7. CASE stock = Absent
  <2>1. Cardinality(Waiting) = 0 /\ dbStock = Stock /\ stock' = Stock
    BY <1>1, <1>2, <1>7, FS_EmptySet DEF IInv, UnloadedInv, Waiting
  <2>2. OfferInv' /\ LaunchedOnce'
    BY <1>1, <1>6, <2>1, LaunchAssumption DEF OfferInv, LaunchedOnce, Waiting
  <2> QED  BY <1>1, <1>4, <1>5, <2>2 DEF IInv, orders
<1>8. CASE stock # Absent
  <2>1. UNCHANGED stock
    BY <1>1, <1>8
  <2>2. OfferInv' /\ (LaunchedOnce => LaunchedOnce')
    BY <1>1, <1>6, <2>1 DEF IInv, OfferInv, LaunchedOnce, Waiting
  <2> QED  BY <1>1, <1>4, <1>5, <2>2 DEF IInv, orders
<1> QED  BY <1>7, <1>8

\* What moves a publisher or a request and nothing else but a time.
LEMMA MovesKeep ==
  ASSUME IInv, TypeOK', UNCHANGED <<stock, orders>>,
         publisher' \in {"save", "stock"} => publisher \in {"save", "stock"},
         \A r \in Requests :
           /\ request'[r] = request[r] \/ request'[r] = "done" \/ r \notin admitted
           /\ request'[r] = "setStock" => read'[r] # Absent
           /\ read'[r] \in {read[r], Absent, dbStock}
  PROVE  IInv' /\ (LaunchedOnce => LaunchedOnce')
<1>1. UNCHANGED <<stock, Waiting, dbStock, admitted, sold>>
  BY DEF Waiting, orders
<1>2. UnloadedInv' /\ RequestsInv'
  BY <1>1 DEF IInv, UnloadedInv, RequestsInv
<1>3. OfferInv' /\ (LaunchedOnce => LaunchedOnce')
  BY <1>1 DEF IInv, OfferInv, LaunchedOnce
<1> QED  BY <1>1, <1>2, <1>3 DEF IInv

LEMMA PublisherKeeps ==
  ASSUME IInv, Commit \/ PublishBegin \/ PublishEnd \/ PublisherStops
  PROVE  IInv' /\ (LaunchedOnce => LaunchedOnce')
<1>0. /\ committed' \in BOOLEAN /\ window' \subseteq {"begin", "end"} /\ publisher' \in PublisherPc
      /\ UNCHANGED <<stock, orders, request, read>>
  BY DEF IInv, TypeOK, Commit, PublishBegin, PublishEnd, Publish, PublisherStops, PublisherPc, keys
<1>1. TypeOK'
  <2>1. faults' \in 0..Faults
    BY LaunchAssumption
       DEF IInv, TypeOK, Commit, PublishBegin, PublishEnd, Publish, PublisherStops, Fail
  <2> QED  BY <1>0, <2>1 DEF IInv, TypeOK, orders
<1>2. /\ UNCHANGED <<stock, orders, request, read>>
      /\ publisher' \in {"save", "stock"} => publisher \in {"save", "stock"}
  BY DEF Commit, PublishBegin, PublishEnd, Publish, PublisherStops, keys
<1> QED  BY <1>1, <1>2, MovesKeep DEF IInv, RequestsInv

LEMMA RequestKeeps ==
  ASSUME IInv, NEW r \in Requests,
         \/ Script(r) /\ stock' = stock
         \/ LoadVoucher(r) \/ LoadBegin(r) \/ LoadEnd(r) \/ RequestFails(r) \/ Retry(r)
  PROVE  IInv' /\ (LaunchedOnce => LaunchedOnce')
<1>0. /\ request \in [Requests -> RequestPc] /\ read \in [Requests -> {Absent} \cup 0..Stock]
      /\ stock \in {Absent} \cup 0..2 * Stock /\ Stock \in Nat /\ dbStock \in 0..Stock
  BY LaunchAssumption DEF IInv, TypeOK
<1> DEFINE Moves(p, s) ==
             /\ request' = [request EXCEPT ![r] = p] /\ read' = [read EXCEPT ![r] = s]
             /\ p = "done" \/ r \notin admitted
             /\ p = "setStock" => s # Absent
<1>1. /\ UNCHANGED <<stock, orders, publisher, committed>>
      /\ \E p \in RequestPc, s \in {read[r], Absent, dbStock} : Moves(p, s)
      /\ window' \subseteq {"begin", "end"} /\ faults' \in 0..Faults
  <2>1. /\ r \in admitted => request[r] = "done"
        /\ window \subseteq {"begin", "end"} /\ faults \in 0..Faults /\ Faults \in Nat
        /\ dbStock # Absent
    BY LaunchAssumption DEF IInv, TypeOK, RequestsInv, Absent
  <2>2. Fail => faults' \in 0..Faults
    BY <2>1 DEF Fail
  <2>3. read = [read EXCEPT ![r] = read[r]]
    BY <1>0
  <2>4. ASSUME Script(r), stock' = stock
        PROVE  <1>1
    <3>1. stock - 1 # stock
      BY <1>0 DEF Absent
    <3>2. /\ UNCHANGED <<orders, committed, window, publisher, read, faults>>
          /\ Goto(r, "load") \/ Goto(r, "done")
          /\ request[r] \in {"script", "again"}
      BY <2>4, <3>1 DEF Script, keys
    <3>3. Moves("load", read[r]) \/ Moves("done", read[r])
      BY <2>1, <2>3, <3>2 DEF Goto
    <3> HIDE DEF Moves
    <3> QED  BY <2>1, <2>4, <3>2, <3>3 DEF RequestPc
  <2>5. ASSUME LoadVoucher(r)
        PROVE  <1>1
    <3>1. UNCHANGED <<orders, committed, stock, window, publisher, faults>>
      BY <2>5 DEF LoadVoucher, keys
    <3>2. Moves("setStock", dbStock) \/ Moves("done", Absent)
      BY <2>1, <2>5 DEF LoadVoucher, Goto
    <3> HIDE DEF Moves
    <3> QED  BY <2>1, <3>1, <3>2 DEF RequestPc
  <2>6. ASSUME LoadBegin(r) \/ LoadEnd(r)
        PROVE  <1>1
    <3>1. /\ UNCHANGED <<orders, committed, stock, publisher>>
          /\ window' = window \cup {"begin"} \/ window' = window \cup {"end"}
          /\ faults' = faults \/ Fail
      BY <2>6 DEF LoadBegin, LoadEnd, Load, LoadTime
    <3>2. Moves("setEnd", Absent) \/ Moves("again", Absent) \/ Moves("done", Absent)
      BY <2>1, <2>6 DEF LoadBegin, LoadEnd, Load, Goto
    <3> HIDE DEF Moves
    <3> QED  BY <2>1, <2>2, <3>1, <3>2 DEF RequestPc
  <2>7. ASSUME RequestFails(r)
        PROVE  <1>1
    <3>1. UNCHANGED <<orders, committed, stock, window, publisher>> /\ Fail
      BY <2>7 DEF RequestFails, keys
    <3>2. Moves("done", Absent)
      BY <2>7 DEF RequestFails, Goto
    <3> HIDE DEF Moves
    <3> QED  BY <2>1, <2>2, <3>1, <3>2 DEF RequestPc
  <2>8. ASSUME Retry(r)
        PROVE  <1>1
    <3>1. UNCHANGED <<orders, committed, stock, window, publisher, faults>>
      BY <2>8 DEF Retry, keys
    <3>2. Moves("script", read[r])
      BY <2>3, <2>8 DEF Retry, Goto
    <3> HIDE DEF Moves
    <3> QED  BY <2>1, <3>1, <3>2 DEF RequestPc
  <2> QED  BY <2>4, <2>5, <2>6, <2>7, <2>8
<1>2. TypeOK'
  BY <1>0, <1>1 DEF IInv, TypeOK, orders
<1> QED  BY <1>0, <1>1, <1>2, MovesKeep DEF IInv, RequestsInv

LEMMA NextInv ==
  ASSUME IInv, [Next]_vars
  PROVE  IInv' /\ (LaunchedOnce => LaunchedOnce' \/ PublishesLate)
<1>1. ASSUME UNCHANGED vars
      PROVE  IInv' /\ (LaunchedOnce => LaunchedOnce')
  <2>1. TypeOK'
    BY <1>1 DEF vars, keys, orders, IInv, TypeOK
  <2> QED  BY <1>1, <2>1, MovesKeep DEF vars, keys, orders, IInv, RequestsInv
<1>2. ASSUME NEW r \in Requests,
             Step(r) \/ RequestFails(r) \/ Retry(r) \/ Persist(r) \/ Reject(r)
      PROVE  IInv' /\ (LaunchedOnce => LaunchedOnce')
  BY <1>2, AdmitKeeps, LoadStockKeeps, RequestKeeps, PersistKeeps, RejectKeeps DEF Step
<1> QED  BY <1>1, <1>2, PublisherKeeps, PublishStockKeeps DEF Next

LEMMA Invariance == Spec => []IInv
BY InitInv, NextInv, PTL DEF Spec

-----------------------------------------------------------------------------
\* Theorems.

\* However many requests and publishers write the stock in Redis and whatever is given
\* back at whatever time, it stays within twice the stock published, for any requests,
\* stock and faults.
THEOREM TypeCorrect == Spec => []TypeOK
<1>1. IInv => TypeOK
  BY DEF IInv
<1> QED  BY <1>1, Invariance, PTL

\* No request, whatever it has read and whenever it writes it, puts a unit on sale
\* twice; only a publisher that comes after a request can.
THEOREM LoadsAreSafe == Spec => LoadsKeepLedger
<1>1. IInv /\ [Next]_vars => [LaunchedOnce => LaunchedOnce' \/ PublishesLate]_vars
  BY NextInv
<1> QED  BY <1>1, Invariance, PTL DEF Spec, LoadsKeepLedger

================================================================================
