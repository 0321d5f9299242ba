----------------------------- MODULE SeckillLaunch -----------------------------
(***************************************************************************)
(* How the Redis keys of a seckill voucher come into being.                *)
(*                                                                         *)
(*   publisher  addSeckillVoucher saves the voucher and, once the          *)
(*              transaction is committed, sets the three keys              *)
(*              (VoucherServiceImpl)                                       *)
(*   request    a request that finds a key missing loads the three from    *)
(*              the database and calls the script again                    *)
(*              (VoucherOrderServiceImpl.seckillVoucher)                   *)
(*                                                                         *)
(* Here an admitted order is persisted or rejected in one step; module     *)
(* SeckillOrder has the pipeline.  Each request is of a user of its own,   *)
(* and may at any time be too early or too late for the sale.              *)
(***************************************************************************)
EXTENDS Integers, FiniteSets

CONSTANTS
  Requests,      \* the users who want the voucher
  Stock,         \* the stock of the voucher
  Faults         \* bound on the calls of Redis and MySQL that fail

ASSUME LaunchAssumption ==
  Stock \in Nat /\ Faults \in Nat

Absent == -1     \* a key that does not exist

VARIABLES
  committed,     \* the voucher is in the database
  dbStock,       \* tb_seckill_voucher.stock
  stock,         \* seckill:stock:{voucher}
  window,        \* which of seckill:begin and seckill:end exist
  admitted,      \* the requests with a unit (seckill:order:{voucher})
  sold,          \* those of them the database has
  publisher,     \* next call of addSeckillVoucher
  request,       \* next call of each request
  read,          \* the stock it has read
  faults         \* calls that may still fail

keys == <<stock, window>>
orders == <<dbStock, admitted, sold>>
vars == <<committed, keys, orders, publisher, request, read, faults>>

PublisherPc == {"save", "stock", "begin", "end", "done"}
RequestPc == {"script", "load", "setStock", "setBegin", "setEnd", "again", "done"}

\* A voucher that is about to be published, or an old one that is not in Redis.
Init ==
  /\ committed \in BOOLEAN
  /\ dbStock = Stock
  /\ stock = Absent /\ window = {}
  /\ admitted = {} /\ sold = {}
  /\ publisher = IF committed THEN "done" ELSE "save"
  /\ request = [r \in Requests |-> "script"]
  /\ read = [r \in Requests |-> Absent]
  /\ faults = Faults

\* A call that is not executed, or whose reply is lost.
Fail == faults > 0 /\ faults' = faults - 1

-----------------------------------------------------------------------------
\* addSeckillVoucher.

Commit ==
  /\ publisher = "save"
  /\ committed' = TRUE
  /\ publisher' = "stock"
  /\ UNCHANGED <<keys, orders, request, read, faults>>

\* A call of afterCommit; an exception is logged and ends it.
Publish(call, next) ==
  /\ publisher = call
  /\ \/ publisher' = next /\ UNCHANGED faults
     \/ publisher' = "done" /\ Fail
  /\ UNCHANGED <<committed, orders, request, read>>

PublishStock == Publish("stock", "begin") /\ stock' = Stock /\ UNCHANGED window
PublishBegin == Publish("begin", "end") /\ window' = window \cup {"begin"} /\ UNCHANGED stock
PublishEnd == Publish("end", "done") /\ window' = window \cup {"end"} /\ UNCHANGED stock

\* The instance dies, or a call is not executed.
PublisherStops ==
  /\ publisher \in {"stock", "begin", "end"}
  /\ Fail
  /\ publisher' = "done"
  /\ UNCHANGED <<committed, keys, orders, request, read>>

-----------------------------------------------------------------------------
\* seckillVoucher and loadVoucherCache.

Goto(r, next) == request' = [request EXCEPT ![r] = next]

\* The three keys exist.
Complete == stock # Absent /\ window = {"begin", "end"}

\* seckill.lua: code 5, then 1, 3 or 4, which leave the keys alone, then 0.
Script(r) ==
  /\ request[r] \in {"script", "again"}
  /\ \/ /\ ~Complete
        /\ Goto(r, IF request[r] = "script" THEN "load" ELSE "done")
        /\ UNCHANGED <<keys, orders>>
     \/ /\ Complete
        /\ Goto(r, "done")
        /\ UNCHANGED <<keys, orders>>
     \/ /\ Complete /\ stock > 0
        /\ stock' = stock - 1
        /\ admitted' = admitted \cup {r}
        /\ Goto(r, "done")
        /\ UNCHANGED <<window, dbStock, sold>>
  /\ UNCHANGED <<committed, publisher, read, faults>>

LoadVoucher(r) ==
  /\ request[r] = "load"
  /\ Goto(r, IF committed THEN "setStock" ELSE "done")
  /\ read' = [read EXCEPT ![r] = IF committed THEN dbStock ELSE Absent]
  /\ UNCHANGED <<committed, keys, orders, publisher, faults>>

\* A write of the cache; an exception ends the request.
Load(r, call, next) ==
  /\ request[r] = call
  /\ \/ Goto(r, next) /\ UNCHANGED faults
     \/ Goto(r, "done") /\ Fail
  /\ read' = [read EXCEPT ![r] = Absent]
  /\ UNCHANGED <<committed, orders, publisher>>

\* Defect: SET instead of SETNX.
StockAfterLoad_Set(s) == s

\* Defect: INCRBY, two loads add up.
StockAfterLoad_Adds(s) == IF stock = Absent THEN s ELSE stock + s

\* SETNX keeps a stock that is there.
StockAfterLoad(s) == IF stock = Absent THEN s ELSE stock

LoadStock(r) ==
  /\ Load(r, "setStock", "setBegin")
  /\ stock' = StockAfterLoad(read[r])
  /\ UNCHANGED window

\* Defect: the times are only written by a publisher.
LoadTime_Nothing(key) == window

LoadTime(key) == window \cup {key}

LoadBegin(r) == Load(r, "setBegin", "setEnd") /\ window' = LoadTime("begin") /\ UNCHANGED stock
LoadEnd(r) == Load(r, "setEnd", "again") /\ window' = LoadTime("end") /\ UNCHANGED stock

\* A call of the request is not executed.
RequestFails(r) ==
  /\ request[r] \in {"script", "load", "setStock", "setBegin", "setEnd", "again"}
  /\ Fail
  /\ Goto(r, "done")
  /\ read' = [read EXCEPT ![r] = Absent]
  /\ UNCHANGED <<committed, keys, orders, publisher>>

\* A user who did not get the voucher tries again.
Retry(r) ==
  /\ request[r] = "done" /\ r \notin admitted
  /\ Goto(r, "script")
  /\ UNCHANGED <<committed, keys, orders, publisher, read, faults>>

-----------------------------------------------------------------------------
\* The pipeline behind the stream.

Persist(r) ==
  /\ r \in admitted \ sold
  /\ dbStock > 0
  /\ dbStock' = dbStock - 1
  /\ sold' = sold \cup {r}
  /\ UNCHANGED <<committed, keys, admitted, publisher, request, read, faults>>

\* A dead letter gives its unit back: the database has none left, or the retries ran
\* out for another reason.  The user may order again.
Reject(r) ==
  /\ r \in admitted \ sold
  /\ admitted' = admitted \ {r}
  /\ stock' = stock + 1
  /\ UNCHANGED <<committed, window, dbStock, sold, publisher, request, read, faults>>

Step(r) == Script(r) \/ LoadVoucher(r) \/ LoadStock(r) \/ LoadBegin(r) \/ LoadEnd(r)

Next ==
  \/ Commit \/ PublishStock \/ PublishBegin \/ PublishEnd \/ PublisherStops
  \/ \E r \in Requests : Step(r) \/ RequestFails(r) \/ Retry(r) \/ Persist(r) \/ Reject(r)

Spec == Init /\ [][Next]_vars

\* Threads run and users keep trying.
FairSpec == Spec /\ \A r \in Requests : WF_vars(Step(r)) /\ WF_vars(Retry(r))

-----------------------------------------------------------------------------
\* Properties.

\* The types.  A publisher that comes after a request may put units on sale twice,
\* but none three times: with all that is given back the stock stays within twice
\* the one published.
TypeOK ==
  /\ committed \in BOOLEAN
  /\ dbStock \in 0..Stock /\ stock \in {Absent} \cup 0..2 * Stock
  /\ window \subseteq {"begin", "end"}
  /\ sold \subseteq admitted /\ admitted \subseteq Requests
  /\ publisher \in PublisherPc /\ request \in [Requests -> RequestPc]
  /\ read \in [Requests -> {Absent} \cup 0..Stock]
  /\ faults \in 0..Faults

\* Redis offers exactly the units that the database will still sell.
LaunchedOnce == stock # Absent => stock + Cardinality(admitted \ sold) = dbStock

PublishesLate == publisher = "stock" /\ stock # Absent /\ publisher' # "stock"

\* However many requests load the keys at once, with whatever stock each has
\* read, none of them puts a unit on sale twice: only a publisher that comes
\* after a request can.
LoadsKeepLedger == [][LaunchedOnce => LaunchedOnce' \/ PublishesLate]_vars

\* A voucher in the database goes on sale although its publisher stopped
\* between two keys: the requests write the rest.
GoesOnSale == committed ~> Complete

===============================================================================
