----------------------------- MODULE FlashSale -----------------------------
(***************************************************************************)
(* What the seckill pipeline promises, without its queues, threads, locks  *)
(* and retries: a user reserves a unit of a limited stock, and each        *)
(* reservation is either sold or given back, once.                         *)
(***************************************************************************)
EXTENDS Integers, FiniteSets

CONSTANTS Orders, Users, NoUser, Stock

VARIABLES
  available,   \* units nobody has reserved
  buyer,       \* the user of each order
  fate         \* "free", "reserved", "sold" or "released"

saleVars == <<available, buyer, fate>>

Fates == {"free", "reserved", "sold", "released"}

With(f) == {o \in Orders : fate[o] = f}
Live == With("reserved") \cup With("sold")

SaleInit ==
  /\ available = Stock
  /\ buyer = [o \in Orders |-> NoUser]
  /\ fate = [o \in Orders |-> "free"]

Reserve(o, u) ==
  /\ fate[o] = "free"
  /\ available > 0
  /\ \A p \in Live : buyer[p] # u
  /\ available' = available - 1
  /\ buyer' = [buyer EXCEPT ![o] = u]
  /\ fate' = [fate EXCEPT ![o] = "reserved"]

Sell(o) ==
  /\ fate[o] = "reserved"
  /\ fate' = [fate EXCEPT ![o] = "sold"]
  /\ UNCHANGED <<available, buyer>>

Release(o) ==
  /\ fate[o] = "reserved"
  /\ fate' = [fate EXCEPT ![o] = "released"]
  /\ available' = available + 1
  /\ UNCHANGED buyer

SaleNext ==
  \E o \in Orders : Sell(o) \/ Release(o) \/ \E u \in Users : Reserve(o, u)

SaleSpec == SaleInit /\ [][SaleNext]_saleVars

-----------------------------------------------------------------------------
\* The types: what is available is never negative.
SaleTypeOK ==
  /\ available \in Nat
  /\ buyer \in [Orders -> Users \cup {NoUser}]
  /\ fate \in [Orders -> Fates]

\* Every unit is available, reserved or sold.
Conservation == available + Cardinality(Live) = Stock

\* A user has at most one reservation or purchase.
OnePerUser == \A o, p \in Live : buyer[o] = buyer[p] => o = p
=============================================================================
