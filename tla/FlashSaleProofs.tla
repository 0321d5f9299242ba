--------------------------- MODULE FlashSaleProofs ---------------------------
(***************************************************************************)
(* The promises of the abstract sale, for any orders, users and stock.     *)
(***************************************************************************)
EXTENDS FlashSale, FiniteSetTheorems, TLAPS

SaleInv == SaleTypeOK /\ Conservation /\ OnePerUser

\* The live orders are some of the orders.
LEMMA LiveFinite ==
  ASSUME IsFiniteSet(Orders)
  PROVE  IsFiniteSet(Live) /\ Cardinality(Live) \in Nat
<1>1. Live \subseteq Orders
  BY DEF Live, With
<1>2. QED
  BY <1>1, FS_Subset, FS_CardinalityType

\* What becomes of the live orders, and of the units, when the fate of one
\* order changes.
LEMMA ReserveKeeps ==
  ASSUME IsFiniteSet(Orders), NoUser \notin Users, SaleInv,
         NEW o \in Orders, NEW u \in Users, Reserve(o, u)
  PROVE  SaleInv'
<1>1. o \notin Live /\ Live' = Live \cup {o}
  BY DEF Reserve, Live, With, SaleInv, SaleTypeOK
<1>2. Cardinality(Live') = Cardinality(Live) + 1
  BY <1>1, LiveFinite, FS_AddElement
<1>3. SaleTypeOK'
  BY DEF Reserve, SaleInv, SaleTypeOK, Fates
<1>4. Conservation'
  BY <1>2, LiveFinite DEF Reserve, SaleInv, SaleTypeOK, Conservation
<1>5. OnePerUser'
  <2>1. \A p \in Live : p \in Orders
    BY DEF Live, With
  <2>2. \A p \in Live : buyer'[p] = buyer[p] /\ buyer[p] # u
    BY <1>1, <2>1 DEF Reserve, SaleInv, SaleTypeOK
  <2>3. buyer'[o] = u
    BY DEF Reserve, SaleInv, SaleTypeOK
  <2>4. QED
    BY <1>1, <2>2, <2>3 DEF SaleInv, OnePerUser
<1>6. QED
  BY <1>3, <1>4, <1>5 DEF SaleInv

LEMMA SellKeeps ==
  ASSUME SaleInv, NEW o \in Orders, Sell(o)
  PROVE  SaleInv'
<1>1. Live' = Live
  BY DEF Sell, Live, With, SaleInv, SaleTypeOK
<1>2. SaleTypeOK'
  BY DEF Sell, SaleInv, SaleTypeOK, Fates
<1>3. QED
  BY <1>1, <1>2 DEF Sell, SaleInv, Conservation, OnePerUser

LEMMA ReleaseKeeps ==
  ASSUME IsFiniteSet(Orders), SaleInv, NEW o \in Orders, Release(o)
  PROVE  SaleInv'
<1>1. o \in Live /\ Live' = Live \ {o}
  BY DEF Release, Live, With, SaleInv, SaleTypeOK
<1>2. Cardinality(Live') = Cardinality(Live) - 1
  BY <1>1, LiveFinite, FS_RemoveElement
<1>3. SaleTypeOK'
  BY DEF Release, SaleInv, SaleTypeOK, Fates
<1>4. Conservation'
  BY <1>2, LiveFinite DEF Release, SaleInv, SaleTypeOK, Conservation
<1>5. OnePerUser'
  BY <1>1 DEF Release, SaleInv, OnePerUser
<1>6. QED
  BY <1>3, <1>4, <1>5 DEF SaleInv

LEMMA SaleInvariant ==
  ASSUME IsFiniteSet(Orders), Stock \in Nat, NoUser \notin Users
  PROVE  SaleSpec => []SaleInv
<1>1. SaleInit => SaleInv
  <2>1. SUFFICES ASSUME SaleInit PROVE SaleInv
    OBVIOUS
  <2>2. Live = {}
    BY <2>1 DEF SaleInit, Live, With
  <2>3. QED
    BY <2>1, <2>2, FS_EmptySet DEF SaleInit, SaleInv, SaleTypeOK, Fates, Conservation, OnePerUser
<1>2. SaleInv /\ [SaleNext]_saleVars => SaleInv'
  <2>1. SUFFICES ASSUME SaleInv, [SaleNext]_saleVars PROVE SaleInv'
    OBVIOUS
  <2>2. CASE UNCHANGED saleVars
    BY <2>1, <2>2 DEF saleVars, SaleInv, SaleTypeOK, Conservation, OnePerUser, Live, With
  <2>3. CASE SaleNext
    BY <2>1, <2>3, ReserveKeeps, SellKeeps, ReleaseKeeps DEF SaleNext
  <2>4. QED
    BY <2>1, <2>2, <2>3
<1>3. QED
  BY <1>1, <1>2, PTL DEF SaleSpec

\* The sale conserves its units: each is available, reserved or sold.
THEOREM SaleConserves ==
  ASSUME IsFiniteSet(Orders), Stock \in Nat, NoUser \notin Users
  PROVE  SaleSpec => []Conservation
<1>1. SaleInv => Conservation
  BY DEF SaleInv
<1>2. QED
  BY <1>1, SaleInvariant, PTL

\* No user has two reservations or purchases.
THEOREM SaleIsFair ==
  ASSUME IsFiniteSet(Orders), Stock \in Nat, NoUser \notin Users
  PROVE  SaleSpec => []OnePerUser
<1>1. SaleInv => OnePerUser
  BY DEF SaleInv
<1>2. QED
  BY <1>1, SaleInvariant, PTL
=============================================================================
