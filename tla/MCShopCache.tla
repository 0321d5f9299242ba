----------------------------- MODULE MCShopCache ------------------------------
(* A small instance of ShopCache for TLC. *)
EXTENDS ShopCache

CONSTANTS r1, r2, w1, w2, u1, u2
===============================================================================
