---------------------------- MODULE MCVoucherGrant ----------------------------
(* Instances of VoucherGrant for TLC. *)
EXTENDS VoucherGrant

CONSTANTS u1, u2, r1, r2, r3, t1, t2, c1, c2

\* Two requests of one user, one of another.
TwoAndOne == [r \in Requests |-> IF r = r3 THEN u2 ELSE u1]

===============================================================================
