-------------------------- MODULE MCSeckillOrder --------------------------
(* Small instances of SeckillOrder for TLC. *)
EXTENDS SeckillOrder, TLC

CONSTANTS u1, u2, i1, i2, c1

\* application.yaml gives every instance the consumer name c1.
SameName == [i \in Instances |-> c1]

UserSymmetry == Permutations({u1, u2})
===========================================================================
