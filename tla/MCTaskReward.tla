----------------------------- MODULE MCTaskReward -----------------------------
(* Small instances of TaskReward for TLC. *)
EXTENDS TaskReward, TLC

CONSTANTS k1, k2, b1, b2, q1, q2, t1, t2, e1, e2, p1

\* k1 counts two events; every other task one.
Targets == [k \in Tasks |-> IF k = k1 THEN 2 ELSE 1]

Symmetry ==
  Permutations({t1, t2}) \cup Permutations({e1, e2})
    \cup Permutations({q1, q2}) \cup Permutations({b1, b2})
===============================================================================
