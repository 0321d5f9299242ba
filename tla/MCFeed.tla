-------------------------------- MODULE MCFeed --------------------------------
(* Small instances of Feed for TLC. *)
EXTENDS Feed, TLC

CONSTANTS r1, a1, t1, t2, s1, s2

OneRow == [p \in Pairs |-> 1]
OneAuthor == [b \in Blogs |-> a1]

\* Follow requests and the page do not touch what the other reads: the requests are over,
\* and have gone well, when the first blog is saved.  One blog goes to readers with two
\* rows, three to those with one.
Quiet ==
  /\ torn = {} /\ \A t \in Threads : pc[t] = "idle"
  /\ rows = OneRow \/ Cardinality(saved) < 2

MCSpec == Init /\ [][Next /\ (saved' # {} => Quiet')]_vars /\ Fairness
===============================================================================
