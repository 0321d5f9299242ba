---------------------------- MODULE BlogLikeReadings ----------------------------
(***************************************************************************)
(* BlogLike with a history variable: what has become of the counts that a  *)
(* reconciliation has read from Redis and will write to MySQL.  It is set  *)
(* from the steps of BlogLike and restrains none of them.                  *)
(***************************************************************************)
EXTENDS BlogLike

VARIABLE reading     \* of each instance and blog: the state of counts[i][b]

States == {"none", "right", "wrong", "overtaken"}

\* This step applies a batch that changes the blog.
AppliesTo(b) ==
  \E j \in Instances : pc[j] = "apply" /\ id[j] \in applied' \ applied /\ deltas[j][b] # 0

\* A reading is right if it is, when it is taken, what the database has to show;
\* a batch that is applied later overtakes it.
NextState(i, b) ==
  CASE counts'[i][b] = Absent -> "none"
    [] counts'[i][b] # Absent /\ counts[i][b] = Absent ->
         IF counts'[i][b] = Owed(b)' THEN "right" ELSE "wrong"
    [] counts'[i][b] # Absent /\ counts[i][b] # Absent ->
         IF reading[i][b] = "right" /\ AppliesTo(b) THEN "overtaken" ELSE reading[i][b]

ReadingVars == <<vars, reading>>

ReadingInit == Init /\ reading = [i \in Instances |-> [b \in Blogs |-> "none"]]

ReadingNext ==
  /\ Next
  /\ reading' = [i \in Instances |-> [b \in Blogs |-> NextState(i, b)]]

ReadingSpec == ReadingInit /\ [][ReadingNext]_ReadingVars

FairReadingSpec == ReadingSpec /\ Fairness

-----------------------------------------------------------------------------
\* Properties.

\* On several instances too, a blog's counter goes wrong in one way only: a
\* reconciliation writes a count that was right when it was read and that a batch
\* has overtaken since.  A count that no batch has overtaken repairs the counter.
OnlyOldReadingsSpoil ==
  [][\A b \in Blogs :
       /\ Exact(b) /\ ~Exact(b)' =>
            \E i \in Instances : Overwrite(i) /\ reading[i][b] = "overtaken"
       /\ \A i \in Instances : Overwrite(i) /\ reading[i][b] = "right" => Exact(b)']_ReadingVars

===============================================================================
