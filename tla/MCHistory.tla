----------------------------- MODULE MCHistory ------------------------------
(* Instances of History for TLC. *)
EXTENDS History

Second == {2}
FourIds == 1..4

\* Without a reader the ids of rows do not matter: they are drawn in turn.
RebuildAlone == walk = "idle" /\ drawn = 1..Cardinality(drawn)

\* The reader does not see what a row says of its transfer: with a reader, transfers
\* go no further than to have their rows.
RowsOnly ==
  /\ stray = {}
  /\ \A t \in Transfer :
       /\ status[t] \in {"NONE", "BEGUN", "PENDING"} \/ (t \in International /\ status[t] = "PROCESSING")
       /\ row[t] # "FAILED"

\* Or it comes when everything else is over, and no row was lost.
RowsLast ==
  /\ phase = "done" /\ damage = 0
  /\ \A t \in Transfer : status[t] \in {"COMPLETED", "FAILED"}

\* The repair of rows, and the reading of them, are explored one at a time.
OneAtATime == RebuildAlone \/ RowsOnly \/ RowsLast
=============================================================================
