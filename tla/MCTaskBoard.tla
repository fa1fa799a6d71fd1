---------------------------- MODULE MCTaskBoard ----------------------------
(* Instances of TaskBoard for TLC.                                         *)
EXTENDS TaskBoard, TLC

(* The stages the board treats specially; backlog and ready are not among  *)
(* them.  Another one is added, changed and removed.                       *)
Columns      == <<"in_progress", "review", "done">>
ShortColumns == <<"in_progress", "review">>

(* Ids that no handler compares or orders.                                 *)
Symmetric ==
  Permutations(Boards) \cup Permutations(Tasks) \cup Permutations(Runs)
    \cup Permutations(Owners) \cup Permutations(Clients)
=============================================================================
