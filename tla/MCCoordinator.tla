---------------------------- MODULE MCCoordinator ----------------------------
(* Small instances of Coordinator for TLC. *)
EXTENDS Coordinator, TLC

AllTeammates == [a \in Agents |-> Agents]
FullConcurrency == [a \in Agents |-> MaxActive]
StopSymmetry == Permutations(ExistingDesktop) \cup Permutations(Stoppers)
=============================================================================
