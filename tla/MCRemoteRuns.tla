----------------------------- MODULE MCRemoteRuns -----------------------------
(* Small instances of RemoteRuns for TLC. *)
EXTENDS RemoteRuns, TLC

OneAgent == [r \in Run |-> CHOOSE a \in Agents : TRUE]
(* Two faults with one run, and two runs without a fault. *)
FaultsWithOneRun == [n \in 0 .. MaxRuns |-> IF n < 2 THEN 2 ELSE 0]

FullConcurrency == [a \in Agents |-> MaxActive]
=============================================================================
