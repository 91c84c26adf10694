--------------------------- MODULE MCOrchestrator ---------------------------
(* Instances of Orchestrator for TLC. *)
EXTENDS Orchestrator, TLC

CONSTANTS i1, i2, w1, w2, w3, c1, c2, r1, r2

\* One of two active states is limited to a single run, the other is not limited.
MCStateLimit == [s \in ActiveStates |-> IF s = "todo" THEN 1 ELSE 9]

\* Identities of workers, polls and runs carry no order and issues are alike.
Symmetry == Permutations(Issues) \cup Permutations(WorkerIds)
              \cup Permutations(CallIds) \cup Permutations(RunIds)
=============================================================================
