--------------------------- MODULE MCOrchestrator ---------------------------
(* Instances of Orchestrator for TLC: ids are model values. *)
EXTENDS Orchestrator, TLC

CONSTANTS j1, j2, v1, n1, n2, a1, a2, d1, d2, r1, r2

(* Ids of one kind are interchangeable: no definition tells them apart.    *)
Symmetry == Permutations(Attempts) \cup Permutations(Approvals)
            \cup Permutations(Dispatchers) \cup Permutations(Resolvers)
=============================================================================
