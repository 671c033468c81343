------------------------ MODULE MCOrchestratorSigners ------------------------
(* Instances of OrchestratorSigners for TLC: keys are model values, and a  *)
(* configuration is any order of some of them.                             *)
EXTENDS OrchestratorSigners, SequencesExt, TLC

CONSTANTS k1, k2, k3, t1, t2

AnyOrder == UNION {SetToSeqs(keys) : keys \in SUBSET SigningKeys \ {{}}}
=============================================================================
