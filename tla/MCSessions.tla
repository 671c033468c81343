------------------------------ MODULE MCSessions ------------------------------
(* Instances of Sessions for TLC: tokens, names and requests are model     *)
(* values.                                                                 *)
EXTENDS Sessions, TLC

CONSTANTS k1, a1, t1, t2

Symmetry == Permutations(Tokens) \cup Permutations(Requests)
=============================================================================
