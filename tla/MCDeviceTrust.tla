---------------------------- MODULE MCDeviceTrust ----------------------------
(* Instances of DeviceTrust for TLC: devices, keys and requests are model  *)
(* values.                                                                 *)
EXTENDS DeviceTrust, TLC

CONSTANTS v1, k1, k2, k3, t1, t2

(* Keys that no configuration names are interchangeable, as are requests.  *)
Symmetry == Permutations(Keys \ ConfiguredRevoked) \cup Permutations(Requests)
=============================================================================
