---------------------------- MODULE MCDeviceTargets ----------------------------
(* An instance of DeviceTargets for TLC, without consoles.                 *)
EXTENDS DeviceTargets, TLC

CONSTANTS v1, k1, k2, t1, t2, calendar

(* One target is enough, as targets have nothing to do with each other: a  *)
(* device has the capability or it has not.                                *)
MCAdvertised == {Unscoped, [Unscoped EXCEPT !.capabilities = {calendar}]}

(* Left out are the consoles and histories that no step reads.             *)
View == <<row, request, scope, carried, written, vouched>>

Symmetry == Permutations(Keys) \cup Permutations(Requests)
=============================================================================
