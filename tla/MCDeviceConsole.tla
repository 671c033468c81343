--------------------------- MODULE MCDeviceConsole ---------------------------
(* An instance of DeviceConsole for TLC: devices, keys, requests, listeners*)
(* and repositories are model values.                                      *)
EXTENDS DeviceConsole, TLC

CONSTANTS v1, k1, k2, k3, t1, l1, job, alpha, beta, main, calendar

(* A device with a scope, that hides a repository it finds and lists; one  *)
(* that only lists, and hides.                                             *)
MCAdvertised ==
    {[Unscoped EXCEPT !.allowed = {alpha}, !.discovered = {alpha, beta},
                      !.hidden = {beta}, !.listed = {<<alpha, {main}>>, <<beta, {}>>}],
     [Unscoped EXCEPT !.listed = {<<alpha, {main}>>}, !.hidden = {beta},
                      !.capabilities = {calendar}]}

Symmetry == Permutations(Keys \ ConfiguredRevoked)
=============================================================================
