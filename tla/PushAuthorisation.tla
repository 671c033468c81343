-------------------------- MODULE PushAuthorisation --------------------------
(***************************************************************************)
(* What the approval flow promises, without tasks, messages or failures:   *)
(* a push is requested, an operator decides, and an approved request is    *)
(* pushed at most once.  An approval may be withdrawn for another decision *)
(* as long as nothing was pushed for it; a rejection is final.             *)
(***************************************************************************)
EXTENDS Naturals

CONSTANT Requests

VARIABLES decision, \* what has been decided on each request
          pushes    \* push commands published for each request

authVars == <<decision, pushes>>

Init ==
    /\ decision = [a \in Requests |-> "absent"]
    /\ pushes = [a \in Requests |-> 0]

Request(a) ==
    /\ decision[a] = "absent"
    /\ decision' = [decision EXCEPT ![a] = "pending"]
    /\ UNCHANGED pushes

Decide(a, verdict) ==
    /\ decision[a] = "pending"
    /\ decision' = [decision EXCEPT ![a] = verdict]
    /\ UNCHANGED pushes

Withdraw(a) ==
    /\ decision[a] = "approved" /\ pushes[a] = 0
    /\ decision' = [decision EXCEPT ![a] = "pending"]
    /\ UNCHANGED pushes

Push(a) ==
    /\ decision[a] = "approved" /\ pushes[a] = 0
    /\ pushes' = [pushes EXCEPT ![a] = 1]
    /\ UNCHANGED decision

Next == \E a \in Requests :
    \/ Request(a) \/ Withdraw(a) \/ Push(a)
    \/ \E verdict \in {"approved", "rejected"} : Decide(a, verdict)

Spec == Init /\ [][Next]_authVars
=============================================================================
