------------------------------ MODULE MCThreads ------------------------------
(* An instance of ThreadRoutes for TLC: messages with what the code finds  *)
(* in them.                                                                *)
EXTENDS ThreadRoutes, TLC

CONSTANTS c1, c2, p1, p2, n1, n2

Clear == [execution |-> FALSE, capability |-> FALSE, refines |-> FALSE,
          readOnly |-> FALSE, override |-> None, repo |-> None, branch |-> None,
          update |-> None]

(* report    "Run the tests and report the failures": the search for       *)
(*           "repo" finds the "rt" of "report"                             *)
(* allow     "Allow changes on branch dev"                                 *)
(* calendar  "Check my calendar"                                           *)
(* tabs      "Use tabs instead"                                            *)
(* go        "Dispatch it": also a request to execute something            *)
(* thanks    "Thanks"                                                      *)
MCReading ==
    [report |-> [Clear EXCEPT !.execution = TRUE, !.readOnly = TRUE, !.repo = "rt",
                              !.update = "report"],
     allow |-> [Clear EXCEPT !.refines = TRUE, !.override = "workspace_change",
                             !.branch = "dev"],
     calendar |-> [Clear EXCEPT !.capability = TRUE, !.update = "calendar"],
     tabs |-> [Clear EXCEPT !.refines = TRUE, !.update = "tabs"],
     go |-> [Clear EXCEPT !.execution = TRUE, !.refines = TRUE],
     thanks |-> [Clear EXCEPT !.update = "thanks"]]
MCTexts == DOMAIN MCReading

(* A draft as it is shown; one made a capability's; a request in full.     *)
AsShown == [kind |-> "repository", name |-> None, branch |-> None,
            intent |-> None, prompt |-> None]
MCOrders == {AsShown,
             [AsShown EXCEPT !.kind = "capability"],
             [AsShown EXCEPT !.name = "alpha", !.intent = "read_only", !.prompt = "report"]}

(* Clients are interchangeable, and so are promoters and notes.            *)
Symmetry == Permutations(Clients) \cup Permutations(Promoters)
            \cup Permutations(NoteIds)
=============================================================================
