--------------------------- MODULE RepositoryScope ---------------------------
(***************************************************************************)
(* What a device says it serves, as its row holds it, and what is made of  *)
(* that: which repositories the console is offered (selectable_repositories*)
(* in services/jobs.rs, list_repositories in routes/devices.rs) and which  *)
(* targets a dispatch may name (ensure_target_allowed).                    *)
(***************************************************************************)
CONSTANTS Repos, Branches, Capabilities

(* roots is whether allowed_repo_roots names any.  Lists are sets: names   *)
(* are trimmed, and duplicates dropped, when a device registers.           *)
Scope == [allowed: SUBSET Repos, discovered: SUBSET Repos, hidden: SUBSET Repos,
          roots: BOOLEAN, listed: SUBSET (Repos \X SUBSET Branches),
          capabilities: SUBSET Capabilities]
Unscoped == [allowed |-> {}, discovered |-> {}, hidden |-> {}, roots |-> FALSE,
             listed |-> {}, capabilities |-> {}]

(* device_has_repo_scope: repositories that are only listed do not count.  *)
HasRepoScope(s) == s.allowed # {} \/ s.roots \/ s.discovered # {}

SelectableRepositories(s) ==
    {entry \in s.listed : entry[1] \notin s.hidden}
    \cup {<<name, {}>> : name \in (s.allowed \cup s.discovered) \ s.hidden}

SelectableRepoNames(s) == {entry[1] : entry \in SelectableRepositories(s)}

(* ensure_target_allowed, and the targets it lets through.                 *)
RepositoryAllowed(s, name) == HasRepoScope(s) => name \in SelectableRepoNames(s)
Targets(s) ==
    ({"repository"} \X {name \in Repos : RepositoryAllowed(s, name)})
    \cup ({"capability"} \X s.capabilities)
=============================================================================
