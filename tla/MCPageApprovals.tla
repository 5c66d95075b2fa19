-------------------------- MODULE MCPageApprovals --------------------------
(* One agent and its reviewers on a page with two URLs.                    *)
EXTENDS PageApprovals, TLC

(* One verdict and one scope for every URL and target.                     *)
Everywhere(verdict, scope) ==
    [p \in Paths |-> [x \in Targets |->
        [verdict |-> verdict, rule |-> CHOOSE r \in Rules : TRUE,
         scope |-> scope]]]

ScopePolicies == {Everywhere("require", s) : s \in Scopes}
StrictPolicies == ScopePolicies \ {Everywhere("require", "timeboxed")}
MixedPolicies ==
    {Everywhere(v, "action_only") : v \in {"allow", "block", "require"}}

Reviewers == Threads \ {Agent}
Symmetry ==
    Permutations(Reviewers) \cup Permutations(Loaders) \cup Permutations(Paths)
=============================================================================
