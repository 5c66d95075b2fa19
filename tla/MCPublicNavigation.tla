------------------------- MODULE MCPublicNavigation -------------------------
(* A home page, a destination that needs an approval, a private one        *)
(* and one that a plugin vetoes.                                           *)
EXTENDS PublicNavigation
CONSTANTS home, guarded, private, vetoed

MCVerdicts == [d \in Dests |-> IF d = guarded THEN "require" ELSE "allow"]
MCScopes == [d \in Dests |-> "action_only"]
=============================================================================
