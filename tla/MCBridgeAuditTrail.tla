------------------------- MODULE MCBridgeAuditTrail -------------------------
(* Two request ids, two contents, room for one record in memory.           *)
EXTENDS BridgeAuditTrail, TLC

TornOnly == {{"torn"}}

Symmetry == Permutations(RequestIds) \cup Permutations(Contents)
=============================================================================
