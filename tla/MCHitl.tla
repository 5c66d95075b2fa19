------------------------------- MODULE MCHitl -------------------------------
(***************************************************************************)
(* The HITL bridge with two HTTP workers and two reviewers, and its audit  *)
(* trail with two request ids, two contents and room for one record in     *)
(* memory.  The bridge is modelled over what the trail promises, so a      *)
(* behaviour is one of the bridge or one of the trail.                     *)
(***************************************************************************)
EXTENDS HitlBridge, BridgeAuditTrail, TLC

VARIABLE part   \* the component that moves

AllScenarios == SUBSET FaultKinds

(* Sets of two that are permuted together: a behaviour uses only one.      *)
Together(S, T) ==
    {f \in Permutations(S \cup T) :
        /\ \A x \in S : f[x] \in S
        /\ (\A x \in S : f[x] = x) <=> (\A y \in T : f[y] = y)}

Symmetry == Together(Workers, RequestIds) \cup Together(Reviewers, Contents)

-----------------------------------------------------------------------------
HitlInit ==
    /\ part \in {"bridge", "trail"}
    /\ Init
    /\ TrailInit /\ (part # "trail" => faults = {})

HitlNext ==
    /\ UNCHANGED part
    /\ \/ part = "bridge" /\ Next /\ UNCHANGED trailVars
       \/ part = "trail" /\ TrailNext /\ UNCHANGED vars

HitlSpec == HitlInit /\ [][HitlNext]_<<part, vars, trailVars>>
=============================================================================
