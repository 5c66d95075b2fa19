---------------------------- MODULE SelfHealing -----------------------------
(***************************************************************************)
(* How act finds its element (browser/act.rs) and how a lost one is looked *)
(* for by its signature (dom_signature.rs): by node id, by stable key in a *)
(* new capture, by the best match of the signature recorded for the key.   *)
(* The page renders whenever it likes, and a render gives every element a  *)
(* new node id.                                                            *)
(*                                                                         *)
(* An element has a role, an optional label (its set of words), an         *)
(* optional alias, attributes, a stable key, and no DOM node of its own if *)
(* it is not real (backend_node_id 0).  Policy and what a performed action *)
(* does are in other modules; here policy allows or refuses.               *)
(***************************************************************************)
EXTENDS Naturals, Sequences, FiniteSets

CONSTANTS
    Layouts,        \* sequences of elements a render may show
    IdentityAttrs,  \* IDENTITY_ATTRS
    MaxRenders,     \* bound: renders after the first
    MaxHealActs     \* bound: calls of act

(* A capture is finite, and so are a label's words and an element's        *)
(* attributes.                                                             *)
ASSUME HealAssumption ==
    \A layout \in Layouts :
        /\ Len(layout) \in Nat /\ DOMAIN layout = 1..Len(layout)
        /\ \A k \in DOMAIN layout : /\ IsFiniteSet(UNION layout[k].label)
                                   /\ IsFiniteSet(layout[k].attributes)

VARIABLES
    renders,        \* number of the render the page shows
    rendered,       \* its elements
    snapshot,       \* last_state of the capture cache: {} or {[render, elements]}
    recorded,     \* DOMSignatureCache: stable key -> signature
    healAt,         \* where act is: idle, id, key, enforce or perform
    healCall,       \* its arguments: [id, key], each optional
    healNode,       \* the node id found for it
    healed,         \* history: the last recovery, {} or {[signature, chosen, among]}
    healActs

healVars == <<renders, rendered, snapshot, recorded, healAt, healCall, healNode,
              healed, healActs>>

NoNode == <<0, 0>>
HealKeys == UNION {{layout[k].key : k \in DOMAIN layout} : layout \in Layouts}

(* node ids; a render's are its own *)
NodeId(render, k) == <<render, k>>
IsLive(id) == id[1] = renders /\ id[2] \in DOMAIN rendered /\ rendered[id[2]].real

-----------------------------------------------------------------------------
(* NodeSignature.                                                          *)

FromNode(e) ==
    [role |-> e.role, label |-> e.label, alias |-> e.alias,
     attributes |-> {a \in e.attributes : a[1] \in IdentityAttrs}]

(* Mutant: shared words are counted, not weighed against all of them.      *)
LabelSimilarityByWords(a, b) ==
    IF a = {} \/ b = {} THEN 0
    ELSE IF a = b THEN 30
    ELSE 20 * Cardinality((UNION a) \cap (UNION b))

(* Words of two labels: 30 if equal, else by the share they have in common *)
LabelSimilarity(a, b) ==
    IF a = {} \/ b = {} THEN 0
    ELSE IF a = b THEN 30
    ELSE IF (UNION a) \cup (UNION b) = {} THEN 0
    ELSE (30 * Cardinality((UNION a) \cap (UNION b)))
            \div Cardinality((UNION a) \cup (UNION b))

AtMost(n, limit) == IF n < limit THEN n ELSE limit

ScoreAgainst(sig, e) ==
    AtMost((IF sig.role = e.role THEN 35 ELSE 0)
           + LabelSimilarity(sig.label, e.label)
           + (IF sig.alias # {} /\ sig.alias = e.alias THEN 20 ELSE 0)
           + 10 * AtMost(Cardinality(sig.attributes \cap e.attributes), 3),
           100)

RecoveryThreshold == 45

-----------------------------------------------------------------------------
(* collect_interactive_nodes: every node of the capture with an id         *)
Candidates(captured) == {k \in DOMAIN captured.elements : captured.elements[k].real}

(* Mutant: any of the best.                                                *)
BestMatchOrAny(sig, captured) ==
    LET score(k) == ScoreAgainst(sig, captured.elements[k])
        near == {k \in Candidates(captured) : score(k) >= RecoveryThreshold}
        best == {k \in near : \A j \in near : score(j) <= score(k)}
    IN  IF best = {} THEN {} ELSE {CHOOSE k \in best : TRUE}

(* find_best_match; a tie is no match *)
BestMatch(sig, captured) ==
    LET score(k) == ScoreAgainst(sig, captured.elements[k])
        near == {k \in Candidates(captured) : score(k) >= RecoveryThreshold}
        best == {k \in near : \A j \in near : score(j) <= score(k)}
    IN  IF Cardinality(best) > 1 THEN {} ELSE best

Record(key, e) ==
    recorded' = [k \in DOMAIN recorded \cup {key} |->
                      IF k = key THEN FromNode(e) ELSE recorded[k]]

(* find_node_by_id *)
HasNode(captured, id) == captured.render = id[1] /\ id[2] \in DOMAIN captured.elements

(* record_dom_signature_for_node_id: if the cached capture has the node *)
RecordNodeId(key, id, cached) ==
    IF \E c \in cached : HasNode(c, id)
    THEN Record(key, (CHOOSE c \in cached : TRUE).elements[id[2]])
    ELSE UNCHANGED recorded

-----------------------------------------------------------------------------
NoCall == [id |-> {}, key |-> {}]

HealInit ==
    /\ renders = 1 /\ rendered \in Layouts
    /\ snapshot = {} /\ recorded = <<>>
    /\ healAt = "idle" /\ healCall = NoCall
    /\ healNode = NoNode /\ healed = {} /\ healActs = 0

(* the page, at any moment *)
Rerender ==
    /\ renders <= MaxRenders
    /\ renders' = renders + 1
    /\ rendered' \in Layouts
    /\ UNCHANGED <<snapshot, recorded, healAt, healCall, healNode, healed, healActs>>

CapturedNow == [render |-> renders, elements |-> rendered]

(* get_state or any other capture between calls *)
CaptureBetween ==
    /\ healAt = "idle"
    /\ snapshot' = {CapturedNow}
    /\ UNCHANGED <<renders, rendered, recorded, healAt, healCall, healNode, healed, healActs>>

ActReturns == healAt' = "idle" /\ healCall' = NoCall /\ healNode' = NoNode
ActGoesTo(at, id) == healAt' = at /\ healNode' = id /\ UNCHANGED healCall

(* act up to the first lookup, which policy may not let it reach *)
StartAct(id, key) ==
    /\ healAt = "idle" /\ healActs < MaxHealActs
    /\ healActs' = healActs + 1
    /\ IF id = {} /\ key = {} THEN ActReturns
       ELSE \/ /\ healAt' = IF id # {} THEN "id" ELSE "key"
               /\ healCall' = [id |-> id, key |-> key]
               /\ UNCHANGED healNode
            \/ ActReturns
    /\ UNCHANGED <<renders, rendered, snapshot, recorded, healed>>

(* act_by_target_id: a node that is gone leaves it to the key; any other   *)
(* error is the answer                                                     *)
ActByTargetId ==
    /\ healAt = "id"
    /\ \E id \in healCall.id :
          \/ /\ IsLive(id)
             /\ ActReturns
             /\ IF healCall.key = {} THEN UNCHANGED recorded
                ELSE \E key \in healCall.key : RecordNodeId(key, id, snapshot)
          \/ /\ ~IsLive(id) /\ healCall.key # {}
             /\ ActGoesTo("key", NoNode) /\ UNCHANGED recorded
          \/ ActReturns /\ UNCHANGED recorded
    /\ UNCHANGED <<renders, rendered, snapshot, healed, healActs>>

(* try_self_healing_recovery in the capture just made; what it finds is    *)
(* learned before policy is asked about it                                 *)
TryRecovery(key) ==
    LET matched == IF key \in DOMAIN recorded
                   THEN BestMatch(recorded[key], CapturedNow) ELSE {}
    IN  \/ \E k \in matched :
              /\ Record(key, rendered[k])
              /\ healed' = {[signature |-> recorded[key], chosen |-> k, among |-> rendered]}
              /\ ActGoesTo("enforce", NodeId(renders, k))
        \/ /\ matched = {}           \* AskHumanRequired
           /\ ActReturns /\ UNCHANGED <<recorded, healed>>

(* the stable-key index of a capture *)
Named(captured, key) ==
    {k \in Candidates(captured) : captured.elements[k].key = key}

(* act_by_stable_key: a new capture, its index, then recovery *)
ActByStableKey ==
    /\ healAt = "key"
    /\ \/ \E key \in healCall.key :
             LET named == Named(CapturedNow, key)
             IN  /\ snapshot' = {CapturedNow}
                 /\ \/ \E k \in named : /\ Record(key, rendered[k])
                                       /\ ActGoesTo("perform", NodeId(renders, k))
                                       /\ UNCHANGED healed
                    \/ named = {} /\ TryRecovery(key)
       \/ ActReturns /\ UNCHANGED <<snapshot, recorded, healed>>   \* the capture fails
    /\ UNCHANGED <<renders, rendered, healActs>>

(* enforce_policy on the element that was found *)
EnforceRecovered ==
    /\ healAt = "enforce"
    /\ ActGoesTo("perform", healNode) \/ ActReturns
    /\ UNCHANGED <<renders, rendered, snapshot, recorded, healed, healActs>>

(* perform_action_by_id; the page may have rendered again, and then it fails *)
PerformFound ==
    /\ healAt = "perform"
    /\ ActReturns
    /\ UNCHANGED <<renders, rendered, snapshot, recorded, healed, healActs>>

(* A caller names nodes of the render it saw, which may be an earlier one. *)
CallIds == {{}} \cup {{NodeId(r, k)} : r \in 1..renders, k \in 1..2}
CallKeys == {{}} \cup {{key} : key \in HealKeys}

HealNext ==
    \/ Rerender \/ CaptureBetween
    \/ \E id \in CallIds, key \in CallKeys : StartAct(id, key)
    \/ ActByTargetId \/ ActByStableKey \/ EnforceRecovered \/ PerformFound

HealSpec == HealInit /\ [][HealNext]_healVars

-----------------------------------------------------------------------------
(* Recovery never picks one of two elements it cannot tell apart by what a *)
(* signature has, whatever was learned in earlier recoveries.              *)
TwinsAreNotHealed ==
    \A h \in healed : \A k \in DOMAIN h.among :
        k # h.chosen /\ h.among[k].real =>
            FromNode(h.among[k]) # FromNode(h.among[h.chosen])

(* While an element with the recorded signature is on the page, no other   *)
(* is acted on in its place, however much it resembles it: not with more   *)
(* words, not with more attributes.                                        *)
ExactSurvivorWins ==
    \A h \in healed :
        (\E k \in DOMAIN h.among : h.among[k].real /\ FromNode(h.among[k]) = h.signature)
            => FromNode(h.among[h.chosen]) = h.signature

(* What an element has in common with a signature, by kind.                *)
Kinds == {"role", "label", "alias", "attributes"}
Agreements(sig, e) ==
    {kind \in Kinds :
        \/ kind = "role" /\ sig.role = e.role
        \/ /\ kind = "label" /\ sig.label # {} /\ e.label # {}
           /\ sig.label = e.label \/ (UNION sig.label) \cap (UNION e.label) # {}
        \/ kind = "alias" /\ sig.alias # {} /\ sig.alias = e.alias
        \/ kind = "attributes" /\ sig.attributes \cap e.attributes # {}}

(* No recovery rests on one kind of evidence, a role, a label, an alias or *)
(* attributes alone, however many attributes agree (RECOVERY_THRESHOLD):   *)
(* the element is one that reaches the threshold and agrees in two kinds.  *)
EvidenceIsOfTwoKinds ==
    \A h \in healed :
        LET e == h.among[h.chosen]
        IN  /\ e.real /\ ScoreAgainst(h.signature, e) >= RecoveryThreshold
            /\ \A kind \in Kinds : ~(Agreements(h.signature, e) \subseteq {kind})

(* A recovery is unambiguous, prefers the lost element while it is there,  *)
(* and where it is not takes none that agrees in one kind only.            *)
RecoveryFindsTheOne ==
    TwinsAreNotHealed /\ ExactSurvivorWins /\ EvidenceIsOfTwoKinds

(* The strengthening that makes it inductive: every signature on record is *)
(* that of an element some render showed.                                  *)
IsSignature(sig) == \E layout \in Layouts : \E k \in DOMAIN layout : sig = FromNode(layout[k])

HealInv ==
    /\ rendered \in Layouts
    /\ \A c \in snapshot : c.elements \in Layouts
    /\ \A c, d \in snapshot : c = d
    /\ \A key \in DOMAIN recorded : IsSignature(recorded[key])
    /\ RecoveryFindsTheOne
=============================================================================
