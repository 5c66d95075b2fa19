-------------------------- MODULE Services_proofs ---------------------------
(***************************************************************************)
(* What the services around a page give back: proofs for every page,       *)
(* render, call and order of events.                                       *)
(***************************************************************************)
EXTENDS SelfHealing, StateDelivery, StdioTransport, McpBackend, McpServer, Extraction,
        FiniteSetTheorems, FunctionTheorems, SequenceTheorems, WellFoundedInduction, TLAPS

-----------------------------------------------------------------------------
(* Self-healing of lost targets.                                            *)

(* A share of at most all.                                                  *)
LEMMA ShareBound ==
    ASSUME NEW n \in Nat, NEW m \in Nat \ {0}, n <= m
    PROVE  (30 * n) \div m \in Nat /\ (30 * n) \div m <= 30
OBVIOUS

(* Labels are never more alike than a label is to itself.                   *)
LEMMA LabelBound ==
    ASSUME NEW a, NEW b, IsFiniteSet(UNION a), IsFiniteSet(UNION b)
    PROVE  /\ LabelSimilarity(a, b) \in Nat
           /\ LabelSimilarity(a, b) <= LabelSimilarity(a, a)
           /\ LabelSimilarity(a, a) <= 30
<1> PICK A, B : A = UNION a /\ B = UNION b
  OBVIOUS
<1>1. LabelSimilarity(a, a) = IF a = {} THEN 0 ELSE 30
  BY DEF LabelSimilarity
<1>2. CASE a = {} \/ b = {} \/ a = b
  BY <1>1, <1>2 DEF LabelSimilarity
<1>3. CASE ~(a = {} \/ b = {} \/ a = b) /\ A \cup B = {}
  BY <1>1, <1>3 DEF LabelSimilarity
<1>4. CASE ~(a = {} \/ b = {} \/ a = b) /\ A \cup B # {}
  <2> PICK n, m : n = Cardinality(A \cap B) /\ m = Cardinality(A \cup B)
    OBVIOUS
  <2>1. IsFiniteSet(A \cup B)
    BY FS_Union
  <2>2. IsFiniteSet(A \cap B) /\ n <= m
    BY <2>1, FS_Subset
  <2>3. n \in Nat /\ m \in Nat \ {0}
    BY <1>4, <2>1, <2>2, FS_CardinalityType, FS_EmptySet
  <2>4. LabelSimilarity(a, b) = (30 * n) \div m
    BY <1>4 DEF LabelSimilarity
  <2> QED BY <1>1, <1>4, <2>2, <2>3, <2>4, ShareBound
<1> QED BY <1>2, <1>3, <1>4

(* Two members are more than one.                                           *)
LEMMA TwoAreMore ==
    ASSUME NEW S, IsFiniteSet(S), NEW x \in S, NEW y \in S, x # y
    PROVE  Cardinality(S) > 1
<1>1. IsFiniteSet({x}) /\ Cardinality({x}) = 1
  BY FS_Singleton
<1>2. IsFiniteSet(S \ {x}) /\ Cardinality(S \ {x}) = Cardinality(S) - 1
  BY FS_RemoveElement
<1>3. Cardinality(S \ {x}) \in Nat /\ Cardinality(S \ {x}) # 0 /\ Cardinality(S) \in Nat
  BY <1>2, FS_CardinalityType, FS_EmptySet
<1> QED BY <1>2, <1>3

(* What an element of a layout has.                                         *)
IsElement(e) == IsFiniteSet(UNION e.label) /\ IsFiniteSet(e.attributes)

(* What a signature has.                                                    *)
HasParts(sig) ==
    /\ IsFiniteSet(UNION sig.label) /\ IsFiniteSet(sig.attributes)
    /\ \A a \in sig.attributes : a[1] \in IdentityAttrs

Shared(sig, e) == Cardinality(sig.attributes \cap e.attributes)

(* What is shared is some of what the signature has.                        *)
LEMMA SharedBound ==
    ASSUME NEW sig, HasParts(sig), NEW e
    PROVE  /\ Shared(sig, e) \in Nat
           /\ Shared(sig, e) <= Cardinality(sig.attributes)
           /\ Cardinality(sig.attributes) \in Nat
<1>1. IsFiniteSet(sig.attributes \cap e.attributes)
      /\ Cardinality(sig.attributes \cap e.attributes) <= Cardinality(sig.attributes)
  BY FS_Subset DEF HasParts
<1> QED BY <1>1, FS_CardinalityType DEF Shared, HasParts

(* The parts of a score.                                                    *)
RolePart(sig, e) == IF sig.role = e.role THEN 35 ELSE 0
AliasPart(sig, e) == IF sig.alias # {} /\ sig.alias = e.alias THEN 20 ELSE 0

(* An element with the signature itself scores as high as any.              *)
LEMMA ExactScoresBest ==
    ASSUME NEW sig, HasParts(sig), NEW e, IsElement(e), NEW k, IsElement(k), FromNode(k) = sig
    PROVE  /\ ScoreAgainst(sig, e) \in Nat /\ ScoreAgainst(sig, k) \in Nat
           /\ ScoreAgainst(sig, e) <= ScoreAgainst(sig, k)
<1>1. /\ sig.role = k.role /\ sig.label = k.label /\ sig.alias = k.alias
      /\ sig.attributes \subseteq k.attributes
  BY DEF FromNode
<1>2. sig.attributes \cap k.attributes = sig.attributes
  BY <1>1
<1> PICK x, y : x = Shared(sig, e) /\ y = Shared(sig, k)
  OBVIOUS
<1>3. x \in Nat /\ y \in Nat /\ x <= y
  BY <1>2, SharedBound DEF Shared
<1> PICK lx, ly : lx = LabelSimilarity(sig.label, e.label) /\ ly = LabelSimilarity(sig.label, k.label)
  OBVIOUS
<1>4. lx \in Nat /\ ly \in Nat /\ lx <= ly
  BY <1>1, LabelBound DEF HasParts, IsElement
<1> PICK rx, ry : rx = RolePart(sig, e) /\ ry = RolePart(sig, k)
  OBVIOUS
<1>5. rx \in Nat /\ ry \in Nat /\ rx <= ry
  BY <1>1 DEF RolePart
<1> PICK ax, ay : ax = AliasPart(sig, e) /\ ay = AliasPart(sig, k)
  OBVIOUS
<1>6. ax \in Nat /\ ay \in Nat /\ ax <= ay
  BY <1>1 DEF AliasPart
<1>7. /\ ScoreAgainst(sig, e) = AtMost(rx + lx + ax + 10 * AtMost(x, 3), 100)
      /\ ScoreAgainst(sig, k) = AtMost(ry + ly + ay + 10 * AtMost(y, 3), 100)
  BY DEF ScoreAgainst, RolePart, AliasPart, Shared
<1>8. AtMost(x, 3) \in Nat /\ AtMost(y, 3) \in Nat /\ AtMost(x, 3) <= AtMost(y, 3)
  BY <1>3 DEF AtMost
<1> PICK px, py : px = rx + lx + ax + 10 * AtMost(x, 3) /\ py = ry + ly + ay + 10 * AtMost(y, 3)
  OBVIOUS
<1>9. px \in Nat /\ py \in Nat /\ px <= py
  BY <1>4, <1>5, <1>6, <1>8
<1>10. AtMost(px, 100) \in Nat /\ AtMost(py, 100) \in Nat /\ AtMost(px, 100) <= AtMost(py, 100)
  BY <1>9 DEF AtMost
<1> QED BY <1>7, <1>10

(* Elements with one signature score alike.                                 *)
LEMMA TwinsScoreAlike ==
    ASSUME NEW sig, HasParts(sig), NEW e, NEW k, FromNode(e) = FromNode(k)
    PROVE  ScoreAgainst(sig, e) = ScoreAgainst(sig, k)
<1>1. e.role = k.role /\ e.label = k.label /\ e.alias = k.alias
  BY DEF FromNode
<1>2. {a \in e.attributes : a[1] \in IdentityAttrs} = {a \in k.attributes : a[1] \in IdentityAttrs}
  BY DEF FromNode
<1>3. sig.attributes \cap e.attributes = sig.attributes \cap k.attributes
  BY <1>2 DEF HasParts
<1> QED BY <1>1, <1>3 DEF ScoreAgainst

(* One kind of evidence stays below the threshold.                          *)
LEMMA OneKindIsNotEnough ==
    ASSUME NEW sig, HasParts(sig), NEW e, IsElement(e), NEW kind \in Kinds,
           Agreements(sig, e) \subseteq {kind}
    PROVE  ~(ScoreAgainst(sig, e) >= RecoveryThreshold)
<1> PICK x : x = Shared(sig, e)
  OBVIOUS
<1> PICK l : l = LabelSimilarity(sig.label, e.label)
  OBVIOUS
<1> PICK r : r = RolePart(sig, e)
  OBVIOUS
<1> PICK a : a = AliasPart(sig, e)
  OBVIOUS
<1>1. x \in Nat /\ l \in Nat /\ l <= 30 /\ r \in {0, 35} /\ a \in {0, 20}
  <2>1. x \in Nat
    BY SharedBound
  <2>2. l \in Nat /\ l <= 30
    <3>1. /\ LabelSimilarity(sig.label, e.label) \in Nat
          /\ LabelSimilarity(sig.label, e.label) <= LabelSimilarity(sig.label, sig.label)
          /\ LabelSimilarity(sig.label, sig.label) <= 30
      BY LabelBound DEF HasParts, IsElement
    <3>2. LabelSimilarity(sig.label, sig.label) \in Nat
      BY LabelBound DEF HasParts
    <3> QED BY <3>1, <3>2
  <2>3. r \in {0, 35} /\ a \in {0, 20}
    BY DEF RolePart, AliasPart
  <2> QED BY <2>1, <2>2, <2>3
<1>2. "role" \notin Agreements(sig, e) => r = 0
  BY DEF Agreements, RolePart, Kinds
<1>3. "alias" \notin Agreements(sig, e) => a = 0
  BY DEF Agreements, AliasPart, Kinds
<1>4. "attributes" \notin Agreements(sig, e) => x = 0
  BY FS_EmptySet DEF Agreements, Shared, Kinds
<1>5. "label" \notin Agreements(sig, e) => l = 0
  <2> SUFFICES ASSUME "label" \notin Agreements(sig, e), sig.label # {}, e.label # {}
               PROVE  l = 0
    BY DEF LabelSimilarity
  <2>1. sig.label # e.label /\ (UNION sig.label) \cap (UNION e.label) = {}
    BY DEF Agreements, Kinds
  <2>2. CASE (UNION sig.label) \cup (UNION e.label) = {}
    BY <2>1, <2>2 DEF LabelSimilarity
  <2>3. CASE (UNION sig.label) \cup (UNION e.label) # {}
    <3> PICK m : m = Cardinality((UNION sig.label) \cup (UNION e.label))
      OBVIOUS
    <3>1. IsFiniteSet((UNION sig.label) \cup (UNION e.label))
      BY FS_Union DEF HasParts, IsElement
    <3>2. m \in Nat \ {0}
      BY <2>3, <3>1, FS_CardinalityType, FS_EmptySet
    <3>3. Cardinality((UNION sig.label) \cap (UNION e.label)) = 0
      BY <2>1, FS_EmptySet
    <3>4. l = (30 * 0) \div m
      BY <2>1, <2>3, <3>3 DEF LabelSimilarity
    <3> QED BY <3>2, <3>4
  <2> QED BY <2>2, <2>3
<1>6. AtMost(x, 3) \in 0..3 /\ (x = 0 => AtMost(x, 3) = 0)
  BY <1>1 DEF AtMost
<1> PICK n : n = AtMost(x, 3)
  OBVIOUS
<1>7. r + l + a + 10 * n <= 35
  <2>1. kind = "role" => l = 0 /\ a = 0 /\ n = 0
    BY <1>3, <1>4, <1>5, <1>6
  <2>2. kind = "label" => r = 0 /\ a = 0 /\ n = 0
    BY <1>2, <1>3, <1>4, <1>6
  <2>3. kind = "alias" => r = 0 /\ l = 0 /\ n = 0
    BY <1>2, <1>4, <1>5, <1>6
  <2>4. kind = "attributes" => r = 0 /\ l = 0 /\ a = 0
    BY <1>2, <1>3, <1>5
  <2>5. n \in 0..3 /\ kind \in {"role", "label", "alias", "attributes"}
    BY <1>6 DEF Kinds
  <2>6. (l = 0 /\ a = 0 /\ n = 0) \/ (r = 0 /\ a = 0 /\ n = 0)
        \/ (r = 0 /\ l = 0 /\ n = 0) \/ (r = 0 /\ l = 0 /\ a = 0)
    BY <2>1, <2>2, <2>3, <2>4, <2>5
  <2> QED BY ONLY <1>1, <2>5, <2>6
<1>8. ScoreAgainst(sig, e) = AtMost(r + l + a + 10 * n, 100)
  BY DEF ScoreAgainst, RolePart, AliasPart, Shared
<1> PICK s : s = r + l + a + 10 * n
  OBVIOUS
<1>9. s \in Nat /\ s <= 35
  BY <1>1, <1>6, <1>7
<1> QED BY <1>8, <1>9 DEF AtMost, RecoveryThreshold

(* find_best_match answers with the one best element, if there is one.      *)
LEMMA BestIsOne ==
    ASSUME NEW layout \in Layouts, NEW captured, captured.elements = layout,
           NEW sig, HasParts(sig), NEW c \in BestMatch(sig, captured)
    PROVE  /\ c \in DOMAIN layout
           /\ \A k \in DOMAIN layout : k # c /\ layout[k].real =>
                 FromNode(layout[k]) # FromNode(layout[c])
           /\ (\E k \in DOMAIN layout : layout[k].real /\ FromNode(layout[k]) = sig) =>
                 FromNode(layout[c]) = sig
           /\ layout[c].real /\ ScoreAgainst(sig, layout[c]) >= RecoveryThreshold
           /\ \A kind \in Kinds : ~(Agreements(sig, layout[c]) \subseteq {kind})
<1> DEFINE score(k) == ScoreAgainst(sig, layout[k])
           near == {k \in Candidates(captured) : score(k) >= RecoveryThreshold}
           best == {k \in near : \A j \in near : score(j) <= score(k)}
<1>1. c \in best /\ ~(Cardinality(best) > 1)
  BY DEF BestMatch
<1>2. Candidates(captured) = {k \in DOMAIN layout : layout[k].real}
  BY DEF Candidates
<1>3. Len(layout) \in Nat /\ DOMAIN layout = 1..Len(layout)
      /\ \A k \in DOMAIN layout : IsElement(layout[k])
  BY HealAssumption DEF IsElement
<1>4. IsFiniteSet(best)
  <2>1. 1 \in Int /\ Len(layout) \in Int
    BY <1>3
  <2>2. IsFiniteSet(1..Len(layout))
    BY <2>1, FS_Interval
  <2>3. best \in SUBSET (1..Len(layout))
    BY <1>2, <1>3
  <2> HIDE DEF best
  <2> QED BY <2>2, <2>3, FS_Subset
<1>5. \A k \in best : k = c
  <2> HIDE DEF best
  <2> QED BY <1>1, <1>4, TwoAreMore
<1>6. c \in DOMAIN layout /\ layout[c].real /\ score(c) >= RecoveryThreshold
      /\ \A j \in near : score(j) <= score(c)
  BY <1>1, <1>2
<1>7. ASSUME NEW k \in DOMAIN layout, layout[k].real, score(k) >= RecoveryThreshold,
             score(c) <= score(k), score(k) \in Nat, score(c) \in Nat
      PROVE  k = c
  <2>1. k \in near
    BY <1>2, <1>7
  <2>2. score(k) = score(c)
    <3>1. score(k) <= score(c)
      BY <1>6, <2>1
    <3> HIDE DEF score
    <3> QED BY <1>7, <3>1
  <2>3. k \in best
    BY <1>6, <2>1, <2>2
  <2> QED BY <1>5, <2>3
<1>8. ASSUME NEW k \in DOMAIN layout, k # c, layout[k].real,
             FromNode(layout[k]) = FromNode(layout[c])
      PROVE  FALSE
  <2>1. score(k) = score(c)
    BY <1>8, TwinsScoreAlike
  <2>2. k \in best
    BY <1>2, <1>6, <1>8, <2>1
  <2> QED BY <1>5, <1>8, <2>2
<1>9. ASSUME NEW k \in DOMAIN layout, layout[k].real, FromNode(layout[k]) = sig
      PROVE  FromNode(layout[c]) = sig
  <2>1. score(c) \in Nat /\ score(k) \in Nat /\ score(c) <= score(k)
    BY <1>3, <1>6, <1>9, ExactScoresBest
  <2>2. score(k) >= RecoveryThreshold
    <3> HIDE DEF score
    <3> QED BY <1>6, <2>1 DEF RecoveryThreshold
  <2>3. k = c
    <3> HIDE DEF score
    <3> QED BY <1>7, <1>9, <2>1, <2>2
  <2> QED BY <1>9, <2>3
<1>10. \A kind \in Kinds : ~(Agreements(sig, layout[c]) \subseteq {kind})
  <2>1. IsElement(layout[c]) /\ ScoreAgainst(sig, layout[c]) >= RecoveryThreshold
    BY <1>3, <1>6
  <2> QED BY <2>1, OneKindIsNotEnough
<1> QED BY <1>6, <1>8, <1>9, <1>10

(* Signatures come from elements, and so have an element's parts.           *)
LEMMA SignatureParts ==
    ASSUME NEW sig, IsSignature(sig)
    PROVE  HasParts(sig)
<1>0. PICK layout \in Layouts : \E k \in DOMAIN layout : sig = FromNode(layout[k])
  BY DEF IsSignature
<1>1. PICK k \in DOMAIN layout : sig = FromNode(layout[k])
  BY <1>0
<1>2. IsFiniteSet(UNION layout[k].label) /\ IsFiniteSet(layout[k].attributes)
  BY HealAssumption
<1>3. sig.label = layout[k].label
      /\ sig.attributes = {a \in layout[k].attributes : a[1] \in IdentityAttrs}
  BY <1>1 DEF FromNode
<1>4. IsFiniteSet({a \in layout[k].attributes : a[1] \in IdentityAttrs})
  BY <1>2, FS_Subset
<1> QED BY <1>2, <1>3, <1>4 DEF HasParts

AllSignatures == \A key \in DOMAIN recorded : IsSignature(recorded[key])

(* Recording an element keeps signatures what they are.                     *)
LEMMA RecordKeeps ==
    ASSUME AllSignatures, NEW layout \in Layouts, NEW k \in DOMAIN layout, NEW key,
           Record(key, layout[k])
    PROVE  AllSignatures'
<1>1. IsSignature(FromNode(layout[k]))
  BY DEF IsSignature
<1>2. DOMAIN recorded' = DOMAIN recorded \cup {key}
      /\ \A x \in DOMAIN recorded' :
            recorded'[x] = IF x = key THEN FromNode(layout[k]) ELSE recorded[x]
  BY DEF Record
<1> QED BY <1>1, <1>2 DEF AllSignatures

(* A step that changes neither the record of recoveries nor more than one   *)
(* of the captures keeps the invariant.                                     *)
LEMMA HealFrame ==
    ASSUME HealInv, rendered' \in Layouts, UNCHANGED healed, AllSignatures',
           snapshot' = snapshot \/ (\E c : snapshot' = {c} /\ c.elements \in Layouts)
    PROVE  HealInv'
<1>1. RecoveryFindsTheOne'
  BY DEF HealInv, RecoveryFindsTheOne, TwinsAreNotHealed, ExactSurvivorWins,
     EvidenceIsOfTwoKinds
<1>2. (\A c \in snapshot' : c.elements \in Layouts) /\ (\A c, d \in snapshot' : c = d)
  BY DEF HealInv
<1> QED BY <1>1, <1>2 DEF HealInv, AllSignatures

(* Nothing has been healed at the start.                                    *)
LEMMA HealStarts ==
    ASSUME HealInit
    PROVE  HealInv
BY DEF HealInit, HealInv, RecoveryFindsTheOne, TwinsAreNotHealed, ExactSurvivorWins,
       EvidenceIsOfTwoKinds

(* Recovery in the capture just made: what it picks is the one.             *)
LEMMA RecoveryKeeps ==
    ASSUME HealInv, NEW key, TryRecovery(key), rendered' = rendered,
           snapshot' = {CapturedNow}
    PROVE  HealInv'
<1>1. AllSignatures /\ rendered \in Layouts
  BY DEF HealInv, AllSignatures
<1>2. CapturedNow.elements = rendered
  BY DEF CapturedNow
<1>3. CASE UNCHANGED <<recorded, healed>>
  BY <1>1, <1>2, <1>3, HealFrame DEF AllSignatures
<1>4. ASSUME NEW k, key \in DOMAIN recorded, k \in BestMatch(recorded[key], CapturedNow),
             Record(key, rendered[k]),
             healed' = {[signature |-> recorded[key], chosen |-> k, among |-> rendered]}
      PROVE  HealInv'
  <2>1. HasParts(recorded[key])
    BY <1>1, <1>4, SignatureParts DEF AllSignatures
  <2>2. /\ k \in DOMAIN rendered
        /\ \A j \in DOMAIN rendered : j # k /\ rendered[j].real =>
              FromNode(rendered[j]) # FromNode(rendered[k])
        /\ (\E j \in DOMAIN rendered : rendered[j].real /\ FromNode(rendered[j]) = recorded[key])
              => FromNode(rendered[k]) = recorded[key]
        /\ rendered[k].real /\ ScoreAgainst(recorded[key], rendered[k]) >= RecoveryThreshold
        /\ \A kind \in Kinds : ~(Agreements(recorded[key], rendered[k]) \subseteq {kind})
    BY <1>1, <1>2, <1>4, <2>1, BestIsOne
  <2>3. AllSignatures'
    BY <1>1, <1>4, <2>2, RecordKeeps
  <2> PICK h : h = [signature |-> recorded[key], chosen |-> k, among |-> rendered]
    OBVIOUS
  <2>4. healed' = {h} /\ h.signature = recorded[key] /\ h.chosen = k /\ h.among = rendered
    BY <1>4
  <2>5. TwinsAreNotHealed'
    BY <2>2, <2>4 DEF TwinsAreNotHealed
  <2>6. ExactSurvivorWins'
    BY <2>2, <2>4 DEF ExactSurvivorWins
  <2>8. EvidenceIsOfTwoKinds'
    BY <2>2, <2>4 DEF EvidenceIsOfTwoKinds
  <2>7. (\A c \in snapshot' : c.elements \in Layouts) /\ (\A c, d \in snapshot' : c = d)
    BY <1>1, <1>2
  <2> QED BY <1>1, <2>3, <2>5, <2>6, <2>7, <2>8 DEF HealInv, RecoveryFindsTheOne, AllSignatures
<1> QED BY <1>3, <1>4 DEF TryRecovery

(* act on a node id learns the element the cached capture shows under it.   *)
LEMMA ByTargetIdKeeps ==
    ASSUME HealInv, ActByTargetId
    PROVE  HealInv'
<1>1. UNCHANGED <<rendered, snapshot, healed>>
  BY DEF ActByTargetId
<1>2. AllSignatures /\ rendered \in Layouts
  BY DEF HealInv, AllSignatures
<1>3. ASSUME NEW key, NEW id, RecordNodeId(key, id, snapshot)
      PROVE  AllSignatures'
  <2>1. CASE UNCHANGED recorded
    BY <1>2, <2>1 DEF AllSignatures
  <2>2. ASSUME NEW c \in snapshot, HasNode(c, id)
        PROVE  AllSignatures'
    <3>1. (CHOOSE x \in snapshot : TRUE) = c
      BY DEF HealInv
    <3>2. c.elements \in Layouts /\ id[2] \in DOMAIN c.elements
      BY <2>2 DEF HealInv, HasNode
    <3>3. Record(key, c.elements[id[2]])
      BY <1>3, <2>2, <3>1 DEF RecordNodeId
    <3> QED BY <1>2, <3>2, <3>3, RecordKeeps
  <2> QED BY <1>3, <2>1, <2>2 DEF RecordNodeId
<1>4. AllSignatures'
  <2>1. UNCHANGED recorded \/ \E key, id : RecordNodeId(key, id, snapshot)
    BY DEF ActByTargetId
  <2> QED BY <1>2, <1>3, <2>1 DEF AllSignatures
<1> QED BY <1>1, <1>2, <1>4, HealFrame

(* An act by stable key, the element found or recovered, keeps it.         *)
LEMMA ByStableKeyKeeps ==
    ASSUME HealInv, ActByStableKey
    PROVE  HealInv'
<1>1. UNCHANGED rendered
  BY DEF ActByStableKey
<1>2. AllSignatures /\ rendered \in Layouts /\ CapturedNow.elements = rendered
  BY DEF HealInv, AllSignatures, CapturedNow
<1>3. CASE UNCHANGED <<snapshot, recorded, healed>>
  BY <1>1, <1>2, <1>3, HealFrame DEF AllSignatures
<1>4. ASSUME NEW key, NEW k \in Named(CapturedNow, key), snapshot' = {CapturedNow},
             Record(key, rendered[k]), UNCHANGED healed
      PROVE  HealInv'
  <2>1. k \in DOMAIN rendered
    BY <1>2 DEF Named, Candidates
  <2>2. AllSignatures'
    BY <1>2, <1>4, <2>1, RecordKeeps
  <2> QED BY <1>1, <1>2, <1>4, <2>2, HealFrame
<1>5. ASSUME NEW key, snapshot' = {CapturedNow}, TryRecovery(key)
      PROVE  HealInv'
  BY <1>1, <1>5, RecoveryKeeps
<1> QED BY <1>3, <1>4, <1>5 DEF ActByStableKey

(* Every step keeps the invariant.                                          *)
LEMMA HealStep ==
    ASSUME HealInv, [HealNext]_healVars
    PROVE  HealInv'
<1>1. AllSignatures /\ rendered \in Layouts /\ CapturedNow.elements = rendered
  BY DEF HealInv, AllSignatures, CapturedNow
<1>2. CASE Rerender
  BY <1>1, <1>2, HealFrame DEF Rerender, AllSignatures
<1>3. CASE CaptureBetween
  BY <1>1, <1>3, HealFrame DEF CaptureBetween, AllSignatures
<1>4. ASSUME UNCHANGED <<rendered, snapshot, recorded, healed>> PROVE HealInv'
  BY <1>1, <1>4, HealFrame DEF AllSignatures
<1>5. ASSUME NEW id, NEW key, StartAct(id, key) PROVE HealInv'
  BY <1>4, <1>5 DEF StartAct
<1>6. CASE EnforceRecovered \/ PerformFound \/ UNCHANGED healVars
  BY <1>4, <1>6 DEF EnforceRecovered, PerformFound, healVars
<1> QED BY <1>2, <1>3, <1>5, <1>6, ByTargetIdKeeps, ByStableKeyKeeps DEF HealNext

(* For every page, render and order of calls: recovery never picks one of   *)
(* two elements it cannot tell apart, never another element while one with  *)
(* the recorded signature is there, and none below the threshold or alike   *)
(* in one kind only.                                                        *)
THEOREM RecoveryIsRight == HealSpec => []RecoveryFindsTheOne
<1>1. HealInit => HealInv
  BY HealStarts
<1>2. HealInv /\ [HealNext]_healVars => HealInv'
  BY HealStep
<1>3. HealInv => RecoveryFindsTheOne
  BY DEF HealInv
<1> QED BY <1>1, <1>2, <1>3, PTL DEF HealSpec

-----------------------------------------------------------------------------
(* How a captured tree reaches a reader.                                    *)

(* A set of naturals that is not empty has a least member.                  *)
LEMMA LeastOf ==
    ASSUME NEW T \in SUBSET Nat, T # {}
    PROVE  \E x \in T : \A y \in T : x <= y
<1>1. IsWellFoundedOn(OpToRel(<, Nat), Nat)
  BY NatLessThanWellFounded
<1>2. PICK x \in T : \A y \in T : ~ (<<y, x>> \in OpToRel(<, Nat))
  BY <1>1, WFMin, Zenon
<1>3. \A y \in T : ~ (y < x)
  BY <1>2 DEF OpToRel
<1> QED BY <1>3

(* The ancestors of a path, nearest last, without and with itself.          *)
Ups(p) == {SubSeq(p, 1, k) : k \in 0 .. Len(p) - 1}
Around(p) == {SubSeq(p, 1, k) : k \in 0 .. Len(p)}

(* A path's ancestors are its parent's and its parent.                      *)
LEMMA UpsOfPath ==
    ASSUME NEW p \in Seq(Nat)
    PROVE  /\ Around(p) = Ups(p) \cup {p}
           /\ p = <<>> => Ups(p) = {}
           /\ p # <<>> => /\ Above(p) \in Seq(Nat) /\ Len(Above(p)) < Len(p)
                          /\ Ups(p) = Around(Above(p))
           /\ Len(p) \in Nat
           /\ p \notin Ups(p)
<1>0. Len(p) \in Nat
  OBVIOUS
<1>1. SubSeq(p, 1, Len(p)) = p
  BY SubSeqFull
<1>2. \A k \in 0 .. Len(p) : /\ Len(SubSeq(p, 1, k)) = k
                             /\ SubSeq(p, 1, k) \in Seq(Nat)
  <2> SUFFICES ASSUME NEW k \in 0 .. Len(p)
               PROVE  /\ Len(SubSeq(p, 1, k)) = k
                      /\ SubSeq(p, 1, k) \in Seq(Nat)
    OBVIOUS
  <2>1. \A i \in 1 .. k : p[i] \in Nat
    BY <1>0
  <2> QED BY <2>1, SubSeqProperties, <1>0
<1>3. Around(p) = Ups(p) \cup {p}
  <2>1. \A k : k \in 0 .. Len(p) <=> (k \in 0 .. Len(p) - 1 \/ k = Len(p))
    BY <1>0
  <2> QED BY <2>1, <1>1 DEF Around, Ups
<1>4. p = <<>> => Ups(p) = {}
  <2> SUFFICES ASSUME p = <<>> PROVE Ups(p) = {}
    OBVIOUS
  <2>1. Len(p) = 0
    OBVIOUS
  <2> QED BY <2>1 DEF Ups
<1>5. ASSUME p # <<>>
      PROVE  /\ Above(p) \in Seq(Nat) /\ Len(Above(p)) < Len(p)
             /\ Ups(p) = Around(Above(p))
  <2>1. Len(p) > 0
    BY <1>5, EmptySeq
  <2>0. Len(p) - 1 \in 0 .. Len(p)
    BY <2>1, <1>0
  <2>2. Above(p) \in Seq(Nat) /\ Len(Above(p)) = Len(p) - 1
    BY <1>2, <2>0 DEF Above
  <2>3. ASSUME NEW k \in 0 .. Len(p) - 1
        PROVE  SubSeq(Above(p), 1, k) = SubSeq(p, 1, k)
    <3>1. CASE k = 0
      <4>1. SubSeq(Above(p), 1, k) = <<>> /\ SubSeq(p, 1, k) = <<>>
        BY <3>1, SubSeqEmpty
      <4> QED BY <4>1
    <3>2. CASE k # 0
      <4>1. 1 \in 1 .. Len(p) /\ Len(p) - 1 \in 1 .. Len(p)
            /\ k \in 1 .. (Len(p) - 1) - 1 + 1 /\ 1 \in 1 .. (Len(p) - 1) - 1 + 1
        BY <1>0, <2>1, <2>3, <3>2
      <4>2. SubSeq(SubSeq(p, 1, Len(p) - 1), 1, k) = SubSeq(p, 1 + 1 - 1, 1 + k - 1)
        BY <4>1, SubSeqOfSubSeq
      <4>3. 1 + 1 - 1 = 1 /\ 1 + k - 1 = k
        BY <2>3
      <4> QED BY <4>2, <4>3 DEF Above
    <3> QED BY <3>1, <3>2
  <2>4. Around(Above(p)) = {SubSeq(Above(p), 1, k) : k \in 0 .. Len(p) - 1}
    BY <2>2 DEF Around
  <2>5. Ups(p) = Around(Above(p))
    BY <2>3, <2>4 DEF Ups
  <2>6. Len(Above(p)) < Len(p)
    BY <2>2, <1>0
  <2> QED BY <2>2, <2>5, <2>6
<1>6. p \notin Ups(p)
  BY <1>2, <1>0 DEF Ups
<1> QED BY <1>0, <1>3, <1>4, <1>5, <1>6

(* What is passed down to a node tells whether an ancestor is sectioning.   *)
PassesSectioning(f, t) ==
    f = [p \in DOMAIN t |->
            p # <<>> /\ (f[Above(p)] \/ IsSectioning(t[Above(p)]))]

SomeUp(t, p) == \E r \in Ups(p) : IsSectioning(t[r])

(* The flag passed down for sectioning says: some ancestor sections.        *)
LEMMA SectioningIsAbove ==
    ASSUME NEW t, IsTree(t)
    PROVE  \A p \in DOMAIN t : InSectioning(t)[p] <=> SomeUp(t, p)
<1>1. \A p \in DOMAIN t : p \in Seq(Nat) /\ (p # <<>> => Above(p) \in DOMAIN t)
  BY DEF IsTree
<1>2. \A p \in DOMAIN t :
        SomeUp(t, p) <=> (p # <<>> /\ (SomeUp(t, Above(p)) \/ IsSectioning(t[Above(p)])))
  <2> SUFFICES ASSUME NEW p \in DOMAIN t
               PROVE  SomeUp(t, p) <=> (p # <<>> /\ (SomeUp(t, Above(p)) \/ IsSectioning(t[Above(p)])))
    OBVIOUS
  <2>1. CASE p = <<>>
    BY <2>1, <1>1, UpsOfPath DEF SomeUp
  <2>2. CASE p # <<>>
    <3>1. Ups(p) = Ups(Above(p)) \cup {Above(p)}
      BY <2>2, <1>1, UpsOfPath
    <3> QED BY <2>2, <3>1 DEF SomeUp
  <2> QED BY <2>1, <2>2
<1>3. PICK g : g = [p \in DOMAIN t |-> SomeUp(t, p)]
  OBVIOUS
<1>4. PassesSectioning(g, t)
  <2>1. \A p \in DOMAIN t : g[p] <=> SomeUp(t, p)
    BY <1>3
  <2>2. \A p \in DOMAIN t : SomeUp(t, p) <=>
           (p # <<>> /\ (g[Above(p)] \/ IsSectioning(t[Above(p)])))
    BY <2>1, <1>1, <1>2
  <2>3. g = [p \in DOMAIN t |-> (p # <<>> /\ (g[Above(p)] \/ IsSectioning(t[Above(p)])))]
    <3>1. PICK h : h = [p \in DOMAIN t |-> (p # <<>> /\ (g[Above(p)] \/ IsSectioning(t[Above(p)])))]
      OBVIOUS
    <3>2. \A p \in DOMAIN t : SomeUp(t, p) =
             (p # <<>> /\ (g[Above(p)] \/ IsSectioning(t[Above(p)])))
      BY <2>2 DEF SomeUp
    <3>3. \A p \in DOMAIN t : g[p] = h[p]
      BY <3>1, <3>2, <1>3, Zenon
    <3>4. g = [p \in DOMAIN t |-> g[p]] /\ h = [p \in DOMAIN t |-> h[p]]
      BY <3>1, <1>3, Zenon
    <3>5. g = h
      BY <3>3, <3>4
    <3> QED BY <3>1, <3>5
  <2> QED BY <2>3 DEF PassesSectioning
<1>5. PassesSectioning(InSectioning(t), t)
  BY <1>4 DEF PassesSectioning, InSectioning
<1>6. PICK f : f = InSectioning(t)
  OBVIOUS
<1>7. \A p \in DOMAIN t : f[p] <=> (p # <<>> /\ (f[Above(p)] \/ IsSectioning(t[Above(p)])))
  BY <1>5, <1>6 DEF PassesSectioning
<1> SUFFICES ASSUME NEW bad \in DOMAIN t, ~(f[bad] <=> SomeUp(t, bad))
             PROVE  FALSE
  BY <1>6
<1> DEFINE Lengths == {Len(p) : p \in {q \in DOMAIN t : ~(f[q] <=> SomeUp(t, q))}}
<1>8. Lengths \in SUBSET Nat /\ Lengths # {}
  <2>1. \A p \in DOMAIN t : Len(p) \in Nat
    BY <1>1, UpsOfPath
  <2>2. Len(bad) \in Lengths
    OBVIOUS
  <2> QED BY <2>1, <2>2
<1>9. PICK n \in Lengths : \A m \in Lengths : n <= m
  <2> HIDE DEF Lengths
  <2> QED BY <1>8, LeastOf
<1>10. PICK p \in DOMAIN t : n = Len(p) /\ ~(f[p] <=> SomeUp(t, p))
  BY <1>9
<1>11. p # <<>> => (f[Above(p)] <=> SomeUp(t, Above(p)))
  <2> SUFFICES ASSUME p # <<>>, ~(f[Above(p)] <=> SomeUp(t, Above(p))) PROVE FALSE
    OBVIOUS
  <2>1. Above(p) \in DOMAIN t /\ Len(Above(p)) < Len(p) /\ Len(p) \in Nat /\ Len(Above(p)) \in Nat
    BY <1>1, <1>10, UpsOfPath
  <2>2. Len(Above(p)) \in Lengths
    BY <2>1
  <2> QED BY <2>1, <2>2, <1>9, <1>10
<1>12. f[p] <=> SomeUp(t, p)
  BY <1>2, <1>7, <1>11, <1>10
<1> QED BY <1>10, <1>12

(* A landmark of the page.                                                  *)
Landmark(t, q) ==
    \/ t[q].role = "nav"
    \/ t[q].aria \in {"navigation", "banner", "contentinfo"}
    \/ /\ t[q].role \in {"header", "footer"}
       /\ \A r \in Around(q) \ {q} : ~IsSectioning(t[r])

(* The code's test of a node is that it is one.                             *)
LEMMA LandmarkIsTested ==
    ASSUME NEW t, IsTree(t), NEW p \in DOMAIN t
    PROVE  IsNavLandmark(t[p], InSectioning(t)[p]) <=> Landmark(t, p)
<1>1. p \in Seq(Nat)
  BY DEF IsTree
<1>2. Around(p) \ {p} = Ups(p)
  BY <1>1, UpsOfPath
<1>3. InSectioning(t)[p] <=> SomeUp(t, p)
  BY SectioningIsAbove
<1> QED BY <1>2, <1>3 DEF IsNavLandmark, Landmark, SomeUp

(* What is passed down to a node tells whether it or an ancestor is one.    *)
PassesLandmark(f, t) ==
    f = [p \in DOMAIN t |-> \/ p # <<>> /\ f[Above(p)]
                            \/ IsNavLandmark(t[p], InSectioning(t)[p])]

SomeLandmark(t, p) == \E q \in Around(p) : Landmark(t, q)

(* The flag passed down for landmarks says: here or above is one.           *)
LEMMA LandmarkIsAround ==
    ASSUME NEW t, IsTree(t)
    PROVE  \A p \in DOMAIN t : InLandmark(t)[p] <=> SomeLandmark(t, p)
<1>1. \A p \in DOMAIN t : p \in Seq(Nat) /\ (p # <<>> => Above(p) \in DOMAIN t)
  BY DEF IsTree
<1>2. \A p \in DOMAIN t :
        SomeLandmark(t, p) <=> \/ (p # <<>> /\ SomeLandmark(t, Above(p)))
                               \/ IsNavLandmark(t[p], InSectioning(t)[p])
  <2> SUFFICES ASSUME NEW p \in DOMAIN t
               PROVE  SomeLandmark(t, p) <=>
                         \/ (p # <<>> /\ SomeLandmark(t, Above(p)))
                         \/ IsNavLandmark(t[p], InSectioning(t)[p])
    OBVIOUS
  <2>0. IsNavLandmark(t[p], InSectioning(t)[p]) <=> Landmark(t, p)
    BY LandmarkIsTested
  <2>1. CASE p = <<>>
    <3>1. Around(p) = {p}
      BY <2>1, <1>1, UpsOfPath
    <3> QED BY <2>0, <2>1, <3>1 DEF SomeLandmark
  <2>2. CASE p # <<>>
    <3>1. Around(p) = Around(Above(p)) \cup {p}
      BY <2>2, <1>1, UpsOfPath
    <3> QED BY <2>0, <2>2, <3>1 DEF SomeLandmark
  <2> QED BY <2>1, <2>2
<1>3. PICK g : g = [p \in DOMAIN t |-> SomeLandmark(t, p)]
  OBVIOUS
<1>4. PassesLandmark(g, t)
  <2>1. \A p \in DOMAIN t : g[p] <=> SomeLandmark(t, p)
    BY <1>3
  <2>2. \A p \in DOMAIN t : SomeLandmark(t, p) <=>
           (\/ p # <<>> /\ g[Above(p)]
            \/ IsNavLandmark(t[p], InSectioning(t)[p]))
    BY <2>1, <1>1, <1>2
  <2>3. PICK h : h = [p \in DOMAIN t |-> \/ p # <<>> /\ g[Above(p)]
                                         \/ IsNavLandmark(t[p], InSectioning(t)[p])]
    OBVIOUS
  <2>4. \A p \in DOMAIN t : SomeLandmark(t, p) =
           (\/ p # <<>> /\ g[Above(p)]
            \/ IsNavLandmark(t[p], InSectioning(t)[p]))
    BY <2>2 DEF SomeLandmark
  <2>5. \A p \in DOMAIN t : g[p] = h[p]
    BY <2>3, <2>4, <1>3, Zenon
  <2>6. g = [p \in DOMAIN t |-> g[p]] /\ h = [p \in DOMAIN t |-> h[p]]
    BY <2>3, <1>3, Zenon
  <2>7. g = h
    BY <2>5, <2>6
  <2> QED BY <2>3, <2>7 DEF PassesLandmark
<1>5. PassesLandmark(InLandmark(t), t)
  BY <1>4 DEF PassesLandmark, InLandmark
<1>6. PICK f : f = InLandmark(t)
  OBVIOUS
<1>7. \A p \in DOMAIN t :
        f[p] <=> (\/ p # <<>> /\ f[Above(p)]
                  \/ IsNavLandmark(t[p], InSectioning(t)[p]))
  BY <1>5, <1>6 DEF PassesLandmark
<1> SUFFICES ASSUME NEW bad \in DOMAIN t, ~(f[bad] <=> SomeLandmark(t, bad))
             PROVE  FALSE
  BY <1>6
<1> DEFINE Lengths == {Len(p) : p \in {q \in DOMAIN t : ~(f[q] <=> SomeLandmark(t, q))}}
<1>8. Lengths \in SUBSET Nat /\ Lengths # {}
  <2>1. \A p \in DOMAIN t : Len(p) \in Nat
    BY <1>1, UpsOfPath
  <2>2. Len(bad) \in Lengths
    OBVIOUS
  <2> QED BY <2>1, <2>2
<1>9. PICK n \in Lengths : \A m \in Lengths : n <= m
  <2> HIDE DEF Lengths
  <2> QED BY <1>8, LeastOf
<1>10. PICK p \in DOMAIN t : n = Len(p) /\ ~(f[p] <=> SomeLandmark(t, p))
  BY <1>9
<1>11. p # <<>> => (f[Above(p)] <=> SomeLandmark(t, Above(p)))
  <2> SUFFICES ASSUME p # <<>>, ~(f[Above(p)] <=> SomeLandmark(t, Above(p))) PROVE FALSE
    OBVIOUS
  <2>1. Above(p) \in DOMAIN t /\ Len(Above(p)) < Len(p) /\ Len(p) \in Nat /\ Len(Above(p)) \in Nat
    BY <1>1, <1>10, UpsOfPath
  <2>2. Len(Above(p)) \in Lengths
    BY <2>1
  <2> QED BY <2>1, <2>2, <1>9, <1>10
<1>12. f[p] <=> SomeLandmark(t, p)
  BY <1>2, <1>7, <1>11, <1>10
<1> QED BY <1>10, <1>12

(* What the fast state has to hold.                                         *)
Usable(t) ==
    {p \in DOMAIN t :
        /\ IsInteractive(t[p])
        /\ loadProfile = "interactive" \/ ~IsAnchor(t[p])
           \/ \A q \in Around(p) : ~Landmark(t, q)}

(* The fast selection is what a reader of this profile can use.             *)
LEMMA FastStateIsUsable ==
    ASSUME NEW t, IsTree(t)
    PROVE  GenerateFastState(t).interactive_elements = Usable(t)
<1>1. GenerateFastState(t).interactive_elements =
        IF loadProfile = "interactive" THEN CollectMatching(t, "interactive")
        ELSE CollectFiltered(t)
  BY DEF GenerateFastState
<1>2. CollectMatching(t, "interactive") = {p \in DOMAIN t : IsInteractive(t[p])}
  BY DEF CollectMatching
<1>3. CollectFiltered(t) =
        {p \in DOMAIN t : IsInteractive(t[p]) /\ ~(SomeLandmark(t, p) /\ IsAnchor(t[p]))}
  BY LandmarkIsAround DEF CollectFiltered
<1> QED BY <1>1, <1>2, <1>3 DEF Usable, SomeLandmark

-----------------------------------------------------------------------------
(* Detection leaves nothing detected in a redacted text.                    *)
LEMMA RedactedIsClean ==
    ASSUME NEW text
    PROVE  ~IsDetected(RedactText(text))
<1>1. PICK r : r = [k \in DOMAIN text |-> IF text[k] = "phrase" THEN Placeholder
                                          ELSE text[k]]
  OBVIOUS
<1>2. RedactText(text) = IF IsDetected(r) THEN <<Placeholder>> ELSE r
  BY <1>1 DEF RedactText
<1>3. ~IsDetected(<<Placeholder>>)
  BY DEF IsDetected, Placeholder
<1> QED BY <1>2, <1>3

(* A checked node: what it keeps, what it is marked for, what it shows.     *)
LEMMA CheckedNode ==
    ASSUME NEW n, IsNode(n), NEW m, m = SanitizeNode(n)
    PROVE  /\ IsNode(m) /\ m.id = n.id
           /\ sanMode # "off" =>
                /\ (\E f \in Fields : IsDetected(n[f])) => m.flagged
                /\ sanMode = "redact" => ~\E f \in Fields : IsDetected(m[f])
                /\ sanMode = "report_only" => \A f \in Fields : m[f] = n[f]
<1>0. n = [role |-> n.role, aria |-> n.aria, label |-> n.label, alias |-> n.alias,
           attributes |-> n.attributes, flagged |-> n.flagged, id |-> n.id]
      /\ n.flagged \in BOOLEAN
  BY DEF IsNode
<1>1. CASE sanMode = "off"
  <2>1. m = n
    BY <1>1 DEF SanitizeNode
  <2> QED BY <2>1, <1>1
<1>2. CASE sanMode # "off"
  <2>1. PICK mark \in BOOLEAN : mark = (n.flagged \/ \E f \in Fields : IsDetected(n[f]))
    OBVIOUS
  <2>2. m = [role |-> n.role, aria |-> n.aria, label |-> ProcessText(n.label),
             alias |-> ProcessText(n.alias), attributes |-> ProcessText(n.attributes),
             flagged |-> mark, id |-> n.id]
    BY <1>0, <1>2, <2>1 DEF SanitizeNode
  <2>3. IsNode(m) /\ m.id = n.id
    BY <2>2 DEF IsNode
  <2>4. (\E f \in Fields : IsDetected(n[f])) => m.flagged
    <3>1. m.flagged = mark
      BY <2>2
    <3>2. (\E f \in Fields : IsDetected(n[f])) => mark
      BY <2>1, Zenon
    <3> QED BY <3>1, <3>2, Zenon
  <2>5. \A f \in Fields : m[f] = ProcessText(n[f])
    BY <2>2, <1>0 DEF Fields
  <2>6. sanMode = "redact" => \A f \in Fields : ~IsDetected(m[f])
    BY <2>5, RedactedIsClean DEF ProcessText
  <2>7. sanMode = "report_only" => \A f \in Fields : m[f] = n[f]
    BY <2>5 DEF ProcessText
  <2> QED BY <2>3, <2>4, <2>6, <2>7
<1> QED BY <1>1, <1>2

(* A checked tree is a tree.                                                *)
LEMMA CheckedTree ==
    ASSUME NEW t, IsTree(t)
    PROVE  /\ IsTree(SanitizedWith(t)) /\ DOMAIN SanitizedWith(t) = DOMAIN t
           /\ \A p \in DOMAIN t : SanitizedWith(t)[p] = SanitizeNode(t[p])
<1>1. DOMAIN SanitizedWith(t) = DOMAIN t
      /\ \A p \in DOMAIN t : SanitizedWith(t)[p] = SanitizeNode(t[p])
  BY DEF SanitizedWith
<1>2. \A p \in DOMAIN t : IsNode(SanitizeNode(t[p]))
  BY CheckedNode DEF IsTree
<1> QED BY <1>1, <1>2 DEF IsTree

(* Nodes that differ in their ids alone.                                    *)
LEMMA SameFields ==
    ASSUME NEW n, NEW m, IsNode(n), IsNode(m)
    PROVE  SameButId(n, m) <=>
             /\ n.role = m.role /\ n.aria = m.aria /\ n.label = m.label
             /\ n.alias = m.alias /\ n.attributes = m.attributes
             /\ n.flagged = m.flagged
<1>1. /\ [n EXCEPT !.id = 0] =
            [role |-> n.role, aria |-> n.aria, label |-> n.label, alias |-> n.alias,
             attributes |-> n.attributes, flagged |-> n.flagged, id |-> 0]
      /\ [m EXCEPT !.id = 0] =
            [role |-> m.role, aria |-> m.aria, label |-> m.label, alias |-> m.alias,
             attributes |-> m.attributes, flagged |-> m.flagged, id |-> 0]
  BY DEF IsNode
<1> QED BY <1>1 DEF SameButId

(* A patch applied to a tree that differs from the one it was made against  *)
(* in ids alone gives the new tree, ids apart.                              *)
LEMMA PatchFollows ==
    ASSUME NEW old, NEW new, NEW base, IsTree(new),
           DOMAIN base = DOMAIN old,
           \A p \in DOMAIN old : IsNode(base[p]) /\ SameButId(base[p], old[p]),
           NEW out, out = ApplyToRoot(Diff(old, new), base)
    PROVE  /\ DOMAIN out = DOMAIN new
           /\ \A p \in DOMAIN new : IsNode(out[p]) /\ SameButId(out[p], new[p])
<1>1. PICK changed : changed = {q \in DOMAIN new :
                                  IF q \in DOMAIN old THEN old[q] # new[q] ELSE TRUE}
  OBVIOUS
<1>2. PICK put : put = {<<p, new[p]>> : p \in changed}
  OBVIOUS
<1>3. Diff(old, new) = [gone |-> DOMAIN old \ DOMAIN new, put |-> put]
  BY <1>1, <1>2 DEF Diff
<1>4. {x[1] : x \in put} = changed
  <2>1. \A p \in changed : <<p, new[p]>> \in put /\ <<p, new[p]>>[1] = p
    BY <1>2
  <2>2. \A x \in put : x[1] \in changed
    BY <1>2
  <2> QED BY <2>1, <2>2, Zenon
<1>5. out = [p \in (DOMAIN base \ (DOMAIN old \ DOMAIN new)) \cup changed |->
               IF p \in changed THEN (CHOOSE x \in put : x[1] = p)[2] ELSE base[p]]
  BY <1>3, <1>4 DEF ApplyToRoot
<1>6. (DOMAIN base \ (DOMAIN old \ DOMAIN new)) \cup changed = DOMAIN new
  BY <1>1
<1>7. DOMAIN out = DOMAIN new
  BY <1>5, <1>6
<1>8. ASSUME NEW p \in DOMAIN new
      PROVE  IsNode(out[p]) /\ SameButId(out[p], new[p])
  <2>0. IsNode(new[p])
    BY DEF IsTree
  <2>1. CASE p \in changed
    <3>1. <<p, new[p]>> \in put /\ <<p, new[p]>>[1] = p
      BY <2>1, <1>2
    <3>2. PICK x : x = CHOOSE y \in put : y[1] = p
      OBVIOUS
    <3>3. x \in put /\ x[1] = p
      BY <3>1, <3>2
    <3>4. x[2] = new[p]
      BY <3>3, <1>2
    <3>5. out[p] = new[p]
      BY <1>5, <1>6, <2>1, <3>2, <3>4
    <3> QED BY <3>5, <2>0 DEF SameButId
  <2>2. CASE p \notin changed
    <3>1. p \in DOMAIN old /\ old[p] = new[p]
      BY <2>2, <1>1
    <3>2. out[p] = base[p]
      BY <1>5, <1>6, <2>2
    <3> QED BY <3>1, <3>2
  <2> QED BY <2>1, <2>2
<1> QED BY <1>7, <1>8

(* Equal hashes: the trees differ in ids alone.                             *)
LEMMA SameHash ==
    ASSUME NEW old, NEW new, ComputeHash(old) = ComputeHash(new)
    PROVE  /\ DOMAIN old = DOMAIN new
           /\ \A p \in DOMAIN new : SameButId(old[p], new[p])
<1>1. PICK f : f = ComputeHash(old)
  OBVIOUS
<1>2. DOMAIN f = DOMAIN old /\ \A p \in DOMAIN old : f[p] = HashNode(old[p])
  BY <1>1 DEF ComputeHash
<1>3. DOMAIN f = DOMAIN new /\ \A p \in DOMAIN new : f[p] = HashNode(new[p])
  BY <1>1 DEF ComputeHash
<1>4. DOMAIN old = DOMAIN new
  BY <1>2, <1>3
<1>5. \A p \in DOMAIN new : HashNode(old[p]) = HashNode(new[p])
  BY <1>2, <1>3
<1> QED BY <1>4, <1>5 DEF SameButId, HashNode

(* Nothing has been delivered at the start.                                 *)
LEMMA DeliveryStarts == DeliveryInit => DeliveryInv
BY DeliveryAssumption DEF DeliveryInit, DeliveryInv

(* An update, whichever it is, leaves the reader with the new state.        *)
LEMMA UpdateKeeps ==
    ASSUME DeliveryInv, NEW forceRefresh \in BOOLEAN, NEW small \in BOOLEAN,
           GetUpdate(forceRefresh, small)
    PROVE  DeliveryInv'
<1>1. PICK new : new = SanitizedWith(pageTree)
  OBVIOUS
<1>2. PICK old : old = IF forceRefresh THEN {} ELSE previousState
  OBVIOUS
<1>3. PICK update : update = SelectUpdate(old, new, small)
  OBVIOUS
<1>4. /\ readerTree' = CASE update.kind = "noop" -> readerTree
                         [] update.kind = "full" -> update.tree
                         [] OTHER -> ApplyToRoot(update.patch, readerTree)
      /\ previousState' = {new}
      /\ capturedTree' = pageTree
      /\ layered' = [fast |-> {GenerateFastState(new)}, full |-> {GenerateFullState(new)}]
      /\ sanMode' = sanMode /\ loadProfile' = loadProfile /\ pageTree' = pageTree
  BY <1>1, <1>2, <1>3 DEF GetUpdate
<1>5. IsTree(new) /\ IsTree(pageTree)
  BY <1>1, CheckedTree DEF DeliveryInv
<1>6. DOMAIN readerTree' = DOMAIN new
      /\ \A p \in DOMAIN new : IsNode(readerTree'[p]) /\ SameButId(readerTree'[p], new[p])
  <2>0. \A p \in DOMAIN new : IsNode(new[p]) /\ SameButId(new[p], new[p])
    BY <1>5 DEF IsTree, SameButId
  <2>1. CASE old = {}
    <3>1. update = [kind |-> "full", tree |-> new]
      BY <1>3, <2>1 DEF SelectUpdate
    <3>2. update.kind = "full" /\ update.tree = new
      BY <3>1
    <3>3. readerTree' = new
      BY <1>4, <3>2
    <3> QED BY <2>0, <3>3
  <2>2. CASE old # {}
    <3>1. PICK t : t = CHOOSE x \in old : TRUE
      OBVIOUS
    <3>2. t \in previousState
      BY <2>2, <3>1, <1>2
    <3>3. DOMAIN readerTree = DOMAIN t
          /\ \A p \in DOMAIN t : IsNode(readerTree[p]) /\ SameButId(readerTree[p], t[p])
      BY <3>2 DEF DeliveryInv, ReaderHolds
    <3>4. \/ update = [kind |-> "full", tree |-> new]
          \/ update = [kind |-> "noop"] /\ ComputeHash(t) = ComputeHash(new)
          \/ update = [kind |-> "delta", patch |-> Diff(t, new)]
      BY <1>3, <2>2, <3>1 DEF SelectUpdate
    <3>5. CASE update = [kind |-> "full", tree |-> new]
      <4>1. update.kind = "full" /\ update.tree = new
        BY <3>5
      <4>2. readerTree' = new
        BY <1>4, <4>1
      <4> QED BY <2>0, <4>2
    <3>6. CASE update = [kind |-> "noop"] /\ ComputeHash(t) = ComputeHash(new)
      <4>1. update.kind = "noop"
        BY <3>6
      <4>2. readerTree' = readerTree
        BY <1>4, <4>1
      <4>3. DOMAIN t = DOMAIN new /\ \A p \in DOMAIN new : SameButId(t[p], new[p])
        BY <3>6, SameHash
      <4> QED BY <3>3, <4>2, <4>3 DEF SameButId
    <3>7. CASE update = [kind |-> "delta", patch |-> Diff(t, new)]
      <4>1. update.kind = "delta" /\ update.patch = Diff(t, new)
        BY <3>7
      <4>2. readerTree' = ApplyToRoot(Diff(t, new), readerTree)
        BY <1>4, <4>1
      <4> QED BY <3>3, <4>2, <1>5, PatchFollows
    <3> QED BY <3>4, <3>5, <3>6, <3>7
  <2> QED BY <2>1, <2>2
<1>7. SanitizedWith(pageTree)' = new
  BY <1>1, <1>4 DEF SanitizedWith, SanitizeNode, ProcessText
<1>8. GenerateFastState(new)' = GenerateFastState(new)
  BY <1>4 DEF GenerateFastState
<1>9. IsTree(pageTree)' /\ IsTree(capturedTree)'
  BY <1>4, <1>5
<1>10. SanitizedWith(capturedTree)' = new
  BY <1>7, <1>4, <1>1
<1>11. layered'.fast = {GenerateFastState(new)}
  BY <1>4
<1>12. \A t \in previousState' : ReaderHolds(t)'
  BY <1>4, <1>6 DEF ReaderHolds
<1> QED BY <1>4, <1>8, <1>9, <1>10, <1>11, <1>12 DEF DeliveryInv

(* The page changes, or nothing does.                                       *)
LEMMA DeliveryFrame ==
    ASSUME DeliveryInv, IsTree(pageTree)',
           UNCHANGED <<sanMode, loadProfile, previousState, readerTree, capturedTree, layered>>
    PROVE  DeliveryInv'
<1>1. \A t : /\ ReaderHolds(t)' <=> ReaderHolds(t)
             /\ GenerateFastState(t)' = GenerateFastState(t)
  BY DEF ReaderHolds, GenerateFastState
<1>2. SanitizedWith(capturedTree)' = SanitizedWith(capturedTree)
  BY DEF SanitizedWith, SanitizeNode, ProcessText
<1>3. IsTree(capturedTree)' <=> IsTree(capturedTree)
  OBVIOUS
<1> QED BY <1>1, <1>2, <1>3 DEF DeliveryInv

LEMMA DeliveryStep ==
    ASSUME DeliveryInv, [DeliveryNext]_deliveryVars
    PROVE  DeliveryInv'
<1>1. CASE TreeChanges
  <2>1. IsTree(pageTree)'
    BY <1>1 DEF TreeChanges
  <2>2. UNCHANGED <<sanMode, loadProfile, previousState, readerTree, capturedTree, layered>>
    BY <1>1 DEF TreeChanges
  <2> QED BY <2>1, <2>2, DeliveryFrame
<1>2. CASE \E forceRefresh, small \in BOOLEAN : GetUpdate(forceRefresh, small)
  BY <1>2, UpdateKeeps
<1>3. CASE UNCHANGED deliveryVars
  <2>1. UNCHANGED <<sanMode, loadProfile, previousState, readerTree, capturedTree, layered,
                    pageTree>>
    BY <1>3 DEF deliveryVars
  <2>2. IsTree(pageTree)'
    BY <2>1 DEF DeliveryInv
  <2> QED BY <2>1, <2>2, DeliveryFrame
<1> QED BY <1>1, <1>2, <1>3 DEF DeliveryNext

(* What the invariant says of what the reader holds.                        *)
LEMMA InvariantDelivers ==
    ASSUME DeliveryInv
    PROVE  DeliveryIsFaithful
<1>1. ReaderFollows
  BY DEF DeliveryInv, ReaderHolds, ReaderFollows, SameButId
<1>2. DetectedIsMarked
  <2> SUFFICES ASSUME sanMode # "off", NEW p \in DOMAIN readerTree
               PROVE  /\ (\E f \in Fields : IsDetected(capturedTree[p][f])) =>
                             readerTree[p].flagged
                      /\ sanMode = "redact" =>
                             ~\E f \in Fields : IsDetected(readerTree[p][f])
                      /\ sanMode = "report_only" =>
                             \A f \in Fields : readerTree[p][f] = capturedTree[p][f]
    BY DEF DetectedIsMarked
  <2>1. previousState # {}
    BY DEF DeliveryInv
  <2>2. PICK t : t \in previousState
    BY <2>1
  <2>3. /\ IsTree(capturedTree) /\ t = SanitizedWith(capturedTree)
        /\ DOMAIN readerTree = DOMAIN t
        /\ IsNode(readerTree[p]) /\ SameButId(readerTree[p], t[p])
    BY <2>2 DEF DeliveryInv, ReaderHolds
  <2>4. p \in DOMAIN capturedTree /\ t[p] = SanitizeNode(capturedTree[p])
    BY <2>3, CheckedTree
  <2>5. IsNode(capturedTree[p])
    BY <2>3, <2>4 DEF IsTree
  <2>6. PICK m : m = SanitizeNode(capturedTree[p])
    OBVIOUS
  <2>7. /\ IsNode(m)
        /\ (\E f \in Fields : IsDetected(capturedTree[p][f])) => m.flagged
        /\ sanMode = "redact" => ~\E f \in Fields : IsDetected(m[f])
        /\ sanMode = "report_only" => \A f \in Fields : m[f] = capturedTree[p][f]
    BY <2>5, <2>6, CheckedNode
  <2>8. SameButId(readerTree[p], m)
    BY <2>3, <2>4, <2>6
  <2>9. /\ readerTree[p].label = m.label /\ readerTree[p].alias = m.alias
        /\ readerTree[p].attributes = m.attributes /\ readerTree[p].flagged = m.flagged
    BY <2>3, <2>7, <2>8, SameFields
  <2>10. \A f \in Fields : readerTree[p][f] = m[f]
    BY <2>9 DEF Fields
  <2> QED BY <2>7, <2>9, <2>10, Zenon
<1>3. FastStateComplete
  <2> SUFFICES ASSUME NEW fast \in layered.fast, NEW t \in previousState
               PROVE  fast.interactive_elements = Usable(t)
    BY DEF FastStateComplete, Usable, Landmark, Around
  <2>1. IsTree(t)
    BY CheckedTree DEF DeliveryInv
  <2>2. fast = GenerateFastState(t)
    BY DEF DeliveryInv
  <2> QED BY <2>1, <2>2, FastStateIsUsable
<1> QED BY <1>1, <1>2, <1>3 DEF DeliveryIsFaithful

(* Theorem.  However patches, full states, silence and refreshes alternate  *)
(* (StateUpdateSelector, StateDelta::apply_to_root), for every page and     *)
(* every change of it, a reader that applies them holds the last state with *)
(* its marks and without a phrase that was redacted, and the fast state     *)
(* leaves out only links in landmarks.                                      *)
THEOREM ReaderIsServed == DeliverySpec => []DeliveryIsFaithful
<1>1. DeliverySpec => []DeliveryInv
  BY DeliveryStarts, DeliveryStep, PTL DEF DeliverySpec
<1>2. DeliveryInv => DeliveryIsFaithful
  BY InvariantDelivers
<1> QED BY <1>1, <1>2, PTL

-----------------------------------------------------------------------------
(* The stdio loop.                                                          *)

(* InOrder's equation for the first m lines.                                *)
OrdersTo(f, lines, m) ==
    f = [n \in 0 .. m |-> IF n = 0 THEN <<>>
                          ELSE IF n \in lines THEN Append(f[n - 1], n)
                          ELSE f[n - 1]]

(* The recursive definition of InOrder defines a function.                  *)
LEMMA InOrderEquation ==
    ASSUME NEW lines, Len(script) \in Nat
    PROVE  OrdersTo(InOrder(lines), lines, Len(script))
<1>1. ASSUME NEW x \in Nat, x # 0, NEW g, OrdersTo(g, lines, x - 1)
      PROVE  \E f : OrdersTo(f, lines, x)
  <2>0. PICK last : last = (IF x \in lines THEN Append(g[x - 1], x) ELSE g[x - 1])
    OBVIOUS
  <2>1. PICK f : f = [n \in 0 .. x |-> IF n = x THEN last ELSE g[n]]
    OBVIOUS
  <2>2. \A n \in 0 .. x - 1 : /\ n \in 0 .. x /\ n # x /\ f[n] = g[n]
                              /\ n # 0 => n - 1 \in 0 .. x - 1
    BY <1>1, <2>1
  <2>3. x - 1 \in 0 .. x - 1 /\ f[x] = last /\ f[x - 1] = g[x - 1]
    BY <1>1, <2>1, <2>2
  <2>4. \A n \in 0 .. x - 1 :
          g[n] = IF n = 0 THEN <<>>
                 ELSE IF n \in lines THEN Append(g[n - 1], n) ELSE g[n - 1]
    BY <1>1 DEF OrdersTo
  <2>5. \A n \in 0 .. x :
          f[n] = IF n = 0 THEN <<>>
                 ELSE IF n \in lines THEN Append(f[n - 1], n) ELSE f[n - 1]
    <3> SUFFICES ASSUME NEW n \in 0 .. x
                 PROVE  f[n] = IF n = 0 THEN <<>>
                               ELSE IF n \in lines THEN Append(f[n - 1], n) ELSE f[n - 1]
      OBVIOUS
    <3>1. CASE n = x
      BY <3>1, <2>0, <2>3, <1>1
    <3>2. CASE n # x
      <4>1. n \in 0 .. x - 1
        BY <3>2, <1>1
      <4> QED BY <4>1, <2>2, <2>4
    <3> QED BY <3>1, <3>2
  <2>6. OrdersTo(f, lines, x)
    BY <2>1, <2>5 DEF OrdersTo
  <2> QED BY <2>6
<1>2. \A m \in Nat : \E f : OrdersTo(f, lines, m)
  <2> SUFFICES ASSUME NEW bad \in Nat, ~\E f : OrdersTo(f, lines, bad) PROVE FALSE
    OBVIOUS
  <2>1. PICK T : T = {m \in Nat : ~\E f : OrdersTo(f, lines, m)}
    OBVIOUS
  <2>2. T \in SUBSET Nat /\ bad \in T
    BY <2>1
  <2>3. PICK x \in T : \A y \in T : x <= y
    BY <2>2, LeastOf
  <2>4. x \in Nat /\ ~\E f : OrdersTo(f, lines, x)
    BY <2>1, <2>3
  <2>5. x # 0
    <3> SUFFICES ASSUME x = 0 PROVE FALSE
      OBVIOUS
    <3>1. PICK f : f = [n \in 0 .. 0 |-> <<>>]
      OBVIOUS
    <3>2. \A n \in 0 .. 0 : n = 0
      OBVIOUS
    <3>3. OrdersTo(f, lines, 0)
      BY <3>1, <3>2 DEF OrdersTo
    <3> QED BY <3>3, <2>4
  <2>6. x - 1 \in Nat /\ ~(x <= x - 1)
    BY <2>4, <2>5
  <2>7. x - 1 \notin T
    BY <2>3, <2>6
  <2>8. PICK g : OrdersTo(g, lines, x - 1)
    BY <2>1, <2>6, <2>7
  <2> QED BY <1>1, <2>4, <2>5, <2>8
<1>3. PICK g : OrdersTo(g, lines, Len(script))
  BY <1>2
<1> QED BY <1>3 DEF InOrder, OrdersTo

(* One more line.                                                           *)
LEMMA OneMoreLine ==
    ASSUME NEW lines, Len(script) \in Nat
    PROVE  /\ InOrder(lines)[0] = <<>>
           /\ \A n \in 1 .. Len(script) :
                InOrder(lines)[n] = IF n \in lines THEN Append(InOrder(lines)[n - 1], n)
                                    ELSE InOrder(lines)[n - 1]
<1>1. PICK f : f = InOrder(lines)
  OBVIOUS
<1>2. OrdersTo(f, lines, Len(script))
  BY <1>1, InOrderEquation
<1>0. \A n \in 0 .. Len(script) :
        f[n] = IF n = 0 THEN <<>>
               ELSE IF n \in lines THEN Append(f[n - 1], n) ELSE f[n - 1]
  BY <1>2 DEF OrdersTo
<1>3. f[0] = <<>>
  BY <1>0
<1>4. \A n \in 1 .. Len(script) :
        f[n] = IF n \in lines THEN Append(f[n - 1], n) ELSE f[n - 1]
  <2>1. \A n \in 1 .. Len(script) : n \in 0 .. Len(script) /\ n # 0
    OBVIOUS
  <2> QED BY <1>0, <2>1
<1> QED BY <1>1, <1>3, <1>4

(* What a line of the input takes and leaves.                               *)
LEMMA StdioReads ==
    ASSUME StandsWell
    PROVE  /\ Len(script) \in Nat /\ MaxLine \in Nat \ {0}
           /\ stdin.line \in 1 .. Len(script) + 1 /\ stdin.offset \in Nat
           /\ Available \in Nat /\ Taken \in Nat /\ Taken <= Available
           /\ Taken <= MaxLine
           /\ (Taken = Available \/ Taken = MaxLine)
           /\ HasNewline \in BOOLEAN
           /\ stdin.line <= Len(script) =>
                /\ script[stdin.line] \in ClientLines
                /\ script[stdin.line].size \in Nat
                /\ Available = script[stdin.line].size - stdin.offset
                                 + (IF HasNewline THEN 1 ELSE 0)
                /\ HasNewline <=> ~(unended /\ stdin.line = Len(script))
           /\ stdin.line > Len(script) => Available = 0 /\ ~HasNewline
<1>1. /\ script \in Seq(ClientLines) /\ Len(script) \in Nat
      /\ MaxLine \in Nat \ {0}
      /\ stdin.line \in 1 .. Len(script) + 1 /\ stdin.offset \in Nat
  BY StdioAssumption DEF StandsWell
<1>2. stdin.line <= Len(script) =>
        script[stdin.line] \in ClientLines /\ script[stdin.line].size \in Nat
  BY <1>1, StdioAssumption
<1>3. HasNewline \in BOOLEAN
  BY DEF HasNewline
<1>4. CASE stdin.line <= Len(script)
  <2>1. HasNewline <=> ~(unended /\ stdin.line = Len(script))
    BY <1>4 DEF HasNewline
  <2>2. Available = script[stdin.line].size - stdin.offset + (IF HasNewline THEN 1 ELSE 0)
    BY <1>4, <1>1 DEF Available
  <2>3. Available \in Nat
    BY <2>2, <1>1, <1>2, <1>4 DEF StandsWell
  <2> QED BY <1>1, <1>2, <1>3, <1>4, <2>1, <2>2, <2>3 DEF Taken
<1>5. CASE stdin.line > Len(script)
  <2>1. Available = 0 /\ ~HasNewline
    BY <1>5, <1>1 DEF Available, HasNewline
  <2> QED BY <1>1, <1>3, <1>5, <2>1 DEF Taken
<1> QED BY <1>1, <1>4, <1>5

(* While the client's lines stay what they are.                             *)
LEMMA LinesStay ==
    ASSUME script' = script
    PROVE  /\ \A k : IdOf(k)' = IdOf(k) /\ (Fits(k)' <=> Fits(k))
           /\ Asking' = Asking /\ Calling' = Calling
           /\ InOrder(Asking)' = InOrder(Asking)
           /\ InOrder(Calling)' = InOrder(Calling)
<1>1. \A k : (Fits(k)' <=> Fits(k)) /\ (Answered(k)' <=> Answered(k))
  BY DEF Fits, Answered
<1>2. \A k : IdOf(k)' = IdOf(k)
  BY <1>1 DEF IdOf
<1>3. Asking' = Asking /\ Calling' = Calling
  BY <1>1 DEF Asking, Calling
<1>4. InOrder(Asking)' = InOrder(Asking) /\ InOrder(Calling)' = InOrder(Calling)
  BY <1>3 DEF InOrder
<1> QED BY <1>1, <1>2, <1>3, <1>4

(* Answers to a part of the input stay answers to it.                       *)
LEMMA AnswersStay ==
    ASSUME script' = script, answers' = answers, NEW n, AnsweredTo(n)
    PROVE  AnsweredTo(n)'
BY LinesStay DEF AnsweredTo

(* So do the calls that were run.                                           *)
LEMMA RunsStay ==
    ASSUME script' = script, ran' = ran, NEW n, RanTo(n)
    PROVE  RanTo(n)'
BY LinesStay DEF RanTo

(* A line that asks for nothing needs no answer, one that does needs one.   *)
LEMMA SilentLine ==
    ASSUME Len(script) \in Nat, NEW n \in 1 .. Len(script), n \notin Asking,
           AnsweredTo(n - 1)
    PROVE  AnsweredTo(n)
<1>1. InOrder(Asking)[n] = InOrder(Asking)[n - 1]
  BY OneMoreLine
<1> QED BY <1>1 DEF AnsweredTo

(* An answer with the line's id settles one line more.                      *)
LEMMA AnsweredLine ==
    ASSUME Len(script) \in Nat, NEW n \in 1 .. Len(script), n \in Asking,
           AnsweredTo(n - 1), answer \in Replies, answer.id = IdOf(n),
           script' = script, answers' = Append(answers, answer)
    PROVE  AnsweredTo(n)'
<1>1. PICK due : due = InOrder(Asking)[n - 1]
  OBVIOUS
<1>2. InOrder(Asking)[n] = Append(due, n)
  BY <1>1, OneMoreLine
<1>3. /\ due \in Seq(Nat) /\ answers \in Seq(Replies) /\ Len(answers) = Len(due)
      /\ \A k \in DOMAIN due : answers[k].id = IdOf(due[k])
  BY <1>1 DEF AnsweredTo
<1>4. PICK more : more = Append(due, n)
  OBVIOUS
<1>5. /\ more \in Seq(Nat) /\ Len(more) = Len(due) + 1 /\ DOMAIN more = 1 .. Len(due) + 1
      /\ \A k \in 1 .. Len(due) : more[k] = due[k]
      /\ more[Len(due) + 1] = n
      /\ Len(due) \in Nat /\ DOMAIN due = 1 .. Len(due)
  BY <1>3, <1>4
<1>6. /\ answers' \in Seq(Replies) /\ Len(answers') = Len(answers) + 1
      /\ \A k \in 1 .. Len(answers) : answers'[k] = answers[k]
      /\ answers'[Len(answers) + 1] = answer
  BY <1>3
<1>7. \A k \in DOMAIN more : answers'[k].id = IdOf(more[k])
  <2> SUFFICES ASSUME NEW k \in DOMAIN more PROVE answers'[k].id = IdOf(more[k])
    OBVIOUS
  <2>1. k \in 1 .. Len(due) \/ k = Len(due) + 1
    BY <1>5
  <2>2. CASE k \in 1 .. Len(due)
    BY <2>2, <1>3, <1>5, <1>6
  <2>3. CASE k = Len(due) + 1
    BY <2>3, <1>3, <1>5, <1>6
  <2> QED BY <2>1, <2>2, <2>3
<1>8. InOrder(Asking)' = InOrder(Asking) /\ \A k : IdOf(k)' = IdOf(k)
  BY LinesStay
<1>9. InOrder(Asking)'[n] = more
  BY <1>2, <1>4, <1>8
<1>10. Len(answers') = Len(more)
  BY <1>3, <1>5, <1>6
<1> QED BY <1>5, <1>6, <1>7, <1>8, <1>9, <1>10 DEF AnsweredTo

(* A line that calls is run, another is not: one line more is done.         *)
LEMMA RunLine ==
    ASSUME Len(script) \in Nat, NEW n \in 1 .. Len(script), RanTo(n - 1),
           script' = script, ran' = IF n \in Calling THEN Append(ran, n) ELSE ran
    PROVE  RanTo(n)'
<1>1. InOrder(Calling)[n] = IF n \in Calling THEN Append(InOrder(Calling)[n - 1], n)
                            ELSE InOrder(Calling)[n - 1]
  BY OneMoreLine
<1>2. InOrder(Calling)' = InOrder(Calling)
  BY LinesStay
<1> QED BY <1>1, <1>2 DEF RanTo

(* At the start nothing was read, answered or run.                          *)
LEMMA StdioStarts == StdioInit => StdioInv
<1> SUFFICES ASSUME StdioInit PROVE StdioInv
  OBVIOUS
<1>1. PICK n \in 0 .. MaxLines : script \in [1 .. n -> ClientLines]
  BY DEF StdioInit
<1>2. script \in Seq(ClientLines)
  BY <1>1, StdioAssumption
<1>3. Len(script) \in Nat /\ \A k \in 1 .. Len(script) : script[k].size \in Nat
  BY <1>2, StdioAssumption
<1>4. stdin = [line |-> 1, offset |-> 0] /\ stdin.line = 1 /\ stdin.offset = 0
  BY DEF StdioInit
<1>5. StandsWell
  BY <1>2, <1>3, <1>4 DEF StdioInit, StandsWell
<1>6. answer \in Replies
  BY DEF StdioInit, Silence, Replies, Sayings
<1> QED BY <1>4, <1>5, <1>6 DEF StdioInit, StdioInv

(* Where a read leaves the reader.                                          *)
LEMMA ReaderMoves ==
    ASSUME StandsWell, stdin' = After(Taken), script' = script, unended' = unended
    PROVE  /\ StandsWell'
           /\ EndsLine => stdin'.line = stdin.line + 1 /\ stdin'.offset = 0
           /\ ~EndsLine => stdin'.line = stdin.line /\ stdin'.offset = stdin.offset + Taken
           /\ EndsLine => /\ stdin.line <= Len(script)
                          /\ Taken = script[stdin.line].size - stdin.offset + 1
           /\ Taken = 0 => ~EndsLine
<1>0. stdin = [line |-> stdin.line, offset |-> stdin.offset]
  BY DEF StandsWell
<1>1. CASE EndsLine
  <2>1. HasNewline /\ Taken = Available /\ stdin.line <= Len(script)
    BY <1>1 DEF EndsLine, HasNewline
  <2>2. Taken = script[stdin.line].size - stdin.offset + 1
    BY <2>1, StdioReads
  <2>3. stdin' = [line |-> stdin.line + 1, offset |-> 0]
    BY <1>1 DEF After
  <2>4. stdin'.line = stdin.line + 1 /\ stdin'.offset = 0
    BY <2>3
  <2>5. stdin' \in [line : 1 .. Len(script) + 1, offset : Nat]
    BY <2>1, <2>3, StdioReads
  <2>6. stdin'.line <= Len(script) => 0 <= script[stdin'.line].size
    BY <2>4, <2>1, StdioReads, StdioAssumption DEF StandsWell
  <2>7. StandsWell'
    BY <2>4, <2>5, <2>6 DEF StandsWell
  <2>8. Taken # 0
    BY <2>2, <2>1, StdioReads DEF StandsWell
  <2> QED BY <1>1, <2>1, <2>2, <2>4, <2>7, <2>8
<1>2. CASE ~EndsLine
  <2>1. stdin' = [line |-> stdin.line, offset |-> stdin.offset + Taken]
    BY <1>2, <1>0 DEF After
  <2>2. stdin'.line = stdin.line /\ stdin'.offset = stdin.offset + Taken
    BY <2>1
  <2>3. stdin' \in [line : 1 .. Len(script) + 1, offset : Nat]
    BY <2>1, StdioReads
  <2>4. stdin.line <= Len(script) => stdin.offset + Taken <= script[stdin.line].size
    BY <1>2, StdioReads DEF EndsLine, StandsWell
  <2>5. stdin.line > Len(script) => stdin.offset + Taken = 0
    BY StdioReads DEF StandsWell
  <2>6. StandsWell'
    BY <2>2, <2>3, <2>4, <2>5 DEF StandsWell
  <2> QED BY <1>2, <2>2, <2>6
<1> QED BY <1>1, <1>2

(* Reading a piece keeps the answers in step.                               *)
LEMMA ReadKeeps ==
    ASSUME StdioInv, ReadCappedLine
    PROVE  StdioInv'
<1>1. /\ StandsWell /\ answer \in Replies
      /\ stdin.offset = 0 \/ AtTheEnd
      /\ AnsweredTo(Done) /\ RanTo(Done)
  BY DEF StdioInv, ReadCappedLine
<1>2. /\ stdin' = After(Taken) /\ script' = script /\ unended' = unended
      /\ answer' = answer /\ answers' = answers /\ ran' = ran
      /\ piece' = [line |-> stdin.line, from |-> stdin.offset,
                   to |-> stdin.offset + Taken - IF EndsLine THEN 1 ELSE 0]
  BY DEF ReadCappedLine
<1>3. Replies' = Replies
  BY DEF Replies, Sayings
<1>4. CASE Taken = 0
  <2>1. stdioAt' = "ended"
    BY <1>4 DEF ReadCappedLine
  <2>2. StandsWell'
    BY <1>1, <1>2, ReaderMoves
  <2> QED BY <2>1, <2>2, <1>1, <1>2, <1>3 DEF StdioInv
<1>5. CASE Taken # 0
  <2>0. PICK n : n = stdin.line
    OBVIOUS
  <2>1. n \in 1 .. Len(script) /\ Len(script) \in Nat /\ Taken \in Nat \ {0}
    BY <1>1, <1>5, <2>0, StdioReads
  <2>2. stdin.offset = 0
    <3> SUFFICES ASSUME AtTheEnd PROVE FALSE
      BY <1>1
    <3>1. ~HasNewline
      BY DEF AtTheEnd, HasNewline
    <3>2. Available = 0
      BY <1>1, <2>0, <2>1, <3>1, StdioReads DEF AtTheEnd
    <3> QED BY <3>2, <2>1, <1>1, StdioReads
  <2>3. Done = n - 1
    BY <2>0, <2>2 DEF Done
  <2>4. /\ script[n].size \in Nat
        /\ Available = script[n].size + (IF HasNewline THEN 1 ELSE 0)
        /\ HasNewline <=> ~(unended /\ n = Len(script))
        /\ MaxLine \in Nat \ {0} /\ Taken <= Available /\ Taken <= MaxLine
        /\ (Taken = Available \/ Taken = MaxLine)
    BY <1>1, <2>0, <2>1, <2>2, StdioReads
  <2>5. AnsweredTo(n - 1)' /\ RanTo(n - 1)'
    BY <1>1, <1>2, <2>3, AnswersStay, RunsStay
  <2>6. StandsWell' /\ answer' \in Replies'
    BY <1>1, <1>2, <1>3, ReaderMoves
  <2>7. CASE EndsLine
    <3>1. stdioAt' = "handle"
      BY <2>1, <2>7 DEF ReadCappedLine
    <3>2. /\ stdin'.line = n + 1 /\ stdin'.offset = 0
          /\ Taken = script[n].size + 1
      BY <1>1, <1>2, <2>0, <2>2, <2>4, <2>7, ReaderMoves
    <3>3. Done' = n
      BY <3>2, <2>1 DEF Done
    <3>4. script[n].size < MaxLine
      BY <3>2, <2>4
    <3>5. piece' = [line |-> n, from |-> 0, to |-> script'[n].size]
      BY <1>2, <2>0, <2>2, <3>2, <2>4, <2>7
    <3>6. Fits(n)'
      BY <3>4, <1>2 DEF Fits
    <3> QED BY <3>1, <3>2, <3>3, <3>5, <3>6, <2>1, <2>5, <2>6 DEF StdioInv
  <2>8. CASE ~EndsLine /\ Taken < MaxLine
    <3>1. stdioAt' = "handle"
      BY <2>1, <2>8 DEF ReadCappedLine
    <3>2. ~HasNewline /\ Taken = script[n].size /\ unended /\ n = Len(script)
      BY <2>8, <2>4 DEF EndsLine
    <3>3. stdin'.line = n /\ stdin'.offset = script[n].size
      BY <1>1, <1>2, <2>0, <2>2, <2>4, <2>8, <3>2, ReaderMoves
    <3>4. AtTheEnd'
      BY <3>2, <3>3, <1>2 DEF AtTheEnd
    <3>5. Done' = n
      BY <3>2, <3>3, <2>1 DEF Done
    <3>6. piece' = [line |-> n, from |-> 0, to |-> script'[n].size]
      BY <1>2, <2>0, <2>2, <3>2, <2>4, <2>8
    <3>7. Fits(n)'
      BY <3>2, <2>8, <1>2 DEF Fits
    <3> QED BY <3>1, <3>4, <3>5, <3>6, <3>7, <2>1, <2>5, <2>6 DEF StdioInv
  <2>9. CASE ~EndsLine /\ ~(Taken < MaxLine)
    <3>1. stdioAt' = "drain"
      BY <2>1, <2>9 DEF ReadCappedLine
    <3>2. Taken = MaxLine /\ script[n].size >= MaxLine
      BY <2>4, <2>9 DEF EndsLine
    <3>3. stdin'.line = n /\ stdin'.offset = MaxLine
      BY <1>1, <1>2, <2>0, <2>2, <2>4, <2>9, <3>2, ReaderMoves
    <3>4. stdin'.offset > 0 /\ Done' = n
      BY <3>3, <2>4 DEF Done
    <3>5. ~Fits(n)'
      BY <3>2, <2>4, <1>2 DEF Fits
    <3> QED BY <3>1, <3>4, <3>5, <2>5, <2>6 DEF StdioInv
  <2> QED BY <2>7, <2>8, <2>9
<1> QED BY <1>4, <1>5

(* So does discarding a piece of an over-long line, answered at its end.    *)
LEMMA DrainKeeps ==
    ASSUME StdioInv, Drain
    PROVE  StdioInv'
<1>1. /\ StandsWell /\ answer \in Replies
      /\ stdin.offset > 0 /\ ~Fits(Done)
      /\ AnsweredTo(Done - 1) /\ RanTo(Done - 1)
      /\ stdioAt = "drain"
  BY DEF StdioInv, Drain
<1>2. /\ stdin' = After(Taken) /\ script' = script /\ unended' = unended
      /\ answers' = answers /\ ran' = ran
  BY DEF Drain
<1>3. PICK n : n = stdin.line
  OBVIOUS
<1>4. n \in 1 .. Len(script) /\ Len(script) \in Nat /\ Done = n
  BY <1>1, <1>3, StdioReads DEF Done, StandsWell
<1>5. StandsWell' /\ Replies' = Replies
  BY <1>1, <1>2, ReaderMoves DEF Replies, Sayings
<1>6. AnsweredTo(n - 1)' /\ RanTo(n - 1)'
  BY <1>1, <1>2, <1>4, AnswersStay, RunsStay
<1>7. CASE Drained
  <2>1. stdioAt' = "write" /\ answer' = [id |-> 0, says |-> "-32600"]
    BY <1>7 DEF Drain, StdioResponds
  <2>2. ~Answered(n) /\ n \in Asking /\ IdOf(n) = 0 /\ n \notin Calling
    BY <1>1, <1>4 DEF Answered, Asking, IdOf, Calling
  <2>3. Done' = n /\ (stdin'.offset = 0 \/ AtTheEnd')
    <3>1. CASE EndsLine
      <4>1. stdin'.line = n + 1 /\ stdin'.offset = 0
        BY <3>1, <1>1, <1>2, <1>3, ReaderMoves
      <4> QED BY <4>1, <1>4 DEF Done
    <3>2. CASE ~EndsLine
      <4>1. Taken = 0
        BY <3>2, <1>7 DEF Drained
      <4>2. stdin'.line = n /\ stdin'.offset = stdin.offset
        BY <3>2, <4>1, <1>1, <1>2, <1>3, ReaderMoves, StdioReads
      <4>3. unended /\ n = Len(script) /\ stdin.offset = script[n].size
        <5>1. /\ script[n].size \in Nat /\ stdin.offset \in Nat
              /\ Available = script[n].size - stdin.offset + (IF HasNewline THEN 1 ELSE 0)
              /\ HasNewline <=> ~(unended /\ n = Len(script))
              /\ (Taken = Available \/ Taken = MaxLine) /\ MaxLine \in Nat \ {0}
          BY <1>1, <1>3, <1>4, StdioReads
        <5>2. stdin.offset <= script[n].size
          BY <1>1, <1>3, <1>4 DEF StandsWell
        <5>3. Available = 0
          BY <4>1, <5>1
        <5> QED BY <5>1, <5>2, <5>3
      <4> QED BY <4>2, <4>3, <1>1, <1>2 DEF Done, AtTheEnd
    <3> QED BY <3>1, <3>2
  <2>4. answer' \in Replies' /\ answer'.id = 0
    BY <2>1, <1>5 DEF Replies, Sayings
  <2>5. n \in Asking' /\ IdOf(n)' = 0
    BY <2>2, <1>2, LinesStay
  <2>6. RanTo(n)'
    BY <1>1, <1>2, <1>4, <2>2, RunLine
  <2> QED BY <2>1, <2>3, <2>4, <2>5, <2>6, <1>5, <1>6 DEF StdioInv
<1>8. CASE ~Drained
  <2>1. stdioAt' = stdioAt /\ answer' = answer
    BY <1>8 DEF Drain
  <2>2. ~EndsLine /\ stdin'.line = n /\ stdin'.offset = stdin.offset + Taken
    BY <1>8, <1>1, <1>2, <1>3, ReaderMoves DEF Drained
  <2>3. stdin'.offset > 0 /\ Done' = n
    BY <2>2, <1>1, <1>4, StdioReads DEF Done
  <2>4. ~Fits(n)'
    BY <1>1, <1>2, <1>4 DEF Fits
  <2> QED BY <2>1, <2>3, <2>4, <1>1, <1>5, <1>6 DEF StdioInv
<1> QED BY <1>7, <1>8

(* What a request that fits is answered, and whether it runs.               *)
LEMMA RequestIsMet ==
    ASSUME StandsWell, NEW n \in 1 .. Len(script), Fits(n),
           NEW a \in Answers(script[n])
    PROVE  /\ a \in Replies
           /\ a = Silence => n \notin Asking
           /\ a # Silence => n \in Asking /\ a.id = IdOf(n)
           /\ Runs(script[n]) <=> n \in Calling
<1>1. PICK r : r = script[n]
  OBVIOUS
<1>2. r \in ClientLines /\ r.kind \in LineKinds /\ Len(script) \in Nat
  BY <1>1, StdioAssumption DEF StandsWell
<1>3. Runs(r) <=> n \in Calling
  BY <1>1 DEF Runs, Calling
<1>4. CASE r.kind \in {"not_utf8", "malformed"}
  <2>1. a = [id |-> 0, says |-> "-32700"] /\ a # Silence
    BY <1>1, <1>4 DEF Answers, Silence
  <2>2. ~Answered(n)
    BY <1>1, <1>4 DEF Answered
  <2> QED BY <1>1, <1>3, <2>1, <2>2 DEF Asking, IdOf, Replies, Sayings
<1>5. CASE r.kind \notin {"not_utf8", "malformed"} /\ r.id = 0
  <2>1. a = Silence
    BY <1>1, <1>5 DEF Answers
  <2>2. Answered(n)
    BY <1>1, <1>5 DEF Answered
  <2> QED BY <1>1, <1>3, <1>5, <2>1, <2>2 DEF Asking, Silence, Replies, Sayings
<1>6. CASE r.kind \notin {"not_utf8", "malformed"} /\ r.id # 0
  <2>1. PICK s \in Says(r) : a = IF s = "nothing" THEN Silence ELSE [id |-> r.id, says |-> s]
    BY <1>1, <1>6 DEF Answers
  <2>2. Answered(n) /\ IdOf(n) = r.id
    BY <1>1, <1>6 DEF Answered, IdOf
  <2>3. n \in Asking <=> r.kind \notin {"initialized", "blank"}
    BY <1>1, <1>6, <2>2 DEF Asking
  <2>4. s \in Sayings /\ (s = "nothing" <=> r.kind \in {"initialized", "blank"})
    <3>1. NegotiateProtocolVersion(r.arg) \in SupportedProtocolVersions
      BY DEF NegotiateProtocolVersion, SupportedProtocolVersions
    <3>2. PICK v : v = NegotiateProtocolVersion(r.arg)
      OBVIOUS
    <3>3. v \in Sayings /\ v # "nothing"
      BY <3>1, <3>2 DEF Sayings, SupportedProtocolVersions
    <3>4. Says(r) = CASE r.kind = "initialize" -> {v}
                      [] r.kind = "list" -> {"result"}
                      [] r.kind = "call" -> {"result", "-32000"}
                      [] r.kind \in {"bad_arguments", "no_name"} -> {"-32602"}
                      [] r.kind \in {"unknown_tool", "unsupported"} -> {"-32601"}
                      [] OTHER -> {"nothing"}
      BY <3>2 DEF Says
    <3>5. CASE r.kind = "initialize"
      BY <3>3, <3>4, <3>5
    <3>6. CASE r.kind = "list"
      BY <3>4, <3>6 DEF Sayings
    <3>7. CASE r.kind = "call"
      BY <3>4, <3>7 DEF Sayings
    <3>8. CASE r.kind \in {"bad_arguments", "no_name"}
      BY <3>4, <3>8 DEF Sayings
    <3>9. CASE r.kind \in {"unknown_tool", "unsupported"}
      BY <3>4, <3>9 DEF Sayings
    <3>10. CASE r.kind \in {"initialized", "blank"}
      BY <3>4, <3>10 DEF Sayings
    <3> QED BY <3>5, <3>6, <3>7, <3>8, <3>9, <3>10, <1>2, <1>6 DEF LineKinds
  <2>5. CASE s = "nothing"
    <3>1. a = Silence
      BY <2>1, <2>5
    <3> QED BY <1>1, <1>3, <3>1, <2>3, <2>4, <2>5 DEF Silence, Replies, Sayings
  <2>6. CASE s # "nothing"
    <3>1. a = [id |-> r.id, says |-> s]
      BY <2>1, <2>6
    <3>2. a # Silence /\ a.id = r.id
      BY <3>1, <1>6 DEF Silence
    <3>3. a \in Replies
      BY <3>1, <2>4, <1>2 DEF Replies
    <3> QED BY <1>1, <1>3, <3>2, <3>3, <2>2, <2>3, <2>4, <2>6
  <2> QED BY <2>5, <2>6
<1> QED BY <1>4, <1>5, <1>6

(* So does handling a line, run if it calls.                                *)
LEMMA HandleKeeps ==
    ASSUME StdioInv, HandleJsonrpc
    PROVE  StdioInv'
<1>1. PICK n : n = Done
  OBVIOUS
<1>2. /\ StandsWell /\ answer \in Replies
      /\ stdin.offset = 0 \/ AtTheEnd
      /\ n >= 1 /\ Fits(n)
      /\ piece = [line |-> n, from |-> 0, to |-> script[n].size]
      /\ AnsweredTo(n - 1) /\ RanTo(n - 1)
  BY <1>1 DEF StdioInv, HandleJsonrpc
<1>3. n \in 1 .. Len(script) /\ Len(script) \in Nat
  BY <1>1, <1>2, StdioReads DEF Done, StandsWell
<1>4. Request = script[n] /\ piece.line = n
  BY <1>2 DEF Request, Whole
<1>5. PICK a \in Answers(script[n]) :
        IF a = Silence THEN stdioAt' = "read" /\ UNCHANGED answer ELSE StdioResponds(a)
  BY <1>4 DEF HandleJsonrpc
<1>6. /\ a \in Replies
      /\ a = Silence => n \notin Asking
      /\ a # Silence => n \in Asking /\ a.id = IdOf(n)
      /\ Runs(script[n]) <=> n \in Calling
  BY <1>2, <1>3, <1>5, RequestIsMet
<1>7. /\ ran' = IF n \in Calling THEN Append(ran, n) ELSE ran
      /\ script' = script /\ unended' = unended /\ stdin' = stdin
      /\ piece' = piece /\ answers' = answers
  BY <1>4, <1>6 DEF HandleJsonrpc
<1>8. RanTo(n)'
  BY <1>2, <1>3, <1>7, RunLine
<1>9. StandsWell' /\ Done' = n /\ (AtTheEnd' <=> AtTheEnd) /\ Replies' = Replies
  BY <1>1, <1>2, <1>7 DEF StandsWell, Done, AtTheEnd, Replies, Sayings
<1>10. CASE a = Silence
  <2>1. stdioAt' = "read" /\ answer' = answer
    BY <1>5, <1>10
  <2>2. AnsweredTo(n)
    BY <1>2, <1>3, <1>6, <1>10, SilentLine
  <2>3. AnsweredTo(n)'
    BY <2>2, <1>7, AnswersStay
  <2> QED BY <2>1, <2>3, <1>2, <1>7, <1>8, <1>9 DEF StdioInv
<1>11. CASE a # Silence
  <2>1. stdioAt' = "write" /\ answer' = a
    BY <1>5, <1>11 DEF StdioResponds
  <2>2. AnsweredTo(n - 1)'
    BY <1>2, <1>7, AnswersStay
  <2>3. n \in Asking' /\ answer'.id = IdOf(n)'
    BY <2>1, <1>6, <1>7, <1>11, LinesStay
  <2> QED BY <2>1, <2>2, <2>3, <1>2, <1>6, <1>7, <1>8, <1>9 DEF StdioInv
<1> QED BY <1>10, <1>11

(* So does writing the answer of the line handled.                          *)
LEMMA WriteKeeps ==
    ASSUME StdioInv, Write
    PROVE  StdioInv'
<1>1. PICK n : n = Done
  OBVIOUS
<1>2. /\ StandsWell /\ answer \in Replies
      /\ stdin.offset = 0 \/ AtTheEnd
      /\ n \in Asking /\ answer.id = IdOf(n)
      /\ AnsweredTo(n - 1) /\ RanTo(n)
  BY <1>1 DEF StdioInv, Write
<1>3. n \in 1 .. Len(script) /\ Len(script) \in Nat
  BY <1>2, StdioReads DEF Asking
<1>4. /\ script' = script /\ unended' = unended /\ stdin' = stdin
      /\ piece' = piece /\ ran' = ran /\ answer' = Silence
  BY DEF Write
<1>5. StandsWell' /\ Done' = n /\ (AtTheEnd' <=> AtTheEnd) /\ answer' \in Replies'
  BY <1>1, <1>2, <1>4 DEF StandsWell, Done, AtTheEnd, Replies, Sayings, Silence
<1>6. RanTo(n)'
  BY <1>2, <1>4, RunsStay
<1>7. CASE stdioAt' = "read" /\ answers' = Append(answers, answer)
  <2>1. AnsweredTo(n)'
    BY <1>2, <1>3, <1>4, <1>7, AnsweredLine
  <2> QED BY <2>1, <1>2, <1>4, <1>5, <1>6, <1>7 DEF StdioInv
<1>8. CASE stdioAt' = "failed"
  BY <1>5, <1>8 DEF StdioInv
<1> QED BY <1>7, <1>8 DEF Write

LEMMA StdioStep ==
    ASSUME StdioInv, [StdioNext]_stdioVars
    PROVE  StdioInv'
<1>1. CASE StartUp
  <2>1. /\ StandsWell /\ answer \in Replies
        /\ stdin.line = 1 /\ stdin.offset = 0 /\ answers = <<>> /\ ran = <<>>
    BY <1>1 DEF StdioInv, StartUp
  <2>2. /\ script' = script /\ unended' = unended /\ stdin' = stdin
        /\ answer' = answer /\ answers' = answers /\ ran' = ran
        /\ stdioAt' \in {"read", "failed"}
    BY <1>1 DEF StartUp
  <2>3. Done' = 0 /\ StandsWell' /\ Replies' = Replies /\ Len(script) \in Nat
    BY <2>1, <2>2, StdioReads DEF Done, StandsWell, Replies, Sayings
  <2>4. InOrder(Asking)[0] = <<>> /\ InOrder(Calling)[0] = <<>>
    BY <2>3, OneMoreLine
  <2>5. AnsweredTo(0) /\ RanTo(0)
    BY <2>1, <2>4 DEF AnsweredTo, RanTo
  <2>6. AnsweredTo(0)' /\ RanTo(0)'
    BY <2>2, <2>5, AnswersStay, RunsStay
  <2> QED BY <2>1, <2>2, <2>3, <2>6 DEF StdioInv
<1>2. CASE ReadCappedLine
  BY <1>2, ReadKeeps
<1>3. CASE Drain
  BY <1>3, DrainKeeps
<1>4. CASE HandleJsonrpc
  BY <1>4, HandleKeeps
<1>5. CASE Write
  BY <1>5, WriteKeeps
<1>6. CASE ReadError
  <2>1. StandsWell /\ answer \in Replies
    BY DEF StdioInv
  <2>2. /\ script' = script /\ unended' = unended /\ stdin' = stdin
        /\ answer' = answer /\ stdioAt' = "ended"
    BY <1>6 DEF ReadError
  <2>3. StandsWell' /\ Replies' = Replies
    BY <2>1, <2>2 DEF StandsWell, Replies, Sayings
  <2> QED BY <2>1, <2>2, <2>3 DEF StdioInv
<1>7. CASE UNCHANGED stdioVars
  <2>1. /\ script' = script /\ unended' = unended /\ stdin' = stdin /\ stdioAt' = stdioAt
        /\ piece' = piece /\ answer' = answer /\ answers' = answers /\ ran' = ran
    BY <1>7 DEF stdioVars
  <2>2. /\ StandsWell' <=> StandsWell
        /\ Done' = Done /\ (AtTheEnd' <=> AtTheEnd) /\ Replies' = Replies
    BY <2>1 DEF StandsWell, Done, AtTheEnd, Replies, Sayings
  <2>3. Asking' = Asking /\ \A k : IdOf(k)' = IdOf(k) /\ (Fits(k)' <=> Fits(k))
    BY <2>1, LinesStay
  <2>4. \A n : (AnsweredTo(n) => AnsweredTo(n)') /\ (RanTo(n) => RanTo(n)')
    BY <2>1, AnswersStay, RunsStay
  <2> QED BY <2>1, <2>2, <2>3, <2>4 DEF StdioInv
<1> QED BY <1>1, <1>2, <1>3, <1>4, <1>5, <1>6, <1>7 DEF StdioNext

(* Theorem.  For every limit, every input of any number and size of lines   *)
(* and every end of it, between two lines of the stdio loop the client has  *)
(* had one answer, in order and to its id, for each line that is owed one,  *)
(* and each call that fits has run once, in order (read_capped_line, main,  *)
(* handle_jsonrpc).                                                         *)
THEOREM StdioInStep == StdioSpec => []StdioKeepsStep
<1>1. StdioSpec => []StdioInv
  BY StdioStarts, StdioStep, PTL DEF StdioSpec
<1>2. StdioInv => StdioKeepsStep
  BY DEF StdioInv, StdioKeepsStep, OneAnswerEach, CallsRunOnce, AnsweredTo, RanTo
<1> QED BY <1>1, <1>2, PTL

-----------------------------------------------------------------------------

(* The backend and its speculative engine.                                  *)

(* Counting one more and one less.                                          *)
LEMMA RaisedCount ==
    ASSUME NEW D, NEW f \in [D -> Nat], NEW x
    PROVE  /\ Raised(f, x) \in [D -> Nat]
           /\ \A y \in D : Raised(f, x)[y] = IF y = x THEN f[y] + 1 ELSE f[y]
<1>1. PICK g : g = Raised(f, x)
  OBVIOUS
<1>2. g = [y \in D |-> IF y = x THEN f[x] + 1 ELSE f[y]]
  BY <1>1 DEF Raised
<1>3. \A y \in D : f[y] \in Nat
  OBVIOUS
<1>4. \A y \in D : g[y] = (IF y = x THEN f[y] + 1 ELSE f[y]) /\ g[y] \in Nat
  BY <1>2, <1>3
<1>5. g \in [D -> Nat]
  BY <1>2, <1>4
<1> QED BY <1>1, <1>4, <1>5

(* One less is still a count, and zero stays zero.                          *)
LEMMA LoweredCount ==
    ASSUME NEW D, NEW f \in [D -> Nat], NEW x
    PROVE  /\ Lowered(f, x) \in [D -> Nat]
           /\ \A y \in D : Lowered(f, x)[y] > 0 => f[y] > 0
<1>1. PICK g : g = Lowered(f, x)
  OBVIOUS
<1>2. g = [y \in D |-> IF y = x THEN (IF f[x] = 0 THEN 0 ELSE f[x] - 1) ELSE f[y]]
  BY <1>1 DEF Lowered
<1>3. \A y \in D : f[y] \in Nat
  OBVIOUS
<1>4. \A y \in D : g[y] \in Nat /\ (g[y] > 0 => f[y] > 0)
  BY <1>2, <1>3
<1>5. g \in [D -> Nat]
  BY <1>2, <1>4
<1> QED BY <1>1, <1>4, <1>5

Steps == PageHashes \X Acts \X PageHashes

(* The parts of the engine.                                                 *)
LEMMA EngineParts ==
    ASSUME NEW e, IsEngine(e)
    PROVE  /\ e.trans \in [Steps -> Nat] /\ e.seqs \in [Pairs -> Nat]
           /\ e.snaps \in Seq(PageHashes) /\ e.cursor \in Acts \cup {None}
           /\ e = [trans |-> e.trans, seqs |-> e.seqs, snaps |-> e.snaps,
                   cursor |-> e.cursor]
BY DEF IsEngine, Steps

(* An engine is put together from its parts.                                *)
LEMMA EngineWhole ==
    ASSUME NEW tr \in [Steps -> Nat], NEW sq \in [Pairs -> Nat],
           NEW sn \in Seq(PageHashes), NEW cu \in Acts \cup {None}
    PROVE  IsEngine([trans |-> tr, seqs |-> sq, snaps |-> sn, cursor |-> cu])
BY DEF IsEngine, Steps

(* What is recorded of a step.                                              *)
LEMMA RecordedIs ==
    ASSUME NEW e, IsEngine(e), NEW s, NEW a \in Acts, NEW t,
           NEW r, r = RecordTransition(e, s, a, t)
    PROVE  /\ IsEngine(r) /\ r.cursor = a
           /\ \A x \in Steps : r.trans[x] > 0 => x = <<s, a, t>> \/ e.trans[x] > 0
           /\ \A p \in Pairs : r.seqs[p] = IF e.cursor # None /\ p = <<e.cursor, a>>
                                           THEN e.seqs[p] + 1 ELSE e.seqs[p]
<1>1. PICK tr : tr = Raised(e.trans, <<s, a, t>>)
  OBVIOUS
<1>2. PICK sq : sq = IF e.cursor = None THEN e.seqs ELSE Raised(e.seqs, <<e.cursor, a>>)
  OBVIOUS
<1>0. /\ e.trans \in [Steps -> Nat] /\ e.seqs \in [Pairs -> Nat]
      /\ e.snaps \in Seq(PageHashes) /\ e.cursor \in Acts \cup {None}
      /\ e = [trans |-> e.trans, seqs |-> e.seqs, snaps |-> e.snaps, cursor |-> e.cursor]
  BY EngineParts
<1>3. /\ tr \in [Steps -> Nat]
      /\ \A x \in Steps : tr[x] = IF x = <<s, a, t>> THEN e.trans[x] + 1 ELSE e.trans[x]
  <2>1. PICK f : f = e.trans
    OBVIOUS
  <2>2. PICK x0 : x0 = <<s, a, t>>
    OBVIOUS
  <2>3. f \in [Steps -> Nat] /\ tr = Raised(f, x0)
    BY <1>0, <1>1, <2>1, <2>2
  <2>4. tr \in [Steps -> Nat] /\ \A x \in Steps : tr[x] = IF x = x0 THEN f[x] + 1 ELSE f[x]
    <3> HIDE <1>0, <1>1, <2>1, <2>2
    <3> QED BY <2>3, RaisedCount
  <2> QED BY <2>1, <2>2, <2>4
<1>4. /\ sq \in [Pairs -> Nat]
      /\ \A p \in Pairs : sq[p] = IF e.cursor # None /\ p = <<e.cursor, a>>
                                  THEN e.seqs[p] + 1 ELSE e.seqs[p]
  <2>1. CASE e.cursor = None
    BY <2>1, <1>0, <1>2
  <2>2. CASE e.cursor # None
    <3>1. sq = Raised(e.seqs, <<e.cursor, a>>)
      BY <2>2, <1>2
    <3>2. PICK f : f = e.seqs
      OBVIOUS
    <3>3. PICK x0 : x0 = <<e.cursor, a>>
      OBVIOUS
    <3>4. f \in [Pairs -> Nat] /\ sq = Raised(f, x0)
      BY <1>0, <3>1, <3>2, <3>3
    <3>5. sq \in [Pairs -> Nat] /\ \A p \in Pairs : sq[p] = IF p = x0 THEN f[p] + 1 ELSE f[p]
      <4> HIDE <1>0, <1>2, <3>1, <3>2, <3>3
      <4> QED BY <3>4, RaisedCount
    <3> QED BY <2>2, <3>2, <3>3, <3>5
  <2> QED BY <2>1, <2>2
<1>5. r = [trans |-> tr, seqs |-> sq, snaps |-> e.snaps, cursor |-> a]
  <2>1. ModelRecord(e, s, a, t) = [trans |-> tr, seqs |-> sq, snaps |-> e.snaps,
                                   cursor |-> e.cursor]
    <3>1. ModelRecord(e, s, a, t) = [e EXCEPT !.trans = tr, !.seqs = sq]
      BY <1>1, <1>2 DEF ModelRecord
    <3> QED BY <3>1, <1>0
  <2> QED BY <2>1 DEF RecordTransition
<1>6. IsEngine(r)
  <2>1. tr \in [Steps -> Nat] /\ sq \in [Pairs -> Nat] /\ a \in Acts \cup {None}
    BY <1>3, <1>4
  <2>2. IsEngine([trans |-> tr, seqs |-> sq, snaps |-> e.snaps, cursor |-> a])
    BY <2>1, <1>0, EngineWhole
  <2> QED BY <2>2, <1>5
<1>7. r.trans = tr /\ r.seqs = sq /\ r.cursor = a
  BY <1>5
<1>8. \A x \in Steps : tr[x] > 0 => x = <<s, a, t>> \/ e.trans[x] > 0
  BY <1>3
<1> QED BY <1>4, <1>6, <1>7, <1>8

(* What is taken back of a step is only a count.                            *)
LEMMA UnlearnedIs ==
    ASSUME NEW e, IsEngine(e), NEW s, NEW a, NEW t, NEW r, r = Unlearn(e, s, a, t)
    PROVE  /\ IsEngine(r) /\ r.cursor = e.cursor /\ r.seqs = e.seqs
           /\ \A x \in Steps : r.trans[x] > 0 => e.trans[x] > 0
<1>1. PICK tr : tr = Lowered(e.trans, <<s, a, t>>)
  OBVIOUS
<1>2. tr \in [Steps -> Nat] /\ \A x \in Steps : tr[x] > 0 => e.trans[x] > 0
  BY <1>1, EngineParts, LoweredCount
<1>3. r = [trans |-> tr, seqs |-> e.seqs, snaps |-> e.snaps, cursor |-> e.cursor]
  BY <1>1, EngineParts DEF Unlearn
<1>4. IsEngine(r)
  <2>1. /\ tr \in [Steps -> Nat] /\ e.seqs \in [Pairs -> Nat]
        /\ e.snaps \in Seq(PageHashes) /\ e.cursor \in Acts \cup {None}
    BY <1>2, EngineParts
  <2>2. IsEngine([trans |-> tr, seqs |-> e.seqs, snaps |-> e.snaps, cursor |-> e.cursor])
    BY <2>1, EngineWhole
  <2> QED BY <2>2, <1>3
<1>5. r.trans = tr /\ r.seqs = e.seqs /\ r.cursor = e.cursor
  BY <1>3
<1> QED BY <1>2, <1>4, <1>5

(* Observing a state touches nothing but the snapshots.                     *)
LEMMA ObservedIs ==
    ASSUME NEW e, IsEngine(e), NEW s \in PageHashes, NEW r, r = ObserveState(e, s)
    PROVE  /\ IsEngine(r) /\ r.trans = e.trans /\ r.seqs = e.seqs
           /\ r.cursor = e.cursor
<1>1. CASE Snapshot(e, s)
  BY <1>1 DEF ObserveState
<1>2. CASE ~Snapshot(e, s)
  <2>1. PICK longer : longer = Append(e.snaps, s)
    OBVIOUS
  <2>2. longer \in Seq(PageHashes) /\ longer # <<>>
    BY <2>1, EngineParts
  <2>3. Tail(longer) \in Seq(PageHashes)
    BY <2>2, HeadTailProperties
  <2>4. PICK sn : sn = IF Len(longer) > SnapshotCapacity THEN Tail(longer) ELSE longer
    OBVIOUS
  <2>5. sn \in Seq(PageHashes)
    BY <2>2, <2>3, <2>4
  <2>6. r = [trans |-> e.trans, seqs |-> e.seqs, snaps |-> sn, cursor |-> e.cursor]
    <3>1. r = [e EXCEPT !.snaps = sn]
      BY <1>2, <2>1, <2>4 DEF ObserveState
    <3> QED BY <3>1, EngineParts
  <2>7. IsEngine(r)
    <3>1. /\ e.trans \in [Steps -> Nat] /\ e.seqs \in [Pairs -> Nat]
          /\ e.cursor \in Acts \cup {None}
      BY EngineParts
    <3>2. IsEngine([trans |-> e.trans, seqs |-> e.seqs, snaps |-> sn, cursor |-> e.cursor])
      BY <3>1, <2>5, EngineWhole
    <3> QED BY <3>2, <2>6
  <2> QED BY <2>6, <2>7
<1> QED BY <1>1, <1>2

(* Clearing the cursor touches nothing else.                                *)
LEMMA ClearedIs ==
    ASSUME NEW e, IsEngine(e), NEW r, r = ClearCursor(e)
    PROVE  /\ IsEngine(r) /\ r.trans = e.trans /\ r.seqs = e.seqs
           /\ r.snaps = e.snaps /\ r.cursor = None
<1>1. r = [trans |-> e.trans, seqs |-> e.seqs, snaps |-> e.snaps, cursor |-> None]
  BY EngineParts DEF ClearCursor
<1>2. IsEngine(r)
  BY <1>1, EngineParts, EngineWhole
<1> QED BY <1>1, <1>2

(* The parts of the backend.                                                *)
LEMMA BackendParts ==
    ASSUME NEW b, IsBackend(b)
    PROVE  /\ b.cache \in PageHashes \cup {None} /\ b.prev \in PageHashes \cup {None}
           /\ b.verified \in BOOLEAN /\ b.pending \in Acts \cup {None}
           /\ b.last \in Acts \cup {None} /\ b.broken \in BOOLEAN
           /\ b.served \in SUBSET [from : PageHashes, act : Acts, to : PageHashes]
           /\ b.hits \in Nat /\ b.misses \in Nat
           /\ \A x, y \in b.served : x = y
           /\ b.served = {} => b.verified
           /\ b.served # {} => b.hits > 0 /\ ~b.verified
           /\ b.pending # None => ~b.broken
           /\ b = [cache |-> b.cache, prev |-> b.prev, verified |-> b.verified,
                   pending |-> b.pending, last |-> b.last, broken |-> b.broken,
                   served |-> b.served, hits |-> b.hits, misses |-> b.misses]
BY DEF IsBackend

(* What a capture corrects of a prediction that was served.                 *)
LEMMA ReconciledIs ==
    ASSUME NEW b, IsBackend(b), NEW e, IsEngine(e), NEW s, NEW r, r = Reconcile(b, e, s)
    PROVE  /\ IsEngine(r)
           /\ b.served = {} => r = e
           /\ \A x \in Steps : r.trans[x] > 0 =>
                \/ e.trans[x] > 0
                \/ /\ b.pending = None /\ ~b.broken
                   /\ \E y \in b.served : x = <<y.from, y.act, s>>
<1>1. CASE b.served = {} \/ b.pending # None \/ b.broken
  BY <1>1 DEF Reconcile
<1>2. CASE ~(b.served = {} \/ b.pending # None \/ b.broken)
  <2>1. PICK p : p = CHOOSE y \in b.served : TRUE
    OBVIOUS
  <2>2. p \in b.served
    BY <1>2, <2>1
  <2>3. p.act \in Acts
    BY <2>2, BackendParts
  <2>4. CASE Verify(p, s)
    <3>1. r = e
      BY <1>2, <2>1, <2>4 DEF Reconcile
    <3> QED BY <3>1
  <2>5. CASE ~Verify(p, s)
    <3>1. r = CorrectTransition(e, p.from, p.act, p.to, s)
      BY <1>2, <2>1, <2>5 DEF Reconcile
    <3>2. PICK u : u = Unlearn(e, p.from, p.act, p.to)
      OBVIOUS
    <3>3. IsEngine(u) /\ \A x \in Steps : u.trans[x] > 0 => e.trans[x] > 0
      BY <3>2, UnlearnedIs
    <3>4. r = RecordTransition(u, p.from, p.act, s)
      BY <3>1, <3>2 DEF CorrectTransition, RecordTransition
    <3>5. /\ IsEngine(r)
          /\ \A x \in Steps : r.trans[x] > 0 => x = <<p.from, p.act, s>> \/ u.trans[x] > 0
      BY <3>3, <3>4, <2>3, RecordedIs
    <3> QED BY <3>3, <3>5, <2>2, <1>2
  <2> QED BY <2>4, <2>5
<1> QED BY <1>1, <1>2

(* What a capture teaches the engine.                                       *)
LEMMA EngineObservesIs ==
    ASSUME NEW b, IsBackend(b), NEW e, IsEngine(e), NEW s \in PageHashes,
           NEW r, r = EngineObserves(b, e, s)
    PROVE  /\ IsEngine(r)
           /\ \A x \in Steps : r.trans[x] > 0 =>
                \/ e.trans[x] > 0
                \/ /\ b.pending = None /\ ~b.broken
                   /\ \E y \in b.served : x = <<y.from, y.act, s>>
                \/ /\ b.served = {} /\ b.prev # None /\ b.pending # None
                   /\ x = <<b.prev, b.pending, s>>
           /\ b.served = {} =>
                /\ r.cursor = IF b.pending # None THEN b.pending ELSE e.cursor
                /\ \A p \in Pairs : r.seqs[p] =
                     IF /\ b.prev # None /\ b.pending # None /\ e.cursor # None
                        /\ p = <<e.cursor, b.pending>>
                     THEN e.seqs[p] + 1 ELSE e.seqs[p]
<1>1. PICK e1 : e1 = Reconcile(b, e, s)
  OBVIOUS
<1>2. PICK e2 : e2 = ObserveState(e1, s)
  OBVIOUS
<1>3. /\ IsEngine(e1) /\ (b.served = {} => e1 = e)
      /\ \A x \in Steps : e1.trans[x] > 0 =>
           \/ e.trans[x] > 0
           \/ /\ b.pending = None /\ ~b.broken
              /\ \E y \in b.served : x = <<y.from, y.act, s>>
  BY <1>1, ReconciledIs
<1>4. /\ IsEngine(e2) /\ e2.trans = e1.trans /\ e2.seqs = e1.seqs
      /\ e2.cursor = e1.cursor
  BY <1>2, <1>3, ObservedIs
<1>5. /\ b.pending \in Acts \cup {None} /\ b.verified \in BOOLEAN
      /\ (b.verified <=> b.served = {})
  BY BackendParts
<1>6. CASE ShouldRecordTransition(b)
  <2>1. r = RecordTransition(e2, b.prev, b.pending, s)
    BY <1>1, <1>2, <1>6 DEF EngineObserves
  <2>2. b.served = {} /\ b.prev # None /\ b.pending # None /\ b.pending \in Acts
    BY <1>5, <1>6 DEF ShouldRecordTransition
  <2>3. /\ IsEngine(r) /\ r.cursor = b.pending
        /\ \A x \in Steps : r.trans[x] > 0 =>
             x = <<b.prev, b.pending, s>> \/ e2.trans[x] > 0
        /\ \A p \in Pairs : r.seqs[p] = IF e2.cursor # None /\ p = <<e2.cursor, b.pending>>
                                        THEN e2.seqs[p] + 1 ELSE e2.seqs[p]
    <3>1. IsEngine(e2) /\ b.pending \in Acts
      BY <1>4, <2>2
    <3> HIDE <1>1, <1>2, <1>3, <1>4
    <3> QED BY <3>1, <2>1, RecordedIs
  <2>4. e2.trans = e.trans /\ e2.seqs = e.seqs /\ e2.cursor = e.cursor
    BY <1>3, <1>4, <2>2
  <2> QED BY <2>2, <2>3, <2>4
<1>7. CASE ~ShouldRecordTransition(b) /\ b.pending # None
  <2>1. r = [e2 EXCEPT !.cursor = b.pending]
    BY <1>1, <1>2, <1>7 DEF EngineObserves
  <2>2. r = [trans |-> e2.trans, seqs |-> e2.seqs, snaps |-> e2.snaps, cursor |-> b.pending]
    BY <2>1, <1>4, EngineParts
  <2>3. IsEngine(r)
    <3>1. /\ e2.trans \in [Steps -> Nat] /\ e2.seqs \in [Pairs -> Nat]
          /\ e2.snaps \in Seq(PageHashes) /\ b.pending \in Acts \cup {None}
      BY <1>4, <1>5, EngineParts
    <3>2. IsEngine([trans |-> e2.trans, seqs |-> e2.seqs, snaps |-> e2.snaps,
                    cursor |-> b.pending])
      BY <3>1, EngineWhole
    <3> QED BY <3>2, <2>2
  <2>4. r.trans = e1.trans /\ r.seqs = e1.seqs /\ r.cursor = b.pending
    BY <2>2, <1>4
  <2>5. b.served = {} => b.prev = None
    BY <1>5, <1>7 DEF ShouldRecordTransition
  <2> QED BY <1>3, <1>7, <2>3, <2>4, <2>5
<1>8. CASE b.pending = None
  <2>1. r = e2
    BY <1>1, <1>2, <1>8 DEF EngineObserves, ShouldRecordTransition
  <2> QED BY <1>3, <1>4, <1>8, <2>1
<1> QED BY <1>6, <1>7, <1>8

(* The parts of what happened.                                              *)
LEMMA PastParts ==
    ASSUME NEW h, IsPast(h)
    PROVE  /\ h.cap \in PageHashes \cup {None} /\ h.since \in Seq(Acts)
           /\ h.seen \in SUBSET Steps /\ h.acts \in Nat /\ h.done \in Acts \cup {None}
           /\ h.pairs \in [Pairs -> Nat] /\ h.imported \in [Pairs -> Nat]
           /\ h.surprise \in BOOLEAN /\ h.half \in BOOLEAN
           /\ h = [cap |-> h.cap, since |-> h.since, seen |-> h.seen, acts |-> h.acts,
                   done |-> h.done, pairs |-> h.pairs, imported |-> h.imported,
                   surprise |-> h.surprise, half |-> h.half]
BY DEF IsPast, Steps

(* What a real capture adds to what happened.                               *)
LEMMA CapturedIs ==
    ASSUME NEW h, IsPast(h), live \in PageHashes, NEW h2, h2 = StateCaptured(h)
    PROVE  /\ IsPast(h2) /\ h2.cap = live /\ h2.since = <<>>
           /\ h2.done = h.done /\ h2.pairs = h.pairs /\ h2.imported = h.imported
           /\ h2.surprise = h.surprise /\ h2.half = h.half /\ h2.acts = h.acts
           /\ \A x \in h.seen : x \in h2.seen
           /\ \A a : h.since = <<a>> /\ h.cap # None => <<h.cap, a, live>> \in h2.seen
<1>1. PICK seen2 : seen2 = IF Len(h.since) = 1 /\ h.cap # None
                           THEN h.seen \cup {<<h.cap, h.since[1], live>>} ELSE h.seen
  OBVIOUS
<1>2. h2 = [cap |-> live, since |-> <<>>, seen |-> seen2, acts |-> h.acts,
            done |-> h.done, pairs |-> h.pairs, imported |-> h.imported,
            surprise |-> h.surprise, half |-> h.half]
  <2>1. h2 = [h EXCEPT !.seen = seen2, !.cap = live, !.since = <<>>]
    BY <1>1 DEF StateCaptured
  <2>2. h = [cap |-> h.cap, since |-> h.since, seen |-> h.seen, acts |-> h.acts,
             done |-> h.done, pairs |-> h.pairs, imported |-> h.imported,
             surprise |-> h.surprise, half |-> h.half]
    BY PastParts
  <2> QED BY ONLY <2>1, <2>2
<1>3. seen2 \in SUBSET Steps
  <2>1. Len(h.since) = 1 => h.since[1] \in Acts
    BY PastParts
  <2> QED BY <1>1, <2>1, PastParts DEF Steps
<1>4. IsPast(h2)
  <2>1. <<>> \in Seq(Acts) /\ live \in PageHashes \cup {None}
    OBVIOUS
  <2>2. /\ h.acts \in Nat /\ h.done \in Acts \cup {None}
        /\ h.pairs \in [Pairs -> Nat] /\ h.imported \in [Pairs -> Nat]
        /\ h.surprise \in BOOLEAN /\ h.half \in BOOLEAN
    BY PastParts
  <2> QED BY <1>2, <1>3, <2>1, <2>2 DEF IsPast, Steps
<1>5. \A a : h.since = <<a>> /\ h.cap # None => <<h.cap, a, live>> \in seen2
  BY <1>1
<1>6. \A x \in h.seen : x \in seen2
  BY <1>1
<1> QED BY <1>2, <1>4, <1>5, <1>6

(* What is learned from a capture happened.                                 *)
LEMMA CaptureLearns ==
    ASSUME NEW b, NEW e, NEW h, NEW k, Aligned(b, e, h, live, k),
           NEW r, r = EngineObserves(b, e, live), NEW h2, h2 = StateCaptured(h)
    PROVE  /\ IsEngine(r) /\ IsPast(h2)
           /\ LearnedLine(b, r, h2)
           /\ b.hits = 0 => r.cursor = IF b.pending # None THEN b.pending ELSE e.cursor
<1>1. /\ live \in PageHashes /\ IsBackend(b) /\ IsEngine(e) /\ IsPast(h)
      /\ ~h.half => CapturesLine(b, h)
      /\ CursorsLine(b, e, h) /\ LearnedLine(b, e, h)
  BY DEF Aligned
<1>2. /\ IsPast(h2) /\ h2.half = h.half /\ h2.pairs = h.pairs /\ h2.imported = h.imported
      /\ \A x \in h.seen : x \in h2.seen
      /\ \A a : h.since = <<a>> /\ h.cap # None => <<h.cap, a, live>> \in h2.seen
  BY <1>1, CapturedIs
<1>3. /\ IsEngine(r)
      /\ \A x \in Steps : r.trans[x] > 0 =>
           \/ e.trans[x] > 0
           \/ /\ b.pending = None /\ ~b.broken
              /\ \E y \in b.served : x = <<y.from, y.act, live>>
           \/ /\ b.served = {} /\ b.prev # None /\ b.pending # None
              /\ x = <<b.prev, b.pending, live>>
      /\ b.served = {} =>
           /\ r.cursor = IF b.pending # None THEN b.pending ELSE e.cursor
           /\ \A p \in Pairs : r.seqs[p] =
                IF /\ b.prev # None /\ b.pending # None /\ e.cursor # None
                   /\ p = <<e.cursor, b.pending>>
                THEN e.seqs[p] + 1 ELSE e.seqs[p]
  BY <1>1, EngineObservesIs
<1>4. b.hits = 0 => b.served = {}
  BY <1>1, BackendParts
<1>5. ASSUME ~h.half, NEW x \in Steps, r.trans[x] > 0
      PROVE  x \in h2.seen
  <2>1. CASE e.trans[x] > 0
    BY <2>1, <1>1, <1>2, <1>5 DEF LearnedLine, Steps
  <2>2. CASE /\ b.pending = None /\ ~b.broken
             /\ \E y \in b.served : x = <<y.from, y.act, live>>
    <3>1. PICK y \in b.served : x = <<y.from, y.act, live>>
      BY <2>2
    <3>2. y.from = h.cap /\ h.since = <<y.act>>
      BY <1>1, <1>5, <2>2, <3>1 DEF CapturesLine
    <3>3. y.from # None
      BY <3>1, <1>1, BackendParts, BackendAssumption
    <3> QED BY <1>2, <3>1, <3>2, <3>3
  <2>3. CASE /\ b.served = {} /\ b.prev # None /\ b.pending # None
             /\ x = <<b.prev, b.pending, live>>
    <3>1. b.prev = h.cap /\ h.since = <<b.pending>>
      BY <1>1, <1>5, <2>3 DEF CapturesLine
    <3> QED BY <1>2, <2>3, <3>1
  <2> QED BY <1>3, <1>5, <2>1, <2>2, <2>3
<1>6. ASSUME ~h.half, b.hits = 0, NEW p \in Pairs
      PROVE  r.seqs[p] <= h.imported[p] + h.pairs[p]
  <2>1. e.seqs[p] \in Nat /\ h.imported[p] \in Nat /\ h.pairs[p] \in Nat
    BY <1>1, EngineParts, PastParts
  <2>2. e.seqs[p] <= h.imported[p] + h.pairs[p]
    BY <1>1, <1>6 DEF LearnedLine
  <2>3. b.served = {}
    BY <1>4, <1>6
  <2>4. CASE /\ b.prev # None /\ b.pending # None /\ e.cursor # None
             /\ p = <<e.cursor, b.pending>>
    <3>1. e.seqs[p] < h.imported[p] + h.pairs[p]
      BY <1>1, <1>6, <2>4 DEF CursorsLine
    <3>2. r.seqs[p] = e.seqs[p] + 1
      BY <1>3, <2>3, <2>4
    <3> QED BY <2>1, <3>1, <3>2
  <2>5. CASE ~(/\ b.prev # None /\ b.pending # None /\ e.cursor # None
               /\ p = <<e.cursor, b.pending>>)
    <3>1. r.seqs[p] = e.seqs[p]
      BY <1>3, <2>3, <2>5
    <3> QED BY <2>2, <3>1
  <2> QED BY <2>4, <2>5
<1>7. LearnedLine(b, r, h2)
  BY <1>2, <1>5, <1>6 DEF LearnedLine, Steps
<1> QED BY <1>2, <1>3, <1>4, <1>7

(* A state that was captured and delivered.                                 *)
LEMMA DeliveredAligned ==
    ASSUME NEW b, NEW e, NEW h, NEW k, Aligned(b, e, h, live, k),
           NEW r, r = EngineObserves(b, e, live), NEW h2, h2 = StateCaptured(h),
           NEW b2, IsBackend(b2), b2.prev = live, b2.pending = None, b2.served = {},
           ~b2.broken, b2.hits = b.hits, b2.cache \in {b.cache, live},
           NEW k2 \in PageHashes \cup {None}, ~h.surprise => k2 = live
    PROVE  Aligned(b2, r, h2, live, k2)
<1>1. /\ live \in PageHashes /\ IsBackend(b) /\ IsPast(h)
      /\ CursorsLine(b, e, h) /\ ServesLive(b, h, live, k)
  BY DEF Aligned
<1>2. /\ IsPast(h2) /\ h2.cap = live /\ h2.since = <<>> /\ h2.done = h.done
      /\ h2.surprise = h.surprise
  BY <1>1, CapturedIs
<1>3. /\ IsEngine(r)
      /\ LearnedLine(b, r, h2)
      /\ b.hits = 0 => r.cursor = IF b.pending # None THEN b.pending ELSE e.cursor
  BY CaptureLearns
<1>4. CapturesLine(b2, h2)
  BY <1>2 DEF CapturesLine
<1>5. CursorsLine(b2, r, h2)
  <2>1. r.cursor # None /\ b2.hits = 0 => h2.done = r.cursor
    BY <1>1, <1>2, <1>3 DEF CursorsLine
  <2> QED BY <2>1 DEF CursorsLine
<1>6. ServesLive(b2, h2, live, k2)
  BY <1>1, <1>2 DEF ServesLive
<1>7. LearnedLine(b2, r, h2)
  BY <1>3 DEF LearnedLine
<1> QED BY <1>1, <1>2, <1>3, <1>4, <1>5, <1>6, <1>7 DEF Aligned

(* A capture that could not be delivered.                                   *)
LEMMA HalfAligned ==
    ASSUME NEW b, NEW e, NEW h, NEW k, Aligned(b, e, h, live, k),
           NEW r, r = EngineObserves(b, e, live),
           NEW h2, h2 = [StateCaptured(h) EXCEPT !.half = TRUE],
           NEW b2, IsBackend(b2), b2.prev = b.prev, b2.pending = b.pending, b2.served = {},
           ~b2.broken, b2.hits = b.hits, b2.cache = b.cache
    PROVE  Aligned(b2, r, h2, live, k)
<1>1. /\ live \in PageHashes /\ IsBackend(b) /\ IsPast(h) /\ k \in PageHashes \cup {None}
      /\ CursorsLine(b, e, h) /\ ServesLive(b, h, live, k)
  BY DEF Aligned
<1>2. PICK h1 : h1 = StateCaptured(h)
  OBVIOUS
<1>3. IsPast(h1) /\ h1.done = h.done /\ h1.surprise = h.surprise
  BY <1>1, <1>2, CapturedIs
<1>4. IsPast(h2) /\ h2.done = h.done /\ h2.surprise = h.surprise /\ h2.half = TRUE
  BY <1>2, <1>3 DEF IsPast
<1>5. /\ IsEngine(r)
      /\ b.hits = 0 => r.cursor = IF b.pending # None THEN b.pending ELSE e.cursor
  BY CaptureLearns
<1>6. CursorsLine(b2, r, h2)
  BY <1>1, <1>4, <1>5 DEF CursorsLine
<1>7. ServesLive(b2, h2, live, k)
  BY <1>1, <1>4 DEF ServesLive
<1>8. LearnedLine(b2, r, h2)
  BY <1>4 DEF LearnedLine
<1> QED BY <1>1, <1>4, <1>5, <1>6, <1>7, <1>8 DEF Aligned

(* After a reset nothing is cached, pending or served.                      *)
LEMMA ResetIs ==
    ASSUME NEW b, IsBackend(b), NEW b2, b2 = Reset(b)
    PROVE  /\ IsBackend(b2) /\ b2.cache = None /\ b2.prev = None /\ b2.pending = None
           /\ ~b2.broken /\ b2.served = {} /\ b2.hits = b.hits
           /\ b2.misses = b.misses
<1>1. b2 = [cache |-> None, prev |-> None, verified |-> TRUE, pending |-> None,
            last |-> None, broken |-> FALSE, served |-> {}, hits |-> b.hits,
            misses |-> b.misses]
  BY DEF Reset, Fresh
<1>2. b.hits \in Nat /\ b.misses \in Nat
  BY BackendParts
<1> QED BY <1>1, <1>2 DEF IsBackend

(* A reset backend is in line with whatever was learned before.             *)
LEMMA ResetAligned ==
    ASSUME NEW b, NEW e, NEW h, LearnedLine(b, e, h),
           NEW b1, IsBackend(b1), b1.hits = b.hits,
           NEW b2, b2 = Reset(b1),
           NEW e2, IsEngine(e2), e2.trans = e.trans, e2.seqs = e.seqs, e2.cursor = None,
           NEW h2, IsPast(h2), h2.seen = h.seen, h2.half = h.half,
           h2.imported = h.imported, h2.pairs = h.pairs,
           NEW l2 \in PageHashes, NEW k2 \in PageHashes \cup {None}
    PROVE  Aligned(b2, e2, h2, l2, k2)
<1>1. /\ IsBackend(b2) /\ b2.cache = None /\ b2.prev = None /\ b2.pending = None
      /\ ~b2.broken /\ b2.served = {} /\ b2.hits = b.hits
  BY ResetIs
<1>2. CapturesLine(b2, h2) /\ CursorsLine(b2, e2, h2) /\ ServesLive(b2, h2, l2, k2)
  BY <1>1 DEF CapturesLine, CursorsLine, ServesLive
<1>3. LearnedLine(b2, e2, h2)
  BY <1>1 DEF LearnedLine
<1> QED BY <1>1, <1>2, <1>3 DEF Aligned

(* The backend as the next tool finds it.                                   *)
LEMMA PreparedIs ==
    ASSUME BackInv, NEW b, b = PreparedBackend, NEW e, e = PreparedEngine
    PROVE  /\ Aligned(b, e, past, live, known)
           /\ b.hits = bk.hits /\ b.misses = bk.misses
           /\ e.trans = eng.trans /\ e.seqs = eng.seqs
           /\ e.snaps = eng.snaps
           /\ IsBackend(b) /\ IsEngine(e) /\ IsPast(past)
           /\ live \in PageHashes /\ known \in PageHashes \cup {None}
<1>1. Aligned(b, e, past, live, known)
  BY DEF BackInv
<1>2. IsBackend(bk) /\ IsEngine(eng)
  BY DEF BackInv
<1>3. CASE moved
  <2>1. b = Reset(bk) /\ e = ClearCursor(eng)
    BY <1>3 DEF PreparedBackend, PreparedEngine
  <2> QED BY <1>1, <1>2, <2>1, ResetIs, ClearedIs DEF Aligned
<1>4. CASE ~moved
  BY <1>1, <1>2, <1>4 DEF PreparedBackend, PreparedEngine, Aligned
<1> QED BY <1>3, <1>4

(* When no navigation is left to be noticed, what is there is what the next *)
(* tool finds.                                                              *)
LEMMA Settled ==
    ASSUME moved' = FALSE, Aligned(bk, eng, past, live, known)'
    PROVE  BackInv'
<1>1. PreparedBackend' = bk' /\ PreparedEngine' = eng'
  BY DEF PreparedBackend, PreparedEngine
<1>2. IsBackend(bk)' /\ IsEngine(eng)' /\ ServesLive(bk, past, live, known)'
  BY DEF Aligned
<1>3. DeltasApply'
  BY <1>2 DEF ServesLive, DeltasApply
<1> QED BY <1>1, <1>2, <1>3 DEF BackInv

(* A new backend is in line.                                                *)
LEMMA BackStarts == BackInit => BackInv
<1> SUFFICES ASSUME BackInit PROVE BackInv
  OBVIOUS
<1>1. PICK b : b = Fresh(0, 0)
  OBVIOUS
<1>2. b = [cache |-> None, prev |-> None, verified |-> TRUE, pending |-> None,
           last |-> None, broken |-> FALSE, served |-> {}, hits |-> 0, misses |-> 0]
  BY <1>1 DEF Fresh
<1>3. /\ IsBackend(b) /\ b.cache = None /\ b.prev = None /\ b.pending = None
      /\ b.broken = FALSE /\ b.served = {} /\ b.hits = 0
  BY <1>2 DEF IsBackend
<1>4. PICK tr : tr = [x \in Steps |-> 0]
  OBVIOUS
<1>5. PICK sq : sq = [p \in Pairs |-> 0]
  OBVIOUS
<1>6. tr \in [Steps -> Nat] /\ sq \in [Pairs -> Nat] /\ <<>> \in Seq(PageHashes)
  BY <1>4, <1>5
<1>7. eng = [trans |-> tr, seqs |-> sq, snaps |-> <<>>, cursor |-> None]
  BY <1>4, <1>5 DEF BackInit, Steps
<1>8. IsEngine(eng)
  BY <1>6, <1>7, EngineWhole
<1>9. /\ eng.cursor = None /\ \A x \in Steps : eng.trans[x] = 0
      /\ \A p \in Pairs : eng.seqs[p] = 0
  BY <1>4, <1>5, <1>7
<1>10. past = [cap |-> None, since |-> <<>>, seen |-> {}, acts |-> 0, done |-> None,
               pairs |-> sq, imported |-> sq, surprise |-> FALSE, half |-> FALSE]
  BY <1>5 DEF BackInit, PastInit
<1>11. IsPast(past)
  <2>1. <<>> \in Seq(Acts)
    OBVIOUS
  <2> QED BY <1>6, <1>10, <2>1 DEF IsPast
<1>12. past.imported = sq /\ past.pairs = sq
  BY <1>10
<1>13. bk = b /\ moved = FALSE /\ known = None /\ live \in PageHashes
  BY <1>1 DEF BackInit
<1>14. CapturesLine(b, past) /\ CursorsLine(b, eng, past) /\ ServesLive(b, past, live, known)
  BY <1>3, <1>9, <1>13 DEF CapturesLine, CursorsLine, ServesLive
<1>15. LearnedLine(b, eng, past)
  <2>1. \A p \in Pairs : sq[p] = 0
    BY <1>5
  <2> QED BY <1>9, <1>12, <2>1 DEF LearnedLine, Steps
<1>16. Aligned(b, eng, past, live, known)
  BY <1>3, <1>8, <1>11, <1>13, <1>14, <1>15 DEF Aligned
<1>17. PreparedBackend = b /\ PreparedEngine = eng
  BY <1>13 DEF PreparedBackend, PreparedEngine
<1>18. DeltasApply
  BY <1>3, <1>13 DEF DeltasApply
<1> QED BY <1>3, <1>8, <1>13, <1>16, <1>17, <1>18 DEF BackInv

(* The cached answer.                                                       *)
LEMMA FromCacheKeeps ==
    ASSUME BackInv, FromCache
    PROVE  BackInv'
<1>1. PICK b : b = PreparedBackend
  OBVIOUS
<1>2. PICK e : e = PreparedEngine
  OBVIOUS
<1>3. Aligned(b, e, past, live, known) /\ IsBackend(b)
  BY <1>1, <1>2, PreparedIs
<1>4. /\ b.cache # None /\ known' = b.cache /\ bk' = b /\ eng' = e /\ moved' = FALSE
      /\ live' = live /\ past' = past
  BY <1>1, <1>2 DEF FromCache
<1>5. b.cache \in PageHashes \cup {None}
  BY <1>3, BackendParts
<1>6. ServesLive(b, past, live, b.cache)
  BY <1>3, <1>4 DEF Aligned, ServesLive
<1>7. Aligned(b, e, past, live, b.cache)
  BY <1>3, <1>5, <1>6 DEF Aligned
<1>8. Aligned(bk, eng, past, live, known)'
  BY <1>4, <1>7
<1> QED BY <1>4, <1>8, Settled

(* A prediction is served.                                                  *)
LEMMA ServeHitKeeps ==
    ASSUME BackInv, ServeHit
    PROVE  BackInv'
<1>1. PICK b : b = PreparedBackend
  OBVIOUS
<1>2. PICK e : e = PreparedEngine
  OBVIOUS
<1>3. /\ Aligned(b, e, past, live, known) /\ IsBackend(b) /\ IsEngine(e) /\ IsPast(past)
      /\ live \in PageHashes
  BY <1>1, <1>2, PreparedIs
<1>4. PICK t : t = PredictState(e, b.prev, b.pending)
  OBVIOUS
<1>5. PICK x : x = [from |-> b.prev, act |-> b.pending, to |-> t]
  OBVIOUS
<1>6. /\ b.cache = None /\ Outcome(b, e, FALSE) = "hit"
      /\ bk' = [b EXCEPT !.hits = @ + 1, !.prev = t, !.verified = FALSE,
                         !.last = b.pending, !.pending = None, !.served = {x}]
      /\ eng' = e /\ moved' = FALSE /\ known' = t /\ live' = live
      /\ past' = [past EXCEPT !.surprise = @ \/ t # live]
  BY <1>1, <1>2, <1>4, <1>5 DEF ServeHit
<1>7. /\ b.served = {} /\ b.prev # None /\ b.pending # None
      /\ PreGenerate(e, b.prev, b.last).act = b.pending
      /\ PreGenerate(e, b.prev, b.last).state # None
  BY <1>6 DEF Outcome
<1>8. t \in PageHashes
  <2>1. PICK a : a = PredictAction(e, b.last)
    OBVIOUS
  <2>2. PICK u : u = IF a = None THEN None ELSE PredictState(e, b.prev, a)
    OBVIOUS
  <2>3. PreGenerate(e, b.prev, b.last) = [act |-> a, state |-> IF Snapshot(e, u) THEN u ELSE None]
    BY <2>1, <2>2 DEF PreGenerate
  <2>4. a = b.pending /\ Snapshot(e, u)
    BY <1>7, <2>3
  <2>5. u = t
    BY <1>4, <1>7, <2>2, <2>4
  <2>6. e.snaps \in Seq(PageHashes)
    BY <1>3, EngineParts
  <2>7. PICK i \in DOMAIN e.snaps : e.snaps[i] = u
    BY <2>4 DEF Snapshot
  <2> QED BY <2>5, <2>6, <2>7
<1>9. /\ b.prev \in PageHashes /\ b.pending \in Acts /\ ~b.broken /\ b.broken \in BOOLEAN
      /\ b.hits \in Nat /\ b.misses \in Nat
      /\ b = [cache |-> b.cache, prev |-> b.prev, verified |-> b.verified,
              pending |-> b.pending, last |-> b.last, broken |-> b.broken,
              served |-> b.served, hits |-> b.hits, misses |-> b.misses]
  BY <1>3, <1>7, BackendParts
<1>10. PICK b2 : b2 = [cache |-> b.cache, prev |-> t, verified |-> FALSE, pending |-> None,
                       last |-> b.pending, broken |-> b.broken, served |-> {x},
                       hits |-> b.hits + 1, misses |-> b.misses]
  OBVIOUS
<1>11. bk' = b2
  <2>1. PICK hi, sv, no, pe : /\ hi = b.hits + 1 /\ sv = {x} /\ no = FALSE
                              /\ pe = None
    OBVIOUS
  <2>2. bk' = [b EXCEPT !.hits = hi, !.prev = t, !.verified = no,
                        !.last = b.pending, !.pending = pe, !.served = sv]
    BY <1>6, <2>1
  <2>3. bk' = [cache |-> b.cache, prev |-> t, verified |-> no, pending |-> pe,
               last |-> b.pending, broken |-> b.broken, served |-> sv,
               hits |-> hi, misses |-> b.misses]
    BY <1>9, <2>2
  <2> QED BY <2>1, <2>3, <1>10
<1>12. /\ b2.cache = None /\ b2.prev = t /\ b2.pending = None /\ b2.served = {x}
       /\ ~b2.broken /\ b2.hits = b.hits + 1
  BY <1>6, <1>9, <1>10
<1>13. IsBackend(b2)
  <2>1. x \in [from : PageHashes, act : Acts, to : PageHashes]
    BY <1>5, <1>8, <1>9
  <2>2. b.hits + 1 \in Nat /\ b.hits + 1 > 0
    BY <1>9
  <2> QED BY <1>6, <1>8, <1>9, <1>10, <2>1, <2>2 DEF IsBackend
<1>14. PICK h2 : h2 = [past EXCEPT !.surprise = @ \/ t # live]
  OBVIOUS
<1>15. /\ IsPast(h2) /\ h2.cap = past.cap /\ h2.since = past.since /\ h2.half = past.half
       /\ h2.seen = past.seen /\ h2.done = past.done
       /\ h2.surprise = (past.surprise \/ t # live)
  BY <1>3, <1>14 DEF IsPast
<1>16. ~h2.half => CapturesLine(b2, h2)
  <2> SUFFICES ASSUME ~h2.half PROVE CapturesLine(b2, h2)
    OBVIOUS
  <2>1. b.prev = past.cap /\ past.since = <<b.pending>>
    BY <1>3, <1>7, <1>15 DEF Aligned, CapturesLine
  <2>2. x.from = h2.cap /\ h2.since = <<x.act>>
    BY <1>5, <1>15, <2>1
  <2> QED BY <1>12, <2>2 DEF CapturesLine
<1>17. CursorsLine(b2, e, h2)
  BY <1>12, <1>9 DEF CursorsLine
<1>18. ServesLive(b2, h2, live, t)
  BY <1>12, <1>15 DEF ServesLive
<1>19. LearnedLine(b2, e, h2)
  BY <1>3, <1>9, <1>12, <1>15 DEF Aligned, LearnedLine
<1>20. Aligned(b2, e, h2, live, t)
  BY <1>3, <1>8, <1>13, <1>15, <1>16, <1>17, <1>18, <1>19 DEF Aligned
<1>21. Aligned(bk, eng, past, live, known)'
  BY <1>6, <1>11, <1>14, <1>20
<1> QED BY <1>6, <1>21, Settled

(* A backend with nothing served and no chain broken.                       *)
PlainB(ca, pr, pe, la, hi, mi) ==
    [cache |-> ca, prev |-> pr, verified |-> TRUE, pending |-> pe, last |-> la,
     broken |-> FALSE, served |-> {}, hits |-> hi, misses |-> mi]

(* Two of its fields.                                                       *)
LEMMA PlainFields ==
    ASSUME NEW ca, NEW pr, NEW pe, NEW la, NEW hi, NEW mi
    PROVE  /\ PlainB(ca, pr, pe, la, hi, mi).served = {}
           /\ PlainB(ca, pr, pe, la, hi, mi).hits = hi
BY DEF PlainB

(* It is a backend if its fields are what they should be.                   *)
LEMMA PlainBackend ==
    ASSUME NEW ca, ca \in PageHashes \cup {None}, NEW pr, pr \in PageHashes \cup {None},
           NEW pe, pe \in Acts \cup {None}, NEW la, la \in Acts \cup {None},
           NEW hi, hi \in Nat, NEW mi, mi \in Nat
    PROVE  IsBackend(PlainB(ca, pr, pe, la, hi, mi))
BY DEF IsBackend, PlainB

(* What observing a capture leaves of the backend.                          *)
LEMMA ObservesIs ==
    ASSUME NEW b, IsBackend(b), NEW o, o = BackendObserves(b)
    PROVE  o = PlainB(b.cache, b.prev, b.pending, b.last, b.hits, b.misses)
<1>1. PICK sv, yes, no : sv = {} /\ yes = TRUE /\ no = FALSE
  OBVIOUS
<1>2. o = [b EXCEPT !.served = sv, !.broken = no, !.verified = yes]
  BY <1>1 DEF BackendObserves
<1>3. o = [cache |-> b.cache, prev |-> b.prev, verified |-> yes,
           pending |-> b.pending, last |-> b.last, broken |-> no,
           served |-> sv, hits |-> b.hits, misses |-> b.misses]
  BY <1>2, BackendParts
<1> QED BY <1>1, <1>3 DEF PlainB

(* A full or a delta answer promotes the backend.                           *)
Delivered(o, wasBroken, full, s) ==
    IF full THEN [Promote(o, wasBroken, s) EXCEPT !.cache = s] ELSE Promote(o, wasBroken, s)

(* A promoted backend: the delivered state is the next baseline.            *)
AfterDelivery(b, b2) ==
    /\ IsBackend(b2) /\ b2.prev = live /\ b2.pending = None /\ ~b2.broken
    /\ b2.served = {} /\ b2.hits = b.hits /\ b2.cache \in {b.cache, live}

(* Promoting makes one.                                                     *)
LEMMA PromotedIs ==
    ASSUME NEW b, IsBackend(b), live \in PageHashes, NEW mi, mi \in Nat,
           NEW wasBroken, NEW full,
           NEW o, o = PlainB(b.cache, b.prev, b.pending, b.last, b.hits, mi),
           NEW b2, b2 = Delivered(o, wasBroken, full, live)
    PROVE  AfterDelivery(b, b2)
<1>1. PICK la : la = IF b.pending # None THEN b.pending
                     ELSE IF wasBroken THEN None ELSE b.last
  OBVIOUS
<1>2. la \in Acts \cup {None} /\ b.cache \in PageHashes \cup {None} /\ b.hits \in Nat
  BY <1>1, BackendParts
<1>3. PICK q : q = Promote(o, wasBroken, live)
  OBVIOUS
<1>4. o.pending = b.pending /\ o.last = b.last
  BY DEF PlainB
<1>5. q = [o EXCEPT !.last = la, !.pending = None, !.prev = live]
  BY <1>1, <1>3, <1>4 DEF Promote
<1>6. q = PlainB(b.cache, live, None, la, b.hits, mi)
  BY <1>5 DEF PlainB
<1>7. PICK ca : ca = IF full THEN live ELSE b.cache
  OBVIOUS
<1>8. b2 = PlainB(ca, live, None, la, b.hits, mi)
  <2>1. CASE full
    <3>1. b2 = [q EXCEPT !.cache = live] /\ ca = live
      BY <1>3, <1>7, <2>1 DEF Delivered
    <3> QED BY <1>6, <3>1 DEF PlainB
  <2>2. CASE ~full
    BY <1>3, <1>6, <1>7, <2>2 DEF Delivered
  <2> QED BY <2>1, <2>2
<1>9. ca \in PageHashes \cup {None} /\ live \in PageHashes \cup {None} /\ None \in Acts \cup {None}
  BY <1>2, <1>7
<1>10. IsBackend(b2)
  BY <1>2, <1>8, <1>9, PlainBackend
<1>11. b2.cache = ca /\ b2.prev = live /\ b2.pending = None
  BY <1>8 DEF PlainB
<1>13. b2.hits = b.hits
  BY <1>8, PlainFields
<1>14. b2.served = {}
  BY <1>8, PlainFields
<1>12. ~b2.broken
  BY <1>8 DEF PlainB
<1> QED BY <1>7, <1>10, <1>11, <1>12, <1>13, <1>14 DEF AfterDelivery

(* A full capture, delivered or not.                                        *)
LEMMA CaptureFullKeeps ==
    ASSUME BackInv, NEW force, NEW fails, CaptureFull(force, fails)
    PROVE  BackInv'
<1>1. PICK b : b = PreparedBackend
  OBVIOUS
<1>2. PICK e : e = PreparedEngine
  OBVIOUS
<1>3. /\ Aligned(b, e, past, live, known) /\ IsBackend(b) /\ IsEngine(e) /\ IsPast(past)
      /\ live \in PageHashes /\ known \in PageHashes \cup {None}
  BY <1>1, <1>2, PreparedIs
<1>4. PICK more : more = IF Outcome(b, e, force) = "miss" THEN 1 ELSE 0
  OBVIOUS
<1>5. PICK seen : seen = [BackendObserves(b) EXCEPT !.misses = @ + more]
  OBVIOUS
<1>6. PICK r : r = EngineObserves(b, e, live)
  OBVIOUS
<1>7. /\ eng' = r /\ moved' = FALSE /\ live' = live
      /\ IF fails
         THEN /\ bk' = seen /\ known' = known
              /\ past' = [StateCaptured(past) EXCEPT !.half = TRUE]
         ELSE /\ bk' = [Promote(seen, b.broken, live) EXCEPT !.cache = live]
              /\ known' = live
              /\ past' = StateCaptured(past)
  BY <1>1, <1>2, <1>4, <1>5, <1>6 DEF CaptureFull
<1>8. PICK mi \in Nat : mi = b.misses + more
  <2>1. b.misses \in Nat /\ more \in Nat
    BY <1>3, <1>4, BackendParts
  <2> QED BY <2>1
<1>9. seen = PlainB(b.cache, b.prev, b.pending, b.last, b.hits, mi)
  <2>1. PICK o : o = BackendObserves(b)
    OBVIOUS
  <2>2. o = PlainB(b.cache, b.prev, b.pending, b.last, b.hits, b.misses)
    BY <1>3, <2>1, ObservesIs
  <2>3. seen = [o EXCEPT !.misses = mi]
    <3>1. o.misses = b.misses
      BY <2>2 DEF PlainB
    <3> QED BY <1>5, <1>8, <2>1, <3>1
  <2> QED BY <2>2, <2>3 DEF PlainB
<1>10. CASE fails
  <2>1. PICK h2 : h2 = [StateCaptured(past) EXCEPT !.half = TRUE]
    OBVIOUS
  <2>2. /\ IsBackend(seen) /\ seen.prev = b.prev /\ seen.pending = b.pending
        /\ seen.served = {} /\ ~seen.broken /\ seen.hits = b.hits
        /\ seen.cache = b.cache
    <3>1. /\ b.cache \in PageHashes \cup {None} /\ b.prev \in PageHashes \cup {None}
          /\ b.pending \in Acts \cup {None} /\ b.last \in Acts \cup {None}
          /\ b.hits \in Nat
      BY <1>3, BackendParts
    <3>2. IsBackend(seen)
      BY <1>8, <1>9, <3>1, PlainBackend
    <3> QED BY <1>9, <3>2 DEF PlainB
  <2>3. Aligned(seen, r, h2, live, known)
    BY <1>3, <1>6, <2>1, <2>2, HalfAligned
  <2>4. bk' = seen /\ known' = known /\ past' = h2
    BY <1>7, <1>10, <2>1
  <2>5. Aligned(bk, eng, past, live, known)'
    BY <1>7, <2>3, <2>4
  <2> QED BY <1>7, <2>5, Settled
<1>11. CASE ~fails
  <2>1. PICK h2 : h2 = StateCaptured(past)
    OBVIOUS
  <2>2. PICK b2 : b2 = [Promote(seen, b.broken, live) EXCEPT !.cache = live]
    OBVIOUS
  <2>3. /\ IsBackend(b2) /\ b2.prev = live /\ b2.pending = None /\ ~b2.broken
        /\ b2.served = {} /\ b2.hits = b.hits /\ b2.cache \in {b.cache, live}
    <3>1. b2 = Delivered(seen, b.broken, TRUE, live)
      BY <2>2 DEF Delivered
    <3>2. AfterDelivery(b, b2)
      BY <1>3, <1>8, <1>9, <3>1, PromotedIs
    <3> QED BY <3>2 DEF AfterDelivery
  <2>4. live \in PageHashes \cup {None}
    BY <1>3
  <2>5. Aligned(b2, r, h2, live, live)
    BY <1>3, <1>6, <2>1, <2>3, <2>4, DeliveredAligned
  <2>6. bk' = b2 /\ known' = live /\ past' = h2
    BY <1>7, <1>11, <2>1, <2>2
  <2>7. Aligned(bk, eng, past, live, known)'
    BY <1>7, <2>5, <2>6
  <2> QED BY <1>7, <2>7, Settled
<1> QED BY <1>10, <1>11

(* What a forced delta starts from.                                         *)
LEMMA DeltaBaseIs ==
    ASSUME BackInv, NEW force,
           NEW b, b = DeltaBase(PreparedBackend, force),
           NEW e, e = IF force THEN ClearCursor(PreparedEngine) ELSE PreparedEngine
    PROVE  Aligned(b, e, past, live, known)
<1>1. PICK b0 : b0 = PreparedBackend
  OBVIOUS
<1>2. PICK e0 : e0 = PreparedEngine
  OBVIOUS
<1>3. /\ Aligned(b0, e0, past, live, known) /\ IsBackend(b0) /\ IsEngine(e0)
      /\ IsPast(past) /\ live \in PageHashes /\ known \in PageHashes \cup {None}
  BY <1>1, <1>2, PreparedIs
<1>4. CASE ~force
  BY <1>1, <1>2, <1>3, <1>4 DEF DeltaBase
<1>5. CASE force
  <2>1. b = Reset(b0) /\ e = ClearCursor(e0)
    BY <1>1, <1>2, <1>5 DEF DeltaBase
  <2>2. IsEngine(e) /\ e.trans = e0.trans /\ e.seqs = e0.seqs /\ e.cursor = None
    BY <1>3, <2>1, ClearedIs
  <2>3. LearnedLine(b0, e0, past)
    BY <1>3 DEF Aligned
  <2> HIDE DEF Reset, ClearCursor
  <2> QED BY <1>3, <2>1, <2>2, <2>3, ResetAligned
<1> QED BY <1>4, <1>5

(* get_state with a delta.                                                  *)
LEMMA GetDeltaKeeps ==
    ASSUME BackInv, NEW force, NEW full, GetDelta(force, full)
    PROVE  BackInv'
<1>1. PICK b : b = DeltaBase(PreparedBackend, force)
  OBVIOUS
<1>2. PICK e : e = IF force THEN ClearCursor(PreparedEngine) ELSE PreparedEngine
  OBVIOUS
<1>3. Aligned(b, e, past, live, known)
  BY <1>1, <1>2, DeltaBaseIs
<1>4. /\ IsBackend(b) /\ live \in PageHashes /\ known \in PageHashes \cup {None}
      /\ ServesLive(b, past, live, known)
  BY <1>3 DEF Aligned
<1>5. PICK o : o = BackendObserves(b)
  OBVIOUS
<1>6. PICK b2 : b2 = Delivered(o, b.broken, full, live)
  OBVIOUS
<1>7. PICK r : r = EngineObserves(b, e, live)
  OBVIOUS
<1>8. PICK h2 : h2 = StateCaptured(past)
  OBVIOUS
<1>9. PICK k2 : k2 = IF full THEN live ELSE IF known = b.prev THEN live ELSE known
  OBVIOUS
<1>10. /\ b.prev = None => full
       /\ bk' = b2 /\ eng' = r /\ moved' = FALSE /\ known' = k2 /\ past' = h2
       /\ live' = live
  BY <1>1, <1>2, <1>5, <1>6, <1>7, <1>8, <1>9 DEF GetDelta, Delivered
<1>11. o = PlainB(b.cache, b.prev, b.pending, b.last, b.hits, b.misses)
  BY <1>4, <1>5, ObservesIs
<1>12. b.misses \in Nat
  BY <1>4, BackendParts
<1>14. /\ IsBackend(b2) /\ b2.prev = live /\ b2.pending = None /\ ~b2.broken
       /\ b2.served = {} /\ b2.hits = b.hits /\ b2.cache \in {b.cache, live}
  <2>1. AfterDelivery(b, b2)
    BY <1>4, <1>6, <1>11, <1>12, PromotedIs
  <2> QED BY <2>1 DEF AfterDelivery
<1>15. k2 \in PageHashes \cup {None} /\ (~past.surprise => k2 = live)
  BY <1>4, <1>9, <1>10 DEF ServesLive
<1>16. Aligned(b2, r, h2, live, k2)
  BY <1>3, <1>7, <1>8, <1>14, <1>15, DeliveredAligned
<1>17. Aligned(bk, eng, past, live, known)'
  BY <1>10, <1>16
<1> QED BY <1>10, <1>17, Settled

(* A new document: nothing has been captured on it yet.                     *)
LEMMA NewPageIs ==
    ASSUME NEW h, IsPast(h), NEW h2, h2 = NewPage(h)
    PROVE  /\ IsPast(h2) /\ h2.seen = h.seen /\ h2.half = h.half
           /\ h2.imported = h.imported /\ h2.pairs = h.pairs
           /\ h2.surprise = h.surprise
<1>1. h2 = [cap |-> None, since |-> <<>>, seen |-> h.seen, acts |-> h.acts,
            done |-> None, pairs |-> h.pairs, imported |-> h.imported,
            surprise |-> h.surprise, half |-> h.half]
  <2>1. h = [cap |-> h.cap, since |-> h.since, seen |-> h.seen, acts |-> h.acts,
             done |-> h.done, pairs |-> h.pairs, imported |-> h.imported,
             surprise |-> h.surprise, half |-> h.half]
    BY PastParts
  <2>2. h2 = [h EXCEPT !.cap = None, !.since = <<>>, !.done = None]
    BY DEF NewPage
  <2> QED BY <2>1, <2>2
<1>2. /\ h.seen \in SUBSET Steps /\ h.acts \in Nat
      /\ h.pairs \in [Pairs -> Nat] /\ h.imported \in [Pairs -> Nat]
      /\ h.surprise \in BOOLEAN /\ h.half \in BOOLEAN
  BY PastParts
<1>3. <<>> \in Seq(Acts)
  OBVIOUS
<1>4. IsPast(h2)
  BY <1>1, <1>2, <1>3 DEF IsPast, Steps
<1> QED BY <1>1, <1>4

(* Whatever leaves the document drops what stood for it.                    *)
LEMMA LeavesAligned ==
    ASSUME BackInv, NEW b1, IsBackend(b1), b1.hits = bk.hits,
           NEW b2, b2 = Reset(b1),
           NEW e2, IsEngine(e2), e2.trans = eng.trans, e2.seqs = eng.seqs,
           e2.cursor = None,
           NEW h2, h2 = NewPage(past), NEW l2, l2 \in PageHashes
    PROVE  Aligned(b2, e2, h2, l2, known)
<1>1. PICK b : b = PreparedBackend
  OBVIOUS
<1>2. PICK e : e = PreparedEngine
  OBVIOUS
<1>3. /\ Aligned(b, e, past, live, known) /\ b.hits = bk.hits
      /\ e.trans = eng.trans /\ e.seqs = eng.seqs /\ IsPast(past)
      /\ known \in PageHashes \cup {None}
  BY <1>1, <1>2, PreparedIs
<1>4. /\ IsPast(h2) /\ h2.seen = past.seen /\ h2.half = past.half
      /\ h2.imported = past.imported /\ h2.pairs = past.pairs
  BY <1>3, NewPageIs
<1>5. LearnedLine(b, e, past)
  BY <1>3 DEF Aligned
<1>6. b1.hits = b.hits /\ e2.trans = e.trans /\ e2.seqs = e.seqs
  BY <1>3
<1> QED BY <1>3, <1>4, <1>5, <1>6, ResetAligned

(* A skill that acted, and a restarted browser.                             *)
LEMMA LeavesKeeps ==
    ASSUME BackInv, RunSkill \/ Restart
    PROVE  BackInv'
<1>1. IsBackend(bk) /\ IsEngine(eng)
  BY DEF BackInv
<1>2. PICK e1 : e1 = ClearCursor(eng)
  OBVIOUS
<1>3. /\ IsEngine(e1) /\ e1.trans = eng.trans /\ e1.seqs = eng.seqs /\ e1.cursor = None
  BY <1>1, <1>2, ClearedIs
<1>4. PICK b2 : b2 = Reset(bk)
  OBVIOUS
<1>5. PICK h2 : h2 = NewPage(past)
  OBVIOUS
<1>6. PICK e2 : e2 = IF RunSkill THEN e1 ELSE [e1 EXCEPT !.snaps = <<>>]
  OBVIOUS
<1>7. /\ bk' = b2 /\ eng' = e2 /\ past' = h2 /\ known' = known /\ moved' = FALSE
      /\ live' \in PageHashes
  BY <1>2, <1>4, <1>5, <1>6 DEF RunSkill, Restart
<1>8. IsEngine(e2) /\ e2.trans = eng.trans /\ e2.seqs = eng.seqs /\ e2.cursor = None
  <2>1. CASE RunSkill
    BY <1>3, <1>6, <2>1
  <2>2. CASE ~RunSkill
    <3>1. e2 = [e1 EXCEPT !.snaps = <<>>]
      BY <1>6, <2>2
    <3>2. e2 = [trans |-> e1.trans, seqs |-> e1.seqs, snaps |-> <<>>, cursor |-> e1.cursor]
      BY <1>3, <3>1, EngineParts
    <3>3. /\ e1.trans \in [Steps -> Nat] /\ e1.seqs \in [Pairs -> Nat]
          /\ <<>> \in Seq(PageHashes) /\ e1.cursor \in Acts \cup {None}
      BY <1>3, EngineParts
    <3>4. IsEngine(e2)
      BY <3>2, <3>3, EngineWhole
    <3> QED BY <1>3, <3>2, <3>4
  <2> QED BY <2>1, <2>2
<1>9. PICK l2 : l2 = live'
  OBVIOUS
<1>10. Aligned(b2, e2, h2, l2, known)
  <2>1. l2 \in PageHashes
    BY <1>7, <1>9
  <2> QED BY <1>1, <1>4, <1>5, <1>8, <2>1, LeavesAligned
<1>11. Aligned(bk, eng, past, live, known)'
  BY <1>7, <1>9, <1>10
<1> QED BY <1>7, <1>11, Settled

(* A navigation that the next tool will notice.                             *)
LEMMA MovesKeeps ==
    ASSUME BackInv, Navigate \/ ChromeMoves
    PROVE  BackInv'
<1>1. IsBackend(bk) /\ IsEngine(eng) /\ DeltasApply /\ IsPast(past)
  BY DEF BackInv, Aligned
<1>2. PICK b1 : b1 = bk'
  OBVIOUS
<1>3. PICK e1 : e1 = eng'
  OBVIOUS
<1>4. PICK h2 : h2 = NewPage(past)
  OBVIOUS
<1>5. PICK l2 : l2 = live'
  OBVIOUS
<1>6. /\ past' = h2 /\ known' = known /\ moved' = TRUE /\ l2 \in PageHashes
      /\ (b1 = Reset(bk) /\ e1 = ClearCursor(eng)) \/ (b1 = bk /\ e1 = eng)
  <2>1. CASE Navigate
    BY <1>2, <1>3, <1>4, <1>5, <2>1 DEF Navigate
  <2>2. CASE ChromeMoves
    BY <1>2, <1>3, <1>4, <1>5, <2>2 DEF ChromeMoves
  <2> QED BY <2>1, <2>2
<1>7. /\ IsBackend(b1) /\ b1.hits = bk.hits /\ b1.prev \in {bk.prev, None}
  BY <1>1, <1>6, ResetIs
<1>8. IsEngine(e1) /\ e1.trans = eng.trans /\ e1.seqs = eng.seqs
  BY <1>1, <1>6, ClearedIs
<1>9. PICK b2 : b2 = Reset(b1)
  OBVIOUS
<1>10. PICK e2 : e2 = ClearCursor(e1)
  OBVIOUS
<1>11. IsEngine(e2) /\ e2.trans = eng.trans /\ e2.seqs = eng.seqs /\ e2.cursor = None
  BY <1>8, <1>10, ClearedIs
<1>12. Aligned(b2, e2, h2, l2, known)
  BY <1>4, <1>6, <1>7, <1>9, <1>11, LeavesAligned
<1>13. PreparedBackend' = b2 /\ PreparedEngine' = e2
  BY <1>2, <1>3, <1>6, <1>9, <1>10 DEF PreparedBackend, PreparedEngine, Reset, ClearCursor
<1>14. Aligned(PreparedBackend, PreparedEngine, past, live, known)'
  BY <1>5, <1>6, <1>12, <1>13
<1>15. DeltasApply'
  <2>1. h2.surprise = past.surprise
    BY <1>1, <1>4, NewPageIs
  <2> QED BY <1>1, <1>2, <1>6, <1>7, <2>1 DEF DeltasApply
<1>16. IsBackend(bk)' /\ IsEngine(eng)' /\ moved' \in BOOLEAN
  BY <1>2, <1>3, <1>6, <1>7, <1>8
<1> QED BY <1>14, <1>15, <1>16 DEF BackInv

(* A forced delta whose capture fails, and a tool that ends early.          *)
LEMMA NoticeKeeps ==
    ASSUME BackInv, DeltaFails \/ PrepareFails
    PROVE  BackInv'
<1>1. CASE DeltaFails
  <2>1. PICK b : b = DeltaBase(PreparedBackend, TRUE)
    OBVIOUS
  <2>2. PICK e : e = ClearCursor(PreparedEngine)
    OBVIOUS
  <2>3. e = IF TRUE THEN ClearCursor(PreparedEngine) ELSE PreparedEngine
    BY <2>2
  <2>4. Aligned(b, e, past, live, known)
    BY <2>1, <2>3, DeltaBaseIs
  <2>5. /\ bk' = b /\ eng' = e /\ past' = past /\ live' = live /\ known' = known
        /\ moved' = FALSE
    BY <1>1, <2>1, <2>2 DEF DeltaFails
  <2>6. Aligned(bk, eng, past, live, known)'
    BY <2>4, <2>5
  <2> QED BY <2>5, <2>6, Settled
<1>2. CASE PrepareFails
  <2>1. PICK b : b = PreparedBackend
    OBVIOUS
  <2>2. PICK e : e = PreparedEngine
    OBVIOUS
  <2>3. Aligned(b, e, past, live, known)
    BY <2>1, <2>2, PreparedIs
  <2>4. /\ bk' = b /\ eng' = e /\ past' = past /\ live' = live /\ known' = known
        /\ moved' = FALSE
    BY <1>2, <2>1, <2>2 DEF PrepareFails
  <2>5. Aligned(bk, eng, past, live, known)'
    BY <2>3, <2>4
  <2> QED BY <2>4, <2>5, Settled
<1> QED BY <1>1, <1>2

(* After a change nobody asked for nothing is promised of what was served.  *)
LEMMA SurpriseAligned ==
    ASSUME NEW b, NEW e, NEW h, NEW l, NEW k, Aligned(b, e, h, l, k),
           NEW h2, h2 = [h EXCEPT !.surprise = TRUE], NEW l2, l2 \in PageHashes
    PROVE  Aligned(b, e, h2, l2, k) /\ h2.surprise
<1>1. /\ k \in PageHashes \cup {None} /\ IsBackend(b) /\ IsEngine(e) /\ IsPast(h)
      /\ ~h.half => CapturesLine(b, h)
      /\ CursorsLine(b, e, h) /\ LearnedLine(b, e, h)
  BY DEF Aligned
<1>2. /\ h2.cap = h.cap /\ h2.since = h.since /\ h2.seen = h.seen /\ h2.acts = h.acts
      /\ h2.done = h.done /\ h2.pairs = h.pairs /\ h2.imported = h.imported
      /\ h2.half = h.half /\ h2.surprise
  BY <1>1, PastParts
<1>3. IsPast(h2)
  BY <1>1 DEF IsPast
<1>4. (~h2.half => CapturesLine(b, h2)) /\ CursorsLine(b, e, h2)
  BY <1>1, <1>2 DEF CapturesLine, CursorsLine
<1>5. LearnedLine(b, e, h2) /\ ServesLive(b, h2, l2, k)
  BY <1>1, <1>2 DEF LearnedLine, ServesLive
<1> QED BY <1>1, <1>2, <1>3, <1>4, <1>5 DEF Aligned

(* The page changes by itself.                                              *)
LEMMA DriftKeeps ==
    ASSUME BackInv, Drift
    PROVE  BackInv'
<1>1. PICK b : b = PreparedBackend
  OBVIOUS
<1>2. PICK e : e = PreparedEngine
  OBVIOUS
<1>3. PICK h2 : h2 = [past EXCEPT !.surprise = TRUE]
  OBVIOUS
<1>4. PICK l2 : l2 = live'
  OBVIOUS
<1>5. /\ past' = h2 /\ l2 \in PageHashes /\ moved' = moved /\ bk' = bk /\ eng' = eng
      /\ known' = known
  BY <1>3, <1>4 DEF Drift
<1>6. Aligned(b, e, past, live, known)
  BY <1>1, <1>2, PreparedIs
<1>7. Aligned(b, e, h2, l2, known) /\ h2.surprise
  BY <1>3, <1>5, <1>6, SurpriseAligned
<1>8. PreparedBackend' = b /\ PreparedEngine' = e
  BY <1>1, <1>2, <1>5 DEF PreparedBackend, PreparedEngine, Reset, ClearCursor
<1>9. Aligned(PreparedBackend, PreparedEngine, past, live, known)'
  BY <1>4, <1>5, <1>7, <1>8
<1>10. DeltasApply'
  BY <1>5, <1>7 DEF DeltasApply
<1> QED BY <1>5, <1>9, <1>10 DEF BackInv

(* An act that fails, before or after it changed the page.                  *)
LEMMA ActFailsKeeps ==
    ASSUME BackInv, ActFails
    PROVE  BackInv'
<1>1. PICK b : b = PreparedBackend
  OBVIOUS
<1>2. PICK e : e = PreparedEngine
  OBVIOUS
<1>3. /\ Aligned(b, e, past, live, known) /\ IsPast(past) /\ live \in PageHashes
  BY <1>1, <1>2, PreparedIs
<1>4. PICK l2 \in PageHashes : live' = l2 /\ past' = [past EXCEPT !.surprise = @ \/ l2 # live]
  BY <1>3 DEF ActFails
<1>5. bk' = b /\ eng' = e /\ moved' = FALSE /\ known' = known
  BY <1>1, <1>2 DEF ActFails
<1>6. CASE l2 = live
  <2>1. past' = past
    <3>1. PICK su : su = past.surprise
      OBVIOUS
    <3>2. su \in BOOLEAN
      BY <1>3, <3>1, PastParts
    <3>3. (su \/ l2 # live) = su
      BY <1>6, <3>2
    <3>4. past' = [past EXCEPT !.surprise = su]
      BY <1>4, <3>1, <3>3
    <3> QED BY <1>3, <3>1, <3>4, PastParts
  <2>2. Aligned(bk, eng, past, live, known)'
    BY <1>3, <1>4, <1>5, <1>6, <2>1
  <2> QED BY <1>5, <2>2, Settled
<1>7. CASE l2 # live
  <2>1. PICK h2 : h2 = [past EXCEPT !.surprise = TRUE]
    OBVIOUS
  <2>2. past' = h2
    <3>1. (past.surprise \/ l2 # live) = TRUE
      BY <1>7
    <3> QED BY <1>4, <2>1, <3>1
  <2>3. Aligned(b, e, h2, l2, known)
    BY <1>3, <1>4, <2>1, SurpriseAligned
  <2>4. Aligned(bk, eng, past, live, known)'
    BY <1>4, <1>5, <2>2, <2>3
  <2> QED BY <1>5, <2>4, Settled
<1> QED BY <1>6, <1>7

(* What really happened, with one more act.                                 *)
ActedPast(h, a) ==
    [h EXCEPT !.since = IF Len(@) < 2 THEN Append(@, a) ELSE @,
              !.pairs = IF h.done = None THEN @ ELSE Raised(@, <<h.done, a>>),
              !.done = a, !.acts = @ + 1]

(* A successful act: it follows the last one, or it breaks the chain of     *)
(* captures because one is pending already.                                 *)
LEMMA ActAligned ==
    ASSUME NEW b, NEW e, NEW h, NEW l, NEW k, Aligned(b, e, h, l, k),
           NEW a \in Acts, NEW t \in PageHashes,
           NEW b2, b2 = ActDone(b, a), NEW e2, e2 = EngineActs(b, e),
           NEW h2, h2 = ActedPast(h, a)
    PROVE  Aligned(b2, e2, h2, t, k)
<1>1. /\ k \in PageHashes \cup {None} /\ IsBackend(b) /\ IsEngine(e) /\ IsPast(h)
      /\ ~h.half => CapturesLine(b, h)
      /\ CursorsLine(b, e, h) /\ LearnedLine(b, e, h) /\ ServesLive(b, h, l, k)
  BY DEF Aligned
<1>2. PICK si : si = IF Len(h.since) < 2 THEN Append(h.since, a) ELSE h.since
  OBVIOUS
<1>3. PICK pa : pa = IF h.done = None THEN h.pairs ELSE Raised(h.pairs, <<h.done, a>>)
  OBVIOUS
<1>4. h2 = [cap |-> h.cap, since |-> si, seen |-> h.seen, acts |-> h.acts + 1,
            done |-> a, pairs |-> pa, imported |-> h.imported,
            surprise |-> h.surprise, half |-> h.half]
  <2>1. PICK ac : ac = h.acts + 1
    OBVIOUS
  <2>2. h2 = [h EXCEPT !.since = si, !.pairs = pa, !.done = a, !.acts = ac]
    BY <1>2, <1>3, <2>1 DEF ActedPast
  <2>3. h = [cap |-> h.cap, since |-> h.since, seen |-> h.seen, acts |-> h.acts,
             done |-> h.done, pairs |-> h.pairs, imported |-> h.imported,
             surprise |-> h.surprise, half |-> h.half]
    BY <1>1, PastParts
  <2>4. h2 = [cap |-> h.cap, since |-> si, seen |-> h.seen, acts |-> ac,
              done |-> a, pairs |-> pa, imported |-> h.imported,
              surprise |-> h.surprise, half |-> h.half]
    BY <2>2, <2>3
  <2> QED BY <2>1, <2>4
<1>5. pa \in [Pairs -> Nat] /\ \A p \in Pairs : h.pairs[p] <= pa[p]
  <2>0. h.pairs \in [Pairs -> Nat]
    BY <1>1, PastParts
  <2>1. \A p \in Pairs : h.pairs[p] \in Nat
    BY <2>0
  <2>2. CASE h.done = None
    BY <1>3, <2>0, <2>1, <2>2
  <2>3. CASE h.done # None
    <3>1. /\ pa \in [Pairs -> Nat]
          /\ \A y \in Pairs : pa[y] = IF y = <<h.done, a>> THEN h.pairs[y] + 1 ELSE h.pairs[y]
      BY <1>3, <2>0, <2>3, RaisedCount
    <3> QED BY <2>1, <3>1
  <2> QED BY <2>2, <2>3
<1>6. si \in Seq(Acts) /\ (h.since = <<>> => si = <<a>>)
  <2>1. h.since \in Seq(Acts)
    BY <1>1, PastParts
  <2>2. Append(h.since, a) \in Seq(Acts)
    BY <2>1
  <2>3. h.since = <<>> => Len(h.since) = 0 /\ Append(h.since, a) = <<a>>
    OBVIOUS
  <2> QED BY <1>2, <2>1, <2>2, <2>3
<1>7. IsPast(h2)
  <2>1. /\ h.cap \in PageHashes \cup {None} /\ h.seen \in SUBSET Steps
        /\ h.acts + 1 \in Nat /\ a \in Acts \cup {None}
        /\ h.imported \in [Pairs -> Nat]
        /\ h.surprise \in BOOLEAN /\ h.half \in BOOLEAN
    BY <1>1, PastParts
  <2> QED BY <1>4, <1>5, <1>6, <2>1 DEF IsPast, Steps
<1>8. /\ h2.cap = h.cap /\ h2.since = si /\ h2.seen = h.seen /\ h2.done = a
      /\ h2.pairs = pa /\ h2.imported = h.imported
      /\ h2.surprise = h.surprise /\ h2.half = h.half
  BY <1>4
<1>9. a # None
  BY BackendAssumption
<1>10. /\ IsEngine(e2) /\ e2.trans = e.trans /\ e2.seqs = e.seqs
       /\ e2.cursor = IF b.pending # None \/ b.broken THEN None ELSE e.cursor
  BY <1>1, ClearedIs DEF EngineActs
<1>11. PICK bro, pe : /\ bro = (b.pending # None \/ b.broken)
                      /\ pe = IF b.pending # None \/ b.broken THEN None ELSE a
  OBVIOUS
<1>12. bro \in BOOLEAN /\ pe \in Acts \cup {None}
  BY <1>11
<1>13. b2 = [cache |-> None, prev |-> b.prev, verified |-> b.verified, pending |-> pe,
             last |-> b.last, broken |-> bro, served |-> b.served, hits |-> b.hits,
             misses |-> b.misses]
  <2>0. b = [cache |-> b.cache, prev |-> b.prev, verified |-> b.verified,
             pending |-> b.pending, last |-> b.last, broken |-> b.broken,
             served |-> b.served, hits |-> b.hits, misses |-> b.misses]
    BY <1>1, BackendParts
  <2>1. CASE b.pending # None \/ b.broken
    <3>1. bro = TRUE /\ pe = None
      BY <1>11, <2>1
    <3>2. b2 = [b EXCEPT !.cache = None, !.pending = pe, !.broken = bro]
      BY <2>1, <3>1 DEF ActDone
    <3> QED BY <2>0, <3>2
  <2>2. CASE ~(b.pending # None \/ b.broken)
    <3>1. bro = b.broken /\ pe = a
      <4>1. b.broken \in BOOLEAN
        BY <1>1, BackendParts
      <4> QED BY <1>11, <2>2, <4>1
    <3>2. b2 = [b EXCEPT !.cache = None, !.pending = pe]
      BY <2>2, <3>1 DEF ActDone
    <3> QED BY <2>0, <3>1, <3>2
  <2> QED BY <2>1, <2>2
<1>14. /\ b2.cache = None /\ b2.prev = b.prev /\ b2.pending = pe /\ b2.served = b.served
       /\ b2.hits = b.hits
  BY <1>13
<1>15. b2.broken = bro
  BY <1>13
<1>16. IsBackend(b2)
  <2>1. /\ b.prev \in PageHashes \cup {None} /\ None \in PageHashes \cup {None}
        /\ b.verified \in BOOLEAN /\ b.last \in Acts \cup {None}
        /\ b.served \in SUBSET [from : PageHashes, act : Acts, to : PageHashes]
        /\ b.hits \in Nat /\ b.misses \in Nat
        /\ \A x, y \in b.served : x = y
        /\ b.served = {} => b.verified
        /\ b.served # {} => b.hits > 0 /\ ~b.verified
    BY <1>1, BackendParts
  <2>2. pe # None => ~bro
    BY <1>11
  <2> QED BY <1>12, <1>13, <2>1, <2>2 DEF IsBackend
<1>17. pe # None <=> ~bro
  BY <1>9, <1>11
<1>18. ~h2.half => CapturesLine(b2, h2)
  <2> SUFFICES ASSUME ~h2.half PROVE CapturesLine(b2, h2)
    OBVIOUS
  <2>1. CapturesLine(b, h)
    BY <1>1, <1>8
  <2>2. ASSUME b2.served = {}, b2.prev # None, b2.pending # None
        PROVE  b2.prev = h2.cap /\ h2.since = <<b2.pending>>
    <3>1. b.pending = None /\ ~b.broken /\ pe = a
      BY <1>11, <1>14, <2>2
    <3>2. b.prev = h.cap /\ h.since = <<>>
      BY <1>14, <2>1, <2>2, <3>1 DEF CapturesLine
    <3> QED BY <1>6, <1>8, <1>14, <3>1, <3>2
  <2>3. ~(b2.pending = None /\ ~b2.broken)
    BY <1>14, <1>15, <1>17
  <2> QED BY <2>2, <2>3 DEF CapturesLine
<1>19. CursorsLine(b2, e2, h2)
  <2>1. b2.pending # None => h2.done = b2.pending
    BY <1>8, <1>11, <1>14
  <2>2. b2.broken => e2.cursor = None
    BY <1>10, <1>11, <1>15
  <2>3. b2.pending = None => e2.cursor = None
    BY <1>9, <1>10, <1>11, <1>14
  <2>4. ASSUME e2.cursor # None, b2.pending # None, ~h2.half, b2.hits = 0
        PROVE  e2.seqs[<<e2.cursor, b2.pending>>] <
                   h2.imported[<<e2.cursor, b2.pending>>] + h2.pairs[<<e2.cursor, b2.pending>>]
    <3>1. b.pending = None /\ ~b.broken /\ pe = a /\ e2.cursor = e.cursor
      BY <1>10, <1>11, <1>14, <2>4
    <3>2. h.done = e.cursor /\ e.cursor # None /\ e.cursor \in Acts
      BY <1>1, <1>14, <2>4, <3>1, EngineParts DEF CursorsLine
    <3>3. PICK p \in Pairs : p = <<e.cursor, a>>
      BY <3>2 DEF Pairs
    <3>4. h.pairs \in [Pairs -> Nat] /\ pa = Raised(h.pairs, p)
      BY <1>1, <1>3, <3>2, <3>3, PastParts
    <3>5. pa[p] = h.pairs[p] + 1
      BY <3>3, <3>4, RaisedCount
    <3>6. e.seqs[p] \in Nat /\ h.imported[p] \in Nat /\ h.pairs[p] \in Nat
      BY <1>1, <3>3, EngineParts, PastParts
    <3>7. e.seqs[p] <= h.imported[p] + h.pairs[p]
      BY <1>1, <1>8, <1>14, <2>4, <3>3 DEF LearnedLine
    <3>8. e.seqs[p] < h.imported[p] + pa[p]
      BY <3>5, <3>6, <3>7
    <3> QED BY <1>8, <1>10, <1>14, <3>1, <3>3, <3>8
  <2> QED BY <2>1, <2>2, <2>3, <2>4 DEF CursorsLine
<1>20. ServesLive(b2, h2, t, k)
  BY <1>1, <1>8, <1>14, <1>15, <1>17 DEF ServesLive
<1>21. LearnedLine(b2, e2, h2)
  <2>1. ASSUME ~h.half, b.hits = 0, NEW p \in Pairs
        PROVE  e.seqs[p] <= h.imported[p] + pa[p]
    <3>1. e.seqs[p] \in Nat /\ h.imported[p] \in Nat /\ h.pairs[p] \in Nat /\ pa[p] \in Nat
      BY <1>1, <1>5, EngineParts, PastParts
    <3>2. e.seqs[p] <= h.imported[p] + h.pairs[p] /\ h.pairs[p] <= pa[p]
      BY <1>1, <1>5, <2>1 DEF LearnedLine
    <3> QED BY <3>1, <3>2
  <2> QED BY <1>1, <1>8, <1>10, <1>14, <2>1 DEF LearnedLine
<1> QED BY <1>1, <1>7, <1>10, <1>16, <1>18, <1>19, <1>20, <1>21 DEF Aligned

(* The backend after the check of an unverified hit.                        *)
CheckedBackend(b, s) == [b EXCEPT !.prev = s, !.verified = TRUE, !.served = {}]

(* The check of an unverified hit before an act is a capture.               *)
LEMMA CheckedAligned ==
    ASSUME NEW b0, NEW e0, Aligned(b0, e0, past, live, known), MustVerify(b0),
           NEW b, b = CheckedBackend(b0, live),
           NEW e, e = ObserveState(Reconcile(b0, e0, live), live),
           NEW h, h = StateCaptured(past)
    PROVE  Aligned(b, e, h, live, known)
<1>1. /\ IsBackend(b0) /\ live \in PageHashes /\ known \in PageHashes \cup {None}
      /\ ServesLive(b0, past, live, known)
  BY DEF Aligned
<1>2. b0.served # {} /\ b0.pending = None /\ ~b0.broken
  BY DEF MustVerify
<1>3. e = EngineObserves(b0, e0, live)
  BY <1>2 DEF EngineObserves, ShouldRecordTransition
<1>4. PICK yes, sv, ca, la, bro, hi, mi :
        /\ yes = TRUE /\ sv = {} /\ ca = b0.cache /\ la = b0.last /\ bro = b0.broken
        /\ hi = b0.hits /\ mi = b0.misses
  OBVIOUS
<1>5. b = [cache |-> ca, prev |-> live, verified |-> yes, pending |-> None, last |-> la,
           broken |-> bro, served |-> sv, hits |-> hi, misses |-> mi]
  <2>0. PICK pr0, ve0, sv0, pe : /\ pr0 = b0.prev /\ ve0 = b0.verified /\ sv0 = b0.served
                                 /\ pe = None
    OBVIOUS
  <2>1. b0 = [cache |-> ca, prev |-> pr0, verified |-> ve0, pending |-> pe, last |-> la,
              broken |-> bro, served |-> sv0, hits |-> hi, misses |-> mi]
    BY <1>1, <1>2, <1>4, <2>0, BackendParts
  <2>3. b = [cache |-> ca, prev |-> live, verified |-> yes, pending |-> pe, last |-> la,
             broken |-> bro, served |-> sv, hits |-> hi, misses |-> mi]
    <3>1. b = [b0 EXCEPT !.prev = live, !.verified = yes, !.served = sv]
      BY <1>4 DEF CheckedBackend
    <3> QED BY <2>1, <3>1
  <2> QED BY <2>0, <2>3
<1>6. b = PlainB(ca, live, None, la, hi, mi)
  <2>1. bro = FALSE
    BY <1>1, <1>2, <1>4, BackendParts
  <2> QED BY <1>4, <1>5, <2>1 DEF PlainB
<1>7. /\ ca \in PageHashes \cup {None} /\ la \in Acts \cup {None} /\ hi \in Nat /\ mi \in Nat
      /\ live \in PageHashes \cup {None} /\ None \in Acts \cup {None}
  BY <1>1, <1>4, BackendParts
<1>8. IsBackend(b)
  BY <1>6, <1>7, PlainBackend
<1>9. b.cache = b0.cache /\ b.prev = live /\ b.pending = None /\ b.hits = b0.hits
  BY <1>4, <1>5
<1>10. b.served = {}
  BY <1>6, PlainFields
<1>11. ~b.broken
  BY <1>2, <1>4, <1>5
<1>12. ~past.surprise => known = live
  <2>1. live # None
    BY <1>1, BackendAssumption
  <2> QED BY <1>1, <1>2, <2>1 DEF ServesLive
<1> QED BY <1>1, <1>3, <1>8, <1>9, <1>10, <1>11, <1>12, DeliveredAligned

(* An act, after the check of an unverified hit where one is due.           *)
LEMMA ActKeeps ==
    ASSUME BackInv, NEW a \in Acts, NEW captures, Act(a, captures)
    PROVE  BackInv'
<1>1. PICK b0 : b0 = PreparedBackend
  OBVIOUS
<1>2. PICK e0 : e0 = PreparedEngine
  OBVIOUS
<1>3. Aligned(b0, e0, past, live, known)
  BY <1>1, <1>2, PreparedIs
<1>4. PICK b : b = IF MustVerify(b0) /\ captures
                   THEN CheckedBackend(b0, live)
                   ELSE b0
  OBVIOUS
<1>5. PICK e : e = IF MustVerify(b0) /\ captures
                   THEN ObserveState(Reconcile(b0, e0, live), live) ELSE e0
  OBVIOUS
<1>6. PICK h : h = IF MustVerify(b0) /\ captures THEN StateCaptured(past) ELSE past
  OBVIOUS
<1>7. Aligned(b, e, h, live, known)
  <2>1. CASE MustVerify(b0) /\ captures
    <3>1. /\ b = CheckedBackend(b0, live)
          /\ e = ObserveState(Reconcile(b0, e0, live), live)
          /\ h = StateCaptured(past)
      BY <1>4, <1>5, <1>6, <2>1
    <3> QED BY <1>3, <2>1, <3>1, CheckedAligned
  <2>2. CASE ~(MustVerify(b0) /\ captures)
    BY <1>3, <1>4, <1>5, <1>6, <2>2
  <2> QED BY <2>1, <2>2
<1>8. PICK b2 : b2 = ActDone(b, a)
  OBVIOUS
<1>9. PICK e2 : e2 = EngineActs(b, e)
  OBVIOUS
<1>10. PICK h2 : h2 = ActedPast(h, a)
  OBVIOUS
<1>11. PICK t \in PageHashes : live' = t
  BY DEF Act
<1>12. bk' = b2 /\ eng' = e2 /\ past' = h2 /\ moved' = FALSE /\ known' = known
  BY <1>1, <1>2, <1>4, <1>5, <1>6, <1>8, <1>9, <1>10 DEF Act, ActedPast, CheckedBackend
<1>13. Aligned(b2, e2, h2, t, known)
  BY <1>7, <1>8, <1>9, <1>10, ActAligned
<1>14. Aligned(bk, eng, past, live, known)'
  BY <1>11, <1>12, <1>13
<1> QED BY <1>12, <1>14, Settled

(* Brought's equation for the first m records of a pack.                    *)
OneRecord(pack, n, sum) ==
    [p \in Pairs |-> sum[p] + IF <<pack.names[2 * n - 1], pack.names[2 * n]>> = p
                              THEN pack.counts[n] ELSE 0]

BringsTo(f, pack, m) ==
    f = [n \in 0 .. m |-> IF n = 0 THEN [p \in Pairs |-> 0]
                          ELSE OneRecord(pack, n, f[n - 1])]

(* The recursive definition of Brought defines a function.                  *)
LEMMA BroughtEquation ==
    ASSUME NEW pack, Len(pack.counts) \in Nat
    PROVE  BringsTo(Brought(pack), pack, Len(pack.counts))
<1>0. PICK zero : zero = [p \in Pairs |-> 0]
  OBVIOUS
<1>1. ASSUME NEW x \in Nat, x # 0, NEW g, BringsTo(g, pack, x - 1)
      PROVE  \E f : BringsTo(f, pack, x)
  <2>0. PICK last : last = OneRecord(pack, x, g[x - 1])
    OBVIOUS
  <2>1. PICK f : f = [n \in 0 .. x |-> IF n = x THEN last ELSE g[n]]
    OBVIOUS
  <2>2. \A n \in 0 .. x - 1 : /\ n \in 0 .. x /\ n # x /\ f[n] = g[n]
                              /\ n # 0 => n - 1 \in 0 .. x - 1
    BY <1>1, <2>1
  <2>3. x - 1 \in 0 .. x - 1 /\ f[x] = last /\ f[x - 1] = g[x - 1]
    BY <1>1, <2>1, <2>2
  <2>4. \A n \in 0 .. x - 1 : g[n] = IF n = 0 THEN zero ELSE OneRecord(pack, n, g[n - 1])
    BY <1>0, <1>1 DEF BringsTo
  <2>5. \A n \in 0 .. x : f[n] = IF n = 0 THEN zero ELSE OneRecord(pack, n, f[n - 1])
    <3> SUFFICES ASSUME NEW n \in 0 .. x
                 PROVE  f[n] = IF n = 0 THEN zero ELSE OneRecord(pack, n, f[n - 1])
      OBVIOUS
    <3>1. CASE n = x
      BY <3>1, <2>0, <2>3, <1>1
    <3>2. CASE n # x
      <4>1. n \in 0 .. x - 1
        BY <3>2, <1>1
      <4> QED BY <4>1, <2>2, <2>4
    <3> QED BY <3>1, <3>2
  <2>6. BringsTo(f, pack, x)
    BY <1>0, <2>1, <2>5 DEF BringsTo
  <2> QED BY <2>6
<1>2. \A m \in Nat : \E f : BringsTo(f, pack, m)
  <2> SUFFICES ASSUME NEW bad \in Nat, ~\E f : BringsTo(f, pack, bad) PROVE FALSE
    OBVIOUS
  <2>1. PICK T : T = {m \in Nat : ~\E f : BringsTo(f, pack, m)}
    OBVIOUS
  <2>2. T \in SUBSET Nat /\ bad \in T
    BY <2>1
  <2>3. PICK x \in T : \A y \in T : x <= y
    BY <2>2, LeastOf
  <2>4. x \in Nat /\ ~\E f : BringsTo(f, pack, x)
    BY <2>1, <2>3
  <2>5. x # 0
    <3> SUFFICES ASSUME x = 0 PROVE FALSE
      OBVIOUS
    <3>1. PICK f : f = [n \in 0 .. 0 |-> zero]
      OBVIOUS
    <3>2. \A n \in 0 .. 0 : n = 0
      OBVIOUS
    <3>3. BringsTo(f, pack, 0)
      BY <1>0, <3>1, <3>2 DEF BringsTo
    <3> QED BY <3>3, <2>4
  <2>6. x - 1 \in Nat /\ ~(x <= x - 1)
    BY <2>4, <2>5
  <2>7. x - 1 \notin T
    BY <2>3, <2>6
  <2>8. PICK g : BringsTo(g, pack, x - 1)
    BY <2>1, <2>6, <2>7
  <2> QED BY <1>1, <2>4, <2>5, <2>8
<1>3. PICK g : BringsTo(g, pack, Len(pack.counts))
  BY <1>2
<1> QED BY <1>3 DEF Brought, BringsTo, OneRecord

(* What a pack brings is a count for every pair.                            *)
LEMMA BroughtCounts ==
    ASSUME NEW pack \in Packs
    PROVE  Brought(pack)[Len(pack.counts)] \in [Pairs -> Nat]
<1>1. PICK f : f = Brought(pack)
  OBVIOUS
<1>2. PICK len : len = Len(pack.counts)
  OBVIOUS
<1>3. pack.counts \in Seq(Nat)
  BY BackendAssumption
<1>4. len \in Nat /\ \A n \in 1 .. len : pack.counts[n] \in Nat
  BY <1>2, <1>3
<1>5. BringsTo(f, pack, len)
  BY <1>1, <1>2, <1>4, BroughtEquation
<1>6. PICK zero : zero = [p \in Pairs |-> 0]
  OBVIOUS
<1>7. \A n \in 0 .. len : f[n] = IF n = 0 THEN zero ELSE OneRecord(pack, n, f[n - 1])
  BY <1>5, <1>6 DEF BringsTo
<1>8. \A n \in 0 .. len : f[n] \in [Pairs -> Nat]
  <2> SUFFICES ASSUME NEW bad \in 0 .. len, f[bad] \notin [Pairs -> Nat] PROVE FALSE
    OBVIOUS
  <2>1. PICK T : T = {n \in 0 .. len : f[n] \notin [Pairs -> Nat]}
    OBVIOUS
  <2>2. T \in SUBSET Nat /\ bad \in T
    BY <1>4, <2>1
  <2>3. PICK x \in T : \A y \in T : x <= y
    BY <2>2, LeastOf
  <2>4. x \in 0 .. len /\ f[x] \notin [Pairs -> Nat]
    BY <2>1, <2>3
  <2>5. x # 0
    <3>1. zero \in [Pairs -> Nat]
      BY <1>6
    <3>2. 0 \in 0 .. len
      BY <1>4
    <3> QED BY <1>7, <2>4, <3>1, <3>2
  <2>6. x \in Nat /\ x - 1 \in 0 .. len /\ x \in 1 .. len /\ ~(x <= x - 1)
    BY <1>4, <2>4, <2>5
  <2>7. PICK g : g = f[x - 1]
    OBVIOUS
  <2>8. g \in [Pairs -> Nat]
    BY <2>1, <2>3, <2>6, <2>7
  <2>9. PICK c : c = pack.counts[x]
    OBVIOUS
  <2>10. c \in Nat
    BY <1>4, <2>6, <2>9
  <2>11. f[x] = OneRecord(pack, x, g)
    BY <1>7, <2>4, <2>5, <2>7
  <2>12. PICK named : named = <<pack.names[2 * x - 1], pack.names[2 * x]>>
    OBVIOUS
  <2>13. f[x] = [p \in Pairs |-> g[p] + IF named = p THEN c ELSE 0]
    BY <2>9, <2>11, <2>12, Zenon DEF OneRecord
  <2>14. \A p \in Pairs : (g[p] + IF named = p THEN c ELSE 0) \in Nat
    BY <2>8, <2>10
  <2>15. f[x] \in [Pairs -> Nat]
    BY <2>13, <2>14
  <2> QED BY <2>4, <2>15
<1> QED BY <1>1, <1>2, <1>4, <1>8

(* Counts that are raised alike stay as close as they were.                 *)
LEMMA ImportAligned ==
    ASSUME NEW b, NEW e, NEW h, NEW l, NEW k, Aligned(b, e, h, l, k),
           NEW add \in [Pairs -> Nat],
           NEW sq, sq = [p \in Pairs |-> e.seqs[p] + add[p]],
           NEW im, im = [p \in Pairs |-> h.imported[p] + add[p]],
           NEW e2, e2 = [e EXCEPT !.seqs = sq],
           NEW h2, h2 = [h EXCEPT !.imported = im]
    PROVE  Aligned(b, e2, h2, l, k) /\ h2.surprise = h.surprise
<1>1. /\ k \in PageHashes \cup {None} /\ IsBackend(b) /\ IsEngine(e) /\ IsPast(h)
      /\ l \in PageHashes
      /\ ~h.half => CapturesLine(b, h)
      /\ CursorsLine(b, e, h) /\ LearnedLine(b, e, h) /\ ServesLive(b, h, l, k)
  BY DEF Aligned
<1>2. /\ e.trans \in [Steps -> Nat] /\ e.seqs \in [Pairs -> Nat]
      /\ e.snaps \in Seq(PageHashes) /\ e.cursor \in Acts \cup {None}
  BY <1>1, EngineParts
<1>3. h.imported \in [Pairs -> Nat] /\ h.pairs \in [Pairs -> Nat]
  BY <1>1, PastParts
<1>4. \A p \in Pairs : /\ e.seqs[p] \in Nat /\ h.imported[p] \in Nat /\ h.pairs[p] \in Nat
                       /\ add[p] \in Nat
                       /\ sq[p] = e.seqs[p] + add[p] /\ im[p] = h.imported[p] + add[p]
  BY <1>2, <1>3
<1>5. sq \in [Pairs -> Nat] /\ im \in [Pairs -> Nat]
  BY <1>4
<1>6. IsEngine(e2) /\ e2.trans = e.trans /\ e2.seqs = sq /\ e2.cursor = e.cursor
  BY <1>1, <1>5 DEF IsEngine
<1>7. /\ h2.cap = h.cap /\ h2.since = h.since /\ h2.seen = h.seen
      /\ h2.done = h.done /\ h2.pairs = h.pairs /\ h2.imported = im
      /\ h2.half = h.half /\ h2.surprise = h.surprise
  BY <1>1 DEF IsPast
<1>8. IsPast(h2)
  BY <1>1, <1>5 DEF IsPast
<1>9. ~h2.half => CapturesLine(b, h2)
  BY <1>1, <1>7 DEF CapturesLine
<1>10. CursorsLine(b, e2, h2)
  <2>1. ASSUME e.cursor # None, b.pending # None, ~h.half, b.hits = 0
        PROVE  sq[<<e.cursor, b.pending>>] <
                   im[<<e.cursor, b.pending>>] + h.pairs[<<e.cursor, b.pending>>]
    <3>1. b.pending \in Acts /\ e.cursor \in Acts
      BY <1>1, <1>2, <2>1, BackendParts
    <3>2. PICK p \in Pairs : p = <<e.cursor, b.pending>>
      BY <3>1 DEF Pairs
    <3>3. e.seqs[p] < h.imported[p] + h.pairs[p]
      BY <1>1, <2>1, <3>2 DEF CursorsLine
    <3>4. sq[p] < im[p] + h.pairs[p]
      BY <1>4, <3>3
    <3> QED BY <3>2, <3>4
  <2> QED BY <1>1, <1>6, <1>7, <2>1 DEF CursorsLine
<1>11. ServesLive(b, h2, l, k)
  BY <1>1, <1>7 DEF ServesLive
<1>12. LearnedLine(b, e2, h2)
  <2>1. ASSUME ~h.half, b.hits = 0, NEW p \in Pairs
        PROVE  sq[p] <= im[p] + h.pairs[p]
    <3>1. e.seqs[p] <= h.imported[p] + h.pairs[p]
      BY <1>1, <2>1 DEF LearnedLine
    <3> QED BY <1>4, <3>1
  <2> QED BY <1>1, <1>6, <1>7, <2>1 DEF LearnedLine
<1> QED BY <1>1, <1>6, <1>7, <1>8, <1>9, <1>10, <1>11, <1>12 DEF Aligned

(* A model is imported, well formed or not.                                 *)
LEMMA ImportKeeps ==
    ASSUME BackInv, NEW pack \in Packs, ImportModel(pack)
    PROVE  BackInv'
<1>1. PICK b : b = PreparedBackend
  OBVIOUS
<1>2. PICK e : e = PreparedEngine
  OBVIOUS
<1>3. /\ Aligned(b, e, past, live, known) /\ e.seqs = eng.seqs
  BY <1>1, <1>2, PreparedIs
<1>4. IsBackend(bk) /\ IsEngine(eng) /\ moved \in BOOLEAN /\ DeltasApply
  BY DEF BackInv
<1>5. /\ moved' = moved /\ bk' = bk /\ live' = live /\ known' = known
  BY DEF ImportModel
<1>6. PreparedBackend' = b
  BY <1>1, <1>5 DEF PreparedBackend, Reset
<1>7. CASE ~WellFormed(pack)
  <2>1. eng' = eng /\ past' = past
    BY <1>7 DEF ImportModel
  <2>2. PreparedEngine' = e
    BY <1>2, <1>5, <2>1 DEF PreparedEngine, ClearCursor
  <2>3. Aligned(PreparedBackend, PreparedEngine, past, live, known)'
    BY <1>3, <1>5, <1>6, <2>1, <2>2
  <2>4. DeltasApply'
    BY <1>4, <1>5, <2>1 DEF DeltasApply
  <2> QED BY <1>4, <1>5, <2>1, <2>3, <2>4 DEF BackInv
<1>8. CASE WellFormed(pack)
  <2>1. PICK add : add = Brought(pack)[Len(pack.counts)]
    OBVIOUS
  <2>2. add \in [Pairs -> Nat]
    BY <2>1, BroughtCounts
  <2>3. PICK sq : sq = [p \in Pairs |-> eng.seqs[p] + add[p]]
    OBVIOUS
  <2>4. PICK im : im = [p \in Pairs |-> past.imported[p] + add[p]]
    OBVIOUS
  <2>5. eng' = [eng EXCEPT !.seqs = sq] /\ past' = [past EXCEPT !.imported = im]
    BY <1>8, <2>1, <2>3, <2>4 DEF ImportModel, Merge
  <2>6. PICK e2 : e2 = [e EXCEPT !.seqs = sq]
    OBVIOUS
  <2>7. PICK h2 : h2 = [past EXCEPT !.imported = im]
    OBVIOUS
  <2>8. Aligned(b, e2, h2, live, known) /\ h2.surprise = past.surprise
    BY <1>3, <2>2, <2>3, <2>4, <2>6, <2>7, ImportAligned
  <2>9. PICK g : g = [eng EXCEPT !.seqs = sq]
    OBVIOUS
  <2>10. sq \in [Pairs -> Nat]
    <3>1. \A p \in Pairs : eng.seqs[p] \in Nat /\ add[p] \in Nat
      BY <1>4, <2>2, EngineParts
    <3> QED BY <2>3, <3>1
  <2>11. g = [trans |-> eng.trans, seqs |-> sq, snaps |-> eng.snaps, cursor |-> eng.cursor]
    BY <1>4, <2>9, EngineParts
  <2>12. IsEngine(g)
    <3>1. /\ eng.trans \in [Steps -> Nat] /\ eng.snaps \in Seq(PageHashes)
          /\ eng.cursor \in Acts \cup {None}
      BY <1>4, EngineParts
    <3> QED BY <2>10, <2>11, <3>1, EngineWhole
  <2>13. PreparedEngine' = e2
    <3>1. CASE moved
      <4>1. e = ClearCursor(eng) /\ PreparedEngine' = ClearCursor(g)
        BY <1>2, <1>5, <2>5, <2>9, <3>1 DEF PreparedEngine, ClearCursor
      <4>2. e = [trans |-> eng.trans, seqs |-> eng.seqs, snaps |-> eng.snaps, cursor |-> None]
        BY <1>4, <4>1, EngineParts DEF ClearCursor
      <4>3. ClearCursor(g) = [trans |-> eng.trans, seqs |-> sq, snaps |-> eng.snaps,
                              cursor |-> None]
        BY <2>11 DEF ClearCursor
      <4>4. e2 = [trans |-> eng.trans, seqs |-> sq, snaps |-> eng.snaps, cursor |-> None]
        BY <2>6, <4>2
      <4> QED BY <4>1, <4>3, <4>4
    <3>2. CASE ~moved
      BY <1>2, <1>5, <2>5, <2>6, <3>2 DEF PreparedEngine
    <3> QED BY <3>1, <3>2
  <2>14. Aligned(PreparedBackend, PreparedEngine, past, live, known)'
    BY <1>5, <1>6, <2>5, <2>7, <2>8, <2>13
  <2>15. DeltasApply'
    BY <1>4, <1>5, <2>5, <2>7, <2>8 DEF DeltasApply
  <2> QED BY <1>4, <1>5, <2>5, <2>9, <2>12, <2>14, <2>15 DEF BackInv
<1> QED BY <1>7, <1>8

-----------------------------------------------------------------------------

(* Every tool and every upset keeps the cursors and counts in line.         *)
LEMMA BackStep == BackInv /\ [BackNext]_backVars => BackInv'
<1> SUFFICES ASSUME BackInv, [BackNext]_backVars PROVE BackInv'
  OBVIOUS
<1>1. CASE UNCHANGED backVars
  <2>1. /\ PreparedBackend' = PreparedBackend /\ PreparedEngine' = PreparedEngine
        /\ live' = live /\ moved' = moved /\ bk' = bk /\ eng' = eng
        /\ known' = known /\ past' = past
    BY <1>1 DEF backVars, PreparedBackend, PreparedEngine, Reset, ClearCursor
  <2>2. IsBackend(bk)' /\ IsEngine(eng)' /\ moved' \in BOOLEAN
    BY <2>1 DEF BackInv
  <2>3. Aligned(PreparedBackend, PreparedEngine, past, live, known)'
    BY <2>1 DEF BackInv
  <2>4. DeltasApply'
    BY <2>1 DEF BackInv, DeltasApply
  <2> QED BY <2>2, <2>3, <2>4 DEF BackInv
<1>2. CASE BackNext
  <2>1. ASSUME FromCache \/ ServeHit PROVE BackInv'
    BY <2>1, FromCacheKeeps, ServeHitKeeps
  <2>2. ASSUME NEW force, NEW fails, CaptureFull(force, fails) PROVE BackInv'
    BY <2>2, CaptureFullKeeps
  <2>3. ASSUME NEW force, NEW full, GetDelta(force, full) PROVE BackInv'
    BY <2>3, GetDeltaKeeps
  <2>4. ASSUME NEW a \in Acts, NEW captures, Act(a, captures) PROVE BackInv'
    BY <2>4, ActKeeps
  <2>5. ASSUME DeltaFails \/ PrepareFails PROVE BackInv'
    BY <2>5, NoticeKeeps
  <2>6. ASSUME ActFails PROVE BackInv'
    BY <2>6, ActFailsKeeps
  <2>7. ASSUME RunSkill \/ Restart PROVE BackInv'
    BY <2>7, LeavesKeeps
  <2>8. ASSUME Navigate \/ ChromeMoves PROVE BackInv'
    BY <2>8, MovesKeeps
  <2>9. ASSUME Drift PROVE BackInv'
    BY <2>9, DriftKeeps
  <2>10. ASSUME NEW pack \in Packs, ImportModel(pack) PROVE BackInv'
    BY <2>10, ImportKeeps
  <2> QED BY <1>2, <2>1, <2>2, <2>3, <2>4, <2>5, <2>6, <2>7, <2>8, <2>9, <2>10 DEF BackNext
<1> QED BY <1>1, <1>2

(* The alignment says what is claimed of learning, cache and deltas.        *)
LEMMA AlignedIsHonest == BackInv => LearningIsHonest
<1> SUFFICES ASSUME BackInv PROVE LearningIsHonest
  OBVIOUS
<1>1. PICK b : b = PreparedBackend
  OBVIOUS
<1>2. PICK e : e = PreparedEngine
  OBVIOUS
<1>3. /\ Aligned(b, e, past, live, known) /\ b.hits = bk.hits
      /\ e.trans = eng.trans /\ e.seqs = eng.seqs
  BY <1>1, <1>2, PreparedIs
<1>4. LearnedLine(b, e, past) /\ ServesLive(b, past, live, known)
  BY <1>3 DEF Aligned
<1>5. TransitionsAreReal /\ ActionEdgesAreReal
  BY <1>3, <1>4 DEF LearnedLine, TransitionsAreReal, ActionEdgesAreReal
<1>6. CacheIsCurrent
  <2>1. ~moved => b = bk
    BY <1>1 DEF PreparedBackend
  <2> QED BY <1>4, <2>1 DEF ServesLive, CacheIsCurrent
<1>7. DeltasApply
  BY DEF BackInv
<1> QED BY <1>5, <1>6, <1>7 DEF LearningIsHonest

-----------------------------------------------------------------------------
(* Export and import.                                                       *)

(* Of two different pairs one comes first, and before all that come after   *)
(* the other.                                                               *)
LEMMA PairsOrdered ==
    ASSUME NEW p \in Pairs, NEW q \in Pairs, NEW x \in Pairs
    PROVE  /\ ~Precedes(p, p)
           /\ p # q => Precedes(p, q) \/ Precedes(q, p)
           /\ Precedes(x, p) /\ Precedes(p, q) => Precedes(x, q)
<1>1. /\ p[1] \in Nat /\ p[2] \in Nat /\ q[1] \in Nat /\ q[2] \in Nat
      /\ x[1] \in Nat /\ x[2] \in Nat
  BY BackendAssumption DEF Pairs
<1>2. p # q => p[1] # q[1] \/ p[2] # q[2]
  BY DEF Pairs
<1> QED BY <1>1, <1>2 DEF Precedes

(* How many records come before a pair.                                     *)
Rank(held, p) == Cardinality({q \in held : Precedes(q, p)})

(* The rank of a pair is below their number and grows with the order.       *)
LEMMA RankIs ==
    ASSUME NEW held, held \subseteq Pairs, IsFiniteSet(held),
           NEW p \in held, NEW q \in held
    PROVE  /\ Rank(held, p) \in Nat /\ Rank(held, p) < Cardinality(held)
           /\ Cardinality(held) \in Nat
           /\ Precedes(p, q) => Rank(held, p) < Rank(held, q)
<1>1. PICK P : P = {x \in held : Precedes(x, p)}
  OBVIOUS
<1>2. PICK Q : Q = {x \in held : Precedes(x, q)}
  OBVIOUS
<1>3. P \in SUBSET held /\ Q \in SUBSET held
  BY <1>1, <1>2
<1>4. IsFiniteSet(P) /\ Cardinality(P) <= Cardinality(held)
      /\ (Cardinality(held) = Cardinality(P) => held = P)
  BY <1>3, FS_Subset
<1>5. IsFiniteSet(Q)
  BY <1>3, FS_Subset
<1>6. Cardinality(P) \in Nat /\ Cardinality(Q) \in Nat /\ Cardinality(held) \in Nat
  BY <1>4, <1>5, FS_CardinalityType
<1>7. p \notin P
  BY <1>1, PairsOrdered
<1>8. Cardinality(P) < Cardinality(held)
  BY <1>4, <1>6, <1>7
<1>9. ASSUME Precedes(p, q) PROVE Cardinality(P) < Cardinality(Q)
  <2>1. P \in SUBSET Q
    <3> SUFFICES ASSUME NEW x \in P PROVE x \in Q
      OBVIOUS
    <3>1. x \in held /\ Precedes(x, p) /\ x \in Pairs /\ p \in Pairs /\ q \in Pairs
      BY <1>1
    <3>2. Precedes(x, q)
      BY <1>9, <3>1, PairsOrdered
    <3> QED BY <1>2, <3>1, <3>2
  <2>2. p \in Q
    BY <1>2, <1>9
  <2>3. Cardinality(P) <= Cardinality(Q) /\ (Cardinality(Q) = Cardinality(P) => Q = P)
    BY <1>5, <2>1, FS_Subset
  <2> QED BY <1>6, <1>7, <2>2, <2>3
<1> QED BY <1>1, <1>2, <1>6, <1>8, <1>9 DEF Rank

(* The list of a finite set of pairs has each of them once.                 *)
LEMMA ListedIs ==
    ASSUME NEW held, held \subseteq Pairs, IsFiniteSet(held),
           NEW r, r = Listed(held), NEW n, n = Cardinality(held)
    PROVE  /\ n \in Nat /\ r \in Seq(Pairs) /\ Len(r) = n
           /\ \A i \in 1 .. n : r[i] \in held
           /\ \A i, j \in 1 .. n : r[i] = r[j] => i = j
           /\ \A p \in held : \E i \in 1 .. n : r[i] = p
<1>1. n \in Nat
  BY FS_CardinalityType
<1>2. \A p, q \in held : Rank(held, p) = Rank(held, q) => p = q
  <2> SUFFICES ASSUME NEW p \in held, NEW q \in held, p # q
               PROVE  Rank(held, p) # Rank(held, q)
    OBVIOUS
  <2>1. p \in Pairs /\ q \in Pairs
    OBVIOUS
  <2>2. Precedes(p, q) \/ Precedes(q, p)
    BY <2>1, PairsOrdered
  <2>3. Rank(held, p) \in Nat /\ Rank(held, q) \in Nat
    BY RankIs
  <2>4. Precedes(p, q) => Rank(held, p) < Rank(held, q)
    BY RankIs
  <2>5. Precedes(q, p) => Rank(held, q) < Rank(held, p)
    BY RankIs
  <2> QED BY <2>2, <2>3, <2>4, <2>5
<1>3. PICK f : f = [p \in held |-> Rank(held, p) + 1]
  OBVIOUS
<1>4. \A p \in held : Rank(held, p) \in Nat /\ Rank(held, p) + 1 \in 1 .. n
  <2> SUFFICES ASSUME NEW p \in held
               PROVE  Rank(held, p) \in Nat /\ Rank(held, p) + 1 \in 1 .. n
    OBVIOUS
  <2>1. Rank(held, p) \in Nat /\ Rank(held, p) < Cardinality(held)
    BY RankIs
  <2> QED BY <1>1, <2>1
<1>5. f \in [held -> 1 .. n]
  BY <1>3, <1>4
<1>6. \A p, q \in held : f[p] = f[q] => p = q
  BY <1>2, <1>3, <1>4
<1>7. f \in Injection(held, 1 .. n)
  BY <1>5, <1>6, Fun_IsInj
<1>8. IsFiniteSet(1 .. n) /\ Cardinality(1 .. n) = n
  <2>1. 1 \in Int /\ n \in Int
    BY <1>1
  <2>2. IsFiniteSet(1 .. n) /\ Cardinality(1 .. n) = IF 1 > n THEN 0 ELSE n - 1 + 1
    BY <2>1, FS_Interval
  <2> QED BY <1>1, <2>2
<1>9. f \in Surjection(held, 1 .. n)
  BY <1>7, <1>8, FS_Injection
<1>10. \A i \in 1 .. n : \E p \in held : Rank(held, p) = i - 1
  <2> SUFFICES ASSUME NEW i \in 1 .. n PROVE \E p \in held : Rank(held, p) = i - 1
    OBVIOUS
  <2>1. PICK p \in held : f[p] = i
    BY <1>9 DEF Surjection
  <2> QED BY <1>3, <1>4, <2>1
<1>11. r = [i \in 1 .. n |-> CHOOSE p \in held : Rank(held, p) = i - 1]
  BY DEF Listed, Rank
<1>12. \A i \in 1 .. n : r[i] \in held /\ Rank(held, r[i]) = i - 1
  <2> SUFFICES ASSUME NEW i \in 1 .. n PROVE r[i] \in held /\ Rank(held, r[i]) = i - 1
    OBVIOUS
  <2>1. \E p \in held : Rank(held, p) = i - 1
    BY <1>10
  <2>2. r[i] = CHOOSE p \in held : Rank(held, p) = i - 1
    BY <1>11
  <2> QED BY <2>1, <2>2
<1>13. r \in [1 .. n -> Pairs]
  BY <1>11, <1>12
<1>14. r \in Seq(Pairs) /\ Len(r) = n
  BY <1>1, <1>13
<1>15. ASSUME NEW i \in 1 .. n, NEW j \in 1 .. n, r[i] = r[j] PROVE i = j
  <2>1. i - 1 = j - 1
    BY <1>12, <1>15
  <2> QED BY <2>1
<1>16. ASSUME NEW p \in held PROVE \E i \in 1 .. n : r[i] = p
  <2>1. PICK i : i = Rank(held, p) + 1
    OBVIOUS
  <2>2. i \in 1 .. n /\ Rank(held, p) = i - 1
    BY <1>4, <2>1
  <2> QED BY <1>2, <1>12, <2>2
<1> QED BY <1>1, <1>12, <1>14, <1>15, <1>16

(* An exported model names every pair it counts once.                       *)
LEMMA EncodedIs ==
    ASSUME NEW r, r \in Seq(Pairs), NEW seqs, NEW pack, pack = Encoded(r, seqs)
    PROVE  /\ WellFormed(pack) /\ Len(pack.counts) = Len(r) /\ Len(r) \in Nat
           /\ \A n \in 1 .. Len(r) :
                /\ pack.counts[n] = seqs[r[n]]
                /\ <<pack.names[2 * n - 1], pack.names[2 * n]>> = r[n]
<1>1. PICK len : len = Len(r)
  OBVIOUS
<1>2. len \in Nat /\ 2 * len \in Nat /\ \A n \in 1 .. len : r[n] \in Pairs
  BY <1>1
<1>3. PICK na : na = [i \in 1 .. 2 * len |-> r[(i + 1) \div 2][IF i % 2 = 1 THEN 1 ELSE 2]]
  OBVIOUS
<1>4. PICK co : co = [i \in 1 .. len |-> seqs[r[i]]]
  OBVIOUS
<1>5. pack = [names |-> na, counts |-> co]
  BY <1>1, <1>3, <1>4 DEF Encoded
<1>6. pack.names = na /\ pack.counts = co
  BY <1>5
<1>7. Len(na) = 2 * len /\ Len(co) = len
  BY <1>2, <1>3, <1>4
<1>8. (2 * len) % 2 = 0 /\ (2 * len) \div 2 = len
  BY <1>2
<1>9. WellFormed(pack)
  BY <1>6, <1>7, <1>8 DEF WellFormed
<1>10. ASSUME NEW n \in 1 .. len
       PROVE  /\ co[n] = seqs[r[n]]
              /\ <<na[2 * n - 1], na[2 * n]>> = r[n]
  <2>1. /\ 2 * n - 1 \in 1 .. 2 * len /\ 2 * n \in 1 .. 2 * len
        /\ (2 * n - 1 + 1) \div 2 = n /\ (2 * n + 1) \div 2 = n
        /\ (2 * n - 1) % 2 = 1 /\ (2 * n) % 2 = 0
    BY <1>2
  <2>2. na[2 * n - 1] = r[n][1] /\ na[2 * n] = r[n][2]
    BY <1>3, <2>1
  <2>3. PICK p : p = r[n]
    OBVIOUS
  <2>4. p = <<p[1], p[2]>>
    BY <1>2, <2>3 DEF Pairs
  <2> QED BY <1>4, <2>2, <2>3, <2>4
<1> QED BY <1>1, <1>2, <1>6, <1>7, <1>9, <1>10

(* Importing what was exported from counts brings those counts.             *)
LEMMA ExportKeeps ==
    ASSUME NEW seqs \in [Pairs -> Nat], NEW pack, pack = EncodeModel(seqs)
    PROVE  WellFormed(pack) /\ Merge([p \in Pairs |-> 0], pack) = seqs
<1>1. PICK held : held = {p \in Pairs : seqs[p] > 0}
  OBVIOUS
<1>2. held \subseteq Pairs /\ IsFiniteSet(held)
  <2>1. IsFiniteSet(Pairs)
    BY BackendAssumption, FS_Product DEF Pairs
  <2>2. held \in SUBSET Pairs
    BY <1>1
  <2> QED BY <2>1, <2>2, FS_Subset
<1>3. PICK r : r = Listed(held)
  OBVIOUS
<1>4. PICK n : n = Cardinality(held)
  OBVIOUS
<1>5. /\ n \in Nat /\ r \in Seq(Pairs) /\ Len(r) = n
      /\ \A i \in 1 .. n : r[i] \in held
      /\ \A i, j \in 1 .. n : r[i] = r[j] => i = j
      /\ \A p \in held : \E i \in 1 .. n : r[i] = p
  BY ONLY <1>2, <1>3, <1>4, ListedIs
<1>6. pack = Encoded(r, seqs)
  BY <1>1, <1>3 DEF EncodeModel
<1>7. /\ WellFormed(pack) /\ Len(pack.counts) = n
      /\ \A i \in 1 .. n : /\ pack.counts[i] = seqs[r[i]]
                           /\ <<pack.names[2 * i - 1], pack.names[2 * i]>> = r[i]
  <2>1. r \in Seq(Pairs) /\ Len(r) = n
    BY <1>5
  <2>2. /\ WellFormed(pack) /\ Len(pack.counts) = Len(r)
        /\ \A i \in 1 .. Len(r) : /\ pack.counts[i] = seqs[r[i]]
                                  /\ <<pack.names[2 * i - 1], pack.names[2 * i]>> = r[i]
    BY ONLY <1>6, <2>1, EncodedIs
  <2> QED BY ONLY <2>1, <2>2, Zenon
<1>8. PICK f : f = Brought(pack)
  OBVIOUS
<1>9. BringsTo(f, pack, n)
  BY <1>5, <1>7, <1>8, BroughtEquation
<1>10. PICK zero : zero = [p \in Pairs |-> 0]
  OBVIOUS
<1>11. \A m \in 0 .. n : f[m] = IF m = 0 THEN zero ELSE OneRecord(pack, m, f[m - 1])
  BY <1>9, <1>10 DEF BringsTo
<1>12. \A m \in 0 .. n : \A p \in Pairs :
         f[m][p] = IF \E i \in 1 .. m : r[i] = p THEN seqs[p] ELSE 0
  <2> SUFFICES ASSUME NEW bad \in 0 .. n,
                      ~\A p \in Pairs :
                         f[bad][p] = IF \E i \in 1 .. bad : r[i] = p THEN seqs[p] ELSE 0
               PROVE FALSE
    OBVIOUS
  <2>1. PICK T : T = {m \in 0 .. n :
                        ~\A p \in Pairs :
                           f[m][p] = IF \E i \in 1 .. m : r[i] = p THEN seqs[p] ELSE 0}
    OBVIOUS
  <2>2. T \in SUBSET Nat /\ bad \in T
    BY <1>5, <2>1
  <2>3. PICK x \in T : \A y \in T : x <= y
    BY <2>2, LeastOf
  <2>4. /\ x \in 0 .. n
        /\ ~\A p \in Pairs : f[x][p] = IF \E i \in 1 .. x : r[i] = p THEN seqs[p] ELSE 0
    BY <2>1, <2>3
  <2>5. x # 0
    <3> SUFFICES ASSUME x = 0 PROVE FALSE
      OBVIOUS
    <3>1. 0 \in 0 .. n
      BY <1>5
    <3>2. f[0] = zero
      BY <1>11, <3>1
    <3>3. \A p \in Pairs : f[0][p] = 0
      BY <1>10, <3>2
    <3>4. ~\E i \in 1 .. 0 : TRUE
      OBVIOUS
    <3> QED BY <2>4, <3>3, <3>4
  <2>6. x \in Nat /\ x - 1 \in 0 .. n /\ x \in 1 .. n /\ ~(x <= x - 1)
    BY <1>5, <2>4, <2>5
  <2>7. PICK g : g = f[x - 1]
    OBVIOUS
  <2>8. \A p \in Pairs : g[p] = IF \E i \in 1 .. x - 1 : r[i] = p THEN seqs[p] ELSE 0
    <3>1. x - 1 \notin T
      BY <2>3, <2>6
    <3> QED BY <2>1, <2>6, <2>7, <3>1
  <2>9. PICK q, c : q = r[x] /\ c = seqs[r[x]]
    OBVIOUS
  <2>10. f[x] = OneRecord(pack, x, g)
    BY <1>11, <2>4, <2>5, <2>7
  <2>11. pack.counts[x] = c /\ <<pack.names[2 * x - 1], pack.names[2 * x]>> = q
    BY <1>7, <2>6, <2>9
  <2>12. f[x] = [p \in Pairs |-> g[p] + IF q = p THEN c ELSE 0]
    BY <2>10, <2>11, Zenon DEF OneRecord
  <2>13. ASSUME NEW p \in Pairs
         PROVE  f[x][p] = IF \E i \in 1 .. x : r[i] = p THEN seqs[p] ELSE 0
    <3>0. seqs[p] \in Nat
      OBVIOUS
    <3>1. f[x][p] = g[p] + IF q = p THEN c ELSE 0
      BY <2>12
    <3>2. g[p] = IF \E i \in 1 .. x - 1 : r[i] = p THEN seqs[p] ELSE 0
      BY <2>8
    <3>3. \A i \in 1 .. x : i = x \/ i \in 1 .. x - 1
      BY <2>6
    <3>4. \A i \in 1 .. x - 1 : i \in 1 .. x /\ i \in 1 .. n /\ i # x
      BY <1>5, <2>6
    <3>5. x \in 1 .. x
      BY <2>6
    <3>6. CASE q = p
      <4>1. ~\E i \in 1 .. x - 1 : r[i] = p
        BY <1>5, <2>6, <2>9, <3>4, <3>6
      <4>2. \E i \in 1 .. x : r[i] = p
        BY <2>9, <3>5, <3>6
      <4>3. c = seqs[p]
        BY <2>9, <3>6
      <4> QED BY <3>0, <3>1, <3>2, <3>6, <4>1, <4>2, <4>3
    <3>7. CASE q # p
      <4>1. (\E i \in 1 .. x - 1 : r[i] = p) <=> (\E i \in 1 .. x : r[i] = p)
        BY <2>9, <3>3, <3>4, <3>7
      <4> QED BY <3>0, <3>1, <3>2, <3>7, <4>1
    <3> QED BY <3>6, <3>7
  <2> QED BY <2>4, <2>13
<1>13. \A p \in Pairs : f[n][p] = seqs[p]
  <2> SUFFICES ASSUME NEW p \in Pairs PROVE f[n][p] = seqs[p]
    OBVIOUS
  <2>1. seqs[p] \in Nat /\ n \in 0 .. n
    BY <1>5
  <2>2. f[n][p] = IF \E i \in 1 .. n : r[i] = p THEN seqs[p] ELSE 0
    BY <1>12, <2>1
  <2>3. CASE p \in held
    BY <1>5, <2>2, <2>3
  <2>4. CASE p \notin held
    <3>1. seqs[p] = 0
      BY <1>1, <2>1, <2>4
    <3> QED BY <2>2, <3>1
  <2> QED BY <2>3, <2>4
<1>14. Merge(zero, pack) = seqs
  <2>1. PICK g : g = f[n]
    OBVIOUS
  <2>2. Merge(zero, pack) = [p \in Pairs |-> zero[p] + g[p]]
    BY <1>7, <1>8, <2>1 DEF Merge
  <2>3. \A p \in Pairs : zero[p] + g[p] = seqs[p]
    <3>1. \A p \in Pairs : zero[p] = 0 /\ g[p] = seqs[p] /\ seqs[p] \in Nat
      BY <1>10, <1>13, <2>1
    <3> QED BY <3>1
  <2>4. seqs = [p \in Pairs |-> seqs[p]]
    OBVIOUS
  <2> QED BY <2>2, <2>3, <2>4
<1> QED BY <1>7, <1>10, <1>14

-----------------------------------------------------------------------------
(* Whatever order tools, failures, navigations, restarts and imports come   *)
(* in: a transition is learned only from two captures with that one act     *)
(* between them, an act is counted after another no more often than it was  *)
(* done or imported, the cached answer is the page, a delta is computed     *)
(* from what the client was last told, and a model that is exported and     *)
(* imported elsewhere predicts the same.                                    *)
THEOREM SpeculationHolds == BackSpec => []SpeculationIsHonest
<1>1. BackInit => BackInv
  BY BackStarts
<1>2. BackInv /\ [BackNext]_backVars => BackInv'
  BY BackStep
<1>3. BackSpec => []BackInv
  BY <1>1, <1>2, PTL DEF BackSpec
<1>4. BackInv => SpeculationIsHonest
  <2> SUFFICES ASSUME BackInv PROVE SpeculationIsHonest
    OBVIOUS
  <2>1. LearningIsHonest
    BY AlignedIsHonest
  <2>2. eng.seqs \in [Pairs -> Nat]
    BY EngineParts DEF BackInv
  <2>3. PICK pack : pack = EncodeModel(eng.seqs)
    OBVIOUS
  <2>4. WellFormed(pack) /\ Merge([p \in Pairs |-> 0], pack) = eng.seqs
    BY <2>2, <2>3, ExportKeeps
  <2>5. ExportKeepsModel
    BY <2>3, <2>4 DEF ExportKeepsModel
  <2> QED BY <2>1, <2>5 DEF SpeculationIsHonest
<1> QED BY <1>3, <1>4, PTL

-----------------------------------------------------------------------------
(* What extraction explains.                                                *)

(* Every form a definition is parsed into has one of the two modes.         *)
LEMMA ParsedMode ==
    ASSUME NEW definition, NEW r \in Parse(definition)
    PROVE  r.mode \in {"single", "structured"}
<1> DEFINE form(d) == [mode |-> "structured", fields |-> d.fields, attribute |-> {}]
           single == [mode |-> "single", fields |-> {},
                      attribute |-> definition.attribute \ {""}]
<1>1. \/ \E d \in definition.items : r = form(d)
      \/ r = form(definition)
      \/ r = single
  BY Zenon DEF Parse
<1>2. single.mode = "single" /\ \A d : form(d).mode = "structured"
  OBVIOUS
<1> HIDE DEF form, single
<1> QED
  BY <1>1, <1>2

(* A selector that matched nothing gives no rows, and only then.            *)
LEMMA PageLength ==
    ASSUME NEW els \in Pages
    PROVE  /\ Len(els) \in Nat
           /\ Len(els) = 0 <=> els = <<>>
           /\ DOMAIN els = 1..Len(els)
<1> PICK n \in 0..MaxMatches : els \in [1..n -> PageElements]
  BY DEF Pages
<1>1. n \in Nat
  BY ExtractionAssumption DEF ExtractionAssumption
<1>2. els \in Seq(PageElements) /\ Len(els) = n
  BY <1>1
<1> QED
  BY <1>1, <1>2

(* The second script names what the first one could not resolve, where it   *)
(* left gaps at all.                                                        *)
LEMMA GapsAreNamed ==
    ASSUME NEW rule, NEW els \in Pages, rule.mode \in {"single", "structured"},
           ~SilentProperty(rule), HasGaps(rule.mode, Result(rule, els))
    PROVE  Diagnostics(rule, els) =
             IF Result(rule, els).null
                \/ (rule.mode = "structured" /\ Result(rule, els).rows = 0)
             THEN {"$selector"} ELSE {f.key: f \in Result(rule, els).gaps}
<1>1. CASE rule.mode = "single"
  <2>1. Result(rule, els).null
    BY <1>1 DEF HasGaps, Result
  <2>2. els = <<>> \/ \E a \in rule.attribute : ~AttributeResolves(els[1], a)
    BY <1>1, <2>1 DEF Result
  <2>3. els # <<>> => \E a \in rule.attribute : ~IsDomProperty(a) /\ ~AttributeResolves(els[1], a)
    BY <1>1, <2>2 DEF SilentProperty
  <2> QED
    BY <1>1, <2>1, <2>3 DEF Diagnostics
<1>2. CASE rule.mode = "structured"
  <2> PICK gaps : gaps = {f \in rule.fields: \E i \in DOMAIN els: ~FieldResolves(els[i], f.spec)}
    OBVIOUS
  <2>1. Result(rule, els) = [rows |-> Len(els), null |-> FALSE, gaps |-> gaps]
    BY <1>2 DEF Result
  <2>2. gaps = {f \in rule.fields: \E i \in DOMAIN els: ~Present(els[i], f.spec)}
    BY DEF Present, FieldResolves
  <2>3. Diagnostics(rule, els) = IF els = <<>> THEN {"$selector"} ELSE {f.key : f \in gaps}
    BY <1>2, <2>2 DEF Diagnostics
  <2> QED
    BY <1>2, <2>1, <2>3, PageLength
<1> QED
  BY <1>1, <1>2

(* Without gaps there is nothing to name.                                    *)
LEMMA NoGapsNoNames ==
    ASSUME NEW rule, NEW els \in Pages, rule.mode \in {"single", "structured"},
           ~HasGaps(rule.mode, Result(rule, els))
    PROVE  ~(Result(rule, els).null
             \/ (rule.mode = "structured" /\ Result(rule, els).rows = 0))
           /\ Result(rule, els).gaps = {}
<1>1. CASE rule.mode = "single"
  BY <1>1 DEF HasGaps, Result
<1>2. CASE rule.mode = "structured"
  BY <1>2 DEF HasGaps
<1> QED
  BY <1>1, <1>2

(* Starting a call leaves it holding what the rule gave.                     *)
LEMMA ExtractHolds ==
    ASSUME ExtractInv, NEW rules, NEW throws, Extract(rules, throws),
           \A r \in rules : r.mode \in {"single", "structured"}
    PROVE  ExtractInv'
<1>1. found' = found /\ registry' = registry
  BY DEF Extract
<1>2. found' \in Pages /\ RulesHaveModes'
  BY <1>1 DEF ExtractInv, RulesHaveModes, Pages
<1>3. CASE tool' = [at |-> "error"]
  BY <1>2, <1>3 DEF ExtractInv, ToolHoldsResult, ErrorsExplainGaps
<1>4. CASE \E r \in rules :
             tool' = [at |-> IF HasGaps(r.mode, Result(r, found)) THEN "diagnose" ELSE "done",
                      rule |-> r, result |-> Result(r, found), errors |-> {}, still |-> TRUE]
  <2> PICK r \in rules :
        tool' = [at |-> IF HasGaps(r.mode, Result(r, found)) THEN "diagnose" ELSE "done",
                 rule |-> r, result |-> Result(r, found), errors |-> {}, still |-> TRUE]
    BY <1>4
  <2> PICK a, result : a = (IF HasGaps(r.mode, Result(r, found)) THEN "diagnose" ELSE "done")
                       /\ result = Result(r, found)
    OBVIOUS
  <2>1. tool' = [at |-> a, rule |-> r, result |-> result, errors |-> {}, still |-> TRUE]
    OBVIOUS
  <2>2. a \in {"diagnose", "done"} /\ (a = "diagnose" <=> HasGaps(r.mode, result))
    OBVIOUS
  <2>3. Result(r, found)' = result
    BY <1>1 DEF Result, FieldResolves, AttributeResolves
  <2>3a. tool'.rule = r /\ tool'.result = result /\ tool'.errors = {} /\ tool'.at = a
         /\ tool'.still = TRUE
    BY <2>1
  <2>3b. Result(tool.rule, found)' = result
    BY <1>1, <2>3a DEF Result, FieldResolves, AttributeResolves
  <2>4. ToolHoldsResult'
    BY <2>1, <2>2, <2>3a, <2>3b DEF ToolHoldsResult, HasGaps
  <2>5. a = "done" => /\ ~(result.null \/ (r.mode = "structured" /\ result.rows = 0))
                      /\ result.gaps = {}
    BY <2>2, NoGapsNoNames DEF ExtractInv
  <2>6. ErrorsExplainGaps'
    BY <2>3a, <2>5 DEF ErrorsExplainGaps
  <2> QED
    BY <1>2, <2>4, <2>6 DEF ExtractInv
<1> QED
  BY <1>3, <1>4 DEF Extract

(* The invariant of extraction holds at first.                              *)
LEMMA ExtractInvInit == ExtractInit => ExtractInv
BY ExtractionAssumption
   DEF ExtractInit, ExtractInv, ExtractionAssumption, RulesHaveModes, ToolHoldsResult,
       ErrorsExplainGaps, NoTool

(* And after every step.                                                    *)
LEMMA ExtractInvStep ==
    ASSUME ExtractInv, [ExtractNext]_extractVars
    PROVE  ExtractInv'
<1>1. ASSUME NEW name \in RuleNames, NEW d \in Definitions, Register(name, d)
      PROVE  ExtractInv'
  <2>1. found' = found /\ tool' = tool /\ tool = NoTool
    BY <1>1 DEF Register
  <2> PICK r : r = CHOOSE q \in Parse(d) : TRUE
    OBVIOUS
  <2>2. r \in Parse(d)
    BY <1>1 DEF Register
  <2>3. r.mode \in {"single", "structured"}
    BY <2>2, ParsedMode
  <2>4. registry' = [n \in DOMAIN registry \cup {name} |-> IF n = name THEN r ELSE registry[n]]
    BY <1>1 DEF Register
  <2>5. RulesHaveModes'
    BY <2>3, <2>4 DEF ExtractInv, RulesHaveModes
  <2> QED
    BY <2>1, <2>5 DEF ExtractInv, ToolHoldsResult, ErrorsExplainGaps, NoTool, Pages
<1>2. ASSUME NEW els \in Pages, PageChanges(els)
      PROVE  ExtractInv'
  <2>1. found' \in Pages /\ RulesHaveModes'
    BY <1>2 DEF ExtractInv, PageChanges, RulesHaveModes, Pages
  <2>2. CASE tool.at = "diagnose"
    <3>1. tool' = [tool EXCEPT !.still = FALSE]
      BY <1>2, <2>2 DEF PageChanges
    <3>2. tool = [at |-> tool.at, rule |-> tool.rule, result |-> tool.result,
                  errors |-> tool.errors, still |-> tool.still]
          /\ tool.rule.mode \in {"single", "structured"}
      BY <2>2 DEF ExtractInv, ToolHoldsResult, NoTool
    <3> PICK r, s, e : r = tool.rule /\ s = tool.result /\ e = tool.errors
      OBVIOUS
    <3>3. tool' = [at |-> "diagnose", rule |-> r, result |-> s, errors |-> e, still |-> FALSE]
      BY <2>2, <3>1, <3>2
    <3> QED
      BY <2>1, <3>2, <3>3 DEF ExtractInv, ToolHoldsResult, ErrorsExplainGaps
  <2>3. CASE tool.at # "diagnose"
    <3>1. tool' = tool /\ tool.at = "idle"
      BY <1>2, <2>3 DEF PageChanges
    <3>2. tool = NoTool
      BY <3>1 DEF ExtractInv, ToolHoldsResult
    <3> QED
      BY <2>1, <3>1, <3>2 DEF ExtractInv, ToolHoldsResult, ErrorsExplainGaps, NoTool
  <2> QED
    BY <2>2, <2>3
<1>3. ASSUME NEW name, NEW t, ExtractNamed(name, t)
      PROVE  ExtractInv'
  <2>1. \A r \in (IF name \in DOMAIN registry THEN {registry[name]} ELSE {}) :
           r.mode \in {"single", "structured"}
    BY DEF ExtractInv, RulesHaveModes
  <2> QED
    BY <1>3, <2>1, ExtractHolds DEF ExtractNamed
<1>4. ASSUME NEW d, NEW t, ExtractInline(d, t)
      PROVE  ExtractInv'
  BY <1>4, ParsedMode, ExtractHolds DEF ExtractInline
<1>5. ASSUME NEW fails \in BOOLEAN, Diagnose(fails)
      PROVE  ExtractInv'
  <2>1. found' = found /\ registry' = registry /\ tool.at = "diagnose"
    BY <1>5 DEF Diagnose
  <2>2. found' \in Pages /\ RulesHaveModes'
    BY <2>1 DEF ExtractInv, RulesHaveModes, Pages
  <2>3. /\ tool = [at |-> tool.at, rule |-> tool.rule, result |-> tool.result,
                   errors |-> tool.errors, still |-> tool.still]
        /\ tool.rule.mode \in {"single", "structured"}
        /\ tool.still \in BOOLEAN
        /\ tool.still => /\ tool.result = Result(tool.rule, found)
                         /\ HasGaps(tool.rule.mode, tool.result)
    BY <2>1 DEF ExtractInv, ToolHoldsResult, NoTool
  <2> PICK r, s, e, still : /\ r = tool.rule /\ s = tool.result
                            /\ e = (IF fails THEN {} ELSE Diagnostics(tool.rule, found))
                            /\ still = (tool.still /\ ~fails)
    OBVIOUS
  <2>4. tool' = [at |-> "done", rule |-> r, result |-> s, errors |-> e, still |-> still]
    BY <1>5, <2>1, <2>3 DEF Diagnose
  <2>5. ToolHoldsResult'
    BY <2>3, <2>4 DEF ToolHoldsResult
  <2>6. ASSUME still, ~SilentProperty(r)
        PROVE  e = IF s.null \/ (r.mode = "structured" /\ s.rows = 0)
                   THEN {"$selector"} ELSE {f.key: f \in s.gaps}
    <3>1. /\ s = Result(r, found) /\ HasGaps(r.mode, s) /\ e = Diagnostics(r, found)
          /\ r.mode \in {"single", "structured"}
      BY <2>3, <2>6
    <3>2. found \in Pages
      BY DEF ExtractInv
    <3> QED BY ONLY <2>6, <3>1, <3>2, GapsAreNamed
  <2>7. ErrorsExplainGaps'
    BY <2>4, <2>6 DEF ErrorsExplainGaps, SilentProperty
  <2> QED
    BY <2>2, <2>5, <2>7 DEF ExtractInv
<1>6. CASE Respond
  BY <1>6 DEF Respond, ExtractInv, RulesHaveModes, Pages, ToolHoldsResult, ErrorsExplainGaps, NoTool
<1>7. CASE UNCHANGED extractVars
  BY <1>7 DEF extractVars, ExtractInv, RulesHaveModes, Pages, ToolHoldsResult, ErrorsExplainGaps,
     Result, FieldResolves, AttributeResolves, HasGaps
<1> QED
  BY <1>1, <1>2, <1>3, <1>4, <1>5, <1>6, <1>7 DEF ExtractNext

(* No step changes the rule of a name that has one.                          *)
LEMMA RulesKept ==
    ASSUME [ExtractNext]_extractVars
    PROVE  [\A n \in DOMAIN registry: n \in DOMAIN registry' /\ registry'[n] = registry[n]]_extractVars
<1>1. ASSUME NEW name \in RuleNames, NEW d \in Definitions, Register(name, d)
      PROVE  \A n \in DOMAIN registry: n \in DOMAIN registry' /\ registry'[n] = registry[n]
  BY <1>1 DEF Register
<1>2. ASSUME registry' = registry
      PROVE  \A n \in DOMAIN registry: n \in DOMAIN registry' /\ registry'[n] = registry[n]
  BY <1>2
<1>3. (\E name \in RuleNames, d \in Definitions: Register(name, d)) \/ registry' = registry
  BY DEF ExtractNext, PageChanges, ExtractNamed, ExtractInline, Extract, Diagnose, Respond,
     extractVars
<1> QED
  BY <1>1, <1>2, <1>3

(* For every set of definitions, built-in rules and changes of the page:     *)
(* what an extract call cannot find is explained, exactly, where the page    *)
(* stood still, and a registered name keeps its rule.                        *)
THEOREM ExtractionIsExplained == ExtractSpec => ExtractionIsHonest
<1>1. ExtractInv => ErrorsExplainGaps
  BY DEF ExtractInv
<1> QED
  BY <1>1, ExtractInvInit, ExtractInvStep, RulesKept, PTL
     DEF ExtractSpec, ExtractionIsHonest, NamesKeepTheirRule

-----------------------------------------------------------------------------
(* A call over a browser that may be gone.                                  *)

(* The relaunches still counted are the last ones of the history; the       *)
(* others are too old.                                                      *)
LEMMA RecentIs ==
    ASSUME ServerTypeOK
    PROVE  /\ Recent \in Seq(Nat)
           /\ \E k \in 0..Len(attempts) :
                /\ Len(Recent) = Len(attempts) - k
                /\ \A i \in 1..Len(Recent) : Recent[i] = attempts[k + i]
                /\ \A i \in 1..k : clock - attempts[i] > RestartWindow
<1> PICK h, n, now, window : h = attempts /\ n = Len(h) /\ now = clock /\ window = RestartWindow
  OBVIOUS
<1>1. h \in Seq(Nat) /\ n \in Nat /\ now \in Nat /\ window \in Nat
      /\ \A i \in 1..n : h[i] \in Nat
  BY ServerAssumption DEF ServerTypeOK, ServerAssumption
<1> PICK E : E = Expired
  OBVIOUS
<1>2. E = {k \in 0..n : k < n => now - h[k + 1] <= window}
  BY DEF Expired
<1>3. E \in SUBSET Nat /\ n \in E
  BY <1>1, <1>2
<1>4. \E x \in E : \A y \in E : x =< y
  BY <1>3, LeastOf
<1> PICK k : k = Min(E)
  OBVIOUS
<1>5. k \in E /\ \A y \in E : k <= y
  BY <1>4 DEF Min
<1>6. k \in 0..n
  BY <1>2, <1>5
<1>7. \A i \in 1..k : now - h[i] > window
  <2> TAKE i \in 1..k
  <2>1. i - 1 \in 0..n /\ i - 1 < k /\ i - 1 < n /\ (i - 1) + 1 = i /\ h[i] \in Nat
    BY <1>1, <1>6
  <2>2. i - 1 \notin E
    BY <1>1, <1>3, <1>5, <1>6, <2>1
  <2> QED
    BY <1>1, <1>2, <2>1, <2>2
<1>8. Recent = SubSeq(h, 1 + k, n)
  BY DEF Recent
<1>9. /\ SubSeq(h, 1 + k, n) \in Seq(Nat) /\ Len(SubSeq(h, 1 + k, n)) = n - k
      /\ \A i \in 1..(n - k) : SubSeq(h, 1 + k, n)[i] = h[k + i]
  <2>1. 1 + k \in 1..(n + 1)
    BY <1>1, <1>6
  <2>2. \A i \in 1..(n - k) : (1 + k) + i - 1 = k + i
    BY <1>1, <1>6
  <2>3. 1 + k \in Nat /\ n \in 0..n /\ n = Len(h)
    BY <1>1, <1>6
  <2>4. SubSeq(h, 1 + k, n) \in Seq(Nat) /\ Len(SubSeq(h, 1 + k, n)) = n - k
    BY <1>1, <1>6, <2>1, <2>3
  <2>5. \A i \in 1..(n - k) : SubSeq(h, 1 + k, n)[i] = h[(1 + k) + i - 1]
    BY ONLY <1>1, <1>6, <2>1, <2>3
  <2> QED
    BY ONLY <2>2, <2>4, <2>5
<1> QED
  BY <1>6, <1>7, <1>8, <1>9

(* Sums that stop at the limit grow with what is added.                     *)
LEMMA SumGrows ==
    ASSUME NEW a \in Nat, NEW b \in Nat, NEW c \in Nat, NEW d \in Nat, a <= b, c <= d
    PROVE  /\ SaturatingAdd(a, c) \in Nat /\ SaturatingAdd(b, d) \in Nat
           /\ SaturatingAdd(a, c) <= SaturatingAdd(b, d)
BY ServerAssumption DEF ServerAssumption, SaturatingAdd

(* So do products that stop at the limit.                                   *)
LEMMA ProductGrows ==
    ASSUME NEW a \in Nat, NEW b \in Nat, NEW c \in Nat, a <= b
    PROVE  /\ SaturatingMul(a, c) \in Nat /\ SaturatingMul(b, c) \in Nat
           /\ SaturatingMul(a, c) <= SaturatingMul(b, c)
<1>1. CostMax \in Nat
  BY ServerAssumption DEF ServerAssumption
<1>2. a * c \in Nat /\ b * c \in Nat
  OBVIOUS
<1>3. a * c <= b * c
  <2>1. b - a \in Nat /\ b = a + (b - a)
    OBVIOUS
  <2>2. (b - a) * c \in Nat /\ b * c = a * c + (b - a) * c
    BY <2>1
  <2> QED
    BY <1>2, <2>2
<1> PICK x, y : x = a * c /\ y = b * c
  OBVIOUS
<1>4. /\ SaturatingMul(a, c) = IF x > CostMax THEN CostMax ELSE x
      /\ SaturatingMul(b, c) = IF y > CostMax THEN CostMax ELSE y
  BY DEF SaturatingMul
<1> QED
  BY <1>1, <1>2, <1>3, <1>4

(* Every price is a natural number.                                         *)
LEMMA RateIsNat ==
    ASSUME NEW tier \in 1..3, NEW m \in MeterNames
    PROVE  Rate(tier)[m] \in Nat
<1>1. CASE tier = 1
  BY <1>1 DEF Rate
<1>2. CASE tier = 2
  BY <1>2 DEF Rate, MeterNames
<1>3. CASE tier = 3
  BY <1>3 DEF Rate, MeterNames
<1> QED
  BY <1>1, <1>2, <1>3

(* More of everything never costs less.                                     *)
LEMMA TotalGrows ==
    ASSUME plan \in 1..3, NEW used \in [MeterNames -> Nat], NEW more \in [MeterNames -> Nat],
           \A m \in MeterNames : used[m] <= more[m]
    PROVE  Total(more) >= Total(used)
<1>1. \A m \in MeterNames : /\ Charge(m, used) \in Nat /\ Charge(m, more) \in Nat
                            /\ Charge(m, used) <= Charge(m, more)
  <2> TAKE m \in MeterNames
  <2> PICK r, u, v : r = Rate(plan)[m] /\ u = used[m] /\ v = more[m]
    OBVIOUS
  <2>1. r \in Nat /\ u \in Nat /\ v \in Nat /\ u <= v
    BY RateIsNat
  <2>2. SaturatingMul(u, r) \in Nat /\ SaturatingMul(v, r) \in Nat
        /\ SaturatingMul(u, r) <= SaturatingMul(v, r)
    BY <2>1, ProductGrows
  <2> QED
    BY <2>2 DEF Charge
<1> PICK a1, a2, a3, a4, a5, a6, a7 :
      /\ a1 = Charge("fast", used) /\ a2 = Charge("full", used) /\ a3 = Charge("delta", used)
      /\ a4 = Charge("speculative", used) /\ a5 = Charge("visual", used)
      /\ a6 = Charge("actions", used) /\ a7 = Charge("hitl", used)
  OBVIOUS
<1> PICK b1, b2, b3, b4, b5, b6, b7 :
      /\ b1 = Charge("fast", more) /\ b2 = Charge("full", more) /\ b3 = Charge("delta", more)
      /\ b4 = Charge("speculative", more) /\ b5 = Charge("visual", more)
      /\ b6 = Charge("actions", more) /\ b7 = Charge("hitl", more)
  OBVIOUS
<1>2. /\ a1 \in Nat /\ a2 \in Nat /\ a3 \in Nat /\ a4 \in Nat /\ a5 \in Nat /\ a6 \in Nat
      /\ a7 \in Nat /\ b1 \in Nat /\ b2 \in Nat /\ b3 \in Nat /\ b4 \in Nat /\ b5 \in Nat
      /\ b6 \in Nat /\ b7 \in Nat
      /\ a1 <= b1 /\ a2 <= b2 /\ a3 <= b3 /\ a4 <= b4 /\ a5 <= b5 /\ a6 <= b6 /\ a7 <= b7
  BY <1>1 DEF MeterNames
<1> PICK s2, t2 : s2 = SaturatingAdd(a1, a2) /\ t2 = SaturatingAdd(b1, b2)
  OBVIOUS
<1>3. s2 \in Nat /\ t2 \in Nat /\ s2 <= t2
  BY <1>2, SumGrows
<1> PICK s3, t3 : s3 = SaturatingAdd(s2, a3) /\ t3 = SaturatingAdd(t2, b3)
  OBVIOUS
<1>4. s3 \in Nat /\ t3 \in Nat /\ s3 <= t3
  <2>1. a3 \in Nat /\ b3 \in Nat /\ a3 <= b3
    BY <1>2
  <2> QED
    BY <1>3, <2>1, SumGrows
<1> PICK s4, t4 : s4 = SaturatingAdd(s3, a4) /\ t4 = SaturatingAdd(t3, b4)
  OBVIOUS
<1>5. s4 \in Nat /\ t4 \in Nat /\ s4 <= t4
  <2>1. a4 \in Nat /\ b4 \in Nat /\ a4 <= b4
    BY <1>2
  <2> QED
    BY <1>4, <2>1, SumGrows
<1> PICK s5, t5 : s5 = SaturatingAdd(s4, a5) /\ t5 = SaturatingAdd(t4, b5)
  OBVIOUS
<1>6. s5 \in Nat /\ t5 \in Nat /\ s5 <= t5
  <2>1. a5 \in Nat /\ b5 \in Nat /\ a5 <= b5
    BY <1>2
  <2> QED
    BY <1>5, <2>1, SumGrows
<1> PICK s6, t6 : s6 = SaturatingAdd(s5, a6) /\ t6 = SaturatingAdd(t5, b6)
  OBVIOUS
<1>7. s6 \in Nat /\ t6 \in Nat /\ s6 <= t6
  <2>1. a6 \in Nat /\ b6 \in Nat /\ a6 <= b6
    BY <1>2
  <2> QED
    BY <1>6, <2>1, SumGrows
<1> PICK s7, t7 : s7 = SaturatingAdd(s6, a7) /\ t7 = SaturatingAdd(t6, b7)
  OBVIOUS
<1>8. s7 \in Nat /\ t7 \in Nat /\ s7 <= t7
  <2>1. a7 \in Nat /\ b7 \in Nat /\ a7 <= b7
    BY <1>2
  <2> QED
    BY <1>7, <2>1, SumGrows
<1>9. Total(used) = s7 /\ Total(more) = t7
  BY Zenon DEF Total
<1> QED
  BY <1>8, <1>9

(* The invariant holds at first.                                             *)
LEMMA ServerInvInit == ServerInit => ServerInv
<1> SUFFICES ASSUME ServerInit PROVE ServerInv
  OBVIOUS
<1>1. ServerTypeOK
  BY ServerAssumption
     DEF ServerInit, ServerTypeOK, ServerAssumption, Healthy, Idle, Requests, MeterNames,
         Chromes, Pasts
<1>2. DoneOnce /\ MetersBalance /\ serverPast.unattended <= aliveSkips
  BY DEF ServerInit, DoneOnce, MetersBalance, Owed, Idle, MeterNames
<1>3. HistoryIsRecent
  BY ServerAssumption DEF ServerInit, HistoryIsRecent, ServerAssumption
<1> QED
  BY <1>1, <1>2, <1>3 DEF ServerInv

(* What happens to the past, one field at a time.                           *)
LEMMA PastMoves ==
    ASSUME NEW p \in Pasts, NEW n \in Nat
    PROVE  /\ /\ [p EXCEPT !.calls = n] \in Pasts
              /\ [p EXCEPT !.calls = n].tried = p.tried
              /\ [p EXCEPT !.calls = n].unattended = p.unattended
              /\ [p EXCEPT !.calls = n].did = p.did
              /\ [p EXCEPT !.calls = n].lost = p.lost
           /\ /\ [p EXCEPT !.faults = n] \in Pasts
              /\ [p EXCEPT !.faults = n].tried = p.tried
              /\ [p EXCEPT !.faults = n].unattended = p.unattended
              /\ [p EXCEPT !.faults = n].did = p.did
              /\ [p EXCEPT !.faults = n].lost = p.lost
           /\ /\ [p EXCEPT !.unattended = n] \in Pasts
              /\ [p EXCEPT !.unattended = n].tried = p.tried
              /\ [p EXCEPT !.unattended = n].unattended = n
              /\ [p EXCEPT !.unattended = n].did = p.did
              /\ [p EXCEPT !.unattended = n].lost = p.lost
BY DEF Pasts

(* What is too old to count stays so.                                        *)
LEMMA OlderYet ==
    ASSUME NEW now \in Nat, NEW later \in Nat, NEW t \in Nat, NEW window \in Nat,
           now <= later, now - t > window
    PROVE  later - t > window
OBVIOUS

(* Past events only add up while a call, the browser or the clock moves on.  *)
LEMMA HistoryKept ==
    ASSUME ServerInv, attempts' = attempts, serverPast'.tried = serverPast.tried,
           clock' \in Nat, clock <= clock'
    PROVE  HistoryIsRecent'
<1> PICK tried, h, n, now, later, window :
      /\ tried = serverPast.tried /\ h = attempts /\ n = Len(tried) - Len(h)
      /\ now = clock /\ later = clock' /\ window = RestartWindow
  OBVIOUS
<1>1. tried \in Seq(Nat) /\ now \in Nat /\ later \in Nat /\ window \in Nat /\ n \in Nat
      /\ now <= later
  BY ServerAssumption DEF ServerInv, ServerTypeOK, ServerAssumption, HistoryIsRecent, Pasts
<1>2. n <= Len(tried) /\ \A i \in 1..n : tried[i] \in Nat /\ now - tried[i] > window
  <2>1. Len(h) \in Nat
    BY DEF ServerInv, ServerTypeOK
  <2>2. n <= Len(tried) /\ \A i \in 1..n : tried[i] \in Nat
    BY <1>1, <2>1
  <2>3. \A i \in 1..n : now - tried[i] > window
    BY DEF ServerInv, HistoryIsRecent
  <2> QED BY <2>2, <2>3
<1>3. \A i \in 1..n : later - tried[i] > window
  <2> TAKE i \in 1..n
  <2> PICK t : t = tried[i]
    OBVIOUS
  <2>1. t \in Nat /\ now - t > window
    BY <1>2
  <2>2. later - t > window
    BY <1>1, <2>1, OlderYet
  <2> QED
    BY <2>2
<1> QED
  BY <1>3 DEF ServerInv, HistoryIsRecent

(* Whatever befalls Chrome, a call under way keeps its counts.              *)
LEMMA FaultKeeps ==
    ASSUME ServerInv, NEW next, Fault(next), next \in Chromes
    PROVE  ServerInv'
<1>1. chrome' = next
      /\ UNCHANGED <<plan, request, aliveSkips, attempts, clock, meters, skillDelta>>
  BY DEF Fault
<1> PICK n : n = serverPast.faults + 1
  OBVIOUS
<1>2. serverPast' = [serverPast EXCEPT !.faults = n]
  BY DEF Fault
<1>3. serverPast \in Pasts /\ n \in Nat
  BY DEF ServerInv, ServerTypeOK, Pasts
<1>4. /\ serverPast' \in Pasts
      /\ serverPast'.tried = serverPast.tried /\ serverPast'.unattended = serverPast.unattended
      /\ serverPast'.did = serverPast.did /\ serverPast'.lost = serverPast.lost
  BY <1>2, <1>3, PastMoves
<1>5. ServerTypeOK'
  BY <1>1, <1>4 DEF ServerInv, ServerTypeOK, Requests, Idle, Chromes, Pasts
<1>6. HistoryIsRecent'
  BY <1>1, <1>4, HistoryKept DEF ServerInv, ServerTypeOK
<1> QED
  BY <1>1, <1>4, <1>5, <1>6 DEF ServerInv, DoneOnce, MetersBalance, Owed

(* A call begins with nothing done.                                         *)
LEMMA CallKeeps ==
    ASSUME ServerInv, NEW asked \in SessionTools, CallTool(asked)
    PROVE  ServerInv'
<1>1. UNCHANGED <<plan, chrome, aliveSkips, attempts, clock, meters, skillDelta>>
      /\ request = Idle
  BY DEF CallTool
<1> PICK n : n = serverPast.calls + 1
  OBVIOUS
<1>2. serverPast' = [serverPast EXCEPT !.calls = n]
  BY DEF CallTool
<1>3. serverPast \in Pasts /\ n \in Nat
  BY DEF ServerInv, ServerTypeOK, Pasts
<1>4. /\ serverPast' \in Pasts
      /\ serverPast'.tried = serverPast.tried /\ serverPast'.unattended = serverPast.unattended
      /\ serverPast'.did = serverPast.did /\ serverPast'.lost = serverPast.lost
  BY <1>2, <1>3, PastMoves
<1>5. \/ request' = Idle
      \/ request' = [tool |-> asked, at |-> "dispatch", tries |-> 0, effects |-> 0,
                     result |-> "none"]
  BY DEF CallTool, Idle
<1>6. request' \in Requests /\ (request'.at = "idle" => request' = Idle)
      /\ Owed = 0 /\ Owed' = 0 /\ DoneOnce'
  BY <1>1, <1>5 DEF Requests, Idle, Owed, DoneOnce
<1>7. ServerTypeOK'
  BY <1>1, <1>4, <1>6 DEF ServerInv, ServerTypeOK, Requests, Idle, Chromes, Pasts
<1>8. HistoryIsRecent'
  BY <1>1, <1>4, HistoryKept DEF ServerInv, ServerTypeOK
<1> QED
  BY <1>1, <1>4, <1>6, <1>7, <1>8 DEF ServerInv, MetersBalance

(* What a dispatch with one of its outcomes changes.                        *)
Dispatched(o) ==
    /\ request' = [request EXCEPT
                     !.at = IF Again(o) THEN "dispatch" ELSE "judge",
                     !.tries = 1, !.effects = @ + o.did,
                     !.result = o.result]
    /\ serverPast' = [serverPast EXCEPT
          !.did = @ + o.did,
          !.lost = @ + (CASE RunsSkill(o) -> skillDelta
                          [] o.result = "transport" -> o.did
                          [] OTHER -> 0)]
    /\ skillDelta' = IF RunsSkill(o) THEN o.did ELSE skillDelta

(* The request and the past after an outcome, spelled out in the two lemmas *)
(* that follow.                                                             *)
Closing(q, a, d, r) == [q EXCEPT !.at = a, !.tries = 1, !.effects = @ + d, !.result = r]

Counting(p, d, l) == [p EXCEPT !.did = d, !.lost = l]

(* The fields a dispatch sets in the request, and those it leaves.           *)
LEMMA RequestSet ==
    ASSUME NEW q \in Requests, q.effects = 0, NEW a, NEW d \in Nat, NEW r
    PROVE  Closing(q, a, d, r) = [tool |-> q.tool, at |-> a, tries |-> 1, effects |-> d,
                                   result |-> r]
<1> PICK t, b, n, e, s, one :
      /\ t = q.tool /\ b = q.at /\ n = q.tries /\ e = q.effects /\ s = q.result /\ one = 1
  OBVIOUS
<1>1. q = [tool |-> t, at |-> b, tries |-> n, effects |-> e, result |-> s]
  BY DEF Requests
<1> PICK q1 : q1 = [q EXCEPT !.at = a]
  OBVIOUS
<1>2. q1 = [tool |-> t, at |-> a, tries |-> n, effects |-> e, result |-> s]
  BY <1>1
<1> PICK q2 : q2 = [q1 EXCEPT !.tries = one]
  OBVIOUS
<1>3. q2 = [tool |-> t, at |-> a, tries |-> one, effects |-> e, result |-> s]
  BY <1>2
<1> PICK q3 : q3 = [q2 EXCEPT !.effects = d]
  OBVIOUS
<1>4. q3 = [tool |-> t, at |-> a, tries |-> one, effects |-> d, result |-> s]
  BY <1>3
<1> PICK q4 : q4 = [q3 EXCEPT !.result = r]
  OBVIOUS
<1>5. q4 = [tool |-> t, at |-> a, tries |-> one, effects |-> d, result |-> r]
  BY <1>4
<1>6. q.effects + d = d
  OBVIOUS
<1>7. Closing(q, a, d, r) = q4
  BY <1>6, Zenon DEF Closing
<1> QED
  BY <1>5, <1>7, Zenon

(* And in the past.                                                          *)
LEMMA PastSet ==
    ASSUME NEW p \in Pasts, NEW d, NEW l
    PROVE  Counting(p, d, l)
             = [calls |-> p.calls, faults |-> p.faults, did |-> d, lost |-> l,
                unattended |-> p.unattended, tried |-> p.tried]
<1> PICK c, f, u, t : c = p.calls /\ f = p.faults /\ u = p.unattended /\ t = p.tried
  OBVIOUS
<1> PICK d0, l0 : d0 = p.did /\ l0 = p.lost
  OBVIOUS
<1>1. p = [calls |-> c, faults |-> f, did |-> d0, lost |-> l0, unattended |-> u, tried |-> t]
  BY DEF Pasts
<1> PICK p1 : p1 = [p EXCEPT !.did = d]
  OBVIOUS
<1>2. p1 = [calls |-> c, faults |-> f, did |-> d, lost |-> l0, unattended |-> u, tried |-> t]
  BY <1>1
<1> PICK p2 : p2 = [p1 EXCEPT !.lost = l]
  OBVIOUS
<1>3. p2 = [calls |-> c, faults |-> f, did |-> d, lost |-> l, unattended |-> u, tried |-> t]
  BY <1>2
<1>4. Counting(p, d, l) = p2
  BY Zenon DEF Counting
<1> QED
  BY <1>3, <1>4, Zenon

(* A dispatch performs at most one action, and one that may be repeated     *)
(* none; what it did is held, lost or owed.                                 *)
LEMMA DispatchKeeps ==
    ASSUME ServerInv, Dispatch
    PROVE  ServerInv'
<1> PICK o \in Outcomes(request.tool) : Dispatched(o)
  BY DEF Dispatch, Dispatched
<1> PICK asked, result, did, at, lost :
      /\ asked = request.tool /\ result = o.result /\ did = o.did
      /\ at = (IF Again(o) THEN "dispatch" ELSE "judge")
      /\ lost = (CASE RunsSkill(o) -> skillDelta
                   [] o.result = "transport" -> o.did
                   [] OTHER -> 0)
  OBVIOUS
<1>1. /\ did \in {0, 1}
      /\ result \in {"ok", "approval", "declined", "failed", "transport", "closed"}
      /\ did = 1 => asked \in {"act", "skill"}
      /\ asked = "act" /\ result = "ok" => did = 1
      /\ asked = "act" /\ result \notin {"ok", "transport"} => did = 0
      /\ RunsSkill(o) => asked = "skill" /\ result \in {"ok", "failed"}
      /\ asked = "skill" /\ ~RunsSkill(o) => did = 0
  <2>1. CASE ~chrome.tab
    <3>1. \/ did = 0 /\ result \in {"transport", "closed"} /\ ~RunsSkill(o)
          \/ asked = "skill" /\ result \in {"ok", "failed"} /\ did = 0 /\ RunsSkill(o)
      BY <2>1 DEF Outcomes, RunsSkill
    <3> QED
      BY <3>1
  <2>2. CASE chrome.tab
    <3>1. \/ did = 0 /\ result \in {"approval", "declined", "failed"} /\ ~RunsSkill(o)
          \/ asked = "act" /\ result \in {"ok", "transport"} /\ did = 1 /\ ~RunsSkill(o)
          \/ asked = "skill" /\ result \in {"ok", "failed"} /\ did \in 0..1 /\ RunsSkill(o)
          \/ asked \notin {"act", "skill"} /\ result = "ok" /\ did = 0 /\ ~RunsSkill(o)
      BY <2>2 DEF Outcomes, RunsSkill
    <3> QED
      BY <3>1
  <2> QED
    BY <2>1, <2>2
<1>2. request \in Requests /\ request.at = "dispatch" /\ request.effects = 0
  BY DEF Dispatch, ServerInv, ServerTypeOK, DoneOnce
<1>3. request' = [tool |-> asked, at |-> at, tries |-> 1, effects |-> did, result |-> result]
  <2>1. request' = Closing(request, at, did, result)
    BY DEF Dispatched, Closing
  <2>2. did \in Nat
    BY <1>1
  <2> QED
    BY <1>2, <2>1, <2>2, RequestSet
<1>4. at \in {"dispatch", "judge"} /\ (at = "dispatch" => did = 0)
  BY <1>1, <1>2 DEF Again, IsRetrySafe
<1>5. DoneOnce'
  <2>1. request'.effects = did /\ request'.at = at
    BY <1>3
  <2> QED
    BY <1>1, <1>4, <2>1 DEF DoneOnce
<1>6. UNCHANGED <<plan, chrome, aliveSkips, attempts, clock, meters>>
  BY DEF Dispatch
<1>7. lost \in Nat /\ skillDelta \in Nat /\ skillDelta' \in Nat
  BY <1>1 DEF ServerInv, ServerTypeOK, Dispatched
<1>8. /\ serverPast' \in Pasts
      /\ serverPast'.did = serverPast.did + did /\ serverPast'.lost = serverPast.lost + lost
      /\ serverPast'.tried = serverPast.tried /\ serverPast'.unattended = serverPast.unattended
  <2> PICK d, l : d = serverPast.did + did /\ l = serverPast.lost + lost
    OBVIOUS
  <2>1. serverPast' = Counting(serverPast, d, l)
    BY DEF Dispatched, Counting
  <2>2. serverPast \in Pasts /\ did \in Nat
    BY <1>1 DEF ServerInv, ServerTypeOK
  <2>3. serverPast' = [calls |-> serverPast.calls, faults |-> serverPast.faults,
                       did |-> d, lost |-> l,
                       unattended |-> serverPast.unattended, tried |-> serverPast.tried]
    BY <2>1, <2>2, PastSet
  <2>5. serverPast.did \in Nat /\ serverPast.lost \in Nat
    BY <2>2 DEF Pasts
  <2>4. d \in Nat /\ l \in Nat
    BY <1>7, <2>2, <2>5
  <2> QED
    BY <2>2, <2>3, <2>4 DEF Pasts
<1>9. ServerTypeOK'
  <2>1. request' \in Requests /\ request'.at # "idle"
    BY <1>1, <1>2, <1>3, <1>4 DEF Requests
  <2> QED
    BY <1>6, <1>7, <1>8, <2>1 DEF ServerInv, ServerTypeOK, Requests, Idle, Chromes, Pasts
<1>10. HistoryIsRecent'
  BY <1>6, <1>8, HistoryKept DEF ServerInv, ServerTypeOK
<1>11. skillDelta' + lost + Owed' = skillDelta + did /\ Owed = 0
  <2>1. CASE RunsSkill(o)
    <3>1. skillDelta' = did /\ lost = skillDelta
      BY <1>1, <2>1 DEF Dispatched
    <3>2. Owed' = 0
      BY <1>1, <1>3, <2>1 DEF Owed
    <3> QED
      BY <1>1, <1>2, <1>7, <3>1, <3>2 DEF Owed
  <2>2. CASE ~RunsSkill(o)
    <3>1. skillDelta' = skillDelta /\ lost = IF result = "transport" THEN did ELSE 0
      BY <2>2 DEF Dispatched
    <3>2. CASE asked = "act" /\ result = "ok"
      <4>1. Owed' = 1
        <5>1. at = "judge"
          BY <3>2 DEF Again, IsRetrySafe
        <5> QED
          BY <1>3, <3>2, <5>1 DEF Owed
      <4> QED
        BY <1>1, <1>2, <1>7, <3>1, <3>2, <4>1 DEF Owed
    <3>3. CASE ~(asked = "act" /\ result = "ok")
      <4>1. Owed' = 0
        BY <1>3, <3>3 DEF Owed
      <4>2. result # "transport" => did = 0
        BY <1>1, <2>2, <3>3
      <4> QED
        BY <1>1, <1>2, <1>7, <3>1, <4>1, <4>2 DEF Owed
    <3> QED
      BY <3>2, <3>3
  <2> QED
    BY <2>1, <2>2
<1>12. MetersBalance'
  <2>1. meters.actions \in Nat /\ serverPast.lost \in Nat /\ serverPast.did \in Nat
        /\ Owed' \in Nat
    <3>1. meters \in [MeterNames -> Nat] /\ serverPast \in Pasts
      BY DEF ServerInv, ServerTypeOK
    <3>2. Owed' \in {0, 1}
      BY DEF Owed
    <3> QED
      BY <3>1, <3>2 DEF MeterNames, Pasts
  <2>2. meters.actions + skillDelta + serverPast.lost + 0 = serverPast.did
    BY <1>11 DEF ServerInv, MetersBalance
  <2>3. meters'.actions + skillDelta' + serverPast'.lost + Owed' = serverPast'.did
    BY <1>1, <1>6, <1>7, <1>8, <1>11, <2>1, <2>2
  <2> QED
    BY <2>3 DEF MetersBalance
<1> QED
  BY <1>5, <1>6, <1>8, <1>9, <1>10, <1>12 DEF ServerInv

(* A call that ends as a disconnect owes nothing, and leaves the counts of   *)
(* what was done alone.                                                      *)
LEMMA JudgedKeeps ==
    ASSUME ServerInv, Disconnected \/ request.at = "restart", request.at # "idle",
           UNCHANGED <<plan, chrome, attempts, clock, meters, skillDelta>>,
           NEW n \in Nat, Unattended(n), n <= aliveSkips', aliveSkips' \in 0..MaxAliveSkips,
           request' = Idle \/ (request' = [request EXCEPT !.at = "restart"])
    PROVE  ServerInv'
<1>1. serverPast \in Pasts /\ request \in Requests /\ meters \in [MeterNames -> Nat]
  BY DEF ServerInv, ServerTypeOK
<1>2. /\ serverPast' \in Pasts
      /\ serverPast'.tried = serverPast.tried /\ serverPast'.unattended = n
      /\ serverPast'.did = serverPast.did /\ serverPast'.lost = serverPast.lost
  BY <1>1, PastMoves DEF Unattended
<1>3. /\ request' \in Requests /\ (request'.at = "idle" => request' = Idle)
      /\ request'.at \in {"idle", "restart"} /\ request'.effects <= 1
  <2>1. CASE request' = Idle
    BY <2>1 DEF Idle, Requests
  <2>2. CASE request' = [request EXCEPT !.at = "restart"]
    BY <1>1, <2>2 DEF Requests, ServerInv, DoneOnce
  <2> QED
    BY <2>1, <2>2
<1>4. Owed = 0 /\ Owed' = 0
  BY <1>3 DEF Owed, Disconnected
<1>5. HistoryIsRecent'
  BY <1>2, HistoryKept DEF ServerInv, ServerTypeOK
<1>6. ServerTypeOK'
  BY <1>2, <1>3 DEF ServerInv, ServerTypeOK, Requests, Idle, Chromes, Pasts
<1> QED
  BY <1>2, <1>3, <1>4, <1>5, <1>6 DEF ServerInv, DoneOnce, MetersBalance

(* A disconnect that is put off is counted.                                 *)
LEMMA SkipKeeps ==
    ASSUME ServerInv, SkipRestart
    PROVE  ServerInv'
<1> PICK n : n = IF chrome.answers THEN 0 ELSE serverPast.unattended + 1
  OBVIOUS
<1>1. Unattended(n) /\ request' = Idle /\ Disconnected /\ request.at # "idle"
      /\ UNCHANGED <<plan, chrome, attempts, clock, meters, skillDelta>>
  BY DEF SkipRestart
<1>2. aliveSkips' = aliveSkips + 1 /\ aliveSkips < MaxAliveSkips
  BY DEF SkipRestart, Skips
<1>3. aliveSkips \in 0..MaxAliveSkips /\ serverPast.unattended <= aliveSkips
      /\ serverPast \in Pasts /\ MaxAliveSkips \in Nat
  BY ServerAssumption DEF ServerInv, ServerTypeOK, ServerAssumption
<1>4. n \in Nat /\ n <= aliveSkips' /\ aliveSkips' \in 0..MaxAliveSkips
  BY <1>2, <1>3 DEF Pasts
<1> QED
  BY <1>1, <1>4, JudgedKeeps

(* Asking the browser begins the count anew.                                *)
LEMMA ConfirmKeeps ==
    ASSUME ServerInv, Confirm
    PROVE  ServerInv'
<1>1. /\ Unattended(0) /\ aliveSkips' = 0 /\ Disconnected /\ request.at # "idle"
      /\ request' = Idle \/ request' = [request EXCEPT !.at = "restart"]
      /\ UNCHANGED <<plan, chrome, attempts, clock, meters, skillDelta>>
  BY DEF Confirm
<1>2. 0 \in Nat /\ 0 <= aliveSkips' /\ aliveSkips' \in 0..MaxAliveSkips
  BY <1>1, ServerAssumption DEF ServerAssumption
<1> QED
  BY <1>1, <1>2, JudgedKeeps

(* A history h ends a sequence of relaunches and forgot only old ones.       *)
Ends(h, tried, now) ==
    /\ Len(tried) - Len(h) \in Nat
    /\ \A i \in 1..Len(h) : h[i] = tried[Len(tried) - Len(h) + i]
    /\ \A i \in 1..(Len(tried) - Len(h)) : now - tried[i] > RestartWindow

(* It still does when old ones are popped from its front.                    *)
LEMMA EndsPopped ==
    ASSUME NEW h \in Seq(Nat), NEW tried \in Seq(Nat), NEW now \in Nat, Ends(h, tried, now),
           NEW recent \in Seq(Nat), NEW k \in 0..Len(h),
           Len(recent) = Len(h) - k,
           \A i \in 1..Len(recent) : recent[i] = h[k + i],
           \A i \in 1..k : now - h[i] > RestartWindow
    PROVE  Ends(recent, tried, now)
<1> PICK a, b, c, n : a = Len(tried) /\ b = Len(h) /\ c = Len(recent) /\ n = a - b
  OBVIOUS
<1>1. a \in Nat /\ b \in Nat /\ c \in Nat /\ n \in Nat /\ k \in 0..b /\ c = b - k
      /\ a - c = n + k /\ n + k \in Nat
  BY DEF Ends
<1>2. /\ \A i \in 1..b : h[i] = tried[n + i]
      /\ \A i \in 1..n : now - tried[i] > RestartWindow
      /\ \A i \in 1..c : recent[i] = h[k + i]
      /\ \A i \in 1..k : now - h[i] > RestartWindow
  BY DEF Ends
<1>3. ASSUME NEW i \in 1..c
      PROVE  recent[i] = tried[n + k + i]
  <2>1. k + i \in 1..b /\ n + (k + i) = n + k + i
    BY <1>1
  <2> QED
    BY <1>2, <2>1
<1>4. ASSUME NEW i \in 1..(n + k)
      PROVE  now - tried[i] > RestartWindow
  <2>1. CASE i <= n
    <3>1. i \in 1..n
      BY <1>1, <2>1
    <3> QED
      BY <1>2, <3>1
  <2>2. CASE ~(i <= n)
    <3> PICK j : j = i - n
      OBVIOUS
    <3>1. j \in 1..k /\ n + j = i
      BY ONLY <1>1, <1>4, <2>2, j = i - n
    <3>2. j \in 1..b
      BY ONLY <1>1, <3>1
    <3> QED
      BY <1>2, <3>1, <3>2
  <2> QED
    BY <2>1, <2>2
<1> QED
  BY <1>1, <1>3, <1>4 DEF Ends

(* And when one more is tried.                                               *)
LEMMA EndsAppended ==
    ASSUME NEW h \in Seq(Nat), NEW tried \in Seq(Nat), NEW now \in Nat, Ends(h, tried, now)
    PROVE  /\ Append(h, now) \in Seq(Nat) /\ Append(tried, now) \in Seq(Nat)
           /\ Len(Append(h, now)) = Len(h) + 1
           /\ Ends(Append(h, now), Append(tried, now), now)
<1> PICK a, b, n : a = Len(tried) /\ b = Len(h) /\ n = a - b
  OBVIOUS
<1>1. a \in Nat /\ b \in Nat /\ n \in Nat /\ (a + 1) - (b + 1) = n /\ a = n + b
  BY DEF Ends
<1>2. /\ \A i \in 1..b : h[i] = tried[n + i]
      /\ \A i \in 1..n : now - tried[i] > RestartWindow
  BY DEF Ends
<1> PICK later, all : later = Append(h, now) /\ all = Append(tried, now)
  OBVIOUS
<1>3. later \in Seq(Nat) /\ Len(later) = b + 1 /\ later[b + 1] = now
      /\ \A i \in 1..b : later[i] = h[i]
  OBVIOUS
<1>4. all \in Seq(Nat) /\ Len(all) = a + 1 /\ all[a + 1] = now
      /\ \A i \in 1..a : all[i] = tried[i]
  OBVIOUS
<1>5. ASSUME NEW i \in 1..(b + 1)
      PROVE  later[i] = all[n + i]
  <2>1. CASE i <= b
    <3>1. i \in 1..b /\ n + i \in 1..a
      BY <1>1, <2>1
    <3> QED
      BY <1>2, <1>3, <1>4, <3>1
  <2>2. CASE ~(i <= b)
    <3>1. i = b + 1
      BY <1>1, <2>2
    <3>2. n + i = a + 1
      BY <1>1, <3>1
    <3> QED
      BY <1>3, <1>4, <3>1, <3>2
  <2> QED
    BY <2>1, <2>2
<1>6. ASSUME NEW i \in 1..n
      PROVE  now - all[i] > RestartWindow
  <2>1. i \in 1..a
    BY <1>1
  <2> QED
    BY <1>2, <1>4, <2>1
<1>7. Ends(later, all, now)
  <2>1. Len(all) - Len(later) = n /\ Len(later) = b + 1
    BY <1>1, <1>3, <1>4
  <2> QED
    BY <1>1, <1>5, <1>6, <2>1 DEF Ends
<1> QED
  BY <1>3, <1>4, <1>7

(* A relaunch that is tried is remembered, and one more is tried only while  *)
(* fewer than RestartMax are recent.                                         *)
LEMMA RestartKeeps ==
    ASSUME ServerInv, RestartBrowser
    PROVE  ServerInv'
<1> PICK h, recent, tried, now :
      h = attempts /\ recent = Recent /\ tried = serverPast.tried /\ now = clock
  OBVIOUS
<1>1. /\ request.at = "restart" /\ request' = Idle
      /\ UNCHANGED <<plan, aliveSkips, clock, meters, skillDelta>>
  BY DEF RestartBrowser
<1>2. /\ recent \in Seq(Nat) /\ h \in Seq(Nat) /\ tried \in Seq(Nat) /\ now \in Nat
      /\ serverPast \in Pasts /\ RestartMax \in Nat /\ Len(h) <= RestartMax
  BY RecentIs, ServerAssumption
     DEF ServerInv, ServerTypeOK, Pasts, ServerAssumption, HistoryIsRecent
<1>3. Ends(h, tried, now)
  BY DEF ServerInv, HistoryIsRecent, Ends
<1>4. Ends(recent, tried, now) /\ Len(recent) <= RestartMax
  <2> PICK k \in 0..Len(h) : /\ Len(recent) = Len(h) - k
                             /\ \A i \in 1..Len(recent) : recent[i] = h[k + i]
                             /\ \A i \in 1..k : now - h[i] > RestartWindow
    BY RecentIs DEF ServerInv
  <2>1. Ends(recent, tried, now)
    BY <1>2, <1>3, EndsPopped
  <2> PICK b : b = Len(h)
    OBVIOUS
  <2>2. b \in Nat /\ k \in 0..b /\ Len(recent) = b - k
    BY <1>2
  <2> QED
    BY <1>2, <2>1, <2>2
<1>5. /\ request'.at = "idle" /\ request'.effects = 0 /\ request' \in Requests
      /\ Owed = 0 /\ Owed' = 0
  BY <1>1 DEF Idle, Requests, Owed
<1>6. CASE attempts' = Recent /\ UNCHANGED <<chrome, serverPast>>
  <2>1. attempts' = recent /\ serverPast'.tried = tried /\ clock' = now
    BY <1>1, <1>6
  <2>2. HistoryIsRecent'
    BY <1>4, <2>1 DEF HistoryIsRecent, Ends
  <2>3. ServerTypeOK'
    BY <1>1, <1>2, <1>5, <1>6 DEF ServerInv, ServerTypeOK, Requests, Idle, Chromes, Pasts
  <2> QED
    BY <1>1, <1>5, <1>6, <2>2, <2>3 DEF ServerInv, DoneOnce, MetersBalance
<1>7. CASE /\ Len(Recent) < RestartMax
           /\ \E next \in {Healthy, [Healthy EXCEPT !.tab = FALSE], chrome} :
                 /\ chrome' = next
                 /\ attempts' = Counted(next = Healthy)
           /\ serverPast' = [serverPast EXCEPT !.tried = Append(@, clock)]
  <2> PICK later, all : later = Append(recent, now) /\ all = Append(tried, now)
    OBVIOUS
  <2>1. attempts' = later /\ Len(recent) < RestartMax
    BY <1>7 DEF Counted
  <2>2. chrome' \in Chromes
    <3>1. Healthy \in Chromes /\ [Healthy EXCEPT !.tab = FALSE] \in Chromes
      BY DEF Healthy, Chromes
    <3>2. chrome \in Chromes
      BY DEF ServerInv, ServerTypeOK
    <3> QED
      BY <1>7, <3>1, <3>2
  <2>3. /\ later \in Seq(Nat) /\ all \in Seq(Nat) /\ Len(later) = Len(recent) + 1
        /\ Ends(later, all, now)
    BY <1>2, <1>4, EndsAppended
  <2>4. serverPast' = [serverPast EXCEPT !.tried = all]
    BY <1>7
  <2>5. /\ serverPast' \in Pasts /\ serverPast'.tried = all
        /\ serverPast'.unattended = serverPast.unattended
        /\ serverPast'.did = serverPast.did /\ serverPast'.lost = serverPast.lost
    BY <1>2, <2>3, <2>4 DEF Pasts
  <2>6. Len(later) <= RestartMax
    <3>1. Len(recent) \in Nat
      BY <1>2
    <3> QED
      BY <1>2, <2>1, <2>3, <3>1
  <2>7. clock' = now
    BY <1>1
  <2>8. HistoryIsRecent'
    <3>1. Len(attempts') <= RestartMax
      BY <2>1, <2>6
    <3>2. /\ Len(serverPast'.tried) - Len(attempts') \in Nat
          /\ \A i \in 1..Len(attempts') :
                attempts'[i] = serverPast'.tried[(Len(serverPast'.tried) - Len(attempts')) + i]
          /\ \A i \in 1..(Len(serverPast'.tried) - Len(attempts')) :
                now - serverPast'.tried[i] > RestartWindow
      <4>1. attempts' = later /\ serverPast'.tried = all /\ Ends(later, all, now)
        BY <2>1, <2>3, <2>5
      <4> QED BY ONLY <4>1 DEF Ends
    <3> QED BY <2>7, <3>1, <3>2, Zenon DEF HistoryIsRecent
  <2>9. ServerTypeOK'
    BY <1>1, <1>2, <1>5, <2>1, <2>2, <2>3, <2>5
       DEF ServerInv, ServerTypeOK, Requests, Idle, Chromes, Pasts
  <2> QED
    BY <1>1, <1>5, <2>5, <2>8, <2>9 DEF ServerInv, DoneOnce, MetersBalance
<1> QED
  BY <1>6, <1>7 DEF RestartBrowser

(* Recording adds what it counts.                                            *)
LEMMA BumpAdds ==
    ASSUME meters \in [MeterNames -> Nat], NEW names, NEW n \in Nat
    PROVE  /\ Bump(names, n) \in [MeterNames -> Nat]
           /\ \A m \in MeterNames : meters[m] <= Bump(names, n)[m]
           /\ Bump(names, n).actions = meters.actions + IF "actions" \in names THEN n ELSE 0
<1>1. \A m \in MeterNames : /\ Bump(names, n)[m] = meters[m] + IF m \in names THEN n ELSE 0
                            /\ Bump(names, n)[m] \in Nat
                            /\ meters[m] <= Bump(names, n)[m]
  BY DEF Bump
<1>2. Bump(names, n) = [m \in MeterNames |-> Bump(names, n)[m]]
  BY DEF Bump
<1>3. "actions" \in MeterNames
  BY DEF MeterNames
<1> QED
  BY <1>1, <1>2, <1>3

(* A finished call is metered for what it did.                               *)
LEMMA UsageIs ==
    ASSUME ServerInv, NEW asked, NEW result, NEW hit
    PROVE  /\ RecordUsage(asked, result, hit) \in [MeterNames -> Nat]
           /\ \A m \in MeterNames : meters[m] <= RecordUsage(asked, result, hit)[m]
           /\ RecordUsage(asked, result, hit).actions = meters.actions +
                IF result = "ok" /\ asked = "act" THEN 1
                ELSE IF result \in {"ok", "declined"} /\ asked = "skill" THEN skillDelta ELSE 0
<1> PICK used : used = RecordUsage(asked, result, hit)
  OBVIOUS
<1>0. meters \in [MeterNames -> Nat] /\ skillDelta \in Nat /\ meters.actions \in Nat
  BY DEF ServerInv, ServerTypeOK, MeterNames
<1>1. CASE result = "ok" /\ asked = "act"
  <2>1. used = Bump({"actions"}, 1)
    BY <1>1 DEF RecordUsage
  <2> QED
    BY <1>0, <1>1, <2>1, BumpAdds
<1>2. CASE result \in {"ok", "declined"} /\ asked = "skill"
  <2>1. used = Bump({"actions"}, skillDelta)
    BY <1>2 DEF RecordUsage
  <2> QED
    BY <1>0, <1>2, <2>1, BumpAdds
<1>3. CASE ~(result = "ok" /\ asked = "act") /\ ~(result \in {"ok", "declined"} /\ asked = "skill")
  <2>1. \/ used = meters
        \/ \E names \in {{"hitl"}, {"delta"}, {"speculative"}, {"fast", "full"}, {"visual"}} :
              used = Bump(names, 1)
    BY <1>3 DEF RecordUsage
  <2>2. CASE used = meters
    BY <1>0, <1>3, <2>2
  <2>3. CASE \E names \in {{"hitl"}, {"delta"}, {"speculative"}, {"fast", "full"}, {"visual"}} :
                used = Bump(names, 1)
    <3> PICK names : used = Bump(names, 1) /\ "actions" \notin names
      BY <2>3
    <3> QED
      BY <1>0, <1>3, BumpAdds
  <2> QED
    BY <2>1, <2>2, <2>3
<1> QED
  BY <1>1, <1>2, <1>3

(* A call that ends without a disconnect pays what it owes.                 *)
LEMMA FinishKeeps ==
    ASSUME ServerInv, NEW hit \in BOOLEAN, Finish(hit)
    PROVE  ServerInv' /\ \A m \in MeterNames : meters[m] <= meters'[m]
<1> PICK asked, result : asked = request.tool /\ result = request.result
  OBVIOUS
<1>0. /\ request.at = "judge" /\ result \notin {"transport", "closed"}
      /\ request' = Idle /\ Unattended(0)
      /\ UNCHANGED <<plan, chrome, attempts, clock>>
      /\ aliveSkips' = IF result = "failed" THEN aliveSkips ELSE 0
  BY DEF Finish, Disconnected
<1>1. /\ serverPast \in Pasts /\ meters \in [MeterNames -> Nat] /\ skillDelta \in Nat
      /\ aliveSkips \in 0..MaxAliveSkips /\ meters.actions \in Nat
      /\ serverPast.lost \in Nat /\ serverPast.did \in Nat
  BY DEF ServerInv, ServerTypeOK, MeterNames, Pasts
<1>2. /\ serverPast' \in Pasts
      /\ serverPast'.tried = serverPast.tried /\ serverPast'.unattended = 0
      /\ serverPast'.did = serverPast.did /\ serverPast'.lost = serverPast.lost
  <2> PICK z : z = 0
    OBVIOUS
  <2>1. serverPast' = [serverPast EXCEPT !.unattended = z] /\ z \in Nat
    BY <1>0 DEF Unattended
  <2> QED
    BY <1>1, <2>1, PastMoves
<1> PICK used : used = RecordUsage(asked, result, hit)
  OBVIOUS
<1>3. /\ used \in [MeterNames -> Nat] /\ \A m \in MeterNames : meters[m] <= used[m]
      /\ used.actions = meters.actions +
            IF result = "ok" /\ asked = "act" THEN 1
            ELSE IF result \in {"ok", "declined"} /\ asked = "skill" THEN skillDelta ELSE 0
  BY UsageIs
<1>4. meters' = (IF result = "failed" THEN meters ELSE used)
      /\ skillDelta' = (IF asked = "skill" /\ result \in {"ok", "declined"} THEN 0 ELSE skillDelta)
  BY DEF Finish
<1>5. meters' \in [MeterNames -> Nat] /\ \A m \in MeterNames : meters[m] <= meters'[m]
  BY <1>1, <1>3, <1>4
<1>6. aliveSkips' \in 0..MaxAliveSkips /\ 0 <= aliveSkips' /\ skillDelta' \in Nat
  BY <1>0, <1>1, <1>4, ServerAssumption DEF ServerAssumption
<1>7. request' \in Requests /\ request'.at = "idle" /\ request'.effects = 0 /\ Owed' = 0
  BY <1>0 DEF Idle, Requests, Owed
<1>8. Owed = IF asked = "act" /\ result = "ok" THEN 1 ELSE 0
  BY <1>0 DEF Owed
<1>9. meters'.actions + skillDelta' = meters.actions + skillDelta + Owed
  BY <1>1, <1>3, <1>4, <1>8
<1>10. meters'.actions \in Nat /\ Owed \in Nat
  BY <1>5, <1>8 DEF MeterNames
<1>11. MetersBalance'
  <2>1. meters.actions + skillDelta + serverPast.lost + Owed = serverPast.did
    BY DEF ServerInv, MetersBalance
  <2>2. meters'.actions + skillDelta' + serverPast'.lost + Owed' = serverPast'.did
    BY <1>1, <1>2, <1>6, <1>7, <1>9, <1>10, <2>1
  <2> QED
    BY <2>2 DEF MetersBalance
<1>12. HistoryIsRecent'
  BY <1>0, <1>2, HistoryKept DEF ServerInv, ServerTypeOK
<1>13. ServerTypeOK'
  BY <1>0, <1>2, <1>5, <1>6, <1>7 DEF ServerInv, ServerTypeOK, Requests, Idle, Chromes, Pasts
<1> QED
  BY <1>2, <1>5, <1>6, <1>7, <1>11, <1>12, <1>13 DEF ServerInv, DoneOnce

(* Time only makes relaunches older.                                        *)
LEMMA TickKeeps ==
    ASSUME ServerInv, Tick
    PROVE  ServerInv'
<1>1. /\ clock' = clock + 1 /\ clock \in Nat
      /\ UNCHANGED <<plan, chrome, request, aliveSkips, attempts, meters, skillDelta, serverPast>>
  BY DEF Tick, ServerInv, ServerTypeOK
<1>2. clock' \in Nat /\ clock <= clock'
  BY <1>1
<1>3. HistoryIsRecent'
  BY <1>1, <1>2, HistoryKept
<1>4. ServerTypeOK'
  BY <1>1, <1>2 DEF ServerInv, ServerTypeOK, Requests, Idle, Chromes, Pasts
<1> QED
  BY <1>1, <1>3, <1>4 DEF ServerInv, DoneOnce, MetersBalance, Owed

(* The invariant of the server holds after every step.                      *)
LEMMA ServerInvStep ==
    ASSUME ServerInv, [ServerNext]_serverVars
    PROVE  ServerInv'
<1>1. CASE UNCHANGED serverVars
  BY <1>1 DEF serverVars, ServerInv, ServerTypeOK, Requests, Idle, Chromes, Pasts, DoneOnce,
     MetersBalance, Owed, HistoryIsRecent
<1>2. chrome \in Chromes
  BY DEF ServerInv, ServerTypeOK
<1>3. CASE ChromeCrashes
  <2>1. \A p \in {"dead", "reused"} : [process |-> p, answers |-> FALSE, tab |-> FALSE] \in Chromes
    BY DEF Chromes
  <2> QED
    BY <1>3, <2>1, FaultKeeps DEF ChromeCrashes
<1>4. CASE ChromeHangs
  <2>1. [chrome EXCEPT !.answers = FALSE, !.tab = FALSE] \in Chromes
    BY <1>2 DEF Chromes
  <2> QED
    BY <1>4, <2>1, FaultKeeps DEF ChromeHangs
<1>5. CASE TabBreaks
  <2>1. [chrome EXCEPT !.tab = FALSE] \in Chromes
    BY <1>2 DEF Chromes
  <2> QED
    BY <1>5, <2>1, FaultKeeps DEF TabBreaks
<1>6. CASE Recovers
  <2>1. Healthy \in Chromes
    BY DEF Healthy, Chromes
  <2> QED
    BY <1>6, <2>1, FaultKeeps DEF Recovers
<1> QED
  BY <1>1, <1>3, <1>4, <1>5, <1>6, CallKeeps, DispatchKeeps, SkipKeeps, ConfirmKeeps,
     RestartKeeps, FinishKeeps, TickKeeps DEF ServerNext, ServerSteps

(* What the invariant says of a recovery.                                    *)
LEMMA ServerInvTells ==
    ASSUME ServerInv
    PROVE  ActsOnce /\ SilentBrowserIsAttended /\ RestartsAreLimited /\ ActionsAreMetered
<1>1. ActsOnce
  BY DEF ServerInv, DoneOnce, ActsOnce
<1>2. SilentBrowserIsAttended
  <2>1. /\ aliveSkips \in 0..MaxAliveSkips /\ serverPast.unattended <= aliveSkips
        /\ serverPast.unattended \in Nat /\ MaxAliveSkips \in Nat
    BY ServerAssumption DEF ServerInv, ServerTypeOK, Pasts, ServerAssumption
  <2> QED
    BY <2>1 DEF SilentBrowserIsAttended
<1>3. ActionsAreMetered
  <2>1. request = Idle => Owed = 0
    BY DEF Owed, Idle
  <2>2. meters.actions \in Nat /\ skillDelta \in Nat /\ serverPast.lost \in Nat
    BY DEF ServerInv, ServerTypeOK, MeterNames, Pasts
  <2> QED
    BY <2>1, <2>2 DEF ServerInv, MetersBalance, ActionsAreMetered
<1>4. RestartsAreLimited
  <2> PICK tried, a, b, n : tried = serverPast.tried /\ a = Len(tried) /\ b = Len(attempts)
                            /\ n = a - b
    OBVIOUS
  <2>1. tried \in Seq(Nat) /\ a \in Nat /\ b \in Nat /\ n \in Nat /\ b <= RestartMax
        /\ RestartMax \in Nat /\ DOMAIN tried = 1..a
    BY ServerAssumption DEF ServerInv, ServerTypeOK, Pasts, HistoryIsRecent, ServerAssumption
  <2>2. \A i \in 1..n : clock - tried[i] > RestartWindow
    BY DEF ServerInv, HistoryIsRecent
  <2> PICK S : S = {i \in DOMAIN tried : clock - tried[i] <= RestartWindow}
    OBVIOUS
  <2>3. S \subseteq (n + 1)..a
    <3> SUFFICES ASSUME NEW i \in S PROVE i \in (n + 1)..a
      OBVIOUS
    <3>1. i \in 1..a /\ clock - tried[i] <= RestartWindow
      BY <2>1
    <3>2. i \notin 1..n
      <4> PICK t : t = tried[i]
        OBVIOUS
      <4>1. t \in Nat /\ clock \in Nat /\ RestartWindow \in Nat
        BY <2>1, <3>1, ServerAssumption DEF ServerInv, ServerTypeOK, ServerAssumption
      <4>2. ~(clock - t > RestartWindow)
        BY <3>1, <4>1
      <4> QED
        BY <2>2, <4>2
    <3> QED
      BY <2>1, <3>1, <3>2
  <2>4. IsFiniteSet((n + 1)..a) /\ Cardinality((n + 1)..a) <= b
    <3>1. n + 1 \in Int /\ a \in Int
      BY <2>1
    <3>2. IsFiniteSet((n + 1)..a)
          /\ Cardinality((n + 1)..a) = IF n + 1 > a THEN 0 ELSE a - (n + 1) + 1
      BY <3>1, FS_Interval
    <3> QED
      BY <2>1, <3>2
  <2>5. Cardinality(S) <= Cardinality((n + 1)..a) /\ Cardinality(S) \in Nat
        /\ Cardinality((n + 1)..a) \in Nat
    BY <2>3, <2>4, FS_Subset, FS_CardinalityType
  <2>6. Cardinality(S) <= RestartMax
    BY <2>1, <2>4, <2>5
  <2> QED
    BY <2>6 DEF RestartsAreLimited
<1> QED
  BY <1>1, <1>2, <1>3, <1>4

(* No step makes a meter go back, so none makes the price fall.              *)
LEMMA PriceGrows ==
    ASSUME ServerInv, ServerInv', [ServerNext]_serverVars
    PROVE  [meters' # meters => Total(meters') >= Total(meters)]_serverVars
<1>1. meters \in [MeterNames -> Nat] /\ meters' \in [MeterNames -> Nat] /\ plan \in 1..3
  BY DEF ServerInv, ServerTypeOK
<1>2. meters' = meters \/ \E hit \in BOOLEAN : Finish(hit)
  BY DEF ServerNext, ServerSteps, serverVars, ChromeCrashes, ChromeHangs, TabBreaks, Recovers,
     Fault, Tick, CallTool, Dispatch, SkipRestart, Confirm, RestartBrowser
<1>3. \A m \in MeterNames : meters[m] <= meters'[m]
  BY <1>1, <1>2, FinishKeeps
<1> PICK more : more = meters'
  OBVIOUS
<1>4. Total(more) >= Total(meters)
  BY <1>1, <1>3, TotalGrows
<1> QED
  BY <1>4

(* For every plan, limit and fault of the browser: an act is performed once, *)
(* a silent browser is attended to, relaunches are limited in every window,  *)
(* actions are metered and the price never falls.                            *)
THEOREM RecoveryHolds == ServerSpec => RecoveryIsSafe
<1> QED
  BY ServerInvInit, ServerInvStep, ServerInvTells, PriceGrows, PTL
     DEF ServerSpec, RecoveryIsSafe, PriceNeverFalls
=============================================================================
