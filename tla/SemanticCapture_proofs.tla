----------------------- MODULE SemanticCapture_proofs -----------------------
(***************************************************************************)
(* Capture by parts loses nothing: proofs for every page, every limit of   *)
(* dirty paths and any order of changes, events, captures and errors.      *)
(***************************************************************************)
EXTENDS SemanticCapture, FiniteSetTheorems, FunctionTheorems, SequenceTheorems,
        WellFoundedInduction, TLAPS

(* A set of naturals that is not empty has a least member.                  *)
LEMMA LeastOf ==
    ASSUME NEW T \in SUBSET Nat, T # {}
    PROVE  \E x \in T : \A y \in T : x <= y
<1>1. IsWellFoundedOn(OpToRel(<, Nat), Nat)
  BY NatLessThanWellFounded
<1>2. PICK x \in T : \A y \in T : ~ (<<y, x>> \in OpToRel(<, Nat))
  BY <1>1, WFMin, Zenon
<1>3. \A y \in T : ~ (y < x)
  BY <1>2 DEF OpToRel
<1> QED BY <1>3

-----------------------------------------------------------------------------
(* A captured tree and the page it was taken of.                            *)

PathsTo(f, m) ==
    f = [e \in 0 .. m |-> IF e = 0 THEN <<>> ELSE Append(f[Parent[e]], Tag[e])]

(* An element comes after its parent.                                       *)
LEMMA Parents ==
    /\ Len(Parent) \in Nat /\ Len(Parent) > 0 /\ Elements = 1 .. Len(Parent)
    /\ \A e \in 1 .. Len(Parent) : Parent[e] \in Nat /\ Parent[e] \in 0 .. e - 1
    /\ \A e \in 1 .. Len(Parent) : Parent[e] = 0 <=> e = 1
<1>1. Parent \in Seq(Nat) /\ Parent # <<>>
  BY PageAssumption DEF PageAssumption
<1>2. Len(Parent) \in Nat /\ Len(Parent) > 0 /\ Elements = 1 .. Len(Parent)
  BY <1>1 DEF Elements
<1>3. \A e \in 1 .. Len(Parent) : Parent[e] \in Nat
  BY <1>1
<1>4. \A e \in Elements : Parent[e] < e /\ (Parent[e] = 0 <=> e = Root)
  BY PageAssumption DEF PageAssumption
<1>5. \A e \in 1 .. Len(Parent) : Parent[e] \in 0 .. e - 1
  BY <1>2, <1>3, <1>4
<1> QED BY <1>2, <1>3, <1>4, <1>5 DEF Root

(* The recursive definition of Path defines a function.                     *)
LEMMA PathEquation ==
    PathsTo(Path, Len(Parent))
<1>1. ASSUME NEW x \in Nat, x # 0, x <= Len(Parent), NEW g, PathsTo(g, x - 1)
      PROVE  \E f : PathsTo(f, x)
  <2> PICK last : last = Append(g[Parent[x]], Tag[x])
    OBVIOUS
  <2> PICK f : f = [e \in 0 .. x |-> IF e = x THEN last ELSE g[e]]
    OBVIOUS
  <2>0. Len(Parent) \in Nat /\ \A e \in 1 .. Len(Parent) : Parent[e] \in 0 .. e - 1
    BY Parents
  <2>1. \A e \in 0 .. x - 1 : e \in 0 .. x /\ e # x /\ f[e] = g[e]
    BY <1>1
  <2>2. \A e \in 1 .. x : Parent[e] \in 0 .. x - 1 /\ f[Parent[e]] = g[Parent[e]]
    <3> SUFFICES ASSUME NEW e \in 1 .. x
                 PROVE  Parent[e] \in 0 .. x - 1 /\ f[Parent[e]] = g[Parent[e]]
      OBVIOUS
    <3>1. e \in 1 .. Len(Parent)
      BY <1>1, <2>0
    <3>2. Parent[e] \in 0 .. e - 1
      BY <2>0, <3>1
    <3>3. Parent[e] \in 0 .. x - 1
      BY <1>1, <3>2
    <3> QED BY <2>1, <3>3
  <2>5. x \in 0 .. x /\ f[x] = last
    BY <1>1
  <2>3. ASSUME NEW e \in 0 .. x
        PROVE  f[e] = IF e = 0 THEN <<>> ELSE Append(f[Parent[e]], Tag[e])
    <3>1. CASE e = x
      <4>1. f[e] = Append(g[Parent[e]], Tag[e]) /\ e \in 1 .. x
        BY <1>1, <2>5, <3>1
      <4>2. f[Parent[e]] = g[Parent[e]] /\ e # 0
        BY <2>2, <4>1
      <4> QED BY <4>1, <4>2
    <3>2. CASE e # x
      <4>1. e \in 0 .. x - 1 /\ (e # 0 => e \in 1 .. x)
        BY <1>1, <2>3, <3>2
      <4>2. g[e] = IF e = 0 THEN <<>> ELSE Append(g[Parent[e]], Tag[e])
        BY <1>1, <4>1 DEF PathsTo
      <4> QED BY <2>1, <2>2, <4>1, <4>2
    <3> QED BY <3>1, <3>2
  <2>4. PathsTo(f, x)
    BY <2>3 DEF PathsTo
  <2> QED BY <2>4
<1>2. \E f : PathsTo(f, 0)
  <2> PICK f : f = [e \in 0 .. 0 |-> <<>>]
    OBVIOUS
  <2>1. PathsTo(f, 0)
    BY DEF PathsTo
  <2> QED BY <2>1
<1>3. \A m \in Nat : m <= Len(Parent) => \E f : PathsTo(f, m)
  <2> SUFFICES ASSUME {m \in Nat : m <= Len(Parent) /\ ~ \E f : PathsTo(f, m)} # {} PROVE FALSE
    OBVIOUS
  <2> PICK T : T = {m \in Nat : m <= Len(Parent) /\ ~ \E f : PathsTo(f, m)}
    OBVIOUS
  <2>1. PICK x \in T : \A y \in T : x <= y
    BY LeastOf
  <2>2. x \in Nat /\ x <= Len(Parent) /\ x # 0 /\ x - 1 \in Nat /\ x - 1 <= Len(Parent) /\ x - 1 \notin T
    BY <1>2, <2>1, Parents
  <2> QED BY <1>1, <2>1, <2>2
<1>4. PICK f : PathsTo(f, Len(Parent))
  BY <1>3, Parents
<1> QED BY <1>4 DEF Path, PathsTo

TagsOf == {Tag[e] : e \in 1 .. Len(Parent)}

(* A path is its parent's and one tag more.                                 *)
LEMMA PathSteps ==
    /\ Path[0] = <<>>
    /\ \A e \in 0 .. Len(Parent) : Path[e] \in Seq(TagsOf)
    /\ \A e \in 1 .. Len(Parent) : /\ Parent[e] \in 0 .. Len(Parent)
                                   /\ Path[e] = Append(Path[Parent[e]], Tag[e])
<1> PICK P : P = Path
  OBVIOUS
<1>1. P = [e \in 0 .. Len(Parent) |-> IF e = 0 THEN <<>> ELSE Append(P[Parent[e]], Tag[e])]
  BY PathEquation DEF PathsTo
<1>2. \A e \in 1 .. Len(Parent) : Parent[e] \in 0 .. Len(Parent) /\ Parent[e] \in 0 .. e - 1
  BY Parents
<1>3. P[0] = <<>> /\ \A e \in 1 .. Len(Parent) : P[e] = Append(P[Parent[e]], Tag[e])
  <2>1. Len(Parent) \in Nat
    BY Parents
  <2>2. P[0] = <<>>
    BY <1>1, <2>1
  <2>3. ASSUME NEW e \in 1 .. Len(Parent)
        PROVE  P[e] = Append(P[Parent[e]], Tag[e])
    <3>1. e \in 0 .. Len(Parent) /\ e # 0
      BY <2>1
    <3>2. P[e] = IF e = 0 THEN <<>> ELSE Append(P[Parent[e]], Tag[e])
      BY <1>1, <3>1
    <3> QED BY <3>1, <3>2
  <2> QED BY <2>2, <2>3
<1>4. ASSUME {e \in 0 .. Len(Parent) : P[e] \notin Seq(TagsOf)} # {} PROVE FALSE
  <2> PICK T : T = {e \in 0 .. Len(Parent) : P[e] \notin Seq(TagsOf)}
    OBVIOUS
  <2>0. T \in SUBSET Nat /\ T # {} /\ Len(Parent) \in Nat
    BY <1>4, Parents
  <2>1. PICK x \in T : \A y \in T : x <= y
    BY <2>0, LeastOf
  <2>5. x \in 0 .. Len(Parent) /\ P[x] \notin Seq(TagsOf)
    OBVIOUS
  <2>8. P[0] \in Seq(TagsOf)
    BY <1>3
  <2>6. x # 0
    BY <2>5, <2>8
  <2>2. x \in 1 .. Len(Parent)
    BY <2>0, <2>5, <2>6
  <2>3. Parent[x] \in 0 .. Len(Parent) /\ Parent[x] \notin T
    BY <1>2, <2>1, <2>2
  <2>4. P[Parent[x]] \in Seq(TagsOf) /\ Tag[x] \in TagsOf
    BY <2>2, <2>3 DEF TagsOf
  <2>7. P[x] = Append(P[Parent[x]], Tag[x])
    BY <1>3, <2>2
  <2> QED BY <2>4, <2>5, <2>7
<1>5. \A e \in 0 .. Len(Parent) : P[e] \in Seq(TagsOf)
  BY <1>4
<1> QED BY <1>2, <1>3, <1>5

(* What it means to be above or at a path.                                  *)
LEMMA PrefixMeans ==
    ASSUME NEW S, NEW s \in Seq(S), NEW t \in Seq(S)
    PROVE  IsPrefix(s, t) <=> /\ Len(s) <= Len(t)
                              /\ \A i \in 1 .. Len(s) : s[i] = t[i]
<1>1. CASE Len(s) <= Len(t)
  <2>1. /\ Len(SubSeq(s, 1, Len(s))) = Len(s) /\ Len(SubSeq(t, 1, Len(s))) = Len(s)
        /\ \A i \in 1 .. Len(s) : SubSeq(s, 1, Len(s))[i] = s[i] /\ SubSeq(t, 1, Len(s))[i] = t[i]
    BY <1>1
  <2>2. SubSeq(s, 1, Len(s)) = SubSeq(t, 1, Len(s)) => \A i \in 1 .. Len(s) : s[i] = t[i]
    BY <2>1
  <2>3. ASSUME \A i \in 1 .. Len(s) : s[i] = t[i]
        PROVE  SubSeq(s, 1, Len(s)) = SubSeq(t, 1, Len(s))
    <3>1. SubSeq(s, 1, Len(s)) = [i \in 1 .. Len(s) |-> s[i]]
      BY <1>1
    <3>2. SubSeq(t, 1, Len(s)) = [i \in 1 .. Len(s) |-> t[i]]
      BY <1>1
    <3> QED BY <2>3, <3>1, <3>2
  <2> QED BY <1>1, <2>2, <2>3 DEF IsPrefix
<1>2. CASE ~ (Len(s) <= Len(t))
  BY <1>2 DEF IsPrefix
<1> QED BY <1>1, <1>2

(* Being above is transitive, and what is above one path is comparable.     *)
LEMMA PrefixOrder ==
    ASSUME NEW S, NEW s \in Seq(S), NEW t \in Seq(S), NEW u \in Seq(S)
    PROVE  /\ IsPrefix(s, s)
           /\ IsPrefix(s, t) /\ IsPrefix(t, u) => IsPrefix(s, u)
           /\ IsPrefix(s, u) /\ IsPrefix(t, u) => IsPrefix(s, t) \/ IsPrefix(t, s)
           /\ IsPrefix(<<>>, s)
           /\ \A x \in S : IsPrefix(s, Append(s, x))
<1>1. IsPrefix(s, s)
  BY PrefixMeans
<1>2. IsPrefix(s, t) /\ IsPrefix(t, u) => IsPrefix(s, u)
  BY PrefixMeans
<1>3. IsPrefix(s, u) /\ IsPrefix(t, u) => IsPrefix(s, t) \/ IsPrefix(t, s)
  <2> SUFFICES ASSUME IsPrefix(s, u), IsPrefix(t, u)
               PROVE  IsPrefix(s, t) \/ IsPrefix(t, s)
    OBVIOUS
  <2>1. \A i \in 1 .. Len(s) : s[i] = u[i]
    BY PrefixMeans
  <2>2. \A i \in 1 .. Len(t) : t[i] = u[i]
    BY PrefixMeans
  <2>3. CASE Len(s) <= Len(t)
    BY <2>1, <2>2, <2>3, PrefixMeans
  <2>4. CASE Len(t) <= Len(s)
    BY <2>1, <2>2, <2>4, PrefixMeans
  <2> QED BY <2>3, <2>4
<1>4. IsPrefix(<<>>, s)
  <2> PICK none : none = <<>>
    OBVIOUS
  <2>1. none \in Seq(S) /\ Len(none) = 0 /\ Len(s) \in Nat
    OBVIOUS
  <2>3. 1 .. Len(none) = {}
    BY <2>1
  <2>4. Len(none) <= Len(s) /\ \A i \in 1 .. Len(none) : none[i] = s[i]
    BY <2>1, <2>3
  <2>2. IsPrefix(none, s)
    BY <2>1, <2>4, PrefixMeans
  <2> QED BY <2>2
<1>5. ASSUME NEW x \in S PROVE IsPrefix(s, Append(s, x))
  <2>1. /\ Append(s, x) \in Seq(S) /\ Len(s) <= Len(Append(s, x))
        /\ \A i \in 1 .. Len(s) : s[i] = Append(s, x)[i]
    OBVIOUS
  <2> PICK u2 : u2 = Append(s, x)
    OBVIOUS
  <2>2. /\ u2 \in Seq(S) /\ Len(s) <= Len(u2)
        /\ \A i \in 1 .. Len(s) : s[i] = u2[i]
    BY <2>1
  <2>3. IsPrefix(s, u2)
    BY <2>2, PrefixMeans
  <2> QED BY <2>3
<1> QED BY <1>1, <1>2, <1>3, <1>4, <1>5

(* A path of an element, or of the document.                                *)
LEMMA PathTypes ==
    /\ Paths \subseteq AllPaths /\ AllPaths \subseteq Seq(TagsOf)
    /\ <<>> \in AllPaths
    /\ \A e \in 0 .. Len(Parent) : Path[e] \in AllPaths
    /\ \A e \in 1 .. Len(Parent) : Path[e] \in Paths /\ IsPrefix(Path[Parent[e]], Path[e])
<1>1. Len(Parent) \in Nat /\ Elements = 1 .. Len(Parent)
  BY Parents
<1>2. \A e \in 0 .. Len(Parent) : Path[e] \in AllPaths
  BY DEF AllPaths
<1>3. Paths \subseteq AllPaths
  BY <1>1, <1>2 DEF Paths
<1>4. AllPaths \subseteq Seq(TagsOf)
  BY PathSteps DEF AllPaths
<1>5. <<>> \in AllPaths
  BY <1>1, <1>2, PathSteps
<1>6. ASSUME NEW e \in 1 .. Len(Parent)
      PROVE  Path[e] \in Paths /\ IsPrefix(Path[Parent[e]], Path[e])
  <2>1. Path[e] \in Paths
    BY <1>1 DEF Paths
  <2>2. Path[e] = Append(Path[Parent[e]], Tag[e]) /\ Parent[e] \in 0 .. Len(Parent)
    BY PathSteps
  <2>3. Path[Parent[e]] \in Seq(TagsOf)
    BY <2>2, PathSteps
  <2>4. Tag[e] \in TagsOf
    BY DEF TagsOf
  <2>5. \A x \in TagsOf : IsPrefix(Path[Parent[e]], Append(Path[Parent[e]], x))
    BY <2>3, PrefixOrder
  <2> QED BY <2>1, <2>2, <2>4, <2>5
<1> QED BY <1>2, <1>3, <1>4, <1>5, <1>6

(* Below a clean path everything is clean.                                  *)
LEMMA CleanBelow ==
    ASSUME NEW D \in SUBSET AllPaths, NEW a \in AllPaths, NEW r \in AllPaths,
           IsPrefix(a, r), Overlaps(r, D)
    PROVE  Overlaps(a, D)
<1>1. PICK d \in D : IsPrefix(d, r) \/ IsPrefix(r, d)
  BY DEF Overlaps
<1>2. d \in Seq(TagsOf) /\ a \in Seq(TagsOf) /\ r \in Seq(TagsOf)
  BY PathTypes
<1>3. IsPrefix(r, d) => IsPrefix(a, d)
  BY <1>2, PrefixOrder
<1>4. IsPrefix(d, r) => IsPrefix(d, a) \/ IsPrefix(a, d)
  BY <1>2, PrefixOrder
<1> QED BY <1>1, <1>3, <1>4 DEF Overlaps

(* More dirty paths overlap more.                                           *)
LEMMA MoreOverlap ==
    ASSUME NEW D, NEW E, D \subseteq E, NEW r, Overlaps(r, D)
    PROVE  Overlaps(r, E)
BY DEF Overlaps

(* A queued path is on the way, and so is what was queued before it.        *)
LEMMA QueueKeeps ==
    ASSUME NEW D \in SUBSET AllPaths, NEW p \in AllPaths, NEW r \in AllPaths
    PROVE  /\ QueuePath(D, p) \in SUBSET AllPaths
           /\ Overlaps(r, D) => Overlaps(r, QueuePath(D, p))
           /\ IsPrefix(p, r) => Overlaps(r, QueuePath(D, p))
<1>1. Path[0] = <<>> /\ <<>> \in AllPaths /\ r \in Seq(TagsOf)
  BY PathTypes, PathSteps
<1>2. IsPrefix(<<>>, r)
  BY <1>1, PrefixOrder
<1>3. \/ p \in D /\ QueuePath(D, p) = D
      \/ QueuePath(D, p) = {<<>>}
      \/ QueuePath(D, p) = D \cup {p}
  BY <1>1, Zenon DEF QueuePath
<1>4. CASE p \in D /\ QueuePath(D, p) = D
  BY <1>4 DEF Overlaps
<1>5. CASE QueuePath(D, p) = {<<>>}
  BY <1>1, <1>2, <1>5 DEF Overlaps
<1>6. CASE QueuePath(D, p) = D \cup {p}
  BY <1>6 DEF Overlaps
<1> QED BY <1>3, <1>4, <1>5, <1>6

(* So are a node and its parent.                                            *)
LEMMA NodeKeeps ==
    ASSUME NEW D \in SUBSET AllPaths, NEW e \in 1 .. Len(Parent), NEW r \in AllPaths
    PROVE  /\ QueueNodeAndParent(D, e) \in SUBSET AllPaths
           /\ Overlaps(r, D) => Overlaps(r, QueueNodeAndParent(D, e))
           /\ IsPrefix(Path[e], r) => Overlaps(r, QueueNodeAndParent(D, e))
<1>1. Path[e] \in AllPaths /\ Parent[e] \in 0 .. Len(Parent)
  BY PathTypes, PathSteps
<1>2. Path[Parent[e]] \in AllPaths
  BY <1>1, PathTypes
<1> PICK own : own = QueuePath(D, Path[e])
  OBVIOUS
<1>3. /\ own \in SUBSET AllPaths
      /\ Overlaps(r, D) => Overlaps(r, own)
      /\ IsPrefix(Path[e], r) => Overlaps(r, own)
  BY <1>1, QueueKeeps
<1>4. CASE e = Root
  <2>1. QueueNodeAndParent(D, e) = own
    BY <1>4 DEF QueueNodeAndParent
  <2> QED BY <1>3, <2>1
<1>5. CASE e # Root
  <2>1. QueueNodeAndParent(D, e) = QueuePath(own, Path[Parent[e]])
    BY <1>5 DEF QueueNodeAndParent
  <2>2. /\ QueuePath(own, Path[Parent[e]]) \in SUBSET AllPaths
        /\ Overlaps(r, own) => Overlaps(r, QueuePath(own, Path[Parent[e]]))
    BY <1>2, <1>3, QueueKeeps
  <2> QED BY <1>3, <2>1, <2>2
<1> QED BY <1>4, <1>5

(* The elements at a path, and their entries.                               *)
LEMMA EntriesShape ==
    ASSUME NEW d, DOMAIN d \subseteq Elements, NEW r
    PROVE  /\ IsFiniteSet(ShownAt(d, r)) /\ Cardinality(ShownAt(d, r)) \in Nat
           /\ DOMAIN Entries(d, r) = 1 .. Cardinality(ShownAt(d, r))
           /\ Len(Entries(d, r)) = Cardinality(ShownAt(d, r))
           /\ Entries(d, r) = [k \in DOMAIN Entries(d, r) |-> Entries(d, r)[k]]
<1>1. IsFiniteSet(1 .. Len(Parent)) /\ Elements = 1 .. Len(Parent)
  BY Parents, FS_Interval
<1>2. ShownAt(d, r) \subseteq 1 .. Len(Parent)
  BY <1>1 DEF ShownAt, ReachedAt
<1>3. IsFiniteSet(ShownAt(d, r)) /\ Cardinality(ShownAt(d, r)) \in Nat
  BY <1>1, <1>2, FS_Subset, FS_CardinalityType
<1>4. DOMAIN DocumentOrder(ShownAt(d, r)) = 1 .. Cardinality(ShownAt(d, r))
  BY DEF DocumentOrder
<1>5. /\ DOMAIN Entries(d, r) = 1 .. Cardinality(ShownAt(d, r))
      /\ Entries(d, r) = [k \in DOMAIN Entries(d, r) |-> Entries(d, r)[k]]
  BY <1>4 DEF Entries, Nodes
<1>6. Len(Entries(d, r)) = Cardinality(ShownAt(d, r))
  BY <1>3, <1>5
<1> QED BY <1>3, <1>5, <1>6

(* The entries at a path are made of what is there.                         *)
LEMMA SameEntries ==
    ASSUME NEW d, NEW g, NEW r, DOMAIN d \subseteq Elements,
           ShownAt(d, r) = ShownAt(g, r),
           \A e \in ShownAt(d, r) : d[e] = g[e]
    PROVE  Entries(d, r) = Entries(g, r)
<1>1. [e \in ShownAt(d, r) |-> d[e]] = [e \in ShownAt(g, r) |-> g[e]]
  OBVIOUS
<1> QED BY <1>1 DEF Entries

(* One reached element with an entry is the only one reached.               *)
LEMMA OneIsReached ==
    ASSUME PresentationalApart,
           NEW d, DOMAIN d \subseteq Elements, NEW r, Len(Entries(d, r)) = 1
    PROVE  Cardinality(ReachedAt(d, r)) = 1
<1>1. Cardinality(ShownAt(d, r)) = 1 /\ IsFiniteSet(ShownAt(d, r))
  BY EntriesShape
<1>2. PICK e : ShownAt(d, r) = {e}
  BY <1>1, FS_Singleton
<1>3. e \in Elements /\ Path[e] = r /\ e \notin Presentational
  BY <1>2 DEF ShownAt, ReachedAt
<1>4. ASSUME NEW f \in ReachedAt(d, r) PROVE f = e
  <2>1. f \in Elements /\ Path[f] = r
    BY DEF ReachedAt
  <2>2. f \in Presentational => Path[e] # Path[f]
    BY <1>3, <2>1 DEF PresentationalApart
  <2>3. f \in ShownAt(d, r)
    BY <1>3, <2>1, <2>2 DEF ShownAt
  <2> QED BY <1>2, <2>3
<1>5. e \in ReachedAt(d, r)
  BY <1>2 DEF ShownAt
<1>6. ReachedAt(d, r) = {e}
  BY <1>4, <1>5
<1> QED BY <1>6, FS_Singleton

(* Once is all there is.                                                    *)
LEMMA OneCopy ==
    ASSUME NEW s, NEW n \in Nat, s = [k \in 1 .. n |-> s[k]]
    PROVE  Copies(s, 1) = s
<1>1. Len(s) = n
  OBVIOUS
<1>2. 1 * Len(s) = n
  BY <1>1
<1>3. ASSUME NEW k \in 1 .. n PROVE s[1 + ((k - 1) % Len(s))] = s[k]
  <2>1. k - 1 \in 0 .. n - 1 /\ n > 0
    OBVIOUS
  <2>2. (k - 1) % n = k - 1
    BY <2>1
  <2>3. 1 + (k - 1) = k
    OBVIOUS
  <2> QED BY <1>1, <2>2, <2>3
<1> QED BY <1>2, <1>3, Zenon DEF Copies

Labels(shown) ==
    [k \in DOMAIN DocumentOrder(DOMAIN shown) |-> shown[DocumentOrder(DOMAIN shown)[k]]]

(* Keys are numbered per path and content.                                  *)
LEMMA KeysApart ==
    ASSUME NEW d, DOMAIN d \subseteq Elements, NEW p, NEW r,
           NEW i \in DOMAIN Entries(d, p), NEW j \in DOMAIN Entries(d, r),
           Entries(d, p)[i].key = Entries(d, r)[j].key
    PROVE  p = r /\ i = j
<1> DEFINE ShownOf(q) == [e \in ShownAt(d, q) |-> d[e]]
<1>1. ASSUME NEW q, NEW k \in DOMAIN Entries(d, q)
      PROVE  Entries(d, q)[k].key = Key(q, Labels(ShownOf(q)), k)
  <2> PICK shown : shown = ShownOf(q)
    OBVIOUS
  <2> PICK L : L = Labels(shown)
    OBVIOUS
  <2>1. Entries(d, q) = Nodes(shown, q)
    BY DEF Entries
  <2>2. Nodes(shown, q) = [m \in DOMAIN DocumentOrder(DOMAIN shown) |->
            [label |-> L[m], node |-> DocumentOrder(DOMAIN shown)[m], key |-> Key(q, L, m)]]
    BY DEF Nodes, Labels
  <2>3. Nodes(shown, q)[k].key = Key(q, L, k)
    BY <2>1, <2>2
  <2> QED BY <2>1, <2>3
<1>2. Key(p, Labels(ShownOf(p)), i) = Key(r, Labels(ShownOf(r)), j)
  BY <1>1
<1>3. p = r
  BY <1>2 DEF Key
<1> HIDE DEF ShownOf
<1> PICK L : L = Labels(ShownOf(p))
  OBVIOUS
<1>4. /\ L[i] = L[j]
      /\ Cardinality({m \in 1 .. i : L[m] = L[i]}) = Cardinality({m \in 1 .. j : L[m] = L[j]})
  BY <1>2, <1>3 DEF Key
<1>5. i \in Nat /\ j \in Nat /\ i > 0 /\ j > 0
  BY <1>3, EntriesShape
<1>6. ASSUME NEW x \in Nat, NEW y \in Nat, x < y, L[x] = L[y]
      PROVE  Cardinality({m \in 1 .. x : L[m] = L[x]}) < Cardinality({m \in 1 .. y : L[m] = L[y]})
  <2> PICK less, more : /\ less = {m \in 1 .. x : L[m] = L[x]}
                        /\ more = {m \in 1 .. y : L[m] = L[y]}
    OBVIOUS
  <2>1. IsFiniteSet(1 .. y) /\ more \subseteq 1 .. y
    BY FS_Interval
  <2>2. IsFiniteSet(more)
    BY <2>1, FS_Subset
  <2>3. less \subseteq more /\ y \in more /\ y \notin less
    BY <1>6
  <2>4. Cardinality(less) \in Nat /\ Cardinality(more) \in Nat /\ Cardinality(less) <= Cardinality(more)
    BY <2>2, <2>3, FS_Subset, FS_CardinalityType
  <2>5. Cardinality(less) # Cardinality(more)
    BY <2>2, <2>3, FS_Subset
  <2>6. Cardinality(less) < Cardinality(more)
    BY <2>4, <2>5
  <2> QED BY <2>6
<1>7. i = j
  <2>0. \A z \in Nat : Cardinality({m \in 1 .. z : L[m] = L[z]}) \in Nat
    <3> SUFFICES ASSUME NEW z \in Nat
                 PROVE  Cardinality({m \in 1 .. z : L[m] = L[z]}) \in Nat
      OBVIOUS
    <3>1. IsFiniteSet(1 .. z) /\ {m \in 1 .. z : L[m] = L[z]} \subseteq 1 .. z
      BY FS_Interval
    <3> QED BY <3>1, FS_Subset, FS_CardinalityType
  <2>4. i < j => Cardinality({m \in 1 .. i : L[m] = L[i]}) < Cardinality({m \in 1 .. j : L[m] = L[j]})
    BY <1>4, <1>5, <1>6
  <2>1. ~ (i < j)
    BY <1>4, <1>5, <2>0, <2>4
  <2>2. j < i => Cardinality({m \in 1 .. j : L[m] = L[j]}) < Cardinality({m \in 1 .. i : L[m] = L[i]})
    BY <1>4, <1>5, <1>6
  <2>3. ~ (j < i)
    BY <1>4, <1>5, <2>0, <2>2
  <2> QED BY <1>5, <2>1, <2>3
<1> QED BY <1>3, <1>7

(* A refined capture is current where no path queued meanwhile is on the way. *)
LEMMA RefinedIsCurrent ==
    ASSUME PresentationalApart, NEW d, DOMAIN d \subseteq Elements, NEW t,
           NEW D \in SUBSET AllPaths, NEW later \in SUBSET AllPaths,
           CurrentOutside(D \cup later, d, t),
           NEW r \in Paths, ~ Overlaps(r, later),
           NEW a \in Paths, IsPrefix(a, r)
    PROVE  Refined(d, D, t)[a] = Entries(d, a)
<1> PICK reused : reused = {b \in Paths : IsPrefix(b, a) /\ Reusable(b, D, t)}
  OBVIOUS
<1>1. CASE reused = {}
  BY <1>1, Zenon DEF Refined
<1>2. CASE reused # {}
  <2> PICK top : top = CHOOSE x \in reused : \A y \in reused : Len(x) <= Len(y)
    OBVIOUS
  <2>1. \A b \in reused : Len(b) \in Nat
    BY PathTypes
  <2>2. {Len(b) : b \in reused} \in SUBSET Nat /\ {Len(b) : b \in reused} # {}
    BY <1>2, <2>1
  <2>3. PICK n \in {Len(b) : b \in reused} : \A m \in {Len(b) : b \in reused} : n <= m
    BY <2>2, LeastOf
  <2>4. \E x \in reused : \A y \in reused : Len(x) <= Len(y)
    BY <2>3
  <2>5. top \in reused
    BY <2>4
  <2>6. Refined(d, D, t)[a] = Copies(t[a], Cardinality(ReachedAt(d, top)))
    BY <1>2, Zenon DEF Refined
  <2>7. top \in Paths /\ IsPrefix(top, a) /\ Len(t[top]) = 1 /\ ~ Overlaps(top, D)
    BY <2>5 DEF Reusable, UniquePaths
  <2>8. /\ top \in AllPaths /\ a \in AllPaths /\ r \in AllPaths
        /\ top \in Seq(TagsOf) /\ a \in Seq(TagsOf) /\ r \in Seq(TagsOf)
    BY <2>7, PathTypes
  <2>9. IsPrefix(top, r)
    BY <2>7, <2>8, PrefixOrder
  <2>10. ~ Overlaps(r, D)
    BY <2>7, <2>8, <2>9, CleanBelow
  <2>11. ~ Overlaps(r, D \cup later)
    BY <2>10 DEF Overlaps
  <2>12. t[top] = Entries(d, top) /\ t[a] = Entries(d, a)
    BY <2>7, <2>9, <2>11 DEF CurrentOutside
  <2>13. Cardinality(ReachedAt(d, top)) = 1
    BY <2>7, <2>12, OneIsReached
  <2>14. /\ Cardinality(ShownAt(d, a)) \in Nat
         /\ DOMAIN Entries(d, a) = 1 .. Cardinality(ShownAt(d, a))
         /\ Entries(d, a) = [k \in DOMAIN Entries(d, a) |-> Entries(d, a)[k]]
    BY EntriesShape
  <2>15. Copies(Entries(d, a), 1) = Entries(d, a)
    BY <2>14, OneCopy
  <2> QED BY <2>6, <2>12, <2>13, <2>15
<1> QED BY <1>1, <1>2

(* What is on the way when there is a bridge, and when there is none.       *)
LEMMA OnTheWayIs ==
    /\ bridge = {} => OnTheWay = seenBy.dirty
    /\ \A b : bridge = {b} => OnTheWay = seenBy.dirty \cup b.dirty
<1>1. ASSUME NEW b, bridge = {b} PROVE UNION {x.dirty : x \in bridge} = b.dirty
  BY <1>1
<1> QED BY <1>1 DEF OnTheWay

(* The page's elements are elements.                                        *)
LEMMA PageIsOfElements ==
    ASSUME NEW d \in Doms
    PROVE  DOMAIN d \subseteq Elements
<1>1. PICK P \in {Elements \ o : o \in SUBSET Optional} : d \in [P -> Texts \cup {"constant"}]
  BY DEF Doms
<1> QED BY <1>1

(* A change of the page at an element whose path is queued.                 *)
LEMMA ToldChange ==
    ASSUME CapInv, NEW e \in 1 .. Len(Parent), dom' \in Doms,
           \A a \in Paths : a # Path[e] => Entries(dom', a) = Entries(dom, a),
           changes < MaxChanges, changes' = changes + 1, seenBy' = seenBy,
           NEW b, bridge = {b}, NEW q \in SUBSET AllPaths,
           bridge' = {[version |-> b.version + 1, dirty |-> q]}, missed' = missed,
           \A r \in Paths : Overlaps(r, b.dirty) => Overlaps(r, q),
           \A r \in Paths : IsPrefix(Path[e], r) => Overlaps(r, q)
    PROVE  CapInv'
<1> PICK c : c = [version |-> b.version + 1, dirty |-> q]
  OBVIOUS
<1>0. bridge' = {c} /\ c.version = b.version + 1 /\ c.dirty = q /\ b.version \in Nat
      /\ c = [version |-> c.version, dirty |-> c.dirty]
  BY DEF CapInv, CapTypeOK
<1>1. CapTypeOK'
  <2>1. changes' \in 0 .. MaxChanges
    BY PageAssumption DEF CapInv, CapTypeOK, PageAssumption
  <2>2. c.version \in Nat
    BY <1>0
  <2> QED BY <1>0, <2>1, <2>2 DEF CapInv, CapTypeOK
<1>2. SeenOK'
  BY DEF CapInv, SeenOK
<1>3. DirtyIsNews'
  <2>1. seenBy.version <= b.version /\ seenBy.version \in Nat
    BY DEF CapInv, DirtyIsNews, CapTypeOK
  <2>2. seenBy.version <= c.version /\ c.version # 0 /\ c.version # seenBy.version
    BY <1>0, <2>1
  <2> QED BY <1>0, <2>2 DEF DirtyIsNews
<1>4. CleanIsCurrent'
  <2> SUFFICES ASSUME missed' = {}, NEW t \in seenBy.last, NEW r \in Paths, ~ Overlaps(r, OnTheWay'),
                      NEW a \in Paths, IsPrefix(a, r)
               PROVE  t[a] = Entries(dom', a)
    BY DEF CleanIsCurrent, CurrentOutside
  <2>1. OnTheWay = seenBy.dirty \cup b.dirty
    BY OnTheWayIs
  <2>2. OnTheWay' = seenBy.dirty \cup q
    <3>1. UNION {x.dirty : x \in bridge'} = q
      BY <1>0
    <3> QED BY <3>1 DEF OnTheWay
  <2>3. ~ Overlaps(r, seenBy.dirty) /\ ~ Overlaps(r, q)
    BY <2>2 DEF Overlaps
  <2>4. ~ Overlaps(r, OnTheWay)
    BY <2>1, <2>3 DEF Overlaps
  <2>5. t[a] = Entries(dom, a)
    BY <2>4 DEF CapInv, CleanIsCurrent, CurrentOutside
  <2>6. a # Path[e]
    BY <2>3
  <2> QED BY <2>5, <2>6
<1> QED BY <1>1, <1>2, <1>3, <1>4 DEF CapInv

(* A change of the page nothing tells of.                                   *)
LEMMA UntoldChange ==
    ASSUME CapInv, dom' \in Doms, changes < MaxChanges, changes' = changes + 1,
           seenBy' = seenBy, bridge' = {}, missed' = missed \cup Untold
    PROVE  CapInv'
<1>1. CapTypeOK'
  <2>1. changes' \in 0 .. MaxChanges
    BY PageAssumption DEF CapInv, CapTypeOK, PageAssumption
  <2>2. missed' \subseteq {"change", "capture"}
    BY DEF CapInv, CapTypeOK, Untold
  <2> QED BY <2>1, <2>2 DEF CapInv, CapTypeOK
<1>2. SeenOK'
  BY DEF CapInv, SeenOK, Untold
<1>3. DirtyIsNews'
  BY DEF DirtyIsNews
<1>4. CleanIsCurrent'
  <2>1. seenBy.at = "initial" => seenBy.last = {}
    BY DEF CapInv, SeenOK
  <2>2. seenBy.at # "initial" => missed' # {}
    BY DEF Untold
  <2> QED BY <2>1, <2>2 DEF CleanIsCurrent
<1> QED BY <1>1, <1>2, <1>3, <1>4 DEF CapInv

(* Text.                                                                    *)
LEMMA TextKeeps ==
    ASSUME CapInv, NEW e \in DOMAIN dom \cap Changing, TextChanges(e)
    PROVE  CapInv'
<1>1. e \in 1 .. Len(Parent) /\ DOMAIN dom \subseteq Elements
  BY PageIsOfElements, Parents DEF CapInv, CapTypeOK
<1>2. PICK text \in Texts : dom' = [dom EXCEPT ![e] = text]
  BY DEF TextChanges
<1>3. DOMAIN dom' = DOMAIN dom
  BY <1>2
<1>4. dom' \in Doms
  <2>1. PICK P \in {Elements \ o : o \in SUBSET Optional} : dom \in [P -> Texts \cup {"constant"}]
    BY DEF CapInv, CapTypeOK, Doms
  <2>2. dom' \in [P -> Texts \cup {"constant"}]
    BY <1>2, <2>1
  <2>3. ASSUME NEW x \in DOMAIN dom'
        PROVE  /\ x = Root \/ Parent[x] \in DOMAIN dom'
               /\ x \in Changing <=> dom'[x] \in Texts
    <3>1. /\ x = Root \/ Parent[x] \in DOMAIN dom
          /\ x \in Changing <=> dom[x] \in Texts
      BY <1>3, <2>3 DEF CapInv, CapTypeOK, Doms
    <3>2. dom'[x] = IF x = e THEN text ELSE dom[x]
      BY <1>2, <1>3, <2>3
    <3> QED BY <1>3, <3>1, <3>2
  <2> QED BY <2>1, <2>2, <2>3 DEF Doms
<1>5. ASSUME NEW a \in Paths, a # Path[e] PROVE Entries(dom', a) = Entries(dom, a)
  <2>1. ShownAt(dom', a) = ShownAt(dom, a)
    BY <1>3 DEF ShownAt, ReachedAt
  <2>2. \A f \in ShownAt(dom, a) : f # e /\ f \in DOMAIN dom
    BY <1>5 DEF ShownAt, ReachedAt
  <2>3. \A f \in ShownAt(dom', a) : dom'[f] = dom[f]
    BY <1>2, <2>1, <2>2
  <2> QED BY <1>1, <1>3, <2>1, <2>3, SameEntries
<1>6. CASE bridge = {}
  BY <1>4, <1>6, UntoldChange DEF TextChanges, Notify
<1>7. CASE bridge # {}
  <2>1. PICK b : bridge = {b} /\ b.dirty \in SUBSET AllPaths
    BY <1>7 DEF CapInv, CapTypeOK
  <2> PICK q : q = QueueNodeAndParent(b.dirty, e)
    OBVIOUS
  <2>2. bridge' = {[version |-> b.version + 1, dirty |-> q]}
    BY <2>1, <1>1 DEF TextChanges, Notify
  <2>3. Paths \subseteq AllPaths
    BY PathTypes
  <2>4. q \in SUBSET AllPaths
    BY <1>1, <2>1, NodeKeeps, PathTypes
  <2>5. /\ \A r \in Paths : Overlaps(r, b.dirty) => Overlaps(r, q)
        /\ \A r \in Paths : IsPrefix(Path[e], r) => Overlaps(r, q)
    BY <1>1, <2>1, <2>3, NodeKeeps
  <2>6. missed' = missed /\ changes < MaxChanges /\ changes' = changes + 1 /\ seenBy' = seenBy
    BY <1>7 DEF TextChanges
  <2> QED BY <1>1, <1>4, <1>5, <2>1, <2>2, <2>4, <2>5, <2>6, ToldChange
<1> QED BY <1>6, <1>7

(* Elements that come and go.                                               *)
LEMMA ChildrenKeep ==
    ASSUME CapInv, NEW e \in Optional, ChildrenChange(e)
    PROVE  CapInv'
<1>1. e \in 1 .. Len(Parent) /\ e # 1 /\ DOMAIN dom \subseteq Elements
  BY PageIsOfElements, Parents, PageAssumption DEF CapInv, CapTypeOK, PageAssumption, Root
<1>2. /\ dom' \in Doms /\ DOMAIN dom' \ {e} = DOMAIN dom \ {e}
      /\ \A x \in DOMAIN dom \ {e} : dom'[x] = dom[x]
  BY DEF ChildrenChange
<1>3. ASSUME NEW a \in Paths, a # Path[e] PROVE Entries(dom', a) = Entries(dom, a)
  <2>1. ShownAt(dom', a) = ShownAt(dom, a)
    BY <1>2, <1>3 DEF ShownAt, ReachedAt
  <2>2. \A f \in ShownAt(dom', a) : dom'[f] = dom[f]
    BY <1>2, <1>3, <2>1 DEF ShownAt, ReachedAt
  <2>3. DOMAIN dom' \subseteq Elements
    BY <1>2, PageIsOfElements
  <2> QED BY <2>1, <2>2, <2>3, SameEntries
<1>4. CASE bridge = {}
  BY <1>2, <1>4, UntoldChange DEF ChildrenChange, Notify
<1>5. CASE bridge # {}
  <2>1. PICK b : bridge = {b} /\ b.dirty \in SUBSET AllPaths
    BY <1>5 DEF CapInv, CapTypeOK
  <2> PICK q1 : q1 = QueueNodeAndParent(b.dirty, Parent[e])
    OBVIOUS
  <2> PICK c : c = IF e \in DOMAIN dom THEN Parent[e] ELSE e
    OBVIOUS
  <2> PICK q : q = QueueNodeAndParent(q1, c)
    OBVIOUS
  <2>0. c \in 1 .. Len(Parent) /\ c # 0
    BY <1>1, Parents
  <2>2. bridge' = {[version |-> b.version + 1, dirty |-> q]}
    BY <2>0, <2>1 DEF ChildrenChange, Notify
  <2>3. Paths \subseteq AllPaths /\ IsPrefix(Path[Parent[e]], Path[e]) /\ Path[e] \in AllPaths
        /\ AllPaths \subseteq Seq(TagsOf)
    BY <1>1, PathTypes
  <2>4. Parent[e] \in 1 .. Len(Parent)
    BY <1>1, Parents
  <2>5. q1 \in SUBSET AllPaths
    BY <2>1, <2>3, <2>4, NodeKeeps
  <2>6. ASSUME NEW r \in Paths
        PROVE  /\ Overlaps(r, b.dirty) => Overlaps(r, q1)
               /\ IsPrefix(Path[e], r) => Overlaps(r, q1)
    <3>1. /\ Overlaps(r, b.dirty) => Overlaps(r, q1)
          /\ IsPrefix(Path[Parent[e]], r) => Overlaps(r, q1)
      BY <2>1, <2>3, <2>4, NodeKeeps
    <3>2. Path[Parent[e]] \in Seq(TagsOf) /\ Path[e] \in Seq(TagsOf) /\ r \in Seq(TagsOf)
      BY <2>3, <2>4, PathSteps, PathTypes
    <3>3. IsPrefix(Path[e], r) => IsPrefix(Path[Parent[e]], r)
      BY <2>3, <3>2, PrefixOrder
    <3> QED BY <3>1, <3>3
  <2>7. q \in SUBSET AllPaths
    BY <2>0, <2>3, <2>5, NodeKeeps
  <2>8. \A r \in Paths : Overlaps(r, q1) => Overlaps(r, q)
    BY <2>0, <2>3, <2>5, NodeKeeps
  <2>9. missed' = missed /\ changes < MaxChanges /\ changes' = changes + 1 /\ seenBy' = seenBy
    BY <1>5 DEF ChildrenChange
  <2>10. /\ \A r \in Paths : Overlaps(r, b.dirty) => Overlaps(r, q)
         /\ \A r \in Paths : IsPrefix(Path[e], r) => Overlaps(r, q)
    BY <2>6, <2>8
  <2> QED BY <1>1, <1>2, <1>3, <2>1, <2>2, <2>7, <2>9, <2>10, ToldChange
<1> QED BY <1>4, <1>5

(* Steps that leave the page alone.                                         *)
LEMMA CaptureKeeps ==
    ASSUME PresentationalApart, CapInv, seenBy.at \in {"initial", "capture"}, UNCHANGED <<dom, bridge, changes>>,
           FullCapture \/ RefinedCapture
    PROVE  CapInv'
<1> PICK tree : \/ FullCapture /\ tree = Normalized(dom) /\ missed' = {}
                \/ /\ RefinedCapture /\ missed' = missed
                   /\ \E cached \in seenBy.last : tree = Refined(dom, seenBy.dirty, cached)
                   /\ seenBy' = [seenBy EXCEPT !.at = "ensure", !.dirty = {}, !.last = {tree}]
  BY DEF FullCapture, RefinedCapture
<1>1. seenBy' = [at |-> "ensure", last |-> {tree}, version |-> seenBy.version, dirty |-> {}]
  BY DEF FullCapture, CapInv, CapTypeOK
<1>2. /\ seenBy'.at = "ensure" /\ seenBy'.last = {tree}
      /\ seenBy'.version = seenBy.version /\ seenBy'.dirty = {}
  BY <1>1
<1>3. tree = [r \in Paths |-> tree[r]]
  BY DEF Normalized, Refined
<1>4. CapTypeOK'
  BY <1>1, <1>2, <1>3 DEF CapInv, CapTypeOK
<1>5. SeenOK'
  BY <1>2 DEF SeenOK
<1>6. DirtyIsNews'
  <2>1. \A b \in bridge : b.version = seenBy.version => b.dirty = {}
    BY DEF CapInv, DirtyIsNews, SeenOK
  <2>2. \A b \in bridge : seenBy.version <= b.version /\ (b.version = 0 => b.dirty = {})
    BY DEF CapInv, DirtyIsNews
  <2> QED BY <1>2, <2>1, <2>2 DEF DirtyIsNews
<1>7. CleanIsCurrent'
  <2> PICK later : later = UNION {b.dirty : b \in bridge}
    OBVIOUS
  <2>1. OnTheWay' = later /\ OnTheWay = seenBy.dirty \cup later
    BY <1>2 DEF OnTheWay
  <2>2. later \in SUBSET AllPaths /\ seenBy.dirty \in SUBSET AllPaths
    BY DEF CapInv, CapTypeOK
  <2>3. DOMAIN dom \subseteq Elements
    BY PageIsOfElements DEF CapInv, CapTypeOK
  <2> SUFFICES ASSUME missed' = {}, NEW r \in Paths, ~ Overlaps(r, later),
                      NEW a \in Paths, IsPrefix(a, r)
               PROVE  tree[a] = Entries(dom, a)
    BY <1>2, <2>1 DEF CleanIsCurrent, CurrentOutside
  <2>4. CASE tree = Normalized(dom)
    BY <2>4 DEF Normalized
  <2>5. CASE missed' = missed /\ \E t \in seenBy.last : tree = Refined(dom, seenBy.dirty, t)
    <3>1. PICK t \in seenBy.last : tree = Refined(dom, seenBy.dirty, t)
      BY <2>5
    <3>2. CurrentOutside(seenBy.dirty \cup later, dom, t)
      BY <2>1, <2>5 DEF CapInv, CleanIsCurrent
    <3> PICK d, D : d = dom /\ D = seenBy.dirty
      OBVIOUS
    <3>3. DOMAIN d \subseteq Elements /\ D \in SUBSET AllPaths /\ later \in SUBSET AllPaths
      BY <2>2, <2>3
    <3>4. CurrentOutside(D \cup later, d, t)
      BY <3>2
    <3>5. Refined(d, D, t)[a] = Entries(d, a)
      BY <3>3, <3>4, RefinedIsCurrent
    <3> QED BY <3>1, <3>5
  <2> QED BY <2>4, <2>5
<1> QED BY <1>4, <1>5, <1>6, <1>7 DEF CapInv

(* The subscriber's other steps change what it waits for.                   *)
LEMMA EnsureKeeps ==
    ASSUME CapInv, EnsureBridge
    PROVE  CapInv'
<1> PICK b : /\ b = (IF bridge = {} THEN [version |-> 0, dirty |-> {}]
                     ELSE CHOOSE x \in bridge : TRUE)
             /\ bridge' = {b} /\ Noticed(b.version)
  BY DEF EnsureBridge
<1>1. \/ bridge = {} /\ b = [version |-> 0, dirty |-> {}]
      \/ bridge = {b}
  BY DEF CapInv, CapTypeOK
<1>2. /\ b = [version |-> b.version, dirty |-> b.dirty]
      /\ b.version \in Nat /\ b.dirty \subseteq AllPaths
      /\ b.version = 0 => b.dirty = {}
  BY <1>1 DEF CapInv, CapTypeOK, DirtyIsNews
<1>3. /\ seenBy'.at = IF b.version # seenBy.version THEN "take" ELSE "wait"
      /\ seenBy' = [at |-> seenBy'.at, last |-> seenBy.last,
                    version |-> b.version, dirty |-> seenBy.dirty]
  BY DEF Noticed, CapInv, CapTypeOK
<1>4. /\ seenBy'.last = seenBy.last /\ seenBy'.version = b.version
      /\ seenBy'.dirty = seenBy.dirty /\ seenBy'.at \in {"take", "wait"}
  BY <1>3
<1>5. seenBy.at = "ensure" /\ UNCHANGED <<dom, changes, missed>>
  BY DEF EnsureBridge
<1>6. CapTypeOK'
  BY <1>2, <1>3, <1>4, <1>5 DEF CapInv, CapTypeOK
<1>7. SeenOK'
  BY <1>4, <1>5 DEF CapInv, SeenOK
<1>8. DirtyIsNews'
  <2>1. ASSUME missed = {}, seenBy'.at # "take" PROVE b.dirty = {}
    <3>1. b.version = seenBy.version
      BY <1>3, <2>1
    <3>2. CASE bridge = {b}
      BY <1>5, <2>1, <3>1, <3>2 DEF CapInv, DirtyIsNews
    <3> QED BY <1>1, <3>2
  <2>2. b.version <= b.version
    BY <1>2
  <2>3. bridge' = {b} /\ missed' = missed
    BY <1>5
  <2>4. seenBy'.version = b.version /\ seenBy'.at # "capture"
    BY <1>4
  <2>5. \A x \in bridge' : x = b
    BY <2>3
  <2> QED BY <1>2, <2>1, <2>2, <2>3, <2>4, <2>5 DEF DirtyIsNews
<1>9. CleanIsCurrent'
  <2>1. OnTheWay' = OnTheWay
    <3>1. UNION {x.dirty : x \in bridge} = b.dirty
      BY <1>1
    <3>2. UNION {x.dirty : x \in bridge'} = b.dirty
      OBVIOUS
    <3> QED BY <1>4, <3>1, <3>2 DEF OnTheWay
  <2> QED BY <1>4, <1>5, <2>1 DEF CapInv, CleanIsCurrent
<1> QED BY <1>6, <1>7, <1>8, <1>9 DEF CapInv

(* A new event, or none in time.                                            *)
LEMMA WaitKeeps ==
    ASSUME CapInv, WaitForEvent
    PROVE  CapInv'
<1>1. seenBy.at = "wait" /\ UNCHANGED <<dom, bridge, changes, missed>>
  BY DEF WaitForEvent
<1>2. PICK at, v :
        /\ \/ at = "ensure" /\ v = seenBy.version
           \/ at = "take" /\ \E b \in bridge : v = b.version
        /\ seenBy' = [at |-> at, last |-> seenBy.last, version |-> v, dirty |-> seenBy.dirty]
  <2>1. CASE seenBy' = [seenBy EXCEPT !.at = "ensure"]
    BY <2>1 DEF CapInv, CapTypeOK
  <2>2. CASE \E b \in bridge : b.version > seenBy.version /\ Noticed(b.version)
    <3>1. PICK b \in bridge : b.version > seenBy.version /\ Noticed(b.version)
      BY <2>2
    <3>2. b.version # seenBy.version
      BY <3>1 DEF CapInv, CapTypeOK
    <3> QED BY <3>1, <3>2 DEF Noticed, CapInv, CapTypeOK
  <2> QED BY <2>1, <2>2 DEF WaitForEvent
<1>3. /\ seenBy'.at = at /\ seenBy'.last = seenBy.last /\ seenBy'.version = v
      /\ seenBy'.dirty = seenBy.dirty
  BY <1>2
<1>4. CapTypeOK'
  BY <1>1, <1>2, <1>3 DEF CapInv, CapTypeOK
<1>5. SeenOK'
  BY <1>1, <1>2, <1>3 DEF CapInv, SeenOK
<1>6. DirtyIsNews'
  <2>1. CASE at = "ensure" /\ v = seenBy.version
    BY <1>1, <1>3, <2>1 DEF CapInv, DirtyIsNews
  <2>2. CASE at = "take" /\ \E b \in bridge : v = b.version
    BY <1>1, <1>3, <2>2 DEF CapInv, DirtyIsNews, CapTypeOK
  <2> QED BY <1>2, <2>1, <2>2
<1>7. CleanIsCurrent'
  <2>1. OnTheWay' = OnTheWay
    BY <1>1, <1>3 DEF OnTheWay
  <2> QED BY <1>1, <1>3, <2>1 DEF CapInv, CleanIsCurrent
<1> QED BY <1>4, <1>5, <1>6, <1>7 DEF CapInv

(* The dirty paths change hands.                                            *)
LEMMA TakeKeeps ==
    ASSUME CapInv, TakeDirtyPaths
    PROVE  CapInv'
<1>1. /\ seenBy.at = "take" /\ seenBy.dirty = {} /\ UNCHANGED <<dom, changes, missed>>
      /\ bridge' = {[b EXCEPT !.dirty = {}] : b \in bridge}
  BY DEF TakeDirtyPaths, CapInv, SeenOK
<1> PICK taken : taken = UNION {b.dirty : b \in bridge}
  OBVIOUS
<1>2. seenBy' = [at |-> "capture", last |-> seenBy.last, version |-> seenBy.version, dirty |-> taken]
  BY DEF TakeDirtyPaths, CapInv, CapTypeOK
<1>3. /\ seenBy'.at = "capture" /\ seenBy'.last = seenBy.last
      /\ seenBy'.version = seenBy.version /\ seenBy'.dirty = taken
  BY <1>2
<1>4. \/ bridge = {} /\ bridge' = {}
      \/ \E b \in bridge : bridge' = {[version |-> b.version, dirty |-> {}]}
  <2>1. CASE bridge = {}
    BY <1>1, <2>1
  <2>2. CASE bridge # {}
    <3>1. PICK b \in bridge : bridge = {b} /\ b = [version |-> b.version, dirty |-> b.dirty]
      BY <2>2 DEF CapInv, CapTypeOK
    <3>2. [b EXCEPT !.dirty = {}] = [version |-> b.version, dirty |-> {}]
      BY <3>1
    <3> QED BY <1>1, <3>1, <3>2
  <2> QED BY <2>1, <2>2
<1>5. CapTypeOK'
  <2>1. taken \subseteq AllPaths
    BY DEF CapInv, CapTypeOK
  <2>2. \A c \in bridge' : /\ bridge' = {c} /\ c.version \in Nat
                            /\ c = [version |-> c.version, dirty |-> c.dirty]
                            /\ c.dirty \subseteq AllPaths
    <3>1. CASE bridge' = {}
      BY <3>1
    <3>2. CASE \E b \in bridge : bridge' = {[version |-> b.version, dirty |-> {}]}
      <4>1. PICK b \in bridge : bridge' = {[version |-> b.version, dirty |-> {}]}
        BY <3>2
      <4>2. b.version \in Nat
        BY DEF CapInv, CapTypeOK
      <4> PICK c : c = [version |-> b.version, dirty |-> {}]
        OBVIOUS
      <4>3. c.version = b.version /\ c.dirty = {}
        OBVIOUS
      <4> QED BY <4>1, <4>2, <4>3
    <3> QED BY <1>4, <3>1, <3>2
  <2>3. /\ dom \in Doms /\ changes \in 0..MaxChanges /\ missed \subseteq {"change", "capture"}
        /\ \A t \in seenBy.last : seenBy.last = {t} /\ t = [r \in Paths |-> t[r]]
        /\ seenBy.version \in Nat
    BY DEF CapInv, CapTypeOK
  <2> QED BY <1>1, <1>2, <1>3, <2>1, <2>2, <2>3 DEF CapTypeOK
<1>6. SeenOK'
  BY <1>1, <1>3 DEF CapInv, SeenOK
<1>7. DirtyIsNews'
  BY <1>1, <1>3, <1>4 DEF CapInv, DirtyIsNews
<1>8. CleanIsCurrent'
  <2>1. \A b \in bridge' : b.dirty = {}
    BY <1>4
  <2>2. UNION {b.dirty : b \in bridge'} = {}
    BY <2>1
  <2>3. OnTheWay' = OnTheWay
    BY <1>1, <1>3, <2>2 DEF OnTheWay
  <2> QED BY <1>1, <1>3, <2>3 DEF CapInv, CleanIsCurrent
<1> QED BY <1>5, <1>6, <1>7, <1>8 DEF CapInv

(* An error, and the end of the wait.                                       *)
LEMMA EndKeeps ==
    ASSUME CapInv, TransientError \/ WaitOver
    PROVE  CapInv'
<1>1. UNCHANGED <<dom, bridge, changes>>
  BY DEF TransientError, WaitOver
<1>2. PICK at, last, v :
        /\ \/ at = "ensure" /\ last = seenBy.last /\ v = seenBy.version /\ missed' = missed \cup {"capture"}
           \/ at = "initial" /\ last = {} /\ v = 0 /\ missed' = {}
        /\ seenBy' = [at |-> at, last |-> last, version |-> v, dirty |-> {}]
  BY DEF TransientError, WaitOver, CapInv, CapTypeOK
<1>3. seenBy'.at = at /\ seenBy'.last = last /\ seenBy'.version = v /\ seenBy'.dirty = {}
  BY <1>2
<1>4. v \in Nat /\ \A b \in bridge : b.version \in Nat /\ v <= b.version
  BY <1>2 DEF CapInv, CapTypeOK, DirtyIsNews
<1>5. CapTypeOK'
  BY <1>1, <1>2, <1>3, <1>4 DEF CapInv, CapTypeOK
<1>6. SeenOK'
  BY <1>2, <1>3 DEF CapInv, SeenOK
<1>7. DirtyIsNews'
  <2>1. \A b \in bridge : b.version = 0 => b.dirty = {}
    BY DEF CapInv, DirtyIsNews
  <2>2. v = 0 \/ missed' # {}
    BY <1>2
  <2> QED BY <1>1, <1>2, <1>3, <1>4, <2>1, <2>2 DEF DirtyIsNews
<1>8. CleanIsCurrent'
  <2>1. last = {} \/ missed' # {}
    BY <1>2
  <2> QED BY <1>3, <2>1 DEF CleanIsCurrent
<1> QED BY <1>5, <1>6, <1>7, <1>8 DEF CapInv

(* In every reachable state the last state is current wherever no dirty     *)
(* path is on the way, whatever the page and the order of its changes.      *)
THEOREM CapInvariant ==
    ASSUME PresentationalApart
    PROVE  CapSpec => []CapInv
<1>1. CapInit => CapInv
  <2> SUFFICES ASSUME CapInit PROVE CapInv
    OBVIOUS
  <2>1. /\ seenBy.at = "initial" /\ seenBy.last = {} /\ seenBy.version = 0 /\ seenBy.dirty = {}
        /\ missed = {} /\ bridge = {} /\ changes = 0 /\ dom \in Doms
        /\ seenBy = [at |-> seenBy.at, last |-> seenBy.last,
                     version |-> seenBy.version, dirty |-> seenBy.dirty]
    BY DEF CapInit
  <2>2. CapTypeOK
    BY <2>1, PageAssumption DEF CapTypeOK, PageAssumption
  <2>3. SeenOK /\ DirtyIsNews /\ CleanIsCurrent
    BY <2>1 DEF SeenOK, DirtyIsNews, CleanIsCurrent
  <2> QED BY <2>2, <2>3 DEF CapInv
<1>2. CapInv /\ [CapNext]_capVars => CapInv'
  <2> SUFFICES ASSUME CapInv, [CapNext]_capVars PROVE CapInv'
    OBVIOUS
  <2>1. ASSUME NEW e \in DOMAIN dom \cap Changing, TextChanges(e) PROVE CapInv'
    BY <2>1, TextKeeps
  <2>2. ASSUME NEW e \in Optional, ChildrenChange(e) PROVE CapInv'
    BY <2>2, ChildrenKeep
  <2>3. CASE NewDocument
    BY <2>3, UntoldChange DEF NewDocument
  <2>4. CASE InitialSnapshot
    BY <2>4, CaptureKeeps DEF InitialSnapshot
  <2>5. CASE EnsureBridge
    BY <2>5, EnsureKeeps
  <2>6. CASE WaitForEvent
    BY <2>6, WaitKeeps
  <2>7. CASE TakeDirtyPaths
    BY <2>7, TakeKeeps
  <2>8. CASE CaptureNext
    BY <2>8, CaptureKeeps DEF CaptureNext
  <2>9. CASE TransientError \/ WaitOver
    BY <2>9, EndKeeps
  <2>10. CASE UNCHANGED capVars
    <3>1. OnTheWay' = OnTheWay
      BY <2>10 DEF capVars, OnTheWay
    <3> QED BY <2>10, <3>1 DEF capVars, CapInv, CapTypeOK, SeenOK, DirtyIsNews, CleanIsCurrent
  <2> QED BY <2>1, <2>2, <2>3, <2>4, <2>5, <2>6, <2>7, <2>8, <2>9, <2>10 DEF CapNext, Subscriber
<1> QED BY <1>1, <1>2, PTL DEF CapSpec

(* What a quiet subscriber believes is the page, and the stable keys of any *)
(* page tell its elements apart.                                            *)
THEOREM CaptureFaithful ==
    ASSUME PresentationalApart
    PROVE  CapSpec => []CaptureIsFaithful
<1>1. CapInv => CaptureIsFaithful
  <2> SUFFICES ASSUME CapInv PROVE CaptureIsFaithful
    OBVIOUS
  <2>1. DOMAIN dom \subseteq Elements
    BY PageIsOfElements DEF CapInv, CapTypeOK
  <2>2. QuietMeansCurrent
    <3> SUFFICES ASSUME Quiet PROVE seenBy.last = {Normalized(dom)}
      BY DEF QuietMeansCurrent
    <3>1. PICK b \in bridge : b.version = seenBy.version
      BY DEF Quiet, UpToDate
    <3>2. seenBy.at = "wait" /\ missed = {}
      BY DEF Quiet, UpToDate
    <3>3. bridge = {b} /\ b.dirty = {} /\ seenBy.dirty = {}
      BY <3>1, <3>2 DEF CapInv, CapTypeOK, DirtyIsNews, SeenOK
    <3>4. OnTheWay = {}
      BY <3>3, OnTheWayIs
    <3>5. PICK t : seenBy.last = {t} /\ t = [r \in Paths |-> t[r]]
      BY <3>2 DEF CapInv, SeenOK, CapTypeOK
    <3>6. ASSUME NEW r \in Paths PROVE t[r] = Entries(dom, r)
      <4>1. ~ Overlaps(r, OnTheWay)
        BY <3>4 DEF Overlaps
      <4>2. IsPrefix(r, r)
        BY PathTypes, PrefixOrder
      <4> QED BY <3>2, <3>5, <4>1, <4>2 DEF CapInv, CleanIsCurrent, CurrentOutside
    <3> QED BY <3>5, <3>6 DEF Normalized
  <2>3. KeysTellApart
    BY <2>1, KeysApart DEF KeysTellApart
  <2> QED BY <2>2, <2>3 DEF CaptureIsFaithful
<1> QED BY <1>1, CapInvariant, PTL
=============================================================================
