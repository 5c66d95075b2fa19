-------------------------- MODULE SemanticCapture --------------------------
(***************************************************************************)
(* A semantic wait: SreEventSubscriber and the event bridge it installs in *)
(* the page, the normalization of the DOM with reuse of cached subtrees    *)
(* (subtree refinement), and stable keys.                                  *)
(*                                                                         *)
(* The page's elements have fixed places (Parent, Tag); their text and     *)
(* whether the optional ones are there change.  Mutations and calls into   *)
(* the page do not overlap: the observer runs before the page's script     *)
(* yields.                                                                 *)
(*                                                                         *)
(* Paths are made of tags only, so several elements may share one.  A      *)
(* semantic tree is taken apart by paths: for each, the entries of the     *)
(* elements there, in document order.  That says all of the tree, for an   *)
(* entry names its element and an element's place is fixed; and keys are   *)
(* numbered among the elements of one path, which are never below one      *)
(* another.                                                                *)
(***************************************************************************)
EXTENDS Naturals, Sequences, FiniteSets, SequencesExt

CONSTANTS
    Parent, Tag,     \* of the elements 1, 2, ... in document order
    Changing,        \* elements whose text changes
    Optional,        \* elements scripts add and remove
    Presentational,  \* elements with role="presentation"
    Texts,           \* labels
    MaxDirty,        \* limit of dirtyPaths
    MaxChanges       \* bound: changes of the page

VARIABLES
    dom,       \* the page: the text of the elements that are there
    bridge,    \* the page's event bridge: version and dirty paths, {} or one
    changes,   \* auxiliary: changes so far
    seenBy,    \* SreEventSubscriber: at, last_state, last_event_version
    missed     \* auxiliary: what went untold since the last full capture

capVars == <<dom, bridge, changes, seenBy, missed>>

Root == 1
Elements == DOMAIN Parent

PageAssumption ==
    /\ Parent \in Seq(Nat) /\ Parent # <<>> /\ DOMAIN Tag = Elements
    /\ \A e \in Elements : Parent[e] < e /\ (Parent[e] = 0 <=> e = Root)
    /\ Optional \subseteq Elements \ {Root} /\ "constant" \notin Texts
    /\ MaxDirty \in Nat /\ MaxChanges \in Nat
ASSUME PageAssumption

Doms == {d \in UNION {[P -> Texts \cup {"constant"}] : P \in {Elements \ o : o \in SUBSET Optional}} :
            \A e \in DOMAIN d : /\ e = Root \/ Parent[e] \in DOMAIN d
                                /\ e \in Changing <=> d[e] \in Texts}

(* The path of tag names from the document, which has the empty one.       *)
Path[e \in 0..Len(Parent)] ==
    IF e = 0 THEN <<>> ELSE Append(Path[Parent[e]], Tag[e])

Paths == {Path[e] : e \in Elements}

(* Of a page: no presentational element shares its path with another one.  *)
(* Where one does the index of paths, which has the elements that are      *)
(* shown, and the traversal, which asks for all, disagree.                 *)
PresentationalApart ==
    \A e \in Presentational, f \in Elements : Path[f] = Path[e] => f = e

-----------------------------------------------------------------------------
(* Normalization.                                                          *)

(* build_semantic_path_index: the paths that occur once.                   *)
UniquePaths(tree) == {r \in DOMAIN tree : Len(tree[r]) = 1}

(* Mutant: a path above a dirty one counts as clean.                       *)
OverlapsBelow(path, dirty) == \E d \in dirty : IsPrefix(d, path)

(* path_overlaps_dirty_set                                                 *)
Overlaps(path, dirty) == \E d \in dirty : IsPrefix(d, path) \/ IsPrefix(path, d)

(* resolve_cached_subtree; the cached entry has the path's role.           *)
Reusable(path, dirty, cached) ==
    path \in UniquePaths(cached) /\ ~ Overlaps(path, dirty)

(* What is below a presentational element is left out with it.             *)
Hidden[e \in 0..Len(Parent)] ==
    e # 0 /\ (e \in Presentational \/ Hidden[Parent[e]])

(* The elements traverse_node is called for, and those it gives a node to. *)
ReachedAt(d, path) == {e \in DOMAIN d : Path[e] = path /\ ~ Hidden[Parent[e]]}
ShownAt(d, path) == ReachedAt(d, path) \ Presentational

DocumentOrder(es) ==
    [k \in 1..Cardinality(es) |->
        CHOOSE e \in es : Cardinality({f \in es : f <= e}) = k]

(* Mutant: no index for a second element of the same content.              *)
KeyWithoutIndex(path, labels, k) == <<path, labels[k], 1>>

(* StableKeyGenerator::generate_key: the content, and an index from the    *)
(* second time on.                                                         *)
Key(path, labels, k) ==
    <<path, labels[k], Cardinality({j \in 1..k : labels[j] = labels[k]})>>

(* The nodes traverse_node makes of the elements at a path.                *)
Nodes(shown, path) ==
    LET es == DocumentOrder(DOMAIN shown)
        labels == [k \in DOMAIN es |-> shown[es[k]]]
    IN  [k \in DOMAIN es |->
            [label |-> labels[k], node |-> es[k], key |-> Key(path, labels, k)]]

Entries(d, path) == Nodes([e \in ShownAt(d, path) |-> d[e]], path)

Normalized(d) == [r \in Paths |-> Entries(d, r)]

Copies(s, n) == [k \in 1..n * Len(s) |-> s[1 + ((k - 1) % Len(s))]]

(* traverse_node with a cached tree: each element at a reusable path is    *)
(* answered with the cached subtree, before its attributes are looked at;  *)
(* the topmost such path decides for all below it.                         *)
Refined(d, dirty, cached) ==
    [r \in Paths |->
        LET reused == {a \in Paths : IsPrefix(a, r) /\ Reusable(a, dirty, cached)}
            topmost == CHOOSE a \in reused : \A b \in reused : Len(a) <= Len(b)
        IN  IF reused = {} THEN Entries(d, r)
            ELSE Copies(cached[r], Cardinality(ReachedAt(d, topmost)))]

-----------------------------------------------------------------------------
(* The page.                                                               *)

CapInit ==
    /\ dom \in Doms
    /\ bridge = {}
    /\ changes = 0
    /\ seenBy = [at |-> "initial", last |-> {}, version |-> 0, dirty |-> {}]
    /\ missed = {}

(* queuePath: at the limit the document's path stands for all of them.     *)
QueuePath(dirty, path) ==
    IF path \in dirty THEN dirty
    ELSE IF Cardinality(dirty) >= MaxDirty THEN {Path[0]}
    ELSE dirty \cup {path}

(* queueNodeAndParent: of an element and, below the root, of its parent.   *)
QueueNodeAndParent(dirty, e) ==
    LET own == QueuePath(dirty, Path[e])
    IN  IF e = Root THEN own ELSE QueuePath(own, Path[Parent[e]])

(* notify: the mutation's target, and the element that was added; for one  *)
(* that was removed the target again; 0 when no child came or went.        *)
Notify(target, child) ==
    bridge' = {[version |-> b.version + 1,
                dirty |-> LET own == QueueNodeAndParent(b.dirty, target)
                          IN  IF child = 0 THEN own
                              ELSE QueueNodeAndParent(own, child)] : b \in bridge}

(* What nothing tells the subscriber of: changes before there is a bridge. *)
(* Before its first event it takes a new bridge's version 0 for the one it *)
(* knows; later it notices another version, but the dirty paths it then    *)
(* finds are those of the new bridge only.                                 *)
Untold == IF seenBy.at = "initial" THEN {} ELSE {"change"}

TextChanges(e) ==
    /\ changes < MaxChanges
    /\ \E t \in Texts \ {dom[e]} : dom' = [dom EXCEPT ![e] = t]
    /\ Notify(e, 0)
    /\ changes' = changes + 1
    /\ missed' = missed \cup (IF bridge = {} THEN Untold ELSE {})
    /\ UNCHANGED seenBy

(* For a child list the target is the parent of what came or went.         *)
ChildrenChange(e) ==
    /\ changes < MaxChanges
    /\ dom' \in {d \in Doms : /\ (DOMAIN d \ {e}) = (DOMAIN dom \ {e})
                              /\ (e \in DOMAIN d) # (e \in DOMAIN dom)
                              /\ \A x \in DOMAIN dom \ {e} : d[x] = dom[x]}
    /\ Notify(Parent[e], IF e \in DOMAIN dom THEN Parent[e] ELSE e)
    /\ changes' = changes + 1
    /\ missed' = missed \cup (IF bridge = {} THEN Untold ELSE {})
    /\ UNCHANGED seenBy

(* A new document has no bridge.                                           *)
NewDocument ==
    /\ changes < MaxChanges
    /\ dom' \in Doms
    /\ bridge' = {}
    /\ changes' = changes + 1
    /\ missed' = missed \cup Untold
    /\ UNCHANGED seenBy

-----------------------------------------------------------------------------
(* wait_next_state_event.                                                  *)

(* capture_next_state_if_changed.  Without dirty paths, without a last     *)
(* state or in a viewport other than the default one everything is         *)
(* normalized anew; the viewport may be any.                               *)
FullCapture ==
    /\ seenBy' = [seenBy EXCEPT !.at = "ensure", !.dirty = {}, !.last = {Normalized(dom)}]
    /\ missed' = {}

RefinedCapture ==
    /\ seenBy.dirty # {}
    /\ \E cached \in seenBy.last :
         seenBy' = [seenBy EXCEPT !.at = "ensure", !.dirty = {},
                                  !.last = {Refined(dom, seenBy.dirty, cached)}]
    /\ UNCHANGED missed

InitialSnapshot ==
    /\ seenBy.at = "initial"
    /\ FullCapture
    /\ UNCHANGED <<dom, bridge, changes>>

(* ensure_sre_event_bridge, and what its version says.                     *)
Noticed(version) ==
    seenBy' = IF version # seenBy.version
              THEN [seenBy EXCEPT !.at = "take", !.version = version]
              ELSE [seenBy EXCEPT !.at = "wait"]

EnsureBridge ==
    /\ seenBy.at = "ensure"
    /\ LET b == IF bridge = {} THEN [version |-> 0, dirty |-> {}]
                ELSE CHOOSE x \in bridge : TRUE
       IN  bridge' = {b} /\ Noticed(b.version)
    /\ UNCHANGED <<dom, changes, missed>>

(* wait_for_sre_event: a later version, or a timeout.                      *)
WaitForEvent ==
    /\ seenBy.at = "wait"
    /\ \/ \E b \in bridge : b.version > seenBy.version /\ Noticed(b.version)
       \/ seenBy' = [seenBy EXCEPT !.at = "ensure"]
    /\ UNCHANGED <<dom, bridge, changes, missed>>

TakeDirtyPaths ==
    /\ seenBy.at = "take"
    /\ seenBy' = [seenBy EXCEPT !.at = "capture",
                     !.dirty = UNION {b.dirty : b \in bridge}]
    /\ bridge' = {[b EXCEPT !.dirty = {}] : b \in bridge}
    /\ UNCHANGED <<dom, changes, missed>>

CaptureNext ==
    /\ seenBy.at = "capture"
    /\ FullCapture \/ RefinedCapture
    /\ UNCHANGED <<dom, bridge, changes>>

(* A transient error: the loop goes on, and the paths that were taken are  *)
(* gone.  Without an initial snapshot the next capture is a full one.      *)
TransientError ==
    /\ seenBy.at \in {"initial", "take", "capture"}
    /\ seenBy' = [seenBy EXCEPT !.at = "ensure", !.dirty = {}]
    /\ missed' = missed \cup {"capture"}
    /\ UNCHANGED <<dom, bridge, changes>>

(* The target matched, the time is over or an error ended the wait.  The   *)
(* next wait makes a new subscriber and finds the page's bridge.           *)
WaitOver ==
    /\ seenBy.at \in {"ensure", "take", "capture"}
    /\ seenBy' = [at |-> "initial", last |-> {}, version |-> 0, dirty |-> {}]
    /\ missed' = {}
    /\ UNCHANGED <<dom, bridge, changes>>

Subscriber ==
    \/ InitialSnapshot \/ EnsureBridge \/ WaitForEvent \/ TakeDirtyPaths
    \/ CaptureNext

CapNext ==
    \/ \E e \in DOMAIN dom \cap Changing : TextChanges(e)
    \/ \E e \in Optional : Parent[e] \in DOMAIN dom /\ ChildrenChange(e)
    \/ NewDocument
    \/ Subscriber \/ TransientError \/ WaitOver

CapSpec == CapInit /\ [][CapNext]_capVars

-----------------------------------------------------------------------------

(* The subscriber waits for the next event and has seen the page's version. *)
UpToDate == seenBy.at = "wait" /\ \E b \in bridge : b.version = seenBy.version

(* Nothing was missed since the last full capture: there was a bridge when *)
(* the page changed, of the document that was captured, and no capture     *)
(* failed after the paths were taken.                                      *)
Quiet == UpToDate /\ missed = {}

(* What a quiet subscriber believes is true: its last state is what a full *)
(* normalization of the page gives.  Reusing cached subtrees, of a page    *)
(* that changed again while it was captured too, leaves nothing stale.     *)
QuietMeansCurrent == Quiet => seenBy.last = {Normalized(dom)}

(* The stable keys of a page tell its elements apart, so the index has an  *)
(* entry for each: a key begins with the path, and of the elements at one  *)
(* path those with one label have different keys too.                      *)
KeysTellApart ==
    \A p \in Paths :
        LET there == Entries(dom, p)
        IN  \A i, j \in DOMAIN there : i # j => there[i].key # there[j].key

(* The subscriber's state is the page's, and the keys in it are unambiguous: *)
(* capture by parts loses nothing of what a whole capture gives.           *)
CaptureIsFaithful == QuietMeansCurrent /\ KeysTellApart

(* docs/SPEC.md:55 and normalization.rs:213: elements with                 *)
(* role="presentation" are excluded from the normalized state.  So what a  *)
(* quiet subscriber believes has no more entries for a path than there are *)
(* other elements there.                                                   *)
PresentationalIsLeftOut ==
    Quiet => \A t \in seenBy.last, r \in Paths :
                Len(t[r]) <= Cardinality({e \in DOMAIN dom \ Presentational : Path[e] = r})

-----------------------------------------------------------------------------
(* Why, as an inductive invariant.                                         *)

AllPaths == {Path[e] : e \in 0..Len(Parent)}

CapTypeOK ==
    /\ dom \in Doms
    /\ changes \in 0..MaxChanges
    /\ missed \subseteq {"change", "capture"}
    /\ \A b \in bridge : /\ bridge = {b} /\ b.version \in Nat
                         /\ b = [version |-> b.version, dirty |-> b.dirty]
                         /\ b.dirty \subseteq AllPaths
    /\ seenBy = [at |-> seenBy.at, last |-> seenBy.last,
                 version |-> seenBy.version, dirty |-> seenBy.dirty]
    /\ seenBy.at \in {"initial", "ensure", "wait", "take", "capture"}
    /\ \A t \in seenBy.last : seenBy.last = {t} /\ t = [r \in Paths |-> t[r]]
    /\ seenBy.version \in Nat
    /\ seenBy.dirty \subseteq AllPaths

(* What the subscriber holds at each point of its loop.                    *)
SeenOK ==
    /\ seenBy.at = "initial" =>
          seenBy.last = {} /\ seenBy.version = 0 /\ missed = {}
    /\ seenBy.at # "capture" => seenBy.dirty = {}
    /\ seenBy.last = {} => seenBy.at = "initial" \/ missed # {}

(* Dirty paths come with a version the subscriber has not seen yet.        *)
DirtyIsNews ==
    \A b \in bridge :
        /\ seenBy.version <= b.version
        /\ b.version = 0 => b.dirty = {}
        /\ seenBy.at = "capture" \/ (seenBy.at # "take" /\ missed = {}) =>
              (b.version = seenBy.version => b.dirty = {})

(* Where no dirty path is on the way the last state is current, and so it  *)
(* is at every path above.                                                 *)
OnTheWay == seenBy.dirty \cup UNION {b.dirty : b \in bridge}

CurrentOutside(dirty, d, tree) ==
    \A r \in Paths : ~ Overlaps(r, dirty) =>
        \A a \in Paths : IsPrefix(a, r) => tree[a] = Entries(d, a)

CleanIsCurrent ==
    missed = {} => \A t \in seenBy.last : CurrentOutside(OnTheWay, dom, t)

CapInv == CapTypeOK /\ SeenOK /\ DirtyIsNews /\ CleanIsCurrent
=============================================================================
