--------------------------- MODULE StateDelivery ----------------------------
(***************************************************************************)
(* How a captured tree reaches a reader (sre/state.rs, prompt_injection.rs *)
(* and the delta mode of get_state): text is checked for injected prompts, *)
(* the hash is compared with that of the state before, and the reader gets *)
(* nothing, a patch or the state; the fast and full states are selections  *)
(* of its nodes.  The reader holds the tree, as a user of apply_to_root    *)
(* does; get_state's own full answer is the list of interactive elements.  *)
(*                                                                         *)
(* A tree is a function from paths to nodes; the root's path is <<>>, its  *)
(* k-th child's <<k>>.  A text is a sequence of pieces: words, a known     *)
(* phrase as it is written, and one only its normalization shows (look-    *)
(* alike letters, invisible characters).  The stable key, which is made    *)
(* before, stays with the node and is left out; attributes other than role *)
(* are one text.                                                           *)
(***************************************************************************)
EXTENDS Naturals, Sequences, FiniteSets

CONSTANTS
    FirstTrees,     \* trees the page may have first
    LaterTrees(_),  \* trees one change makes of a tree
    SanModes,       \* PromptInjectionMode: "off", "report_only", "redact"
    LoadProfiles,   \* LoadProfile
    DeltaOperations,\* DeltaPolicy.max_operations
    MaxTreeChanges, \* bound: changes of the page
    MaxUpdates      \* bound: updates the reader asks for

VARIABLES
    sanMode, loadProfile,
    pageTree,       \* the page as the SRE would capture it
    previousState,  \* previous_semantic_state: {} or {tree}
    readerTree,     \* what the reader holds
    capturedTree,   \* history: the capture behind the last update
    layered,        \* the fast and full states of the last capture
    treeChanges, updates

(* A node of a tree, and a tree: below a node is a child of it.            *)
IsNode(n) ==
    /\ n = [role |-> n.role, aria |-> n.aria, label |-> n.label, alias |-> n.alias,
            attributes |-> n.attributes, flagged |-> n.flagged, id |-> n.id]
    /\ n.flagged \in BOOLEAN

Above(p) == SubSeq(p, 1, Len(p) - 1)

IsTree(tree) ==
    \A p \in DOMAIN tree :
        /\ p \in Seq(Nat) /\ IsNode(tree[p])
        /\ p # <<>> => Above(p) \in DOMAIN tree

ASSUME DeliveryAssumption == \A tree \in FirstTrees : IsTree(tree)

deliveryVars == <<sanMode, loadProfile, pageTree, previousState, readerTree,
                  capturedTree, layered, treeChanges, updates>>

-----------------------------------------------------------------------------
(* Prompt injection.                                                       *)

Placeholder == "[REDACTED_SECURITY]"

(* is_detected: in a normalized variant of the text *)
IsDetected(text) == \E k \in DOMAIN text : text[k] \in {"phrase", "veiled"}

(* Mutant: what only normalization shows stays.                            *)
RedactTextDirect(text) ==
    [k \in DOMAIN text |-> IF text[k] = "phrase" THEN Placeholder ELSE text[k]]

RedactText(text) ==
    LET redacted == [k \in DOMAIN text |-> IF text[k] = "phrase" THEN Placeholder
                                           ELSE text[k]]
    IN  IF IsDetected(redacted) THEN <<Placeholder>> ELSE redacted

ProcessText(text) ==
    IF IsDetected(text) /\ sanMode = "redact" THEN RedactText(text) ELSE text

Fields == {"label", "alias", "attributes"}

SanitizeNode(n) ==
    IF sanMode = "off" THEN n
    ELSE [n EXCEPT !.label = ProcessText(@), !.alias = ProcessText(@),
                   !.attributes = ProcessText(@),
                   !.flagged = @ \/ \E f \in Fields : IsDetected(n[f])]

SanitizedWith(tree) == [p \in DOMAIN tree |-> SanitizeNode(tree[p])]

-----------------------------------------------------------------------------
(* Selections.  What is asked of a node's ancestors is passed down.        *)

IsNavLandmark(n, inSectioning) ==
    \/ n.role = "nav"
    \/ n.role \in {"header", "footer"} /\ ~inSectioning
    \/ n.aria \in {"navigation", "banner", "contentinfo"}

IsSectioning(n) == n.role \in {"article", "aside", "main", "nav", "section"}

IsInteractive(n) ==
    \/ n.role \in {"a", "button", "input", "select", "textarea", "option", "summary"}
    \/ n.aria \in {"button", "link", "checkbox", "radio", "switch", "tab",
                   "menuitem", "option"}

IsAnchor(n) == n.role = "a" \/ n.aria = "link"
IsMessage(n) == n.role = "text" /\ n.label # <<>>

IsFormNode(n) ==
    n.role \in {"form", "input", "select", "textarea", "button", "label", "option"}

IsRegion(n) ==
    \/ n.role \in {"main", "nav", "section", "article", "aside", "header", "footer"}
    \/ n.aria \in {"region", "main", "navigation", "complementary", "banner",
                   "contentinfo"}

(* Mutant: only the parent is asked.                                       *)
InSectioningOfParent(tree) ==
    [p \in DOMAIN tree |-> p # <<>> /\ IsSectioning(tree[Above(p)])]

(* inside_sectioning_content of the call for a node *)
InSectioning(tree) ==
    LET inside[p \in DOMAIN tree] ==
            p # <<>> /\ (inside[Above(p)] \/ IsSectioning(tree[Above(p)]))
    IN  inside

(* in_landmark_now *)
InLandmark(tree) ==
    LET now[p \in DOMAIN tree] ==
            \/ p # <<>> /\ now[Above(p)]
            \/ IsNavLandmark(tree[p], InSectioning(tree)[p])
    IN  now

(* collect_nodes_matching, by the name of its predicate *)
CollectMatching(tree, predicate) ==
    {p \in DOMAIN tree : CASE predicate = "interactive" -> IsInteractive(tree[p])
                           [] predicate = "message"     -> IsMessage(tree[p])
                           [] predicate = "form"        -> IsFormNode(tree[p])
                           [] predicate = "region"      -> IsRegion(tree[p])}

CollectFiltered(tree) ==
    {p \in DOMAIN tree : /\ IsInteractive(tree[p])
                         /\ ~(InLandmark(tree)[p] /\ IsAnchor(tree[p]))}

GenerateFastState(tree) ==
    [interactive_elements |-> IF loadProfile = "interactive"
                              THEN CollectMatching(tree, "interactive")
                              ELSE CollectFiltered(tree),
     messages |-> CollectMatching(tree, "message")]

GenerateFullState(tree) ==
    [forms |-> CollectMatching(tree, "form"),
     regions |-> CollectMatching(tree, "region")]

-----------------------------------------------------------------------------
(* Updates.                                                                *)

(* Mutant: attributes are not hashed.                                      *)
HashNodeNoAttributes(n) == [n EXCEPT !.id = 0, !.attributes = <<>>]

(* what compute_hash tells apart: everything but backend_node_id *)
HashNode(n) == [n EXCEPT !.id = 0]
ComputeHash(tree) == [p \in DOMAIN tree |-> HashNode(tree[p])]

(* json_patch::diff and its application *)
Diff(old, new) ==
    [gone |-> DOMAIN old \ DOMAIN new,
     put |-> {<<p, new[p]>> : p \in {q \in DOMAIN new :
                 IF q \in DOMAIN old THEN old[q] # new[q] ELSE TRUE}}]

ApplyToRoot(patch, base) ==
    LET given == {put[1] : put \in patch.put}
    IN  [p \in (DOMAIN base \ patch.gone) \cup given |->
            IF p \in given THEN (CHOOSE put \in patch.put : put[1] = p)[2] ELSE base[p]]

OperationCount(patch) == Cardinality(patch.gone) + Cardinality(patch.put)

(* should_send_delta; whether the patch is small beside the state is free  *)
ShouldSendDelta(patch, small) == OperationCount(patch) <= DeltaOperations /\ small

SelectUpdate(old, new, small) ==
    LET patch == Diff(CHOOSE t \in old : TRUE, new)
    IN  IF old = {} THEN [kind |-> "full", tree |-> new]
        ELSE IF ComputeHash(CHOOSE t \in old : TRUE) = ComputeHash(new)
             THEN [kind |-> "noop"]
        ELSE IF ShouldSendDelta(patch, small) THEN [kind |-> "delta", patch |-> patch]
        ELSE [kind |-> "full", tree |-> new]

-----------------------------------------------------------------------------
DeliveryInit ==
    /\ sanMode \in SanModes /\ loadProfile \in LoadProfiles
    /\ pageTree \in FirstTrees
    /\ previousState = {} /\ readerTree = <<>> /\ capturedTree = <<>>
    /\ layered = [fast |-> {}, full |-> {}]
    /\ treeChanges = 0 /\ updates = 0

(* the page itself: a script, or a render that gives nodes new ids *)
TreeChanges ==
    /\ treeChanges < MaxTreeChanges
    /\ treeChanges' = treeChanges + 1
    /\ pageTree' \in {tree \in LaterTrees(pageTree) : IsTree(tree)}
    /\ UNCHANGED <<sanMode, loadProfile, previousState, readerTree, capturedTree,
                   layered, updates>>

(* force_refresh drops the state before; each delta goes to the reader *)
GetUpdate(forceRefresh, small) ==
    LET new == SanitizedWith(pageTree)
        update == SelectUpdate(IF forceRefresh THEN {} ELSE previousState, new, small)
    IN  /\ updates < MaxUpdates
        /\ updates' = updates + 1
        /\ readerTree' = CASE update.kind = "noop" -> readerTree
                           [] update.kind = "full" -> update.tree
                           [] OTHER -> ApplyToRoot(update.patch, readerTree)
        /\ previousState' = {new}
        /\ capturedTree' = pageTree
        /\ layered' = [fast |-> {GenerateFastState(new)}, full |-> {GenerateFullState(new)}]
        /\ UNCHANGED <<sanMode, loadProfile, pageTree, treeChanges>>

DeliveryNext ==
    \/ TreeChanges
    \/ \E forceRefresh, small \in BOOLEAN : GetUpdate(forceRefresh, small)

DeliverySpec == DeliveryInit /\ [][DeliveryNext]_deliveryVars

-----------------------------------------------------------------------------
(* A reader that applies every update to what it has, however patches,     *)
(* full states and silence alternate, holds the last state but for node    *)
(* ids: a state that differs from the one before in ids alone is not sent, *)
(* and the next patch is made against it all the same.                     *)
ReaderFollows ==
    updates > 0 => \A t \in previousState :
        /\ DOMAIN readerTree = DOMAIN t
        /\ \A p \in DOMAIN t : [readerTree[p] EXCEPT !.id = 0] = [t[p] EXCEPT !.id = 0]

(* Whatever a reader holds of a phrase the page shows, it holds with the   *)
(* mark; in redact mode it holds no phrase, neither as written nor veiled, *)
(* and in report_only mode it holds the page's words.                      *)
DetectedIsMarked ==
    updates > 0 /\ sanMode # "off" => \A p \in DOMAIN readerTree :
        LET shown == capturedTree[p]
            held == readerTree[p]
        IN  /\ (\E f \in Fields : IsDetected(shown[f])) => held.flagged
            /\ sanMode = "redact" => ~\E f \in Fields : IsDetected(held[f])
            /\ sanMode = "report_only" => \A f \in Fields : held[f] = shown[f]

(* The fast state leaves out an element that can be used only when it is a *)
(* link in a landmark of the page: in a nav, in what has such an ARIA      *)
(* role, or in a header or footer that no article, section, main, aside or *)
(* nav encloses at any distance; the interactive profile leaves out none.  *)
FastStateComplete ==
    \A fast \in layered.fast : \A t \in previousState :
        LET around(p) == {SubSeq(p, 1, k) : k \in 0..Len(p)}
            landmark(q) == \/ t[q].role = "nav"
                           \/ t[q].aria \in {"navigation", "banner", "contentinfo"}
                           \/ /\ t[q].role \in {"header", "footer"}
                              /\ \A r \in around(q) \ {q} : ~IsSectioning(t[r])
        IN  fast.interactive_elements =
                {p \in DOMAIN t :
                    /\ IsInteractive(t[p])
                    /\ loadProfile = "interactive" \/ ~IsAnchor(t[p])
                       \/ \A q \in around(p) : ~landmark(q)}

(* What a reader holds is the last state, with its marks, and the layers of *)
(* that state are complete.                                                *)
DeliveryIsFaithful == ReaderFollows /\ DetectedIsMarked /\ FastStateComplete

(* The strengthening that makes it inductive: what was sent is the checked *)
(* text of what was captured, and the reader's nodes are its nodes, ids    *)
(* apart.                                                                  *)
SameButId(n, m) == [n EXCEPT !.id = 0] = [m EXCEPT !.id = 0]

ReaderHolds(t) ==
    /\ DOMAIN readerTree = DOMAIN t
    /\ \A p \in DOMAIN t : IsNode(readerTree[p]) /\ SameButId(readerTree[p], t[p])

DeliveryInv ==
    /\ IsTree(pageTree)
    /\ \A t, u \in previousState : t = u
    /\ \A t \in previousState :
         /\ IsTree(capturedTree) /\ t = SanitizedWith(capturedTree)
         /\ ReaderHolds(t)
         /\ layered.fast = {GenerateFastState(t)}
    /\ previousState = {} => readerTree = <<>> /\ layered.fast = {}
=============================================================================
