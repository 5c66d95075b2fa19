----------------------------- MODULE McpBackend -----------------------------
(***************************************************************************)
(* CoreRuntimeBackend as the tools see it: the cached answer, the delta    *)
(* baseline, the action cursors and the SpeculativeEngine that learns from *)
(* captures and serves a predicted state before it is captured.            *)
(*                                                                         *)
(* A page is the hash of its semantic state and an action its signature,   *)
(* both natural numbers so that ties are broken as most_frequent does.     *)
(***************************************************************************)
EXTENDS Naturals, Sequences, FiniteSets

CONSTANTS
    PageHashes,         \* hashes of the states the live page can have
    Acts,               \* action signatures
    Effect,             \* <<page, action, page>> the site allows
    Packs,              \* exported models: [names, counts] vectors
    SnapshotCapacity,   \* SNAPSHOT_CACHE_CAPACITY
    MaxActs,            \* bound: successful actions
    MaxUpsets           \* bound: failures, navigations, skills, restarts,
                        \* imports and changes of the page, in all

None == 0
Pairs == Acts \X Acts

ASSUME BackendAssumption ==
    /\ None \notin PageHashes /\ None \notin Acts
    /\ Acts \subseteq Nat /\ IsFiniteSet(Acts)
    /\ Effect \subseteq PageHashes \X Acts \X PageHashes
    /\ \A pack \in Packs : pack.counts \in Seq(Nat)

VARIABLES
    live,    \* what the page shows
    moved,   \* navigation_revision differs from observed_navigation_revision
    bk,      \* the backend: cache, prev, verified, pending, last, broken,
             \* served (prediction and source hash), hits, misses
    eng,     \* the engine: trans, seqs, snaps, cursor
    known,   \* the state the client was last told
    past,    \* auxiliary: what really happened (see PastInit)
    upsets   \* auxiliary: how many upsets there were

backVars == <<live, moved, bk, eng, known, past, upsets>>

PastInit ==
    [cap      |-> None,    \* last real capture of this document
     since    |-> <<>>,    \* actions since then; two stand for any more
     seen     |-> {},      \* <<s, a, t>>: captured s, then only a, captured t
     acts     |-> 0,       \* successful acts
     done     |-> None,    \* last successful act, None after anything else
     pairs    |-> [p \in Pairs |-> 0],   \* acts that followed one another
     imported |-> [p \in Pairs |-> 0],
     surprise |-> FALSE,   \* the page changed unasked or a hit was wrong
     half     |-> FALSE]   \* a capture was learned from but not delivered

(* no state served, no action pending *)
Fresh(hits, misses) ==
    [cache |-> None, prev |-> None, verified |-> TRUE, pending |-> None,
     last |-> None, broken |-> FALSE, served |-> {}, hits |-> hits, misses |-> misses]

BackInit ==
    /\ live \in PageHashes
    /\ moved = FALSE
    /\ bk = Fresh(0, 0)
    /\ eng = [trans |-> [x \in PageHashes \X Acts \X PageHashes |-> 0],
              seqs |-> [p \in Pairs |-> 0], snaps |-> <<>>, cursor |-> None]
    /\ known = None
    /\ past = PastInit
    /\ upsets = 0

Upset == upsets < MaxUpsets /\ upsets' = upsets + 1

-----------------------------------------------------------------------------
(* The engine and its TransitionModel.                                     *)

Raised(count, x) == [count EXCEPT ![x] = @ + 1]
Lowered(count, x) == [count EXCEPT ![x] = IF @ = 0 THEN 0 ELSE @ - 1]

(* TransitionModel::record: the engine's cursor is the prior action *)
ModelRecord(e, s, a, t) ==
    [e EXCEPT !.trans = Raised(@, <<s, a, t>>),
              !.seqs = IF e.cursor = None THEN @ ELSE Raised(@, <<e.cursor, a>>)]

(* TransitionModel::correct_transition, before it records what happened *)
Unlearn(e, s, a, stale) ==
    [e EXCEPT !.trans = Lowered(@, <<s, a, stale>>)]

RecordTransition(e, s, a, t) == [ModelRecord(e, s, a, t) EXCEPT !.cursor = a]

CorrectTransition(e, s, a, stale, t) ==
    [ModelRecord(Unlearn(e, s, a, stale), s, a, t) EXCEPT !.cursor = a]

Snapshot(e, s) == \E i \in DOMAIN e.snaps : e.snaps[i] = s

ObserveState(e, s) ==
    LET longer == Append(e.snaps, s)
    IN  IF Snapshot(e, s) THEN e
        ELSE [e EXCEPT !.snaps = IF Len(longer) > SnapshotCapacity
                                 THEN Tail(longer) ELSE longer]

(* most_frequent: the smallest key among the largest counts; None if empty *)
MostFrequent(count) ==
    LET best == {x \in DOMAIN count : /\ count[x] > 0
                                      /\ \A y \in DOMAIN count : count[y] <= count[x]}
    IN  IF best = {} THEN None ELSE CHOOSE x \in best : \A y \in best : x <= y

PredictAction(e, last) ==
    IF last = None THEN None
    ELSE MostFrequent([a \in Acts |-> e.seqs[<<last, a>>]])

PredictState(e, s, a) ==
    MostFrequent([t \in PageHashes |-> e.trans[<<s, a, t>>]])

(* pre_generate: the act expected next and, if a snapshot of it is still   *)
(* cached, the state it is expected to lead to                             *)
PreGenerate(e, s, last) ==
    LET a == PredictAction(e, last)
        t == IF a = None THEN None ELSE PredictState(e, s, a)
    IN  [act |-> a, state |-> IF Snapshot(e, t) THEN t ELSE None]

-----------------------------------------------------------------------------
(* The backend's bookkeeping.                                              *)

(* reset_navigation_state, reset_session's part apart *)
Reset(b) == Fresh(b.hits, b.misses)
ClearCursor(e) == [e EXCEPT !.cursor = None]

(* prepare_navigation_tool: before every tool but navigate *)
PreparedBackend == IF moved THEN Reset(bk) ELSE bk
PreparedEngine == IF moved THEN ClearCursor(eng) ELSE eng

(* SpeculativeEngine::verify; the log of mismatches is left out *)
Verify(p, s) == p.to = s

(* reconcile_served_prediction; the backend forgets the prediction *)
Reconcile(b, e, s) ==
    IF b.served = {} \/ b.pending # None \/ b.broken THEN e
    ELSE LET p == CHOOSE x \in b.served : TRUE
         IN  IF Verify(p, s) THEN e ELSE CorrectTransition(e, p.from, p.act, p.to, s)

(* Mutant: trains from a predicted state nobody has captured.              *)
ShouldRecordUnverified(b) == b.prev # None /\ b.pending # None

ShouldRecordTransition(b) ==
    b.verified /\ b.prev # None /\ b.pending # None

(* record_speculative_observation: the engine's half and the backend's *)
EngineObserves(b, e, s) ==
    LET seen == ObserveState(Reconcile(b, e, s), s)
    IN  IF ShouldRecordTransition(b)
        THEN RecordTransition(seen, b.prev, b.pending, s)
        ELSE IF b.pending # None THEN [seen EXCEPT !.cursor = b.pending]
        ELSE seen

BackendObserves(b) ==
    [b EXCEPT !.served = {}, !.broken = FALSE, !.verified = TRUE]

(* Mutant: the delta baseline is not moved to the state just delivered.    *)
PromoteKeepsBase(b, wasBroken, s) ==
    [b EXCEPT !.last = IF b.pending # None THEN b.pending
                       ELSE IF wasBroken THEN None ELSE @,
              !.pending = None,
              !.prev = IF @ = None THEN s ELSE @]

(* pending_action becomes last_action; a broken chain has none *)
Promote(b, wasBroken, s) ==
    [b EXCEPT !.last = IF b.pending # None THEN b.pending
                       ELSE IF wasBroken THEN None ELSE @,
              !.pending = None,
              !.prev = s]

(* resolve_speculative_state *)
Outcome(b, e, force) ==
    LET guess == PreGenerate(e, b.prev, b.last)
    IN  CASE force                                  -> "force"
          [] ~force /\ b.served # {}                -> "unverified"
          [] ~force /\ b.served = {}
               /\ (b.prev = None \/ b.pending = None) -> "noAction"
          [] OTHER -> IF guess.act = b.pending /\ guess.state # None
                      THEN "hit" ELSE "miss"

(* what really happened, at a real capture of live *)
StateCaptured(h) ==
    [h EXCEPT !.seen = IF Len(h.since) = 1 /\ h.cap # None
                       THEN @ \cup {<<h.cap, h.since[1], live>>} ELSE @,
              !.cap = live, !.since = <<>>]

NewPage(h) == [h EXCEPT !.cap = None, !.since = <<>>, !.done = None]

-----------------------------------------------------------------------------
(* The tools.                                                              *)

FromCache ==
    LET b == PreparedBackend
    IN  /\ b.cache # None
        /\ known' = b.cache
        /\ bk' = b /\ eng' = PreparedEngine /\ moved' = FALSE
        /\ UNCHANGED <<live, past, upsets>>

ServeHit ==
    LET b == PreparedBackend
        e == PreparedEngine
        t == PredictState(e, b.prev, b.pending)
    IN  /\ b.cache = None
        /\ Outcome(b, e, FALSE) = "hit"
        /\ bk' = [b EXCEPT !.hits = @ + 1, !.prev = t, !.verified = FALSE,
                           !.last = b.pending, !.pending = None,
                           !.served = {[from |-> b.prev, act |-> b.pending,
                                        to |-> t]}]
        /\ eng' = e /\ moved' = FALSE
        /\ known' = t
        /\ past' = [past EXCEPT !.surprise = @ \/ t # live]
        /\ UNCHANGED <<live, upsets>>

(* semantic_state_payload on a miss; build_external_state may still fail *)
CaptureFull(force, fails) ==
    LET b == PreparedBackend
        e == PreparedEngine
        outcome == Outcome(b, e, force)
        seen == [BackendObserves(b) EXCEPT
                    !.misses = @ + IF outcome = "miss" THEN 1 ELSE 0]
    IN  /\ force \/ (b.cache = None /\ outcome # "hit")
        /\ eng' = EngineObserves(b, e, live) /\ moved' = FALSE
        /\ IF fails
           THEN /\ Upset /\ bk' = seen /\ known' = known
                /\ past' = [StateCaptured(past) EXCEPT !.half = TRUE]
           ELSE /\ bk' = [Promote(seen, b.broken, live) EXCEPT !.cache = live]
                /\ known' = live
                /\ past' = StateCaptured(past)
                /\ UNCHANGED upsets
        /\ UNCHANGED live

(* get_state with delta delivery; select_update may choose a full state *)
DeltaBase(b, force) == IF force THEN Reset(b) ELSE b

GetDelta(force, full) ==
    LET b == DeltaBase(PreparedBackend, force)
        e == IF force THEN ClearCursor(PreparedEngine) ELSE PreparedEngine
        seen == Promote(BackendObserves(b), b.broken, live)
    IN  /\ b.prev = None => full
        /\ b.prev = live => ~full
        /\ bk' = IF full THEN [seen EXCEPT !.cache = live] ELSE seen
        /\ eng' = EngineObserves(b, e, live) /\ moved' = FALSE
        /\ known' = IF full THEN live
                    ELSE IF known = b.prev THEN live ELSE known
        /\ past' = StateCaptured(past)
        /\ UNCHANGED <<live, upsets>>

(* the capture of a forced delta fails when the baseline is already gone *)
DeltaFails ==
    /\ Upset
    /\ bk' = DeltaBase(PreparedBackend, TRUE)
    /\ eng' = ClearCursor(PreparedEngine) /\ moved' = FALSE
    /\ UNCHANGED <<live, known, past>>

(* act's check of an unverified hit before it touches the page *)
MustVerify(b) == b.served # {} /\ b.pending = None /\ ~b.broken

(* Mutant: the cached answer survives an action.                           *)
ActDoneKeepsCache(b, a) ==
    IF b.pending # None \/ b.broken
    THEN [b EXCEPT !.pending = None, !.broken = TRUE]
    ELSE [b EXCEPT !.pending = a]

ActDone(b, a) ==
    IF b.pending # None \/ b.broken
    THEN [b EXCEPT !.cache = None, !.pending = None, !.broken = TRUE]
    ELSE [b EXCEPT !.cache = None, !.pending = a]

(* Mutant: the cursor survives a discarded chain of actions.               *)
EngineActsKeepsCursor(b, e) == e

EngineActs(b, e) == IF b.pending # None \/ b.broken THEN ClearCursor(e) ELSE e

Act(a, captures) ==
    LET b0 == PreparedBackend
        checks == MustVerify(b0) /\ captures
        b == IF checks THEN [b0 EXCEPT !.prev = live, !.verified = TRUE,
                                       !.served = {}] ELSE b0
        e == IF checks THEN ObserveState(Reconcile(b0, PreparedEngine, live), live)
             ELSE PreparedEngine
        h == IF checks THEN StateCaptured(past) ELSE past
    IN  /\ captures = FALSE => MustVerify(b0) /\ Upset
        /\ captures => UNCHANGED upsets
        /\ past.acts < MaxActs
        /\ \E t \in PageHashes :
             /\ <<live, a, t>> \in Effect
             /\ live' = t
        /\ bk' = ActDone(b, a)
        /\ eng' = EngineActs(b, e)
        /\ past' = [h EXCEPT !.since = IF Len(@) < 2 THEN Append(@, a) ELSE @,
                             !.pairs = IF h.done = None THEN @
                                       ELSE Raised(@, <<h.done, a>>),
                             !.done = a, !.acts = @ + 1]
        /\ moved' = FALSE
        /\ UNCHANGED known

(* page.act returns an error, before or after the click reached the page *)
ActFails ==
    /\ Upset
    /\ \E t \in {live} \cup {u \in PageHashes :
                                \E a \in Acts : <<live, a, u>> \in Effect} :
         /\ live' = t
         /\ past' = [past EXCEPT !.surprise = @ \/ t # live]
    /\ bk' = PreparedBackend /\ eng' = PreparedEngine /\ moved' = FALSE
    /\ UNCHANGED known

(* run_skill with at least one successful act step, whatever its result *)
RunSkill ==
    /\ Upset
    /\ live' \in PageHashes
    /\ bk' = Reset(bk) /\ eng' = ClearCursor(eng) /\ moved' = FALSE
    /\ past' = NewPage(past)
    /\ UNCHANGED known

(* navigate once browser I/O started; the revision it causes is seen later *)
Navigate ==
    /\ Upset
    /\ live' \in PageHashes
    /\ bk' = Reset(bk) /\ eng' = ClearCursor(eng) /\ moved' = TRUE
    /\ past' = NewPage(past)
    /\ UNCHANGED known

(* prepare_navigation_tool reports a rejected navigation: the tool ends *)
PrepareFails ==
    /\ moved
    /\ bk' = PreparedBackend /\ eng' = PreparedEngine /\ moved' = FALSE
    /\ UNCHANGED <<live, known, past, upsets>>

(* handle_browser_disconnect, once a new page is protected *)
Restart ==
    /\ Upset
    /\ live' \in PageHashes
    /\ bk' = Reset(bk)
    /\ eng' = [ClearCursor(eng) EXCEPT !.snaps = <<>>]
    /\ moved' = FALSE
    /\ past' = NewPage(past)
    /\ UNCHANGED known

(* the page changes by itself, within the document or to another one *)
Drift ==
    /\ Upset
    /\ live' \in PageHashes \ {live}
    /\ past' = [past EXCEPT !.surprise = TRUE]
    /\ UNCHANGED <<moved, bk, eng, known>>

ChromeMoves ==
    /\ Upset
    /\ live' \in PageHashes
    /\ moved' = TRUE
    /\ past' = NewPage(past)
    /\ UNCHANGED <<bk, eng, known>>

-----------------------------------------------------------------------------
(* The portable model: names holds two entries per record, counts one.     *)

(* the records in the order of their names, the smallest first *)
Precedes(p, q) == p[1] < q[1] \/ (p[1] = q[1] /\ p[2] < q[2])

Listed(records) ==
    [i \in 1..Cardinality(records) |->
        CHOOSE p \in records : Cardinality({q \in records : Precedes(q, p)}) = i - 1]

Encoded(records, seqs) ==
    [names |-> [i \in 1..(2 * Len(records)) |->
                   records[(i + 1) \div 2][IF i % 2 = 1 THEN 1 ELSE 2]],
     counts |-> [i \in 1..Len(records) |-> seqs[records[i]]]]

(* Mutant: records of an action that follows itself are left out.          *)
EncodeModelNoLoops(seqs) ==
    Encoded(Listed({p \in Pairs : seqs[p] > 0 /\ p[1] # p[2]}), seqs)

EncodeModel(seqs) == Encoded(Listed({p \in Pairs : seqs[p] > 0}), seqs)

WellFormed(pack) ==
    Len(pack.names) % 2 = 0 /\ Len(pack.names) \div 2 = Len(pack.counts)

(* decode_model and merge_action_sequences: what a pack's first n records  *)
(* say of each pair, added to what is known                                *)
Brought(pack) ==
    LET sum[n \in 0..Len(pack.counts)] ==
            IF n = 0 THEN [p \in Pairs |-> 0]
            ELSE [p \in Pairs |-> sum[n - 1][p]
                    + IF <<pack.names[2 * n - 1], pack.names[2 * n]>> = p
                      THEN pack.counts[n] ELSE 0]
    IN  sum

Merge(seqs, pack) == [p \in Pairs |-> seqs[p] + Brought(pack)[Len(pack.counts)][p]]

ImportModel(pack) ==
    /\ Upset
    /\ eng' = IF WellFormed(pack) THEN [eng EXCEPT !.seqs = Merge(@, pack)] ELSE eng
    /\ past' = IF WellFormed(pack)
               THEN [past EXCEPT !.imported = Merge(@, pack)] ELSE past
    /\ UNCHANGED <<live, moved, bk, known>>

-----------------------------------------------------------------------------
BackNext ==
    \/ FromCache \/ ServeHit
    \/ \E force, fails \in BOOLEAN : CaptureFull(force, fails)
    \/ \E force, full \in BOOLEAN : GetDelta(force, full)
    \/ \E a \in Acts, captures \in BOOLEAN : Act(a, captures)
    \/ DeltaFails \/ ActFails \/ RunSkill \/ Navigate \/ PrepareFails \/ Restart
    \/ Drift \/ ChromeMoves
    \/ \E pack \in Packs : ImportModel(pack)

BackSpec == BackInit /\ [][BackNext]_backVars

-----------------------------------------------------------------------------
(* A state transition is learned only from two real captures of one        *)
(* document with that one action between them: never from a predicted      *)
(* state, a chain of actions, a skill or across a navigation.  (A capture  *)
(* whose payload cannot be built breaks this: see half.)                   *)
TransitionsAreReal ==
    ~past.half =>
        \A x \in PageHashes \X Acts \X PageHashes :
            eng.trans[x] > 0 => x \in past.seen

(* Until the first hit an action is learned to follow another only as      *)
(* often as it did, and as imported models said.                           *)
ActionEdgesAreReal ==
    ~past.half /\ bk.hits = 0 =>
        \A p \in Pairs : eng.seqs[p] <= past.imported[p] + past.pairs[p]

(* The cached answer of get_state never outlives an action, a skill or a   *)
(* navigation: if nothing changed the page unasked it is the page.         *)
CacheIsCurrent ==
    ~moved /\ ~past.surprise => bk.cache \in {None, live}

(* A delta is computed against the state the client was last told.         *)
DeltasApply == ~past.surprise => bk.prev \in {None, known}

(* A model exported and imported into an empty engine predicts the same.   *)
ExportKeepsModel ==
    LET pack == EncodeModel(eng.seqs)
    IN  /\ WellFormed(pack)
        /\ Merge([p \in Pairs |-> 0], pack) = eng.seqs

(* What the engine learns is what happened, and what a client is told is   *)
(* the page or marked as a prediction, across hits, misses, deltas, chained *)
(* actions, skills, navigations and imports.                               *)
LearningIsHonest ==
    /\ TransitionsAreReal /\ ActionEdgesAreReal
    /\ CacheIsCurrent /\ DeltasApply

SpeculationIsHonest == LearningIsHonest /\ ExportKeepsModel

(* The strengthening that makes LearningIsHonest inductive.  It is stated  *)
(* of the backend and the engine as the next tool finds them, a navigation *)
(* noticed: what the cursors stand for in what really happened.            *)
IsBackend(b) ==
    /\ b \in [cache : PageHashes \cup {None}, prev : PageHashes \cup {None},
              verified : BOOLEAN, pending : Acts \cup {None}, last : Acts \cup {None},
              broken : BOOLEAN, served : SUBSET [from : PageHashes, act : Acts, to : PageHashes],
              hits : Nat, misses : Nat]
    /\ \A x, y \in b.served : x = y
    /\ b.served = {} => b.verified
    /\ b.served # {} => b.hits > 0 /\ ~b.verified
    /\ b.pending # None => ~b.broken

IsEngine(e) ==
    e \in [trans : [PageHashes \X Acts \X PageHashes -> Nat], seqs : [Pairs -> Nat],
           snaps : Seq(PageHashes), cursor : Acts \cup {None}]

IsPast(h) ==
    h \in [cap : PageHashes \cup {None}, since : Seq(Acts),
           seen : SUBSET (PageHashes \X Acts \X PageHashes), acts : Nat,
           done : Acts \cup {None}, pairs : [Pairs -> Nat], imported : [Pairs -> Nat],
           surprise : BOOLEAN, half : BOOLEAN]

(* Where the last real capture stands: before the pending action, or where *)
(* nothing is pending at the state the next delta starts from, or before   *)
(* the action of the prediction that was served.                           *)
CapturesLine(b, h) ==
    /\ b.served = {} /\ b.prev # None /\ b.pending # None =>
         b.prev = h.cap /\ h.since = <<b.pending>>
    /\ b.served = {} /\ b.prev # None /\ b.pending = None /\ ~b.broken =>
         b.prev = h.cap /\ h.since = <<>>
    /\ \A x \in b.served : b.pending = None /\ ~b.broken =>
         x.from = h.cap /\ h.since = <<x.act>>

(* The engine's cursor is the last action, or the one before a pending     *)
(* one, which has been counted since.                                      *)
CursorsLine(b, e, h) ==
    /\ b.pending # None => h.done = b.pending
    /\ b.broken => e.cursor = None
    /\ e.cursor # None /\ b.pending = None /\ b.hits = 0 => h.done = e.cursor
    /\ e.cursor # None /\ b.pending # None /\ ~h.half /\ b.hits = 0 =>
         e.seqs[<<e.cursor, b.pending>>] <
             h.imported[<<e.cursor, b.pending>>] + h.pairs[<<e.cursor, b.pending>>]

(* What is cached and served, while nothing happened unasked.              *)
ServesLive(b, h, l, k) ==
    ~h.surprise =>
        /\ b.cache \in {None, l}
        /\ b.prev \in {None, k}
        /\ b.cache # None => b.prev \in {None, b.cache}
        /\ b.served # {} /\ b.pending = None /\ ~b.broken => b.prev = l

(* What was learned, as TransitionsAreReal and ActionEdgesAreReal say.     *)
LearnedLine(b, e, h) ==
    ~h.half =>
        /\ \A x \in PageHashes \X Acts \X PageHashes : e.trans[x] > 0 => x \in h.seen
        /\ b.hits = 0 => \A p \in Pairs : e.seqs[p] <= h.imported[p] + h.pairs[p]

Aligned(b, e, h, l, k) ==
    /\ l \in PageHashes /\ k \in PageHashes \cup {None}
    /\ IsBackend(b) /\ IsEngine(e) /\ IsPast(h)
    /\ ~h.half => CapturesLine(b, h)
    /\ CursorsLine(b, e, h)
    /\ ServesLive(b, h, l, k)
    /\ LearnedLine(b, e, h)

BackInv ==
    /\ moved \in BOOLEAN /\ IsBackend(bk) /\ IsEngine(eng)
    /\ Aligned(PreparedBackend, PreparedEngine, past, live, known)
    /\ DeltasApply
=============================================================================
