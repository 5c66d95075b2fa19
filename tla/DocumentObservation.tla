------------------------ MODULE DocumentObservation ------------------------
(***************************************************************************)
(* How a PageSession knows which document its main frame shows.            *)
(*                                                                         *)
(* Chrome changes the main-frame document whenever it likes and queues one *)
(* Page event per change.  The tab's event thread applies those events to  *)
(* the shared ObservationState, each in its turn, possibly much later.     *)
(* A caller thread that needs the identity of the document reads the frame *)
(* tree over CDP (live_document_snapshot), which bypasses the event queue, *)
(* and, for approvals, also waits until the event thread has acknowledged  *)
(* a marker (ApprovalEventBarrier::drain) and compares the observation     *)
(* once more (approval_document_snapshot).                                 *)
(*                                                                         *)
(* Chrome is external: hist is every main-frame location it has shown,     *)
(* oldest first, and the event of the i-th location is waiting in the      *)
(* tab's queue while i > seen.  A location that differs from its           *)
(* predecessor in the loader was announced by Page.frameNavigated, one     *)
(* with the same loader by Page.navigatedWithinDocument.  A loader stands  *)
(* for the pair (frame id, loader id).                                     *)
(***************************************************************************)
EXTENDS Naturals, Sequences

CONSTANTS
    Threads,   \* threads that call into the PageSession
    Loaders,   \* (frame id, loader id) pairs
    Paths,     \* URLs without their fragment
    Frags,     \* URL fragments
    MaxHist,   \* bound: how many locations Chrome shows
    MaxGen,    \* bound: no Fetch request starts once gen has reached it
    MaxTries   \* attempts of both retry loops (3 in the code)

ASSUME BoundsAssumption ==
    /\ MaxHist \in Nat \ {0}
    /\ MaxGen \in Nat
    /\ MaxTries \in Nat \ {0}

Locations == [loader : Loaders, path : Paths, frag : Frags]

(* DocumentSnapshot: a location and the revision it was observed at.      *)
Observed == [loader : Loaders, path : Paths, frag : Frags, rev : Nat]

(* A snapshot held by a thread.  "at" is auxiliary: the index in hist of   *)
(* the location that the CDP answer described.                             *)
Snapshots ==
    [loader : Loaders, path : Paths, frag : Frags, rev : Nat, at : Nat]

VARIABLES
    hist,    \* main-frame locations Chrome has shown (auxiliary)
    seen,    \* how many of them the event thread has been told about
    obs,     \* ObservationState.document
    gen,     \* NavigationObservation.generation
    stage,   \* per thread, where it is in taking a snapshot
    before,  \* per thread, the generation read before the CDP call
    snap,    \* per thread, the frame-tree answer, then the snapshot
    mark,    \* per thread, Len(hist) when its marker was evaluated
    tries,   \* per thread, attempts of live_document_snapshot
    rounds   \* per thread, rounds of approval_document_snapshot

obsVars == <<hist, seen, obs, gen, stage, before, snap, mark, tries, rounds>>

(* The same frame and loader at the same URL, fragments aside.             *)
SameDocument(a, b) == a.loader = b.loader /\ a.path = b.path

SameUrl(a, b) == a.path = b.path /\ a.frag = b.frag

-----------------------------------------------------------------------------
(* NavigationObservation::record_url and record_frame: the new observation *)
(* and the new generation when location d is recorded over o.              *)

RecordUrl(o, d) ==
    [loader |-> o.loader, path |-> d.path, frag |-> d.frag,
     rev |-> IF o.path = d.path THEN o.rev ELSE o.rev + 1]

GenAfterUrl(g, o, d) == IF SameUrl(o, d) THEN g ELSE g + 1

RecordFrame(o, d) ==
    RecordUrl([loader |-> d.loader, path |-> o.path, frag |-> o.frag,
               rev |-> IF o.loader = d.loader THEN o.rev ELSE o.rev + 1], d)

GenAfterFrame(g, o, d) ==
    GenAfterUrl(IF o.loader # d.loader THEN g + 1 ELSE g, o, d)

(* with_approval_document_context_current: what is compared under the      *)
(* observation lock before an approval operation runs.                     *)
ContextCurrent(s) ==
    /\ obs.rev = s.rev
    /\ SameDocument(obs, s)
    /\ SameUrl(obs, s)

-----------------------------------------------------------------------------
(* NavigationObservation::install reads the frame tree once and starts     *)
(* listening.                                                              *)
Init ==
    /\ \E d \in Locations :
         /\ hist = <<d>>
         /\ obs = [loader |-> d.loader, path |-> d.path,
                   frag |-> d.frag, rev |-> 0]
         /\ snap = [t \in Threads |->
                      [loader |-> d.loader, path |-> d.path,
                       frag |-> d.frag, rev |-> 0, at |-> 1]]
    /\ seen = 1
    /\ gen = 0
    /\ stage = [t \in Threads |-> "idle"]
    /\ before = [t \in Threads |-> 0]
    /\ mark = [t \in Threads |-> 0]
    /\ tries = [t \in Threads |-> 0]
    /\ rounds = [t \in Threads |-> 0]

Current == hist[Len(hist)]

(* Chrome commits another document, or the page changes its own URL.       *)
ChromeMoves ==
    /\ Len(hist) < MaxHist
    /\ \E d \in Locations : d # Current /\ hist' = Append(hist, d)
    /\ UNCHANGED <<seen, obs, gen, stage, before, snap, mark, tries, rounds>>

(* The event thread handles the next Page event.                           *)
DeliverEvent ==
    /\ seen < Len(hist)
    /\ seen' = seen + 1
    /\ IF hist[seen + 1].loader # hist[seen].loader
       THEN /\ obs' = RecordFrame(obs, hist[seen + 1])
            /\ gen' = GenAfterFrame(gen, obs, hist[seen + 1])
       ELSE /\ obs' = RecordUrl(obs, hist[seen + 1])
            /\ gen' = GenAfterUrl(gen, obs, hist[seen + 1])
    /\ UNCHANGED <<hist, stage, before, snap, mark, tries, rounds>>

(* starting_request: a main-frame request was paused by Fetch, or an       *)
(* explicit navigation is about to be sent.  The document keeps its        *)
(* identity but gets a new revision.                                       *)
StartingRequest ==
    /\ gen < MaxGen
    /\ obs' = [obs EXCEPT !.rev = obs.rev + 1]
    /\ gen' = gen + 1
    /\ UNCHANGED <<hist, seen, stage, before, snap, mark, tries, rounds>>

-----------------------------------------------------------------------------
(* One thread taking a snapshot.                                           *)
(*   idle -> sampling -> sampled -> recorded            live_document_...  *)
(*                                  recorded -> marked -> verified         *)
(*                                                      approval_document_ *)

(* live_document_snapshot, top of the loop: navigation_revision().         *)
BeginSnapshot(t) ==
    /\ stage[t] = "idle"
    /\ stage' = [stage EXCEPT ![t] = "sampling"]
    /\ before' = [before EXCEPT ![t] = gen]
    /\ tries' = [tries EXCEPT ![t] = 1]
    /\ rounds' = [rounds EXCEPT ![t] = 1]
    /\ UNCHANGED <<hist, seen, obs, gen, snap, mark>>

(* The CDP answer to Page.getFrameTree; the call may also fail.            *)
ReadFrameTree(t) ==
    /\ stage[t] = "sampling"
    /\ stage' = [stage EXCEPT ![t] = "sampled"]
    /\ snap' = [snap EXCEPT ![t] =
                  [loader |-> Current.loader, path |-> Current.path,
                   frag |-> Current.frag, rev |-> 0, at |-> Len(hist)]]
    /\ UNCHANGED <<hist, seen, obs, gen, before, mark, tries, rounds>>

(* Under the observation lock: the generation did not move, so the answer  *)
(* is recorded and the observation is returned.                            *)
RecordSnapshot(t) ==
    /\ stage[t] = "sampled"
    /\ before[t] = gen
    /\ obs' = RecordFrame(obs, snap[t])
    /\ gen' = GenAfterFrame(gen, obs, snap[t])
    /\ snap' = [snap EXCEPT ![t].rev = RecordFrame(obs, snap[t]).rev]
    /\ stage' = [stage EXCEPT ![t] = "recorded"]
    /\ UNCHANGED <<hist, seen, before, mark, tries, rounds>>

(* The generation moved during the CDP call: try again, or give up.        *)
ResampleSnapshot(t) ==
    /\ stage[t] = "sampled"
    /\ before[t] # gen
    /\ IF tries[t] < MaxTries
       THEN /\ stage' = [stage EXCEPT ![t] = "sampling"]
            /\ before' = [before EXCEPT ![t] = gen]
            /\ tries' = [tries EXCEPT ![t] = tries[t] + 1]
       ELSE /\ stage' = [stage EXCEPT ![t] = "failed"]
            /\ UNCHANGED <<before, tries>>
    /\ UNCHANGED <<hist, seen, obs, gen, snap, mark, rounds>>

(* ApprovalEventBarrier::drain evaluates console.debug(nonce): the marker  *)
(* enters the event queue behind every change Chrome has made so far.      *)
EvaluateMarker(t) ==
    /\ stage[t] = "recorded"
    /\ mark' = [mark EXCEPT ![t] = Len(hist)]
    /\ stage' = [stage EXCEPT ![t] = "marked"]
    /\ UNCHANGED <<hist, seen, obs, gen, before, snap, tries, rounds>>

(* Mutant: nothing is waited for.                                          *)
NotDrained(t) == TRUE

(* The event thread has acknowledged the marker, hence every change in     *)
(* front of it.                                                            *)
Drained(t) == seen >= mark[t]

(* approval_document_snapshot: after the drain the observation is compared *)
(* with the snapshot; on a difference the whole round is repeated.         *)
VerifySnapshot(t) ==
    /\ stage[t] = "marked"
    /\ Drained(t)
    /\ IF ContextCurrent(snap[t])
       THEN /\ stage' = [stage EXCEPT ![t] = "verified"]
            /\ UNCHANGED <<before, tries, rounds>>
       ELSE IF rounds[t] < MaxTries
       THEN /\ stage' = [stage EXCEPT ![t] = "sampling"]
            /\ before' = [before EXCEPT ![t] = gen]
            /\ tries' = [tries EXCEPT ![t] = 1]
            /\ rounds' = [rounds EXCEPT ![t] = rounds[t] + 1]
       ELSE /\ stage' = [stage EXCEPT ![t] = "failed"]
            /\ UNCHANGED <<before, tries, rounds>>
    /\ UNCHANGED <<hist, seen, obs, gen, snap, mark>>

(* Mutant: the wait for the marker has no timeout.                         *)
SnapshotFailsWithoutTimeout(t) ==
    /\ stage[t] \in {"sampling", "recorded"}
    /\ stage' = [stage EXCEPT ![t] = "failed"]
    /\ UNCHANGED <<hist, seen, obs, gen, before, snap, mark, tries, rounds>>

(* A CDP call fails, the isolated world is gone, or the marker is not      *)
(* acknowledged within five seconds.                                       *)
SnapshotFails(t) ==
    /\ stage[t] \in {"sampling", "recorded", "marked"}
    /\ stage' = [stage EXCEPT ![t] = "failed"]
    /\ UNCHANGED <<hist, seen, obs, gen, before, snap, mark, tries, rounds>>

(* The value snap has in a thread that holds no snapshot.                  *)
NoSnapshot ==
    [loader |-> hist[1].loader, path |-> hist[1].path, frag |-> hist[1].frag,
     rev |-> 0, at |-> 1]

(* The function returns and its locals die.                                *)
Release(t) ==
    /\ stage[t] \in {"recorded", "verified", "failed"}
    /\ stage' = [stage EXCEPT ![t] = "idle"]
    /\ before' = [before EXCEPT ![t] = 0]
    /\ snap' = [snap EXCEPT ![t] = NoSnapshot]
    /\ mark' = [mark EXCEPT ![t] = 0]
    /\ tries' = [tries EXCEPT ![t] = 0]
    /\ rounds' = [rounds EXCEPT ![t] = 0]
    /\ UNCHANGED <<hist, seen, obs, gen>>

LiveStep(t) ==
    \/ BeginSnapshot(t)
    \/ ReadFrameTree(t)
    \/ RecordSnapshot(t)
    \/ ResampleSnapshot(t)

BarrierStep(t) ==
    \/ EvaluateMarker(t)
    \/ VerifySnapshot(t)

ObservationNext ==
    \/ ChromeMoves
    \/ DeliverEvent
    \/ StartingRequest
    \/ \E t \in Threads :
         \/ LiveStep(t)
         \/ BarrierStep(t)
         \/ SnapshotFails(t)
         \/ Release(t)

ObservationSpec == Init /\ [][ObservationNext]_obsVars

-----------------------------------------------------------------------------
Stages == {"idle", "sampling", "sampled", "recorded", "marked",
           "verified", "failed"}

(* Type invariant.                                                         *)
ObservationTypeOK ==
    /\ hist \in Seq(Locations)
    /\ Len(hist) >= 1
    /\ seen \in 1 .. Len(hist)
    /\ obs \in Observed
    /\ gen \in Nat
    /\ stage \in [Threads -> Stages]
    /\ before \in [Threads -> Nat]
    /\ snap \in [Threads -> Snapshots]
    /\ mark \in [Threads -> Nat]
    /\ tries \in [Threads -> Nat]
    /\ rounds \in [Threads -> Nat]

(* Chrome showed one and the same document all the way from index i to     *)
(* index j of its history.                                                 *)
Still(i, j, d) ==
    \A k \in 1 .. Len(hist) : i <= k /\ k <= j => SameDocument(hist[k], d)

(* A snapshot that approval_document_snapshot returns describes what       *)
(* Chrome really showed, without interruption, from the moment the frame   *)
(* tree was read until the marker was evaluated - although the event queue *)
(* was bypassed by the read and may have held an A -> B -> A excursion.    *)
VerifiedSnapshotIsReal ==
    \A t \in Threads :
        stage[t] = "verified" => Still(snap[t].at, mark[t], snap[t])

(* What PageApprovalContext relies on: when two snapshots of the approval  *)
(* path carry the same revision, Chrome showed the same document from the  *)
(* earlier read to the later marker, never another one in between.         *)
EqualRevisionsMeanNoNavigation ==
    \A t, u \in Threads :
        (/\ stage[t] = "verified"
         /\ stage[u] = "verified"
         /\ snap[t].rev = snap[u].rev) =>
            Still(snap[t].at, mark[u], snap[t])

-----------------------------------------------------------------------------
(* The strengthening that makes the two properties inductive.              *)

(* The snapshot describes the location it was read from.                   *)
SnapshotAt(s) ==
    /\ s.at \in 1 .. Len(hist)
    /\ hist[s.at].loader = s.loader
    /\ SameUrl(hist[s.at], s)

(* A snapshot whose revision is still the observed one has not been        *)
(* contradicted by any event handled since.                                *)
SnapshotOK(s) ==
    /\ SnapshotAt(s)
    /\ s.rev <= obs.rev
    /\ s.rev = obs.rev => SameDocument(obs, s) /\ Still(s.at, seen, s)

(* The observation consists of what Chrome showed at or after the last     *)
(* event handled, up to index j; loader and URL may be of different ages.  *)
ObservedUpTo(j) ==
    /\ \E k \in seen .. j : hist[k].loader = obs.loader
    /\ \E k \in seen .. j : SameUrl(hist[k], obs)

(* While the generation stands still, the events handled between reading   *)
(* the frame tree and recording the answer changed nothing.                *)
SampleOK(t) ==
    /\ SnapshotAt(snap[t])
    /\ before[t] = gen =>
         /\ seen <= snap[t].at => ObservedUpTo(snap[t].at)
         /\ \A k \in snap[t].at .. seen :
                hist[k].loader = obs.loader /\ SameUrl(hist[k], obs)

(* A marker lies within the history, and behind the event thread once the  *)
(* snapshot is verified.                                                   *)
MarkOK(t) ==
    /\ stage[t] \in {"marked", "verified"} => mark[t] <= Len(hist)
    /\ stage[t] = "verified" => mark[t] <= seen

ObservationInv ==
    /\ ObservationTypeOK
    /\ ObservedUpTo(Len(hist))
    /\ SnapshotOK(NoSnapshot)
    /\ \A t \in Threads :
         /\ before[t] <= gen
         /\ stage[t] = "sampled" => SampleOK(t)
         /\ stage[t] \in {"recorded", "marked", "verified"} =>
                SnapshotOK(snap[t])
         /\ MarkOK(t)
    /\ VerifiedSnapshotIsReal
    /\ EqualRevisionsMeanNoNavigation
=============================================================================
