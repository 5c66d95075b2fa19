------------------------ MODULE PageApprovals_proofs ------------------------
(***************************************************************************)
(* Proofs about PageApprovals and the DocumentObservation it extends: what *)
(* an observation tells of the page, and what an approval is bound to when *)
(* it is reviewed and when it is used, for every number of threads,        *)
(* documents, rules and steps.                                             *)
(***************************************************************************)
EXTENDS PageApprovals, TLAPS

-----------------------------------------------------------------------------
(* The observation of a document.                                          *)

(* A location, or a snapshot of one.                                       *)
IsLocation(d) == d.loader \in Loaders /\ d.path \in Paths /\ d.frag \in Frags

(* Recording a location yields an observation of it whose revision grows   *)
(* exactly when the document changes.                                      *)
LEMMA RecordUrlFacts ==
    ASSUME NEW o \in Observed, NEW d, IsLocation(d)
    PROVE  /\ RecordUrl(o, d) \in Observed
           /\ RecordUrl(o, d).loader = o.loader
           /\ RecordUrl(o, d).path = d.path
           /\ RecordUrl(o, d).frag = d.frag
           /\ RecordUrl(o, d).rev >= o.rev
           /\ RecordUrl(o, d).rev = o.rev <=> o.path = d.path
BY DEF IsLocation, Observed, RecordUrl

(* The same for record_frame, which takes the loader as well.              *)
LEMMA RecordFrameFacts ==
    ASSUME NEW o \in Observed, NEW d, IsLocation(d)
    PROVE  /\ RecordFrame(o, d) \in Observed
           /\ RecordFrame(o, d).loader = d.loader
           /\ RecordFrame(o, d).path = d.path
           /\ RecordFrame(o, d).frag = d.frag
           /\ RecordFrame(o, d).rev >= o.rev
           /\ RecordFrame(o, d).rev = o.rev
                <=> o.loader = d.loader /\ o.path = d.path
BY DEF IsLocation, Observed, RecordUrl, RecordFrame

(* The generation stands still exactly when the recorded location is the   *)
(* observed one.                                                           *)
LEMMA GenFacts ==
    ASSUME NEW o \in Observed, NEW d, IsLocation(d),
           NEW g \in Nat
    PROVE  /\ GenAfterUrl(g, o, d) \in Nat
           /\ GenAfterUrl(g, o, d) >= g
           /\ GenAfterUrl(g, o, d) = g <=> SameUrl(o, d)
           /\ GenAfterFrame(g, o, d) \in Nat
           /\ GenAfterFrame(g, o, d) >= g
           /\ GenAfterFrame(g, o, d) = g
                <=> o.loader = d.loader /\ SameUrl(o, d)
BY DEF IsLocation, GenAfterUrl, GenAfterFrame

(* Members of the history and snapshots are locations.                     *)
LEMMA HistoryFacts ==
    ASSUME ObservationTypeOK
    PROVE  /\ Len(hist) \in Nat
           /\ \A k \in 1 .. Len(hist) :
                hist[k] \in Locations /\ IsLocation(hist[k])
           /\ NoSnapshot \in Snapshots
           /\ \A t \in Threads : snap[t] \in Snapshots /\ IsLocation(snap[t])
<1>1. Len(hist) \in Nat /\ \A k \in 1 .. Len(hist) : hist[k] \in Locations
  BY DEF ObservationTypeOK
<1>2. \A d \in Locations : IsLocation(d)
  BY DEF Locations, IsLocation
<1>3. 1 \in 1 .. Len(hist)
  BY <1>1 DEF ObservationTypeOK
<1>4. NoSnapshot \in Snapshots
  BY <1>1, <1>2, <1>3 DEF NoSnapshot, Snapshots, IsLocation
<1>5. \A s \in Snapshots : IsLocation(s)
  BY DEF Snapshots, IsLocation
<1> QED
  BY <1>1, <1>2, <1>4, <1>5 DEF ObservationTypeOK

-----------------------------------------------------------------------------
(* NavigationObservation::install starts well typed.                       *)
LEMMA TypeInit == Init => ObservationTypeOK
BY DEF Init, ObservationTypeOK, Locations, Observed, Snapshots, Stages

(* Every step of Chrome, of the event thread and of a caller keeps types.  *)
LEMMA TypeStep ==
    ObservationTypeOK /\ [ObservationNext]_obsVars => ObservationTypeOK'
<1> SUFFICES ASSUME ObservationTypeOK, [ObservationNext]_obsVars
             PROVE  ObservationTypeOK'
  OBVIOUS
<1>0. /\ obs \in Observed
      /\ gen \in Nat
      /\ Len(hist) \in Nat
      /\ seen \in 1 .. Len(hist)
  BY HistoryFacts DEF ObservationTypeOK
<1>f. /\ gen \in Nat
      /\ stage \in [Threads -> Stages]
      /\ before \in [Threads -> Nat]
      /\ tries \in [Threads -> Nat]
      /\ rounds \in [Threads -> Nat]
  BY DEF ObservationTypeOK
<1>1. CASE ChromeMoves
  BY <1>1 DEF ChromeMoves, ObservationTypeOK
<1>2. CASE DeliverEvent
  <2>1. IsLocation(hist[seen + 1])
    BY <1>0, <1>2, HistoryFacts DEF DeliverEvent
  <2>2. /\ RecordUrl(obs, hist[seen + 1]) \in Observed
        /\ GenAfterUrl(gen, obs, hist[seen + 1]) \in Nat
        /\ RecordFrame(obs, hist[seen + 1]) \in Observed
        /\ GenAfterFrame(gen, obs, hist[seen + 1]) \in Nat
    BY <1>0, <2>1, RecordUrlFacts, RecordFrameFacts, GenFacts
  <2> QED
    BY <1>2, <2>2 DEF DeliverEvent, ObservationTypeOK
<1>3. CASE StartingRequest
  <2>1. obs' \in Observed
    BY <1>0, <1>3 DEF StartingRequest, Observed
  <2> QED
    BY <1>0, <1>3, <2>1 DEF StartingRequest, ObservationTypeOK
<1>4. ASSUME NEW t \in Threads, BeginSnapshot(t)
      PROVE  ObservationTypeOK'
  BY <1>4 DEF BeginSnapshot, Stages, ObservationTypeOK
<1>5. ASSUME NEW t \in Threads, ReadFrameTree(t)
      PROVE  ObservationTypeOK'
  <2>1. IsLocation(Current) /\ Len(hist) \in Nat
    BY <1>0, HistoryFacts DEF Current
  <2>2. [loader |-> Current.loader, path |-> Current.path,
         frag |-> Current.frag, rev |-> 0, at |-> Len(hist)] \in Snapshots
    BY <2>1 DEF IsLocation, Snapshots
  <2> QED
    BY <1>5, <2>2 DEF ReadFrameTree, Stages, ObservationTypeOK
<1>6. ASSUME NEW t \in Threads, RecordSnapshot(t)
      PROVE  ObservationTypeOK'
  <2>1. snap[t] \in Snapshots /\ IsLocation(snap[t])
    BY HistoryFacts
  <2>2. /\ RecordFrame(obs, snap[t]) \in Observed
        /\ GenAfterFrame(gen, obs, snap[t]) \in Nat
    BY <1>0, <2>1, RecordFrameFacts, GenFacts
  <2>3. [snap[t] EXCEPT !.rev = RecordFrame(obs, snap[t]).rev] \in Snapshots
    BY <2>1, <2>2 DEF Snapshots, Observed
  <2> QED
    BY <1>6, <2>2, <2>3 DEF RecordSnapshot, Stages, ObservationTypeOK
<1>7. ASSUME NEW t \in Threads, ResampleSnapshot(t)
      PROVE  ObservationTypeOK'
  <2>1. stage' \in [Threads -> Stages]
    BY <1>f, <1>7 DEF ResampleSnapshot, Stages
  <2>2. before' \in [Threads -> Nat]
    BY <1>f, <1>7 DEF ResampleSnapshot
  <2>3. tries' \in [Threads -> Nat]
    BY <1>f, <1>7 DEF ResampleSnapshot
  <2> QED
    BY <1>7, <2>1, <2>2, <2>3 DEF ResampleSnapshot, ObservationTypeOK
<1>8. ASSUME NEW t \in Threads, EvaluateMarker(t)
      PROVE  ObservationTypeOK'
  BY <1>8 DEF EvaluateMarker, Stages, ObservationTypeOK
<1>9. ASSUME NEW t \in Threads, VerifySnapshot(t)
      PROVE  ObservationTypeOK'
  <2>1. stage' \in [Threads -> Stages]
    BY <1>f, <1>9 DEF VerifySnapshot, Stages
  <2>2. before' \in [Threads -> Nat]
    BY <1>f, <1>9 DEF VerifySnapshot
  <2>3. tries' \in [Threads -> Nat]
    BY <1>f, <1>9 DEF VerifySnapshot
  <2>4. rounds' \in [Threads -> Nat]
    BY <1>f, <1>9 DEF VerifySnapshot
  <2> QED
    BY <1>9, <2>1, <2>2, <2>3, <2>4 DEF VerifySnapshot, ObservationTypeOK
<1>10. ASSUME NEW t \in Threads, SnapshotFails(t)
       PROVE  ObservationTypeOK'
  BY <1>10 DEF SnapshotFails, Stages, ObservationTypeOK
<1>11. ASSUME NEW t \in Threads, Release(t)
       PROVE  ObservationTypeOK'
  BY <1>11, HistoryFacts DEF Release, Stages, ObservationTypeOK
<1>12. CASE UNCHANGED obsVars
  BY <1>12 DEF obsVars, ObservationTypeOK
<1> QED
  BY <1>1, <1>2, <1>3, <1>4, <1>5, <1>6, <1>7, <1>8, <1>9, <1>10, <1>11,
     <1>12 DEF ObservationNext, LiveStep, BarrierStep

(* NavigationObservation and the snapshots taken from it keep their types. *)
THEOREM ObservationTypeCorrect == ObservationSpec => []ObservationTypeOK
BY TypeInit, TypeStep, PTL DEF ObservationSpec

-----------------------------------------------------------------------------
(* What a step does to the shared observation: Chrome shows one more       *)
(* location, or the event thread handles an event, or a request starts, or *)
(* a thread records its sample, or nothing.                                *)
Grows == /\ Len(hist') = Len(hist) + 1
         /\ \A k \in 1 .. Len(hist) : hist'[k] = hist[k]
         /\ UNCHANGED <<seen, obs, gen>>

Quiet == UNCHANGED <<hist, seen, obs, gen>>

(* Every step is one of these.                                             *)
LEMMA SharedStep ==
    ASSUME ObservationTypeOK, [ObservationNext]_obsVars
    PROVE  \/ Grows
           \/ DeliverEvent
           \/ StartingRequest
           \/ \E t \in Threads : RecordSnapshot(t)
           \/ Quiet
<1>1. CASE ChromeMoves
  BY <1>1 DEF ChromeMoves, Grows, ObservationTypeOK
<1>2. CASE \E t \in Threads : \/ LiveStep(t) \/ BarrierStep(t)
                              \/ SnapshotFails(t) \/ Release(t)
  BY <1>2 DEF LiveStep, BarrierStep, BeginSnapshot, ReadFrameTree,
       ResampleSnapshot, EvaluateMarker, VerifySnapshot, SnapshotFails,
       Release, Quiet
<1>3. CASE UNCHANGED obsVars
  BY <1>3 DEF obsVars, Quiet
<1> QED
  BY <1>1, <1>2, <1>3 DEF ObservationNext

(* Chrome's past does not change.                                          *)
LEMMA HistoryKept ==
    ASSUME ObservationTypeOK, [ObservationNext]_obsVars
    PROVE  /\ Len(hist') \in Nat
           /\ Len(hist') >= Len(hist)
           /\ \A k \in 1 .. Len(hist) : hist'[k] = hist[k]
           /\ seen' >= seen
<1>1. Len(hist) \in Nat /\ seen \in 1 .. Len(hist)
  BY HistoryFacts DEF ObservationTypeOK
<1> QED
  BY <1>1, SharedStep
     DEF Grows, Quiet, DeliverEvent, StartingRequest, RecordSnapshot

(* The next event is of a location, its loader differs from the previous   *)
(* one or is the same, and obs and gen change accordingly.                 *)
LEMMA DeliverFacts ==
    ASSUME ObservationTypeOK, DeliverEvent
    PROVE  /\ seen' = seen + 1
           /\ seen + 1 \in 1 .. Len(hist)
           /\ hist' = hist
           /\ obs' \in Observed
           /\ obs'.rev >= obs.rev
           /\ SameUrl(obs', hist[seen + 1])
           /\ \/ obs'.loader = hist[seen + 1].loader
              \/ /\ obs'.loader = obs.loader
                 /\ hist[seen + 1].loader = hist[seen].loader
           /\ obs'.rev = obs.rev =>
                obs'.loader = obs.loader /\ obs'.path = obs.path
           /\ gen' \in Nat
           /\ gen' >= gen
           /\ gen' = gen => obs'.loader = obs.loader /\ SameUrl(obs', obs)
<1> DEFINE d == hist[seen + 1]
<1>1. /\ obs \in Observed
      /\ gen \in Nat
      /\ seen + 1 \in 1 .. Len(hist)
  BY HistoryFacts DEF ObservationTypeOK, DeliverEvent
<1>2. IsLocation(d)
  BY <1>1, HistoryFacts
<1>3. CASE d.loader # hist[seen].loader
  <2>1. obs' = RecordFrame(obs, d) /\ gen' = GenAfterFrame(gen, obs, d)
    BY <1>3 DEF DeliverEvent
  <2> HIDE DEF d
  <2>2. /\ obs' \in Observed
        /\ obs'.rev >= obs.rev
        /\ obs'.loader = d.loader
        /\ SameUrl(obs', d)
        /\ obs'.rev = obs.rev => obs.loader = d.loader /\ obs.path = d.path
    BY <1>1, <1>2, <2>1, RecordFrameFacts DEF SameUrl
  <2>3. /\ gen' \in Nat
        /\ gen' >= gen
        /\ gen' = gen => obs.loader = d.loader /\ SameUrl(obs, d)
    BY <1>1, <1>2, <2>1, GenFacts
  <2> QED
    BY <1>1, <2>2, <2>3 DEF d, DeliverEvent, SameUrl
<1>4. CASE d.loader = hist[seen].loader
  <2>1. obs' = RecordUrl(obs, d) /\ gen' = GenAfterUrl(gen, obs, d)
    BY <1>4 DEF DeliverEvent
  <2> HIDE DEF d
  <2>2. /\ obs' \in Observed
        /\ obs'.rev >= obs.rev
        /\ obs'.loader = obs.loader
        /\ SameUrl(obs', d)
        /\ obs'.rev = obs.rev => obs.path = d.path
    BY <1>1, <1>2, <2>1, RecordUrlFacts DEF SameUrl
  <2>3. /\ gen' \in Nat
        /\ gen' >= gen
        /\ gen' = gen => SameUrl(obs, d)
    BY <1>1, <1>2, <2>1, GenFacts
  <2> QED
    BY <1>1, <1>4, <2>2, <2>3 DEF d, DeliverEvent, SameUrl
<1> QED
  BY <1>3, <1>4

(* Recording a sample makes it the observation.                            *)
LEMMA RecordFacts ==
    ASSUME ObservationTypeOK, NEW t \in Threads, RecordSnapshot(t)
    PROVE  /\ hist' = hist
           /\ seen' = seen
           /\ obs' \in Observed
           /\ obs'.rev >= obs.rev
           /\ obs'.loader = snap[t].loader
           /\ SameUrl(obs', snap[t])
           /\ obs'.rev = obs.rev =>
                obs'.loader = obs.loader /\ obs'.path = obs.path
           /\ gen' \in Nat
           /\ gen' >= gen
           /\ gen' = gen => obs'.loader = obs.loader /\ SameUrl(obs', obs)
           /\ snap'[t] = [snap[t] EXCEPT !.rev = obs'.rev]
           /\ \A u \in Threads \ {t} : snap'[u] = snap[u]
<1>1. /\ obs \in Observed
      /\ gen \in Nat
      /\ IsLocation(snap[t])
  BY HistoryFacts DEF ObservationTypeOK
<1>2. /\ obs' = RecordFrame(obs, snap[t])
      /\ gen' = GenAfterFrame(gen, obs, snap[t])
      /\ hist' = hist
      /\ seen' = seen
  BY DEF RecordSnapshot
<1>3. /\ obs' \in Observed
      /\ obs'.rev >= obs.rev
      /\ obs'.loader = snap[t].loader
      /\ SameUrl(obs', snap[t])
      /\ obs'.rev = obs.rev =>
           obs.loader = snap[t].loader /\ obs.path = snap[t].path
  BY <1>1, <1>2, RecordFrameFacts DEF SameUrl
<1>4. /\ gen' \in Nat
      /\ gen' >= gen
      /\ gen' = gen => obs.loader = snap[t].loader /\ SameUrl(obs, snap[t])
  BY <1>1, <1>2, GenFacts
<1>5. /\ snap'[t] = [snap[t] EXCEPT !.rev = obs'.rev]
      /\ \A u \in Threads \ {t} : snap'[u] = snap[u]
  BY <1>2 DEF RecordSnapshot, ObservationTypeOK
<1> QED
  BY <1>2, <1>3, <1>4, <1>5 DEF SameUrl

-----------------------------------------------------------------------------
(* A snapshot never stops being sound: whatever a thread, the event thread *)
(* or Chrome does, once its revision is overtaken nobody can match it, and *)
(* while it is not Chrome still shows the document, as far as events tell. *)
LEMMA SnapshotKept ==
    ASSUME ObservationTypeOK, [ObservationNext]_obsVars,
           NEW s \in Snapshots, SnapshotOK(s)
    PROVE  SnapshotOK(s)'
<1>0. /\ obs \in Observed /\ obs.rev \in Nat
      /\ s.rev \in Nat /\ s.at \in Nat
      /\ Len(hist) \in Nat
      /\ seen \in 1 .. Len(hist)
  BY HistoryFacts DEF ObservationTypeOK, Observed, Snapshots
<1>1. CASE Grows
  BY <1>0, <1>1 DEF Grows, SnapshotOK, SnapshotAt, Still, SameDocument, SameUrl
<1>2. CASE DeliverEvent
  <2>1. /\ seen' = seen + 1
        /\ seen + 1 \in 1 .. Len(hist)
        /\ hist' = hist
        /\ obs'.rev \in Nat
        /\ obs'.rev >= obs.rev
        /\ SameUrl(obs', hist[seen + 1])
        /\ \/ obs'.loader = hist[seen + 1].loader
           \/ /\ obs'.loader = obs.loader
              /\ hist[seen + 1].loader = hist[seen].loader
        /\ obs'.rev = obs.rev =>
             obs'.loader = obs.loader /\ obs'.path = obs.path
    BY <1>2, DeliverFacts DEF Observed
  <2>2. SnapshotAt(s)' /\ s.rev <= obs'.rev
    BY <1>0, <2>1 DEF SnapshotOK, SnapshotAt
  <2>3. ASSUME s.rev = obs'.rev
        PROVE  SameDocument(obs', s) /\ Still(s.at, seen, s)'
    <3>1. s.rev = obs.rev
      BY <1>0, <2>1, <2>3 DEF SnapshotOK
    <3>2. SameDocument(obs, s) /\ Still(s.at, seen, s)
      BY <3>1 DEF SnapshotOK
    <3>3. SameDocument(obs', s)
      BY <2>1, <2>3, <3>1, <3>2 DEF SameDocument
    <3>4. CASE s.at > seen
      <4>1. s.at <= seen + 1 => s.at = seen + 1
        BY <1>0, <3>4
      <4> QED
        BY <1>0, <2>1, <3>3, <3>4, <4>1
           DEF Still, SnapshotOK, SnapshotAt, SameUrl, SameDocument
    <3>5. CASE s.at <= seen
      <4>1. SameDocument(hist[seen], s)
        BY <1>0, <3>2, <3>5 DEF Still
      <4>2. SameDocument(hist[seen + 1], s)
        BY <2>1, <3>3, <4>1 DEF SameDocument, SameUrl
      <4> QED
        BY <1>0, <2>1, <3>2, <3>3, <4>2 DEF Still
    <3> QED
      BY <1>0, <3>4, <3>5
  <2> QED
    BY <2>2, <2>3 DEF SnapshotOK
<1>3. CASE StartingRequest
  <2>1. obs'.rev = obs.rev + 1 /\ UNCHANGED <<hist, seen>>
    BY <1>0, <1>3 DEF StartingRequest, Observed
  <2> QED
    BY <1>0, <2>1 DEF SnapshotOK, SnapshotAt
<1>4. ASSUME NEW t \in Threads, RecordSnapshot(t)
      PROVE  SnapshotOK(s)'
  <2>1. /\ UNCHANGED <<hist, seen>>
        /\ obs'.rev \in Nat
        /\ obs'.rev >= obs.rev
        /\ obs'.rev = obs.rev =>
             obs'.loader = obs.loader /\ obs'.path = obs.path
    BY <1>4, RecordFacts DEF Observed
  <2> QED
    BY <1>0, <2>1 DEF SnapshotOK, SnapshotAt, SameDocument, Still
<1>5. CASE Quiet
  BY <1>5 DEF Quiet, SnapshotOK, SnapshotAt, SameDocument, Still
<1> QED
  BY <1>1, <1>2, <1>3, <1>4, <1>5, SharedStep

(* The same for a snapshot that a thread goes on holding.                  *)
LEMMA HeldSnapshotKept ==
    ASSUME ObservationTypeOK, [ObservationNext]_obsVars,
           NEW t \in Threads, snap'[t] = snap[t], SnapshotOK(snap[t])
    PROVE  SnapshotOK(snap[t])'
<1>1. PICK s \in Snapshots : s = snap[t]
  BY HistoryFacts
<1>2. SnapshotOK(s)
  BY <1>1
<1>3. SnapshotOK(s)'
  BY <1>2, SnapshotKept
<1> QED
  BY <1>1, <1>3 DEF SnapshotOK, SnapshotAt, Still

(* The same for the first location, which stands for "no snapshot".        *)
LEMMA FirstSnapshotKept ==
    ASSUME ObservationTypeOK, [ObservationNext]_obsVars,
           SnapshotOK(NoSnapshot)
    PROVE  SnapshotOK(NoSnapshot)'
<1>1. PICK s \in Snapshots : s = NoSnapshot
  BY HistoryFacts
<1>2. SnapshotOK(s)'
  BY <1>1, SnapshotKept
<1>3. hist'[1] = hist[1]
  <2>1. 1 \in 1 .. Len(hist)
    BY HistoryFacts DEF ObservationTypeOK
  <2> QED
    BY <2>1, SharedStep
       DEF Grows, Quiet, DeliverEvent, StartingRequest, RecordSnapshot
<1>4. s = NoSnapshot'
  BY <1>1, <1>3 DEF NoSnapshot
<1> QED
  BY <1>2, <1>4 DEF SnapshotOK, SnapshotAt, Still

(* The variables of one thread change only by its own steps.               *)
Elsewhere(t) == /\ stage'[t] = stage[t]
                /\ before'[t] = before[t]
                /\ snap'[t] = snap[t]
                /\ mark'[t] = mark[t]

(* A step is elsewhere for a thread, or a step of its snapshot.            *)
LEMMA ThreadStep ==
    ASSUME ObservationTypeOK, [ObservationNext]_obsVars, NEW t \in Threads
    PROVE  \/ Elsewhere(t)
           \/ LiveStep(t)
           \/ BarrierStep(t)
           \/ SnapshotFails(t)
           \/ Release(t)
<1>1. CASE ChromeMoves \/ DeliverEvent \/ StartingRequest
  BY <1>1 DEF ChromeMoves, DeliverEvent, StartingRequest, Elsewhere
<1>2. CASE UNCHANGED obsVars
  BY <1>2 DEF obsVars, Elsewhere
<1>3. ASSUME NEW u \in Threads, u # t,
             LiveStep(u) \/ BarrierStep(u) \/ SnapshotFails(u) \/ Release(u)
      PROVE  Elsewhere(t)
  <2> USE DEF Elsewhere, ObservationTypeOK
  <2>1. CASE BeginSnapshot(u)
    BY <1>3, <2>1 DEF BeginSnapshot
  <2>2. CASE ReadFrameTree(u)
    BY <1>3, <2>2 DEF ReadFrameTree
  <2>3. CASE RecordSnapshot(u)
    BY <1>3, <2>3 DEF RecordSnapshot
  <2>4. CASE ResampleSnapshot(u)
    BY <1>3, <2>4 DEF ResampleSnapshot
  <2>5. CASE EvaluateMarker(u)
    BY <1>3, <2>5 DEF EvaluateMarker
  <2>6. CASE VerifySnapshot(u)
    BY <1>3, <2>6 DEF VerifySnapshot
  <2>7. CASE SnapshotFails(u)
    BY <1>3, <2>7 DEF SnapshotFails
  <2>8. CASE Release(u)
    BY <1>3, <2>8 DEF Release
  <2> QED
    BY <1>3, <2>1, <2>2, <2>3, <2>4, <2>5, <2>6, <2>7, <2>8
       DEF LiveStep, BarrierStep
<1> QED
  BY <1>1, <1>2, <1>3 DEF ObservationNext

-----------------------------------------------------------------------------
(* The generation never runs backwards, so one that was read stays behind. *)
LEMMA BeforeKept ==
    ASSUME ObservationTypeOK, [ObservationNext]_obsVars, NEW t \in Threads,
           before[t] <= gen
    PROVE  before'[t] <= gen'
<1>1. gen \in Nat /\ gen' \in Nat /\ before[t] \in Nat
  BY TypeStep DEF ObservationTypeOK
<1>2. gen' >= gen
  <2>1. CASE Grows \/ Quiet \/ StartingRequest
    BY <1>1, <2>1 DEF Grows, Quiet, StartingRequest
  <2>2. CASE DeliverEvent
    BY <2>2, DeliverFacts
  <2>3. ASSUME NEW u \in Threads, RecordSnapshot(u)
        PROVE  gen' >= gen
    BY <2>3, RecordFacts
  <2> QED
    BY <2>1, <2>2, <2>3, SharedStep
<1>3. before'[t] = before[t] \/ before'[t] = gen \/ before'[t] = 0
  <2>1. before \in [Threads -> Nat]
    BY DEF ObservationTypeOK
  <2> QED
    BY <2>1, ThreadStep
       DEF Elsewhere, LiveStep, BarrierStep, BeginSnapshot, ReadFrameTree,
           RecordSnapshot, ResampleSnapshot, EvaluateMarker, VerifySnapshot,
           SnapshotFails, Release
<1> QED
  BY <1>1, <1>2, <1>3

(* An event that leaves the generation alone confirms the observation for  *)
(* the location it is about.                                               *)
LEMMA QuietDelivery ==
    ASSUME ObservationTypeOK, DeliverEvent, NEW s \in Snapshots,
           SnapshotAt(s), gen' = gen,
           seen <= s.at => ObservedUpTo(s.at),
           \A k \in s.at .. seen :
               hist[k].loader = obs.loader /\ SameUrl(hist[k], obs)
    PROVE  /\ seen' <= s.at => ObservedUpTo(s.at)'
           /\ \A k \in s.at .. seen' :
                hist'[k].loader = obs'.loader /\ SameUrl(hist'[k], obs')
<1>0. /\ Len(hist) \in Nat
      /\ seen \in 1 .. Len(hist)
      /\ s.at \in 1 .. Len(hist)
  BY HistoryFacts DEF ObservationTypeOK, SnapshotAt
<1>1. /\ seen' = seen + 1
      /\ hist' = hist
      /\ obs'.loader = obs.loader
      /\ SameUrl(obs', obs)
      /\ SameUrl(obs', hist[seen + 1])
      /\ \/ obs'.loader = hist[seen + 1].loader
         \/ hist[seen + 1].loader = hist[seen].loader
  BY DeliverFacts
<1>2. ASSUME seen < s.at
      PROVE  \E k \in seen + 1 .. s.at : hist[k].loader = obs.loader
  <2>1. PICK k \in seen .. s.at : hist[k].loader = obs.loader
    BY <1>0, <1>2 DEF ObservedUpTo
  <2>2. CASE k = seen
    <3>1. hist[seen + 1].loader = obs.loader /\ seen + 1 \in seen + 1 .. s.at
      BY <1>0, <1>1, <1>2, <2>1, <2>2
    <3> QED
      BY <3>1
  <2>3. CASE k # seen
    <3>1. k \in seen + 1 .. s.at
      BY <1>0, <2>1, <2>3
    <3> QED
      BY <2>1, <3>1
  <2> QED
    BY <2>2, <2>3
<1>3. seen' <= s.at => ObservedUpTo(s.at)'
  <2> SUFFICES ASSUME seen + 1 <= s.at
               PROVE  ObservedUpTo(s.at)'
    BY <1>1
  <2>1. seen + 1 \in seen + 1 .. s.at /\ SameUrl(hist[seen + 1], obs')
    BY <1>0, <1>1 DEF SameUrl
  <2>2. \E k \in seen + 1 .. s.at : hist[k].loader = obs.loader
    BY <1>0, <1>2
  <2> QED
    BY <1>1, <2>1, <2>2 DEF ObservedUpTo
<1>4. ASSUME seen + 1 >= s.at
      PROVE  hist[seen + 1].loader = obs.loader
  <2>1. CASE seen < s.at
    <3>1. seen + 1 = s.at
      BY <1>0, <1>4, <2>1
    <3>2. PICK k \in seen + 1 .. s.at : hist[k].loader = obs.loader
      BY <1>2, <2>1
    <3>3. k = seen + 1
      BY <1>0, <3>1, <3>2
    <3> QED
      BY <3>2, <3>3
  <2>2. CASE s.at <= seen
    <3>1. hist[seen].loader = obs.loader
      BY <1>0, <2>2
    <3> QED
      BY <1>1, <3>1
  <2> QED
    BY <1>0, <2>1, <2>2
<1>5. ASSUME NEW k \in s.at .. seen + 1
      PROVE  hist[k].loader = obs'.loader /\ SameUrl(hist[k], obs')
  <2>1. CASE k = seen + 1
    <3>1. hist[k].loader = obs.loader
      BY <1>0, <1>4, <1>5, <2>1
    <3> QED
      BY <1>1, <2>1, <3>1 DEF SameUrl
  <2>2. CASE k # seen + 1
    <3>1. k \in s.at .. seen
      BY <1>0, <2>2
    <3> QED
      BY <1>1, <3>1 DEF SameUrl
  <2> QED
    BY <2>1, <2>2
<1> QED
  BY <1>1, <1>3, <1>5

(* The sample a thread is about to record is confirmed as long as the      *)
(* generation it read before is the current one.                           *)
LEMMA SampleKept ==
    ASSUME ObservationInv, [ObservationNext]_obsVars,
           NEW t \in Threads, stage'[t] = "sampled"
    PROVE  SampleOK(t)'
<1>0. /\ ObservationTypeOK
      /\ Len(hist) \in Nat
      /\ seen \in 1 .. Len(hist)
      /\ gen \in Nat
      /\ stage \in [Threads -> Stages]
      /\ snap[t] \in Snapshots
      /\ before[t] \in Nat
      /\ before[t] <= gen
      /\ stage[t] = "sampled" => SampleOK(t)
      /\ ObservedUpTo(Len(hist))
  BY HistoryFacts DEF ObservationInv, ObservationTypeOK
<1>1. CASE ReadFrameTree(t)
  <2>1. /\ UNCHANGED <<hist, seen, obs, gen, before>>
        /\ snap'[t] = [loader |-> Current.loader, path |-> Current.path,
                       frag |-> Current.frag, rev |-> 0, at |-> Len(hist)]
    BY <1>0, <1>1 DEF ReadFrameTree, ObservationTypeOK
  <2>2. snap'[t].at = Len(hist) /\ SnapshotAt(snap[t])'
    BY <1>0, <2>1 DEF SnapshotAt, Current, SameUrl
  <2>3. \A k \in Len(hist) .. seen :
            hist[k].loader = obs.loader /\ SameUrl(hist[k], obs)
    BY <1>0 DEF ObservedUpTo
  <2> QED
    BY <1>0, <2>1, <2>2, <2>3 DEF SampleOK, ObservedUpTo
<1>2. CASE Elsewhere(t)
  <2>1. /\ snap'[t] = snap[t]
        /\ before'[t] = before[t]
        /\ SampleOK(t)
    BY <1>0, <1>2 DEF Elsewhere
  <2>2. SnapshotAt(snap[t])'
    BY <1>0, <2>1, HistoryKept DEF SampleOK, SnapshotAt
  <2>3. ASSUME before[t] = gen'
        PROVE  /\ seen' <= snap[t].at =>
                    /\ \E k \in seen' .. snap[t].at : hist'[k].loader = obs'.loader
                    /\ \E k \in seen' .. snap[t].at : SameUrl(hist'[k], obs')
               /\ \A k \in snap[t].at .. seen' :
                    hist'[k].loader = obs'.loader /\ SameUrl(hist'[k], obs')
    <3>1. CASE Grows \/ Quiet
      <4>1. /\ \A k \in 1 .. Len(hist) : hist'[k] = hist[k]
            /\ UNCHANGED <<seen, obs, gen>>
        BY <3>1 DEF Grows, Quiet
      <4>2. snap[t].at \in 1 .. Len(hist)
        BY <2>1 DEF SampleOK, SnapshotAt
      <4>3. ASSUME seen <= snap[t].at
            PROVE  /\ \E k \in seen .. snap[t].at : hist'[k].loader = obs.loader
                   /\ \E k \in seen .. snap[t].at : SameUrl(hist'[k], obs)
        BY <1>0, <2>1, <2>3, <4>1, <4>2, <4>3 DEF SampleOK, ObservedUpTo
      <4>4. ASSUME NEW k \in snap[t].at .. seen
            PROVE  hist'[k].loader = obs.loader /\ SameUrl(hist'[k], obs)
        BY <1>0, <2>1, <2>3, <4>1, <4>2 DEF SampleOK
      <4> QED
        BY <4>1, <4>3, <4>4
    <3>2. CASE StartingRequest
      BY <1>0, <2>3, <3>2 DEF StartingRequest
    <3>3. CASE DeliverEvent
      <4>1. gen' = gen
        BY <1>0, <2>3, <3>3, DeliverFacts
      <4>2. PICK s \in Snapshots : s = snap[t]
        BY <1>0
      <4>3. /\ seen' <= s.at => ObservedUpTo(s.at)'
            /\ \A k \in s.at .. seen' :
                 hist'[k].loader = obs'.loader /\ SameUrl(hist'[k], obs')
        BY <1>0, <2>1, <2>3, <3>3, <4>1, <4>2, QuietDelivery DEF SampleOK
      <4> QED
        BY <4>2, <4>3 DEF ObservedUpTo
    <3>4. ASSUME NEW u \in Threads, RecordSnapshot(u)
          PROVE  /\ UNCHANGED <<hist, seen>>
                 /\ obs'.loader = obs.loader
                 /\ SameUrl(obs', obs)
                 /\ gen' = gen
      <4>1. gen' \in Nat /\ gen' >= gen
        BY <1>0, <3>4, RecordFacts
      <4>2. gen' = gen
        BY <1>0, <2>3, <4>1
      <4> QED
        BY <1>0, <3>4, <4>2, RecordFacts
    <3>5. CASE \E u \in Threads : RecordSnapshot(u)
      BY <1>0, <2>1, <2>3, <3>4, <3>5 DEF SampleOK, ObservedUpTo, SameUrl
    <3> QED
      BY <1>0, <3>1, <3>2, <3>3, <3>5, SharedStep
  <2> QED
    BY <2>1, <2>2, <2>3 DEF SampleOK, ObservedUpTo
<1> QED
  BY <1>0, <1>1, <1>2, ThreadStep
     DEF LiveStep, BarrierStep, BeginSnapshot, RecordSnapshot,
         ResampleSnapshot, EvaluateMarker, VerifySnapshot, SnapshotFails,
         Release

(* The observation is never older than the last event handled.             *)
LEMMA ObservedKept ==
    ASSUME ObservationInv, [ObservationNext]_obsVars
    PROVE  ObservedUpTo(Len(hist))'
<1>0. /\ ObservationTypeOK
      /\ Len(hist) \in Nat
      /\ seen \in 1 .. Len(hist)
  BY HistoryFacts DEF ObservationInv, ObservationTypeOK
<1>1. PICK k \in seen .. Len(hist) : hist[k].loader = obs.loader
  BY DEF ObservationInv, ObservedUpTo
<1>2. PICK m \in seen .. Len(hist) : SameUrl(hist[m], obs)
  BY DEF ObservationInv, ObservedUpTo
<1>3. CASE Grows \/ Quiet
  <2>1. /\ k \in seen' .. Len(hist') /\ hist'[k].loader = obs'.loader
        /\ m \in seen' .. Len(hist') /\ SameUrl(hist'[m], obs')
    BY <1>0, <1>1, <1>2, <1>3 DEF Grows, Quiet
  <2> QED
    BY <2>1 DEF ObservedUpTo
<1>4. CASE StartingRequest
  <2>1. obs'.loader = obs.loader /\ SameUrl(obs', obs) /\ UNCHANGED <<hist, seen>>
    BY <1>0, <1>4 DEF StartingRequest, ObservationTypeOK, Observed, SameUrl
  <2> QED
    BY <1>0, <1>1, <1>2, <2>1 DEF ObservedUpTo, SameUrl
<1>5. CASE DeliverEvent
  <2>1. /\ seen' = seen + 1
        /\ seen + 1 \in 1 .. Len(hist)
        /\ hist' = hist
        /\ SameUrl(obs', hist[seen + 1])
        /\ \/ obs'.loader = hist[seen + 1].loader
           \/ /\ obs'.loader = obs.loader
              /\ hist[seen + 1].loader = hist[seen].loader
    BY <1>0, <1>5, DeliverFacts
  <2>2. seen + 1 \in seen' .. Len(hist') /\ SameUrl(hist'[seen + 1], obs')
    BY <1>0, <2>1 DEF SameUrl
  <2>3. \E j \in seen' .. Len(hist') : hist'[j].loader = obs'.loader
    <3>1. CASE obs'.loader = hist[seen + 1].loader
      BY <2>1, <2>2, <3>1
    <3>2. CASE /\ obs'.loader = obs.loader
               /\ hist[seen + 1].loader = hist[seen].loader
      <4>1. CASE k = seen
        <5>1. hist'[seen + 1].loader = obs'.loader
          BY <1>1, <2>1, <3>2, <4>1
        <5> QED
          BY <2>2, <5>1
      <4>2. CASE k # seen
        <5>1. k \in seen' .. Len(hist') /\ hist'[k].loader = obs'.loader
          BY <1>0, <1>1, <2>1, <3>2, <4>2
        <5> QED
          BY <5>1
      <4> QED
        BY <4>1, <4>2
    <3> QED
      BY <2>1, <3>1, <3>2
  <2> QED
    BY <2>2, <2>3 DEF ObservedUpTo
<1>6. ASSUME NEW t \in Threads, RecordSnapshot(t)
      PROVE  ObservedUpTo(Len(hist))'
  <2>1. SampleOK(t) /\ before[t] = gen
    BY <1>6 DEF RecordSnapshot, ObservationInv
  <2>2. /\ UNCHANGED <<hist, seen>>
        /\ obs'.loader = snap[t].loader
        /\ SameUrl(obs', snap[t])
    BY <1>0, <1>6, RecordFacts
  <2>3. /\ snap[t].at \in 1 .. Len(hist)
        /\ hist[snap[t].at].loader = obs'.loader
        /\ SameUrl(hist[snap[t].at], obs')
    BY <2>1, <2>2 DEF SampleOK, SnapshotAt, SameUrl
  <2>4. CASE seen <= snap[t].at
    <3>1. snap[t].at \in seen' .. Len(hist')
      BY <1>0, <2>2, <2>3, <2>4
    <3> QED
      BY <2>2, <2>3, <3>1 DEF ObservedUpTo
  <2>5. CASE snap[t].at < seen
    <3>1. /\ seen \in snap[t].at .. seen
          /\ snap[t].at \in snap[t].at .. seen
          /\ seen \in seen .. Len(hist)
      BY <1>0, <2>3, <2>5
    <3>2. /\ hist[seen].loader = obs.loader
          /\ SameUrl(hist[seen], obs)
          /\ hist[snap[t].at].loader = obs.loader
          /\ SameUrl(hist[snap[t].at], obs)
      BY <2>1, <3>1 DEF SampleOK
    <3>3. hist[seen].loader = obs'.loader /\ SameUrl(hist[seen], obs')
      BY <2>3, <3>2 DEF SameUrl
    <3> QED
      BY <2>2, <3>1, <3>3 DEF ObservedUpTo
  <2> QED
    BY <1>0, <2>3, <2>4, <2>5
<1> QED
  BY <1>0, <1>3, <1>4, <1>5, <1>6, SharedStep

(* What live_document_snapshot returns is sound when it is recorded, and   *)
(* stays so until the thread lets go of it.                                *)
LEMMA RecordedKept ==
    ASSUME ObservationInv, [ObservationNext]_obsVars, NEW t \in Threads,
           stage'[t] \in {"recorded", "marked", "verified"}
    PROVE  SnapshotOK(snap[t])'
<1>0. /\ ObservationTypeOK
      /\ Len(hist) \in Nat
      /\ seen \in 1 .. Len(hist)
      /\ stage \in [Threads -> Stages]
      /\ snap[t] \in Snapshots
  BY HistoryFacts DEF ObservationInv, ObservationTypeOK
<1>1. CASE RecordSnapshot(t)
  <2>1. SampleOK(t) /\ before[t] = gen
    BY <1>1 DEF RecordSnapshot, ObservationInv
  <2>2. /\ UNCHANGED <<hist, seen>>
        /\ obs' \in Observed
        /\ obs'.loader = snap[t].loader
        /\ SameUrl(obs', snap[t])
        /\ snap'[t] = [snap[t] EXCEPT !.rev = obs'.rev]
    BY <1>0, <1>1, RecordFacts
  <2>3. /\ snap'[t].loader = snap[t].loader
        /\ snap'[t].path = snap[t].path
        /\ snap'[t].frag = snap[t].frag
        /\ snap'[t].at = snap[t].at
        /\ snap'[t].rev = obs'.rev
        /\ obs'.rev \in Nat
    BY <1>0, <2>2 DEF Snapshots, Observed
  <2>4. SnapshotAt(snap[t])'
    BY <2>1, <2>2, <2>3 DEF SampleOK, SnapshotAt, SameUrl
  <2>5. \A k \in snap[t].at .. seen : SameDocument(hist[k], snap[t])
    <3> SUFFICES ASSUME NEW k \in snap[t].at .. seen
                 PROVE  SameDocument(hist[k], snap[t])
      OBVIOUS
    <3>1. snap[t].at \in snap[t].at .. seen
      BY <1>0, <2>1 DEF SampleOK, SnapshotAt
    <3> QED
      BY <2>1, <3>1 DEF SampleOK, SnapshotAt, SameDocument, SameUrl
  <2>6. Still(snap[t].at, seen, snap[t])'
    BY <1>0, <2>1, <2>2, <2>3, <2>5
       DEF Still, SameDocument, SampleOK, SnapshotAt
  <2> QED
    BY <2>2, <2>3, <2>4, <2>6 DEF SnapshotOK, SameDocument, SameUrl
<1>2. CASE ~ RecordSnapshot(t)
  <2>1. /\ snap'[t] = snap[t]
        /\ stage[t] \in {"recorded", "marked", "verified"}
    BY <1>0, <1>2, ThreadStep
       DEF LiveStep, BarrierStep, Elsewhere, BeginSnapshot, ReadFrameTree,
           ResampleSnapshot, EvaluateMarker, VerifySnapshot, SnapshotFails,
           Release
  <2>2. SnapshotOK(snap[t])
    BY <2>1 DEF ObservationInv
  <2> QED
    BY <1>0, <2>1, <2>2, HeldSnapshotKept
<1> QED
  BY <1>1, <1>2

(* A marker is evaluated within the history; a snapshot is verified only   *)
(* when the event thread has passed the marker.                            *)
LEMMA MarkKept ==
    ASSUME ObservationInv, [ObservationNext]_obsVars, NEW t \in Threads
    PROVE  MarkOK(t)'
<1>0. /\ ObservationTypeOK
      /\ Len(hist) \in Nat
      /\ seen \in 1 .. Len(hist)
      /\ stage \in [Threads -> Stages]
      /\ mark \in [Threads -> Nat]
      /\ MarkOK(t)
  BY HistoryFacts DEF ObservationInv, ObservationTypeOK
<1>1. /\ Len(hist') \in Nat
      /\ Len(hist') >= Len(hist)
      /\ seen' >= seen
      /\ seen' \in Nat
  <2>1. Len(hist') \in Nat /\ Len(hist') >= Len(hist) /\ seen' >= seen
    BY <1>0, HistoryKept
  <2>2. seen' \in 1 .. Len(hist')
    BY <1>0, TypeStep DEF ObservationTypeOK
  <2>3. seen' \in Nat
    BY ONLY <2>1, <2>2
  <2> QED BY <2>1, <2>3
<1>2. CASE EvaluateMarker(t)
  BY <1>0, <1>1, <1>2 DEF EvaluateMarker, MarkOK
<1>3. CASE VerifySnapshot(t)
  <2>1. mark'[t] = mark[t] /\ mark[t] <= seen /\ stage[t] = "marked"
    BY <1>0, <1>3 DEF VerifySnapshot, Drained
  <2> QED
    BY <1>0, <1>1, <2>1 DEF MarkOK
<1>4. CASE Elsewhere(t)
  BY <1>0, <1>1, <1>4 DEF Elsewhere, MarkOK
<1>5. CASE LiveStep(t) \/ SnapshotFails(t) \/ Release(t)
  <2>1. stage'[t] \notin {"marked", "verified"}
    BY <1>0, <1>5
       DEF LiveStep, BeginSnapshot, ReadFrameTree, RecordSnapshot,
           ResampleSnapshot, SnapshotFails, Release
  <2> QED
    BY <2>1 DEF MarkOK
<1> QED
  BY <1>0, <1>2, <1>3, <1>4, <1>5, ThreadStep DEF BarrierStep

(* What is verified now was verified before or is being verified by this   *)
(* step, which finds the observation at the snapshot's revision and the    *)
(* marker behind the event thread.                                         *)
LEMMA VerifiedStep ==
    ASSUME ObservationInv, [ObservationNext]_obsVars, NEW t \in Threads,
           stage'[t] = "verified"
    PROVE  /\ snap'[t] = snap[t]
           /\ mark'[t] = mark[t]
           /\ SnapshotOK(snap[t])
           /\ mark[t] \in Nat
           /\ mark[t] <= seen
           /\ \/ stage[t] = "verified"
              \/ /\ snap[t].rev = obs.rev
                 /\ UNCHANGED <<hist, seen, obs>>
<1>0. /\ ObservationTypeOK
      /\ stage \in [Threads -> Stages]
      /\ mark \in [Threads -> Nat]
      /\ MarkOK(t)
  BY DEF ObservationInv, ObservationTypeOK
<1>1. \/ Elsewhere(t)
      \/ VerifySnapshot(t)
  BY <1>0, ThreadStep
     DEF LiveStep, BarrierStep, BeginSnapshot, ReadFrameTree, RecordSnapshot,
         ResampleSnapshot, EvaluateMarker, SnapshotFails, Release
<1>2. CASE Elsewhere(t)
  BY <1>0, <1>2 DEF Elsewhere, MarkOK, ObservationInv
<1>3. CASE VerifySnapshot(t)
  BY <1>0, <1>3
     DEF VerifySnapshot, Drained, ContextCurrent, ObservationInv
<1> QED
  BY <1>1, <1>2, <1>3

(* A stretch of history that ends before the last event is not changed.    *)
LEMMA StillKept ==
    ASSUME ObservationTypeOK, [ObservationNext]_obsVars,
           NEW i \in Nat, NEW j \in Nat, NEW d, j <= seen, Still(i, j, d)
    PROVE  Still(i, j, d)'
<1>1. Len(hist) \in Nat /\ seen \in 1 .. Len(hist)
  BY HistoryFacts DEF ObservationTypeOK
<1> QED
  BY <1>1, HistoryKept DEF Still

(* Two verified snapshots of one revision, of whatever threads.            *)
LEMMA EqualKept ==
    ASSUME ObservationInv, [ObservationNext]_obsVars,
           NEW t \in Threads, NEW u \in Threads,
           stage'[t] = "verified", stage'[u] = "verified",
           snap'[t].rev = snap'[u].rev
    PROVE  Still(snap[t].at, mark[u], snap[t])'
<1>0. /\ ObservationTypeOK
      /\ Len(hist) \in Nat
      /\ seen \in 1 .. Len(hist)
      /\ snap[t] \in Snapshots
  BY HistoryFacts DEF ObservationInv, ObservationTypeOK
<1>1. /\ snap'[t] = snap[t] /\ snap'[u] = snap[u]
      /\ mark'[u] = mark[u]
      /\ SnapshotOK(snap[t])
      /\ mark[u] \in Nat
      /\ mark[u] <= seen
  BY VerifiedStep
<1>2. CASE stage[t] = "verified" /\ stage[u] = "verified"
  <2>1. Still(snap[t].at, mark[u], snap[t])
    BY <1>1, <1>2 DEF ObservationInv, EqualRevisionsMeanNoNavigation
  <2>2. PICK i \in Nat, j \in Nat, d \in Snapshots :
            i = snap[t].at /\ j = mark[u] /\ d = snap[t]
    BY <1>0, <1>1 DEF Snapshots
  <2>3. Still(i, j, d)'
    BY <1>0, <1>1, <2>1, <2>2, StillKept
  <2> QED
    BY <1>1, <2>2, <2>3 DEF Still
<1>3. CASE ~ (stage[t] = "verified" /\ stage[u] = "verified")
  <2>1. snap[t].rev = obs.rev /\ UNCHANGED <<hist, seen>>
    BY <1>1, <1>3, VerifiedStep
  <2>2. Still(snap[t].at, seen, snap[t])
    BY <1>1, <2>1 DEF SnapshotOK
  <2> QED
    BY <1>0, <1>1, <2>1, <2>2 DEF Still
<1> QED
  BY <1>2, <1>3

-----------------------------------------------------------------------------
(* The initial observation satisfies the invariant.                        *)
LEMMA InvInit == Init => ObservationInv
<1> SUFFICES ASSUME Init PROVE ObservationInv
  OBVIOUS
<1>1. ObservationTypeOK
  BY TypeInit
<1>2. PICK d \in Locations :
        /\ hist = <<d>>
        /\ obs = [loader |-> d.loader, path |-> d.path,
                  frag |-> d.frag, rev |-> 0]
  BY DEF Init
<1>3. /\ seen = 1 /\ Len(hist) = 1 /\ hist[1] = d /\ gen = 0
      /\ \A t \in Threads : stage[t] = "idle" /\ before[t] = 0
  BY <1>2 DEF Init
<1>4. ObservedUpTo(Len(hist))
  BY <1>2, <1>3 DEF ObservedUpTo, SameUrl
<1>5. SnapshotOK(NoSnapshot)
  BY <1>2, <1>3
     DEF SnapshotOK, SnapshotAt, NoSnapshot, Still, SameDocument, SameUrl
<1> QED
  BY <1>1, <1>3, <1>4, <1>5
     DEF ObservationInv, MarkOK, VerifiedSnapshotIsReal,
         EqualRevisionsMeanNoNavigation

(* The invariant is inductive: one lemma above for each of its parts.      *)
LEMMA InvStep ==
    ObservationInv /\ [ObservationNext]_obsVars => ObservationInv'
<1> SUFFICES ASSUME ObservationInv, [ObservationNext]_obsVars
             PROVE  ObservationInv'
  OBVIOUS
<1>1. ObservationTypeOK'
  BY TypeStep DEF ObservationInv
<1>2. ObservedUpTo(Len(hist))'
  BY ObservedKept
<1>3. SnapshotOK(NoSnapshot)'
  BY FirstSnapshotKept DEF ObservationInv
<1>4. ASSUME NEW t \in Threads
      PROVE  /\ before'[t] <= gen'
             /\ stage'[t] = "sampled" => SampleOK(t)'
             /\ stage'[t] \in {"recorded", "marked", "verified"} =>
                    SnapshotOK(snap[t])'
             /\ MarkOK(t)'
  BY BeforeKept, SampleKept, RecordedKept, MarkKept DEF ObservationInv
<1>5. EqualRevisionsMeanNoNavigation'
  BY EqualKept DEF EqualRevisionsMeanNoNavigation
<1>6. VerifiedSnapshotIsReal'
  BY <1>5 DEF EqualRevisionsMeanNoNavigation, VerifiedSnapshotIsReal
<1> QED
  BY <1>1, <1>2, <1>3, <1>4, <1>5, <1>6 DEF ObservationInv

(* The inductive invariant holds of every reachable state.                 *)
THEOREM ObservationInvariant == ObservationSpec => []ObservationInv
BY InvInit, InvStep, PTL DEF ObservationSpec

(* A snapshot returned by approval_document_snapshot describes what Chrome *)
(* showed from the read of the frame tree to the marker, for any number of *)
(* threads, documents, navigations and late events.                        *)
THEOREM VerifiedSnapshots == ObservationSpec => []VerifiedSnapshotIsReal
<1>1. ObservationInv => VerifiedSnapshotIsReal
  BY DEF ObservationInv
<1> QED
  BY <1>1, ObservationInvariant, PTL

(* Equal revisions mean that no other document was shown in between: the   *)
(* fact PageApprovalContext::same_document is built on.                    *)
THEOREM EqualRevisions == ObservationSpec => []EqualRevisionsMeanNoNavigation
<1>1. ObservationInv => EqualRevisionsMeanNoNavigation
  BY DEF ObservationInv
<1> QED
  BY <1>1, ObservationInvariant, PTL

-----------------------------------------------------------------------------
(* Approvals.                                                              *)

(* Every step of the page is a step of the observation or leaves it alone, *)
(* so that whatever is proved of the observation holds here.               *)
LEMMA PageStepObserves ==
    ASSUME [PageNext]_vars
    PROVE  [ObservationNext]_obsVars
<1>1. CASE Environment
  BY <1>1 DEF Environment, ObservationNext
<1>2. CASE UNCHANGED vars
  BY <1>2 DEF vars
<1>3. CASE Tick
  BY <1>3 DEF Tick
<1>4. CASE AgentStep
  <2>1. Release(Agent) => ObservationNext
    BY AgentAssumption DEF ObservationNext
  <2> QED
    BY <1>4, <2>1
       DEF AgentStep, ActStart, ReadDocument, Capture, Evaluate, ConsumeRead,
           ConsumeCommit, Publish, PluginPolicy, PerformById, Fallback,
           ActFinish, NavigateStart, NavigateWaited, NavigateClear, SetRules,
           SetRulesClear
<1>5. ASSUME NEW t \in Threads,
             SnapshotStep(t) \/ SnapshotError(t) \/ ReviewStep(t)
      PROVE  [ObservationNext]_obsVars
  BY <1>5 DEF SnapshotStep, SnapshotError, ReviewStep, ApproveStart,
              ApproveCommit, Reject, ObservationNext
<1> QED
  BY <1>1, <1>2, <1>3, <1>4, <1>5 DEF PageNext

(* What the assignments to the agent's locals do, one lemma for each field *)
(* the steps of act assign.                                                *)
Uses == [grant : Grants, mark : Nat]

(* ReadDocument keeps the document it read.                                *)
LEMMA LocalsDoc ==
    ASSUME NEW a \in Locals, NEW s \in Snapshots
    PROVE  /\ [a EXCEPT !.doc = s] \in Locals
           /\ [a EXCEPT !.doc = s].doc = s
           /\ [a EXCEPT !.doc = s].cap = a.cap
           /\ [a EXCEPT !.doc = s].use = a.use
BY DEF Locals

(* Capture notes where it happened.                                        *)
LEMMA LocalsCap ==
    ASSUME NEW a \in Locals, NEW n \in Nat
    PROVE  /\ [a EXCEPT !.cap = n] \in Locals
           /\ [a EXCEPT !.cap = n].doc = a.doc
           /\ [a EXCEPT !.cap = n].cap = n
           /\ [a EXCEPT !.cap = n].use = a.use
BY DEF Locals

(* Evaluate keeps the request the rules ask for.                           *)
LEMMA LocalsReq ==
    ASSUME NEW a \in Locals, NEW r \in Requests
    PROVE  /\ [a EXCEPT !.req = r] \in Locals
           /\ [a EXCEPT !.req = r].doc = a.doc
           /\ [a EXCEPT !.req = r].cap = a.cap
           /\ [a EXCEPT !.req = r].use = a.use
BY DEF Locals

(* ConsumeRead keeps clock and epoch.                                      *)
LEMMA LocalsNow ==
    ASSUME NEW a \in Locals, NEW n \in Nat, NEW e \in Nat
    PROVE  /\ [a EXCEPT !.now = n, !.epoch = e] \in Locals
           /\ [a EXCEPT !.now = n, !.epoch = e].doc = a.doc
           /\ [a EXCEPT !.now = n, !.epoch = e].cap = a.cap
           /\ [a EXCEPT !.now = n, !.epoch = e].use = a.use
BY DEF Locals

(* ConsumeCommit notes the grant it used.                                  *)
LEMMA LocalsUse ==
    ASSUME NEW a \in Locals, NEW u \in SUBSET Uses
    PROVE  /\ [a EXCEPT !.use = u] \in Locals
           /\ [a EXCEPT !.use = u].doc = a.doc
           /\ [a EXCEPT !.use = u].cap = a.cap
           /\ [a EXCEPT !.use = u].use = u
BY DEF Locals, Uses

(* Perform notes where it happened.                                        *)
LEMMA LocalsAt ==
    ASSUME NEW a \in Locals, NEW n \in Nat
    PROVE  /\ [a EXCEPT !.at = n] \in Locals
           /\ [a EXCEPT !.at = n].doc = a.doc
           /\ [a EXCEPT !.at = n].cap = a.cap
           /\ [a EXCEPT !.at = n].use = a.use
BY DEF Locals

-----------------------------------------------------------------------------
(* The type invariant.                                                     *)

(* A label of the code is a program counter.                               *)
LEMMA GoToType ==
    ASSUME pc \in [Threads -> Pcs], NEW t \in Threads, NEW l \in Pcs, GoTo(t, l)
    PROVE  pc' \in [Threads -> Pcs]
BY DEF GoTo

(* The verdict of the rules is a decision, and there is a rule.            *)
LEMMA RulesFacts ==
    ASSUME PageTypeOK, NEW s \in Snapshots, NEW x \in Targets
    PROVE  /\ rules[s.path][x] \in Decisions
           /\ [rule |-> rules[s.path][x].rule, scope |-> rules[s.path][x].scope,
               target |-> x] \in Requests
           /\ (CHOOSE r \in Rules : TRUE) \in Rules
<1>1. rules \in [Paths -> [Targets -> Decisions]] /\ s.path \in Paths
  BY PoliciesAssumption DEF PageTypeOK, Snapshots
<1>2. rules[s.path][x] \in Decisions
  BY <1>1
<1>3. /\ rules[s.path][x].rule \in Rules
      /\ rules[s.path][x].scope \in Scopes
  BY <1>2 DEF Decisions
<1> QED
  BY <1>2, <1>3 DEF Requests

(* The locals act starts with.                                             *)
LEMMA EnforceType ==
    ASSUME PageTypeOK, NEW x \in Targets, NEW h \in BOOLEAN, Enforce(x, h)
    PROVE  /\ act' \in SUBSET Locals
           /\ pc' \in [Threads -> Pcs]
           /\ \A a \in act' : a.doc = NoSnapshot /\ a.use = {} /\ a.cap = 1
<1>1. NoSnapshot \in Snapshots
  BY HistoryFacts DEF PageTypeOK
<1>2. (CHOOSE r \in Rules : TRUE) \in Rules
  BY <1>1, RulesFacts
<1>3. [rule |-> CHOOSE r \in Rules : TRUE, scope |-> "action_only",
       target |-> x] \in Requests
  BY <1>2 DEF Requests, Scopes
<1>4. act' \in SUBSET Locals
  BY <1>1, <1>3 DEF Enforce, Locals
<1>5. "document" \in Pcs
  BY DEF Pcs, LivePcs
<1> QED
  BY <1>4, <1>5, GoToType, AgentAssumption DEF Enforce, PageTypeOK

(* The initial state is well typed.                                        *)
LEMMA PageTypeInit == PageInit => PageTypeOK
<1> SUFFICES ASSUME PageInit PROVE PageTypeOK
  OBVIOUS
<1>1. ObservationTypeOK
  BY TypeInit DEF PageInit
<1>2. "idle" \in Pcs
  BY DEF Pcs
<1>3. /\ approvals \in [Ids -> Nat]
      /\ spent \in [Ids -> Nat]
      /\ pc \in [Threads -> Pcs]
      /\ held \in [Threads -> SUBSET Pendings]
  BY <1>2 DEF PageInit
<1> QED
  BY <1>1, <1>3 DEF PageInit, PageTypeOK

(* A thread leaves an operation because no snapshot could be taken, or     *)
(* takes a step towards one.                                               *)
LEMMA SnapshotTypeStep ==
    ASSUME PageTypeOK, ObservationTypeOK', NEW t \in Threads,
           SnapshotStep(t) \/ SnapshotError(t)
    PROVE  PageTypeOK'
<1>1. CASE SnapshotStep(t)
  BY <1>1 DEF SnapshotStep, pageVars, approvalVars, ledgerVars, PageTypeOK
<1>2. CASE SnapshotError(t)
  <2>1. /\ GoTo(t, "idle")
        /\ "idle" \in Pcs
    BY <1>2 DEF SnapshotError, Pcs
  <2>2. pc' \in [Threads -> Pcs]
    BY <2>1, GoToType DEF PageTypeOK
  <2>3. held' \in [Threads -> SUBSET Pendings]
    BY <1>2 DEF SnapshotError, PageTypeOK
  <2>4. act' \in SUBSET Locals
    BY <1>2 DEF SnapshotError, PageTypeOK
  <2> QED
    BY <1>2, <2>2, <2>3, <2>4
       DEF SnapshotError, approvalVars, ledgerVars, PageTypeOK
<1> QED
  BY <1>1, <1>2

(* Reviewers approve and reject.                                           *)
LEMMA ReviewTypeStep ==
    ASSUME PageTypeOK, ObservationTypeOK', NEW t \in Threads, ReviewStep(t)
    PROVE  PageTypeOK'
<1>0. /\ pending \in SUBSET Pendings
      /\ held \in [Threads -> SUBSET Pendings]
      /\ granted \in SUBSET Grants
      /\ approvals \in [Ids -> Nat]
      /\ epoch \in Nat /\ now \in Nat /\ BoxMs \in Nat
      /\ snap[t] \in Snapshots
  BY HistoryFacts, ApprovalBoundsAssumption DEF PageTypeOK
<1>1. CASE ApproveStart(t)
  <2>1. "approve" \in Pcs
    BY DEF Pcs, BarrierPcs
  <2>2. pc' \in [Threads -> Pcs]
    BY <1>1, <2>1, GoToType DEF ApproveStart, PageTypeOK
  <2>3. held' \in [Threads -> SUBSET Pendings]
    BY <1>0, <1>1 DEF ApproveStart
  <2> QED
    BY <1>1, <2>2, <2>3
       DEF ApproveStart, approvalVars, ledgerVars, PageTypeOK
<1>2. CASE ApproveCommit(t)
  <2>1. "idle" \in Pcs
    BY DEF Pcs
  <2>2. pc' \in [Threads -> Pcs]
    BY <1>2, <2>1, GoToType DEF ApproveCommit, PageTypeOK
  <2>3. held' \in [Threads -> SUBSET Pendings]
    BY <1>0, <1>2 DEF ApproveCommit
  <2>4. \A p \in held[t] : Grant(p, snap[t]) \in Grants
    <3>1. ASSUME NEW p \in Pendings PROVE Grant(p, snap[t]) \in Grants
      BY <1>0 DEF Grant, Grants, Pendings
    <3> QED
      BY <1>0, <3>1
  <2>5. /\ pending' \in SUBSET Pendings
        /\ granted' \in SUBSET Grants
        /\ approvals' \in [Ids -> Nat]
    BY <1>0, <1>2, <2>4 DEF ApproveCommit
  <2> QED
    BY <1>2, <2>2, <2>3, <2>5 DEF ApproveCommit, PageTypeOK
<1>3. CASE Reject(t)
  <2>1. \A p \in pending : p.id \in Nat
    BY <1>0 DEF Pendings
  <2> QED
    BY <1>3, <2>1 DEF Reject, PageTypeOK
<1> QED
  BY <1>1, <1>2, <1>3 DEF ReviewStep

(* The steps of act before its approval is looked at.                      *)
LEMMA EnforceTypeStep ==
    ASSUME PageTypeOK, ObservationTypeOK',
           ActStart \/ ReadDocument \/ Capture \/ Evaluate \/ ConsumeRead
    PROVE  PageTypeOK'
<1>0. /\ act \in SUBSET Locals
      /\ pc \in [Threads -> Pcs]
      /\ snap[Agent] \in Snapshots
      /\ Len(hist) \in Nat
      /\ now \in Nat /\ epoch \in Nat
  BY HistoryFacts, AgentAssumption DEF PageTypeOK
<1>1. {"idle", "capture", "recheck", "plugins", "consume", "consume_lock"}
        \subseteq Pcs
  BY DEF Pcs, LivePcs, BarrierPcs
<1>2. CASE ActStart
  <2>1. act' \in SUBSET Locals /\ pc' \in [Threads -> Pcs]
    BY <1>2, EnforceType DEF ActStart
  <2> QED
    BY <1>2, <2>1 DEF ActStart, approvalVars, ledgerVars, PageTypeOK
<1>3. CASE ReadDocument
  <2>1. act' \in SUBSET Locals
    BY <1>0, <1>3, LocalsDoc DEF ReadDocument
  <2>2. pc' \in [Threads -> Pcs]
    BY <1>0, <1>1, <1>3, GoToType, AgentAssumption DEF ReadDocument
  <2> QED
    BY <1>3, <2>1, <2>2 DEF ReadDocument, approvalVars, ledgerVars, PageTypeOK
<1>4. CASE Capture
  <2>1. act' \in SUBSET Locals
    BY <1>0, <1>4, LocalsCap DEF Capture, ActReturns
  <2>2. pc' \in [Threads -> Pcs]
    BY <1>0, <1>1, <1>4, GoToType, AgentAssumption DEF Capture, ActReturns
  <2> QED
    BY <1>4, <2>1, <2>2 DEF Capture, approvalVars, ledgerVars, PageTypeOK
<1>5. CASE Evaluate
  <2>1. \A a \in act : a \in Locals /\ a.doc \in Snapshots /\ a.target \in Targets
    BY <1>0 DEF Locals
  <2>2. act' \in SUBSET Locals
    <3>1. PICK a \in act :
            \/ act' = {}
            \/ act' = act
            \/ act' = {[a EXCEPT !.req = [rule |-> rules[a.doc.path][a.target].rule,
                                        scope |-> rules[a.doc.path][a.target].scope,
                                        target |-> a.target]]}
      BY <1>5 DEF Evaluate, ActReturns
    <3>2. [rule |-> rules[a.doc.path][a.target].rule,
           scope |-> rules[a.doc.path][a.target].scope,
           target |-> a.target] \in Requests
      BY <2>1, RulesFacts
    <3>3. [a EXCEPT !.req = [rule |-> rules[a.doc.path][a.target].rule,
                             scope |-> rules[a.doc.path][a.target].scope,
                             target |-> a.target]] \in Locals
      BY <2>1, <3>2, LocalsReq
    <3> QED
      BY <1>0, <3>1, <3>3
  <2>3. pc' \in [Threads -> Pcs]
    BY <1>0, <1>1, <1>5, GoToType, AgentAssumption DEF Evaluate, ActReturns
  <2> QED
    BY <1>5, <2>2, <2>3 DEF Evaluate, approvalVars, ledgerVars, PageTypeOK
<1>6. CASE ConsumeRead
  <2>1. act' \in SUBSET Locals
    <3>1. PICK a \in act :
            act' = {} \/ act' = {[a EXCEPT !.now = now, !.epoch = epoch]}
      BY <1>6 DEF ConsumeRead, ActReturns
    <3>2. [a EXCEPT !.now = now, !.epoch = epoch] \in Locals
      BY <1>0, LocalsNow
    <3> QED
      BY <3>1, <3>2
  <2>2. pc' \in [Threads -> Pcs]
    BY <1>0, <1>1, <1>6, GoToType, AgentAssumption DEF ConsumeRead, ActReturns
  <2> QED
    BY <1>6, <2>1, <2>2 DEF ConsumeRead, approvalVars, ledgerVars, PageTypeOK
<1> QED
  BY <1>2, <1>3, <1>4, <1>5, <1>6

(* A grant is consumed, or a request is published.                         *)
LEMMA ApprovalTypeStep ==
    ASSUME PageTypeOK, ObservationTypeOK', ConsumeCommit \/ Publish
    PROVE  PageTypeOK'
<1>0. /\ act \in SUBSET Locals
      /\ pc \in [Threads -> Pcs]
      /\ granted \in SUBSET Grants
      /\ mark[Agent] \in Nat
      /\ spent \in [Ids -> Nat]
      /\ nextId \in Nat /\ sets \in Nat
      /\ pending \in SUBSET Pendings
  BY AgentAssumption DEF PageTypeOK, ObservationTypeOK
<1>1. {"idle", "plugins", "publish"} \subseteq Pcs
  BY DEF Pcs, BarrierPcs
<1>2. CASE ConsumeCommit
  <2>1. granted' \in SUBSET Grants
    BY <1>0, <1>2 DEF ConsumeCommit, StillValid, AfterUse
  <2>2. act' \in SUBSET Locals
    <3>1. PICK a \in act :
            \/ act' = {}
            \/ act' = act
            \/ \E g \in granted :
                 act' = {[a EXCEPT !.use = {[grant |-> g, mark |-> mark[Agent]]}]}
      BY <1>2 DEF ConsumeCommit, StillValid, ActReturns
    <3>2. ASSUME NEW g \in granted
          PROVE  [a EXCEPT !.use = {[grant |-> g, mark |-> mark[Agent]]}] \in Locals
      <4>1. {[grant |-> g, mark |-> mark[Agent]]} \in SUBSET Uses
        BY <1>0 DEF Uses
      <4> QED
        BY <1>0, <4>1, LocalsUse
    <3> QED
      BY <1>0, <3>1, <3>2
  <2>3. spent' \in [Ids -> Nat]
    BY <1>0, <1>2 DEF ConsumeCommit
  <2>4. pc' \in [Threads -> Pcs]
    BY <1>0, <1>1, <1>2, GoToType, AgentAssumption DEF ConsumeCommit, ActReturns
  <2> QED
    BY <1>2, <2>1, <2>2, <2>3, <2>4 DEF ConsumeCommit, PageTypeOK
<1>3. CASE Publish
  <2>1. \A a \in act : [id |-> nextId, req |-> a.req, binding |-> a.doc,
                       cap |-> a.cap, set |-> sets] \in Pendings
    BY <1>0 DEF Locals, Pendings
  <2>2. pending' \in SUBSET Pendings /\ nextId' \in Nat
    BY <1>0, <1>3, <2>1 DEF Publish
  <2>3. act' \in SUBSET Locals /\ pc' \in [Threads -> Pcs]
    BY <1>0, <1>1, <1>3, GoToType, AgentAssumption DEF Publish, ActReturns
  <2> QED
    BY <1>3, <2>2, <2>3 DEF Publish, ledgerVars, PageTypeOK
<1> QED
  BY <1>2, <1>3

(* The action is performed, and act returns.                               *)
LEMMA PerformTypeStep ==
    ASSUME PageTypeOK, ObservationTypeOK',
           PluginPolicy \/ PerformById \/ Fallback \/ ActFinish
    PROVE  PageTypeOK'
<1>0. /\ act \in SUBSET Locals
      /\ pc \in [Threads -> Pcs]
      /\ Len(hist) \in Nat
  BY HistoryFacts DEF PageTypeOK
<1>1. {"idle", "perform", "fallback", "finish"} \subseteq Pcs
  BY DEF Pcs
<1>2. act' \in SUBSET Locals
  <2>1. \/ act' = {}
        \/ act' = act
        \/ \E x \in Targets : Enforce(x, TRUE)
        \/ \E a \in act : act' = {[a EXCEPT !.at = Len(hist)]}
    BY DEF PluginPolicy, PerformById, Fallback, ActFinish, Perform, ActReturns
  <2>2. \A a \in act : [a EXCEPT !.at = Len(hist)] \in Locals
    BY <1>0, LocalsAt
  <2>3. \A x \in Targets : Enforce(x, TRUE) => act' \in SUBSET Locals
    BY EnforceType
  <2> QED
    BY <1>0, <2>1, <2>2, <2>3
<1>3. pc' \in [Threads -> Pcs]
  BY <1>0, <1>1, GoToType, EnforceType, AgentAssumption
     DEF PluginPolicy, PerformById, Fallback, ActFinish, Perform, ActReturns
<1> QED
  BY <1>2, <1>3 DEF PluginPolicy, PerformById, Fallback, ActFinish,
                    approvalVars, ledgerVars, PageTypeOK

(* navigate and set_policy_rules; time passes; Chrome moves.               *)
LEMMA OtherTypeStep ==
    ASSUME PageTypeOK, ObservationTypeOK',
           \/ NavigateStart \/ NavigateWaited \/ NavigateClear
           \/ SetRules \/ SetRulesClear \/ Tick \/ Environment
           \/ UNCHANGED vars
    PROVE  PageTypeOK'
<1>0. pc \in [Threads -> Pcs] /\ epoch \in Nat /\ now \in Nat /\ sets \in Nat
  BY DEF PageTypeOK
<1>1. {"idle", "navigate", "navigate_clear", "rules_clear"} \subseteq Pcs
  BY DEF Pcs
<1>2. pc' \in [Threads -> Pcs]
  BY <1>0, <1>1, GoToType, AgentAssumption
     DEF NavigateStart, NavigateWaited, NavigateClear, SetRules,
         SetRulesClear, Tick, Environment, vars, pageVars
<1>3. epoch' \in Nat /\ now' \in Nat /\ sets' \in Nat
  BY <1>0 DEF NavigateStart, NavigateWaited, NavigateClear, SetRules,
         SetRulesClear, Tick, Environment, vars, pageVars, approvalVars
<1> QED
  BY <1>2, <1>3
     DEF NavigateStart, NavigateWaited, NavigateClear, SetRules,
         SetRulesClear, Tick, Environment, vars, pageVars, approvalVars,
         ledgerVars, PageTypeOK

(* Every step keeps the types.                                             *)
LEMMA PageTypeStep == PageTypeOK /\ [PageNext]_vars => PageTypeOK'
<1> SUFFICES ASSUME PageTypeOK, [PageNext]_vars PROVE PageTypeOK'
  OBVIOUS
<1>1. ObservationTypeOK'
  BY TypeStep, PageStepObserves DEF PageTypeOK
<1> QED
  BY <1>1, SnapshotTypeStep, ReviewTypeStep, EnforceTypeStep,
     ApprovalTypeStep, PerformTypeStep, OtherTypeStep
     DEF PageNext, AgentStep

(* The approval state of a page and the locals of the operations on it     *)
(* keep their types.                                                       *)
THEOREM PageTypeCorrect == PageSpec => []PageTypeOK
BY PageTypeInit, PageTypeStep, PTL DEF PageSpec

-----------------------------------------------------------------------------
(* What a step does to each place that holds a binding.                    *)

(* The locals of act: kept, new, or with one field assigned.               *)
SameLocals(a, b) == a.doc = b.doc /\ a.cap = b.cap /\ a.use = b.use

ActKept(b) ==
    /\ \E a \in act : SameLocals(a, b)
    /\ pc'[Agent] \in AfterCapture => pc[Agent] \in AfterCapture
    /\ pc'[Agent] = "publish" =>
          pc[Agent] = "publish" \/ stage'[Agent] = "idle"

ActBegins(b) ==
    /\ b.doc = NoSnapshot
    /\ b.cap = 1
    /\ b.use = {}
    /\ pc'[Agent] \notin AfterCapture

ActReads(b) ==
    /\ stage[Agent] = "recorded"
    /\ b.doc = snap[Agent]
    /\ \E a \in act : b.cap = a.cap /\ b.use = a.use
    /\ pc'[Agent] \notin AfterCapture

ActCaptures(b) ==
    /\ b.cap = Len(hist)
    /\ \E a \in act : b.doc = a.doc /\ b.use = a.use
    /\ pc'[Agent] # "publish"
    /\ UNCHANGED obsVars

ActUses(b) ==
    /\ pc[Agent] = "consume_lock"
    /\ ContextCurrent(snap[Agent])
    /\ \E a \in act : b.doc = a.doc /\ b.cap = a.cap
    /\ \E g \in granted :
         /\ Matches(g.binding, snap[Agent], g.req.scope)
         /\ b.use = {[grant |-> g, mark |-> mark[Agent]]}
    /\ pc'[Agent] \notin AfterCapture

(* Every step does one of these to the locals of act.                      *)
LEMMA ActStep ==
    ASSUME PageTypeOK, [PageNext]_vars
    PROVE  \A b \in act' : \/ ActKept(b) \/ ActBegins(b) \/ ActReads(b)
                           \/ ActCaptures(b) \/ ActUses(b)
<1>0. /\ act \in SUBSET Locals
      /\ pc \in [Threads -> Pcs]
      /\ stage \in [Threads -> Stages]
      /\ snap[Agent] \in Snapshots
      /\ Agent \in Threads
      /\ Len(hist) \in Nat
      /\ now \in Nat /\ epoch \in Nat
      /\ granted \in SUBSET Grants
      /\ mark[Agent] \in Nat
  BY HistoryFacts, AgentAssumption DEF PageTypeOK, ObservationTypeOK
<1>1. ASSUME act' = act, pc'[Agent] = pc[Agent]
      PROVE  \A b \in act' : ActKept(b)
  BY <1>1 DEF ActKept, SameLocals
<1>2. CASE Environment \/ Tick \/ UNCHANGED vars
  BY <1>1, <1>2 DEF Environment, Tick, vars, pageVars
<1>3. ASSUME NEW t \in Threads,
             SnapshotStep(t) \/ SnapshotError(t) \/ ReviewStep(t)
      PROVE  \A b \in act' : ActKept(b)
  <2>1. CASE SnapshotStep(t)
    BY <1>1, <2>1 DEF SnapshotStep, pageVars
  <2>2. CASE SnapshotError(t)
    BY <1>0, <1>1, <2>2 DEF SnapshotError, GoTo
  <2>3. CASE ReviewStep(t)
    BY <1>0, <2>3 DEF ReviewStep, ApproveStart, ApproveCommit, Reject, GoTo,
                      ActKept, SameLocals, AfterCapture
  <2> QED
    BY <1>3, <2>1, <2>2, <2>3
<1>4. CASE ActStart
  <2>1. pc'[Agent] \notin AfterCapture
    BY <1>0, <1>4 DEF ActStart, Enforce, GoTo, AfterCapture
  <2> QED
    BY <1>4, <2>1, EnforceType DEF ActStart, ActBegins
<1>5. CASE ReadDocument
  <2>1. pc'[Agent] \notin AfterCapture /\ stage[Agent] = "recorded"
    BY <1>0, <1>5 DEF ReadDocument, GoTo, AfterCapture
  <2>2. PICK a \in act : act' = {[a EXCEPT !.doc = snap[Agent]]}
    BY <1>5 DEF ReadDocument
  <2>3. ASSUME NEW b \in act' PROVE ActReads(b)
    <3>1. b = [a EXCEPT !.doc = snap[Agent]]
      BY <2>2
    <3>2. b.doc = snap[Agent] /\ b.cap = a.cap /\ b.use = a.use
      BY <1>0, <3>1, LocalsDoc
    <3> QED
      BY <2>1, <3>2 DEF ActReads
  <2> QED
    BY <2>3
<1>6. CASE Capture
  <2>1. ASSUME NEW b \in act' PROVE ActCaptures(b)
    <3>1. PICK a \in act : /\ b = [a EXCEPT !.cap = Len(hist)]
                          /\ GoTo(Agent, "recheck")
      BY <1>6, <2>1 DEF Capture, ActReturns
    <3>2. b.doc = a.doc /\ b.cap = Len(hist) /\ b.use = a.use
      BY <1>0, <3>1, LocalsCap
    <3>3. pc'[Agent] # "publish"
      BY <1>0, <3>1 DEF GoTo
    <3> QED
      BY <1>6, <3>2, <3>3 DEF Capture, ActCaptures
  <2> QED
    BY <2>1
<1>7. CASE Evaluate
  <2> DEFINE r(a) == [rule |-> rules[a.doc.path][a.target].rule,
                      scope |-> rules[a.doc.path][a.target].scope,
                      target |-> a.target]
  <2>1. \A a \in act : a \in Locals /\ a.doc \in Snapshots /\ a.target \in Targets
    BY <1>0 DEF Locals
  <2>2. PICK a \in act : \/ act' = {}
                        \/ act' = act
                        \/ act' = {[a EXCEPT !.req = r(a)]}
    BY <1>7 DEF Evaluate, ActReturns
  <2>3. r(a) \in Requests
    BY <2>1, RulesFacts
  <2> HIDE DEF r
  <2>4. SameLocals(a, [a EXCEPT !.req = r(a)])
    BY <1>0, <2>3, LocalsReq DEF SameLocals
  <2>5. \A b \in act' : \E c \in act : SameLocals(c, b)
    BY <2>2, <2>4 DEF SameLocals
  <2>6. pc[Agent] = "recheck" /\ pc'[Agent] # "publish"
    BY <1>0, <1>7 DEF Evaluate, ActReturns, GoTo
  <2> QED
    BY <2>5, <2>6 DEF ActKept, AfterCapture
<1>8. CASE ConsumeRead
  <2>1. PICK a \in act :
          act' = {} \/ act' = {[a EXCEPT !.now = now, !.epoch = epoch]}
    BY <1>8 DEF ConsumeRead, ActReturns
  <2>2. ASSUME NEW b, b = [a EXCEPT !.now = now, !.epoch = epoch]
        PROVE  SameLocals(a, b)
    <3>1. b.doc = a.doc /\ b.cap = a.cap /\ b.use = a.use
      BY <1>0, <2>2 DEF Locals
    <3> QED
      BY <3>1 DEF SameLocals
  <2>3. \A b \in act' : \E c \in act : SameLocals(c, b)
    BY <2>1, <2>2
  <2>4. pc[Agent] = "consume" /\ pc'[Agent] # "publish"
    BY <1>0, <1>8 DEF ConsumeRead, ActReturns, GoTo
  <2> QED
    BY <2>3, <2>4 DEF ActKept, AfterCapture
<1>9. CASE ConsumeCommit
  <2>1. PICK a \in act :
          \/ act' = {}
          \/ act' = act
          \/ /\ GoTo(Agent, "plugins")
             /\ ContextCurrent(snap[Agent])
             /\ \E g \in granted :
                  /\ Matches(g.binding, snap[Agent], g.req.scope)
                  /\ act' = {[a EXCEPT !.use =
                                {[grant |-> g, mark |-> mark[Agent]]}]}
    BY <1>9 DEF ConsumeCommit, StillValid, ActReturns
  <2>2. pc[Agent] = "consume_lock" /\ stage'[Agent] = "idle"
    BY <1>0, <1>9 DEF ConsumeCommit, Release
  <2>3. CASE act' = {} \/ act' = act
    BY <2>2, <2>3 DEF ActKept, SameLocals, AfterCapture
  <2>4. ASSUME NEW g \in granted,
               Matches(g.binding, snap[Agent], g.req.scope),
               act' = {[a EXCEPT !.use = {[grant |-> g, mark |-> mark[Agent]]}]},
               GoTo(Agent, "plugins"), ContextCurrent(snap[Agent]),
               NEW b \in act'
        PROVE  ActUses(b)
    <3>1. {[grant |-> g, mark |-> mark[Agent]]} \in SUBSET Uses
      BY <1>0 DEF Uses
    <3>2. b = [a EXCEPT !.use = {[grant |-> g, mark |-> mark[Agent]]}]
      BY <2>4
    <3>3. /\ b.doc = a.doc /\ b.cap = a.cap
          /\ b.use = {[grant |-> g, mark |-> mark[Agent]]}
      BY <1>0, <3>1, <3>2, LocalsUse
    <3>4. pc'[Agent] \notin AfterCapture
      BY <1>0, <2>4 DEF GoTo, AfterCapture
    <3> QED
      BY <2>2, <2>4, <3>3, <3>4 DEF ActUses
  <2> QED
    BY <2>1, <2>3, <2>4
<1>10. CASE Publish \/ ActFinish
  BY <1>10 DEF Publish, ActFinish, ActReturns
<1>11. CASE PluginPolicy
  <2>1. act' = {} \/ (act' = act /\ pc'[Agent] = "perform")
    BY <1>0, <1>11 DEF PluginPolicy, ActReturns, GoTo
  <2> QED
    BY <2>1 DEF ActKept, SameLocals, AfterCapture
<1>12. CASE PerformById \/ Fallback
  <2>1. \/ act' = {}
        \/ act' = act /\ GoTo(Agent, "fallback")
        \/ \E a \in act : Perform(a)
        \/ \E x \in Targets : Enforce(x, TRUE)
    BY <1>12 DEF PerformById, Fallback, ActReturns
  <2>2. ASSUME NEW a \in act, Perform(a), NEW b \in act'
        PROVE  ActKept(b)
    <3>1. b = [a EXCEPT !.at = Len(hist)] /\ GoTo(Agent, "finish")
      BY <2>2 DEF Perform
    <3>2. SameLocals(a, b)
      BY <1>0, <3>1, LocalsAt DEF SameLocals
    <3>3. pc'[Agent] = "finish"
      BY <1>0, <3>1 DEF GoTo
    <3> QED
      BY <3>2, <3>3 DEF ActKept, AfterCapture
  <2>3. ASSUME NEW x \in Targets, Enforce(x, TRUE), NEW b \in act'
        PROVE  ActBegins(b)
    <3>1. pc'[Agent] = "document"
      BY <1>0, <2>3 DEF Enforce, GoTo
    <3> QED
      BY <2>3, <3>1, EnforceType DEF ActBegins, AfterCapture
  <2>4. CASE act' = act /\ GoTo(Agent, "fallback")
    BY <1>0, <2>4 DEF ActKept, SameLocals, AfterCapture, GoTo
  <2> QED
    BY <2>1, <2>2, <2>3, <2>4
<1>13. CASE \/ NavigateStart \/ NavigateWaited \/ NavigateClear
            \/ SetRules \/ SetRulesClear
  <2>1. act' = act
    BY <1>13 DEF NavigateStart, NavigateWaited, NavigateClear, SetRules,
                 SetRulesClear
  <2>2. pc'[Agent] \notin AfterCapture
    BY <1>0, <1>13 DEF NavigateStart, NavigateWaited, NavigateClear, SetRules,
                       SetRulesClear, GoTo, AfterCapture
  <2> QED
    BY <2>1, <2>2 DEF ActKept, SameLocals, AfterCapture
<1> QED
  BY <1>2, <1>3, <1>4, <1>5, <1>6, <1>7, <1>8, <1>9, <1>10, <1>11, <1>12,
     <1>13 DEF PageNext, AgentStep

(* A request appears in the slot because the agent published it.           *)
Published(p) ==
    /\ pc[Agent] = "publish"
    /\ stage[Agent] = "verified"
    /\ ContextCurrent(snap[Agent])
    /\ \E a \in act :
         /\ Matches(a.doc, snap[Agent], a.req.scope)
         /\ p.binding = a.doc
         /\ p.cap = a.cap
    /\ UNCHANGED <<hist, seen, obs>>

(* Nothing else enters the slot; what a reviewer holds comes from the      *)
(* slot, and what is granted is bound as what a reviewer held.             *)
LEMMA SlotStep ==
    ASSUME PageTypeOK, [PageNext]_vars
    PROVE  /\ \A p \in pending' : p \in pending \/ Published(p)
           /\ \A t \in Threads : \A p \in held'[t] : p \in held[t] \/ p \in pending
           /\ \A g \in granted' :
                \/ g \in granted
                \/ \E t \in Threads : \E p \in held[t] : g.binding = p.binding
<1>0. held \in [Threads -> SUBSET Pendings]
  BY DEF PageTypeOK
<1>1. CASE Environment \/ Tick \/ UNCHANGED vars
  BY <1>1 DEF Environment, Tick, vars, pageVars, approvalVars
<1>2. CASE Publish
  <2>1. PICK a \in act :
          \/ pending' = pending
          \/ /\ Matches(a.doc, snap[Agent], a.req.scope)
             /\ ContextCurrent(snap[Agent])
             /\ pending' = {[id |-> nextId, req |-> a.req, binding |-> a.doc,
                             cap |-> a.cap, set |-> sets]}
    BY <1>2 DEF Publish
  <2>2. \A p \in pending' : p \in pending \/ Published(p)
    BY <1>2, <2>1 DEF Publish, Published, Release
  <2> QED
    BY <1>2, <2>2 DEF Publish
<1>3. CASE ConsumeCommit
  BY <1>3 DEF ConsumeCommit, StillValid, AfterUse
<1>4. CASE \/ ActStart \/ ReadDocument \/ Capture \/ Evaluate \/ ConsumeRead
           \/ PluginPolicy \/ PerformById \/ Fallback \/ ActFinish
           \/ NavigateStart \/ NavigateWaited \/ NavigateClear
           \/ SetRules \/ SetRulesClear
  BY <1>4
     DEF ActStart, ReadDocument, Capture, Evaluate, ConsumeRead, PluginPolicy,
         PerformById, Fallback, ActFinish, NavigateStart, NavigateWaited,
         NavigateClear, SetRules, SetRulesClear, approvalVars
<1>5. ASSUME NEW t \in Threads,
             SnapshotStep(t) \/ SnapshotError(t) \/ ApproveStart(t) \/ Reject(t)
      PROVE  /\ pending' \subseteq pending
             /\ granted' = granted
             /\ \A u \in Threads : held'[u] \subseteq held[u] \cup pending
  BY <1>0, <1>5 DEF SnapshotStep, SnapshotError, ApproveStart, Reject,
                    pageVars, approvalVars
<1>6. ASSUME NEW t \in Threads, ApproveCommit(t)
      PROVE  /\ pending' \subseteq pending
             /\ \A g \in granted' :
                  g \in granted \/ \E p \in held[t] : g.binding = p.binding
             /\ \A u \in Threads : held'[u] \subseteq held[u]
  BY <1>0, <1>6 DEF ApproveCommit, Grant
<1> QED
  BY <1>1, <1>2, <1>3, <1>4, <1>5, <1>6
     DEF PageNext, AgentStep, ReviewStep

-----------------------------------------------------------------------------
(* The initial state satisfies the invariant.                              *)
LEMMA PageInvInit == PageInit => PageInv
<1> SUFFICES ASSUME PageInit PROVE PageInv
  OBVIOUS
<1>1. PageTypeOK /\ ObservationInv
  BY PageTypeInit, InvInit DEF PageInit
<1>2. Bound = {}
  BY DEF PageInit, Bound
<1>3. UsesOK /\ CaptureOK /\ ShownOK
  BY DEF PageInit, UsesOK, CaptureOK, ShownOK
<1>4. pc[Agent] = "idle"
  BY AgentAssumption DEF PageInit
<1> QED
  BY <1>1, <1>2, <1>3, <1>4 DEF PageInv

(* A binding is an old one, or the snapshot act has just taken, or none.   *)
LEMMA BoundStep ==
    ASSUME PageTypeOK, [PageNext]_vars, NEW s \in Bound'
    PROVE  /\ s \in Snapshots
           /\ \/ s \in Bound
              \/ s = NoSnapshot
              \/ s = snap[Agent] /\ stage[Agent] = "recorded"
<1>1. PageTypeOK'
  BY PageTypeStep
<1>2. s \in Snapshots
  <2>1. /\ \A a \in Locals : a.doc \in Snapshots
        /\ \A p \in Pendings : p.binding \in Snapshots
        /\ \A g \in Grants : g.binding \in Snapshots
    BY DEF Locals, Pendings, Grants
  <2>2. /\ act' \subseteq Locals
        /\ pending' \subseteq Pendings
        /\ granted' \subseteq Grants
        /\ \A t \in Threads : held'[t] \subseteq Pendings
    BY <1>1 DEF PageTypeOK
  <2> QED
    BY <2>1, <2>2 DEF Bound
<1>3. CASE s \in {a.doc : a \in act'}
  <2>1. PICK b \in act' : s = b.doc
    BY <1>3
  <2>2. ActKept(b) \/ ActBegins(b) \/ ActReads(b) \/ ActCaptures(b) \/ ActUses(b)
    BY ActStep
  <2>3. \/ \E a \in act : s = a.doc
        \/ s = NoSnapshot
        \/ s = snap[Agent] /\ stage[Agent] = "recorded"
    BY <2>1, <2>2 DEF ActKept, SameLocals, ActBegins, ActReads, ActCaptures,
                      ActUses
  <2> QED
    BY <1>2, <2>3 DEF Bound
<1>4. CASE s \in {p.binding : p \in pending'}
  BY <1>2, <1>4, SlotStep DEF Bound, Published
<1>5. CASE \E t \in Threads : s \in {p.binding : p \in held'[t]}
  BY <1>2, <1>5, SlotStep DEF Bound
<1>6. CASE s \in {g.binding : g \in granted'}
  BY <1>2, <1>6, SlotStep DEF Bound
<1> QED
  BY <1>3, <1>4, <1>5, <1>6 DEF Bound

(* Every binding stays sound.                                              *)
LEMMA BoundKept ==
    ASSUME PageInv, [PageNext]_vars
    PROVE  \A s \in Bound' : SnapshotOK(s)'
<1> SUFFICES ASSUME NEW s \in Bound' PROVE SnapshotOK(s)'
  OBVIOUS
<1>1. PageTypeOK /\ ObservationTypeOK /\ ObservationInv
  BY DEF PageInv, PageTypeOK
<1>2. s \in Snapshots /\ SnapshotOK(s)
  BY <1>1, BoundStep, AgentAssumption DEF PageInv, ObservationInv
<1> QED
  BY <1>1, <1>2, SnapshotKept, PageStepObserves

(* A binding whose revision is the observed one has not been left, as far  *)
(* as the event thread has been told.                                      *)
LEMMA MatchedBinding ==
    ASSUME PageInv, NEW s \in Bound, NEW v, NEW scope,
           Matches(s, v, scope), ContextCurrent(v)
    PROVE  Still(s.at, seen, s)
<1>1. s.rev = obs.rev
  BY DEF Matches, SameRevision, ContextCurrent
<1> QED
  BY <1>1 DEF PageInv, SnapshotOK

(* The agent is at the approval lock only with a verified snapshot.        *)
LEMMA LockKept ==
    ASSUME PageInv, [PageNext]_vars, pc'[Agent] = "consume_lock"
    PROVE  stage'[Agent] = "verified"
<1>0. /\ PageTypeOK /\ ObservationTypeOK
      /\ pc \in [Threads -> Pcs]
      /\ stage \in [Threads -> Stages]
      /\ Agent \in Threads
      /\ pc[Agent] = "consume_lock" => stage[Agent] = "verified"
  BY AgentAssumption DEF PageInv, PageTypeOK, ObservationTypeOK
<1>1. CASE ConsumeRead
  BY <1>0, <1>1 DEF ConsumeRead, ActReturns, GoTo, obsVars
<1>2. CASE Environment \/ Tick \/ UNCHANGED vars
  BY <1>0, <1>2 DEF Environment, ChromeMoves, DeliverEvent, StartingRequest,
                    Tick, vars, pageVars, obsVars
<1>3. CASE AgentStep /\ ~ ConsumeRead
  BY <1>0, <1>3
     DEF AgentStep, ActStart, ReadDocument, Capture, Evaluate, ConsumeCommit,
         Publish, PluginPolicy, PerformById, Fallback, ActFinish,
         NavigateStart, NavigateWaited, NavigateClear, SetRules,
         SetRulesClear, Perform, Enforce, ActReturns, GoTo
<1>4. ASSUME NEW t \in Threads, SnapshotStep(t)
      PROVE  stage'[Agent] = "verified"
  <2>1. pc[Agent] = "consume_lock" /\ t # Agent /\ stage[Agent] = "verified"
    BY <1>0, <1>4 DEF SnapshotStep, pageVars, LivePcs, BarrierPcs
  <2>2. stage'[Agent] = stage[Agent]
    BY <1>0, <1>4, <2>1
       DEF SnapshotStep, LiveStep, BarrierStep, SnapshotFails, BeginSnapshot,
           ReadFrameTree, RecordSnapshot, ResampleSnapshot, EvaluateMarker,
           VerifySnapshot
  <2> QED
    BY <2>1, <2>2
<1>5. ASSUME NEW t \in Threads, SnapshotError(t) \/ ReviewStep(t)
      PROVE  stage'[Agent] = "verified"
  BY <1>0, <1>5 DEF SnapshotError, ReviewStep, ApproveStart, ApproveCommit,
                    Reject, GoTo, Release, obsVars
<1> QED
  BY <1>1, <1>2, <1>3, <1>4, <1>5 DEF PageNext

(* Uses stay what they are; a new one rests on a matching binding and on a *)
(* marker that the event thread has passed.                                *)
LEMMA UsesKept ==
    ASSUME PageInv, [PageNext]_vars
    PROVE  UsesOK'
<1>0. /\ PageTypeOK /\ ObservationTypeOK /\ UsesOK
      /\ act \subseteq Locals
      /\ granted \subseteq Grants
      /\ [ObservationNext]_obsVars
      /\ Len(hist) \in Nat
      /\ seen \in Nat /\ seen' \in Nat /\ seen' >= seen
  <2>1. /\ PageTypeOK /\ ObservationTypeOK /\ UsesOK
        /\ act \subseteq Locals
        /\ granted \subseteq Grants
    BY DEF PageInv, PageTypeOK
  <2>2. [ObservationNext]_obsVars
    BY PageStepObserves
  <2>3. ObservationTypeOK'
    BY <2>1, <2>2, TypeStep
  <2>4. /\ Len(hist) \in Nat /\ Len(hist') \in Nat
        /\ seen \in 1 .. Len(hist)
    BY <2>1, <2>2, HistoryFacts, HistoryKept DEF ObservationTypeOK
  <2>5. seen' \in 1 .. Len(hist')
    BY <2>3 DEF ObservationTypeOK
  <2>6. seen' >= seen
    BY <2>1, <2>2, HistoryKept
  <2> QED
    BY <2>1, <2>2, <2>4, <2>5, <2>6
<1>1. ASSUME NEW g \in Grants, NEW m \in Nat,
             m <= seen, Still(g.binding.at, m, g.binding)
      PROVE  m <= seen' /\ Still(g.binding.at, m, g.binding)'
  <2>1. g.binding.at \in Nat
    BY DEF Grants, Snapshots
  <2> QED
    BY <1>0, <1>1, <2>1, StillKept
<1>2. ASSUME NEW b \in act', NEW u \in b.use
      PROVE  /\ u.grant \in Grants
             /\ u.mark \in Nat
             /\ u.mark <= seen
             /\ Still(u.grant.binding.at, u.mark, u.grant.binding)
  <2>1. \A a \in act : \A w \in a.use :
          /\ w.grant \in Grants
          /\ w.mark \in Nat
          /\ w.mark <= seen
          /\ Still(w.grant.binding.at, w.mark, w.grant.binding)
    BY <1>0 DEF UsesOK, Locals
  <2>2. CASE ActUses(b)
    <3>1. PICK g \in granted : /\ Matches(g.binding, snap[Agent], g.req.scope)
                              /\ u = [grant |-> g, mark |-> mark[Agent]]
      BY <1>2, <2>2 DEF ActUses
    <3>2. ContextCurrent(snap[Agent]) /\ g.binding \in Bound
      BY <2>2 DEF ActUses, Bound
    <3>3. Still(g.binding.at, seen, g.binding)
      BY <3>1, <3>2, MatchedBinding
    <3>4. mark[Agent] \in Nat /\ mark[Agent] <= seen
      BY <1>0, <2>2, AgentAssumption
         DEF ActUses, PageInv, ObservationInv, MarkOK, ObservationTypeOK
    <3>5. Still(g.binding.at, mark[Agent], g.binding)
      BY <1>0, <3>3, <3>4 DEF Still
    <3>6. u.grant = g /\ u.mark = mark[Agent]
      BY <3>1
    <3> QED
      BY <1>0, <3>4, <3>5, <3>6
  <2>3. CASE ~ ActUses(b)
    <3>1. b.use = {} \/ \E a \in act : b.use = a.use
      BY <1>0, <2>3, ActStep
         DEF ActKept, SameLocals, ActBegins, ActReads, ActCaptures
    <3> QED
      BY <1>2, <2>1, <3>1
  <2> QED
    BY <2>2, <2>3
<1>3. ASSUME NEW b \in act', NEW u \in b.use
      PROVE  /\ u.mark <= seen'
             /\ Still(u.grant.binding.at, u.mark, u.grant.binding)'
  <2>1. /\ u.grant \in Grants
        /\ u.mark \in Nat
        /\ u.mark <= seen
        /\ Still(u.grant.binding.at, u.mark, u.grant.binding)
    BY <1>2, <1>3
  <2> QED
    BY <1>1, <2>1
<1> QED
  BY <1>3 DEF UsesOK

(* The agent's marker is set behind its capture.                           *)
LEMMA MarkerStep ==
    ASSUME ObservationTypeOK, [ObservationNext]_obsVars,
           stage'[Agent] \in {"marked", "verified"}
    PROVE  \/ mark'[Agent] = Len(hist)
           \/ /\ mark'[Agent] = mark[Agent]
              /\ stage[Agent] \in {"marked", "verified"}
<1>1. /\ stage \in [Threads -> Stages] /\ mark \in [Threads -> Nat]
      /\ Agent \in Threads
  BY AgentAssumption DEF ObservationTypeOK
<1> QED
  BY <1>1, ThreadStep
     DEF Elsewhere, LiveStep, BarrierStep, BeginSnapshot, ReadFrameTree,
         RecordSnapshot, ResampleSnapshot, EvaluateMarker, VerifySnapshot,
         SnapshotFails, Release

(* Document, capture and marker of act keep their order.                   *)
LEMMA CaptureKept ==
    ASSUME PageInv, [PageNext]_vars
    PROVE  CaptureOK'
<1> SUFFICES ASSUME NEW b \in act'
             PROVE  /\ b.cap \in 1 .. Len(hist')
                    /\ pc'[Agent] \in AfterCapture => b.doc.at <= b.cap
                    /\ (/\ pc'[Agent] = "publish"
                        /\ stage'[Agent] \in {"marked", "verified"})
                           => b.cap <= mark'[Agent]
  BY DEF CaptureOK
<1>0. /\ PageTypeOK /\ ObservationTypeOK /\ CaptureOK
      /\ [ObservationNext]_obsVars
      /\ Len(hist) \in Nat /\ Len(hist) >= 1
      /\ Len(hist') \in Nat /\ Len(hist') >= Len(hist)
  BY PageStepObserves, HistoryKept, HistoryFacts
     DEF PageInv, PageTypeOK, ObservationTypeOK
<1>1. "publish" \in AfterCapture
  BY DEF AfterCapture
<1>2. CASE ActKept(b)
  <2>1. PICK a \in act : b.doc = a.doc /\ b.cap = a.cap
    BY <1>2 DEF ActKept, SameLocals
  <2>2. /\ a.cap \in 1 .. Len(hist)
        /\ pc[Agent] \in AfterCapture => a.doc.at <= a.cap
        /\ (pc[Agent] = "publish" /\ stage[Agent] \in {"marked", "verified"})
               => a.cap <= mark[Agent]
    BY <1>0 DEF CaptureOK
  <2>3. ASSUME pc'[Agent] = "publish", stage'[Agent] \in {"marked", "verified"}
        PROVE  b.cap <= mark'[Agent]
    <3>1. pc[Agent] = "publish"
      BY <1>2, <2>3 DEF ActKept
    <3> QED
      BY <1>0, <2>1, <2>2, <2>3, <3>1, MarkerStep
  <2> QED
    BY <1>0, <1>2, <2>1, <2>2, <2>3 DEF ActKept
<1>3. CASE ActBegins(b)
  BY <1>0, <1>1, <1>3 DEF ActBegins
<1>4. CASE ActReads(b)
  BY <1>0, <1>1, <1>4 DEF ActReads, CaptureOK
<1>5. CASE ActCaptures(b)
  <2>1. PICK a \in act : b.doc = a.doc
    BY <1>5 DEF ActCaptures
  <2>2. a.doc.at \in 1 .. Len(hist)
    BY DEF PageInv, Bound, SnapshotOK, SnapshotAt
  <2> QED
    BY <1>0, <1>5, <2>1, <2>2 DEF ActCaptures, obsVars
<1>6. CASE ActUses(b)
  BY <1>0, <1>1, <1>6 DEF ActUses, CaptureOK
<1> QED
  BY <1>0, <1>2, <1>3, <1>4, <1>5, <1>6, ActStep

(* A published request shows what was captured on its document: the        *)
(* capture lies between the read of the document and the marker.           *)
LEMMA ShownKept ==
    ASSUME PageInv, [PageNext]_vars
    PROVE  ShownOK'
<1> SUFFICES ASSUME NEW p \in pending'
             PROVE  /\ p.cap \in 1 .. Len(hist')
                    /\ SameDocument(hist'[p.cap], p.binding)
  BY DEF ShownOK
<1>0. /\ PageTypeOK /\ ObservationTypeOK
      /\ [ObservationNext]_obsVars
      /\ Len(hist) \in Nat /\ seen \in 1 .. Len(hist)
      /\ Len(hist') \in Nat /\ Len(hist') >= Len(hist)
      /\ \A k \in 1 .. Len(hist) : hist'[k] = hist[k]
      /\ mark[Agent] \in Nat
  BY PageStepObserves, HistoryKept, HistoryFacts, AgentAssumption
     DEF PageInv, PageTypeOK, ObservationTypeOK
<1>1. p.cap \in 1 .. Len(hist) /\ SameDocument(hist[p.cap], p.binding)
  <2>1. CASE p \in pending
    BY <2>1 DEF PageInv, ShownOK
  <2>2. CASE Published(p)
    <3>1. PICK a \in act : /\ Matches(a.doc, snap[Agent], a.req.scope)
                          /\ p.binding = a.doc
                          /\ p.cap = a.cap
      BY <2>2 DEF Published
    <3>2. a.doc \in Bound
      BY DEF Bound
    <3>3. Still(a.doc.at, seen, a.doc)
      BY <2>2, <3>1, <3>2, MatchedBinding DEF Published
    <3>4. /\ a.cap \in 1 .. Len(hist)
          /\ a.doc.at <= a.cap
          /\ a.cap <= mark[Agent]
      BY <2>2 DEF Published, PageInv, CaptureOK, AfterCapture
    <3>5. mark[Agent] <= seen
      BY <2>2, AgentAssumption DEF Published, PageInv, ObservationInv, MarkOK
    <3>6. a.doc.at <= a.cap /\ a.cap <= seen
      BY <1>0, <3>4, <3>5
    <3>7. SameDocument(hist[a.cap], a.doc)
      BY <3>3, <3>4, <3>6 DEF Still
    <3> QED
      BY <3>1, <3>4, <3>7
  <2> QED
    BY <1>0, <2>1, <2>2, SlotStep
<1> QED
  BY <1>0, <1>1

(* The invariant is inductive.                                             *)
LEMMA PageInvStep == PageInv /\ [PageNext]_vars => PageInv'
<1> SUFFICES ASSUME PageInv, [PageNext]_vars PROVE PageInv'
  OBVIOUS
<1>1. PageTypeOK'
  BY PageTypeStep DEF PageInv
<1>2. ObservationInv'
  BY InvStep, PageStepObserves DEF PageInv
<1> QED
  BY <1>1, <1>2, BoundKept, UsesKept, CaptureKept, ShownKept, LockKept
     DEF PageInv

(* The invariant holds of every reachable state of a page.                 *)
THEOREM PageInvariant == PageSpec => []PageInv
BY PageInvInit, PageInvStep, PTL DEF PageSpec

(* A grant that consume_granted_policy_approval uses was reviewed, granted *)
(* and used on one document that Chrome never left in between, for every   *)
(* policy, any number of reviewers and navigations, and events as late as  *)
(* they like.                                                              *)
THEOREM UsedGrants == PageSpec => []UsedGrantStayedOnItsDocument
<1>1. PageInv => UsedGrantStayedOnItsDocument
  BY DEF PageInv, UsesOK, UsedGrantStayedOnItsDocument
<1> QED
  BY <1>1, PageInvariant, PTL

(* What enforce_policy lets a reviewer see was captured from the document  *)
(* the request is bound to.                                                *)
THEOREM PendingCaptures == PageSpec => []PendingWasCapturedOnItsDocument
<1>1. PageInv => PendingWasCapturedOnItsDocument
  BY DEF PageInv, ShownOK, PendingWasCapturedOnItsDocument
<1> QED
  BY <1>1, PageInvariant, PTL

-----------------------------------------------------------------------------
(* The ledger of decisions: what is asked, held, granted and used.         *)

(* The parts of the ledger invariant that new rules do not touch.          *)
Ledger ==
    SlotOK /\ HeldOK /\ GrantsOK /\ FreshOK /\ DecidedOnce /\ ActionOnlyUsedOnce

(* The ledger starts empty.                                                *)
LEMMA LedgerInit == PageInit => LedgerInv
<1> SUFFICES ASSUME PageInit PROVE LedgerInv
  OBVIOUS
<1>1. PageTypeOK
  BY PageTypeInit
<1>2. SlotOK /\ HeldOK /\ GrantsOK /\ FreshOK
  BY DEF PageInit, SlotOK, HeldOK, GrantsOK, FreshOK, Ids
<1>3. StagesOK
  BY DEF PageInit, Init, StagesOK
<1>4. DecidedOnce /\ ActionOnlyUsedOnce /\ NewRulesRevoke
  BY DEF PageInit, DecidedOnce, ActionOnlyUsedOnce, NewRulesRevoke, Ids
<1> QED
  BY <1>1, <1>2, <1>3, <1>4 DEF LedgerInv

(* Steps that neither ask nor decide nor use anything: the slot, the       *)
(* grants and the records stay, and reviewers at most let go.              *)
LedgerQuiet ==
    /\ UNCHANGED <<pending, granted, nextId, approvals, rejected, spent>>
    /\ \A t \in Threads : held'[t] \subseteq held[t]
    /\ act' # {} => (act # {} \/ nextId <= MaxIds)

(* Outside consume, publish, approve, reject and the two clears, the       *)
(* approval state of the page is only read.                                *)
LEMMA QuietSteps ==
    ASSUME PageTypeOK, [PageNext]_vars
    PROVE  \/ LedgerQuiet
           \/ ConsumeCommit \/ Publish \/ NavigateClear \/ SetRulesClear
           \/ \E t \in Threads : ReviewStep(t)
<1>0. held \in [Threads -> SUBSET Pendings]
  BY DEF PageTypeOK
<1>1. CASE Environment \/ Tick \/ UNCHANGED vars
  BY <1>1 DEF Environment, Tick, LedgerQuiet, vars, pageVars, approvalVars, ledgerVars
<1>2. CASE ActStart
  BY <1>2 DEF ActStart, LedgerQuiet, approvalVars, ledgerVars
<1>3. CASE ReadDocument \/ Capture \/ Evaluate \/ ConsumeRead
  BY <1>3 DEF ReadDocument, Capture, Evaluate, ConsumeRead, ActReturns, LedgerQuiet,
              approvalVars, ledgerVars
<1>4. CASE PluginPolicy \/ PerformById \/ Fallback \/ ActFinish
  BY <1>4 DEF PluginPolicy, PerformById, Fallback, ActFinish, ActReturns,
              Perform, LedgerQuiet, approvalVars, ledgerVars
<1>5. CASE NavigateStart \/ NavigateWaited \/ SetRules
  BY <1>5 DEF NavigateStart, NavigateWaited, SetRules, LedgerQuiet, approvalVars,
              ledgerVars
<1>6. ASSUME NEW t \in Threads, SnapshotStep(t) \/ SnapshotError(t)
      PROVE  LedgerQuiet
  BY <1>0, <1>6 DEF SnapshotStep, SnapshotError, LedgerQuiet, pageVars, approvalVars,
                    ledgerVars
<1> QED
  BY <1>1, <1>2, <1>3, <1>4, <1>5, <1>6 DEF PageNext, AgentStep

(* ... and leave the ledger as it was.                                     *)
LEMMA QuietKeepsLedger ==
    ASSUME Ledger, LedgerQuiet
    PROVE  Ledger'
<1>1. SlotOK'
  BY DEF Ledger, LedgerQuiet, SlotOK
<1>2. HeldOK'
  BY DEF Ledger, LedgerQuiet, HeldOK
<1>3. GrantsOK' /\ FreshOK' /\ DecidedOnce' /\ ActionOnlyUsedOnce'
  BY DEF Ledger, LedgerQuiet, GrantsOK, FreshOK, DecidedOnce, ActionOnlyUsedOnce
<1> QED
  BY <1>1, <1>2, <1>3 DEF Ledger

(* commit_pending_policy_approval and its neighbours: an id is approved or *)
(* rejected only while its request is in the slot, which then is emptied.  *)
LEMMA ReviewKeepsLedger ==
    ASSUME PageTypeOK, Ledger, NEW t \in Threads, ReviewStep(t)
    PROVE  Ledger'
<1>0. /\ SlotOK /\ HeldOK /\ GrantsOK /\ FreshOK
      /\ DecidedOnce /\ ActionOnlyUsedOnce
  BY DEF Ledger
<1>1. /\ held \in [Threads -> SUBSET Pendings]
      /\ approvals \in [Ids -> Nat] /\ spent \in [Ids -> Nat]
      /\ nextId \in Nat
  BY DEF PageTypeOK
<1>2. CASE ApproveStart(t)
  <2>1. /\ UNCHANGED <<pending, granted, nextId, approvals, rejected, spent, act>>
        /\ \A u \in Threads : held'[u] \subseteq held[u] \cup pending
    BY <1>1, <1>2 DEF ApproveStart, approvalVars, ledgerVars
  <2>2. SlotOK' /\ GrantsOK' /\ FreshOK' /\ DecidedOnce' /\ ActionOnlyUsedOnce'
    BY <1>0, <2>1
       DEF SlotOK, GrantsOK, FreshOK, DecidedOnce, ActionOnlyUsedOnce
  <2>3. HeldOK'
    BY <1>0, <2>1 DEF SlotOK, HeldOK
  <2> QED
    BY <2>2, <2>3 DEF Ledger
<1>3. CASE Reject(t)
  <2>1. PICK p \in pending : rejected' = rejected \cup {p.id}
    BY <1>3 DEF Reject
  <2>2. /\ pending' = {}
        /\ UNCHANGED <<granted, nextId, approvals, spent, held, act>>
    BY <1>3 DEF Reject
  <2>3. p.id \in Ids /\ p.id < nextId /\ approvals[p.id] = 0
    BY <1>0, <2>1 DEF SlotOK
  <2>4. SlotOK' /\ HeldOK' /\ GrantsOK' /\ ActionOnlyUsedOnce'
    BY <1>0, <2>2 DEF SlotOK, HeldOK, GrantsOK, ActionOnlyUsedOnce
  <2>5. FreshOK' /\ DecidedOnce'
    BY <1>0, <1>1, <2>1, <2>2, <2>3 DEF FreshOK, DecidedOnce, Ids
  <2> QED
    BY <2>4, <2>5 DEF Ledger
<1>4. CASE ApproveCommit(t)
  <2>0. /\ \A u \in Threads : held'[u] \subseteq held[u]
        /\ UNCHANGED <<nextId, act, rejected, spent>>
    BY <1>1, <1>4 DEF ApproveCommit
  <2>1. PICK p \in held[t] :
          \/ UNCHANGED <<pending, granted, approvals>>
          \/ /\ SamePending(p)
             /\ pending' = {}
             /\ granted' = granted \cup {Grant(p, snap[t])}
             /\ approvals' = [approvals EXCEPT ![p.id] = approvals[p.id] + 1]
    BY <1>4 DEF ApproveCommit
  <2>2. CASE UNCHANGED <<pending, granted, approvals>>
    <3> LedgerQuiet
      BY <2>0, <2>2 DEF LedgerQuiet
    <3> QED
      BY QuietKeepsLedger
  <2>3. CASE /\ SamePending(p)
             /\ pending' = {}
             /\ granted' = granted \cup {Grant(p, snap[t])}
             /\ approvals' = [approvals EXCEPT ![p.id] = approvals[p.id] + 1]
    <3>1. p.id \in Ids /\ p.id < nextId /\ approvals[p.id] = 0 /\ p.id \notin rejected
      BY <1>0, <2>3 DEF SamePending, SlotOK
    <3>2. spent[p.id] = 0 /\ (\A g \in granted : g.id # p.id)
      BY <1>0, <3>1 DEF FreshOK, GrantsOK
    <3>3. /\ Grant(p, snap[t]).id = p.id
          /\ Grant(p, snap[t]).req = p.req
      BY DEF Grant
    <3>4. \A i \in Ids : approvals'[i] = IF i = p.id THEN 1 ELSE approvals[i]
      BY <1>1, <2>3, <3>1
    <3>5. SlotOK' /\ HeldOK'
      BY <1>0, <2>0, <2>3 DEF SlotOK, HeldOK
    <3>6. GrantsOK'
      BY <1>0, <1>1, <2>0, <2>3, <3>1, <3>2, <3>3, <3>4 DEF GrantsOK
    <3>7. FreshOK'
      BY <1>0, <1>1, <2>0, <3>1, <3>2, <3>4 DEF FreshOK, Ids
    <3>8. DecidedOnce'
      BY <1>0, <2>0, <3>1, <3>4 DEF DecidedOnce
    <3>9. ActionOnlyUsedOnce'
      BY <1>0, <2>0 DEF ActionOnlyUsedOnce
    <3> QED
      BY <3>5, <3>6, <3>7, <3>8, <3>9 DEF Ledger
  <2> QED
    BY <2>1, <2>2, <2>3
<1> QED
  BY <1>2, <1>3, <1>4 DEF ReviewStep

(* The agent's own steps: a new request gets a new id, and an action_only  *)
(* grant leaves the Vec with the use that is recorded for it.              *)
LEMMA AgentKeepsLedger ==
    ASSUME PageTypeOK, Ledger,
           ConsumeCommit \/ Publish \/ NavigateClear \/ SetRulesClear
    PROVE  Ledger'
<1>0. /\ SlotOK /\ HeldOK /\ GrantsOK /\ FreshOK
      /\ DecidedOnce /\ ActionOnlyUsedOnce
  BY DEF Ledger
<1>1. /\ approvals \in [Ids -> Nat] /\ spent \in [Ids -> Nat]
      /\ nextId \in Nat /\ MaxIds \in Nat
  BY ApprovalBoundsAssumption DEF PageTypeOK
<1>2. CASE NavigateClear \/ SetRulesClear
  <2>1. /\ pending' = {}
        /\ granted' \subseteq granted
        /\ UNCHANGED <<nextId, held, act, approvals, rejected, spent>>
    BY <1>2 DEF NavigateClear, SetRulesClear, ledgerVars
  <2>2. SlotOK' /\ HeldOK' /\ GrantsOK'
    BY <1>0, <2>1 DEF SlotOK, HeldOK, GrantsOK
  <2>3. FreshOK' /\ DecidedOnce' /\ ActionOnlyUsedOnce'
    BY <1>0, <2>1 DEF FreshOK, DecidedOnce, ActionOnlyUsedOnce
  <2> QED
    BY <2>2, <2>3 DEF Ledger
<1>3. CASE Publish
  <2>0. act # {} /\ act' = {} /\ UNCHANGED <<granted, held, approvals, rejected, spent>>
    BY <1>3 DEF Publish, ActReturns, ledgerVars
  <2>1. nextId \in Ids
    BY <1>0, <1>1, <2>0 DEF SlotOK, Ids
  <2>2. \/ UNCHANGED <<pending, nextId>>
        \/ /\ nextId' = nextId + 1
           /\ \E a \in act :
                pending' = {[id |-> nextId, req |-> a.req, binding |-> a.doc,
                             cap |-> a.cap, set |-> sets]}
    BY <1>3 DEF Publish
  <2>3. CASE UNCHANGED <<pending, nextId>>
    <3> LedgerQuiet
      BY <2>0, <2>3 DEF LedgerQuiet
    <3> QED
      BY QuietKeepsLedger
  <2>4. CASE /\ nextId' = nextId + 1
             /\ \E a \in act :
                  pending' = {[id |-> nextId, req |-> a.req, binding |-> a.doc,
                               cap |-> a.cap, set |-> sets]}
    <3>1. \A p \in pending' : p.id = nextId
      BY <2>4
    <3>2. \A p, q \in pending' : p = q
      BY <2>4
    <3>3. approvals[nextId] = 0 /\ nextId \notin rejected
      BY <1>0, <1>1, <2>1 DEF FreshOK
    <3>4. SlotOK'
      BY <1>0, <1>1, <2>0, <2>1, <2>4, <3>1, <3>2, <3>3 DEF SlotOK
    <3>5. HeldOK'
      BY <1>0, <1>1, <2>0, <2>4, <3>1 DEF HeldOK, Ids
    <3>6. GrantsOK'
      BY <1>0, <1>1, <2>0, <2>4 DEF GrantsOK, Ids
    <3>7. FreshOK'
      BY <1>0, <1>1, <2>0, <2>4 DEF FreshOK, Ids
    <3>8. DecidedOnce' /\ ActionOnlyUsedOnce'
      BY <1>0, <2>0 DEF DecidedOnce, ActionOnlyUsedOnce
    <3> QED
      BY <3>4, <3>5, <3>6, <3>7, <3>8 DEF Ledger
  <2> QED
    BY <2>2, <2>3, <2>4
<1>4. CASE ConsumeCommit
  <2>0. UNCHANGED <<pending, nextId, held, approvals, rejected>>
    BY <1>4 DEF ConsumeCommit
  <2>1. act # {}
    BY <1>4 DEF ConsumeCommit
  <2>2. SlotOK' /\ HeldOK' /\ DecidedOnce'
    BY <1>0, <2>0, <2>1 DEF SlotOK, HeldOK, DecidedOnce
  <2>3. \/ granted' \subseteq granted /\ spent' = spent
        \/ \E g \in granted :
             /\ g.req.scope = "action_only"
             /\ granted' \subseteq granted \ {g}
             /\ spent' = [spent EXCEPT ![g.id] = spent[g.id] + 1]
    BY <1>4 DEF ConsumeCommit, StillValid, AfterUse
  <2>4. CASE granted' \subseteq granted /\ spent' = spent
    <3>1. GrantsOK' /\ FreshOK' /\ ActionOnlyUsedOnce'
      BY <1>0, <2>0, <2>4 DEF GrantsOK, FreshOK, ActionOnlyUsedOnce
    <3> QED
      BY <2>2, <3>1 DEF Ledger
  <2>5. ASSUME NEW g \in granted,
               g.req.scope = "action_only",
               granted' \subseteq granted \ {g},
               spent' = [spent EXCEPT ![g.id] = spent[g.id] + 1]
        PROVE  Ledger'
    <3>1. g.id \in Ids /\ spent[g.id] = 0 /\ approvals[g.id] >= 1
      BY <1>0, <2>5 DEF GrantsOK
    <3>2. \A i \in Ids : spent'[i] = IF i = g.id THEN 1 ELSE spent[i]
      BY <1>1, <2>5, <3>1
    <3>3. \A h \in granted' : h \in granted /\ h.id # g.id
      BY <1>0, <2>5 DEF GrantsOK
    <3>4. GrantsOK'
      BY <1>0, <2>0, <3>2, <3>3 DEF GrantsOK
    <3>5. FreshOK'
      BY <1>0, <1>1, <2>0, <3>1, <3>2 DEF FreshOK
    <3>6. ActionOnlyUsedOnce'
      BY <1>0, <3>2 DEF ActionOnlyUsedOnce
    <3> QED
      BY <2>2, <3>4, <3>5, <3>6 DEF Ledger
  <2> QED
    BY <2>3, <2>4, <2>5
<1> QED
  BY <1>2, <1>3, <1>4

(* A thread enters an operation without a snapshot and leaves it without.  *)
LEMMA StagesKept ==
    ASSUME PageTypeOK, StagesOK, [PageNext]_vars
    PROVE  StagesOK'
<1>0. /\ pc \in [Threads -> Pcs]
      /\ stage \in [Threads -> Stages]
      /\ Agent \in Threads
  BY AgentAssumption DEF PageTypeOK, ObservationTypeOK
<1>1. CASE UNCHANGED vars \/ Tick \/ Environment
  <2>1. UNCHANGED <<pc, stage>>
    BY <1>1 DEF vars, obsVars, pageVars, Tick, Environment, ChromeMoves,
                DeliverEvent, StartingRequest
  <2> QED
    BY <2>1 DEF StagesOK
<1>2. CASE \/ ActStart \/ Capture \/ PluginPolicy \/ PerformById \/ Fallback
           \/ ActFinish \/ NavigateStart \/ NavigateWaited \/ NavigateClear
           \/ SetRules \/ SetRulesClear
  <2>1. /\ pc[Agent] \notin LivePcs \cup BarrierPcs \cup {"consume_lock"}
        /\ stage' = stage
        /\ \A t \in Threads \ {Agent} : pc'[t] = pc[t]
    BY <1>0, <1>2
       DEF ActStart, Capture, PluginPolicy, PerformById, Fallback, ActFinish,
           NavigateStart, NavigateWaited, NavigateClear, SetRules,
           SetRulesClear, ActReturns, Perform, Enforce, GoTo, obsVars,
           LivePcs, BarrierPcs
  <2> QED
    BY <1>0, <2>1 DEF StagesOK
<1>3. CASE ReadDocument \/ Evaluate \/ ConsumeRead \/ ConsumeCommit \/ Publish
  <2>1. /\ \/ stage' = [stage EXCEPT ![Agent] = "idle"]
           \/ stage' = stage /\ pc'[Agent] = "consume_lock"
        /\ \A t \in Threads \ {Agent} : pc'[t] = pc[t]
    BY <1>0, <1>3
       DEF ReadDocument, Evaluate, ConsumeRead, ConsumeCommit, Publish,
           ActReturns, GoTo, obsVars, Release
  <2> QED
    BY <1>0, <2>1 DEF StagesOK
<1>4. ASSUME NEW t \in Threads, SnapshotStep(t)
      PROVE  StagesOK'
  <2>1. /\ pc' = pc
        /\ pc[t] \in LivePcs \cup BarrierPcs
    BY <1>4 DEF SnapshotStep, pageVars
  <2>2. \A u \in Threads \ {t} : stage'[u] = stage[u]
    BY <1>0, <1>4
       DEF SnapshotStep, LiveStep, BarrierStep, SnapshotFails, BeginSnapshot,
           ReadFrameTree, RecordSnapshot, ResampleSnapshot, EvaluateMarker,
           VerifySnapshot
  <2> QED
    BY <2>1, <2>2 DEF StagesOK
<1>5. ASSUME NEW t \in Threads,
             SnapshotError(t) \/ ApproveStart(t) \/ ApproveCommit(t) \/ Reject(t)
      PROVE  StagesOK'
  <2>1. /\ \A u \in Threads \ {t} : stage'[u] = stage[u] /\ pc'[u] = pc[u]
        /\ \/ stage'[t] = "idle"
           \/ stage'[t] = stage[t] /\ pc[t] = "idle"
    BY <1>0, <1>5
       DEF SnapshotError, ApproveStart, ApproveCommit, Reject, GoTo, Release,
           obsVars
  <2> QED
    BY <1>0, <2>1 DEF StagesOK, LivePcs, BarrierPcs
<1> QED
  BY <1>1, <1>2, <1>3, <1>4, <1>5 DEF PageNext, AgentStep, ReviewStep

(* While set_policy_rules stands between its two locks, only its own       *)
(* second step moves the agent; no other step changes the rule set.        *)
LEMMA RulesStep ==
    ASSUME PageTypeOK, StagesOK, [PageNext]_vars
    PROVE  \/ pc'[Agent] = "rules_clear"
           \/ SetRulesClear
           \/ pc[Agent] # "rules_clear" /\ sets' = sets
<1>0. pc \in [Threads -> Pcs] /\ Agent \in Threads
  BY AgentAssumption DEF PageTypeOK
<1>1. CASE UNCHANGED vars \/ Tick \/ Environment
  BY <1>1 DEF vars, pageVars, approvalVars, Tick, Environment
<1>2. CASE SetRules
  BY <1>0, <1>2 DEF SetRules, GoTo
<1>3. CASE \/ ActStart \/ ReadDocument \/ Capture \/ Evaluate
           \/ ConsumeRead \/ ConsumeCommit \/ Publish \/ PluginPolicy
           \/ PerformById \/ Fallback \/ ActFinish
           \/ NavigateStart \/ NavigateWaited \/ NavigateClear
  BY <1>3 DEF ActStart, ReadDocument, Capture, Evaluate, ConsumeRead,
              ConsumeCommit, Publish, PluginPolicy, PerformById, Fallback,
              ActFinish, NavigateStart, NavigateWaited, NavigateClear,
              approvalVars
<1>4. ASSUME NEW t \in Threads,
             SnapshotStep(t) \/ SnapshotError(t) \/ ReviewStep(t)
      PROVE  /\ sets' = sets
             /\ pc[Agent] = "rules_clear" => pc'[Agent] = "rules_clear"
  <2>1. CASE SnapshotStep(t)
    BY <2>1 DEF SnapshotStep, pageVars, approvalVars
  <2>2. CASE SnapshotError(t)
    <3>1. t = Agent => pc[Agent] # "rules_clear"
      BY <2>2 DEF SnapshotError, StagesOK, LivePcs, BarrierPcs
    <3> QED
      BY <1>0, <2>2, <3>1 DEF SnapshotError, GoTo, approvalVars
  <2>3. CASE ReviewStep(t)
    BY <1>0, <2>3 DEF ReviewStep, ApproveStart, ApproveCommit, Reject, GoTo,
                      approvalVars
  <2> QED
    BY <1>4, <2>1, <2>2, <2>3
<1> QED
  BY <1>1, <1>2, <1>3, <1>4 DEF PageNext, AgentStep

(* set_policy_rules leaves nothing of an earlier rule set: what a reviewer *)
(* read before is granted only while it still is in the slot.              *)
LEMMA RevocationKept ==
    ASSUME PageTypeOK, Ledger, StagesOK, NewRulesRevoke, [PageNext]_vars
    PROVE  NewRulesRevoke'
<1>1. CASE pc'[Agent] = "rules_clear"
  BY <1>1 DEF NewRulesRevoke
<1>2. CASE SetRulesClear
  BY <1>2 DEF SetRulesClear, NewRulesRevoke
<1>3. CASE pc[Agent] # "rules_clear" /\ sets' = sets
  <2>0. \A x \in pending \cup granted : x.set = sets
    BY <1>3 DEF NewRulesRevoke
  <2>1. CASE LedgerQuiet
    BY <1>3, <2>0, <2>1 DEF LedgerQuiet, NewRulesRevoke
  <2>2. CASE ConsumeCommit
    <3>1. pending' = pending /\ granted' \subseteq granted
      BY <2>2 DEF ConsumeCommit, StillValid, AfterUse
    <3> QED
      BY <1>3, <2>0, <3>1 DEF NewRulesRevoke
  <2>3. CASE Publish
    <3>1. granted' = granted /\ \A p \in pending' : p \in pending \/ p.set = sets
      BY <2>3 DEF Publish
    <3> QED
      BY <1>3, <2>0, <3>1 DEF NewRulesRevoke
  <2>4. CASE NavigateClear
    BY <1>3, <2>0, <2>4 DEF NavigateClear, NewRulesRevoke
  <2>5. ASSUME NEW t \in Threads, ApproveStart(t) \/ Reject(t)
        PROVE  NewRulesRevoke'
    BY <1>3, <2>0, <2>5 DEF ApproveStart, Reject, approvalVars, NewRulesRevoke
  <2>6. ASSUME NEW t \in Threads, ApproveCommit(t)
        PROVE  NewRulesRevoke'
    <3>1. PICK p \in held[t] :
            \/ UNCHANGED <<pending, granted>>
            \/ /\ SamePending(p)
               /\ pending' = {}
               /\ granted' = granted \cup {Grant(p, snap[t])}
      BY <2>6 DEF ApproveCommit
    <3>2. SamePending(p) => p.set = sets
      BY <2>0 DEF SamePending, Ledger, HeldOK
    <3>3. Grant(p, snap[t]).set = p.set
      BY DEF Grant
    <3> QED
      BY <1>3, <2>0, <3>1, <3>2, <3>3 DEF NewRulesRevoke
  <2> QED
    BY <1>2, <2>1, <2>2, <2>3, <2>4, <2>5, <2>6, QuietSteps DEF ReviewStep
<1> QED
  BY <1>1, <1>2, <1>3, RulesStep

(* The ledger invariant is inductive.                                      *)
LEMMA LedgerStep == LedgerInv /\ [PageNext]_vars => LedgerInv'
<1> SUFFICES ASSUME LedgerInv, [PageNext]_vars PROVE LedgerInv'
  OBVIOUS
<1>0. PageTypeOK /\ Ledger /\ StagesOK /\ NewRulesRevoke
  BY DEF LedgerInv, Ledger
<1>1. PageTypeOK'
  BY <1>0, PageTypeStep
<1>2. Ledger'
  BY <1>0, QuietSteps, QuietKeepsLedger, ReviewKeepsLedger, AgentKeepsLedger
<1>3. StagesOK' /\ NewRulesRevoke'
  BY <1>0, StagesKept, RevocationKept
<1> QED
  BY <1>1, <1>2, <1>3 DEF LedgerInv, Ledger

(* The decisions of one page, its grants and their uses stay consistent in *)
(* every interleaving of the agent with its reviewers.                     *)
THEOREM LedgerInvariant == PageSpec => []LedgerInv
BY LedgerInit, LedgerStep, PTL DEF PageSpec

(* commit_pending_policy_approval and the rejection look at the slot again *)
(* under its lock, so a request is decided at most once.                   *)
THEOREM OneDecision == PageSpec => []DecidedOnce
<1>1. LedgerInv => DecidedOnce
  BY DEF LedgerInv
<1> QED
  BY <1>1, LedgerInvariant, PTL

(* remaining_uses of an action_only grant is counted down in the critical  *)
(* section that finds it, so it lets one act through.                      *)
THEOREM ActionOnlyGrants == PageSpec => []ActionOnlyUsedOnce
<1>1. LedgerInv => ActionOnlyUsedOnce
  BY DEF LedgerInv
<1> QED
  BY <1>1, LedgerInvariant, PTL

(* set_policy_rules replaces the engine and clears the approvals under two *)
(* locks; once it has returned, nothing of an earlier rule set is left.    *)
THEOREM RulesRevoke == PageSpec => []NewRulesRevoke
<1>1. LedgerInv => NewRulesRevoke
  BY DEF LedgerInv
<1> QED
  BY <1>1, LedgerInvariant, PTL
=============================================================================
