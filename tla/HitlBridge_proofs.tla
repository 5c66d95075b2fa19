------------------------- MODULE HitlBridge_proofs -------------------------
(***************************************************************************)
(* The HITL bridge decides what its prompt showed, once, and its trail,    *)
(* its chat messages and its registry agree with what happened: proofs for *)
(* every number of workers, reviewers, requests, ids and clicks.           *)
(***************************************************************************)
EXTENDS HitlBridge, FiniteSetTheorems, WellFoundedInduction, TLAPS

(* A non-empty set of naturals has a least element: what the CHOOSE in     *)
(* make_room_for_claim relies on.                                          *)
LEMMA Least ==
    ASSUME NEW T \in SUBSET Nat, T # {}
    PROVE  \E x \in T : \A y \in T : x <= y
<1>1. IsWellFoundedOn(OpToRel(<, Nat), Nat)
  BY NatLessThanWellFounded
<1>2. IsWellFoundedOn({ss \in Nat \X Nat : ss[1] < ss[2]}, Nat)
  BY <1>1 DEF OpToRel
<1>3. PICK x \in T : \A y \in T :
         ~ (<<y, x>> \in {ss \in Nat \X Nat : ss[1] < ss[2]})
  BY <1>2, WFMin, Zenon
<1>4. \A y \in T : ~ (y < x)
  BY <1>3
<1> QED BY <1>4

(* What the next step may mint or claim is within the bounds.              *)
LEMMA RoomToMint ==
    ASSUME BridgeInv
    PROVE  /\ IsFiniteSet(Claimants)
           /\ Cardinality(Claimants) \in Nat
           /\ Minting = Cardinality(Claimants) + (IF poll.pc = "observe" THEN 1 ELSE 0)
           /\ Minting \in Nat
           /\ poll.pc = "observe" => nextId \in Ids
           /\ \A w \in Claimants : nextId \in Ids /\ nextObj \in Objs
<1>1. IsFiniteSet(Claimants) /\ Cardinality(Claimants) \in Nat
  <2>1. Claimants \subseteq Workers
    BY DEF Claimants
  <2> QED BY <2>1, BridgeAssumption, FS_Subset, FS_CardinalityType
<1>2. Minting = Cardinality(Claimants) + (IF poll.pc = "observe" THEN 1 ELSE 0)
  BY DEF Minting, Claimants
<1>3. Minting \in Nat
  BY <1>1, <1>2
<1>4. /\ nextId \in Nat \ {0} /\ nextObj \in Nat \ {0} /\ MaxIds \in Nat
      /\ MaxClicks \in Nat /\ clicks \in 0 .. MaxClicks
      /\ nextId + Minting <= MaxIds + 1
      /\ nextObj + Cardinality(Claimants) <= clicks + 1
  BY BridgeAssumption DEF BridgeInv, TypeOK, BoundsOK
<1>5. poll.pc = "observe" => nextId \in Ids
  BY <1>1, <1>2, <1>4 DEF Ids
<1>6. ASSUME NEW w \in Claimants PROVE nextId \in Ids /\ nextObj \in Objs
  <2>1. Cardinality(Claimants) # 0
    BY <1>1, FS_EmptySet
  <2> QED BY <2>1, <1>1, <1>2, <1>3, <1>4 DEF Ids, Objs
<1> QED BY <1>1, <1>2, <1>3, <1>5, <1>6

(* The state of the workers when w alone moves.                            *)
WorkStates == [pc : WorkPcs, record : SUBSET Records, obj : Objs \cup {None},
               sess : Sessions, req : Reqs \cup {None}]

(* When w moves, the others stay where they are; Go changes the label only.*)
LEMMA MoveOne ==
    ASSUME TypeOK, NEW w \in Workers
    PROVE  /\ \A x \in WorkStates : work' = [work EXCEPT ![w] = x] =>
                 /\ work' \in [Workers -> WorkStates]
                 /\ work'[w] = x
                 /\ \A v \in Workers \ {w} : work'[v] = work[v]
           /\ \A label \in WorkPcs : Go(w, label) =>
                 /\ work' \in [Workers -> WorkStates]
                 /\ work'[w] = [work[w] EXCEPT !.pc = label]
                 /\ \A v \in Workers \ {w} : work'[v] = work[v]
           /\ Return(w) =>
                 /\ work' \in [Workers -> WorkStates]
                 /\ work'[w] = IdleWork
                 /\ \A v \in Workers \ {w} : work'[v] = work[v]
<1>1. work \in [Workers -> WorkStates]
  BY DEF TypeOK, WorkStates
<1>2. IdleWork \in WorkStates
  BY BridgeAssumption DEF IdleWork, WorkStates, WorkPcs, Sessions, None
<1>3. ASSUME NEW x \in WorkStates, work' = [work EXCEPT ![w] = x]
      PROVE  /\ work' \in [Workers -> WorkStates]
             /\ work'[w] = x
             /\ \A v \in Workers \ {w} : work'[v] = work[v]
  BY <1>1, <1>3
<1>4. ASSUME NEW label \in WorkPcs, Go(w, label)
      PROVE  /\ work' \in [Workers -> WorkStates]
             /\ work'[w] = [work[w] EXCEPT !.pc = label]
             /\ \A v \in Workers \ {w} : work'[v] = work[v]
  <2>1. [work[w] EXCEPT !.pc = label] \in WorkStates
    BY <1>1, <1>4 DEF WorkStates
  <2>2. work' = [work EXCEPT ![w] = [work[w] EXCEPT !.pc = label]]
    BY <1>4 DEF Go
  <2> QED BY <2>1, <2>2, <1>3
<1>5. ASSUME Return(w)
      PROVE  /\ work' \in [Workers -> WorkStates]
             /\ work'[w] = IdleWork
             /\ \A v \in Workers \ {w} : work'[v] = work[v]
  BY <1>2, <1>3, <1>5 DEF Return
<1> QED BY <1>3, <1>4, <1>5

(* How a move of one worker changes the number of claimants.               *)
LEMMA ClaimantsMove ==
    ASSUME BridgeInv, NEW w \in Workers,
           \A v \in Workers \ {w} : work'[v] = work[v]
    PROVE  /\ (w \in Claimants <=> work'[w].pc \in {"claim", "claim_observe"}) =>
                 Claimants' = Claimants
           /\ w \notin Claimants /\ work'[w].pc \in {"claim", "claim_observe"} =>
                 Cardinality(Claimants') = Cardinality(Claimants) + 1
           /\ w \in Claimants /\ work'[w].pc \notin {"claim", "claim_observe"} =>
                 Cardinality(Claimants') = Cardinality(Claimants) - 1
<1>1. IsFiniteSet(Claimants)
  BY RoomToMint
<1>2. (w \in Claimants <=> work'[w].pc \in {"claim", "claim_observe"}) =>
          Claimants' = Claimants
  BY DEF Claimants
<1>3. ASSUME w \notin Claimants, work'[w].pc \in {"claim", "claim_observe"}
      PROVE  Cardinality(Claimants') = Cardinality(Claimants) + 1
  <2>1. Claimants' = Claimants \cup {w}
    BY <1>3 DEF Claimants
  <2> QED BY <1>1, <1>3, <2>1, FS_AddElement
<1>4. ASSUME w \in Claimants, work'[w].pc \notin {"claim", "claim_observe"}
      PROVE  Cardinality(Claimants') = Cardinality(Claimants) - 1
  <2>1. Claimants' = Claimants \ {w}
    BY <1>4 DEF Claimants
  <2> QED BY <1>1, <1>4, <2>1, FS_RemoveElement
<1> QED BY <1>2, <1>3, <1>4

(* The bounds when nothing new is counted.                                 *)
LEMMA BoundsFrame ==
    ASSUME BridgeInv, UNCHANGED <<nextId, nextObj, clicks>>,
           Claimants' = Claimants, poll'.pc = "observe" => poll.pc = "observe"
    PROVE  BoundsOK'
<1>1. /\ Cardinality(Claimants) \in Nat
      /\ Minting = Cardinality(Claimants) + (IF poll.pc = "observe" THEN 1 ELSE 0)
  BY RoomToMint
<1>2. Minting' = Cardinality(Claimants') + (IF poll'.pc = "observe" THEN 1 ELSE 0)
  BY DEF Minting, Claimants
<1>3. nextId \in Nat /\ MaxIds \in Nat
  BY BridgeAssumption DEF BridgeInv, TypeOK
<1>4. /\ nextId + Minting <= MaxIds + 1
      /\ nextObj + Cardinality(Claimants) <= clicks + 1
  BY DEF BridgeInv, BoundsOK
<1>5. nextObj' + Cardinality(Claimants') <= clicks' + 1
  BY <1>4
<1>6. nextId' + Minting' <= MaxIds + 1
  BY <1>1, <1>2, <1>3, <1>4
<1>7. (Cardinality(Claimants))' = Cardinality(Claimants')
  OBVIOUS
<1> QED BY <1>5, <1>6, <1>7 DEF BoundsOK

(* A part of the invariant is kept while what it speaks of is unchanged.   *)
LEMMA Frames ==
    ASSUME BridgeInv
    PROVE  /\ UNCHANGED <<rt, nextReq, ends>> => PendingOK' /\ RequestEndsOnce'
           /\ UNCHANGED gatewayVars => MintedOK'
           /\ UNCHANGED poll => PollOK'
           /\ UNCHANGED work => MutexOK'
           /\ UNCHANGED <<entries, terminal, prog, nextObj>> => RegistryOK'
           /\ UNCHANGED <<entries, prog, nextObj, trail, applied>> => ProgOK'
           /\ UNCHANGED <<applied, prog, nextId, shown>> => AppliedOK'
           /\ UNCHANGED <<trail, applied>> => TrailTellsWhatHappened'
           /\ UNCHANGED <<trail, chat>> => ChatTellsTheTruth'
<1>1. UNCHANGED <<rt, nextReq, ends>> => PendingOK' /\ RequestEndsOnce'
  BY DEF BridgeInv, PendingOK, RequestEndsOnce
<1>2. UNCHANGED gatewayVars => MintedOK'
  BY DEF BridgeInv, gatewayVars, MintedOK
<1>3. UNCHANGED poll => PollOK'
  BY DEF BridgeInv, PollOK
<1>4. UNCHANGED work => MutexOK'
  BY DEF BridgeInv, MutexOK
<1>5. UNCHANGED <<entries, terminal, prog, nextObj>> => RegistryOK'
  BY DEF BridgeInv, RegistryOK, Size
<1>6. UNCHANGED <<entries, prog, nextObj, trail, applied>> => ProgOK'
  BY DEF BridgeInv, ProgOK, ProgressOK
<1>7. UNCHANGED <<applied, prog, nextId, shown>> => AppliedOK'
  BY DEF BridgeInv, AppliedOK
<1>8. UNCHANGED <<trail, applied>> => TrailTellsWhatHappened'
  BY DEF BridgeInv, TrailTellsWhatHappened
<1>9. UNCHANGED <<trail, chat>> => ChatTellsTheTruth'
  BY DEF BridgeInv, ChatTellsTheTruth
<1> QED BY <1>1, <1>2, <1>3, <1>4, <1>5, <1>6, <1>7, <1>8, <1>9

(* A worker is not disturbed by a step that leaves alone its progress      *)
(* object, its registry entry, and the ids minted before.                  *)
LEMMA WorkFrame ==
    ASSUME BridgeInv, NEW v \in Workers, work'[v] = work[v],
           nextObj' \in Nat, nextObj <= nextObj',
           nextId' \in Nat, nextId <= nextId',
           \A i \in Ids : i < nextId => shown'[i] = shown[i],
           work[v].pc \in PhasePcs \cup {"terminal"} =>
               prog'[work[v].obj] = prog[work[v].obj],
           work[v].pc = "terminal" =>
               \A r \in work[v].record :
                   /\ entries'[r.id] = entries[r.id]
                   /\ \A k \in 1 .. Len(terminal)' : terminal'[k] # r.id,
           work[v].pc = "claim_observe" => entries' = entries
    PROVE  WorkOK(v)'
<1>1. WorkOK(v)
  BY DEF BridgeInv
<1>2. /\ nextObj \in Nat /\ nextId \in Nat
      /\ work[v].record \subseteq Records
      /\ work[v].obj \in Objs \cup {None}
  BY DEF BridgeInv, TypeOK
<1>3. \A r \in Records : r.id \in Ids
  BY DEF Records
<1>4. (work[v].pc # "idle" => \E r \in Records : work[v].record = {r})'
  BY <1>1 DEF WorkOK
<1>5. (work[v].pc \in PhasePcs \cup {"lock", "terminal"} =>
         work[v].obj \in Objs /\ work[v].obj < nextObj)'
  BY <1>1, <1>2 DEF WorkOK, Objs
<1>6. (work[v].pc \in PhasePcs => \E p \in prog[work[v].obj] : InPhase(v, p))'
  BY <1>1 DEF WorkOK, InPhase
<1>7. (work[v].pc = "terminal" => \E p \in prog[work[v].obj] : Finished(v, p))'
  BY <1>1 DEF WorkOK, Finished
<1>8. (work[v].pc = "claim_observe" =>
         Size(entries) < Capacity /\ \A r \in work[v].record : entries[r.id] = None)'
  BY <1>1 DEF WorkOK
<1>9. (work[v].pc = "commit" =>
         /\ work[v].req # None
         /\ \A r \in work[v].record : r.id < nextId /\ shown[r.id] = work[v].req)'
  <2>1. SUFFICES ASSUME work[v].pc = "commit"
                 PROVE  /\ work[v].req # None
                        /\ \A r \in work[v].record : r.id < nextId' /\ shown'[r.id] = work[v].req
    OBVIOUS
  <2>2. ASSUME NEW r \in work[v].record
        PROVE  r.id < nextId' /\ shown'[r.id] = work[v].req
    <3>1. r.id \in Ids /\ r.id < nextId /\ shown[r.id] = work[v].req
      BY <1>1, <1>2, <1>3, <2>1, <2>2 DEF WorkOK
    <3>2. r.id \in Nat
      BY <3>1 DEF Ids
    <3> QED BY <3>1, <3>2, <1>2
  <2> QED BY <1>1, <2>1, <2>2 DEF WorkOK
<1> QED BY <1>4, <1>5, <1>6, <1>7, <1>8, <1>9 DEF WorkOK

(* pending_request keeps the cache true: a known request has its id, a new *)
(* one gets the next, and what was shown for earlier ids stands.           *)
LEMMA GatewayStep ==
    ASSUME BridgeInv, NEW s \in Sessions, NEW r \in Reqs \cup {None},
           nextId \in Ids, ObservePending(s, r)
    PROVE  /\ minted' \subseteq Minted
           /\ nextId' \in {nextId, nextId + 1}
           /\ shown' \in [Ids -> Reqs \cup {None}]
           /\ \A i \in Ids : i < nextId => shown'[i] = shown[i]
           /\ MintedOK'
           /\ r # None => IdFor(s, r) \in Ids
<1> PICK x : x = IdFor(s, r)
  OBVIOUS
<1>1. /\ minted \subseteq Minted /\ shown \in [Ids -> Reqs \cup {None}]
      /\ \A m, n \in minted : m = n
      /\ \A m \in minted : m.id < nextId /\ shown[m.id] = m.req
  BY DEF BridgeInv, TypeOK, MintedOK
<1>2. nextId \in Nat /\ \A i \in Ids : i \in Nat
  BY DEF Ids
<1>3. CASE r = None
  BY <1>1, <1>3 DEF ObservePending, MintedAfter, MintedOK
<1>4. CASE r # None /\ \E m \in minted : m.sess = s /\ m.req = r
  <2>1. PICK m \in minted : m.sess = s /\ m.req = r
    BY <1>4
  <2>2. (CHOOSE n \in minted : TRUE) = m
    BY <1>1
  <2>3. x = m.id
    BY <2>1, <2>2 DEF IdFor
  <2>4. m \in Minted /\ m.id \in Ids /\ m.id < nextId /\ shown[m.id] = r
    BY <1>1, <2>1 DEF Minted
  <2>5. x # nextId
    BY <1>2, <2>3, <2>4
  <2>6. minted' = {[sess |-> s, req |-> r, id |-> x]} /\ UNCHANGED <<nextId, shown>>
    BY <1>4, <2>5 DEF ObservePending, MintedAfter
  <2> QED BY <1>1, <1>4, <2>3, <2>4, <2>6 DEF MintedOK, Minted
<1>5. CASE r # None /\ ~ \E m \in minted : m.sess = s /\ m.req = r
  <2>1. x = nextId
    BY <1>5 DEF IdFor
  <2>2. /\ minted' = {[sess |-> s, req |-> r, id |-> nextId]}
        /\ nextId' = nextId + 1 /\ shown' = [shown EXCEPT ![nextId] = r]
    BY <1>5, <2>1 DEF ObservePending, MintedAfter
  <2>3. shown'[nextId] = r /\ \A i \in Ids : i < nextId => shown'[i] = shown[i]
    BY <1>1, <1>2, <2>2
  <2>4. minted' \subseteq Minted
    BY <1>5, <2>2 DEF Minted
  <2>5. shown' \in [Ids -> Reqs \cup {None}]
    BY <1>1, <2>2
  <2>6. MintedOK'
    BY <1>2, <2>2, <2>3 DEF MintedOK
  <2> QED BY <2>1, <2>2, <2>3, <2>4, <2>5, <2>6
<1> QED BY <1>3, <1>4, <1>5

(* The initial state satisfies the invariant.                              *)
LEMMA BridgeInit ==
    ASSUME Init
    PROVE  BridgeInv
<1>1. TypeOK
  <2>1. /\ IdlePoll \in [pc : PollPcs, sess : Sessions, req : Reqs \cup {None},
                         id : Ids \cup {None}]
        /\ IdleWork \in [pc : WorkPcs, record : SUBSET Records,
                         obj : Objs \cup {None}, sess : Sessions,
                         req : Reqs \cup {None}]
    BY BridgeAssumption DEF IdlePoll, IdleWork, PollPcs, WorkPcs, Sessions
  <2>2. 1 \in 1 .. MaxReqs + 1 /\ 1 \in 1 .. MaxIds + 1 /\ 1 \in 1 .. MaxClicks + 1
        /\ 0 \in 0 .. MaxClicks /\ 1 \in Sessions /\ 0 \in 0 .. MaxPosts
    BY BridgeAssumption DEF Sessions
  <2> QED BY <2>1, <2>2 DEF Init, TypeOK
<1>2. BoundsOK
  <2>1. Claimants = {}
    BY DEF Init, Claimants, IdleWork
  <2>2. Minting = Cardinality(Claimants) + (IF poll.pc = "observe" THEN 1 ELSE 0)
    BY DEF Minting, Claimants
  <2>3. poll.pc = "idle"
    BY DEF Init, IdlePoll
  <2> QED BY <2>1, <2>2, <2>3, FS_EmptySet, BridgeAssumption DEF Init, BoundsOK
<1>3. PendingOK /\ RequestEndsOnce
  BY DEF Init, PendingOK, RequestEndsOnce
<1>4. MintedOK /\ PollOK
  BY DEF Init, MintedOK, PollOK, IdlePoll
<1>5. (\A w \in Workers : WorkOK(w)) /\ MutexOK
  BY DEF Init, WorkOK, MutexOK, IdleWork, PhasePcs
<1>6. ProgOK
  BY DEF Init, ProgOK, Objs
<1>7. RegistryOK
  <2>1. {i \in Ids : entries[i] # None} = {}
    BY DEF Init
  <2>2. Size(entries) = 0
    BY <2>1, FS_EmptySet DEF Size
  <2> QED BY <2>2, BridgeAssumption DEF Init, RegistryOK
<1>8. AppliedOK /\ TrailTellsWhatHappened
  BY DEF Init, AppliedOK, TrailTellsWhatHappened
<1>9. ChatTellsTheTruth
  BY DEF Init, ChatTellsTheTruth, Decisions
<1> QED BY <1>1, <1>2, <1>3, <1>4, <1>5, <1>6, <1>7, <1>8, <1>9 DEF BridgeInv

(* While no worker and nothing the workers rely on moves, they are fine.   *)
LEMMA AllWorkFrame ==
    ASSUME BridgeInv, UNCHANGED <<work, nextObj, prog, entries, terminal>>,
           nextId' \in Nat, nextId <= nextId',
           \A i \in Ids : i < nextId => shown'[i] = shown[i]
    PROVE  (\A w \in Workers : WorkOK(w)) ' /\ MutexOK' /\ Claimants' = Claimants
<1>1. nextObj \in Nat
  BY DEF BridgeInv, TypeOK
<1>2. ASSUME NEW v \in Workers PROVE WorkOK(v)'
  <2>1. work[v].pc = "terminal" =>
            \A r \in work[v].record :
                \A k \in 1 .. Len(terminal) : terminal[k] # r.id
    BY DEF BridgeInv, WorkOK, Finished
  <2>2. work'[v] = work[v] /\ nextObj' \in Nat /\ nextObj <= nextObj'
    BY <1>1
  <2> QED BY <2>1, <2>2, WorkFrame
<1>3. MutexOK'
  BY Frames
<1>4. Claimants' = Claimants
  BY DEF Claimants
<1> QED BY <1>2, <1>3, <1>4

(* A request that ends was pending, so it ends for the first time.         *)
LEMMA EndsOnce ==
    ASSUME BridgeInv, NEW s \in Sessions, ends' = Ended(rt[s])
    PROVE  /\ ends' \in [Reqs -> Nat]
           /\ RequestEndsOnce'
           /\ \A r \in Reqs : r # rt[s] => ends'[r] = ends[r]
<1>1. /\ ends \in [Reqs -> Nat] /\ rt \in [Sessions -> Reqs \cup {None}]
      /\ \A r \in Reqs : ends[r] <= 1
      /\ rt[s] # None => ends[rt[s]] = 0
  BY DEF BridgeInv, TypeOK, RequestEndsOnce, PendingOK
<1>2. \A r \in Reqs : ends'[r] = IF r = rt[s] THEN ends[r] + 1 ELSE ends[r]
  BY DEF Ended
<1>3. ends' \in [Reqs -> Nat]
  BY <1>1 DEF Ended
<1>4. \A r \in Reqs : r # None
  BY DEF Reqs, None
<1>5. RequestEndsOnce'
  BY <1>1, <1>2, <1>4 DEF RequestEndsOnce
<1> QED BY <1>2, <1>3, <1>5

(* What the runtime does on its own keeps the invariant.                   *)
LEMMA RuntimeKeeps ==
    ASSUME BridgeInv, Runtime
    PROVE  BridgeInv'
<1>1. /\ UNCHANGED <<gatewayVars, tokens, registryVars, prog, trail, poll,
                     work, clicks, chatVars, applied>>
      /\ session' \in Sessions
  BY BridgeAssumption DEF Runtime, RequestPublished, RequestGone, SessionSwapped, BridgeInv,
     TypeOK, Sessions
<1>2. /\ UNCHANGED <<minted, nextId, shown, tokens, entries, terminal, nextObj,
                     prog, trail, poll, work, clicks, posts, chat, applied>>
  BY <1>1 DEF gatewayVars, registryVars, chatVars
<1>3. /\ rt \in [Sessions -> Reqs \cup {None}] /\ session \in Sessions
      /\ nextReq \in 1 .. MaxReqs + 1 /\ ends \in [Reqs -> Nat]
      /\ nextId \in Nat
  BY DEF BridgeInv, TypeOK
<1>4. /\ rt' \in [Sessions -> Reqs \cup {None}] /\ nextReq' \in 1 .. MaxReqs + 1
      /\ ends' \in [Reqs -> Nat] /\ PendingOK' /\ RequestEndsOnce'
  <2>0. /\ \A s \in Sessions : rt[s] # None => rt[s] < nextReq /\ ends[rt[s]] = 0
        /\ \A s, t \in Sessions : rt[s] # None /\ rt[s] = rt[t] => s = t
        /\ \A r \in Reqs : r >= nextReq => ends[r] = 0
        /\ MaxReqs \in Nat
    BY BridgeAssumption DEF BridgeInv, PendingOK
  <2>1. CASE RequestPublished
    <3>1. /\ nextReq <= MaxReqs /\ rt' = [rt EXCEPT ![session] = nextReq]
          /\ nextReq' = nextReq + 1 /\ ends' = Ended(rt[session])
      BY <2>1 DEF RequestPublished
    <3>2. nextReq \in Reqs /\ nextReq' \in 1 .. MaxReqs + 1
      BY <1>3, <2>0, <3>1 DEF Reqs
    <3>3. rt' \in [Sessions -> Reqs \cup {None}]
      BY <1>3, <3>1, <3>2
    <3>4. /\ ends' \in [Reqs -> Nat] /\ RequestEndsOnce'
          /\ \A r \in Reqs : r # rt[session] => ends'[r] = ends[r]
      BY <1>3, <3>1, EndsOnce
    <3>5. \A s \in Sessions : rt[s] \in Nat /\ (rt[s] # None => rt[s] < nextReq)
      BY <1>3, <2>0 DEF Reqs, None
    <3>6. \A s \in Sessions : rt'[s] = IF s = session THEN nextReq ELSE rt[s]
      BY <1>3, <3>1
    <3>7. \A s, t \in Sessions : rt'[s] # None /\ rt'[s] = rt'[t] => s = t
      BY <1>3, <2>0, <3>5, <3>6
    <3>8. nextReq # rt[session] /\ nextReq # None /\ ends'[nextReq] = 0
      BY <1>3, <2>0, <3>2, <3>4, <3>5 DEF None
    <3>9. ASSUME NEW s \in Sessions, rt'[s] # None
          PROVE  rt'[s] < nextReq' /\ ends'[rt'[s]] = 0
      <4>1. CASE s = session
        BY <1>3, <3>1, <3>6, <3>8, <4>1
      <4>2. CASE s # session
        <5>1. rt'[s] = rt[s] /\ rt[s] # rt[session] /\ rt[s] \in Reqs
          BY <1>3, <2>0, <3>6, <3>9, <4>2
        <5> QED BY <5>1, <2>0, <3>4, <3>5, <3>1, <1>3, <3>9
      <4> QED BY <4>1, <4>2
    <3>10. ASSUME NEW r \in Reqs, r >= nextReq'
           PROVE  ends'[r] = 0
      <4>1. r \in Nat /\ r >= nextReq /\ r # nextReq
        BY <1>3, <3>1, <3>10 DEF Reqs
      <4>2. r # rt[session]
        BY <4>1, <3>5, <1>3 DEF None
      <4> QED BY <4>1, <4>2, <2>0, <3>4
    <3> QED BY <3>2, <3>3, <3>4, <3>7, <3>9, <3>10 DEF PendingOK
  <2>2. CASE RequestGone
    <3>1. /\ rt' = [rt EXCEPT ![session] = None] /\ ends' = Ended(rt[session])
          /\ nextReq' = nextReq /\ rt[session] # None
      BY <2>2 DEF RequestGone
    <3>2. rt' \in [Sessions -> Reqs \cup {None}]
      BY <1>3, <3>1
    <3>3. /\ ends' \in [Reqs -> Nat] /\ RequestEndsOnce'
          /\ \A r \in Reqs : r # rt[session] => ends'[r] = ends[r]
      BY <1>3, <3>1, EndsOnce
    <3>4. \A s \in Sessions : rt'[s] = IF s = session THEN None ELSE rt[s]
      BY <1>3, <3>1
    <3>5. \A r \in Reqs : r >= nextReq => r # rt[session]
      BY <1>3, <2>0, <3>1 DEF Reqs
    <3>6. PendingOK'
      BY <1>3, <2>0, <3>1, <3>3, <3>4, <3>5 DEF PendingOK
    <3> QED BY <1>3, <3>1, <3>2, <3>3, <3>6
  <2>3. CASE SessionSwapped
    <3>1. UNCHANGED <<rt, nextReq, ends>>
      BY <2>3 DEF SessionSwapped
    <3> QED BY <1>3, <3>1, Frames
  <2> QED BY <2>1, <2>2, <2>3 DEF Runtime
<1>5. TypeOK'
  BY <1>1, <1>2, <1>4 DEF BridgeInv, TypeOK
<1>6. (\A w \in Workers : WorkOK(w))' /\ MutexOK' /\ Claimants' = Claimants
  BY <1>2, <1>3, AllWorkFrame
<1>7. BoundsOK'
  BY <1>2, <1>6, BoundsFrame
<1>8. MintedOK' /\ PollOK' /\ ProgOK' /\ RegistryOK' /\ AppliedOK'
      /\ TrailTellsWhatHappened' /\ ChatTellsTheTruth'
  BY <1>2, Frames DEF gatewayVars
<1> QED BY <1>4, <1>5, <1>6, <1>7, <1>8 DEF BridgeInv

(* The polling thread keeps the invariant.                                 *)
LEMMA PollKeeps ==
    ASSUME BridgeInv, PollStep
    PROVE  BridgeInv'
<1> DEFINE Polls == [pc : PollPcs, sess : Sessions, req : Reqs \cup {None},
                     id : Ids \cup {None}]
<1>0. /\ UNCHANGED <<sessionVars, registryVars, prog, trail, work, clicks, applied>>
      /\ UNCHANGED <<session, rt, nextReq, ends, entries, terminal, nextObj>>
  BY DEF PollStep, PollRead, PollObserve, PollCheck, PollNotify, PollStore, sessionVars,
     registryVars
<1>1. /\ poll \in Polls /\ session \in Sessions
      /\ rt \in [Sessions -> Reqs \cup {None}]
      /\ tokens \in [Ids -> {"none", "notifying", "notified"}]
      /\ posts \in [Ids -> 0 .. MaxPosts]
      /\ chat \in [Ids -> {"none", "posted"} \cup Decisions]
      /\ nextId \in Nat /\ minted \subseteq Minted /\ shown \in [Ids -> Reqs \cup {None}]
      /\ nextId \in 1 .. MaxIds + 1 /\ MaxIds \in Nat /\ MaxPosts \in Nat
      /\ PollOK
  BY BridgeAssumption DEF BridgeInv, TypeOK
<1>2. IdlePoll \in Polls /\ IdlePoll.pc = "idle"
  BY BridgeAssumption DEF IdlePoll, PollPcs, Sessions
<1>3. /\ PendingOK' /\ RequestEndsOnce' /\ RegistryOK' /\ ProgOK'
      /\ TrailTellsWhatHappened'
  BY <1>0, Frames
<1>4. nextObj \in Nat /\ Cardinality(Claimants) \in Nat
      /\ Minting = Cardinality(Claimants) + (IF poll.pc = "observe" THEN 1 ELSE 0)
      /\ nextId + Minting <= MaxIds + 1
      /\ nextObj + Cardinality(Claimants) <= clicks + 1
      /\ Minting' = Cardinality(Claimants') + (IF poll'.pc = "observe" THEN 1 ELSE 0)
  BY RoomToMint DEF BridgeInv, TypeOK, BoundsOK, Minting, Claimants
<1>5. CASE PollObserve
  <2>1. /\ poll.pc = "observe" /\ nextId \in Ids
        /\ poll.sess \in Sessions /\ poll.req \in Reqs \cup {None}
        /\ ObservePending(poll.sess, poll.req)
        /\ UNCHANGED <<tokens, posts, chat>>
    BY <1>1, <1>5, RoomToMint DEF PollObserve, chatVars
  <2>2. /\ minted' \subseteq Minted
        /\ nextId' \in {nextId, nextId + 1}
        /\ shown' \in [Ids -> Reqs \cup {None}]
        /\ \A i \in Ids : i < nextId => shown'[i] = shown[i]
        /\ MintedOK'
        /\ poll.req # None => IdFor(poll.sess, poll.req) \in Ids
    BY <2>1, GatewayStep
  <2>3. /\ poll' \in Polls /\ poll'.pc # "observe" /\ PollOK'
    <3>1. CASE poll.req = None
      BY <1>2, <1>5, <3>1 DEF PollObserve, PollOK
    <3>2. CASE poll.req # None
      <4> PICK x : x = IdFor(poll.sess, poll.req)
        OBVIOUS
      <4>1. poll' = [poll EXCEPT !.pc = "check", !.id = x] /\ x \in Ids
        BY <1>5, <2>2, <3>2 DEF PollObserve
      <4> QED BY <1>1, <4>1 DEF PollOK, PollPcs
    <3> QED BY <3>1, <3>2
  <2>4. nextId' \in Nat /\ nextId <= nextId' /\ nextId' \in 1 .. MaxIds + 1
    BY <1>1, <2>1, <2>2 DEF Ids
  <2>5. (\A w \in Workers : WorkOK(w))' /\ MutexOK' /\ Claimants' = Claimants
    BY <1>0, <2>2, <2>4, AllWorkFrame
  <2>6. BoundsOK'
    BY <1>0, <1>1, <1>4, <2>1, <2>2, <2>3, <2>5 DEF BoundsOK
  <2>7. AppliedOK'
    <3>1. \A a \in applied : a.record.id \in Ids
      BY DEF BridgeInv, TypeOK, Records
    <3>2. \A i \in Ids : i \in Nat
      BY DEF Ids
    <3>3. \A a \in applied : a.record.id < nextId' /\ shown'[a.record.id] = a.req
      BY <1>1, <2>2, <2>4, <3>1, <3>2 DEF BridgeInv, AppliedOK
    <3> QED BY <1>0, <3>3 DEF BridgeInv, AppliedOK
  <2>8. ChatTellsTheTruth'
    BY <1>0, <2>1, Frames
  <2>9. TypeOK'
    BY <1>0, <2>1, <2>2, <2>3, <2>4 DEF BridgeInv, TypeOK
  <2> QED BY <1>3, <2>2, <2>3, <2>5, <2>6, <2>7, <2>8, <2>9 DEF BridgeInv
<1>6. CASE PollRead \/ PollCheck \/ PollNotify \/ PollStore
  <2>1. UNCHANGED <<minted, nextId, shown>>
    BY <1>6 DEF PollRead, PollCheck, PollNotify, PollStore, gatewayVars
  <2>2. (\A w \in Workers : WorkOK(w))' /\ MutexOK' /\ Claimants' = Claimants
    BY <1>0, <1>1, <2>1, AllWorkFrame
  <2>3. MintedOK' /\ AppliedOK'
    BY <1>0, <2>1, Frames DEF gatewayVars
  <2>4. /\ poll' \in Polls /\ PollOK'
        /\ tokens' \in [Ids -> {"none", "notifying", "notified"}]
    <3>1. CASE PollRead
      <4>1. /\ poll' = [pc |-> "observe", sess |-> session, req |-> rt[session],
                        id |-> None] /\ UNCHANGED tokens
        BY <3>1 DEF PollRead
      <4> QED BY <1>1, <4>1 DEF PollPcs, PollOK
    <3>2. CASE PollCheck
      <4>1. poll.id \in Ids
        BY <1>1, <3>2 DEF PollOK, PollCheck
      <4>2. CASE tokens[poll.id] = "none"
        BY <1>1, <3>2, <4>1, <4>2 DEF PollCheck, PollPcs, PollOK
      <4>3. CASE tokens[poll.id] # "none"
        BY <1>1, <1>2, <3>2, <4>1, <4>3 DEF PollCheck, PollOK
      <4> QED BY <4>2, <4>3
    <3>3. CASE PollNotify
      <4>1. poll.id \in Ids
        BY <1>1, <3>3 DEF PollOK, PollNotify
      <4>2. /\ poll' \in {[poll EXCEPT !.pc = "store"], [poll EXCEPT !.pc = "forget"]}
            /\ UNCHANGED tokens
        BY <3>3 DEF PollNotify
      <4> QED BY <1>1, <4>1, <4>2 DEF PollPcs, PollOK
    <3>4. CASE PollStore
      BY <1>1, <1>2, <3>4 DEF PollStore, PollOK
    <3> QED BY <1>6, <3>1, <3>2, <3>3, <3>4
  <2>5. BoundsOK'
    <3>1. CASE PollRead
      <4>1. poll.pc = "idle" /\ nextId + Minting <= MaxIds
        BY <3>1 DEF PollRead, IdsLeft
      <4> QED BY <1>0, <1>1, <1>4, <2>1, <2>2, <4>1 DEF BoundsOK
    <3>2. CASE PollCheck \/ PollNotify \/ PollStore
      <4>1. poll'.pc # "observe"
        BY <1>1, <1>2, <3>2 DEF PollCheck, PollNotify, PollStore
      <4> QED BY <1>0, <2>1, <2>2, <4>1, BoundsFrame
    <3> QED BY <1>6, <3>1, <3>2
  <2>6. /\ posts' \in [Ids -> 0 .. MaxPosts]
        /\ chat' \in [Ids -> {"none", "posted"} \cup Decisions]
        /\ ChatTellsTheTruth'
    <3>1. CASE UNCHANGED <<posts, chat>>
      BY <1>0, <1>1, <3>1, Frames
    <3>2. CASE PollNotify /\ Post(poll.id)
      <4>1. poll.id \in Ids
        BY <1>1, <3>2 DEF PollOK, PollNotify
      <4>2. /\ posts[poll.id] < MaxPosts /\ posts' = [posts EXCEPT ![poll.id] = posts[poll.id] + 1]
            /\ chat' = [chat EXCEPT ![poll.id] = "posted"]
        BY <3>2 DEF Post
      <4>3. posts' \in [Ids -> 0 .. MaxPosts]
        BY <1>1, <4>1, <4>2
      <4>4. chat' \in [Ids -> {"none", "posted"} \cup Decisions]
        BY <1>1, <4>1, <4>2
      <4>5. ChatTellsTheTruth'
        BY <1>0, <1>1, <4>1, <4>2 DEF BridgeInv, ChatTellsTheTruth, Decisions
      <4> QED BY <4>3, <4>4, <4>5
    <3> QED BY <1>6, <3>1, <3>2 DEF PollRead, PollCheck, PollNotify, PollStore, chatVars
  <2>7. TypeOK'
    BY <1>0, <2>1, <2>4, <2>6 DEF BridgeInv, TypeOK
  <2> QED BY <1>3, <2>2, <2>3, <2>4, <2>5, <2>6, <2>7 DEF BridgeInv
<1> QED BY <1>5, <1>6 DEF PollStep

(* The mutexes keep one holder when w may take what it takes.              *)
LEMMA MutexMove ==
    ASSUME BridgeInv, NEW w \in Workers,
           \A v \in Workers \ {w} : work'[v] = work[v],
           work'[w].pc = "claim_observe" => RegistryFree(w),
           work'[w].pc \in PhasePcs \cup {"terminal"} =>
               \A v \in Workers \ {w} : work[v].pc \in PhasePcs \cup {"terminal"} =>
                   work[v].obj # work'[w].obj
    PROVE  MutexOK'
BY DEF BridgeInv, MutexOK, RegistryFree, At

(* The same when w keeps the progress mutex it has, or holds none.         *)
LEMMA MutexStays ==
    ASSUME BridgeInv, NEW w \in Workers,
           \A v \in Workers \ {w} : work'[v] = work[v],
           work'[w].pc # "claim_observe",
           work'[w].pc \in PhasePcs \cup {"terminal"} =>
               work[w].pc \in PhasePcs \cup {"terminal"} /\ work'[w].obj = work[w].obj
    PROVE  MutexOK'
BY MutexMove DEF BridgeInv, MutexOK

(* A step that moves one worker and perhaps a chat message.                *)
LEMMA QuietWorker ==
    ASSUME BridgeInv, NEW w \in Workers,
           work' \in [Workers -> WorkStates],
           \A v \in Workers \ {w} : work'[v] = work[v],
           UNCHANGED <<sessionVars, gatewayVars, tokens, registryVars, prog,
                       trail, poll, clicks, posts, applied>>,
           chat' \in [Ids -> {"none", "posted"} \cup Decisions],
           ChatTellsTheTruth', MutexOK', WorkOK(w)',
           w \notin Claimants, work'[w].pc \notin {"claim", "claim_observe"}
    PROVE  BridgeInv'
<1>1. UNCHANGED <<session, rt, nextReq, ends, minted, nextId, shown, entries,
                  terminal, nextObj, prog, trail, poll, clicks, posts, applied, tokens>>
  BY DEF sessionVars, gatewayVars, registryVars
<1>2. TypeOK'
  BY <1>1 DEF BridgeInv, TypeOK, WorkStates
<1>3. Claimants' = Claimants
  BY ClaimantsMove
<1>4. BoundsOK'
  BY <1>1, <1>3, BoundsFrame
<1>5. PendingOK' /\ RequestEndsOnce' /\ MintedOK' /\ PollOK' /\ RegistryOK'
      /\ ProgOK' /\ AppliedOK' /\ TrailTellsWhatHappened'
  BY <1>1, Frames DEF gatewayVars
<1>6. ASSUME NEW v \in Workers, v # w PROVE WorkOK(v)'
  <2>1. work[v].pc = "terminal" =>
            \A r \in work[v].record :
                \A k \in 1 .. Len(terminal) : terminal[k] # r.id
    BY DEF BridgeInv, WorkOK, Finished
  <2>2. nextObj \in Nat /\ nextId \in Nat
    BY DEF BridgeInv, TypeOK
  <2>3. work'[v] = work[v]
    BY <1>6
  <2> QED BY <1>1, <2>1, <2>2, <2>3, WorkFrame
<1> QED BY <1>2, <1>4, <1>5, <1>6 DEF BridgeInv

(* An idle worker has nothing to keep.                                     *)
LEMMA IdleIsFine ==
    ASSUME BridgeInv, NEW w \in Workers, Return(w)
    PROVE  /\ work' \in [Workers -> WorkStates]
           /\ \A v \in Workers \ {w} : work'[v] = work[v]
           /\ work'[w].pc = "idle"
           /\ WorkOK(w)' /\ MutexOK'
<1>1. /\ work' \in [Workers -> WorkStates] /\ work'[w] = IdleWork
      /\ \A v \in Workers \ {w} : work'[v] = work[v]
  BY MoveOne DEF BridgeInv
<1>2. work'[w].pc = "idle"
  BY <1>1 DEF IdleWork
<1>3. WorkOK(w)'
  BY <1>2 DEF WorkOK, PhasePcs
<1>4. MutexOK'
  BY <1>1, <1>2, MutexStays DEF PhasePcs
<1> QED BY <1>1, <1>2, <1>3, <1>4

(* The progress object of a worker in a phase.                             *)
LEMMA PhaseObject ==
    ASSUME BridgeInv, NEW w \in Workers, work[w].pc \in PhasePcs
    PROVE  /\ work[w].obj \in Objs /\ work[w].obj < nextObj
           /\ \E p \in Progress : /\ prog[work[w].obj] = {p} /\ InPhase(w, p)
                                  /\ ProgressOK(work[w].obj, p)
           /\ w \notin Claimants
<1>1. WorkOK(w) /\ prog \in [Objs -> SUBSET Progress] /\ ProgOK
  BY DEF BridgeInv, TypeOK
<1>2. work[w].obj \in Objs /\ work[w].obj < nextObj
  BY <1>1 DEF WorkOK
<1>3. PICK p \in prog[work[w].obj] : InPhase(w, p)
  BY <1>1 DEF WorkOK
<1>4. prog[work[w].obj] = {p} /\ p \in Progress /\ ProgressOK(work[w].obj, p)
  BY <1>1, <1>2, <1>3 DEF ProgOK
<1>5. w \notin Claimants
  BY DEF Claimants, PhasePcs
<1> QED BY <1>2, <1>3, <1>4, <1>5

(* Giving up, and going on to a phase that has the same progress.          *)
LEMMA PhaseMoves ==
    ASSUME BridgeInv, NEW w \in Workers, work[w].pc \in PhasePcs,
           UNCHANGED <<sessionVars, gatewayVars, tokens, registryVars, prog,
                       trail, poll, clicks, posts, applied>>,
           chat' \in [Ids -> {"none", "posted"} \cup Decisions],
           ChatTellsTheTruth',
           \/ Return(w)
           \/ /\ work' \in [Workers -> WorkStates]
              /\ \A v \in Workers \ {w} : work'[v] = work[v]
              /\ work'[w].pc \in PhasePcs
              /\ work'[w].pc \in BeforeGateway <=> work[w].pc \in BeforeGateway
              /\ work'[w].pc \in AfterAudit <=> work[w].pc \in AfterAudit
              /\ work'[w].obj = work[w].obj /\ work'[w].record = work[w].record
              /\ work'[w].pc = "commit" =>
                   /\ work'[w].req # None
                   /\ \A r \in work[w].record :
                        r.id < nextId /\ shown[r.id] = work'[w].req
    PROVE  BridgeInv'
<1>0. w \notin Claimants
  BY PhaseObject
<1>1. CASE Return(w)
  <2>1. /\ work' \in [Workers -> WorkStates]
        /\ \A v \in Workers \ {w} : work'[v] = work[v]
        /\ work'[w].pc = "idle" /\ WorkOK(w)' /\ MutexOK'
    BY <1>1, IdleIsFine
  <2> QED BY <1>0, <2>1, QuietWorker
<1>2. CASE ~ Return(w)
  <2>1. /\ work' \in [Workers -> WorkStates]
        /\ \A v \in Workers \ {w} : work'[v] = work[v]
        /\ work'[w].pc \in PhasePcs
        /\ work'[w].pc \in BeforeGateway <=> work[w].pc \in BeforeGateway
        /\ work'[w].pc \in AfterAudit <=> work[w].pc \in AfterAudit
        /\ work'[w].obj = work[w].obj /\ work'[w].record = work[w].record
        /\ work'[w].pc = "commit" =>
             /\ work'[w].req # None
             /\ \A r \in work[w].record :
                  r.id < nextId /\ shown[r.id] = work'[w].req
    BY <1>2
  <2>2. PICK p \in Progress : prog[work[w].obj] = {p} /\ InPhase(w, p)
    BY PhaseObject
  <2>3. work[w].obj \in Objs /\ work[w].obj < nextObj
    BY PhaseObject
  <2>4. UNCHANGED <<nextId, shown, nextObj, prog, entries, terminal>>
    BY DEF gatewayVars, registryVars
  <2>5. work'[w].pc \notin {"idle", "lock", "terminal", "claim", "claim_observe"}
    BY <2>1 DEF PhasePcs
  <2>6. InPhase(w, p)'
    BY <2>1, <2>2 DEF InPhase
  <2>7. \E r \in Records : work'[w].record = {r}
    BY <2>1, <2>2 DEF InPhase, Progress
  <2>8. WorkOK(w)'
    BY <2>1, <2>2, <2>3, <2>4, <2>5, <2>6, <2>7 DEF WorkOK
  <2>9. MutexOK'
    BY <2>1, <2>5, MutexStays
  <2> QED BY <1>0, <2>1, <2>5, <2>8, <2>9, QuietWorker
<1> QED BY <1>1, <1>2

(* Prepare, the validation of the id and the call of the chat.             *)
LEMMA CallsKeep ==
    ASSUME BridgeInv, NEW w \in Workers, Prepare(w) \/ Validate(w) \/ Respond(w)
    PROVE  BridgeInv'
<1>1. /\ UNCHANGED <<sessionVars, gatewayVars, tokens, registryVars, prog,
                     trail, poll, clicks, posts, applied>>
      /\ UNCHANGED trail
  BY DEF Prepare, Validate, Respond, chatVars
<1>2. /\ TypeOK /\ work \in [Workers -> WorkStates] /\ session \in Sessions
      /\ rt \in [Sessions -> Reqs \cup {None}]
      /\ chat \in [Ids -> {"none", "posted"} \cup Decisions]
  BY DEF BridgeInv, TypeOK, WorkStates
<1>3. CASE Prepare(w)
  <2>1. work[w].pc = "prepare" /\ work[w].pc \in PhasePcs /\ UNCHANGED chat
    BY <1>3 DEF Prepare, At, PhasePcs, chatVars
  <2>2. ChatTellsTheTruth'
    BY <1>1, <2>1, Frames
  <2>3. CASE Return(w)
    BY <1>1, <1>2, <2>1, <2>2, <2>3, PhaseMoves
  <2>4. CASE work' = [work EXCEPT ![w].pc = "peek", ![w].sess = session,
                                  ![w].req = rt[session]]
    <3> PICK x : x = [work[w] EXCEPT !.pc = "peek", !.sess = session,
                                     !.req = rt[session]]
      OBVIOUS
    <3>1. x \in WorkStates /\ x.pc = "peek" /\ x.obj = work[w].obj /\ x.record = work[w].record
      BY <1>2 DEF WorkStates, WorkPcs, PhasePcs
    <3>2. work' = [work EXCEPT ![w] = x]
      BY <2>4
    <3>3. /\ work' \in [Workers -> WorkStates] /\ work'[w] = x
          /\ \A v \in Workers \ {w} : work'[v] = work[v]
      BY <1>2, <3>1, <3>2, MoveOne
    <3>4. /\ x.pc \in PhasePcs /\ x.pc # "commit"
          /\ x.pc \in BeforeGateway <=> work[w].pc \in BeforeGateway
          /\ x.pc \in AfterAudit <=> work[w].pc \in AfterAudit
      BY <2>1, <3>1 DEF PhasePcs, BeforeGateway, AfterAudit
    <3> QED BY <1>1, <1>2, <2>1, <2>2, <3>1, <3>3, <3>4, PhaseMoves
  <2> QED BY <1>3, <2>3, <2>4 DEF Prepare
<1>4. CASE Validate(w)
  <2>1. work[w].pc = "peek" /\ work[w].pc \in PhasePcs /\ UNCHANGED chat
    BY <1>4 DEF Validate, At, PhasePcs, chatVars
  <2>2. ChatTellsTheTruth'
    BY <1>1, <2>1, Frames
  <2>3. CASE Return(w)
    BY <1>1, <1>2, <2>1, <2>2, <2>3, PhaseMoves
  <2>4. CASE ~ Return(w)
    <3>1. PICK r \in work[w].record : Peek(work[w].sess, work[w].req, r.id) /\ Go(w, "commit")
      BY <1>4, <2>4 DEF Validate
    <3>2. PICK m \in minted : m.req = work[w].req /\ m.id = r.id
      BY <3>1 DEF Peek
    <3>3. m \in Minted /\ m.id < nextId /\ shown[m.id] = m.req
      BY DEF BridgeInv, TypeOK, MintedOK
    <3>4. work[w].req # None
      BY <3>2, <3>3 DEF Minted, Reqs, None
    <3>5. \A q \in work[w].record : q = r
      BY <2>1, PhaseObject DEF InPhase
    <3>6. /\ work' \in [Workers -> WorkStates]
          /\ work'[w] = [work[w] EXCEPT !.pc = "commit"]
          /\ \A v \in Workers \ {w} : work'[v] = work[v]
      BY <1>2, <3>1, MoveOne DEF WorkPcs, PhasePcs
    <3>7. /\ work'[w].pc = "commit" /\ work'[w].obj = work[w].obj
          /\ work'[w].record = work[w].record /\ work'[w].req = work[w].req
      BY <1>2, <3>6 DEF WorkStates
    <3>8. /\ "commit" \in PhasePcs
          /\ "commit" \in BeforeGateway <=> work[w].pc \in BeforeGateway
          /\ "commit" \in AfterAudit <=> work[w].pc \in AfterAudit
      BY <2>1 DEF PhasePcs, BeforeGateway, AfterAudit
    <3>9. \A q \in work[w].record : q.id < nextId /\ shown[q.id] = work'[w].req
      BY <3>2, <3>3, <3>5, <3>7
    <3> QED BY <1>1, <1>2, <2>1, <2>2, <3>4, <3>6, <3>7, <3>8, <3>9, PhaseMoves
  <2> QED BY <2>3, <2>4
<1>5. CASE Respond(w)
  <2>1. work[w].pc = "respond" /\ work[w].pc \in PhasePcs
    BY <1>5 DEF Respond, At, PhasePcs
  <2>2. PICK r \in work[w].record :
          LET said == [chat EXCEPT ![r.id] = r.decision] IN
          \/ chat' = said /\ Go(w, "forget")
          \/ chat' \in {chat, said} /\ Return(w)
    BY <1>5 DEF Respond
  <2>3. PICK p \in Progress : prog[work[w].obj] = {p} /\ InPhase(w, p)
                              /\ ProgressOK(work[w].obj, p)
    BY <2>1, PhaseObject
  <2>4. p.record = r /\ p.audited
    BY <2>1, <2>2, <2>3 DEF InPhase, AfterAudit
  <2>5. PICK k \in 1 .. Len(trail) : trail[k] = r
    BY <2>3, <2>4 DEF ProgressOK
  <2>6. r.id \in Ids /\ r.decision \in Decisions
    BY <2>3, <2>4 DEF Progress, Records
  <2>7. chat' = [chat EXCEPT ![r.id] = r.decision] \/ UNCHANGED chat
    BY <2>2
  <2>8. chat' \in [Ids -> {"none", "posted"} \cup Decisions]
    BY <1>2, <2>6, <2>7
  <2>9. ChatTellsTheTruth'
    BY <1>1, <1>2, <2>5, <2>6, <2>7 DEF BridgeInv, ChatTellsTheTruth
  <2>10. CASE Return(w)
    BY <1>1, <2>1, <2>8, <2>9, <2>10, PhaseMoves
  <2>11. CASE Go(w, "forget")
    <3>1. /\ work' \in [Workers -> WorkStates]
          /\ work'[w] = [work[w] EXCEPT !.pc = "forget"]
          /\ \A v \in Workers \ {w} : work'[v] = work[v]
      BY <1>2, <2>11, MoveOne DEF WorkPcs, PhasePcs
    <3>2. /\ work'[w].pc = "forget" /\ work'[w].obj = work[w].obj
          /\ work'[w].record = work[w].record
      BY <1>2, <3>1 DEF WorkStates
    <3>3. /\ "forget" \in PhasePcs
          /\ "forget" \in BeforeGateway <=> work[w].pc \in BeforeGateway
          /\ "forget" \in AfterAudit <=> work[w].pc \in AfterAudit
      BY <2>1 DEF PhasePcs, BeforeGateway, AfterAudit
    <3> QED BY <1>1, <2>1, <2>8, <2>9, <3>1, <3>2, <3>3, PhaseMoves
  <2> QED BY <2>2, <2>10, <2>11
<1> QED BY <1>3, <1>4, <1>5

(* A click arrives: the call is counted before it may mint or claim.       *)
LEMMA ClickKeeps ==
    ASSUME BridgeInv, NEW w \in Workers, Click(w)
    PROVE  BridgeInv'
<1>1. UNCHANGED <<session, rt, nextReq, ends, minted, nextId, shown, tokens,
                  entries, terminal, nextObj, prog, trail, poll, posts, chat, applied>>
  BY DEF Click, sessionVars, gatewayVars, registryVars, chatVars
<1>2. /\ TypeOK /\ work \in [Workers -> WorkStates]
      /\ clicks \in 0 .. MaxClicks /\ MaxClicks \in Nat /\ MaxIds \in Nat
      /\ nextObj \in Nat /\ nextId \in Nat
  BY BridgeAssumption DEF BridgeInv, TypeOK, WorkStates
<1>3. PICK r \in Records :
        work' = [work EXCEPT ![w] = [IdleWork EXCEPT !.pc = "claim", !.record = {r}]]
  BY DEF Click
<1> PICK x : x = [IdleWork EXCEPT !.pc = "claim", !.record = {r}]
  OBVIOUS
<1>4. x \in WorkStates /\ x.pc = "claim" /\ x.record = {r}
  <2>1. x = [pc |-> "claim", record |-> {r}, obj |-> None, sess |-> 1, req |-> None]
    BY DEF IdleWork
  <2>2. 1 \in Sessions /\ "claim" \in WorkPcs
    BY BridgeAssumption DEF Sessions, WorkPcs
  <2>3. {r} \in SUBSET Records
    OBVIOUS
  <2> QED BY <2>1, <2>2, <2>3 DEF WorkStates
<1>5. /\ work' \in [Workers -> WorkStates] /\ work'[w] = x
      /\ \A v \in Workers \ {w} : work'[v] = work[v]
  BY <1>2, <1>3, <1>4, MoveOne
<1>6. /\ work[w].pc = "idle" /\ clicks < MaxClicks /\ clicks' = clicks + 1
      /\ nextId + Minting <= MaxIds
  BY DEF Click, At, IdsLeft
<1>7. clicks' \in 0 .. MaxClicks
  BY <1>2, <1>6
<1>8. TypeOK'
  BY <1>1, <1>5, <1>7 DEF BridgeInv, TypeOK, WorkStates
<1>9. BoundsOK'
  <2>1. w \notin Claimants
    BY <1>6 DEF Claimants
  <2>2. Cardinality(Claimants') = Cardinality(Claimants) + 1
    BY <1>4, <1>5, <2>1, ClaimantsMove
  <2>3. /\ Cardinality(Claimants) \in Nat
        /\ Minting = Cardinality(Claimants) + (IF poll.pc = "observe" THEN 1 ELSE 0)
    BY RoomToMint
  <2>4. Minting' = Cardinality(Claimants') + (IF poll.pc = "observe" THEN 1 ELSE 0)
    BY <1>1 DEF Minting, Claimants
  <2>5. nextObj + Cardinality(Claimants) <= clicks + 1
    BY DEF BridgeInv, BoundsOK
  <2> QED BY <1>1, <1>2, <1>6, <2>2, <2>3, <2>4, <2>5 DEF BoundsOK
<1>10. PendingOK' /\ RequestEndsOnce' /\ MintedOK' /\ PollOK' /\ RegistryOK'
      /\ ProgOK' /\ AppliedOK' /\ TrailTellsWhatHappened' /\ ChatTellsTheTruth'
  BY <1>1, Frames DEF gatewayVars
<1>11. MutexOK'
  BY <1>4, <1>5, MutexStays DEF PhasePcs
<1>12. WorkOK(w)'
  BY <1>4, <1>5 DEF WorkOK, PhasePcs
<1>13. ASSUME NEW v \in Workers, v # w PROVE WorkOK(v)'
  <2>1. work[v].pc = "terminal" =>
            \A q \in work[v].record :
                \A k \in 1 .. Len(terminal) : terminal[k] # q.id
    BY DEF BridgeInv, WorkOK, Finished
  <2>2. work'[v] = work[v]
    BY <1>5, <1>13
  <2> QED BY <1>1, <1>2, <2>1, <2>2, WorkFrame
<1> QED BY <1>8, <1>9, <1>10, <1>11, <1>12, <1>13 DEF BridgeInv

(* The progress mutex is taken by the owner of an unfinished decision      *)
(* only, at the phase that is due.                                         *)
LEMMA LockKeeps ==
    ASSUME BridgeInv, NEW w \in Workers, LockProgress(w)
    PROVE  BridgeInv'
<1>1. /\ UNCHANGED <<sessionVars, gatewayVars, tokens, registryVars, prog,
                     trail, poll, clicks, posts, chat, applied>>
      /\ UNCHANGED <<nextId, shown, nextObj, prog, entries, terminal, trail, chat>>
  BY DEF LockProgress, gatewayVars, registryVars, chatVars
<1>2. /\ TypeOK /\ work \in [Workers -> WorkStates] /\ WorkOK(w) /\ ProgOK
      /\ chat \in [Ids -> {"none", "posted"} \cup Decisions]
      /\ prog \in [Objs -> SUBSET Progress]
  BY DEF BridgeInv, TypeOK, WorkStates
<1>3. work[w].pc = "lock" /\ work[w].obj \in Objs /\ work[w].obj < nextObj
  BY <1>2 DEF LockProgress, At, WorkOK
<1>4. w \notin Claimants
  BY <1>3 DEF Claimants
<1>5. ChatTellsTheTruth'
  BY <1>1, Frames
<1>6. CASE Return(w)
  <2>1. /\ work' \in [Workers -> WorkStates]
        /\ \A v \in Workers \ {w} : work'[v] = work[v]
        /\ work'[w].pc = "idle" /\ WorkOK(w)' /\ MutexOK'
    BY <1>6, IdleIsFine
  <2> QED BY <1>1, <1>2, <1>4, <1>5, <2>1, QuietWorker
<1>7. CASE ~ Return(w)
  <2>1. PICK p \in prog[work[w].obj] :
          {p.record} = work[w].record /\ ~ p.chat_updated /\ Go(w, Resume(p))
    BY <1>7 DEF LockProgress
  <2>2. ProgressOK(work[w].obj, p) /\ p \in Progress
    BY <1>2, <1>3, <2>1 DEF ProgOK
  <2> PICK label : label = Resume(p)
    OBVIOUS
  <2>3. /\ label \in {"prepare", "audit", "token"}
        /\ p.gateway_applied <=> label \notin BeforeGateway
        /\ p.audited <=> label \in AfterAudit
    BY <2>2 DEF Resume, BeforeGateway, AfterAudit, ProgressOK, Progress
  <2>4. label \in PhasePcs /\ label \in WorkPcs
    BY <2>3 DEF PhasePcs, WorkPcs
  <2>5. /\ work' \in [Workers -> WorkStates]
        /\ work'[w] = [work[w] EXCEPT !.pc = label]
        /\ \A v \in Workers \ {w} : work'[v] = work[v]
    BY <1>2, <2>1, <2>4, MoveOne
  <2>6. /\ work'[w].pc = label /\ work'[w].obj = work[w].obj
        /\ work'[w].record = work[w].record
    BY <1>2, <2>5 DEF WorkStates
  <2>7. InPhase(w, p)'
    BY <2>1, <2>3, <2>6 DEF InPhase
  <2>8. WorkOK(w)'
    <3>1. \E r \in Records : work'[w].record = {r}
      BY <2>1, <2>2, <2>6 DEF Progress
    <3> QED BY <1>1, <1>3, <2>1, <2>3, <2>6, <2>7, <3>1 DEF WorkOK, PhasePcs
  <2>9. MutexOK'
    <3>1. ASSUME NEW v \in Workers \ {w}, work[v].pc \in PhasePcs \cup {"terminal"}
          PROVE  work[v].obj # work[w].obj
      <4>1. CASE work[v].pc \in PhasePcs
        BY <4>1 DEF LockProgress
      <4>2. CASE work[v].pc = "terminal"
        <5>1. \E q \in prog[work[v].obj] : q.chat_updated
          BY <4>2 DEF BridgeInv, WorkOK, Finished
        <5> QED BY <5>1, <1>2, <1>3, <2>1 DEF ProgOK
      <4> QED BY <3>1, <4>1, <4>2
    <3>2. work'[w].pc # "claim_observe"
      BY <2>3, <2>6
    <3> QED BY <2>5, <2>6, <3>1, <3>2, MutexMove
  <2>10. work'[w].pc \notin {"claim", "claim_observe"}
    BY <2>3, <2>6
  <2> QED BY <1>1, <1>2, <1>4, <1>5, <2>5, <2>8, <2>9, <2>10, QuietWorker
<1> QED BY <1>6, <1>7

(* The holder of a progress mutex moves its object on; the trail and the   *)
(* applied decisions only grow.                                            *)
LEMMA Advance ==
    ASSUME BridgeInv, NEW w \in Workers, work[w].pc \in PhasePcs,
           \A v \in Workers \ {w} : work'[v] = work[v],
           NEW ob \in Objs, ob = work[w].obj,
           NEW p \in Progress, prog[ob] = {p},
           NEW q \in Progress, q.record = p.record,
           p.gateway_applied => q.gateway_applied,
           prog' = [prog EXCEPT ![ob] = {q}],
           UNCHANGED <<entries, terminal, nextObj, nextId, shown>>,
           applied \subseteq applied',
           \A k \in 1 .. Len(trail) : \E j \in 1 .. Len(trail') : trail'[j] = trail[k],
           ProgressOK(ob, q)'
    PROVE  /\ prog' \in [Objs -> SUBSET Progress]
           /\ prog'[ob] = {q}
           /\ ProgOK' /\ RegistryOK'
           /\ \A v \in Workers \ {w} : WorkOK(v)'
           /\ \A a \in applied :
                /\ a.record.id < nextId' /\ shown'[a.record.id] = a.req
                /\ \E o \in Objs : \E pp \in prog'[o] :
                     pp.record = a.record /\ pp.gateway_applied
<1>1. ob \in Objs /\ ob < nextObj /\ ~ p.chat_updated
  BY PhaseObject DEF InPhase
<1>2. /\ prog \in [Objs -> SUBSET Progress] /\ ProgOK /\ RegistryOK /\ AppliedOK
      /\ entries \in [Ids -> Objs \cup {None}] /\ terminal \in Seq(Ids)
      /\ nextObj \in Nat /\ nextId \in Nat
  BY DEF BridgeInv, TypeOK
<1>3. /\ prog' \in [Objs -> SUBSET Progress] /\ prog'[ob] = {q}
      /\ \A o \in Objs : o # ob => prog'[o] = prog[o]
  BY <1>1, <1>2
<1>4. ProgOK'
  <2>1. ASSUME NEW o \in Objs, o # ob, NEW x \in prog[o]
        PROVE  ProgressOK(o, x)'
    <3>1. ProgressOK(o, x)
      BY <1>2 DEF ProgOK
    <3> QED BY <3>1 DEF ProgressOK
  <2>2. ASSUME NEW o \in Objs
        PROVE  /\ \A x, y \in prog'[o] : x = y
               /\ prog'[o] # {} <=> o < nextObj'
    BY <1>1, <1>2, <1>3 DEF ProgOK
  <2>3. ASSUME NEW o \in Objs, NEW x \in prog'[o]
        PROVE  ProgressOK(o, x)'
    <3>1. CASE o = ob
      BY <1>3, <3>1, <2>3
    <3>2. CASE o # ob
      BY <1>3, <2>1, <2>3, <3>2
    <3> QED BY <3>1, <3>2
  <2> QED BY <2>2, <2>3 DEF ProgOK
<1>5. RegistryOK'
  <2>1. Size(entries') <= Capacity
    BY <1>2 DEF RegistryOK
  <2>2. ASSUME NEW i \in Ids, entries[i] # None
        PROVE  entries[i] < nextObj /\ \E x \in prog'[entries[i]] : x.record.id = i
    BY <1>2, <1>3, <2>2 DEF RegistryOK
  <2>3. ASSUME NEW k \in 1 .. Len(terminal)
        PROVE  /\ entries[terminal[k]] # None
               /\ \E x \in prog'[entries[terminal[k]]] : x.chat_updated
    <3>1. terminal[k] \in Ids
      BY <1>2
    <3>2. /\ entries[terminal[k]] # None
          /\ \E x \in prog[entries[terminal[k]]] : x.chat_updated
      BY <1>2 DEF RegistryOK
    <3>3. entries[terminal[k]] \in Objs /\ entries[terminal[k]] # ob
      BY <1>1, <1>2, <3>1, <3>2
    <3> QED BY <1>3, <3>2, <3>3
  <2> QED BY <1>2, <2>1, <2>2, <2>3 DEF RegistryOK
<1>6. ASSUME NEW v \in Workers \ {w} PROVE WorkOK(v)'
  <2>1. work[v].pc = "terminal" =>
            \A r \in work[v].record :
                \A k \in 1 .. Len(terminal) : terminal[k] # r.id
    BY DEF BridgeInv, WorkOK, Finished
  <2>2. work[v].pc \in PhasePcs \cup {"terminal"} =>
            prog'[work[v].obj] = prog[work[v].obj]
    BY <1>3 DEF BridgeInv, MutexOK, WorkOK
  <2>3. v \in Workers /\ work'[v] = work[v]
    OBVIOUS
  <2>4. (Len(terminal))' = Len(terminal) /\ nextObj <= nextObj' /\ nextId <= nextId'
    BY <1>2
  <2> QED BY <1>2, <2>1, <2>2, <2>3, <2>4, WorkFrame
<1>7. ASSUME NEW a \in applied
      PROVE  /\ a.record.id < nextId' /\ shown'[a.record.id] = a.req
             /\ \E o \in Objs : \E pp \in prog'[o] :
                  pp.record = a.record /\ pp.gateway_applied
  BY <1>1, <1>2, <1>3 DEF AppliedOK
<1> QED BY <1>3, <1>4, <1>5, <1>6, <1>7

(* What finishing a phase does: the object moves from p to q, the worker   *)
(* to label, and the trail and the applied decisions only grow.            *)
PhaseEffect(w, label, ob, p, q) ==
    /\ Go(w, label)
    /\ prog' = [prog EXCEPT ![ob] = {q}]
    /\ UNCHANGED <<session, nextReq, gatewayVars, registryVars, poll,
                   clicks, chatVars>>
    /\ q.record = p.record
    /\ q.gateway_applied
    /\ q.audited <=> label # "audit"
    /\ q.chat_updated <=> label = "terminal"
    /\ q.audited => \E j \in 1 .. Len(trail') : trail'[j] = p.record
    /\ \A k \in 1 .. Len(trail) : \E j \in 1 .. Len(trail') : trail'[j] = trail[k]
    /\ applied \subseteq applied'
    /\ \E a \in applied' : a.record = p.record
    /\ \A a \in applied' \ applied :
         /\ a \in [req : Reqs, record : Records]
         /\ a.record = p.record
         /\ a.record.id < nextId
         /\ shown[a.record.id] = a.req

(* The holder of a progress mutex finishes a phase.                        *)
LEMMA AdvanceKeeps ==
    ASSUME BridgeInv, NEW w \in Workers, work[w].pc \in PhasePcs,
           NEW label \in {"audit", "token", "terminal"},
           NEW ob \in Objs, ob = work[w].obj,
           NEW p \in Progress, prog[ob] = {p}, NEW q \in Progress,
           PhaseEffect(w, label, ob, p, q),
           rt' \in [Sessions -> Reqs \cup {None}], ends' \in [Reqs -> Nat],
           PendingOK', RequestEndsOnce',
           tokens' \in [Ids -> {"none", "notifying", "notified"}],
           trail' \in Seq(Records), TrailTellsWhatHappened'
    PROVE  BridgeInv'
<1> USE DEF PhaseEffect
<1>1. UNCHANGED <<session, nextReq, minted, nextId, shown, entries, terminal,
                  nextObj, poll, clicks, posts, chat>>
  BY DEF gatewayVars, registryVars, chatVars
<1>2. TypeOK /\ work \in [Workers -> WorkStates]
  BY DEF BridgeInv, TypeOK, WorkStates
<1>3. /\ work' \in [Workers -> WorkStates]
      /\ work'[w] = [work[w] EXCEPT !.pc = label]
      /\ \A v \in Workers \ {w} : work'[v] = work[v]
  BY <1>2, MoveOne DEF WorkPcs, PhasePcs
<1>4. work'[w].pc = label /\ work'[w].obj = ob /\ work'[w].record = work[w].record
  BY <1>2, <1>3 DEF WorkStates
<1>5. /\ InPhase(w, p) /\ ProgressOK(ob, p) /\ w \notin Claimants /\ ob < nextObj
  <2>1. /\ work[w].obj < nextObj /\ w \notin Claimants
        /\ \E r \in Progress : /\ prog[work[w].obj] = {r} /\ InPhase(w, r)
                              /\ ProgressOK(work[w].obj, r)
    BY PhaseObject
  <2>2. PICK r \in Progress : prog[ob] = {r} /\ InPhase(w, r) /\ ProgressOK(ob, r)
    BY ONLY <2>1, ob = work[w].obj
  <2>3. r = p
    BY ONLY <2>2, prog[ob] = {p}
  <2> QED BY ONLY <2>1, <2>2, <2>3, ob = work[w].obj
<1>6. ~ p.chat_updated /\ work[w].record = {p.record} /\ entries[p.record.id] = ob
  BY <1>5 DEF InPhase, ProgressOK
<1>7. ProgressOK(ob, q)'
  BY <1>1, <1>6 DEF ProgressOK
<1>8. /\ prog' \in [Objs -> SUBSET Progress] /\ prog'[ob] = {q}
      /\ ProgOK' /\ RegistryOK' /\ \A v \in Workers \ {w} : WorkOK(v)'
      /\ \A a \in applied :
           /\ a.record.id < nextId' /\ shown'[a.record.id] = a.req
           /\ \E o \in Objs : \E pp \in prog'[o] :
                pp.record = a.record /\ pp.gateway_applied
  BY <1>1, <1>3, <1>7, Advance
<1>9. AppliedOK'
  BY <1>1, <1>8 DEF AppliedOK
<1>10. WorkOK(w)'
  <2>1. p.record \in Records
    BY DEF Progress
  <2>2. CASE label \in {"audit", "token"}
    <3>1. InPhase(w, q)'
      BY <1>4, <1>6, <2>2 DEF InPhase, BeforeGateway, AfterAudit
    <3> QED BY <1>1, <1>4, <1>5, <1>6, <1>8, <2>1, <2>2, <3>1 DEF WorkOK, PhasePcs
  <2>3. CASE label = "terminal"
    <3>1. ASSUME NEW k \in 1 .. Len(terminal) PROVE terminal[k] # p.record.id
      <4>1. \E x \in prog[entries[terminal[k]]] : x.chat_updated
        BY DEF BridgeInv, RegistryOK
      <4> QED BY <1>6, <4>1
    <3>2. Finished(w, q)'
      BY <1>1, <1>4, <1>6, <2>3, <3>1 DEF Finished
    <3>3. label \notin PhasePcs \cup {"idle", "claim_observe", "commit"}
      BY <2>3 DEF PhasePcs
    <3>4. \E rr \in Records : work'[w].record = {rr}
      BY <1>4, <1>6, <2>1
    <3>5. work'[w].obj \in Objs /\ work'[w].obj < nextObj'
      BY <1>1, <1>4, <1>5
    <3>6. \E x \in prog'[work'[w].obj] : Finished(w, x)'
      BY <1>4, <1>8, <3>2
    <3> QED BY <1>4, <3>3, <3>4, <3>5, <3>6 DEF WorkOK
  <2> QED BY <2>2, <2>3
<1>11. MutexOK'
  <2>1. work'[w].pc # "claim_observe"
    BY <1>4
  <2>2. work[w].pc \in PhasePcs \cup {"terminal"} /\ work'[w].obj = work[w].obj
    BY <1>4
  <2> QED BY <1>3, <2>1, <2>2, MutexStays
<1>12. BoundsOK'
  <2>1. Claimants' = Claimants
    BY <1>3, <1>4, <1>5, ClaimantsMove
  <2> QED BY <1>1, <2>1, BoundsFrame
<1>13. MintedOK' /\ PollOK'
  BY <1>1, Frames DEF gatewayVars
<1>14. ChatTellsTheTruth'
  <2>1. ASSUME NEW i \in Ids, chat[i] \in Decisions
        PROVE  \E j \in 1 .. Len(trail') : trail'[j].id = i /\ trail'[j].decision = chat[i]
    <3>1. PICK k \in 1 .. Len(trail) : trail[k].id = i /\ trail[k].decision = chat[i]
      BY <2>1 DEF BridgeInv, ChatTellsTheTruth
    <3>2. PICK j \in 1 .. Len(trail') : trail'[j] = trail[k]
      OBVIOUS
    <3> QED BY <3>1, <3>2
  <2> QED BY <1>1, <2>1 DEF ChatTellsTheTruth
<1>15. TypeOK'
  <2>1. applied' \subseteq [req : Reqs, record : Records]
    BY DEF BridgeInv, TypeOK
  <2> QED BY <1>1, <1>3, <1>8, <2>1 DEF BridgeInv, TypeOK, WorkStates
<1>16. \A v \in Workers : WorkOK(v)'
  BY <1>8, <1>10
<1> QED BY <1>8, <1>9, <1>11, <1>12, <1>13, <1>14, <1>15, <1>16 DEF BridgeInv

(* approve or reject decides the pending request it validated, or refuses. *)
LEMMA CommitKeeps ==
    ASSUME BridgeInv, NEW w \in Workers, Commit(w)
    PROVE  BridgeInv'
<1>1. /\ work[w].pc = "commit" /\ work[w].pc \in PhasePcs
      /\ UNCHANGED <<session, nextReq, gatewayVars, tokens, registryVars, trail,
                     poll, clicks, chatVars>>
      /\ UNCHANGED <<posts, chat, trail>>
  BY DEF Commit, At, PhasePcs, chatVars
<1>2. PICK ob \in Objs : ob = work[w].obj
  BY <1>1, PhaseObject
<1>3. PICK p \in Progress : prog[ob] = {p} /\ InPhase(w, p)
  BY <1>1, <1>2, PhaseObject
<1>4. CASE Return(w) /\ UNCHANGED <<rt, ends, prog, applied>>
  <2>1. ChatTellsTheTruth' /\ chat' \in [Ids -> {"none", "posted"} \cup Decisions]
    BY <1>1, Frames DEF BridgeInv, TypeOK
  <2>2. UNCHANGED <<sessionVars, gatewayVars, tokens, registryVars, prog,
                    trail, poll, clicks, posts, applied>>
    BY <1>1, <1>4 DEF sessionVars
  <2> QED BY <1>1, <1>4, <2>1, <2>2, PhaseMoves
<1>5. CASE /\ rt[work[w].sess] = work[w].req
           /\ rt' = [rt EXCEPT ![work[w].sess] = None]
           /\ ends' = Ended(work[w].req)
           /\ \E x \in prog[work[w].obj] :
                /\ SetProgress(w, [x EXCEPT !.gateway_applied = TRUE])
                /\ applied' = applied \cup {[req |-> work[w].req, record |-> x.record]}
           /\ Go(w, "audit")
  <2> PICK s : s = work[w].sess
    OBVIOUS
  <2> PICK q : q = [p EXCEPT !.gateway_applied = TRUE]
    OBVIOUS
  <2>1. /\ rt \in [Sessions -> Reqs \cup {None}] /\ s \in Sessions
        /\ nextReq \in Nat /\ ends \in [Reqs -> Nat]
        /\ tokens \in [Ids -> {"none", "notifying", "notified"}]
        /\ trail \in Seq(Records)
    BY DEF BridgeInv, TypeOK
  <2>2. /\ work[w].req # None /\ rt[s] = work[w].req /\ rt[s] \in Reqs
        /\ p.record.id < nextId /\ shown[p.record.id] = rt[s]
    BY <1>1, <1>3, <1>5, <2>1 DEF BridgeInv, WorkOK, InPhase
  <2>3. /\ q \in Progress /\ q.record = p.record /\ q.gateway_applied
        /\ q.audited = p.audited /\ q.chat_updated = p.chat_updated
    BY DEF Progress
  <2>4. ~ p.audited /\ ~ p.chat_updated
    BY <1>1, <1>3 DEF InPhase, AfterAudit
  <2>5. /\ prog' = [prog EXCEPT ![ob] = {q}]
        /\ applied' = applied \cup {[req |-> rt[s], record |-> p.record]}
    BY <1>2, <1>3, <1>5, <2>2 DEF SetProgress
  <2>6. rt' = [rt EXCEPT ![s] = None] /\ ends' = Ended(rt[s])
    BY <1>5, <2>2
  <2>7. rt' \in [Sessions -> Reqs \cup {None}]
    BY <2>1, <2>6
  <2>8. /\ ends' \in [Reqs -> Nat] /\ RequestEndsOnce'
        /\ \A r \in Reqs : r # rt[s] => ends'[r] = ends[r]
    BY <2>1, <2>6, EndsOnce
  <2>9. PendingOK'
    <3>1. /\ \A t \in Sessions : rt[t] # None => rt[t] < nextReq /\ ends[rt[t]] = 0
          /\ \A t, u \in Sessions : rt[t] # None /\ rt[t] = rt[u] => t = u
          /\ \A r \in Reqs : r >= nextReq => ends[r] = 0
      BY DEF BridgeInv, PendingOK
    <3>2. \A t \in Sessions : rt'[t] = IF t = s THEN None ELSE rt[t]
      BY <2>1, <2>6
    <3>3. \A r \in Reqs : r >= nextReq => r # rt[s]
      BY <2>1, <2>2, <3>1 DEF Reqs
    <3> QED BY <1>1, <2>1, <2>2, <2>8, <3>1, <3>2, <3>3 DEF PendingOK
  <2>10. TrailTellsWhatHappened'
    BY <1>1, <2>5 DEF BridgeInv, TrailTellsWhatHappened
  <2>11. \A a \in applied' \ applied :
            /\ a \in [req : Reqs, record : Records] /\ a.record = p.record
            /\ a.record.id < nextId /\ shown[a.record.id] = a.req
    BY <2>2, <2>5 DEF Progress
  <2>12. applied \subseteq applied' /\ \E a \in applied' : a.record = p.record
    <3> PICK a : a = [req |-> rt[s], record |-> p.record]
      OBVIOUS
    <3>1. a \in applied' /\ a.record = p.record
      BY <2>5
    <3> QED BY <2>5, <3>1
  <2>13. \A k \in 1 .. Len(trail) : \E j \in 1 .. Len(trail') : trail'[j] = trail[k]
    BY <1>1
  <2>14. trail' \in Seq(Records) /\ tokens' \in [Ids -> {"none", "notifying", "notified"}]
    BY <1>1, <2>1
  <2>15. PhaseEffect(w, "audit", ob, p, q)
    BY <1>1, <1>5, <2>3, <2>4, <2>5, <2>11, <2>12, <2>13 DEF PhaseEffect
  <2> HIDE <1>5
  <2> QED BY <1>1, <1>2, <1>3, <2>3, <2>7, <2>8, <2>9, <2>10, <2>14, <2>15, AdvanceKeeps
<1> QED BY <1>4, <1>5 DEF Commit

(* The trail gains at most one record, of a decision that took effect and  *)
(* under an id it did not know.                                            *)
LEMMA TrailGrows ==
    ASSUME BridgeInv, NEW r \in Records, \E a \in applied : a.record = r,
           trail' \in {trail, Recorded(r)}, UNCHANGED applied
    PROVE  /\ trail' \in Seq(Records)
           /\ TrailTellsWhatHappened'
           /\ \A k \in 1 .. Len(trail) : \E j \in 1 .. Len(trail') : trail'[j] = trail[k]
           /\ ~ Conflicts(r) /\ trail' = Recorded(r) =>
                \E j \in 1 .. Len(trail') : trail'[j] = r
<1>1. trail \in Seq(Records) /\ TrailTellsWhatHappened
  BY DEF BridgeInv, TypeOK
<1>2. CASE trail' = trail
  <2>1. ~ Conflicts(r) /\ trail' = Recorded(r) => \E j \in 1 .. Len(trail) : trail[j] = r
    <3>1. SUFFICES ASSUME ~ Conflicts(r), trail = Recorded(r)
                   PROVE  \E j \in 1 .. Len(trail) : trail[j] = r
      BY <1>2
    <3>2. \E k \in 1 .. Len(trail) : trail[k].id = r.id
      <4>1. Len(Append(trail, r)) = Len(trail) + 1 /\ Len(trail) \in Nat
        BY <1>1
      <4> QED BY <3>1, <4>1 DEF Recorded
    <3> QED BY <3>1, <3>2 DEF Conflicts
  <2>2. TrailTellsWhatHappened'
    BY <1>1, <1>2 DEF TrailTellsWhatHappened
  <2> QED BY <1>1, <1>2, <2>1, <2>2
<1>3. CASE trail' # trail
  <2>1. /\ trail' = Append(trail, r)
        /\ \A k \in 1 .. Len(trail) : trail[k].id # r.id
    BY <1>3 DEF Recorded
  <2>2. /\ Len(trail) \in Nat /\ trail' \in Seq(Records) /\ Len(trail') = Len(trail) + 1
        /\ trail'[Len(trail) + 1] = r
        /\ \A k \in 1 .. Len(trail) : trail'[k] = trail[k]
    BY <1>1, <2>1
  <2>3. \A k \in 1 .. Len(trail') : k = Len(trail) + 1 \/ k \in 1 .. Len(trail)
    BY <2>2
  <2>4. \A k \in 1 .. Len(trail) : k \in 1 .. Len(trail')
    BY <2>2
  <2>5. TrailTellsWhatHappened'
    BY <1>1, <2>1, <2>2, <2>3 DEF TrailTellsWhatHappened
  <2>6. \E j \in 1 .. Len(trail') : trail'[j] = r
    <3>1. Len(trail) + 1 \in 1 .. Len(trail')
      BY <2>2
    <3> QED BY <2>2, <3>1
  <2>7. \A k \in 1 .. Len(trail) : \E j \in 1 .. Len(trail') : trail'[j] = trail[k]
    BY <2>2, <2>4
  <2> QED BY <2>2, <2>5, <2>6, <2>7
<1> QED BY <1>2, <1>3

(* record appends and is acknowledged, or fails before or after it did.    *)
LEMMA AuditKeeps ==
    ASSUME BridgeInv, NEW w \in Workers, RecordAudit(w)
    PROVE  BridgeInv'
<1>1. /\ work[w].pc = "audit" /\ work[w].pc \in PhasePcs
      /\ UNCHANGED <<sessionVars, gatewayVars, tokens, registryVars, poll,
                     clicks, chatVars, applied>>
      /\ UNCHANGED <<session, rt, nextReq, ends, applied, tokens>>
  BY DEF RecordAudit, At, PhasePcs, sessionVars
<1>2. PICK ob \in Objs : ob = work[w].obj
  BY <1>1, PhaseObject
<1>3. PICK p \in Progress : prog[ob] = {p} /\ InPhase(w, p) /\ ProgressOK(ob, p)
  BY <1>1, <1>2, PhaseObject
<1>4. /\ p.gateway_applied /\ ~ p.audited /\ ~ p.chat_updated
      /\ \E a \in applied : a.record = p.record
      /\ p.record \in Records
  BY <1>1, <1>3 DEF InPhase, AfterAudit, BeforeGateway, ProgressOK, Progress
<1>5. trail' \in {trail, Recorded(p.record)}
  BY <1>2, <1>3 DEF RecordAudit
<1>6. /\ trail' \in Seq(Records) /\ TrailTellsWhatHappened'
      /\ \A k \in 1 .. Len(trail) : \E j \in 1 .. Len(trail') : trail'[j] = trail[k]
      /\ ~ Conflicts(p.record) /\ trail' = Recorded(p.record) =>
           \E j \in 1 .. Len(trail') : trail'[j] = p.record
  BY <1>1, <1>4, <1>5, TrailGrows
<1>7. PendingOK' /\ RequestEndsOnce'
  BY <1>1, Frames
<1>8. CASE /\ ~ Conflicts(p.record) /\ trail' = Recorded(p.record)
           /\ SetProgress(w, [p EXCEPT !.audited = TRUE]) /\ Go(w, "token")
  <2> PICK q : q = [p EXCEPT !.audited = TRUE]
    OBVIOUS
  <2>1. /\ q \in Progress /\ q.record = p.record /\ q.gateway_applied = p.gateway_applied
        /\ q.audited /\ q.chat_updated = p.chat_updated
    BY DEF Progress
  <2>2. prog' = [prog EXCEPT ![ob] = {q}]
    BY <1>2, <1>8 DEF SetProgress
  <2>3. PhaseEffect(w, "token", ob, p, q)
    BY <1>1, <1>4, <1>6, <1>8, <2>1, <2>2 DEF PhaseEffect
  <2>4. /\ rt' \in [Sessions -> Reqs \cup {None}] /\ ends' \in [Reqs -> Nat]
        /\ tokens' \in [Ids -> {"none", "notifying", "notified"}]
    BY <1>1 DEF BridgeInv, TypeOK
  <2> QED BY <1>1, <1>2, <1>3, <1>6, <1>7, <2>1, <2>3, <2>4, AdvanceKeeps
<1>9. CASE Return(w) /\ UNCHANGED prog
  <2>1. UNCHANGED <<session, rt, nextReq, ends, minted, nextId, shown, entries, terminal,
                    nextObj, prog, poll, clicks, posts, chat, applied, tokens>>
    BY <1>1, <1>9 DEF sessionVars, gatewayVars, registryVars, chatVars
  <2>2. /\ work' \in [Workers -> WorkStates]
        /\ \A v \in Workers \ {w} : work'[v] = work[v]
        /\ work'[w].pc = "idle" /\ WorkOK(w)' /\ MutexOK'
    BY <1>9, IdleIsFine
  <2>3. TypeOK'
    BY <1>6, <2>1, <2>2 DEF BridgeInv, TypeOK, WorkStates
  <2>4. Claimants' = Claimants
    BY <1>1, <2>2, PhaseObject, ClaimantsMove
  <2>5. BoundsOK'
    BY <2>1, <2>4, BoundsFrame
  <2>6. MintedOK' /\ PollOK' /\ RegistryOK' /\ AppliedOK'
    BY <2>1, Frames DEF gatewayVars
  <2>7. ASSUME NEW v \in Workers, v # w PROVE WorkOK(v)'
    <3>1. work[v].pc = "terminal" =>
              \A r \in work[v].record :
                  \A k \in 1 .. Len(terminal) : terminal[k] # r.id
      BY DEF BridgeInv, WorkOK, Finished
    <3>2. nextObj \in Nat /\ nextId \in Nat
      BY DEF BridgeInv, TypeOK
    <3>3. work'[v] = work[v]
      BY <2>2, <2>7
    <3> QED BY <2>1, <3>1, <3>2, <3>3, WorkFrame
  <2>8. ProgOK'
    <3>1. ASSUME NEW o \in Objs, NEW x \in prog[o] PROVE ProgressOK(o, x)'
      <4>1. ProgressOK(o, x)
        BY DEF BridgeInv, ProgOK
      <4> QED BY <1>6, <2>1, <4>1 DEF ProgressOK
    <3> QED BY <2>1, <3>1 DEF BridgeInv, ProgOK
  <2>9. ChatTellsTheTruth'
    <3>1. ASSUME NEW i \in Ids, chat[i] \in Decisions
          PROVE  \E j \in 1 .. Len(trail') : trail'[j].id = i /\ trail'[j].decision = chat[i]
      <4>1. PICK k \in 1 .. Len(trail) : trail[k].id = i /\ trail[k].decision = chat[i]
        BY <3>1 DEF BridgeInv, ChatTellsTheTruth
      <4>2. PICK j \in 1 .. Len(trail') : trail'[j] = trail[k]
        BY <1>6
      <4> QED BY <4>1, <4>2
    <3> QED BY <2>1, <3>1 DEF ChatTellsTheTruth
  <2> QED BY <1>6, <1>7, <2>2, <2>3, <2>5, <2>6, <2>7, <2>8, <2>9 DEF BridgeInv
<1> QED BY <1>2, <1>3, <1>8, <1>9 DEF RecordAudit

(* The chat message is answered, or there is none left to answer.          *)
LEMMA TokenKeeps ==
    ASSUME BridgeInv, NEW w \in Workers, LookUpToken(w) \/ ForgetToken(w)
    PROVE  BridgeInv'
<1>1. /\ work[w].pc \in {"token", "forget"} /\ work[w].pc \in PhasePcs
      /\ UNCHANGED <<sessionVars, gatewayVars, registryVars, trail, poll,
                     clicks, chatVars, applied>>
      /\ UNCHANGED <<session, rt, nextReq, ends, applied, trail, posts, chat>>
  BY DEF LookUpToken, ForgetToken, At, PhasePcs, sessionVars, chatVars
<1>2. PICK ob \in Objs : ob = work[w].obj
  BY <1>1, PhaseObject
<1>3. PICK p \in Progress : prog[ob] = {p} /\ InPhase(w, p) /\ ProgressOK(ob, p)
  BY <1>1, <1>2, PhaseObject
<1>4. /\ p.gateway_applied /\ p.audited
      /\ \E a \in applied : a.record = p.record
      /\ \E j \in 1 .. Len(trail) : trail[j] = p.record
      /\ p.record \in Records /\ p.record.id \in Ids
  BY <1>1, <1>3 DEF InPhase, AfterAudit, BeforeGateway, ProgressOK, Progress, Records
<1>5. /\ PendingOK' /\ RequestEndsOnce' /\ TrailTellsWhatHappened' /\ ChatTellsTheTruth'
  BY <1>1, Frames
<1>6. TypeOK /\ work \in [Workers -> WorkStates]
      /\ tokens \in [Ids -> {"none", "notifying", "notified"}]
  BY DEF BridgeInv, TypeOK, WorkStates
<1>7. CASE /\ SetProgress(w, [p EXCEPT !.chat_updated = TRUE]) /\ Go(w, "terminal")
           /\ tokens' \in {tokens, [tokens EXCEPT ![p.record.id] = "none"]}
  <2> PICK q : q = [p EXCEPT !.chat_updated = TRUE]
    OBVIOUS
  <2>1. /\ q \in Progress /\ q.record = p.record /\ q.gateway_applied = p.gateway_applied
        /\ q.audited = p.audited /\ q.chat_updated
    BY DEF Progress
  <2>2. prog' = [prog EXCEPT ![ob] = {q}]
    BY <1>2, <1>7 DEF SetProgress
  <2>3. PhaseEffect(w, "terminal", ob, p, q)
    BY <1>1, <1>4, <1>7, <2>1, <2>2 DEF PhaseEffect
  <2>4. tokens' \in [Ids -> {"none", "notifying", "notified"}]
    BY <1>4, <1>6, <1>7
  <2>5. /\ rt' \in [Sessions -> Reqs \cup {None}] /\ ends' \in [Reqs -> Nat]
        /\ trail' \in Seq(Records)
    BY <1>1 DEF BridgeInv, TypeOK
  <2> QED BY <1>1, <1>2, <1>3, <1>5, <2>1, <2>3, <2>4, <2>5, AdvanceKeeps
<1>8. CASE UNCHANGED <<prog, tokens>> /\ work[w].pc = "token" /\ (Return(w) \/ Go(w, "respond"))
  <2>1. /\ UNCHANGED <<sessionVars, gatewayVars, tokens, registryVars, prog,
                       trail, poll, clicks, posts, applied>>
        /\ chat' \in [Ids -> {"none", "posted"} \cup Decisions]
    BY <1>1, <1>8 DEF BridgeInv, TypeOK
  <2>2. CASE Return(w)
    BY <1>1, <1>5, <2>1, <2>2, PhaseMoves
  <2>3. CASE Go(w, "respond")
    <3>1. /\ work' \in [Workers -> WorkStates]
          /\ work'[w] = [work[w] EXCEPT !.pc = "respond"]
          /\ \A v \in Workers \ {w} : work'[v] = work[v]
      BY <1>6, <2>3, MoveOne DEF WorkPcs, PhasePcs
    <3>2. /\ work'[w].pc = "respond" /\ work'[w].obj = work[w].obj
          /\ work'[w].record = work[w].record
      BY <1>6, <3>1 DEF WorkStates
    <3>3. /\ "respond" \in PhasePcs
          /\ "respond" \in BeforeGateway <=> work[w].pc \in BeforeGateway
          /\ "respond" \in AfterAudit <=> work[w].pc \in AfterAudit
      BY <1>8 DEF PhasePcs, BeforeGateway, AfterAudit
    <3> QED BY <1>1, <1>5, <2>1, <3>1, <3>2, <3>3, PhaseMoves
  <2> QED BY <1>8, <2>2, <2>3
<1>9. LookUpToken(w) => work[w].pc = "token" /\ UNCHANGED tokens
  BY DEF LookUpToken, At
<1>10. prog[work[w].obj] = {p}
  BY <1>2, <1>3
<1>11. CASE LookUpToken(w)
  BY <1>7, <1>8, <1>9, <1>10, <1>11 DEF LookUpToken
<1>12. CASE ForgetToken(w)
  BY <1>7, <1>10, <1>12 DEF ForgetToken
<1> QED BY <1>11, <1>12

(* The size of a registry.                                                 *)
LEMMA SizeFacts ==
    ASSUME NEW e, NEW f
    PROVE  /\ Size(e) \in Nat
           /\ (\A i \in Ids : f[i] # None => e[i] # None) => Size(f) <= Size(e)
           /\ \A id \in Ids : (\A i \in Ids \ {id} : f[i] = e[i]) => Size(f) <= Size(e) + 1
<1> DEFINE E == {i \in Ids : e[i] # None}
           F == {i \in Ids : f[i] # None}
<1>1. IsFiniteSet(Ids)
  BY BridgeAssumption, FS_Interval DEF Ids
<1>2. /\ IsFiniteSet(E) /\ IsFiniteSet(F) /\ Size(e) = Cardinality(E) /\ Size(f) = Cardinality(F)
  <2>1. E \in SUBSET Ids /\ F \in SUBSET Ids
    OBVIOUS
  <2> QED BY <1>1, <2>1, FS_Subset DEF Size
<1>3. Cardinality(E) \in Nat /\ Cardinality(F) \in Nat
  BY <1>2, FS_CardinalityType
<1>4. ASSUME \A i \in Ids : f[i] # None => e[i] # None
      PROVE  Cardinality(F) <= Cardinality(E)
  <2>1. F \in SUBSET E
    BY <1>4
  <2> QED BY <1>2, <2>1, FS_Subset
<1>5. ASSUME NEW id \in Ids, \A i \in Ids \ {id} : f[i] = e[i]
      PROVE  Cardinality(F) <= Cardinality(E) + 1
  <2>1. F \in SUBSET (E \cup {id})
    BY <1>5
  <2> HIDE DEF E, F
  <2>2. /\ IsFiniteSet(E \cup {id})
        /\ Cardinality(E \cup {id}) = IF id \in E THEN Cardinality(E) ELSE Cardinality(E) + 1
    BY <1>2, FS_AddElement
  <2>3. Cardinality(F) <= Cardinality(E \cup {id})
    BY <2>1, <2>2, FS_Subset
  <2>4. Cardinality(E \cup {id}) <= Cardinality(E) + 1
    BY <1>3, <2>2
  <2>5. Cardinality(E \cup {id}) \in Nat
    BY <1>3, <2>2
  <2> QED BY <1>3, <2>3, <2>4, <2>5
<1> HIDE DEF E, F
<1> QED BY <1>2, <1>3, <1>4, <1>5

(* Dropping entries whose chat has been told forgets nothing unfinished.   *)
LEMMA DropKeeps ==
    ASSUME BridgeInv, NEW D \in SUBSET Ids,
           \A i \in D : entries[i] # None /\ \E x \in prog[entries[i]] : x.chat_updated,
           entries' = [i \in Ids |-> IF i \in D THEN None ELSE entries[i]],
           UNCHANGED <<prog, nextObj, trail, applied>>
    PROVE  /\ entries' \in [Ids -> Objs \cup {None}]
           /\ ProgOK'
           /\ Size(entries') <= Capacity
           /\ \A i \in Ids : entries'[i] # None =>
                entries'[i] < nextObj /\ \E p \in prog[entries'[i]] : p.record.id = i
<1>1. /\ entries \in [Ids -> Objs \cup {None}] /\ ProgOK /\ RegistryOK
      /\ prog \in [Objs -> SUBSET Progress]
      /\ Capacity \in Nat
  BY BridgeAssumption DEF BridgeInv, TypeOK
<1>2. entries' \in [Ids -> Objs \cup {None}]
  BY <1>1
<1>3. \A i \in Ids : entries'[i] = IF i \in D THEN None ELSE entries[i]
  OBVIOUS
<1>4. Size(entries') <= Capacity
  <2>1. Size(entries) <= Capacity
    BY <1>1 DEF RegistryOK
  <2>2. Size(entries') <= Size(entries)
    BY <1>3, SizeFacts
  <2>3. Size(entries) \in Nat /\ Size(entries') \in Nat
    BY SizeFacts
  <2> QED BY <1>1, <2>1, <2>2, <2>3
<1>5. \A i \in Ids : entries'[i] # None =>
          entries'[i] < nextObj /\ \E p \in prog[entries'[i]] : p.record.id = i
  BY <1>1, <1>3 DEF RegistryOK
<1>6. ProgOK'
  <2>1. ASSUME NEW o \in Objs, NEW p \in prog[o] PROVE ProgressOK(o, p)'
    <3>1. ProgressOK(o, p) /\ p \in Progress
      BY <1>1 DEF ProgOK
    <3>2. p.record.id \in Ids
      BY <3>1 DEF Progress, Records
    <3>3. ASSUME ~ p.chat_updated PROVE entries'[p.record.id] = o
      <4>1. entries[p.record.id] = o
        BY <3>1, <3>3 DEF ProgressOK
      <4>2. p.record.id \notin D
        BY <1>1, <3>3, <4>1 DEF ProgOK
      <4> QED BY <1>3, <3>2, <4>1, <4>2
    <3> QED BY <3>1, <3>3 DEF ProgressOK
  <2> QED BY <1>1, <2>1 DEF ProgOK
<1> QED BY <1>2, <1>4, <1>5, <1>6

(* make_room_for_claim drops a prefix of terminal_order, and there is room *)
(* afterwards unless every entry is unfinished.                            *)
LEMMA RoomMade ==
    ASSUME BridgeInv, MakeRoom
    PROVE  \E k \in 0 .. Len(terminal) :
             /\ entries' = WithoutOldest(k)
             /\ terminal' = SubSeq(terminal, k + 1, Len(terminal))
             /\ Drops # {} => Size(entries') < Capacity
<1>1. terminal \in Seq(Ids) /\ Len(terminal) \in Nat
  BY DEF BridgeInv, TypeOK
<1>2. CASE Drops = {}
  <2>1. Len(terminal) \in 0 .. Len(terminal)
    BY <1>1
  <2> QED BY <1>2, <2>1 DEF MakeRoom
<1>3. CASE Drops # {}
  <2> PICK T : T = Drops
    OBVIOUS
  <2>1. T \in SUBSET Nat /\ T # {}
    BY <1>1, <1>3 DEF Drops
  <2>2. \E n \in T : \A m \in T : n <= m
    BY <2>1, Least
  <2> PICK k : k = CHOOSE n \in T : \A m \in T : n <= m
    OBVIOUS
  <2>3. k \in T
    BY <2>2
  <2>4. /\ entries' = WithoutOldest(k)
        /\ terminal' = SubSeq(terminal, k + 1, Len(terminal))
    BY <1>3 DEF MakeRoom
  <2>5. k \in 0 .. Len(terminal) /\ Size(WithoutOldest(k)) < Capacity
    BY <2>3 DEF Drops
  <2> QED BY <2>4, <2>5
<1> QED BY <1>2, <1>3

(* Nobody else is disturbed by a registry that forgets finished entries.   *)
LEMMA OthersKeep ==
    ASSUME BridgeInv, NEW w \in Workers, RegistryFree(w),
           \A v \in Workers \ {w} : work'[v] = work[v],
           UNCHANGED <<nextObj, nextId, shown, prog>>,
           \A v \in Workers \ {w} : work[v].pc = "terminal" =>
               \A r \in work[v].record :
                   /\ entries'[r.id] = entries[r.id]
                   /\ \A k \in 1 .. Len(terminal)' : terminal'[k] # r.id
    PROVE  \A v \in Workers \ {w} : WorkOK(v)'
<1>1. nextObj \in Nat /\ nextId \in Nat
  BY DEF BridgeInv, TypeOK
<1>2. ASSUME NEW v \in Workers, v # w PROVE WorkOK(v)'
  <2>1. work[v].pc # "claim_observe"
    BY <1>2 DEF RegistryFree, At
  <2>2. work'[v] = work[v]
    BY <1>2
  <2>3. work[v].pc = "terminal" =>
            \A r \in work[v].record :
                /\ entries'[r.id] = entries[r.id]
                /\ \A k \in 1 .. Len(terminal)' : terminal'[k] # r.id
    BY <1>2
  <2> QED BY <1>1, <2>1, <2>2, <2>3, WorkFrame
<1> QED BY <1>2

(* The claim of a click: the entry of the id, or room for a new one.       *)
LEMMA ClaimKeeps ==
    ASSUME BridgeInv, NEW w \in Workers, Claim(w)
    PROVE  BridgeInv'
<1>1. /\ work[w].pc = "claim" /\ RegistryFree(w)
      /\ UNCHANGED <<session, rt, nextReq, ends, minted, nextId, shown, tokens,
                     nextObj, prog, trail, poll, clicks, posts, chat, applied>>
  BY DEF Claim, At, sessionVars, gatewayVars, chatVars
<1>2. /\ TypeOK /\ work \in [Workers -> WorkStates] /\ session \in Sessions
      /\ rt \in [Sessions -> Reqs \cup {None}] /\ WorkOK(w) /\ RegistryOK
      /\ entries \in [Ids -> Objs \cup {None}] /\ terminal \in Seq(Ids)
      /\ nextObj \in Nat /\ MaxIds \in Nat /\ nextId \in Nat
  BY BridgeAssumption DEF BridgeInv, TypeOK, WorkStates
<1>3. PICK r \in Records : work[w].record = {r}
  BY <1>1, <1>2 DEF WorkOK
<1>4. r.id \in Ids
  BY DEF Records
<1>5. /\ PendingOK' /\ RequestEndsOnce' /\ MintedOK' /\ PollOK' /\ AppliedOK'
      /\ TrailTellsWhatHappened' /\ ChatTellsTheTruth'
  BY <1>1, Frames DEF gatewayVars
<1>6. ASSUME /\ work' \in [Workers -> WorkStates]
             /\ \A v \in Workers \ {w} : work'[v] = work[v]
             /\ work'[w].pc \in {"lock", "idle", "claim_observe"}
      PROVE  BoundsOK' /\ MutexOK'
  <2>1. w \in Claimants
    BY <1>1 DEF Claimants
  <2>2. /\ Cardinality(Claimants) \in Nat
        /\ Minting = Cardinality(Claimants) + (IF poll.pc = "observe" THEN 1 ELSE 0)
        /\ nextId + Minting <= MaxIds + 1
        /\ nextObj + Cardinality(Claimants) <= clicks + 1 /\ clicks \in Nat
    BY RoomToMint DEF BridgeInv, BoundsOK, TypeOK
  <2>3. Cardinality(Claimants') \in {Cardinality(Claimants), Cardinality(Claimants) - 1}
    BY <1>6, <2>1, ClaimantsMove
  <2>4. Minting' = Cardinality(Claimants') + (IF poll.pc = "observe" THEN 1 ELSE 0)
    BY <1>1 DEF Minting, Claimants
  <2>5. BoundsOK'
    BY <1>1, <1>2, <2>2, <2>3, <2>4 DEF BoundsOK
  <2>6. work'[w].pc \notin PhasePcs \cup {"terminal"}
    BY <1>6 DEF PhasePcs
  <2>7. MutexOK'
    BY <1>1, <1>6, <2>6, MutexMove
  <2> QED BY <2>5, <2>7
<1>7. CASE /\ entries[r.id] # None
           /\ work' = [work EXCEPT ![w].pc = "lock", ![w].obj = entries[r.id]]
           /\ UNCHANGED <<entries, terminal>>
  <2> PICK x : x = [work[w] EXCEPT !.pc = "lock", !.obj = entries[r.id]]
    OBVIOUS
  <2>1. x \in WorkStates /\ x.pc = "lock" /\ x.obj = entries[r.id] /\ x.record = {r}
    BY <1>2, <1>3, <1>4 DEF WorkStates, WorkPcs
  <2>2. work' = [work EXCEPT ![w] = x]
    BY <1>7
  <2>3. /\ work' \in [Workers -> WorkStates] /\ work'[w] = x
        /\ \A v \in Workers \ {w} : work'[v] = work[v]
    BY <1>2, <2>1, <2>2, MoveOne
  <2>4. entries[r.id] \in Objs /\ entries[r.id] < nextObj
    BY <1>2, <1>4, <1>7 DEF RegistryOK
  <2>5. WorkOK(w)'
    <3>1. (work[w].pc \in PhasePcs \cup {"lock", "terminal"} =>
             work[w].obj \in Objs /\ work[w].obj < nextObj)'
      BY <1>1, <2>1, <2>3, <2>4
    <3>2. work'[w].pc \notin PhasePcs \cup {"terminal", "claim_observe", "commit"}
      BY <2>1, <2>3 DEF PhasePcs
    <3> QED BY <2>1, <2>3, <3>1, <3>2 DEF WorkOK
  <2>6. \A v \in Workers \ {w} : WorkOK(v)'
    <3>1. \A v \in Workers : work[v].pc = "terminal" =>
              \A q \in work[v].record :
                  \A k \in 1 .. Len(terminal) : terminal[k] # q.id
      BY DEF BridgeInv, WorkOK, Finished
    <3> QED BY <1>1, <1>7, <2>3, <3>1, OthersKeep
  <2>7. BoundsOK' /\ MutexOK'
    BY <1>6, <2>1, <2>3
  <2>8. ProgOK' /\ RegistryOK'
    BY <1>1, <1>7, Frames
  <2>9. TypeOK'
    BY <1>1, <1>7, <2>3 DEF BridgeInv, TypeOK, WorkStates
  <2> QED BY <1>5, <2>3, <2>5, <2>6, <2>7, <2>8, <2>9 DEF BridgeInv
<1>8. CASE /\ entries[r.id] = None /\ MakeRoom
           /\ IF Drops = {} THEN Return(w)
              ELSE work' = [work EXCEPT ![w].pc = "claim_observe",
                                        ![w].sess = session,
                                        ![w].req = rt[session]]
  <2>1. PICK k \in 0 .. Len(terminal) :
           /\ entries' = WithoutOldest(k)
           /\ terminal' = SubSeq(terminal, k + 1, Len(terminal))
           /\ Drops # {} => Size(entries') < Capacity
    BY <1>8, RoomMade
  <2>2. PICK D \in SUBSET Ids : D = {i \in Ids : \E j \in 1 .. k : terminal[j] = i}
    OBVIOUS
  <2>3. entries' = [i \in Ids |-> IF i \in D THEN None ELSE entries[i]]
    BY <2>1, <2>2 DEF WithoutOldest
  <2>4. Len(terminal) \in Nat /\ k \in Nat /\ k <= Len(terminal)
    BY <1>2
  <2>5. \A i \in D : \E j \in 1 .. Len(terminal) : terminal[j] = i
    BY <2>2, <2>4
  <2>6. \A i \in D : entries[i] # None /\ \E x \in prog[entries[i]] : x.chat_updated
    BY <1>2, <2>5 DEF RegistryOK
  <2>7. /\ entries' \in [Ids -> Objs \cup {None}] /\ ProgOK'
        /\ Size(entries') <= Capacity
        /\ \A i \in Ids : entries'[i] # None =>
             entries'[i] < nextObj /\ \E p \in prog[entries'[i]] : p.record.id = i
    BY <1>1, <2>3, <2>6, DropKeeps
  <2>8. /\ terminal' \in Seq(Ids) /\ Len(terminal') = Len(terminal) - k
        /\ \A j \in 1 .. Len(terminal') :
             /\ terminal'[j] = terminal[k + j] /\ k + j \in 1 .. Len(terminal)
             /\ k + j \notin 1 .. k
    <3>1. Len(terminal') = Len(terminal) - k
      BY <1>2, <2>1, <2>4
    <3>2. \A j \in 1 .. Len(terminal) - k :
             terminal'[j] = terminal[k + j] /\ k + j \in 1 .. Len(terminal) /\ k + j \notin 1 .. k
      BY <1>2, <2>1, <2>4
    <3>3. terminal' \in Seq(Ids)
      BY <1>2, <2>1, <2>4
    <3> QED BY <3>1, <3>2, <3>3
  <2>9. ASSUME NEW j \in 1 .. Len(terminal')
        PROVE  terminal'[j] \in Ids /\ terminal'[j] \notin D
    <3>1. \A m \in 1 .. k : m \in 1 .. Len(terminal)
      BY <2>4
    <3>2. terminal[k + j] \in Ids /\ \A m \in 1 .. k : terminal[m] # terminal[k + j]
      BY <1>2, <2>8, <3>1 DEF RegistryOK
    <3> QED BY <2>2, <2>8, <3>2
  <2>10. RegistryOK'
    <3>1. \A i, j \in 1 .. Len(terminal') : terminal'[i] = terminal'[j] => i = j
      <4>1. ASSUME NEW i \in 1 .. Len(terminal'), NEW j \in 1 .. Len(terminal'),
                   terminal'[i] = terminal'[j]
            PROVE  i = j
        <5>1. k + i = k + j
          BY <1>2, <2>8, <4>1 DEF RegistryOK
        <5>2. i \in Nat /\ j \in Nat
          OBVIOUS
        <5> QED BY <2>4, <5>1, <5>2
      <4> QED BY <4>1
    <3>2. ASSUME NEW j \in 1 .. Len(terminal')
          PROVE  /\ entries'[terminal'[j]] # None
                 /\ \E p \in prog[entries'[terminal'[j]]] : p.chat_updated
      <4>1. entries'[terminal'[j]] = entries[terminal[k + j]]
        BY <2>3, <2>8, <2>9
      <4> QED BY <1>2, <2>8, <4>1 DEF RegistryOK
    <3> QED BY <1>1, <2>7, <3>1, <3>2 DEF RegistryOK
  <2>11. ASSUME NEW v \in Workers \ {w}, work[v].pc = "terminal", NEW q \in work[v].record
         PROVE  /\ entries'[q.id] = entries[q.id]
                /\ \A j \in 1 .. Len(terminal') : terminal'[j] # q.id
    <3>1. q.id \in Ids
      BY <1>2 DEF WorkStates, Records
    <3>2. \A j \in 1 .. Len(terminal) : terminal[j] # q.id
      BY <2>11 DEF BridgeInv, WorkOK, Finished
    <3>3. q.id \notin D
      BY <2>5, <3>2
    <3> QED BY <2>3, <2>8, <3>1, <3>2, <3>3
  <2>12. ASSUME \A v \in Workers \ {w} : work'[v] = work[v]
         PROVE  \A v \in Workers \ {w} : WorkOK(v)'
    BY <1>1, <2>11, <2>12, OthersKeep
  <2>13. ASSUME /\ work' \in [Workers -> WorkStates]
                /\ \A v \in Workers \ {w} : work'[v] = work[v]
                /\ work'[w].pc \in {"idle", "claim_observe"}
                /\ WorkOK(w)'
         PROVE  BridgeInv'
    <3>1. BoundsOK' /\ MutexOK'
      BY <1>6, <2>13
    <3>2. TypeOK'
      BY <1>1, <2>7, <2>8, <2>13 DEF BridgeInv, TypeOK, WorkStates
    <3>3. \A v \in Workers : WorkOK(v)'
      BY <2>12, <2>13
    <3> QED BY <1>5, <2>7, <2>10, <3>1, <3>2, <3>3 DEF BridgeInv
  <2>14. CASE Drops = {}
    BY <1>8, <2>13, <2>14, IdleIsFine
  <2>15. CASE Drops # {}
    <3> PICK x : x = [work[w] EXCEPT !.pc = "claim_observe", !.sess = session,
                                     !.req = rt[session]]
      OBVIOUS
    <3>1. x \in WorkStates /\ x.pc = "claim_observe" /\ x.record = {r}
      BY <1>2, <1>3 DEF WorkStates, WorkPcs
    <3>2. work' = [work EXCEPT ![w] = x]
      BY <1>8, <2>15
    <3>3. /\ work' \in [Workers -> WorkStates] /\ work'[w] = x
          /\ \A v \in Workers \ {w} : work'[v] = work[v]
      BY <1>2, <3>1, <3>2, MoveOne
    <3>4. Size(entries') < Capacity /\ entries'[r.id] = None
      BY <1>4, <1>8, <2>1, <2>3, <2>15
    <3>5. WorkOK(w)'
      BY <3>1, <3>3, <3>4 DEF WorkOK, PhasePcs
    <3> QED BY <2>13, <3>1, <3>3, <3>5
  <2> QED BY <2>14, <2>15
<1> QED BY <1>3, <1>7, <1>8 DEF Claim

(* The first click owns the request: a fresh object under a fresh entry.   *)
LEMMA ClaimObserveKeeps ==
    ASSUME BridgeInv, NEW w \in Workers, ClaimObserve(w)
    PROVE  BridgeInv'
<1>1. /\ work[w].pc = "claim_observe" /\ nextObj' = nextObj + 1
      /\ ObservePending(work[w].sess, work[w].req)
      /\ UNCHANGED <<session, rt, nextReq, ends, tokens, terminal, trail, poll,
                     clicks, posts, chat, applied>>
  BY DEF ClaimObserve, At, sessionVars, chatVars
<1>2. /\ TypeOK /\ work \in [Workers -> WorkStates]
      /\ work[w].sess \in Sessions /\ work[w].req \in Reqs \cup {None}
      /\ entries \in [Ids -> Objs \cup {None}] /\ terminal \in Seq(Ids)
      /\ prog \in [Objs -> SUBSET Progress]
      /\ nextObj \in Nat /\ nextId \in Nat /\ MaxIds \in Nat /\ MaxClicks \in Nat
      /\ Capacity \in Nat
      /\ clicks \in Nat
      /\ WorkOK(w) /\ RegistryOK /\ ProgOK /\ AppliedOK
  BY BridgeAssumption DEF BridgeInv, TypeOK, WorkStates
<1>3. w \in Claimants /\ nextId \in Ids /\ nextObj \in Objs
  BY <1>1, RoomToMint DEF Claimants
<1>4. /\ minted' \subseteq Minted /\ nextId' \in {nextId, nextId + 1}
      /\ shown' \in [Ids -> Reqs \cup {None}]
      /\ \A i \in Ids : i < nextId => shown'[i] = shown[i]
      /\ MintedOK'
  BY <1>1, <1>2, <1>3, GatewayStep
<1>5. nextId' \in 1 .. MaxIds + 1 /\ nextId <= nextId' /\ nextId' \in Nat
      /\ nextObj' \in 1 .. MaxClicks + 1 /\ nextObj <= nextObj' /\ nextObj' \in Nat
  BY <1>1, <1>2, <1>3, <1>4 DEF Ids, Objs
<1>6. PICK r \in Records : /\ work[w].record = {r} /\ r.id \in Ids
                           /\ entries[r.id] = None /\ Size(entries) < Capacity
  BY <1>1, <1>2 DEF WorkOK, Records
<1> PICK n : n = [record |-> r, gateway_applied |-> FALSE, audited |-> FALSE,
                  chat_updated |-> FALSE]
  OBVIOUS
<1>7. /\ n \in Progress /\ n.record = r /\ ~ n.gateway_applied /\ ~ n.audited
      /\ ~ n.chat_updated
  BY DEF Progress
<1>8. entries' = [entries EXCEPT ![r.id] = nextObj] /\ prog' = [prog EXCEPT ![nextObj] = {n}]
  BY <1>6 DEF ClaimObserve
<1>9. /\ entries' \in [Ids -> Objs \cup {None}] /\ entries'[r.id] = nextObj
      /\ \A i \in Ids \ {r.id} : entries'[i] = entries[i]
  BY <1>2, <1>3, <1>6, <1>8
<1>10. /\ prog' \in [Objs -> SUBSET Progress] /\ prog'[nextObj] = {n}
       /\ \A o \in Objs \ {nextObj} : prog'[o] = prog[o]
       /\ \A o \in Objs : o < nextObj => o # nextObj
       /\ prog[nextObj] = {}
  BY <1>2, <1>3, <1>7, <1>8 DEF ProgOK, Objs
<1> PICK x : x = [work[w] EXCEPT !.pc = "lock", !.obj = nextObj]
  OBVIOUS
<1>11. x \in WorkStates /\ x.pc = "lock" /\ x.obj = nextObj /\ x.record = {r}
  BY <1>2, <1>3, <1>6 DEF WorkStates, WorkPcs
<1>12. work' = [work EXCEPT ![w] = x]
  BY DEF ClaimObserve
<1>13. /\ work' \in [Workers -> WorkStates] /\ work'[w] = x
       /\ \A v \in Workers \ {w} : work'[v] = work[v]
  BY <1>2, <1>11, <1>12, MoveOne
<1>14. TypeOK'
  BY <1>1, <1>4, <1>5, <1>9, <1>10, <1>13 DEF BridgeInv, TypeOK, WorkStates
<1>15. BoundsOK'
  <2>1. Cardinality(Claimants') = Cardinality(Claimants) - 1
    BY <1>3, <1>11, <1>13, ClaimantsMove
  <2>2. /\ Cardinality(Claimants) \in Nat
        /\ Minting = Cardinality(Claimants) + (IF poll.pc = "observe" THEN 1 ELSE 0)
        /\ nextId + Minting <= MaxIds + 1
        /\ nextObj + Cardinality(Claimants) <= clicks + 1
    BY RoomToMint DEF BridgeInv, BoundsOK
  <2>3. Minting' = Cardinality(Claimants') + (IF poll.pc = "observe" THEN 1 ELSE 0)
    BY <1>1 DEF Minting, Claimants
  <2>4. nextObj' + Cardinality(Claimants') <= clicks' + 1
    BY <1>1, <1>2, <2>1, <2>2
  <2>5. nextId' + Minting' <= MaxIds + 1
    <3> PICK c, d, o, i, j :
           /\ c = Cardinality(Claimants) /\ d = Cardinality(Claimants')
           /\ o = (IF poll.pc = "observe" THEN 1 ELSE 0) /\ i = nextId /\ j = nextId'
      OBVIOUS
    <3>1. /\ c \in Nat /\ d = c - 1 /\ o \in {0, 1} /\ i \in Nat /\ MaxIds \in Nat
          /\ j \in {i, i + 1} /\ i + (c + o) <= MaxIds + 1
      BY <1>2, <1>4, <2>1, <2>2
    <3>2. j + (d + o) <= MaxIds + 1
      BY ONLY <3>1
    <3> QED BY <2>3, <3>2
  <2>6. (Cardinality(Claimants))' = Cardinality(Claimants')
    OBVIOUS
  <2> QED BY <2>4, <2>5, <2>6 DEF BoundsOK
<1>16. /\ PendingOK' /\ RequestEndsOnce' /\ PollOK' /\ TrailTellsWhatHappened'
       /\ ChatTellsTheTruth'
  BY <1>1, Frames
<1>17. MutexOK'
  BY <1>11, <1>13, MutexStays DEF PhasePcs
<1>18. WorkOK(w)'
  <2>1. nextObj < nextObj'
    BY <1>1, <1>2
  <2> QED BY <1>3, <1>11, <1>13, <2>1 DEF WorkOK, PhasePcs
<1>19. ASSUME NEW v \in Workers, v # w PROVE WorkOK(v)'
  <2>1. work'[v] = work[v] /\ work[v].pc # "claim_observe" /\ WorkOK(v)
    BY <1>1, <1>13, <1>19 DEF BridgeInv, MutexOK
  <2>2. work[v].pc \in PhasePcs \cup {"terminal"} =>
            prog'[work[v].obj] = prog[work[v].obj]
    BY <1>10, <2>1 DEF WorkOK
  <2>3. ASSUME work[v].pc = "terminal", NEW q \in work[v].record
        PROVE  /\ entries'[q.id] = entries[q.id]
               /\ \A k \in 1 .. Len(terminal)' : terminal'[k] # q.id
    <3>1. q.id \in Ids
      BY <1>2 DEF WorkStates, Records
    <3>2. entries[q.id] = work[v].obj /\ work[v].obj \in Objs
          /\ \A k \in 1 .. Len(terminal) : terminal[k] # q.id
      BY <2>1, <2>3 DEF WorkOK, Finished
    <3>3. q.id # r.id
      BY <1>6, <3>2 DEF Objs, None
    <3> QED BY <1>1, <1>9, <3>1, <3>2, <3>3
  <2> QED BY <1>4, <1>5, <2>1, <2>2, <2>3, WorkFrame
<1>20. ProgOK'
  <2>1. ASSUME NEW o \in Objs, NEW p \in prog'[o] PROVE ProgressOK(o, p)'
    <3>1. CASE o = nextObj
      <4>1. p = n
        BY <1>10, <2>1, <3>1
      <4> QED BY <1>7, <1>9, <3>1, <4>1 DEF ProgressOK
    <3>2. CASE o # nextObj
      <4>1. p \in prog[o] /\ ProgressOK(o, p) /\ p \in Progress /\ p.record.id \in Ids
        BY <1>2, <1>10, <2>1, <3>2 DEF ProgOK, Progress, Records
      <4>2. ~ p.chat_updated => entries'[p.record.id] = o
        BY <1>6, <1>9, <4>1 DEF ProgressOK, Objs, None
      <4> QED BY <1>1, <4>1, <4>2 DEF ProgressOK
    <3> QED BY <3>1, <3>2
  <2>2. ASSUME NEW o \in Objs
        PROVE  (\A p, q \in prog'[o] : p = q) /\ (prog'[o] # {} <=> o < nextObj')
    <3>1. CASE o = nextObj
      <4>1. prog'[o] = {n} /\ o < nextObj'
        BY <1>1, <1>2, <1>10, <3>1
      <4> QED BY <4>1
    <3>2. CASE o # nextObj
      <4>1. prog'[o] = prog[o] /\ (o < nextObj' <=> o < nextObj)
        BY <1>1, <1>2, <1>10, <3>2 DEF Objs
      <4> QED BY <1>2, <4>1 DEF ProgOK
    <3> QED BY <3>1, <3>2
  <2> QED BY <2>1, <2>2 DEF ProgOK
<1>21. RegistryOK'
  <2>1. Size(entries') <= Capacity
    <3>1. Size(entries') <= Size(entries) + 1 /\ Size(entries) \in Nat /\ Size(entries') \in Nat
      BY <1>6, <1>9, SizeFacts
    <3> QED BY <1>2, <1>6, <3>1
  <2>2. ASSUME NEW i \in Ids, entries'[i] # None
        PROVE  entries'[i] < nextObj' /\ \E p \in prog'[entries'[i]] : p.record.id = i
    <3>1. CASE i = r.id
      BY <1>1, <1>2, <1>7, <1>9, <1>10, <3>1
    <3>2. CASE i # r.id
      <4>1. /\ entries'[i] = entries[i] /\ entries[i] \in Objs /\ entries[i] < nextObj
            /\ \E p \in prog[entries[i]] : p.record.id = i
        BY <1>2, <1>9, <2>2, <3>2 DEF RegistryOK
      <4>2. entries[i] \in Nat /\ entries[i] < nextObj'
        BY <1>1, <1>2, <4>1 DEF Objs
      <4> QED BY <1>10, <4>1, <4>2
    <3> QED BY <3>1, <3>2
  <2>3. ASSUME NEW k \in 1 .. Len(terminal)
        PROVE  /\ entries'[terminal[k]] # None
               /\ \E p \in prog'[entries'[terminal[k]]] : p.chat_updated
    <3>1. /\ terminal[k] \in Ids /\ entries[terminal[k]] # None
          /\ \E p \in prog[entries[terminal[k]]] : p.chat_updated
      BY <1>2 DEF RegistryOK
    <3>2. /\ entries'[terminal[k]] = entries[terminal[k]]
          /\ entries[terminal[k]] \in Objs /\ entries[terminal[k]] < nextObj
      BY <1>2, <1>6, <1>9, <3>1 DEF RegistryOK
    <3> QED BY <1>10, <3>1, <3>2
  <2> QED BY <1>1, <1>2, <2>1, <2>2, <2>3 DEF RegistryOK
<1>22. AppliedOK'
  <2>1. ASSUME NEW a \in applied
        PROVE  /\ a.record.id < nextId' /\ shown'[a.record.id] = a.req
               /\ \E o \in Objs : \E p \in prog'[o] : p.record = a.record /\ p.gateway_applied
    <3>1. a.record.id \in Ids
      BY DEF BridgeInv, TypeOK, Records
    <3>2. a.record.id \in Nat
      BY <3>1 DEF Ids
    <3>3. /\ a.record.id < nextId /\ shown[a.record.id] = a.req
      BY <1>2 DEF AppliedOK
    <3>4. PICK o \in Objs : \E p \in prog[o] : p.record = a.record /\ p.gateway_applied
      BY <1>2 DEF AppliedOK
    <3>5. prog'[o] = prog[o]
      BY <1>10, <3>4
    <3> QED BY <1>2, <1>4, <1>5, <3>1, <3>2, <3>3, <3>4, <3>5
  <2> QED BY <1>1, <2>1 DEF AppliedOK
<1> QED BY <1>4, <1>14, <1>15, <1>16, <1>17, <1>18, <1>19, <1>20, <1>21, <1>22 DEF BridgeInv

(* mark_terminal: a finished id joins terminal_order, and the oldest       *)
(* leaves with its entry when the order is full.                           *)
LEMMA TerminalKeeps ==
    ASSUME BridgeInv, NEW w \in Workers, MarkTerminal(w)
    PROVE  BridgeInv'
<1>1. /\ work[w].pc = "terminal" /\ RegistryFree(w) /\ Return(w)
      /\ UNCHANGED <<session, rt, nextReq, ends, minted, nextId, shown, tokens,
                     nextObj, prog, trail, poll, clicks, posts, chat, applied>>
  BY DEF MarkTerminal, At, sessionVars, gatewayVars, chatVars
<1>2. /\ entries \in [Ids -> Objs \cup {None}] /\ terminal \in Seq(Ids)
      /\ prog \in [Objs -> SUBSET Progress] /\ work \in [Workers -> WorkStates]
      /\ WorkOK(w) /\ RegistryOK /\ ProgOK /\ Capacity \in Nat \ {0}
      /\ Len(terminal) \in Nat
  BY BridgeAssumption DEF BridgeInv, TypeOK, WorkStates
<1>3. PICK p \in prog[work[w].obj] : Finished(w, p)
  BY <1>1, <1>2 DEF WorkOK
<1>4. PICK r \in Records : work[w].record = {r}
  BY <1>1, <1>2 DEF WorkOK
<1>5. /\ p.record = r /\ p.chat_updated /\ r.id \in Ids
      /\ entries[r.id] = work[w].obj /\ work[w].obj \in Objs
      /\ \A k \in 1 .. Len(terminal) : terminal[k] # r.id
  BY <1>1, <1>2, <1>3, <1>4 DEF Finished, Records, WorkOK
<1> PICK order : order = Append(terminal, r.id)
  OBVIOUS
<1>6. /\ order \in Seq(Ids) /\ Len(order) = Len(terminal) + 1
      /\ order[Len(terminal) + 1] = r.id
      /\ \A k \in 1 .. Len(terminal) : order[k] = terminal[k]
      /\ \A k \in 1 .. Len(order) : k = Len(terminal) + 1 \/ k \in 1 .. Len(terminal)
  BY <1>2, <1>5
<1>7. \A j, k \in 1 .. Len(order) : order[j] = order[k] => j = k
  BY <1>2, <1>5, <1>6 DEF RegistryOK
<1>8. \A k \in 1 .. Len(order) :
         /\ order[k] \in Ids /\ entries[order[k]] # None
         /\ \E x \in prog[entries[order[k]]] : x.chat_updated
  <2>1. entries[r.id] # None /\ \E x \in prog[entries[r.id]] : x.chat_updated
    BY <1>3, <1>5 DEF Objs, None
  <2>2. \A k \in 1 .. Len(terminal) :
           /\ terminal[k] \in Ids /\ entries[terminal[k]] # None
           /\ \E x \in prog[entries[terminal[k]]] : x.chat_updated
    BY <1>2 DEF RegistryOK
  <2> QED BY <1>5, <1>6, <2>1, <2>2
<1>9. /\ work' \in [Workers -> WorkStates]
      /\ \A v \in Workers \ {w} : work'[v] = work[v]
      /\ work'[w].pc = "idle" /\ WorkOK(w)' /\ MutexOK'
  BY <1>1, IdleIsFine
<1>10. BoundsOK'
  <2>1. Claimants' = Claimants
    BY <1>1, <1>9, ClaimantsMove DEF Claimants
  <2> QED BY <1>1, <2>1, BoundsFrame
<1>11. /\ PendingOK' /\ RequestEndsOnce' /\ MintedOK' /\ PollOK' /\ AppliedOK'
       /\ TrailTellsWhatHappened' /\ ChatTellsTheTruth'
  BY <1>1, Frames DEF gatewayVars
<1>12. ASSUME NEW v \in Workers \ {w}, work[v].pc = "terminal", NEW q \in work[v].record
       PROVE  /\ q.id \in Ids /\ q.id # r.id
              /\ \A k \in 1 .. Len(order) : order[k] # q.id
  <2>1. q.id \in Ids
    BY <1>2 DEF WorkStates, Records
  <2>2. entries[q.id] = work[v].obj /\ \A k \in 1 .. Len(terminal) : terminal[k] # q.id
    BY <1>12 DEF BridgeInv, WorkOK, Finished
  <2>3. work[v].obj # work[w].obj
    BY <1>1, <1>12 DEF BridgeInv, MutexOK
  <2> QED BY <1>5, <1>6, <2>1, <2>2, <2>3
<1>13. PICK D \in SUBSET Ids :
         /\ entries' = [i \in Ids |-> IF i \in D THEN None ELSE entries[i]]
         /\ \A i \in D : \E k \in 1 .. Len(order) : order[k] = i
         /\ terminal' \in Seq(Ids)
         /\ \E d \in {0, 1} :
              /\ Len(terminal') = Len(order) - d
              /\ \A k \in 1 .. Len(terminal') :
                   /\ k + d \in 1 .. Len(order)
                   /\ terminal'[k] = order[k + d] /\ terminal'[k] \notin D
  <2>1. CASE Len(order) > Capacity
    <3>1. terminal' = Tail(order) /\ entries' = [entries EXCEPT ![Head(order)] = None]
      BY <1>4, <2>1 DEF MarkTerminal
    <3>2. Head(order) = order[1] /\ 1 \in 1 .. Len(order)
      BY <1>2, <1>6
    <3>3. order[1] \in Ids
      BY <1>8, <3>2
    <3>4. entries' = [i \in Ids |-> IF i \in {order[1]} THEN None ELSE entries[i]]
      BY <1>2, <3>1, <3>2, <3>3
    <3>5. /\ terminal' \in Seq(Ids) /\ Len(terminal') = Len(order) - 1
          /\ \A k \in 1 .. Len(order) - 1 : k + 1 \in 1 .. Len(order) /\ terminal'[k] = order[k + 1]
      BY <1>2, <1>6, <3>1
    <3>6. \A k \in 1 .. Len(order) - 1 : order[k + 1] # order[1]
      BY <1>7, <3>2, <3>5
    <3>7. /\ {order[1]} \in SUBSET Ids
          /\ \A i \in {order[1]} : \E k \in 1 .. Len(order) : order[k] = i
      BY <3>2, <3>3
    <3>8. \E d \in {0, 1} :
              /\ Len(terminal') = Len(order) - d
              /\ \A k \in 1 .. Len(terminal') :
                   /\ k + d \in 1 .. Len(order)
                   /\ terminal'[k] = order[k + d] /\ terminal'[k] \notin {order[1]}
      BY <3>5, <3>6
    <3> QED BY <3>4, <3>5, <3>7, <3>8
  <2>2. CASE ~ (Len(order) > Capacity)
    <3>1. terminal' = order /\ entries' = entries
      BY <1>4, <2>2 DEF MarkTerminal
    <3>2. entries' = [i \in Ids |-> IF i \in {} THEN None ELSE entries[i]]
      BY <1>2, <3>1
    <3>3. Len(terminal') = Len(order) - 0 /\ \A k \in 1 .. Len(terminal') :
                   /\ k + 0 \in 1 .. Len(order)
                   /\ terminal'[k] = order[k + 0] /\ terminal'[k] \notin {}
      BY <1>2, <1>6, <3>1
    <3>4. \E d \in {0, 1} :
              /\ Len(terminal') = Len(order) - d
              /\ \A k \in 1 .. Len(terminal') :
                   /\ k + d \in 1 .. Len(order)
                   /\ terminal'[k] = order[k + d] /\ terminal'[k] \notin {}
      BY <3>3
    <3>5. {} \in SUBSET Ids /\ terminal' \in Seq(Ids)
          /\ \A i \in {} : \E k \in 1 .. Len(order) : order[k] = i
      BY <1>6, <3>1
    <3> QED BY <3>2, <3>4, <3>5, Zenon
  <2> QED BY <2>1, <2>2
<1>14. PICK d \in {0, 1} :
              /\ Len(terminal') = Len(order) - d
              /\ \A k \in 1 .. Len(terminal') :
                   /\ k + d \in 1 .. Len(order)
                   /\ terminal'[k] = order[k + d] /\ terminal'[k] \notin D
  BY <1>13
<1>15. /\ entries' \in [Ids -> Objs \cup {None}] /\ ProgOK'
       /\ Size(entries') <= Capacity
       /\ \A i \in Ids : entries'[i] # None =>
            entries'[i] < nextObj /\ \E x \in prog[entries'[i]] : x.record.id = i
  <2>1. \A i \in D : entries[i] # None /\ \E x \in prog[entries[i]] : x.chat_updated
    BY <1>8, <1>13
  <2> QED BY <1>1, <1>13, <2>1, DropKeeps
<1>16. RegistryOK'
  <2>1. \A i, j \in 1 .. Len(terminal') : terminal'[i] = terminal'[j] => i = j
    <3>1. ASSUME NEW i \in 1 .. Len(terminal'), NEW j \in 1 .. Len(terminal'),
                 terminal'[i] = terminal'[j]
          PROVE  i = j
      <4>1. i + d = j + d
        BY <1>7, <1>14, <3>1
      <4> QED BY <4>1
    <3> QED BY <3>1
  <2>2. ASSUME NEW j \in 1 .. Len(terminal')
        PROVE  /\ entries'[terminal'[j]] # None
               /\ \E x \in prog[entries'[terminal'[j]]] : x.chat_updated
    <3>1. j + d \in 1 .. Len(order) /\ terminal'[j] = order[j + d] /\ terminal'[j] \notin D
      BY <1>14
    <3>2. /\ order[j + d] \in Ids /\ entries[order[j + d]] # None
          /\ \E x \in prog[entries[order[j + d]]] : x.chat_updated
      BY <1>8, <3>1
    <3>3. entries'[terminal'[j]] = entries[order[j + d]]
      BY <1>13, <3>1, <3>2
    <3> QED BY <3>2, <3>3
  <2> QED BY <1>1, <1>15, <2>1, <2>2 DEF RegistryOK
<1>17. \A v \in Workers \ {w} : WorkOK(v)'
  <2>1. ASSUME NEW v \in Workers \ {w}, work[v].pc = "terminal", NEW q \in work[v].record
        PROVE  /\ entries'[q.id] = entries[q.id]
               /\ \A k \in 1 .. Len(terminal') : terminal'[k] # q.id
    <3>1. q.id \in Ids /\ \A k \in 1 .. Len(order) : order[k] # q.id
      BY <1>12, <2>1
    <3>2. q.id \notin D
      BY <1>13, <3>1
    <3>3. entries'[q.id] = entries[q.id]
      BY <1>13, <3>1, <3>2
    <3>4. \A k \in 1 .. Len(terminal') : terminal'[k] # q.id
      BY <1>14, <3>1
    <3> QED BY <3>3, <3>4
  <2> QED BY <1>1, <1>9, <2>1, OthersKeep
<1>18. TypeOK'
  BY <1>1, <1>9, <1>13, <1>15 DEF BridgeInv, TypeOK, WorkStates
<1>19. \A v \in Workers : WorkOK(v)'
  BY <1>9, <1>17
<1> QED BY <1>9, <1>10, <1>11, <1>15, <1>16, <1>18, <1>19 DEF BridgeInv

(* One step of the bridge keeps the invariant.                             *)
LEMMA BridgeStep ==
    ASSUME BridgeInv, [Next]_vars
    PROVE  BridgeInv'
<1>1. CASE Runtime
  BY <1>1, RuntimeKeeps
<1>2. CASE PollStep
  BY <1>2, PollKeeps
<1>3. ASSUME NEW w \in Workers, Click(w) \/ ResolveStep(w)
      PROVE  BridgeInv'
  BY <1>3, ClickKeeps, ClaimKeeps, ClaimObserveKeeps, LockKeeps, CallsKeep, CommitKeeps,
     AuditKeeps, TokenKeeps, TerminalKeeps DEF ResolveStep
<1>4. CASE UNCHANGED vars
  <2>1. UNCHANGED <<session, rt, nextReq, ends, minted, nextId, shown, tokens, entries,
                    terminal, nextObj, prog, trail, poll, work, clicks, posts, chat, applied>>
    BY <1>4 DEF vars, sessionVars, gatewayVars, registryVars, chatVars
  <2>2. nextId \in Nat
    BY DEF BridgeInv, TypeOK
  <2>3. (\A w \in Workers : WorkOK(w))' /\ MutexOK' /\ Claimants' = Claimants
    BY <2>1, <2>2, AllWorkFrame
  <2>4. BoundsOK'
    BY <2>1, <2>3, BoundsFrame
  <2>5. /\ PendingOK' /\ RequestEndsOnce' /\ MintedOK' /\ PollOK' /\ RegistryOK'
        /\ ProgOK' /\ AppliedOK' /\ TrailTellsWhatHappened' /\ ChatTellsTheTruth'
    BY <2>1, Frames DEF gatewayVars
  <2>6. TypeOK'
    BY <2>1 DEF BridgeInv, TypeOK
  <2> QED BY <2>3, <2>4, <2>5, <2>6 DEF BridgeInv
<1> QED BY <1>1, <1>2, <1>3, <1>4 DEF Next

(* The bridge stays in its inductive invariant: the mutexes exclude, the   *)
(* progress objects tell what has happened, the registry knows what is not *)
(* finished, and nothing is minted or claimed beyond what was counted.     *)
THEOREM BridgeInvariant == Spec => []BridgeInv
<1>1. Init => BridgeInv
  BY BridgeInit
<1>2. BridgeInv /\ [Next]_vars => BridgeInv'
  BY BridgeStep
<1> QED BY <1>1, <1>2, PTL DEF Spec

(* Every variable of the bridge keeps its type.                            *)
THEOREM BridgeTypes == Spec => []TypeOK
<1>1. BridgeInv => TypeOK
  BY DEF BridgeInv
<1> QED BY <1>1, BridgeInvariant, PTL

(* A click decides the request its prompt showed, whatever replaced it,    *)
(* and whatever session the provider has moved to meanwhile.               *)
THEOREM ClicksDecideWhatWasShown == Spec => []AppliedToWhatWasShown
<1>1. BridgeInv => AppliedToWhatWasShown
  BY DEF BridgeInv, AppliedOK, AppliedToWhatWasShown
<1> QED BY <1>1, BridgeInvariant, PTL

(* Clicks, repeats, navigation, replacement and restarts together end a    *)
(* request at most once.                                                   *)
THEOREM RequestsEndOnce == Spec => []RequestEndsOnce
<1>1. BridgeInv => RequestEndsOnce
  BY DEF BridgeInv
<1> QED BY <1>1, BridgeInvariant, PTL

(* The bridge records what took effect, once per id, and nothing else.     *)
THEOREM TrailIsTrue == Spec => []TrailTellsWhatHappened
<1>1. BridgeInv => TrailTellsWhatHappened
  BY DEF BridgeInv
<1> QED BY <1>1, BridgeInvariant, PTL

(* A chat message that announces a decision announces a recorded one.      *)
THEOREM ChatIsTrue == Spec => []ChatTellsTheTruth
<1>1. BridgeInv => ChatTellsTheTruth
  BY DEF BridgeInv
<1> QED BY <1>1, BridgeInvariant, PTL

(* The registry stays within its capacity and never evicts a decision that *)
(* took effect and is not yet recorded.                                    *)
THEOREM RegistryIsKept == Spec => []RegistryKeepsUnfinished
<1>1. ASSUME BridgeInv PROVE RegistryKeepsUnfinished
  <2>1. Size(entries) <= Capacity
    BY <1>1 DEF BridgeInv, RegistryOK
  <2>2. ASSUME NEW a \in applied
        PROVE  \/ \E k \in 1 .. Len(trail) : trail[k] = a.record
               \/ /\ entries[a.record.id] # None
                  /\ \E p \in prog[entries[a.record.id]] : p.record = a.record
    <3>1. PICK o \in Objs : \E p \in prog[o] : p.record = a.record
      BY <1>1 DEF BridgeInv, AppliedOK
    <3>2. PICK p \in prog[o] : p.record = a.record
      BY <3>1
    <3>3. ProgressOK(o, p)
      BY <1>1 DEF BridgeInv, ProgOK
    <3>4. CASE p.audited
      BY <3>2, <3>3, <3>4 DEF ProgressOK
    <3>5. CASE ~ p.audited
      <4>1. entries[a.record.id] = o
        BY <3>2, <3>3, <3>5 DEF ProgressOK
      <4>2. o # None
        BY DEF Objs, None
      <4> QED BY <3>2, <4>1, <4>2
    <3> QED BY <3>4, <3>5
  <2> QED BY <2>1, <2>2 DEF RegistryKeepsUnfinished
<1>2. BridgeInv => RegistryKeepsUnfinished
  BY <1>1
<1> QED BY <1>2, BridgeInvariant, PTL
=============================================================================
