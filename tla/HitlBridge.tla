----------------------------- MODULE HitlBridge -----------------------------
(***************************************************************************)
(* The HITL bridge: one polling thread posts a chat prompt for the pending *)
(* approval request, and the HTTP workers resolve the clicks of reviewers  *)
(* in resumable phases (claim, gateway, audit, chat).                      *)
(*                                                                         *)
(* The runtime's side is what PageSession promises: at most one pending    *)
(* request per session, each with a fresh identity, decided only if it is  *)
(* still the pending one.  Chat is external: it may lose an answer after   *)
(* having acted on the call, and delivers clicks late, twice or never.     *)
(***************************************************************************)
EXTENDS Naturals, Sequences, FiniteSets

CONSTANTS
    Workers,      \* blocking threads of the HTTP server
    Reviewers,    \* chat users
    Capacity,     \* MAX_RESOLUTION_ENTRIES (1024 in the code)
    MaxReqs,      \* bound: requests the agent publishes
    MaxSessions,  \* bound: sessions, i.e. browser restarts plus one
    MaxIds,       \* bound: ids the gateway mints
    MaxClicks,    \* bound: clicks delivered
    MaxPosts      \* bound: prompts posted for one id

ASSUME BridgeAssumption ==
    /\ IsFiniteSet(Workers)
    /\ Capacity \in Nat \ {0}
    /\ MaxReqs \in Nat
    /\ MaxSessions \in Nat \ {0}
    /\ MaxIds \in Nat
    /\ MaxClicks \in Nat
    /\ MaxPosts \in Nat

Decisions == {"approved", "rejected"}
Reqs == 1 .. MaxReqs
Ids == 1 .. MaxIds
Objs == 1 .. MaxClicks       \* every click claims at most one entry
Sessions == 1 .. MaxSessions
None == 0

(* RequestKey with the id minted for it *)
Minted == [sess : Sessions, req : Reqs, id : Ids]

(* ResolutionProgress; the owner's decision is also the AuditRecord.       *)
Records == [id : Ids, decision : Decisions, by : Reviewers]
Progress == [record : Records, gateway_applied : BOOLEAN, audited : BOOLEAN,
             chat_updated : BOOLEAN]

VARIABLES
    session,   \* the PageSession the provider returns
    rt,        \* per session, the pending request of the runtime
    nextReq,   \* the next request identity
    minted,    \* MintedIdCache.slot, a set of at most one
    nextId,    \* the next minted id
    tokens,    \* Bridge.tokens
    entries,   \* ResolutionRegistry.entries: id -> progress object
    terminal,  \* ResolutionRegistry.terminal_order
    prog,      \* the progress objects
    nextObj,   \* the next progress object
    trail,     \* records in the BridgeAuditTrail
    poll,      \* the polling thread
    work,      \* the workers
    clicks,    \* clicks delivered so far
    shown,     \* auxiliary: the request each id was minted for
    posts,     \* prompts posted in chat, per id
    chat,      \* what the chat message says, per id
    applied,   \* auxiliary: decisions that reached a session
    ends       \* auxiliary: how often each request ended, however it did

sessionVars == <<session, rt, nextReq, ends>>
gatewayVars == <<minted, nextId, shown>>
registryVars == <<entries, terminal, nextObj>>
chatVars == <<posts, chat>>
vars == <<sessionVars, gatewayVars, tokens, registryVars, prog, trail, poll,
          work, clicks, chatVars, applied>>

IdlePoll == [pc |-> "idle", sess |-> 1, req |-> None, id |-> None]

IdleWork == [pc |-> "idle", record |-> {}, obj |-> None, sess |-> 1,
             req |-> None]

Init ==
    /\ session = 1
    /\ rt = [s \in Sessions |-> None]
    /\ nextReq = 1
    /\ minted = {}
    /\ nextId = 1
    /\ tokens = [i \in Ids |-> "none"]
    /\ entries = [i \in Ids |-> None]
    /\ terminal = <<>>
    /\ prog = [o \in Objs |-> {}]
    /\ nextObj = 1
    /\ trail = <<>>
    /\ poll = IdlePoll
    /\ work = [w \in Workers |-> IdleWork]
    /\ clicks = 0
    /\ shown = [i \in Ids |-> None]
    /\ posts = [i \in Ids |-> 0]
    /\ chat = [i \in Ids |-> "none"]
    /\ applied = {}
    /\ ends = [r \in Reqs |-> 0]

-----------------------------------------------------------------------------
(* The runtime: PageSession and the provider that follows a restart.       *)

(* The pending request r, if any, is over.                                 *)
Ended(r) == [q \in Reqs |-> IF q = r THEN ends[q] + 1 ELSE ends[q]]

(* A new request replaces the pending one.                                 *)
RequestPublished ==
    /\ nextReq <= MaxReqs
    /\ rt' = [rt EXCEPT ![session] = nextReq]
    /\ ends' = Ended(rt[session])
    /\ nextReq' = nextReq + 1
    /\ UNCHANGED <<session, gatewayVars, tokens, registryVars, prog, trail,
                   poll, work, clicks, chatVars, applied>>

(* Navigation, new rules or an in-band decision empty the slot.            *)
RequestGone ==
    /\ rt[session] # None
    /\ rt' = [rt EXCEPT ![session] = None]
    /\ ends' = Ended(rt[session])
    /\ UNCHANGED <<session, nextReq, gatewayVars, tokens, registryVars, prog,
                   trail, poll, work, clicks, chatVars, applied>>

SessionSwapped ==
    /\ session < MaxSessions
    /\ session' = session + 1
    /\ UNCHANGED <<rt, nextReq, ends, gatewayVars, tokens, registryVars, prog,
                   trail, poll, work, clicks, chatVars, applied>>

-----------------------------------------------------------------------------
(* PageSessionGateway::pending_request, after the session's slot was read: *)
(* clear, or id_for.                                                       *)

IdFor(s, r) ==
    IF \E m \in minted : m.sess = s /\ m.req = r
    THEN (CHOOSE m \in minted : TRUE).id ELSE nextId

(* Mutant: no early return when nothing is pending.                        *)
MintedAfterNothing(s, r) == {[sess |-> s, req |-> r, id |-> IdFor(s, r)]}

MintedAfter(s, r) ==
    IF r = None THEN {} ELSE {[sess |-> s, req |-> r, id |-> IdFor(s, r)]}

ObservePending(s, r) ==
    /\ minted' = MintedAfter(s, r)
    /\ IF r # None /\ IdFor(s, r) = nextId
       THEN nextId' = nextId + 1 /\ shown' = [shown EXCEPT ![nextId] = r]
       ELSE UNCHANGED <<nextId, shown>>

(* The bound on ids is kept where an operation starts that may mint one.   *)
Minting == Cardinality({w \in Workers : work[w].pc \in {"claim", "claim_observe"}})
           + (IF poll.pc = "observe" THEN 1 ELSE 0)

IdsLeft == nextId + Minting <= MaxIds

(* poll_once: PageSessionGateway::pending_request reads the slot,          *)
PollRead ==
    /\ poll.pc = "idle"
    /\ IdsLeft
    /\ poll' = [pc |-> "observe", sess |-> session, req |-> rt[session],
                id |-> None]
    /\ UNCHANGED <<sessionVars, gatewayVars, tokens, registryVars, prog,
                   trail, work, clicks, chatVars, applied>>

(* ... looks its id up or mints one,                                       *)
PollObserve ==
    /\ poll.pc = "observe"
    /\ ObservePending(poll.sess, poll.req)
    /\ poll' = IF poll.req = None THEN IdlePoll
               ELSE [poll EXCEPT !.pc = "check",
                                 !.id = IdFor(poll.sess, poll.req)]
    /\ UNCHANGED <<sessionVars, tokens, registryVars, prog, trail, work,
                   clicks, chatVars, applied>>

(* ... and a prompt is due unless the id has a token.                      *)
PollCheck ==
    /\ poll.pc = "check"
    /\ IF tokens[poll.id] = "none"
       THEN /\ tokens' = [tokens EXCEPT ![poll.id] = "notifying"]
            /\ poll' = [poll EXCEPT !.pc = "notify"]
       ELSE poll' = IdlePoll /\ UNCHANGED tokens
    /\ UNCHANGED <<sessionVars, gatewayVars, registryVars, prog, trail, work,
                   clicks, chatVars, applied>>

Post(id) ==
    /\ posts[id] < MaxPosts
    /\ posts' = [posts EXCEPT ![id] = posts[id] + 1]
    /\ chat' = [chat EXCEPT ![id] = "posted"]

(* ChatNotifier::notify returns a token, or an error although the prompt   *)
(* may have been posted.                                                   *)
PollNotify ==
    /\ poll.pc = "notify"
    /\ \/ /\ Post(poll.id)
          /\ poll' = [poll EXCEPT !.pc = "store"]
       \/ /\ Post(poll.id) \/ UNCHANGED <<posts, chat>>
          /\ poll' = [poll EXCEPT !.pc = "forget"]
    /\ UNCHANGED <<sessionVars, gatewayVars, tokens, registryVars, prog,
                   trail, work, clicks, applied>>

PollStore ==
    /\ poll.pc \in {"store", "forget"}
    /\ tokens' = [tokens EXCEPT ![poll.id] =
                    IF poll.pc = "store" THEN "notified" ELSE "none"]
    /\ poll' = IdlePoll
    /\ UNCHANGED <<sessionVars, gatewayVars, registryVars, prog, trail, work,
                   clicks, chatVars, applied>>

-----------------------------------------------------------------------------
(* Bridge::resolve                                                         *)

At(w, label) == work[w].pc = label

Go(w, label) == work' = [work EXCEPT ![w].pc = label]

Return(w) == work' = [work EXCEPT ![w] = IdleWork]

(* A signed interaction arrives; the buttons of every prompt ever posted   *)
(* can be clicked, and chat may deliver a click again.                     *)
Click(w) ==
    /\ At(w, "idle")
    /\ clicks < MaxClicks
    /\ IdsLeft
    /\ clicks' = clicks + 1
    /\ \E r \in Records :
         /\ posts[r.id] > 0
         /\ work' = [work EXCEPT ![w] = [IdleWork EXCEPT !.pc = "claim",
                                                         !.record = {r}]]
    /\ UNCHANGED <<sessionVars, gatewayVars, tokens, registryVars, prog,
                   trail, poll, chatVars, applied>>

(* The registry mutex is free.                                             *)
RegistryFree(w) == \A v \in Workers \ {w} : ~ At(v, "claim_observe")

(* make_room_for_claim: oldest terminal entries are dropped until there is *)
(* room.                                                                   *)
WithoutOldest(k) ==
    [i \in Ids |-> IF \E j \in 1 .. k : terminal[j] = i
                   THEN None ELSE entries[i]]

Size(e) == Cardinality({i \in Ids : e[i] # None})

(* Mutant: > for >= in the loop of make_room_for_claim.                    *)
DropsTooFew == {k \in 0 .. Len(terminal) : Size(WithoutOldest(k)) <= Capacity}

Drops == {k \in 0 .. Len(terminal) : Size(WithoutOldest(k)) < Capacity}

MakeRoom ==
    LET k == IF Drops = {} THEN Len(terminal)
             ELSE CHOOSE n \in Drops : \A m \in Drops : n <= m
    IN  /\ entries' = WithoutOldest(k)
        /\ terminal' = SubSeq(terminal, k + 1, Len(terminal))

Claim(w) ==
    /\ At(w, "claim")
    /\ RegistryFree(w)
    /\ \E r \in work[w].record :
         \/ /\ entries[r.id] # None
            /\ work' = [work EXCEPT ![w].pc = "lock",
                                    ![w].obj = entries[r.id]]
            /\ UNCHANGED <<entries, terminal>>
         \/ /\ entries[r.id] = None
            /\ MakeRoom
            /\ IF Drops = {} THEN Return(w)
               ELSE work' = [work EXCEPT ![w].pc = "claim_observe",
                                         ![w].sess = session,
                                         ![w].req = rt[session]]
    /\ UNCHANGED <<sessionVars, gatewayVars, tokens, nextObj, prog, trail,
                   poll, clicks, chatVars, applied>>

(* The outcome projection is looked up with pending_request, which mints   *)
(* or clears; then the first click owns the request.                       *)
ClaimObserve(w) ==
    /\ At(w, "claim_observe")
    /\ ObservePending(work[w].sess, work[w].req)
    /\ \E r \in work[w].record :
         /\ entries' = [entries EXCEPT ![r.id] = nextObj]
         /\ prog' = [prog EXCEPT ![nextObj] =
                       {[record |-> r, gateway_applied |-> FALSE,
                         audited |-> FALSE, chat_updated |-> FALSE]}]
    /\ nextObj' = nextObj + 1
    /\ work' = [work EXCEPT ![w].pc = "lock", ![w].obj = nextObj]
    /\ UNCHANGED <<sessionVars, tokens, terminal, trail, poll, clicks,
                   chatVars, applied>>

(* Where the progress mutex is held, and where the next phase starts.      *)
PhasePcs == {"prepare", "peek", "commit", "audit", "token", "respond",
             "forget"}

Resume(p) ==
    IF ~ p.gateway_applied THEN "prepare"
    ELSE IF ~ p.audited THEN "audit" ELSE "token"

(* Mutant: no is_same_decision.                                            *)
LockProgressOfAnyone(w) ==
    /\ At(w, "lock")
    /\ \A v \in Workers \ {w} :
         work[v].pc \in PhasePcs => work[v].obj # work[w].obj
    /\ \E p \in prog[work[w].obj] :
         IF ~ p.chat_updated THEN Go(w, Resume(p)) ELSE Return(w)
    /\ UNCHANGED <<sessionVars, gatewayVars, tokens, registryVars, prog,
                   trail, poll, clicks, chatVars, applied>>

LockProgress(w) ==
    /\ At(w, "lock")
    /\ \A v \in Workers \ {w} :
         work[v].pc \in PhasePcs => work[v].obj # work[w].obj
    /\ \E p \in prog[work[w].obj] :
         IF {p.record} = work[w].record /\ ~ p.chat_updated
         THEN Go(w, Resume(p))
         ELSE Return(w)
    /\ UNCHANGED <<sessionVars, gatewayVars, tokens, registryVars, prog,
                   trail, poll, clicks, chatVars, applied>>

(* audit.prepare may fail; then PageSessionGateway::approve or reject      *)
(* resolves the session and reads its pending request,                     *)
Prepare(w) ==
    /\ At(w, "prepare")
    /\ \/ Return(w)
       \/ work' = [work EXCEPT ![w].pc = "peek", ![w].sess = session,
                               ![w].req = rt[session]]
    /\ UNCHANGED <<sessionVars, gatewayVars, tokens, registryVars, prog,
                   trail, poll, clicks, chatVars, applied>>

(* Mutant: the id is compared, the request it was minted for is not.       *)
PeekAnyRequest(s, r, id) == \E m \in minted : m.id = id

(* ... validates the id without minting,                                   *)
Peek(s, r, id) ==
    \E m \in minted : m.sess = s /\ m.req = r /\ m.id = id

Validate(w) ==
    /\ At(w, "peek")
    /\ \E r \in work[w].record :
         IF Peek(work[w].sess, work[w].req, r.id)
         THEN Go(w, "commit") ELSE Return(w)
    /\ UNCHANGED <<sessionVars, gatewayVars, tokens, registryVars, prog,
                   trail, poll, clicks, chatVars, applied>>

SetProgress(w, p) == prog' = [prog EXCEPT ![work[w].obj] = {p}]

(* Mutant: what was read before the id was validated is trusted.           *)
CommitUnchecked(w) ==
    /\ At(w, "commit")
    /\ rt' = [rt EXCEPT ![work[w].sess] = None]
    /\ ends' = Ended(work[w].req)
    /\ \E p \in prog[work[w].obj] :
         /\ SetProgress(w, [p EXCEPT !.gateway_applied = TRUE])
         /\ applied' = applied \cup {[req |-> work[w].req, record |-> p.record]}
    /\ Go(w, "audit")
    /\ UNCHANGED <<session, nextReq, gatewayVars, tokens, registryVars, trail,
                   poll, clicks, chatVars>>

(* ... and decides on that session if the request is still pending there.  *)
(* The runtime may refuse an approval whose document changed.              *)
Commit(w) ==
    /\ At(w, "commit")
    /\ \/ /\ rt[work[w].sess] = work[w].req
          /\ rt' = [rt EXCEPT ![work[w].sess] = None]
          /\ ends' = Ended(work[w].req)
          /\ \E p \in prog[work[w].obj] :
               /\ SetProgress(w, [p EXCEPT !.gateway_applied = TRUE])
               /\ applied' = applied \cup
                    {[req |-> work[w].req, record |-> p.record]}
          /\ Go(w, "audit")
       \/ /\ \/ rt[work[w].sess] # work[w].req
             \/ \E r \in work[w].record : r.decision = "approved"
          /\ Return(w)
          /\ UNCHANGED <<rt, ends, prog, applied>>
    /\ UNCHANGED <<session, nextReq, gatewayVars, tokens, registryVars, trail,
                   poll, clicks, chatVars>>

(* What the BridgeAuditTrail promises: a record is appended unless its id  *)
(* is there, and another decision for a known id is refused.  Left out: a  *)
(* second copy of the same record, which the file can get after a failing  *)
(* sync once memory has forgotten the first one.                           *)
Conflicts(r) == \E k \in 1 .. Len(trail) : trail[k].id = r.id /\ trail[k] # r

(* Mutant: a retry appends again.                                          *)
RecordedAgain(r) == Append(trail, r)

Recorded(r) ==
    IF \E k \in 1 .. Len(trail) : trail[k].id = r.id
    THEN trail ELSE Append(trail, r)

(* An error may follow the append (fsync).                                 *)
RecordAudit(w) ==
    /\ At(w, "audit")
    /\ \E p \in prog[work[w].obj] :
         \/ /\ ~ Conflicts(p.record)
            /\ trail' = Recorded(p.record)
            /\ SetProgress(w, [p EXCEPT !.audited = TRUE])
            /\ Go(w, "token")
         \/ /\ trail' \in {trail, Recorded(p.record)}
            /\ Return(w)
            /\ UNCHANGED prog
    /\ UNCHANGED <<sessionVars, gatewayVars, tokens, registryVars, poll,
                   clicks, chatVars, applied>>

(* Mutant: resolve waits for the prompt instead of failing.                *)
LookUpTokenWaits(w) ==
    /\ At(w, "token")
    /\ \E p \in prog[work[w].obj] :
         \/ /\ tokens[p.record.id] = "notified"
            /\ Go(w, "respond")
            /\ UNCHANGED prog
         \/ /\ tokens[p.record.id] = "none"
            /\ SetProgress(w, [p EXCEPT !.chat_updated = TRUE])
            /\ Go(w, "terminal")
    /\ UNCHANGED <<sessionVars, gatewayVars, tokens, registryVars, trail,
                   poll, clicks, chatVars, applied>>

(* The prompt is still being posted, or is there, or there is none.        *)
LookUpToken(w) ==
    /\ At(w, "token")
    /\ \E p \in prog[work[w].obj] :
         \/ /\ tokens[p.record.id] = "notifying"
            /\ Return(w)
            /\ UNCHANGED prog
         \/ /\ tokens[p.record.id] = "notified"
            /\ Go(w, "respond")
            /\ UNCHANGED prog
         \/ /\ tokens[p.record.id] = "none"
            /\ SetProgress(w, [p EXCEPT !.chat_updated = TRUE])
            /\ Go(w, "terminal")
    /\ UNCHANGED <<sessionVars, gatewayVars, tokens, registryVars, trail,
                   poll, clicks, chatVars, applied>>

(* ChatNotifier::respond; an error may follow the update.                  *)
Respond(w) ==
    /\ At(w, "respond")
    /\ \E r \in work[w].record :
         LET said == [chat EXCEPT ![r.id] = r.decision] IN
         \/ chat' = said /\ Go(w, "forget")
         \/ chat' \in {chat, said} /\ Return(w)
    /\ UNCHANGED <<sessionVars, gatewayVars, tokens, registryVars, prog,
                   trail, poll, clicks, posts, applied>>

ForgetToken(w) ==
    /\ At(w, "forget")
    /\ \E p \in prog[work[w].obj] :
         /\ tokens' = [tokens EXCEPT ![p.record.id] = "none"]
         /\ SetProgress(w, [p EXCEPT !.chat_updated = TRUE])
    /\ Go(w, "terminal")
    /\ UNCHANGED <<sessionVars, gatewayVars, registryVars, trail, poll,
                   clicks, chatVars, applied>>

(* mark_terminal; the progress mutex has been released.                    *)
MarkTerminal(w) ==
    /\ At(w, "terminal")
    /\ RegistryFree(w)
    /\ \E r \in work[w].record :
         LET order == Append(terminal, r.id) IN
         IF Len(order) > Capacity
         THEN /\ terminal' = Tail(order)
              /\ entries' = [entries EXCEPT ![Head(order)] = None]
         ELSE terminal' = order /\ UNCHANGED entries
    /\ Return(w)
    /\ UNCHANGED <<sessionVars, gatewayVars, tokens, nextObj, prog, trail,
                   poll, clicks, chatVars, applied>>

-----------------------------------------------------------------------------
Runtime == RequestPublished \/ RequestGone \/ SessionSwapped

PollStep ==
    PollRead \/ PollObserve \/ PollCheck \/ PollNotify \/ PollStore

ResolveStep(w) ==
    \/ Claim(w) \/ ClaimObserve(w) \/ LockProgress(w) \/ Prepare(w)
    \/ Validate(w) \/ Commit(w) \/ RecordAudit(w) \/ LookUpToken(w)
    \/ Respond(w) \/ ForgetToken(w) \/ MarkTerminal(w)

Next ==
    \/ Runtime
    \/ PollStep
    \/ \E w \in Workers : Click(w) \/ ResolveStep(w)

Spec == Init /\ [][Next]_vars

(* A worker inside resolve keeps running: gateway, file and chat calls end *)
(* in an answer, an error or a timeout.  The two mutexes are held only     *)
(* between the steps of such a worker.                                     *)
FairSpec == Spec /\ \A w \in Workers : WF_vars(ResolveStep(w))

-----------------------------------------------------------------------------
PollPcs == {"idle", "observe", "check", "notify", "store", "forget"}
WorkPcs == {"idle", "claim", "claim_observe", "lock", "terminal"}
           \cup PhasePcs

(* Type invariant.                                                         *)
TypeOK ==
    /\ session \in Sessions
    /\ rt \in [Sessions -> Reqs \cup {None}]
    /\ nextReq \in 1 .. MaxReqs + 1
    /\ minted \subseteq Minted
    /\ nextId \in 1 .. MaxIds + 1
    /\ tokens \in [Ids -> {"none", "notifying", "notified"}]
    /\ entries \in [Ids -> Objs \cup {None}]
    /\ terminal \in Seq(Ids)
    /\ prog \in [Objs -> SUBSET Progress]
    /\ nextObj \in 1 .. MaxClicks + 1
    /\ trail \in Seq(Records)
    /\ poll \in [pc : PollPcs, sess : Sessions, req : Reqs \cup {None},
                 id : Ids \cup {None}]
    /\ work \in [Workers -> [pc : WorkPcs, record : SUBSET Records,
                             obj : Objs \cup {None}, sess : Sessions,
                             req : Reqs \cup {None}]]
    /\ clicks \in 0 .. MaxClicks
    /\ shown \in [Ids -> Reqs \cup {None}]
    /\ posts \in [Ids -> 0 .. MaxPosts]
    /\ chat \in [Ids -> {"none", "posted"} \cup Decisions]
    /\ applied \subseteq [req : Reqs, record : Records]
    /\ ends \in [Reqs -> Nat]

(* A click decides the request its prompt showed, never a replacement with *)
(* the same display data, a later request, or one of a restarted session.  *)
AppliedToWhatWasShown ==
    \A a \in applied : shown[a.record.id] = a.req

(* However clicks race, are repeated, outlive the registry's memory of     *)
(* them, or straddle a restart: a request ends once, and a decision that   *)
(* comes after navigation, new rules, a replacement or another decision    *)
(* has ended it takes no effect.                                           *)
RequestEndsOnce == \A r \in Reqs : ends[r] <= 1

(* The audit trail holds exactly what took effect: no record before the    *)
(* runtime accepted the decision, none twice, none of a losing click.      *)
TrailTellsWhatHappened ==
    /\ \A k \in 1 .. Len(trail) : \E a \in applied : a.record = trail[k]
    /\ \A j, k \in 1 .. Len(trail) : trail[j].id = trail[k].id => j = k

(* A prompt that says approved or rejected tells a decision that reached   *)
(* the runtime and the audit trail.                                        *)
ChatTellsTheTruth ==
    \A i \in Ids : chat[i] \in Decisions =>
        \E k \in 1 .. Len(trail) :
            trail[k].id = i /\ trail[k].decision = chat[i]

(* The registry never outgrows its capacity, and never forgets a decision  *)
(* that took effect but is not recorded yet: its owner can still retry.    *)
RegistryKeepsUnfinished ==
    /\ Size(entries) <= Capacity
    /\ \A a \in applied :
         \/ \E k \in 1 .. Len(trail) : trail[k] = a.record
         \/ /\ entries[a.record.id] # None
            /\ \E p \in prog[entries[a.record.id]] : p.record = a.record

(* Every call of resolve returns, whatever the others are doing: the       *)
(* registry mutex and the progress mutexes are never waited for in a ring. *)
ResolveReturns ==
    \A w \in Workers : ~ At(w, "idle") ~> At(w, "idle")

(* gateway.rs:33-36: an id minted for a request is reused for the same     *)
(* request, at least as long as that request is pending.                   *)
OneIdPerRequest ==
    \A i, j \in Ids :
        rt[session] # None /\ shown[i] = rt[session] /\ shown[j] = rt[session]
            => i = j

-----------------------------------------------------------------------------
(* The strengthening that makes the safety properties inductive.           *)

(* Every operation that may still mint an id or claim an entry is counted. *)
Claimants == {w \in Workers : work[w].pc \in {"claim", "claim_observe"}}

BoundsOK ==
    /\ nextId + Minting <= MaxIds + 1
    /\ nextObj + Cardinality(Claimants) <= clicks + 1

(* A request is pending in one session and has not ended.                  *)
PendingOK ==
    /\ \A s \in Sessions : rt[s] # None => rt[s] < nextReq /\ ends[rt[s]] = 0
    /\ \A s, t \in Sessions : rt[s] # None /\ rt[s] = rt[t] => s = t
    /\ \A r \in Reqs : r >= nextReq => ends[r] = 0

(* The cache holds one id, minted for the request it names.                *)
MintedOK ==
    /\ \A m, n \in minted : m = n
    /\ \A m \in minted : m.id < nextId /\ shown[m.id] = m.req

PollOK == poll.pc \in {"check", "notify", "store", "forget"} => poll.id \in Ids

(* The phases before the decision reached the runtime, and those after the *)
(* record reached the trail.                                               *)
BeforeGateway == {"prepare", "peek", "commit"}
AfterAudit == {"token", "respond", "forget"}

(* A worker in a phase owns its progress object: it is about the worker's  *)
(* own click, unfinished, and exactly as far as the phase says.            *)
InPhase(w, p) ==
    /\ work[w].record = {p.record}
    /\ ~ p.chat_updated
    /\ p.gateway_applied <=> work[w].pc \notin BeforeGateway
    /\ p.audited <=> work[w].pc \in AfterAudit

(* One that has finished has still to put the id in terminal_order.        *)
Finished(w, p) ==
    /\ work[w].record = {p.record}
    /\ p.chat_updated
    /\ entries[p.record.id] = work[w].obj
    /\ \A k \in 1 .. Len(terminal) : terminal[k] # p.record.id

WorkOK(w) ==
    /\ work[w].pc # "idle" => \E r \in Records : work[w].record = {r}
    /\ work[w].pc \in PhasePcs \cup {"lock", "terminal"} =>
         work[w].obj \in Objs /\ work[w].obj < nextObj
    /\ work[w].pc \in PhasePcs => \E p \in prog[work[w].obj] : InPhase(w, p)
    /\ work[w].pc = "terminal" => \E p \in prog[work[w].obj] : Finished(w, p)
    /\ work[w].pc = "claim_observe" =>
         Size(entries) < Capacity /\ \A r \in work[w].record : entries[r.id] = None
    /\ work[w].pc = "commit" =>
         /\ work[w].req # None
         /\ \A r \in work[w].record : r.id < nextId /\ shown[r.id] = work[w].req

(* The registry mutex and the progress mutexes have one holder.            *)
MutexOK ==
    \A v, w \in Workers : v # w =>
        /\ ~ (work[v].pc = "claim_observe" /\ work[w].pc = "claim_observe")
        /\ (/\ work[v].pc \in PhasePcs \cup {"terminal"}
            /\ work[w].pc \in PhasePcs \cup {"terminal"}) => work[v].obj # work[w].obj

(* What a progress object claims has happened, and until the chat was told *)
(* the registry knows it.                                                  *)
ProgressOK(o, p) ==
    /\ p.chat_updated => p.audited
    /\ p.audited => p.gateway_applied /\ \E k \in 1 .. Len(trail) : trail[k] = p.record
    /\ p.gateway_applied => \E a \in applied : a.record = p.record
    /\ ~ p.chat_updated => entries[p.record.id] = o

ProgOK ==
    \A o \in Objs :
        /\ \A p, q \in prog[o] : p = q
        /\ prog[o] # {} <=> o < nextObj
        /\ \A p \in prog[o] : ProgressOK(o, p)

RegistryOK ==
    /\ Size(entries) <= Capacity
    /\ \A i \in Ids : entries[i] # None =>
         entries[i] < nextObj /\ \E p \in prog[entries[i]] : p.record.id = i
    /\ \A j, k \in 1 .. Len(terminal) : terminal[j] = terminal[k] => j = k
    /\ \A k \in 1 .. Len(terminal) :
         /\ entries[terminal[k]] # None
         /\ \E p \in prog[entries[terminal[k]]] : p.chat_updated

AppliedOK ==
    \A a \in applied :
        /\ a.record.id < nextId
        /\ shown[a.record.id] = a.req
        /\ \E o \in Objs : \E p \in prog[o] : p.record = a.record /\ p.gateway_applied

BridgeInv ==
    /\ TypeOK
    /\ BoundsOK
    /\ PendingOK
    /\ RequestEndsOnce
    /\ MintedOK
    /\ PollOK
    /\ \A w \in Workers : WorkOK(w)
    /\ MutexOK
    /\ ProgOK
    /\ RegistryOK
    /\ AppliedOK
    /\ TrailTellsWhatHappened
    /\ ChatTellsTheTruth
=============================================================================
