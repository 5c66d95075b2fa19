--------------------------- MODULE PageApprovals ---------------------------
(***************************************************************************)
(* The life of a human approval of an element action in one PageSession.   *)
(*                                                                         *)
(* The agent thread runs act: enforce_policy reads the document, captures  *)
(* the state, evaluates the rules and, where they require a human, either  *)
(* consumes a grant or publishes a pending request.  Reviewer threads (the *)
(* HITL bridge) approve or reject the pending request; the agent may do so *)
(* itself through ask_human.  Meanwhile Chrome changes documents, events   *)
(* arrive late, time passes, and the agent navigates or replaces the rules.*)
(*                                                                         *)
(* Every binding to a document rests on the snapshots of                   *)
(* DocumentObservation; each step here is a step of that module or leaves  *)
(* its variables alone.                                                    *)
(***************************************************************************)
EXTENDS DocumentObservation

CONSTANTS
    Agent,     \* the thread that serves the agent's tool calls
    Targets,   \* (action, target signature) pairs
    Rules,     \* rule ids
    Policies,  \* rule sets, see Decisions
    BoxMs,     \* ms of a timeboxed scope
    MaxNow,    \* bound: clock ticks
    MaxIds,    \* bound: requests published
    MaxEpoch,  \* bound: explicit navigations
    MaxSets    \* bound: calls of set_policy_rules

Scopes == {"action_only", "until_navigation", "timeboxed"}

Decisions == [verdict : {"allow", "block", "require"},
              rule : Rules, scope : Scopes]

ASSUME AgentAssumption == Agent \in Threads
ASSUME PoliciesAssumption ==
    Policies # {} /\ Policies \subseteq [Paths -> [Targets -> Decisions]]
ASSUME ApprovalBoundsAssumption ==
    /\ BoxMs \in Nat
    /\ MaxNow \in Nat
    /\ MaxIds \in Nat
    /\ MaxEpoch \in Nat
    /\ MaxSets \in Nat

(* PolicyApprovalRequest *)
Requests == [rule : Rules, scope : Scopes, target : Targets]

(* PendingPolicyApproval.  "cap" and "set" are auxiliary: where in hist    *)
(* the reviewed target was captured, and which rule set asked.             *)
Pendings == [id : Nat, req : Requests, binding : Snapshots,
             cap : Nat, set : Nat]

(* GrantedPolicyApproval.  remaining_uses is Some(1) for action_only and   *)
(* None otherwise; expires matters for timeboxed only.                     *)
Grants == [id : Nat, req : Requests, binding : Snapshots, set : Nat,
           epoch : Nat, url : Snapshots, expires : Nat]

(* The agent's locals: the target act was asked for, the document and      *)
(* capture of enforce_policy, the decision, the clock and epoch read       *)
(* before the lock, and whether self-healing chose the target.  Auxiliary: *)
(* "use" is the consumption this act rests on, {} or one, and "at" where   *)
(* in hist the action was performed, 0 before that.                        *)
Locals == [target : Targets, doc : Snapshots, cap : Nat, req : Requests,
           now : Nat, epoch : Nat, healed : BOOLEAN, at : Nat,
           use : SUBSET [grant : Grants, mark : Nat]]

VARIABLES
    pending,   \* PolicyApprovalState.pending, a set of at most one
    granted,   \* PolicyApprovalState.granted, ids make the entries distinct
    epoch,     \* navigation_epoch
    now,       \* epoch_millis()
    rules,     \* policy_engine
    sets,      \* auxiliary: how often rules was replaced
    nextId,    \* the next fresh uuid
    pc,        \* per thread, the operation it is in
    held,      \* per thread, the pending request it is about to approve
    act,       \* the agent's locals, {} outside act
    approvals, \* auxiliary: how often each id was approved
    rejected,  \* auxiliary: ids that were rejected
    spent      \* auxiliary: how often each action_only id was consumed

approvalVars == <<pending, granted, epoch, now, rules, sets, nextId>>
ledgerVars == <<approvals, rejected, spent>>
pageVars == <<approvalVars, pc, held, act, ledgerVars>>
vars == <<obsVars, pageVars>>

Ids == 1 .. MaxIds

(* Where a thread takes a live snapshot, and where an approval snapshot.   *)
LivePcs == {"document", "recheck"}
BarrierPcs == {"consume", "publish", "approve"}

(* Mutant: the revision is not compared, so A -> B -> A goes unnoticed.    *)
SameRevisionIgnored(a, b) == SameDocument(a, b)

(* PageApprovalContext::same_document and matches.                         *)
SameRevision(a, b) == a.rev = b.rev /\ SameDocument(a, b)

Matches(a, b, scope) ==
    SameRevision(a, b) /\ (scope = "until_navigation" => a.frag = b.frag)

(* is_grant_valid                                                          *)
IsGrantValid(g, e, url, ms) ==
    CASE g.req.scope = "action_only" -> g.epoch = e
      [] g.req.scope = "until_navigation" ->
           g.epoch = e /\ SameUrl(g.url, url)
      [] g.req.scope = "timeboxed" -> ms <= g.expires

-----------------------------------------------------------------------------
PageInit ==
    /\ Init
    /\ pending = {}
    /\ granted = {}
    /\ epoch = 0
    /\ now = 0
    /\ rules \in Policies
    /\ sets = 0
    /\ nextId = 1
    /\ pc = [t \in Threads |-> "idle"]
    /\ held = [t \in Threads |-> {}]
    /\ act = {}
    /\ approvals = [i \in Ids |-> 0]
    /\ rejected = {}
    /\ spent = [i \in Ids |-> 0]

GoTo(t, label) == pc' = [pc EXCEPT ![t] = label]

(* act returns, with or without an error, and its locals die.              *)
ActReturns == GoTo(Agent, "idle") /\ act' = {}

(* A thread whose operation needs a snapshot works on it.                  *)
SnapshotStep(t) ==
    /\ pc[t] \in LivePcs \cup BarrierPcs
    /\ \/ LiveStep(t)
       \/ pc[t] \in BarrierPcs /\ BarrierStep(t)
       \/ /\ stage[t] = "recorded" => pc[t] \in BarrierPcs
          /\ SnapshotFails(t)
    /\ UNCHANGED pageVars

(* The snapshot could not be taken: the operation ends in an error.        *)
SnapshotError(t) ==
    /\ stage[t] = "failed"
    /\ Release(t)
    /\ GoTo(t, "idle")
    /\ held' = [held EXCEPT ![t] = {}]
    /\ act' = IF t = Agent THEN {} ELSE act
    /\ UNCHANGED <<approvalVars, ledgerVars>>

-----------------------------------------------------------------------------
(* act -> enforce_policy, for the caller's target or for one that          *)
(* try_self_healing_recovery has found.                                    *)

Enforce(x, h) ==
    /\ GoTo(Agent, "document")
    /\ act' = {[target |-> x, doc |-> NoSnapshot, cap |-> 1,
                req |-> [rule |-> CHOOSE r \in Rules : TRUE,
                         scope |-> "action_only", target |-> x],
                now |-> 0, epoch |-> 0, healed |-> h, at |-> 0, use |-> {}]}

ActStart ==
    /\ pc[Agent] = "idle"
    /\ nextId <= MaxIds
    /\ \E x \in Targets : Enforce(x, FALSE)
    /\ UNCHANGED <<obsVars, approvalVars, held, ledgerVars>>

(* The document that is reviewed; capture_state comes next.                *)
ReadDocument ==
    /\ pc[Agent] = "document"
    /\ stage[Agent] = "recorded"
    /\ \E a \in act : act' = {[a EXCEPT !.doc = snap[Agent]]}
    /\ Release(Agent)
    /\ GoTo(Agent, "capture")
    /\ UNCHANGED <<approvalVars, held, ledgerVars>>

(* capture_state sees the document Chrome shows at that moment; it fails   *)
(* when the tree cannot be read.                                           *)
Capture ==
    /\ pc[Agent] = "capture"
    /\ \/ /\ \E a \in act : act' = {[a EXCEPT !.cap = Len(hist)]}
          /\ GoTo(Agent, "recheck")
       \/ ActReturns
    /\ UNCHANGED <<obsVars, approvalVars, held, ledgerVars>>

(* The document must be the same after the capture; then the rules decide. *)
Evaluate ==
    /\ pc[Agent] = "recheck"
    /\ stage[Agent] = "recorded"
    /\ Release(Agent)
    /\ \E a \in act : LET d == rules[a.doc.path][a.target] IN
         \/ /\ ~ SameRevision(a.doc, snap[Agent]) \/ d.verdict = "block"
            /\ ActReturns
         \/ /\ SameRevision(a.doc, snap[Agent])
            /\ d.verdict = "allow"
            /\ GoTo(Agent, "plugins")
            /\ UNCHANGED act
         \/ /\ SameRevision(a.doc, snap[Agent])
            /\ d.verdict = "require"
            /\ GoTo(Agent, "consume")
            /\ act' = {[a EXCEPT !.req = [rule |-> d.rule, scope |-> d.scope,
                                          target |-> a.target]]}
    /\ UNCHANGED <<approvalVars, held, ledgerVars>>

(* consume_granted_policy_approval up to the lock: the approval snapshot   *)
(* must match the reviewed document; clock and epoch are read.             *)
ConsumeRead ==
    /\ pc[Agent] = "consume"
    /\ stage[Agent] = "verified"
    /\ \E a \in act :
         IF Matches(a.doc, snap[Agent], a.req.scope)
         THEN /\ act' = {[a EXCEPT !.now = now, !.epoch = epoch]}
              /\ GoTo(Agent, "consume_lock")
              /\ UNCHANGED obsVars
         ELSE ActReturns /\ Release(Agent)
    /\ UNCHANGED <<approvalVars, held, ledgerVars>>

(* Mutant: the documents of the grants are not compared.                   *)
StillValidAnywhere(a, s) == {g \in granted : IsGrantValid(g, a.epoch, s, a.now)}

(* retain of consume_granted_policy_approval                               *)
StillValid(a, s) ==
    {g \in granted : /\ Matches(g.binding, s, g.req.scope)
                     /\ IsGrantValid(g, a.epoch, s, a.now)}

(* Mutant: remaining_uses is not counted down.                             *)
AfterUseKept(valid, g) == valid

(* remaining_uses of the grant is counted down; at zero it is dropped.     *)
AfterUse(valid, g) ==
    IF g.req.scope = "action_only" THEN valid \ {g} ELSE valid

(* ... and under the observation and approval locks.  Any matching grant   *)
(* may be the first of the Vec.                                            *)
ConsumeCommit ==
    /\ pc[Agent] = "consume_lock"
    /\ \E a \in act : LET valid == StillValid(a, snap[Agent])
                          match == {g \in valid : g.req = a.req} IN
         \/ /\ ~ ContextCurrent(snap[Agent])
            /\ ActReturns
            /\ UNCHANGED <<granted, spent>>
         \/ /\ ContextCurrent(snap[Agent])
            /\ match = {}
            /\ granted' = valid
            /\ GoTo(Agent, "publish")
            /\ UNCHANGED <<act, spent>>
         \/ /\ ContextCurrent(snap[Agent])
            /\ \E g \in match :
                 /\ granted' = AfterUse(valid, g)
                 /\ act' = {[a EXCEPT !.use = {[grant |-> g,
                                                mark |-> mark[Agent]]}]}
                 /\ spent' = IF g.req.scope = "action_only"
                             THEN [spent EXCEPT ![g.id] = spent[g.id] + 1]
                             ELSE spent
            /\ GoTo(Agent, "plugins")
    /\ Release(Agent)
    /\ UNCHANGED <<pending, epoch, now, rules, sets, nextId, held,
                   approvals, rejected>>

(* set_pending_policy_approval_for_document; act then fails with           *)
(* HumanApprovalRequired.                                                  *)
Publish ==
    /\ pc[Agent] = "publish"
    /\ stage[Agent] = "verified"
    /\ \E a \in act :
         IF /\ Matches(a.doc, snap[Agent], a.req.scope)
            /\ ContextCurrent(snap[Agent])
         THEN /\ pending' = {[id |-> nextId, req |-> a.req,
                              binding |-> a.doc, cap |-> a.cap,
                              set |-> sets]}
              /\ nextId' = nextId + 1
         ELSE UNCHANGED <<pending, nextId>>
    /\ Release(Agent)
    /\ ActReturns
    /\ UNCHANGED <<granted, epoch, now, rules, sets, held, ledgerVars>>

(* enforce_plugin_policy: any plugin may veto, approved or not.            *)
PluginPolicy ==
    /\ pc[Agent] = "plugins"
    /\ \/ GoTo(Agent, "perform") /\ UNCHANGED act
       \/ ActReturns
    /\ UNCHANGED <<obsVars, approvalVars, held, ledgerVars>>

-----------------------------------------------------------------------------
(* act_by_target_id and act_by_stable_key                                  *)

(* Chrome carries the action out; finish_action_navigation is next.        *)
Perform(a) ==
    /\ act' = {[a EXCEPT !.at = Len(hist)]}
    /\ GoTo(Agent, "finish")

(* perform_action_by_id.  A backend node id belongs to one loader: once    *)
(* Chrome shows another document the node cannot be found.                 *)
PerformById ==
    /\ pc[Agent] = "perform"
    /\ \E a \in act :
         \/ Current.loader = hist[a.cap].loader /\ Perform(a)
         \/ ActReturns
         \/ ~ a.healed /\ GoTo(Agent, "fallback") /\ UNCHANGED act
    /\ UNCHANGED <<obsVars, approvalVars, held, ledgerVars>>

(* act_by_stable_key: the fresh capture holds the key, or self-healing     *)
(* finds a node and the policy is enforced again, or a human is asked.     *)
Fallback ==
    /\ pc[Agent] = "fallback"
    /\ \E a \in act :
         \/ Perform(a)
         \/ \E x \in Targets : Enforce(x, TRUE)
         \/ ActReturns
    /\ UNCHANGED <<obsVars, approvalVars, held, ledgerVars>>

(* finish_action_navigation waits for a late rejection; act returns.       *)
ActFinish ==
    /\ pc[Agent] = "finish"
    /\ ActReturns
    /\ UNCHANGED <<obsVars, approvalVars, held, ledgerVars>>

-----------------------------------------------------------------------------
(* approve_pending_policy_request_with_expected: the slot is read and      *)
(* unlocked again; then an approval snapshot is taken.                     *)
ApproveStart(t) ==
    /\ pc[t] = "idle"
    /\ pending # {}
    /\ held' = [held EXCEPT ![t] = pending]
    /\ GoTo(t, "approve")
    /\ UNCHANGED <<obsVars, approvalVars, act, ledgerVars>>

(* Mutant: the time box ends before it begins.                             *)
GrantExpired(p, s) ==
    [id |-> p.id, req |-> p.req, binding |-> p.binding, set |-> p.set,
     epoch |-> epoch, url |-> s, expires |-> now - BoxMs]

Grant(p, s) ==
    [id |-> p.id, req |-> p.req, binding |-> p.binding, set |-> p.set,
     epoch |-> epoch, url |-> s, expires |-> now + BoxMs]

(* Mutant: the slot is not looked at again.                                *)
SamePendingAssumed(p) == TRUE

(* The pending slot still holds the cycle that was read.                   *)
SamePending(p) == \E q \in pending : q.id = p.id

(* commit_pending_policy_approval                                          *)
ApproveCommit(t) ==
    /\ pc[t] = "approve"
    /\ stage[t] = "verified"
    /\ \E p \in held[t] :
         IF /\ Matches(p.binding, snap[t], p.req.scope)
            /\ ContextCurrent(snap[t])
            /\ SamePending(p)
         THEN /\ pending' = {}
              /\ granted' = granted \cup {Grant(p, snap[t])}
              /\ approvals' = [approvals EXCEPT ![p.id] = approvals[p.id] + 1]
         ELSE UNCHANGED <<pending, granted, approvals>>
    /\ held' = [held EXCEPT ![t] = {}]
    /\ Release(t)
    /\ GoTo(t, "idle")
    /\ UNCHANGED <<epoch, now, rules, sets, nextId, act, rejected,
                   spent>>

(* reject_pending_policy_request_with_expected                             *)
Reject(t) ==
    /\ pc[t] = "idle"
    /\ \E p \in pending : rejected' = rejected \cup {p.id}
    /\ pending' = {}
    /\ UNCHANGED <<obsVars, granted, epoch, now, rules, sets, nextId, pc,
                   held, act, approvals, spent>>

-----------------------------------------------------------------------------
(* PageSession::navigate: Chrome is told to go; when the wait is over the  *)
(* epoch is raised and then the pending slot is cleared under its lock.    *)
NavigateStart ==
    /\ pc[Agent] = "idle"
    /\ epoch < MaxEpoch
    /\ GoTo(Agent, "navigate")
    /\ UNCHANGED <<obsVars, approvalVars, held, act, ledgerVars>>

NavigateWaited ==
    /\ pc[Agent] = "navigate"
    /\ \/ GoTo(Agent, "navigate_clear") /\ epoch' = epoch + 1
       \/ GoTo(Agent, "idle") /\ UNCHANGED epoch
    /\ UNCHANGED <<obsVars, pending, granted, now, rules, sets, nextId, held,
                   act, ledgerVars>>

NavigateClear ==
    /\ pc[Agent] = "navigate_clear"
    /\ pending' = {}
    /\ GoTo(Agent, "idle")
    /\ UNCHANGED <<obsVars, granted, epoch, now, rules, sets, nextId, held,
                   act, ledgerVars>>

(* set_policy_rules: two locks, one after the other.                       *)
SetRules ==
    /\ pc[Agent] = "idle"
    /\ sets < MaxSets
    /\ rules' \in Policies
    /\ sets' = sets + 1
    /\ GoTo(Agent, "rules_clear")
    /\ UNCHANGED <<obsVars, pending, granted, epoch, now, nextId, held, act,
                   ledgerVars>>

(* Mutant: grants survive the new rules.                                   *)
SetRulesClearPending ==
    /\ pc[Agent] = "rules_clear"
    /\ pending' = {}
    /\ GoTo(Agent, "idle")
    /\ UNCHANGED <<obsVars, granted, epoch, now, rules, sets, nextId, held,
                   act, ledgerVars>>

SetRulesClear ==
    /\ pc[Agent] = "rules_clear"
    /\ pending' = {}
    /\ granted' = {}
    /\ GoTo(Agent, "idle")
    /\ UNCHANGED <<obsVars, epoch, now, rules, sets, nextId, held, act,
                   ledgerVars>>

Tick ==
    /\ now < MaxNow
    /\ now' = now + 1
    /\ UNCHANGED <<obsVars, pending, granted, epoch, rules, sets, nextId, pc,
                   held, act, ledgerVars>>

Environment ==
    /\ ChromeMoves \/ DeliverEvent \/ StartingRequest
    /\ UNCHANGED pageVars

AgentStep ==
    \/ ActStart \/ ReadDocument \/ Capture \/ Evaluate
    \/ ConsumeRead \/ ConsumeCommit \/ Publish \/ PluginPolicy
    \/ PerformById \/ Fallback \/ ActFinish
    \/ NavigateStart \/ NavigateWaited \/ NavigateClear
    \/ SetRules \/ SetRulesClear

ReviewStep(t) == ApproveStart(t) \/ ApproveCommit(t) \/ Reject(t)

PageNext ==
    \/ Environment
    \/ Tick
    \/ AgentStep
    \/ \E t \in Threads : SnapshotStep(t) \/ SnapshotError(t) \/ ReviewStep(t)

PageSpec == PageInit /\ [][PageNext]_vars

(* A thread that is inside an operation keeps running: every wait in it    *)
(* has a timeout.  Nothing is assumed of Chrome, of the event thread, or   *)
(* of when operations start.                                               *)
Continue(t) ==
    \/ SnapshotStep(t) \/ SnapshotError(t) \/ ApproveCommit(t)
    \/ /\ t = Agent
       /\ \/ ReadDocument \/ Capture \/ Evaluate \/ ConsumeRead
          \/ ConsumeCommit \/ Publish \/ PluginPolicy \/ PerformById
          \/ Fallback \/ ActFinish \/ NavigateWaited \/ NavigateClear
          \/ SetRulesClear

PageFairSpec == PageSpec /\ \A t \in Threads : WF_vars(Continue(t))

-----------------------------------------------------------------------------
Pcs == {"idle", "capture", "consume_lock", "plugins", "perform", "fallback", "finish",
        "navigate", "navigate_clear", "rules_clear"} \cup LivePcs
       \cup BarrierPcs

(* Type invariant.                                                         *)
PageTypeOK ==
    /\ ObservationTypeOK
    /\ pending \in SUBSET Pendings
    /\ granted \in SUBSET Grants
    /\ epoch \in Nat
    /\ now \in Nat
    /\ rules \in Policies
    /\ sets \in Nat
    /\ nextId \in Nat
    /\ pc \in [Threads -> Pcs]
    /\ held \in [Threads -> SUBSET Pendings]
    /\ act \in SUBSET Locals
    /\ approvals \in [Ids -> Nat]
    /\ rejected \in SUBSET Nat
    /\ spent \in [Ids -> Nat]

(* A consumed grant was reviewed, granted and used on one document: Chrome *)
(* showed it without interruption from the read that the request was bound *)
(* to until the marker of the consuming act - no A -> B -> A in between,   *)
(* whether or not its events had arrived.                                  *)
UsedGrantStayedOnItsDocument ==
    \A a \in act : \A u \in a.use :
        Still(u.grant.binding.at, u.mark, u.grant.binding)

(* What a reviewer is shown was captured from the document the request is  *)
(* bound to, although the capture happened between two unsynchronised      *)
(* reads of the frame tree.                                                *)
PendingWasCapturedOnItsDocument ==
    \A p \in pending : SameDocument(hist[p.cap], p.binding)

(* A request is decided once: never approved twice, never both approved    *)
(* and rejected, although approval snapshots take long and reviewers race. *)
DecidedOnce ==
    \A i \in Ids : approvals[i] + (IF i \in rejected THEN 1 ELSE 0) <= 1

(* An action_only approval is good for one act.                            *)
ActionOnlyUsedOnce == \A i \in Ids : spent[i] <= 1

(* Once set_policy_rules has returned, nothing asked for or granted under  *)
(* an earlier rule set is left.                                            *)
NewRulesRevoke ==
    pc[Agent] # "rules_clear" =>
        \A x \in pending \cup granted : x.set = sets

(* Every operation comes to an end: retries are bounded and a marker that  *)
(* is never acknowledged times out, so neither an agent nor a reviewer     *)
(* waits for Chrome forever.                                               *)
OperationsEnd ==
    \A t \in Threads : pc[t] # "idle" ~> pc[t] = "idle"

(* docs/SPEC.md:112: until_navigation needs the full URL and a change of   *)
(* the fragment ends it.                                                   *)
UntilNavigationEndsWithFragment ==
    \A a \in act : \A u \in a.use :
        u.grant.req.scope = "until_navigation" =>
            \A k \in u.grant.binding.at .. u.mark :
                SameUrl(hist[k], u.grant.binding)

(* docs/ARCHITECTURE.md:143-146: policy enforcement is run again on        *)
(* whatever node is recovered, so an action is performed in the document   *)
(* whose capture the policy was last evaluated on.                         *)
ActedWhereEnforced ==
    \A a \in act : a.at # 0 => hist[a.at].loader = hist[a.cap].loader

-----------------------------------------------------------------------------
(* The strengthening that makes UsedGrantStayedOnItsDocument and           *)
(* PendingWasCapturedOnItsDocument inductive.                              *)

(* The snapshots the approvals are bound to, wherever they are kept.       *)
Bound ==
    {a.doc : a \in act} \cup {p.binding : p \in pending}
        \cup {g.binding : g \in granted}
        \cup UNION {{p.binding : p \in held[t]} : t \in Threads}

(* The marker of a consuming act is behind the event thread for good.      *)
UsesOK ==
    \A a \in act : \A u \in a.use :
        /\ u.mark <= seen
        /\ Still(u.grant.binding.at, u.mark, u.grant.binding)

(* While the agent is here, its capture is younger than its document.      *)
AfterCapture == {"recheck", "consume", "consume_lock", "publish"}

CaptureOK ==
    \A a \in act :
        /\ a.cap \in 1 .. Len(hist)
        /\ pc[Agent] \in AfterCapture => a.doc.at <= a.cap
        /\ (pc[Agent] = "publish" /\ stage[Agent] \in {"marked", "verified"})
               => a.cap <= mark[Agent]

ShownOK ==
    \A p \in pending :
        p.cap \in 1 .. Len(hist) /\ SameDocument(hist[p.cap], p.binding)

PageInv ==
    /\ PageTypeOK
    /\ ObservationInv
    /\ \A s \in Bound : SnapshotOK(s)
    /\ UsesOK
    /\ CaptureOK
    /\ ShownOK
    /\ pc[Agent] = "consume_lock" => stage[Agent] = "verified"
-----------------------------------------------------------------------------
(* The strengthening that makes DecidedOnce, ActionOnlyUsedOnce and        *)
(* NewRulesRevoke inductive.                                               *)

(* The slot holds one request, and that one is undecided.                  *)
SlotOK ==
    /\ nextId >= 1
    /\ act # {} => nextId <= MaxIds
    /\ \A p, q \in pending : p = q
    /\ \A p \in pending :
         p.id \in Ids /\ p.id < nextId /\ approvals[p.id] = 0 /\ p.id \notin rejected

(* What a reviewer holds is the request of the slot or one that is gone    *)
(* from it for good.                                                       *)
HeldOK ==
    \A t \in Threads : \A p \in held[t] :
        /\ p.id \in Ids
        /\ p.id < nextId
        /\ \A q \in pending : q.id = p.id => q = p

(* A grant is the only one of its request, and an action_only one that is  *)
(* still there has not been used.                                          *)
GrantsOK ==
    /\ \A g, h \in granted : g.id = h.id => g = h
    /\ \A g \in granted :
         /\ g.id \in Ids
         /\ g.id < nextId
         /\ approvals[g.id] >= 1
         /\ g.req.scope = "action_only" => spent[g.id] = 0

(* Ids not yet handed out are in no record, and nothing is used before it  *)
(* was approved.                                                           *)
FreshOK ==
    \A i \in Ids :
        /\ i >= nextId => approvals[i] = 0 /\ i \notin rejected
        /\ approvals[i] = 0 => spent[i] = 0

(* Only an operation that needs one has a snapshot under way.              *)
StagesOK ==
    \A t \in Threads :
        stage[t] # "idle" => pc[t] \in LivePcs \cup BarrierPcs \cup {"consume_lock"}

LedgerInv ==
    /\ PageTypeOK
    /\ SlotOK
    /\ HeldOK
    /\ GrantsOK
    /\ FreshOK
    /\ StagesOK
    /\ DecidedOnce
    /\ ActionOnlyUsedOnce
    /\ NewRulesRevoke
=============================================================================
