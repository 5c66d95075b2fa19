-------------------------- MODULE PublicNavigation --------------------------
(***************************************************************************)
(* The public navigation boundary of a PageSession.                        *)
(*                                                                         *)
(* Chrome pauses every main-frame document request.  The tab's event       *)
(* thread handles the paused requests and the page events in one queue:    *)
(* the interceptor decides, under the navigation policy, whether Chrome    *)
(* may send the request.  The agent thread navigates explicitly and waits  *)
(* for completion, or acts on the page; requests started by the page come  *)
(* at any time.  A reviewer decides the pending destination.               *)
(*                                                                         *)
(* Chrome is external.  Only HTTP(S) documents are modelled: about: and    *)
(* blob: documents are not paused by Fetch.                                *)
(***************************************************************************)
EXTENDS Naturals, Sequences, FiniteSets

CONSTANTS
    Dests,       \* canonical URLs
    Home,        \* the URL shown at the beginning
    Public,      \* those that pass validate_public_navigation_url
    Verdicts,    \* the policy's verdict on each of them
    Scopes,      \* the scope of its approval rules
    Vetoed,      \* destinations a policy plugin vetoes
    MaxReqs,     \* bound: main-frame requests
    MaxStray,    \* bound: rejections before a request of an unknown frame
    MaxOps       \* bound: calls of navigate_public and act

ASSUME NavigationAssumption ==
    /\ Home \in Dests
    /\ Public \subseteq Dests /\ Vetoed \subseteq Dests
    /\ Verdicts \in [Dests -> {"allow", "block", "require"}]
    /\ Scopes \in [Dests -> {"action_only", "until_navigation"}]
    /\ MaxReqs \in Nat /\ MaxStray \in Nat /\ MaxOps \in Nat

VARIABLES
    page,       \* Chrome: the committed document
    moves,      \* auxiliary: documents and URLs committed so far
    load,       \* Chrome: the main-frame request under way, {} or one
    queue,      \* events waiting for the event thread
    nextReq,    \* the next request id
    obs,        \* ObservationState: document, completion, commit awaited
    attempt,    \* ObservationState.attempt, {} or one
    rejection,  \* ObservationState.rejection, {} or one
    icp,        \* the interceptor between its two locked parts
    pending,    \* PolicyApprovalState.pending, {} or one
    granted,    \* navigation capabilities in PolicyApprovalState.granted
    epoch,      \* navigation_epoch
    nextPend,   \* the next approval id
    agent,      \* the agent's operation and its locals
    clock,      \* which deadline of the wait has passed
    ops,        \* auxiliary: operations started
    atts,       \* auxiliary: attempts started
    sent,       \* auxiliary: (attempt, destination) pairs Chrome may send
    given,      \* auxiliary: approvals given for each destination
    stamps,     \* auxiliary: rejections recorded
    told        \* auxiliary: those recorded when the agent last got one

chromeVars == <<page, moves, load, nextReq>>
eventVars == <<queue, obs, attempt, rejection, icp>>
approvalVars == <<pending, granted, epoch, nextPend>>
ghostVars == <<ops, atts, sent, given, stamps, told>>
vars == <<chromeVars, eventVars, approvalVars, agent, clock, ghostVars>>

Idle == [op |-> "idle", to |-> Home, prev |-> [loader |-> 0, url |-> Home, rev |-> 0],
         since |-> 0, init |-> 0, stamp |-> 0, result |-> "none"]

Init ==
    /\ page = [loader |-> 0, url |-> Home, idle |-> FALSE]
    /\ moves = 0
    /\ load = {}
    /\ queue = <<>>
    /\ nextReq = 1
    /\ obs = [loader |-> 0, url |-> Home, rev |-> 0, complete |-> FALSE,
              awaiting |-> FALSE]
    /\ attempt = {}
    /\ rejection = {}
    /\ icp = {}
    /\ pending = {}
    /\ granted = {}
    /\ epoch = 0
    /\ nextPend = 1
    /\ agent = Idle
    /\ clock = "primary"
    /\ ops = 0
    /\ atts = 0
    /\ sent = {}
    /\ given = [d \in Dests |-> 0]
    /\ stamps = 0
    /\ told = 0

-----------------------------------------------------------------------------
(* Chrome.                                                                 *)

(* A main-frame request is paused; it replaces the one under way.          *)
Request(d, parent) ==
    /\ nextReq <= MaxReqs
    /\ nextReq' = nextReq + 1
    /\ load' = {[id |-> nextReq, url |-> d, go |-> FALSE]}
    /\ queue' = Append(queue, [kind |-> "paused", id |-> nextReq,
                               url |-> d, parent |-> parent])

(* A link, a form, a script, a meta refresh.                               *)
PageRequests ==
    /\ \E d \in Dests : Request(d, 0)
    /\ UNCHANGED <<page, moves, obs, attempt, rejection, icp, approvalVars,
                   agent, clock, ghostVars>>

(* The server answers a request that was sent with a redirect.             *)
Redirect ==
    /\ \E l \in load : l.go /\ \E d \in Dests : Request(d, l.id)
    /\ UNCHANGED <<page, moves, obs, attempt, rejection, icp, approvalVars,
                   agent, clock, ghostVars>>

Commit ==
    /\ \E l \in load :
         /\ l.go
         /\ page' = [loader |-> page.loader + 1, url |-> l.url, idle |-> FALSE]
         /\ queue' = Append(queue, [kind |-> "navigated",
                                    loader |-> page.loader + 1,
                                    url |-> l.url])
    /\ load' = {}
    /\ moves' = moves + 1
    /\ UNCHANGED <<nextReq, obs, attempt, rejection, icp, approvalVars, agent,
                   clock, ghostVars>>

(* Page.lifecycleEvent networkAlmostIdle                                   *)
GoesIdle ==
    /\ ~ page.idle
    /\ page' = [page EXCEPT !.idle = TRUE]
    /\ queue' = Append(queue, [kind |-> "idle", loader |-> page.loader])
    /\ UNCHANGED <<moves, load, nextReq, obs, attempt, rejection, icp,
                   approvalVars, agent, clock, ghostVars>>

-----------------------------------------------------------------------------
(* The event thread; it is busy while icp holds a request.                 *)

NextEvent(kind) == icp = {} /\ queue # <<>> /\ Head(queue).kind = kind

(* record_frame; a loader shows one URL, same-document changes of it are   *)
(* the subject of DocumentObservation.                                     *)
RecordFrame(loader, url) ==
    obs' = IF obs.loader = loader THEN [obs EXCEPT !.url = url]
           ELSE [loader |-> loader, url |-> url, rev |-> obs.rev + 1,
                 complete |-> FALSE, awaiting |-> FALSE]

(* What live_document_snapshot returns.                                    *)
Document(o) == [loader |-> o.loader, url |-> o.url, rev |-> o.rev]

HandleNavigated ==
    /\ NextEvent("navigated")
    /\ RecordFrame(Head(queue).loader, Head(queue).url)
    /\ queue' = Tail(queue)
    /\ UNCHANGED <<chromeVars, attempt, rejection, icp, approvalVars, agent,
                   clock, ghostVars>>

(* record_lifecycle.  The init event comes first for each loader and       *)
(* finds the flag already reset by record_frame.                           *)
LifecycleOf(loader) == loader = obs.loader

HandleIdle ==
    /\ NextEvent("idle")
    /\ obs' = IF LifecycleOf(Head(queue).loader)
              THEN [obs EXCEPT !.complete = TRUE] ELSE obs
    /\ queue' = Tail(queue)
    /\ UNCHANGED <<chromeVars, attempt, rejection, icp, approvalVars, agent,
                   clock, ghostVars>>

(* starting_request *)
Starting ==
    obs' = [obs EXCEPT !.complete = FALSE, !.awaiting = TRUE, !.rev = @ + 1]

(* Mutant: rejections pile up.                                             *)
RejectMore(human) ==
    /\ stamps' = stamps + 1
    /\ rejection' = rejection \cup {[human |-> human, stamp |-> stamps + 1]}

(* rejection.get_or_insert; human says whether it asks for an approval.    *)
Reject(human) ==
    /\ stamps' = stamps + 1
    /\ rejection' = IF rejection = {}
                    THEN {[human |-> human, stamp |-> stamps + 1]}
                    ELSE rejection

(* Chrome fails the request, or may send it.                               *)
Fail(id) == load' = {l \in load : l.id # id}

Continue(id, att, d) ==
    /\ load' = {IF l.id = id THEN [l EXCEPT !.go = TRUE] ELSE l : l \in load}
    /\ sent' = sent \cup {<<att, d>>}

(* A request of a frame that is neither the main frame nor a known child.  *)
HandleStray ==
    /\ icp = {}
    /\ stamps < MaxStray
    /\ Reject(FALSE)
    /\ UNCHANGED <<chromeVars, queue, obs, attempt, icp, approvalVars, agent,
                   clock, ops, atts, sent, given, told>>

(* The attempt a paused request belongs to: an explicit one, or the chain  *)
(* it redirects; otherwise a new one.                                      *)
AttemptFor(e) ==
    IF \E a \in attempt : a.explicit \/ e.parent \in a.requests
    THEN CHOOSE a \in attempt : TRUE
    ELSE [orig |-> e.url, explicit |-> FALSE, source |-> {}, seen |-> FALSE,
          requests |-> {}, evaluated |-> {}, no |-> atts + 1]

Signature(a, d) == IF ~ a.seen /\ d = a.orig THEN <<"direct", d>> ELSE <<a.orig, d>>

(* intercept_navigation_request up to the evaluation.                      *)
InterceptStart ==
    /\ NextEvent("paused")
    /\ queue' = Tail(queue)
    /\ Starting
    /\ LET e == Head(queue)
           a == AttemptFor(e) IN
         \/ /\ e.url \notin Public
            /\ Reject(FALSE)
            /\ Fail(e.id)
            /\ UNCHANGED <<attempt, icp, sent, atts>>
         \/ /\ e.url \in Public
            /\ attempt' = {[a EXCEPT !.seen = TRUE,
                                     !.requests = a.requests \cup {e.id}]}
            /\ atts' = IF a.no > atts THEN a.no ELSE atts
            /\ IF e.url \in a.evaluated
               THEN Continue(e.id, a.no, e.url) /\ UNCHANGED icp
               ELSE /\ icp' = {[id |-> e.id, url |-> e.url, att |-> a.no,
                                sig |-> Signature(a, e.url),
                                source |-> IF a.source = {} THEN obs.url
                                           ELSE CHOOSE u \in a.source : TRUE,
                                verdict |-> "none"]}
                    /\ UNCHANGED <<load, sent>>
            /\ UNCHANGED <<rejection, stamps>>
    /\ UNCHANGED <<page, moves, nextReq, approvalVars, agent, clock, ops,
                   given, told>>

-----------------------------------------------------------------------------
(* evaluate_navigation_destination on destination d with signature sig.    *)
(* consume_navigation_approval looks for a capability under the approval   *)
(* lock; without one the verdict is "ask", and the request is published    *)
(* under the lock taken again, in a step of its own.                       *)

(* is_grant_valid *)
GrantValid(g, url) ==
    g.epoch = epoch /\ (g.scope = "until_navigation" => g.url = url)

(* The capabilities that fit.                                              *)
Usable(d, sig, url) ==
    {g \in granted : /\ GrantValid(g, url)
                     /\ g.sig = sig
                     /\ g.scope = Scopes[d]}

Plugins(d) == IF d \in Vetoed THEN "blocked" ELSE "ok"

(* The outcomes: a verdict with the new pending slot and grants.           *)
Evaluations(d, sig, url, clear) ==
    LET keep == {g \in granted : GrantValid(g, url)} IN
    CASE Verdicts[d] = "allow" ->
           {[verdict |-> Plugins(d), pending |-> pending, granted |-> granted]}
      [] Verdicts[d] = "block" ->
           {[verdict |-> "blocked", granted |-> granted,
             pending |-> IF clear THEN {} ELSE pending]}
      [] Verdicts[d] = "require" /\ Usable(d, sig, url) # {} ->
           {[verdict |-> Plugins(d), pending |-> pending,
             granted |-> IF Scopes[d] = "action_only"
                         THEN keep \ {g} ELSE keep] :
            g \in Usable(d, sig, url)}
      [] OTHER ->
           {[verdict |-> "ask", granted |-> keep, pending |-> pending]}

Evaluate(o) ==
    /\ pending' = o.pending
    /\ granted' = o.granted
    /\ UNCHANGED <<epoch, nextPend>>

(* replace_pending *)
Publish(d, sig) ==
    /\ pending' = {[id |-> nextPend, sig |-> sig, to |-> d,
                    scope |-> Scopes[d]]}
    /\ nextPend' = nextPend + 1
    /\ UNCHANGED <<granted, epoch>>

(* The interceptor evaluates without the observation lock.                 *)
InterceptEvaluate ==
    /\ \E i \in icp :
         /\ i.verdict = "none"
         /\ \E o \in Evaluations(i.url, i.sig, i.source, TRUE) :
              /\ Evaluate(o)
              /\ icp' = {[i EXCEPT !.verdict = o.verdict]}
    /\ UNCHANGED <<chromeVars, queue, obs, attempt, rejection, agent, clock,
                   ghostVars>>

InterceptPublish ==
    /\ \E i \in icp :
         /\ i.verdict = "ask"
         /\ Publish(i.url, i.sig)
         /\ icp' = {[i EXCEPT !.verdict = "human"]}
    /\ UNCHANGED <<chromeVars, queue, obs, attempt, rejection, agent, clock,
                   ghostVars>>

(* Mutant: whatever attempt is there now gets the destination.             *)
EvaluatedNow(a, i) == [a EXCEPT !.evaluated = a.evaluated \cup {i.url}]

(* evaluated.insert, if the attempt is still the request's own.            *)
EvaluatedIn(a, i) ==
    IF i.id \in a.requests
    THEN [a EXCEPT !.evaluated = a.evaluated \cup {i.url}] ELSE a

(* ... takes the lock again and answers.                                   *)
InterceptFinish ==
    /\ \E i \in icp :
         \/ /\ i.verdict = "ok"
            /\ attempt' = {EvaluatedIn(a, i) : a \in attempt}
            /\ Continue(i.id, i.att, i.url)
            /\ UNCHANGED <<rejection, stamps>>
         \/ /\ i.verdict \in {"blocked", "human"}
            /\ Reject(i.verdict = "human")
            /\ Fail(i.id)
            /\ UNCHANGED <<attempt, sent>>
    /\ icp' = {}
    /\ UNCHANGED <<page, moves, nextReq, queue, obs, approvalVars, agent,
                   clock, ops, atts, given, told>>

-----------------------------------------------------------------------------
(* The reviewer.  A navigation capability is bound to no document, and the *)
(* commit compares the id read before the snapshot, so that approving is   *)
(* one step; the epoch and URL are those of the commit.                    *)
Approve ==
    /\ \E p \in pending :
         /\ granted' = granted \cup {[id |-> p.id, sig |-> p.sig,
                                      scope |-> p.scope, epoch |-> epoch,
                                      url |-> obs.url]}
         /\ given' = [given EXCEPT ![p.to] = given[p.to] + 1]
    /\ pending' = {}
    /\ UNCHANGED <<chromeVars, eventVars, epoch, nextPend, agent, clock, ops,
                   atts, sent, stamps, told>>

Refuse ==
    /\ pending # {}
    /\ pending' = {}
    /\ UNCHANGED <<chromeVars, eventVars, granted, epoch, nextPend, agent,
                   clock, ghostVars>>

-----------------------------------------------------------------------------
(* The agent: navigate_with_persistent_boundary.                           *)

At(op) == agent.op = op
Go(op) == agent' = [agent EXCEPT !.op = op]
Return == agent' = Idle

(* The pending cycle present at entry is remembered.                       *)
NavigateStart ==
    /\ At("idle")
    /\ ops < MaxOps
    /\ ops' = ops + 1
    /\ \E d \in Dests :
         agent' = [Idle EXCEPT !.op = "check", !.to = d, !.stamp = stamps,
                     !.init = IF pending = {} THEN 0
                              ELSE (CHOOSE p \in pending : TRUE).id]
    /\ clock' = "primary"
    /\ UNCHANGED <<chromeVars, eventVars, approvalVars, atts, sent, given,
                   stamps, told>>

(* check_navigation_rejection: the rejection is taken, and returned.       *)
TakeRejection ==
    /\ rejection' = {}
    /\ told' = IF rejection = {} THEN told ELSE stamps

(* check_navigation_rejection takes the rejection and returns it; then the *)
(* URL is validated, interception installed and the document read, which   *)
(* may fail.                                                               *)
NavigateCheck ==
    /\ At("check")
    /\ TakeRejection
    /\ \/ Return /\ UNCHANGED obs
       \/ /\ rejection = {} /\ agent.to \in Public
          /\ RecordFrame(page.loader, page.url)
          /\ agent' = [agent EXCEPT !.op = "evaluate", !.since = moves,
                         !.prev = Document(obs')]
    /\ UNCHANGED <<chromeVars, queue, attempt, icp, approvalVars, clock,
                   ops, atts, sent, given, stamps>>

(* The document is compared and the destination evaluated under the        *)
(* observation lock.                                                       *)
NavigateEvaluate ==
    /\ At("evaluate")
    /\ \/ /\ Document(obs) # agent.prev
          /\ Return
          /\ UNCHANGED approvalVars
       \/ /\ Document(obs) = agent.prev
          /\ \E o \in Evaluations(agent.to, <<"direct", agent.to>>,
                                  agent.prev.url, FALSE) :
               /\ Evaluate(o)
               /\ CASE o.verdict = "ok" -> Go("send")
                    [] o.verdict = "ask" -> Go("publish")
                    [] OTHER -> Return
    /\ UNCHANGED <<chromeVars, eventVars, clock, ghostVars>>

NavigatePublish ==
    /\ At("publish")
    /\ Publish(agent.to, <<"direct", agent.to>>)
    /\ Return
    /\ UNCHANGED <<chromeVars, eventVars, clock, ghostVars>>

NavigateSend ==
    /\ At("send")
    /\ attempt' = {[orig |-> agent.to, explicit |-> TRUE,
                    source |-> {agent.prev.url}, seen |-> FALSE,
                    requests |-> {}, evaluated |-> {agent.to},
                    no |-> atts + 1]}
    /\ atts' = atts + 1
    /\ Starting
    /\ Go("goto")
    /\ UNCHANGED <<chromeVars, queue, rejection, icp, approvalVars, clock,
                   ops, sent, given, stamps, told>>

(* Page.navigate *)
NavigateGoto ==
    /\ At("goto")
    /\ \/ Request(agent.to, 0) /\ Go("wait")
       \/ /\ agent' = [agent EXCEPT !.op = "epoch", !.result = "error"]
          /\ UNCHANGED <<load, nextReq, queue>>
    /\ UNCHANGED <<page, moves, obs, attempt, rejection, icp, approvalVars,
                   clock, ghostVars>>

Finish(result) ==
    agent' = [agent EXCEPT !.op = "epoch", !.result = result]

(* Mutant: the flag alone, which starting_request has reset, is believed.  *)
PrimaryCompleteByFlag == obs.complete

(* primary_navigation_complete *)
PrimaryComplete ==
    obs.complete /\ ~ obs.awaiting /\ obs.loader # agent.prev.loader

(* fallback_navigation_complete, of a sample that was just recorded.       *)
FallbackComplete(o) ==
    /\ ~ o.awaiting
    /\ o.loader # agent.prev.loader \/ o.url # agent.prev.url

(* One round of the waiting loop up to the deadline of the primary signal. *)
NavigateWait ==
    /\ At("wait")
    /\ TakeRejection
    /\ \/ \E r \in rejection : Finish(IF r.human THEN "human" ELSE "error")
       \/ rejection = {} /\ PrimaryComplete /\ Finish("ok")
       \/ /\ rejection = {} /\ ~ PrimaryComplete
          /\ clock # "primary"
          /\ Go("fallback")
    /\ UNCHANGED <<chromeVars, queue, obs, attempt, icp, approvalVars, clock,
                   ops, atts, sent, given, stamps>>

(* Mutant: the last deadline is not looked at.                             *)
FallbackEndsNever == FALSE

FallbackEnds == clock = "expired"

(* ... and after it: the document is sampled, which may fail, with any     *)
(* ready state.                                                            *)
NavigateFallback ==
    /\ At("fallback")
    /\ \/ Finish("error") /\ UNCHANGED obs
       \/ /\ RecordFrame(page.loader, page.url)
          /\ \/ FallbackComplete(obs') /\ Finish("ok")
             \/ IF FallbackEnds THEN Finish("error") ELSE Go("wait")
    /\ UNCHANGED <<chromeVars, queue, attempt, rejection, icp, approvalVars,
                   clock, ghostVars>>

ClockTicks ==
    /\ agent.op \in {"wait", "fallback"}
    /\ clock # "expired"
    /\ clock' = IF clock = "primary" THEN "fallback" ELSE "expired"
    /\ UNCHANGED <<chromeVars, eventVars, approvalVars, agent, ghostVars>>

(* The end of every navigation that was sent: caches, epoch,               *)
NavigateEpoch ==
    /\ At("epoch")
    /\ epoch' = epoch + 1
    /\ Go("clear")
    /\ UNCHANGED <<chromeVars, eventVars, pending, granted, nextPend, clock,
                   ghostVars>>

(* ... attempt and rejection,                                              *)
NavigateClear ==
    /\ At("clear")
    /\ attempt' = {}
    /\ TakeRejection
    /\ agent' = [agent EXCEPT !.op = "expire", !.result =
                   IF rejection = {} THEN agent.result
                   ELSE IF \E r \in rejection : r.human THEN "human"
                   ELSE IF agent.result = "human" THEN "human" ELSE "error"]
    /\ UNCHANGED <<chromeVars, queue, obs, icp, approvalVars, clock, ops, atts, sent, given, stamps>>

(* ... and expire_navigation_approvals.                                    *)
NavigateExpire ==
    /\ At("expire")
    /\ granted' = {}
    /\ pending' = IF agent.result = "human" THEN pending
                  ELSE {p \in pending : p.id # agent.init}
    /\ IF agent.result = "ok" THEN Go("final") ELSE Return
    /\ UNCHANGED <<chromeVars, eventVars, epoch, nextPend, clock, ghostVars>>

(* A navigation that completed reads the URL it returns, or fails to.      *)
NavigateFinal ==
    /\ At("final")
    /\ RecordFrame(page.loader, page.url) \/ UNCHANGED obs
    /\ Return
    /\ UNCHANGED <<chromeVars, queue, attempt, rejection, icp, approvalVars,
                   clock, ghostVars>>

-----------------------------------------------------------------------------
(* The agent: what act does around act_inner.                              *)

ActStart ==
    /\ At("idle")
    /\ ops < MaxOps
    /\ ops' = ops + 1
    /\ agent' = [Idle EXCEPT !.op = "act_check", !.stamp = stamps]
    /\ UNCHANGED <<chromeVars, eventVars, approvalVars, clock, atts, sent,
                   given, stamps, told>>

(* Mutant: the earlier rejection is dropped instead of returned.           *)
ActCheckForgets ==
    /\ At("act_check")
    /\ rejection' = {}
    /\ Go("act_begin")
    /\ UNCHANGED <<chromeVars, queue, obs, attempt, icp, approvalVars, clock,
                   ghostVars>>

ActCheck ==
    /\ At("act_check")
    /\ TakeRejection
    /\ IF rejection # {} THEN Return ELSE Go("act_begin")
    /\ UNCHANGED <<chromeVars, queue, obs, attempt, icp, approvalVars, clock,
                   ops, atts, sent, given, stamps>>

(* begin_action_navigation, then act_inner.                                *)
ActBegin ==
    /\ At("act_begin")
    /\ attempt' = {}
    /\ Go("acting")
    /\ UNCHANGED <<chromeVars, queue, obs, rejection, icp, approvalVars, clock,
                   ghostVars>>

(* finish_action_navigation: until its deadline a rejection is returned;   *)
(* it is not called when the action failed.                                *)
ActFinish ==
    /\ At("acting")
    /\ TakeRejection \/ UNCHANGED <<rejection, told>>
    /\ Return
    /\ UNCHANGED <<chromeVars, queue, obs, attempt, icp, approvalVars, clock,
                   ops, atts, sent, given, stamps>>

Chrome == PageRequests \/ Redirect \/ Commit \/ GoesIdle

EventThread ==
    \/ HandleNavigated \/ HandleIdle \/ HandleStray
    \/ InterceptStart \/ InterceptEvaluate \/ InterceptPublish
    \/ InterceptFinish

Reviewer == Approve \/ Refuse

AgentContinues ==
    \/ NavigateCheck \/ NavigateEvaluate \/ NavigatePublish \/ NavigateSend
    \/ NavigateGoto \/ NavigateWait \/ NavigateFallback \/ NavigateEpoch
    \/ NavigateClear \/ NavigateExpire \/ NavigateFinal
    \/ ActCheck \/ ActBegin \/ ActFinish

Next ==
    \/ Chrome \/ EventThread \/ Reviewer \/ ClockTicks
    \/ NavigateStart \/ ActStart \/ AgentContinues

Spec == Init /\ [][Next]_vars

(* The agent's thread runs and time passes; nothing is assumed of Chrome   *)
(* or of the event thread.                                                 *)
FairSpec == Spec /\ WF_vars(AgentContinues) /\ WF_vars(ClockTicks)

-----------------------------------------------------------------------------

Signatures == ({"direct"} \cup Dests) \X Dests
ScopeNames == {"action_only", "until_navigation"}

Events ==
    [kind : {"paused"}, id : Nat, url : Dests, parent : Nat]
    \cup [kind : {"navigated"}, loader : Nat, url : Dests]
    \cup [kind : {"idle"}, loader : Nat]

Attempts ==
    [orig : Dests, explicit : BOOLEAN, source : SUBSET Dests, seen : BOOLEAN,
     requests : SUBSET Nat, evaluated : SUBSET Dests, no : Nat]

Intercepts ==
    [id : Nat, url : Dests, att : Nat, sig : Signatures, source : Dests,
     verdict : {"none", "ask", "ok", "blocked", "human"}]

Ops ==
    {"idle", "check", "evaluate", "publish", "send", "goto", "wait",
     "fallback", "epoch", "clear", "expire", "final", "act_check",
     "act_begin", "acting"}

(* Type invariant.                                                         *)
TypeOK ==
    /\ page \in [loader : Nat, url : Dests, idle : BOOLEAN]
    /\ moves \in Nat
    /\ load \subseteq [id : Nat, url : Dests, go : BOOLEAN]
    /\ queue \in Seq(Events)
    /\ nextReq \in Nat
    /\ obs \in [loader : Nat, url : Dests, rev : Nat, complete : BOOLEAN,
                awaiting : BOOLEAN]
    /\ attempt \subseteq Attempts
    /\ rejection \subseteq [human : BOOLEAN, stamp : Nat]
    /\ icp \subseteq Intercepts
    /\ pending \subseteq [id : Nat, sig : Signatures, to : Dests,
                         scope : ScopeNames]
    /\ granted \subseteq [id : Nat, sig : Signatures, scope : ScopeNames,
                         epoch : Nat, url : Dests]
    /\ epoch \in Nat
    /\ nextPend \in Nat
    /\ agent \in [op : Ops, to : Dests,
                  prev : [loader : Nat, url : Dests, rev : Nat],
                  since : Nat, init : Nat, stamp : Nat,
                  result : {"none", "ok", "error", "human"}]
    /\ clock \in {"primary", "fallback", "expired"}
    /\ ops \in Nat
    /\ atts \in Nat
    /\ sent \subseteq Nat \X Dests
    /\ given \in [Dests -> Nat]
    /\ stamps \in Nat
    /\ told \in Nat

(* Whatever Chrome was allowed to send - by the agent, by the page or as a *)
(* redirect, decided while other threads replaced the attempt - is public, *)
(* is neither blocked nor vetoed, and when its rule asks for an approval   *)
(* of a single action no more attempts were let through than approvals     *)
(* given for that destination.                                             *)
SentWasAdmitted ==
    /\ \A s \in sent : /\ s[2] \in Public \ Vetoed
                       /\ Verdicts[s[2]] # "block"
    /\ \A d \in Dests :
         Verdicts[d] = "require" /\ Scopes[d] = "action_only" =>
             Cardinality({s \in sent : s[2] = d}) <= given[d]

(* A rejection found in the background is not lost: until a tool call has  *)
(* returned it, or an earlier one, it stays recorded; and no navigation is *)
(* sent and no action begun by a call while one recorded before that call  *)
(* is unreported.                                                          *)
RejectionIsReported ==
    /\ stamps > told => rejection # {}
    /\ agent.op \in {"evaluate", "publish", "send", "goto", "act_begin", "acting"} =>
         \A r \in rejection : r.stamp > agent.stamp

(* A navigation reports success only after Chrome committed a document     *)
(* since the navigation read the page it starts from.                      *)
CompletedBecauseChromeMoved == agent.result = "ok" => moves > agent.since

(* What became of a navigation is told as it was: a rejection is reported  *)
(* and a success is one.                                                   *)
OutcomeIsTold == RejectionIsReported /\ CompletedBecauseChromeMoved

(* Every call of the agent returns: the waiting loop ends by its deadline  *)
(* whatever Chrome and the event thread do.                                *)
CallsReturn == agent.op # "idle" ~> agent.op = "idle"

-----------------------------------------------------------------------------
(* The strengthening that makes the safety properties inductive.           *)

(* Destinations that may be sent at all.                                   *)
Admitted == {d \in Public \ Vetoed : Verdicts[d] # "block"}

(* What has been let through, or will be, was evaluated for that           *)
(* destination; an approval asked for or given names it.                   *)
AdmissionOK ==
    /\ \A s \in sent : s[2] \in Admitted
    /\ \A a \in attempt : a.evaluated \subseteq Admitted
    /\ \A i \in icp : /\ i.url \in Public
                      /\ i.sig[2] = i.url
                      /\ i.verdict = "ok" => i.url \in Admitted
    /\ \A p \in pending : p.sig[2] = p.to
    /\ agent.op \in {"evaluate", "publish", "send", "goto"} => agent.to \in Public
    /\ agent.op = "send" => agent.to \in Admitted

(* The attempts that were, or may be, let through to d, and the            *)
(* capabilities for it that are left.                                      *)
Passes(d) ==
    {s \in sent : s[2] = d}
    \cup {<<a.no, d>> : a \in {b \in attempt : d \in b.evaluated}}
    \cup {<<i.att, d>> : i \in {j \in icp : j.url = d /\ j.verdict = "ok"}}

Capabilities(d) == {g \in granted : g.sig[2] = d}

OnItsWay(d) == IF agent.op = "send" /\ agent.to = d THEN 1 ELSE 0

(* Every approval is a capability, or was spent on one attempt.            *)
CreditOK ==
    /\ IsFiniteSet(granted)
    /\ \A s \in sent : s[1] <= atts
    /\ \A a \in attempt : a.no <= atts
    /\ \A i \in icp : /\ i.att <= atts
                      /\ \A a \in attempt : i.id \in a.requests => a.no = i.att
    /\ \A d \in Dests :
         Verdicts[d] = "require" /\ Scopes[d] = "action_only" =>
             Cardinality(Passes(d)) + Cardinality(Capabilities(d)) + OnItsWay(d)
                 <= given[d]

NoneNavigated == \A k \in 1 .. Len(queue) : queue[k].kind # "navigated"

(* A document is committed only after the event of the one before it was   *)
(* handled, for its own paused request came after that event.              *)
OrderOK ==
    /\ \A k \in 1 .. Len(queue) :
         /\ queue[k].kind = "paused" => queue[k].id < nextReq
         /\ queue[k].kind = "navigated" => queue[k].loader = page.loader
    /\ \A i \in icp : i.id < nextReq
    /\ \A l \in load :
         /\ l.id < nextReq
         /\ l.go => NoneNavigated
         /\ \A i \in icp : i.id = l.id => NoneNavigated
         /\ \A j, k \in 1 .. Len(queue) :
              queue[k].kind = "paused" /\ queue[k].id = l.id /\ k < j =>
                  queue[j].kind # "navigated"

(* The document observed is never newer than Chrome's, and never older     *)
(* than the one a navigation starts from.                                  *)
DocumentOK ==
    /\ page.loader = moves
    /\ obs.loader <= page.loader
    /\ agent.op \in {"evaluate", "publish", "send", "goto", "wait", "fallback"} =>
         /\ agent.since = agent.prev.loader
         /\ agent.prev.loader <= obs.loader
         /\ page.loader = agent.prev.loader => page.url = agent.prev.url

(* A call knows the rejections recorded before it, and has no outcome      *)
(* before it starts.                                                       *)
CallOK ==
    /\ agent.stamp <= stamps
    /\ agent.op = "check" => agent.result = "none"

NavigationInv ==
    /\ TypeOK
    /\ AdmissionOK
    /\ CreditOK
    /\ OrderOK
    /\ DocumentOK
    /\ CallOK
    /\ OutcomeIsTold
=============================================================================
