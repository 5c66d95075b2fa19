----------------------------- MODULE McpServer -----------------------------
(***************************************************************************)
(* McpServer::call_tool_output over a managed Chrome: plan gate, dispatch, *)
(* the one retry of read-only tools, the decision to restart the browser   *)
(* and its rate limit, and the usage meters with their price.              *)
(*                                                                         *)
(* A request is the tool with the argument that gates or meters it.  What  *)
(* the tools do to the page is in module McpBackend.                       *)
(***************************************************************************)
EXTENDS Naturals, Sequences, FiniteSetsExt

CONSTANTS
    SessionTools,   \* among full, delta, som, clean, act, ask, skill
    Plans,          \* plan tiers to start with: 1 developer, 2 pro, 3 enterprise
    Probes,         \* whether is_pid_alive can tell (unix) or returns None
    MaxAliveSkips,  \* MAX_ALIVE_SKIPS_BEFORE_RESTART
    RestartMax,     \* RESTART_RATE_LIMIT_MAX
    RestartWindow,  \* RESTART_RATE_LIMIT_WINDOW, in ticks
    CostMax,        \* u64::MAX in the prices
    MaxCalls,       \* bound: tool calls
    MaxTime,        \* bound: ticks of the clock
    MaxServerFaults       \* bound: crashes, hangs and broken tabs

ServerAssumption ==
    /\ SessionTools \subseteq {"full", "delta", "som", "clean", "act", "ask", "skill"}
    /\ Plans \subseteq 1..3
    /\ MaxAliveSkips \in Nat /\ RestartMax \in Nat
    /\ RestartWindow \in Nat /\ CostMax \in Nat

ASSUME ServerAssumption

VARIABLES
    plan,
    chrome,     \* process, whether the browser answers, whether the tab does
    request,    \* the call being served
    aliveSkips, \* consecutive_alive_skips
    attempts,   \* restart_history
    clock,
    meters,     \* UsageMeters
    skillDelta, \* last_skill_delta.actions_executed
    serverPast  \* auxiliary: calls, faults, did, lost, unattended, tried

serverVars == <<plan, chrome, request, aliveSkips, attempts, clock, meters,
                skillDelta, serverPast>>

Idle == [tool |-> "none", at |-> "idle", tries |-> 0, effects |-> 0, result |-> "none"]

(* PlanFeature::required_plan *)
RequiredPlan(tool) ==
    CASE tool \in {"delta", "som"} -> 2 [] tool = "ask" -> 3 [] OTHER -> 1

(* check_plan_gate, ensure_plan_feature *)
Gated(tool) == plan < RequiredPlan(tool)

(* Mutant: an act whose answer was lost is sent again.                     *)
IsRetrySafeOrAct(tool) == tool \in {"full", "delta", "som", "clean", "act"}

IsRetrySafe(tool) == tool \in {"full", "delta", "som", "clean"}

MeterNames == {"fast", "full", "delta", "speculative", "visual", "actions", "hitl"}

Healthy == [process |-> "alive", answers |-> TRUE, tab |-> TRUE]

ServerInit ==
    /\ plan \in Plans
    /\ chrome = Healthy
    /\ request = Idle
    /\ aliveSkips = 0
    /\ attempts = <<>>
    /\ clock = 0
    /\ meters = [m \in MeterNames |-> 0]
    /\ skillDelta = 0
    /\ serverPast = [calls |-> 0, faults |-> 0, did |-> 0, lost |-> 0,
                     unattended |-> 0, tried |-> <<>>]

-----------------------------------------------------------------------------
(* Chrome and time.                                                        *)

Fault(next) ==
    /\ serverPast.faults < MaxServerFaults
    /\ chrome' = next
    /\ serverPast' = [serverPast EXCEPT !.faults = @ + 1]
    /\ UNCHANGED <<plan, request, aliveSkips, attempts, clock, meters, skillDelta>>

(* the PID of a dead Chrome may be reused by another one *)
ChromeCrashes ==
    \E p \in {"dead", "reused"} :
        Fault([process |-> p, answers |-> FALSE, tab |-> FALSE])

ChromeHangs == chrome.answers /\ Fault([chrome EXCEPT !.answers = FALSE, !.tab = FALSE])

TabBreaks == chrome.tab /\ Fault([chrome EXCEPT !.tab = FALSE])

Recovers ==
    /\ chrome.process = "alive" /\ ~chrome.tab
    /\ Fault(Healthy)

Tick ==
    /\ clock < MaxTime
    /\ clock' = clock + 1
    /\ UNCHANGED <<plan, chrome, request, aliveSkips, attempts, meters,
                   skillDelta, serverPast>>

-----------------------------------------------------------------------------
(* A tool call.                                                            *)

(* Known tool and valid arguments; a gated one is answered at once *)
CallTool(tool) ==
    /\ request = Idle
    /\ serverPast.calls < MaxCalls
    /\ serverPast' = [serverPast EXCEPT !.calls = @ + 1]
    /\ request' = IF Gated(tool) THEN Idle
                  ELSE [Idle EXCEPT !.tool = tool, !.at = "dispatch"]
    /\ UNCHANGED <<plan, chrome, aliveSkips, attempts, clock, meters, skillDelta>>

(* dispatch_tool: the outcomes the tool can have, the actions it took, and *)
(* whether the skill engine ran: a skill whose navigation is refused, or     *)
(* that is not installed, ends before the engine.                            *)
Outcomes(tool) ==
    LET Of(results, dids, ran) == [result : results, did : dids, ran : {ran}]
    IN  IF ~chrome.tab
        THEN Of({"transport", "closed"}, {0}, FALSE)
             \cup (IF tool = "skill" THEN Of({"ok", "failed"}, {0}, TRUE) ELSE {})
        ELSE Of({"approval", "declined", "failed"}, {0}, FALSE)
             \cup (CASE tool = "act"   -> Of({"ok", "transport"}, {1}, FALSE)
                     [] tool = "skill" -> Of({"ok", "failed"}, 0..1, TRUE)
                     [] OTHER          -> Of({"ok"}, {0}, FALSE))

(* the engine ran, to a report or an error: its delta replaces the last one *)
RunsSkill(o) == o.ran

Again(o) ==
    IsRetrySafe(request.tool) /\ request.tries = 0 /\ o.result = "transport"

Dispatch ==
    /\ request.at = "dispatch"
    /\ \E o \in Outcomes(request.tool) :
         /\ request' = [request EXCEPT
                           !.at = IF Again(o) THEN "dispatch" ELSE "judge",
                           !.tries = 1, !.effects = @ + o.did,
                           !.result = o.result]
         /\ serverPast' = [serverPast EXCEPT
                !.did = @ + o.did,
                !.lost = @ + (CASE RunsSkill(o) -> skillDelta
                                [] o.result = "transport" -> o.did
                                [] OTHER -> 0)]
         /\ skillDelta' = IF RunsSkill(o) THEN o.did ELSE skillDelta
    /\ UNCHANGED <<plan, chrome, aliveSkips, attempts, clock, meters>>

Disconnected == request.result \in {"transport", "closed"}

(* is_chrome_process_alive() == Some(true) *)
SeemsAlive == Probes /\ chrome.process \in {"alive", "reused"}

Unattended(n) == serverPast' = [serverPast EXCEPT !.unattended = n]

(* Mutant: a live process excuses any number of disconnects.               *)
SkipsAlways == SeemsAlive

Skips == SeemsAlive /\ aliveSkips < MaxAliveSkips

SkipRestart ==
    /\ request.at = "judge" /\ Disconnected /\ Skips
    /\ aliveSkips' = IF aliveSkips < MaxAliveSkips THEN aliveSkips + 1 ELSE aliveSkips
    /\ request' = Idle
    /\ Unattended(IF chrome.answers THEN 0 ELSE serverPast.unattended + 1)
    /\ UNCHANGED <<plan, chrome, attempts, clock, meters, skillDelta>>

(* Mutant: the health check has no timeout.                                *)
ConfirmUntimed ==
    /\ request.at = "judge" /\ Disconnected /\ ~Skips
    /\ chrome.answers
    /\ aliveSkips' = 0
    /\ request' = Idle
    /\ Unattended(0)
    /\ UNCHANGED <<plan, chrome, attempts, clock, meters, skillDelta>>

(* confirm_browser_disconnected: a browser-level request, not the tab's,   *)
(* that counts as unanswered after HEALTH_CHECK_TIMEOUT                    *)
Confirm ==
    /\ request.at = "judge" /\ Disconnected /\ ~Skips
    /\ aliveSkips' = 0
    /\ request' = IF chrome.answers THEN Idle ELSE [request EXCEPT !.at = "restart"]
    /\ Unattended(0)
    /\ UNCHANGED <<plan, chrome, attempts, clock, meters, skillDelta>>

(* The attempts popped from the front: up to the first that is not too old *)
Expired == {n \in 0..Len(attempts) :
              n < Len(attempts) => clock - attempts[n + 1] <= RestartWindow}

Recent == SubSeq(attempts, 1 + Min(Expired), Len(attempts))

(* Mutant: only a relaunch that succeeds counts against the limit.         *)
CountedSuccessOnly(succeeds) == IF succeeds THEN Append(Recent, clock) ELSE Recent

Counted(succeeds) == Append(Recent, clock)

(* handle_browser_disconnect.  A relaunch that fails after Chrome started  *)
(* leaves the new browser with the old page.                               *)
RestartBrowser ==
    /\ request.at = "restart"
    /\ request' = Idle
    /\ \/ /\ Len(Recent) >= RestartMax
          /\ attempts' = Recent
          /\ UNCHANGED <<chrome, serverPast>>
       \/ /\ Len(Recent) < RestartMax
          /\ \E next \in {Healthy, [Healthy EXCEPT !.tab = FALSE], chrome} :
                /\ chrome' = next
                /\ attempts' = Counted(next = Healthy)
          /\ serverPast' = [serverPast EXCEPT !.tried = Append(@, clock)]
    /\ UNCHANGED <<plan, aliveSkips, clock, meters, skillDelta>>

-----------------------------------------------------------------------------
(* Meters and prices.                                                      *)

Bump(names, n) == [m \in MeterNames |-> meters[m] + IF m \in names THEN n ELSE 0]

(* Mutant: every act that returns a payload is charged.                    *)
RecordUsageOfAnyAct(tool, result, hit) ==
    CASE result = "approval" -> Bump({"hitl"}, 1)
      [] result # "approval" /\ tool = "act" -> Bump({"actions"}, 1)
      [] OTHER -> meters

RecordUsage(tool, result, hit) ==
    CASE result = "approval" -> Bump({"hitl"}, 1)
      [] result = "ok" /\ tool = "delta" -> Bump({"delta"}, 1)
      [] result = "ok" /\ tool = "full" ->
            IF hit THEN Bump({"speculative"}, 1) ELSE Bump({"fast", "full"}, 1)
      [] result = "ok" /\ tool = "som" -> Bump({"visual"}, 1)
      [] result = "ok" /\ tool = "act" -> Bump({"actions"}, 1)
      [] result = "ok" /\ tool = "ask" -> Bump({"hitl"}, 1)
      [] result \in {"ok", "declined"} /\ tool = "skill" ->
            Bump({"actions"}, skillDelta)
      [] OTHER -> meters

(* any result that is not a disconnect; an error result meters nothing *)
Finish(hit) ==
    /\ request.at = "judge" /\ ~Disconnected
    /\ hit => request.tool = "full"
    /\ meters' = IF request.result = "failed" THEN meters
                 ELSE RecordUsage(request.tool, request.result, hit)
    /\ skillDelta' = IF request.tool = "skill" /\ request.result \in {"ok", "declined"}
                     THEN 0 ELSE skillDelta
    /\ aliveSkips' = IF request.result = "failed" THEN aliveSkips ELSE 0
    /\ request' = Idle
    /\ Unattended(0)
    /\ UNCHANGED <<plan, chrome, attempts, clock>>

(* pricing_rate_card, in units of five micro-dollars *)
Rate(tier) ==
    CASE tier = 1 -> [m \in MeterNames |-> 0]
      [] tier = 2 -> [fast |-> 20, full |-> 50, delta |-> 10, speculative |-> 4,
                      visual |-> 200, actions |-> 15, hitl |-> 300]
      [] tier = 3 -> [fast |-> 16, full |-> 40, delta |-> 8, speculative |-> 3,
                      visual |-> 170, actions |-> 12, hitl |-> 240]

(* Mutant: the sum wraps around.                                           *)
WrappingAdd(x, y) == (x + y) % (CostMax + 1)

SaturatingAdd(x, y) == IF x + y > CostMax THEN CostMax ELSE x + y

SaturatingMul(x, y) == IF x * y > CostMax THEN CostMax ELSE x * y

Charge(m, used) == SaturatingMul(used[m], Rate(plan)[m])

(* estimate_usage_cost's total, audit retention apart *)
Total(used) ==
    LET states == SaturatingAdd(SaturatingAdd(SaturatingAdd(
                      Charge("fast", used), Charge("full", used)),
                      Charge("delta", used)), Charge("speculative", used))
    IN  SaturatingAdd(SaturatingAdd(SaturatingAdd(states,
            Charge("visual", used)), Charge("actions", used)), Charge("hitl", used))

-----------------------------------------------------------------------------
ServerSteps ==
    \/ Dispatch \/ SkipRestart \/ Confirm \/ RestartBrowser
    \/ \E hit \in BOOLEAN : Finish(hit)

ServerNext ==
    \/ \E tool \in SessionTools : CallTool(tool)
    \/ ServerSteps
    \/ ChromeCrashes \/ ChromeHangs \/ TabBreaks \/ Recovers \/ Tick

ServerSpec == ServerInit /\ [][ServerNext]_serverVars

(* the server thread runs *)
ServerFairness == WF_serverVars(ServerSteps)

-----------------------------------------------------------------------------
(* One act call does at most one action, however its answer got lost.      *)
ActsOnce == request.tool = "act" => request.effects <= 1

(* A browser that answers nothing is restarted, or found to be restarting  *)
(* too often, after at most MaxAliveSkips calls were told to try again.    *)
SilentBrowserIsAttended == serverPast.unattended <= MaxAliveSkips

(* In any window at most RestartMax relaunches are tried, failed ones too. *)
RestartsAreLimited ==
    Cardinality({i \in DOMAIN serverPast.tried :
                    clock - serverPast.tried[i] <= RestartWindow}) <= RestartMax

(* Every action done is metered once, except one whose answer was lost and *)
(* those of a skill that ended in an error: they wait in last_skill_delta  *)
(* and are lost if another skill runs before they are taken.               *)
ActionsAreMetered ==
    request = Idle =>
        meters.actions + skillDelta + serverPast.lost = serverPast.did

(* The price of a session never falls as it goes on, at the limit of u64   *)
(* either.                                                                 *)
PriceNeverFalls ==
    [][meters' # meters => Total(meters') >= Total(meters)]_serverVars

(* The types of what the server keeps.                                      *)
Chromes == [process: {"alive", "dead", "reused"}, answers: BOOLEAN, tab: BOOLEAN]

Requests == [tool: SessionTools \cup {"none"}, at: {"idle", "dispatch", "judge", "restart"},
             tries: 0..1, effects: Nat,
             result: {"none", "ok", "approval", "declined", "failed", "transport", "closed"}]

Pasts == [calls: Nat, faults: Nat, did: Nat, lost: Nat, unattended: Nat, tried: Seq(Nat)]

ServerTypeOK ==
    /\ plan \in 1..3 /\ chrome \in Chromes
    /\ request \in Requests /\ (request.at = "idle" => request = Idle)
    /\ aliveSkips \in 0..MaxAliveSkips
    /\ attempts \in Seq(Nat) /\ clock \in Nat
    /\ meters \in [MeterNames -> Nat] /\ skillDelta \in Nat
    /\ serverPast \in Pasts

(* Nothing was done before a dispatch, and at most one action in it.        *)
DoneOnce == request.effects <= 1 /\ (request.at = "dispatch" => request.effects = 0)

(* What was done is metered, held, lost or owed by the call under way.      *)
Owed == IF request.at = "judge" /\ request.tool = "act" /\ request.result = "ok"
        THEN 1 ELSE 0

MetersBalance == meters.actions + skillDelta + serverPast.lost + Owed = serverPast.did

(* The history holds the last relaunches tried; those it forgot are too     *)
(* old to count.                                                            *)
HistoryIsRecent ==
    LET forgotten == Len(serverPast.tried) - Len(attempts)
    IN  /\ Len(attempts) <= RestartMax /\ forgotten \in Nat
        /\ \A i \in 1..Len(attempts) : attempts[i] = serverPast.tried[forgotten + i]
        /\ \A i \in 1..forgotten : clock - serverPast.tried[i] > RestartWindow

(* The inductive invariant behind the properties of a recovery.             *)
ServerInv == /\ ServerTypeOK /\ DoneOnce /\ MetersBalance /\ HistoryIsRecent
             /\ serverPast.unattended <= aliveSkips

(* Recovering from a browser that went away repeats no action, is neither  *)
(* put off nor repeated without end, and bills what was done.              *)
RecoveryIsSafe ==
    /\ [](ActsOnce /\ SilentBrowserIsAttended /\ RestartsAreLimited
          /\ ActionsAreMetered)
    /\ PriceNeverFalls

(* Every call is answered.                                                 *)
CallsAreAnswered == request.at # "idle" ~> request.at = "idle"
=============================================================================
