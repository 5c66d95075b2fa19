# TLA+ models of dragon-head

dragon-head is a governed browser runtime for AI agents.  An agent drives
Chrome through an MCP server; every action it performs on a page is first
evaluated against policy rules, and where a rule says so a human has to approve
it, in the chat of the agent or out of band through a Slack bridge.  What an
approval is worth depends on concurrency that tests hardly reach: the page
navigates by itself, Chrome's events arrive late, reviewers click twice, phases
fail half way, processes crash.  Around that core stand the services the agent
really talks to - state capture and delivery, speculation, skills, plugins,
extraction, the session vault, the audit log, the MCP server and its transport
- each with limits, retries, caches and failure paths of its own.  These modules
model both, check them with TLC on small instances, and prove the safety
properties with TLAPS for every value of the constants.

All paths below are relative to the repository (`src/` is its root).

- [1. The system](#1-the-system)
- [2. Modules and how they correspond to the code](#2-modules-and-how-they-correspond-to-the-code)
- [3. Runs, bounds, fairness](#3-runs-bounds-fairness)
- [4. Proofs](#4-proofs)
- [5. Where code and documents disagree](#5-where-code-and-documents-disagree)
- [6. Plan](#6-plan)

## 1. The system

### Components

| component | state | operations | what makes it correct |
|---|---|---|---|
| document observation (`persistent_navigation.rs`, `approval_event_barrier.rs`) | `ObservationState` (frame, loader, URL, revision), generation | event listener, `starting_request`, `live_document_snapshot`, `approval_document_snapshot`, `drain` | a revision that did not move means the document did not change |
| page approvals (`policy.rs`, `act.rs`, `approval_context.rs`, `page_navigation.rs` of `core-runtime/src/browser`) | `PolicyApprovalState` (one pending slot, a list of grants), navigation epoch, policy engine | `act`, `enforce_policy`, `consume_granted_policy_approval`, approve, reject, `navigate`, `set_policy_rules` | an approval is used on the document it was given for, as often as its scope allows, and is gone when the rules change |
| public navigation (`navigation_policy.rs`, `persistent_navigation.rs`, `navigation.rs`) | current attempt, navigation capabilities, rejection flag | Fetch interception, redirects, destination approvals, completion with primary and fallback signal | no request leaves for a destination the rules did not allow; a refusal is told to the call it belongs to |
| policy engine (`policy.rs` of `core-runtime/src`) | rules | validate, `evaluate`, outcome projection | the first matching rule decides and is the one named; amounts only tighten it |
| self-healing (`dom_signature.rs`, `act.rs`) | signature per stable key | record, score, best match, lookup by id, key, signature | a lost target is found again or not at all, never mistaken |
| HITL bridge (`bridge.rs`, `gateway.rs`, `server.rs`, `notifier.rs`) | minted-id slot, token map, resolution registry, progress per request | `poll_once`, `resolve` (claim, gateway, audit, chat), eviction | a click decides what its prompt showed, once, and is recorded |
| HITL audit trail (`hitl-bridge/src/audit.rs`) | file, index directory, recent records | `prepare`, `verify_writable`, `record`, `read_all` | one readable record per id, acknowledged records survive |
| audit log and sinks (`audit.rs`, `audit_sink.rs`, `audit_replay.rs`) | recent events, message queue, rolling file, webhook queue | `log`, worker thread, rotation, retry, replay | what is counted as written can be read; the chain of snapshots and patches can be replayed |
| semantic rendering (`sre/*`, `capture.rs`) | last state, dirty paths, stable keys, worker queues | subscribe, refined capture, normalise, pipeline, choose update | reused parts are current; an update applied to the old state gives the new one |
| prompt-injection filter (`prompt_injection.rs`) | mode | sanitize | what is detected reaches the reader marked, or not at all |
| speculative engine (`speculative/*`, `speculative_state.rs`, `backend.rs`) | transition model, last served prediction, caches, delta baseline | serve, observe, correct, export, import | nothing is learned from a state that was only predicted |
| session vault (`session_vault.rs`, `browser/vault.rs`) | encrypted sessions, keys, two locks | store, load, rotate, retire | a failed or dropped rotation loses no session |
| skills engine (`skills-engine/src/lib.rs`) | cursor, retries per step, extracted values | validate, run, retry, branch, handoff | an act was verified; a run ends |
| plugin host (`plugin-host/src/*`, `plugins.rs`, `plugin_hooks.rs`) | registered packages, instances, hook points | verify, load, wire, call | only signed code runs; a plugin may veto an action, never allow one |
| extraction (`schema_registry.rs`, `extract.rs`, `backend_tools.rs`) | registry of rules | parse, register, extract, diagnose | what is missing is explained |
| MCP server (`server.rs`, `lib.rs`, `metering.rs`, `plan.rs`) | browser, skip counter, restart history, meters | tool calls, retry, browser recovery, plan gate, metering | an act is not repeated; a silent browser is attended to; every call is answered |
| stdio transport (`main.rs`, `protocol.rs`) | the line being read | read, discard, dispatch, answer | answers stay in step with requests |
| marketplace (`marketplace/src/lib.rs`) | none | sign, `verify_domain_pack` | a pack is accepted exactly as its author published it |
| configuration and CLI, browser client and visual capture, privacy patterns, benchmarks, npm launcher | none or trivial | text processing, parsing, start-up | outside the models |

### How they interact

`act` (agent thread, one at a time: the tool calls take the session exclusively)
calls `enforce_policy`, which calls the observation for a document snapshot,
captures the page, evaluates the engine and consults the approvals.  The same
`PageSession` is reached by the bridge's threads through
`PageSessionGateway`: they read the pending slot, approve and reject it.  The
observation is shared by callers and by the tab's event thread, which alone
sees Page events; a caller reads the frame tree over CDP, which overtakes those
events.  In the bridge, one thread polls the gateway and posts prompts while
HTTP workers resolve clicks; they share the minted-id slot, the token map, the
registry and the audit trail.  The provider behind the gateway may return
another session after the MCP server restarted the browser.

The agent's requests come in over `StdioTransport`, one line at a time, and are
executed by `McpServer`, which gates, meters and, if the browser is gone,
recovers it; the tools themselves work on `McpBackend`'s caches and on the
page.  A capture runs the plugins' state hooks (`PluginHost`), is normalised
(`SemanticCapture`) and delivered as nothing, a patch or a state
(`StateDelivery`).  `SkillRuns` drives the same page through a runtime trait,
`SessionVault` stores its cookies, and everything writes to `AuditLog`, whose
worker thread is the only one that touches the sinks.

### Hard behaviours

`PROJECT.json` lists each of them with its line under "hazards".  The ones that
shape the models: a read that overtakes queued events (A -> B -> A navigations
become invisible); several unlocked CDP calls between reading the pending slot
and committing a decision; two locks taken one after the other by
`set_policy_rules` and by `navigate`; an attempt that is replaced while its
request is being judged; clicks that are late, repeated or contradictory; phases
of a resolution that fail after having taken effect; a registry, a queue, a
rotation limit or a restart budget that is reached; futures dropped at an await
while others hold a lock; a prediction served in place of a capture; a plugin
that answers and then traps; a crash between any two writes.

## 2. Modules and how they correspond to the code

| module | models | extends |
|---|---|---|
| `DocumentObservation` | observation, event queue, snapshots, barrier | |
| `PageApprovals` | act, enforcement, grants, review, navigation, rule changes | `DocumentObservation` |
| `PublicNavigation` | Fetch interception, attempts, destination approvals, completion | |
| `HitlBridge` | polling, id minting, registry, resolve | |
| `BridgeAuditTrail` | the trail's file, index and memory | |
| `PolicyEngine` | validation, matching, outcome projection | |
| `SelfHealing` | signatures, scores, the lookups of `act` | |
| `SemanticCapture` | event bridge, dirty paths, refined normalisation, stable keys | |
| `SrePipeline` | render, SRE and audit workers and their channels | |
| `StateDelivery` | sanitizing, hash, update choice, fast and full selections | |
| `McpBackend` | answer cache, delta baseline, cursors, speculative engine | |
| `McpServer` | tool calls, retry, recovery, plan gate, meters | |
| `StdioTransport` | framing and JSON-RPC | |
| `SkillRuns` | skill validation and the run loop | |
| `SessionStore` | what the vault promises: an atomic store of plaintexts | |
| `SessionVault` | futures, locks, keys, rotation; implements `SessionStore` | instantiates `SessionStore` |
| `PluginHost` | signed packages, wiring, calls, hooks | |
| `Extraction` | extraction rules, the two scripts, the extract tool | |
| `Marketplace` | signed domain packs | |
| `AuditLog` | recent events, worker, rolling files, webhook, replay | |
| `PageApprovals_proofs` | theorems about approvals and the observation they rest on | `PageApprovals` |
| `HitlBridge_proofs`, `BridgeAuditTrail_proofs`, `PublicNavigation_proofs`, `SemanticCapture_proofs` | theorems | the modules they name |
| `Storage_proofs` | theorems about what is kept | `AuditLog`, `SessionVault` |
| `Admission_proofs` | theorems about what is let in | `Marketplace`, `SkillRuns`, `PolicyEngine`, `PluginHost` |
| `Services_proofs` | theorems about the services around a page | `SelfHealing`, `StateDelivery`, `StdioTransport`, `McpBackend`, `Extraction`, `McpServer` |
| `MCPageApprovals`, `MCPublicNavigation`, `MCHitlBridge`, `MCBridgeAuditTrail`, `MCSemanticCapture` | instances for TLC | the modules they name |
| `MCHitl` | instance of the bridge and its trail | `HitlBridge`, `BridgeAuditTrail` |
| `MCServices`, `MCProgress` | instances of the services, for safety and for liveness | the modules of the services |

`PageApprovals` and `PublicNavigation` describe the same session from two sides:
the first what an approval of an element action is worth, with the document
observation in full; the second what may leave the browser and what a navigation
call reports, with the observation reduced to the attempt it belongs to.  The
other services meet through values only (a state, a verdict, an event) and share
no variables in these models, so `MCServices` and `MCProgress` do not multiply
them (nor does `MCHitl` the bridge and its trail): a variable `part` picks one component at the start, that component takes
all the steps of a behaviour, and the others rest in an initial state.  The
states reached are the sum, not the product, of the components' state spaces.

Definitions keep the names of the functions they model; the exact lines are in
the "map" of `PROJECT.json`.  Definitions whose comment begins with "Mutant:"
are slightly wrong versions of their neighbours.  They are not part of any
specification; putting one in place of its neighbour must make TLC report the
property named in `PROJECT.json`, which shows that the property depends on that
piece of code.  A property that is a conjunction of named parts has such a
neighbour for the part it lists in `PROJECT.json`, and most of the others have
one in the module as well.

### DocumentObservation

Chrome is external.  `hist` is the sequence of all main-frame locations it has
shown; `seen` says how many of them the event thread has been told about, so
the event queue is `hist` from `seen + 1` on.  A location is a loader, a path
(URL without fragment) and a fragment; a loader stands for the pair of frame id
and loader id, which the code always compares together.

`obs` and `gen` are the code's `ObservationState` and generation.  `RecordUrl`
and `RecordFrame` are its two update functions: the revision moves when the
loader or the path changes, the generation also when the fragment does.
`DeliverEvent` is the listener, `StartingRequest` is `starting_request`.

A thread that takes a snapshot goes through `stage`: `sampling` (generation
read), `sampled` (answer of `Page.getFrameTree` in hand, not yet recorded),
`recorded` (end of `live_document_snapshot`), `marked` (the barrier's
`console.debug` marker was evaluated), `verified` (marker acknowledged and
observation compared: end of `approval_document_snapshot`), `failed`.  Each
stage change is one step since the code gives up its lock there.  Both retry
loops and the marker's timeout are modelled.  `snap[t].at` is auxiliary: the
index in `hist` the answer described.

### PageApprovals

Every step is a step of `DocumentObservation` or leaves its variables alone
(lemma `PageStepObserves`), so what is proved there holds here.  `pc` holds the
operation of each thread: `document`, `capture`, `recheck` are `enforce_policy`
up to the evaluation, `consume` and `consume_lock`
`consume_granted_policy_approval` before and under its locks, `publish`
`set_pending_policy_approval_for_document`, then the plugins' veto, the action
by backend node id, the stable-key fallback and self-healing, which enforces
again.  `approve` is the reviewer between reading the slot and
`commit_pending_policy_approval`.  The policy engine is a constant function
from path and target to a verdict; `set_policy_rules` picks another.  A
capture takes an index of `hist` (`cap`), so that "the tree the reviewer was
shown" can be related to documents.  `navigate` here is the internal
`PageSession::navigate` (epoch, then pending slot); the public boundary with its
destination approvals is `PublicNavigation`.  The agent's own
`ask_human` approval is an approval by the thread `Agent`.

Abstracted: the text of targets, signatures and rules (model values), uuids
(a counter, since the code only compares them), grants as a set instead of a
Vec (the id makes entries distinct; any matching grant may be the first).

### HitlBridge

The runtime's side is reduced to what `PageApprovals` shows about it: one
pending request per session, each with an identity of its own, decided only if
it is still the pending one.  `poll` and `work[w]` are the polling thread and
the HTTP workers; each change of `pc` is a point where a lock is released or an
external call happens.  `ObservePending` is the single-slot id cache,
`MakeRoom` and `MarkTerminal` the registry's eviction, `prog` the progress
objects (shared through `Arc`, so a worker may still hold one the registry has
forgotten).  Chat may act on a call and still report an error, and a click on
any prompt ever posted may arrive at any time, any number of times up to
`MaxClicks`.  The audit trail appears with its promise: one record per id, an
error possible after the append.  That a failing sync may let a retry append a
second copy of the same record (`audit.rs:256`) is left to `BridgeAuditTrail`.

### BridgeAuditTrail

One mutex covers a call, so there is one program counter; crashes fall between
any two steps.  The file is a sequence of chunks, because `writeln!` on an
unbuffered `File` writes text and newline separately.  `Lines` is what a reader
can parse.  A behaviour chooses its set of faults once (`faults`): torn writes,
failing syncs, power loss, replayed ids.  That keeps each property's exceptions
explicit: `OneRecordPerId` excludes failing syncs, `AckedSurvives` excludes
torn writes and the combination of power loss with replay.

### PublicNavigation

Chrome pauses every main-frame document request; the tab's event thread takes
paused requests and page events from one queue.  The interceptor judges a
request in two locked parts with the evaluation between them (`icp`): first it
matches the request with the attempt, then policy, plugins' veto and the
consumption of a capability or the replacement of the pending request, then it
continues or fails the request.  The agent's call evaluates, publishes its
attempt, sends, and polls for completion: by the primary signal (lifecycle events
of its document), by the fallback (the document is there and idle), by
rejection or by its deadline.  The page starts requests of its own, servers
redirect, a reviewer approves or rejects, attempts replace each other.  The
navigation rules are constants (`Verdicts`, `Scopes`); replacing rules is in
`PageApprovals`.  `SentWasAdmitted` counts what was let through against what was
approved.  `OutcomeIsTold` is `RejectionIsReported` (a rejection found in the
background is returned by a later call before that call sends anything) and
`CompletedBecauseChromeMoved`.  URL parsing and address ranges are a constant
set `Public`.

### PolicyEngine and SelfHealing

`PolicyEngine` is a pure algorithm with two actions around it (replace the rules,
evaluate).  Regular expressions are the sets of texts they match, paths are
sequences of separators and letters - enough to see where a prefix ends.
`DecisionIsSound` consists of `AmountsOnlyTighten`, `ScopeFollowsAction`,
`MatchEndsAtSegment` and `RuleIsIdentified`.

`SelfHealing` has the scores of `dom_signature.rs` as numbers, the best match
with its threshold and its margin, and `act`'s three lookups; renders happen
between any two of them.  `RecoveryFindsTheOne` is `TwinsAreNotHealed` (two
elements a signature cannot tell apart are both refused), `ExactSurvivorWins` (no
lookalike is acted on while an element with exactly the signature is there) and
`EvidenceIsOfTwoKinds` (no recovery rests on a role, a label, an alias or attributes
alone).  It does not say that a survivor is found: one with only a role scores 35
and is refused, and so is one that a lookalike ties with.  Once the element is gone,
a lookalike that reaches the threshold may be taken.

### SemanticCapture, SrePipeline, StateDelivery

`SemanticCapture` follows `SreEventSubscriber` from installing the bridge in the
page through taking the dirty paths to the refined capture, which reuses cached
subtrees whose path is unique and clean.  A normalised tree is a function from paths
of tag names to the entries there, in document order: an entry names its element, and
an element's place is fixed, so this says all of the tree; stable keys begin with the
path and are numbered among the elements of one path.  `Refined` answers each path
from the topmost cached subtree above it, once for every element the traversal finds
there.  `CaptureIsFaithful` = `QuietMeansCurrent` (with no event outstanding the
believed state is what a full normalisation gives; changes no later event tells of
are counted in `missed` and excluded, see section 5) and `KeysTellApart`.
`PresentationalIsLeftOut` is what the documents say of elements with
`role="presentation"`; the code breaks it where one shares its path with a shown
element, and `PresentationalApart` says that a page has none such.

`SrePipeline` is the three workers, their bounded channels and the one-slot
result channels of the handles; `PipelineDelivers` says that accepted work is
served, fast results are preferred, the counters agree, and the workers end when
the pipeline is dropped.

`StateDelivery` takes a tree (a function from paths to nodes) through sanitizing,
hashing, the choice of no-op, patch or full state, and to a reader who applies
what it gets.  `DeliveryIsFaithful` = `ReaderFollows`, `DetectedIsMarked`,
`FastStateComplete`.

### McpBackend, McpServer, StdioTransport

`McpBackend` joins the backend's caches with the engine that learns from its
captures.  `past` records what really happened and is compared with what was
learned: `SpeculationIsHonest` = `TransitionsAreReal`, `ActionEdgesAreReal`,
`CacheIsCurrent`, `DeltasApply`, `ExportKeepsModel`.

`McpServer` models one call at a time over a managed Chrome whose process, browser
connection and tab fail separately.  `RecoveryIsSafe` = `ActsOnce`,
`SilentBrowserIsAttended`, `RestartsAreLimited`, `ActionsAreMetered` and the
action property `PriceNeverFalls`, with saturating 64-bit prices (`CostMax`).

`StdioTransport` reads lines in pieces of at most `MaxLine` bytes, discards the
rest of an over-long one, and answers.  `StdioKeepsStep` = `OneAnswerEach`,
`CallsRunOnce`.

### SkillRuns

Validation (ids, edges, verify before act on every path as the code computes
it), templates, and the loop with its operation limit.  `SkillsAreSafe` =
`ActsAreVerified`, `RetriesAreALifetime`.  The runtime behind a step may succeed
or fail freely.

### SessionVault and SessionStore

Every vault call is a future that queues for the KMS lock, then for the storage
lock; it may be dropped at each await, and an adapter may fail.
`VaultKeepsSessions` is `SessionsStayReadable` (every stored ciphertext opens with a
key that is still there), `LoadsAreCurrent` and `RotationIsAllOrNothing`.
`VaultIsAStore` is the refinement: `SessionStore` has plaintexts, no keys, no
ciphertexts and no locks, a save and a load each one step; the mapping decrypts the
stored records, and rotation - whole, failed or dropped - maps to stuttering.

### PluginHost, Extraction, Marketplace

`PluginHost` verifies packages, wires the configured plugins at start-up and calls
them; a call may write its output and then trap, run out of fuel or be interrupted,
or return without writing, and the output area keeps what an earlier call wrote.
The model keeps with each area which run wrote it and whether that call returned,
so that `PluginsAreSafe` = `LoadedWasSigned`, `StartsOnlyComplete`,
`ActNeedsEveryPlugin`, `DeliveredIsWhole` can say exactly what counts (`CountsAs`): a
call that returned and found the answer in its area, written by itself or left by an
earlier run.  A call that wrote and failed in this act or capture does not count; one
that wrote and failed in an earlier run does, when a later call returns without
writing (section 5).  Signatures are ideal here and in `Marketplace`, where
`AcceptedIsAuthored` says which fields the signed payload has to cover.

`Extraction` has rules of three modes, the registry with its built-in rules, and
the two scripts; `ExtractionIsHonest` = `ErrorsExplainGaps` together with the
action property `NamesKeepTheirRule`.

### AuditLog

Callers push to the recent events and then to the channel (two steps); the worker
hands an event to the sinks, the rolling file writes text and newline, flushes or
syncs, rotates; the webhook has a bounded queue and a sender with retries.  State
updates form a chain of a snapshot and patches.  `LogIsFaithful` =
`FilesTellTheLog`, `SyncSurvives`, `RecentIsFaithful`, `HookKeepsOrder`,
`CapturesReplay`.

## 3. Runs, bounds, fairness

| run | asks | distinct states | expected |
|---|---|---|---|
| `page_documents` | are documents and approvals ever mixed up while Chrome moves between two loaders and two URLs? | 6.7 million | holds |
| `page_decisions` | is a request decided once, used once, revoked by new rules, with two reviewers, all scopes and a clock? | 2.0 million | holds |
| `page_liveness` | does every operation end? | 0.3 million | holds |
| `page_fragment` | does a fragment excursion end an `until_navigation` grant? | - | violated |
| `page_fallback` | is an action performed in the document the policy was evaluated on? | - | violated |
| `bridge` | do clicks, retries, failures, replacement and restart keep runtime, trail and chat consistent?  And in the trail's file: one record per id and no acknowledged record lost, over all sets of faults? | 4.2 million | holds |
| `bridge_stable_id` | does a pending request keep its id? | - | violated |
| `trail_torn` | is every acknowledged record readable when a write may stop half way? | - | violated |
| `navigation` | does anything leave for a destination that was not admitted, and does every call return and report what happened? | 1.9 million | holds |
| `capture_presentational` | is an element with `role="presentation"` left out of refined captures too? | - | violated |
| `services` | the safety properties of the thirteen services | 0.7 million | holds |
| `progress` | does everything that was started end: resolves, logged events, accepted renders, tool calls, skills, vault calls?  And does the vault implement the abstract session store? | 0.1 million | holds |

**Bounds.**  Every unbounded counter has a named bound, in a guard.  Three
locations (`MaxHist = 3`) are the shortest history with an A -> B -> A
excursion, which is what the revision has to exclude; two loaders and two paths
give all the ways in which two locations may differ.  `MaxTries` is 1 or 2
instead of 3: a retry repeats the same code, and one repetition shows whether
state leaks from one round into the next.  Two requests (`MaxIds = 2`) suffice
for a decision to be about an older or a newer request than the pending one.
`page_documents` has no explicit navigation and no Fetch request, and one
fragment, because the state space would not fit; `page_decisions` and
`page_liveness` have them, and the proofs cover all of them together.
`Capacity = 1` and `CacheSize = 1` stand for 1024: the limit is reached with
the second request instead of the 1025th, and every comparison with the limit
is exercised.  Three clicks by two reviewers on two workers contain a
competing pair plus a retry.  Two crashes allow a crash during the recovery
from a crash.

In `navigation` the four destinations are the four ways a request can be judged
(allowed, approval needed, private, vetoed by a plugin); two requests and two
calls give an attempt that is replaced while an older one is judged, and one
stray request of the page between them.  In `services`, each component's bounds
are the smallest that reach its limits: a recent list of two and a queue of one
overflow with the next event, a file of two or three units is full with the second or
third of the events, whose sizes are one and two, and one write may fail (`faults` of an environment); two dirty paths are
exceeded by the third change, on a page with two elements of one path, one of which
comes and goes, and a presentational element with a child; two pages and two actions give a prediction, a
miss and a correction; `RestartMax = 1` in a window of one tick makes the second
restart the refused one, and `MaxAliveSkips = 1` the second skip the last;
`CostMax = 300` is passed within three calls; the skills are all three-step ones
over three kinds, with retries and edges that loop, and a few longer; two vault
clients, one session and three calls contain a rotation between a save and a
load, and key ids that are retired and used again; three bytes per line make
lines below, at, above and at twice the limit; the rule sets are all single
rules over the listed fields and pairs of simpler ones; one configured plugin is
sound and the other sound or wrong in one way; trees have an element in every
kind of landmark; layouts hold an element with its twin, with a richer and with a
poorer lookalike.  `progress` has four of these again (log, server, skills, vault) and
the bridge and the rendering pipeline, all with fairness and, but for the vault, with
smaller counters because TLC's liveness checking is slower.

Symmetry is used for reviewers, workers, loaders, paths, ids and
decisions, on which no definition depends; never in a liveness run.  In `bridge`,
sets of both parts are permuted together: a state belongs to one part, and the other
is in its initial state.

**Deadlock** is not checked: with every counter at its bound and every thread
idle, nothing is left to do, which is an end the bounds impose.

**Fairness.**  `page_liveness` assumes weak fairness of a thread that is inside an
operation.  The code justifies it: every CDP call has a timeout, the marker is
waited for at most five seconds, the retry loops are bounded, and no lock is held
across a wait.  Nothing is assumed of Chrome or the event thread, so the marker may
never be acknowledged.  `navigation` assumes the same of the calling thread, whose
waiting loop has a deadline, and that time passes.  `progress` assumes, per
component:

- bridge: weak fairness of a worker inside `resolve` (its gateway, file and chat
  calls return, fail or time out); nothing of the polling thread;
- log: the worker thread runs and a caller that pushed an event goes on to send
  it (`log` has no wait between the two); nothing of the webhook's sender or
  its receiver;
- pipeline: each of the three worker threads runs; nothing of the callers, who
  may drop their handles or the pipeline;
- server: the steps of a call are taken, since each CDP call has a timeout and
  each wait in the recovery a limit; Chrome may stay dead;
- skills: the loop goes on; its waits and the runtime's calls have timeouts;
- vault: a client's future is polled when it can proceed; tokio's mutexes hand
  the lock over in the order of waiting, which the model's queues have.

**Deliberately excluded from a property.**  `OneRecordPerId` excludes failing
syncs and `AckedSurvives` torn writes; `QuietMeansCurrent` excludes changes the
subscriber is never told of; `TransitionsAreReal` a capture whose payload could
not be built; `CapturesReplay` sessions with a semantic wait; `ActionsAreMetered`
lost answers and skills that ended in an error: the code does not promise more,
see section 5.

## 4. Proofs

Every safety property that a run expects to hold is also a theorem, for every value
of the constants.  Each follows from an inductive
invariant that is stated in the component's module, beside its properties, and was
checked with TLC on the component's run before it was proved; the proof modules hold
the theorems only.

**Assumptions** are those declared with the constants and no others.

- The bounds of the models are naturals: `BoundsAssumption`,
  `ApprovalBoundsAssumption`, `MaxIds` and its like in the others, and
  `ServerAssumption` for the limits of the restart window and the prices.  Limits of
  the code that are never zero there (`Capacity`, `CacheSize`, `MaxLine`, `MaxTries`)
  are positive.
- Inputs have the shape the code's types give them: policies are functions from
  paths and targets to decisions (`PoliciesAssumption`), rules and contexts are
  records of sequences and finite sets (`PolicyAssumption`), a tree has every
  ancestor of its nodes (`DeliveryAssumption`), skills and plugin
  configurations are sequences of steps and of manifests (`SkillsAssumption`,
  `HostAssumption`), layouts are sequences of elements with finitely many words
  and attributes (`HealAssumption`), lines have a length and a kind
  (`StdioAssumption`), counts in a pack are naturals and actions are numbered
  (`BackendAssumption`), built-in extraction rules have a mode
  (`ExtractionAssumption`), the first URL is a destination (`NavigationAssumption`),
  a page is a tree whose elements come after their parents (`PageAssumption`).
- One theorem pair has a hypothesis of its own: `CapInvariant` and `CaptureFaithful`
  are about pages with `PresentationalApart`.  Without it `QuietMeansCurrent` is
  false, which `capture_presentational` shows.
- What the code takes for granted of itself: the built-in rules validate
  (`PolicyAssumption`), the agent is one of the threads (`AgentAssumption`), not
  every key id is a spare one (`VaultAssumption`), an author's name is none of the
  verdicts (`MarketAssumption`), the workers of the bridge are finitely many
  (`BridgeAssumption`), no caller of the log is the page (`LogAssumption`).

The sets of threads, loaders, paths, targets, rules, destinations, requests,
reviewers, clients, sessions, keys, authors, pages and texts are otherwise
arbitrary, and may be infinite.

| module | theorem | property | invariant |
|---|---|---|---|
| `PageApprovals_proofs` | `VerifiedSnapshots`, `EqualRevisions` | `EqualRevisionsMeanNoNavigation` | `ObservationInv` |
| | `PageTypeCorrect` | `PageTypeOK` | |
| | `UsedGrants`, `PendingCaptures` | `UsedGrantStayedOnItsDocument`, `PendingWasCapturedOnItsDocument` | `PageInv` |
| | `OneDecision`, `ActionOnlyGrants`, `RulesRevoke` | `DecidedOnce`, `ActionOnlyUsedOnce`, `NewRulesRevoke` | `LedgerInv` |
| `HitlBridge_proofs` | `BridgeTypes`, `ClicksDecideWhatWasShown`, `RequestsEndOnce`, `TrailIsTrue`, `ChatIsTrue`, `RegistryIsKept` | the first six of the run `bridge` | `BridgeInv` |
| `BridgeAuditTrail_proofs` | `TrailTypes`, `OneRecord`, `AckedIsKept` | `TrailTypeOK`, `OneRecordPerId`, `AckedSurvives` | `TrailInv` |
| `PublicNavigation_proofs` | `SentIsAdmitted`, `OutcomesAreTold` | `SentWasAdmitted`, `OutcomeIsTold` | `NavigationInv` |
| `Storage_proofs` | `SessionsKept` | `VaultKeepsSessions` | `VaultInv` |
| | `VaultImplementsStore` | `VaultIsAStore` (the refinement of `SessionStore`) | `VaultInv` |
| | `LogTellsTheTruth` | `LogIsFaithful` | `LogInv` |
| `Admission_proofs` | `PacksAreAuthored` | `AcceptedIsAuthored` | `MarketInv` |
| | `SkillsKeepToVerified` | `SkillsAreSafe` | `SkillInv` |
| | `DecisionsHold` | `DecisionIsSound` | `PolicyInv` |
| | `PluginsHold` | `PluginsAreSafe` | `HostInv` |
| `Services_proofs` | `RecoveryIsRight` | `RecoveryFindsTheOne` | `HealInv` |
| | `ReaderIsServed` | `DeliveryIsFaithful` | `DeliveryInv` |
| | `StdioInStep` | `StdioKeepsStep` | `StdioInv` |
| | `SpeculationHolds` | `SpeculationIsHonest` | `BackInv` |
| | `ExtractionIsExplained` | `ExtractionIsHonest` | `ExtractInv` |
| | `RecoveryHolds` | `RecoveryIsSafe` | `ServerInv` |
| `SemanticCapture_proofs` | `CaptureFaithful` | `CaptureIsFaithful` | `CapInv` |

`LedgerInvariant`, `VaultInvariant`, `BridgeInvariant`, `NavigationInvariant`,
`TrailInvariant` and `CapInvariant` state the invariants themselves.

### The arguments

**Documents.**  `EqualRevisions` is not inductive: it speaks of verified
snapshots only, but what makes it true is what happened while they were being
taken.  `ObservationInv` adds three things.

1. `SnapshotOK`: a recorded snapshot whose revision is still the observed one
   has not been contradicted by any event handled since, that is, Chrome showed its
   document from the read up to `seen`.  An event that contradicts it moves
   the revision, and revisions never go back.
2. `SampleOK`: while the generation stands still between reading the frame tree
   and recording the answer, the events handled meanwhile changed nothing.
   This is why the recheck of the generation under the lock is needed.
3. `ObservedUpTo`: the observation is made of things Chrome showed at or after
   the last event handled; loader and URL may be of different ages, which is
   what a read that overtakes the queue produces.

The marker then closes the gap: at verification `mark <= seen`, so what holds
up to `seen` holds up to the marker.

**Approvals.**  `PageInv` carries this over: every binding, wherever it is
kept (the agent's locals, the pending slot, a grant, a reviewer's copy), is a
`SnapshotOK` snapshot (`Bound`).  When a consuming act finds a grant that
matches its verified snapshot, binding and snapshot carry the observed
revision, so the binding's document was shown until `seen`, hence until the
act's marker (`UsesOK`).  `CaptureOK` orders the capture between the two reads
of `enforce_policy`, `ShownOK` then places it on the bound document.

`LedgerInv` is about who may still decide what.  `SlotOK`: a request in the
pending slot was decided by nobody.  `HeldOK`: what a reviewer holds while its
snapshot is taken is the request of the slot or one that left it for good; the
commit compares the ids, so of two reviewers with the same copy one succeeds.
`GrantsOK`: a grant is the only one of its request and, if it is
`action_only`, not used; consuming removes it under the lock under which it was
found.  `FreshOK`: an id not yet handed out is in no record.  `StagesOK`: a
snapshot is under way only in an operation that asked for one, so nothing is
decided or consumed on a snapshot left over from another.

**Bridge.**  `BridgeInv` counts: posts, ids and clicks bound what may exist
(`BoundsOK`), and the id in the slot was minted for the request it names
(`MintedOK`).  For each phase of a worker `WorkOK` says what it may rely on: after
the claim it owns the id's progress object (`MutexOK`: no two workers hold the
same one), and each flag of the object says which effect took place (`ProgOK`),
so that a retry goes on where the phase before it stopped.  Only
entries whose chat was updated are terminal (`RegistryOK`), and only terminal ones
are evicted, which is why the registry forgets no unfinished decision.

**Trail.**  `LinesTo` reads a file up to a place, so that adding or cutting chunks
is a step of a function rather than a new parse.  `LinesEnumerate` (by the
least place where it fails) says that the lines are the readable places in
order; `UniqueOK` is stated of lines that begin, not of readable ones, which makes it
closed under prefixes: a crash may cut the file anywhere.  It also says that an
index that is relied on misses no complete line but the one being recorded, so
that memory may forget.  `KeptOK` keeps whole lines whole, and what is acknowledged
below what was synced.

**Navigation.**  `AdmissionOK`: whatever the interceptor or the caller holds
between two locks was evaluated.  `CreditOK` is the balance behind
`SentWasAdmitted`: attempts let through plus capabilities left plus the one
being consumed do not exceed the approvals.  `OrderOK`: a document
is committed only after the event of the one before it was handled, since its own
request was paused behind that event; so the document observed lies between
the one a call started from and the one Chrome shows (`DocumentOK`), and a change
that completes a call is one since it began.  `CallOK`: a call knows the
rejections recorded before it.

**Vault.**  A call that has computed something holds the KMS lock (`KmsExcludes`;
a dropped future leaves the queue, `Leaving`, and the head of a queue is not
disturbed by others); `KeysBetweenRotations` says which keys exist in each phase of a
rotation, and `CallsOK` what a call under the lock has in hand.  The refinement
then is: the decrypted store is `saved` (`ContentsAreSaved`), each step of a future either
ends a call of `SessionStore`, loads a cookie, or changes nothing there.

**Admission.**  Packs: a payload determines every signed field and the version, so
what verifies is something the author signed (`SignaturesOK`); altering a field
never adds a signature.  Skills: whoever stands at an act has just come from the
verify of its target (`ClearedOK`), for validation has refused every other edge into
it; repetitions are what was spent of the budget (`BudgetOK`).  Policy: rules in
force were validated; the largest amount of a finite set exists; the first matching
rule is found by least index, and amounts can only move the outcome up.  Plugins:
packages are the configured ones up to edits of what was signed (`PackagesOK`), so
one that verifies is as it was signed; wiring follows the configuration up to
`nextEntry` (`WiringOK`); votes are those of the plugins before `at` (`RunOK`); an
instance is called at most once in a run, so an area written in this run was written
by the call whose vote is counted (`MemoryOK`, `CalledOK`).

**Capture.**  `CleanIsCurrent` is stronger than what a quiet subscriber needs: while
nothing was missed, the last state is the page's at every path that no dirty path
overlaps, and at all paths above it, where the dirty paths are those in the page and
those the subscriber has taken.  A change makes its own path dirty, so where it
happened nothing is claimed; the limit of dirty paths only widens what is dirty.
A refined capture reuses a subtree whose top is clean.  What is below a clean path is
clean (a dirty one there would overlap the top too), hence current; and the one cached entry of the
path means one element reached (`OneIsReached`, where `PresentationalApart` is needed), so
the copy is made once.  Paths queued while the capture ran are still in the page and
stay excepted.  `DirtyIsNews`: dirty paths in the page come with a version above the one the
subscriber knows, so one that has seen the page's version has none left.
Keys: elements at one path with one label have different counts up to their places.

**Self-healing.**  An exact signature scores at least as high as any other, and
two elements with equal signatures score alike; the margin then refuses twins and
the best is unique where one element is exact.  A single kind of evidence is capped
below the threshold (`OneKindIsNotEnough`).

**Delivery.**  The reader's nodes equal the page's apart from ids.  The flags the
code passes down the tree (`InSectioning`, `InLandmark`) are shown equal to "some
ancestor is", by the shortest path at which they would differ.

**Transport.**  The position in the input (`StandsWell`) says how much of which line
was consumed; answers and calls are those asked for by the lines before it
(`AnsweredTo`, `RanTo`).

**Backend.**  `Aligned` ties each cache to the past: where a capture stands
(`CapturesLine`), what a cursor points at (`CursorsLine`), what is served
(`ServesLive`), what was learned (`LearnedLine`), what the client knows.  An export
puts each pair at the rank it has in the order, the number of pairs before it; that
is injective, hence onto, hence the counts come back.

**Extraction.**  Between the two scripts a call holds its rule and the first
script's result, and while the page stands still that is what the rule gives now
(`ToolHoldsResult`), so the second script names the gaps of the first.

**Server.**  Actions done equal those metered, held, lost and owed
(`MetersBalance`), nothing was done before a dispatch and at most one action in it
(`DoneOnce`), the history is the end of the relaunches tried and forgot only those
older than the window (`HistoryIsRecent`), and the number of unattended calls is at
most the counter that forces a probe.

**Log.**  An event moves from its caller through channel and worker to the files
and to the webhook's queue, sender and receiver, and at each place all events of
its thread further down came before it (`OrderKept`; `Ranked` in the proofs, over
sets of events); ids are counted and belong to one thread (`IdsOK`), so two
pieces with one id would each come sooner than the other.  `RetriesOK`: an event
that is being posted again was received last, and as often as it was tried at most.
`WritesOK`: the bytes counted for the open file are the bytes of its lines (`Bytes`
is a recursive function; that it exists and adds up is shown by the least line where
it would not), and what was synced is whole and safe.  `ChainOK`: while nothing
failed and no semantic wait captured, each update in the channel starts from the
state in which the update before it, in channel, worker or file, ends, and the cache
is the end of that chain; so each patch on file meets the state it was made against.

### Only model-checked

- Liveness: `OperationsEnd`, `CallsReturn` and everything in `progress`.
  Temporal reasoning under fairness is outside the prover; `SrePipeline` has no
  other property.
- The five properties that the code violates (section 5), of course.

Induction over data is not available to the provers here (the library's theorems take
an operator as a parameter).  Where a proof needs one, it takes the least
counterexample instead (`WFMin`, from `NatLessThanWellFounded`), over definitions stated with
positions.

## 5. Where code and documents disagree

Each of the first five is a run that is expected to find the violation.

1. `docs/SPEC.md:112` says a change of the fragment ends an `until_navigation`
   grant.  The revision ignores fragments and the fragment is only compared
   with the present one, so #a -> #b -> #a goes unnoticed (`page_fragment`).
2. `docs/ARCHITECTURE.md:143-146` says policy enforcement is run again on
   whatever node is recovered.  The plain stable-key fallback of `act` does
   not; only self-healing does (`page_fallback`).
3. `hitl-bridge/src/gateway.rs:33-36` calls the minted id stable.  A worker's
   stale read clears or overwrites the slot; the request that is still pending
   gets a second id and the first prompt's buttons stop working
   (`bridge_stable_id`).
4. `hitl-bridge/src/audit.rs:52-53` says a crash never leaves a torn entry.
   An unterminated line stays, and the next record is appended to it and
   acknowledged (`trail_torn`).
5. `docs/SPEC.md:55` and the comment at `normalization.rs:213` say that elements with
   `role="presentation"` are excluded.  `traverse_node` asks the cache before it looks
   at the role (`normalization.rs:186`), and the index of cached paths has only the
   elements that were shown.  A presentational element whose path one shown element
   has too is answered with a copy of that one: the state has the same keys and node
   ids twice, until the next full capture (`capture_presentational`).

Met while modelling, without a run of its own:

- `bridge.rs:124-125` says a prompt is posted if the request has not been
  notified yet.  `poll_once` checks the token map after it asked for the
  request; when the request is resolved in between, its token is gone and a
  second prompt is posted.  No property of `bridge` breaks: a click on it is
  refused.
- `audit.rs:199-200` calls replaying an identical record idempotent.  After a
  failing sync (`audit.rs:256`) the record is on file but not in the index;
  once memory has forgotten it, a retry appends it again.  This is the
  exception in `OneRecordPerId`.
- `docs/hitl-slack-bridge.md:58-60` says ids are keyed by rule, target and
  action; the code keys them by the request's own id and the session.
- `audit_sink.rs:234-235` says older events are dropped when the webhook's queue is
  full; `try_send` drops the newest.

Audit log and capture:

- `docs/SPEC.md:121` and `docs/PLAN.md:443` describe one chain of snapshots and
  patches.  `capture_state` (`capture.rs:386`) and a semantic wait
  (`sre/mod.rs:406`) write patches against previous states of their own into the
  same log, so a replay of a session that used both may fail.  A rotated file may
  begin with a patch.
- After a write that stopped half way (`audit_sink.rs:191`) the next event
  joins the torn line.
- `truncate_plugin_string` (`audit.rs:450`) cuts at byte 200, wherever a
  character ends.
- `SreEventSubscriber` does not see a change between its first capture and the
  installation of the bridge, and dirty paths taken before a capture that fails
  are lost.
- `capture.rs:283` promises to wait until a target reaches a state.  The subscriber
  never forgets its last state on a new document (`browser/mod.rs:376-425`).  When the
  page has navigated and the new document changes between the installation of its
  bridge and the taking of the dirty paths, the capture is refined against the old
  document's tree; with one more change while it is captured the subscriber settles on
  that, with elements that are gone wherever the two documents have the same paths,
  until something else changes.  `QuietMeansCurrent` counts this as missed; TLC finds
  it with four changes.
- `state_hash` leaves `backend_node_id` out: a state that differs in ids only is
  not sent.  The pipeline's full result may arrive before the fast one.

Navigation and self-healing:

- `consume_navigation_approval` and `replace_pending` take the approval lock one
  after the other.  An approval in between leaves an unused grant and a second
  prompt.
- `dom_signature.rs:96-98` says at most 35 points are possible without a label;
  role and one attribute give 45.  Signatures are recorded before enforcement
  and action, while lines 8-10 say on success.  A caller's id and stable key may
  name different elements.

Backend and server:

- After a verified hit the engine's cursor stays on the earlier action.  A delta
  does not refresh `state_cache`.  `act`'s pre-verification replaces the delta
  baseline by a state the client was not told.  An observation stays learned
  when building the answer fails after it.
- A delta's patch addresses the semantic tree, which `get_state` does not deliver.
- `confirm_alive` (`lib.rs:175-181`) asks the browser, so a tab that hangs alone
  is never restarted.  A relaunch that fails after `Browser::new` leaves the dead
  page.  A disconnect inside a skill starts no recovery.
- `metering.rs:233` describes the skill's delta as taken after each run; a
  `run_skill` that returns an error leaves it to be overwritten.  A visual capture
  is metered before its answer is built.
- A `tools/call` notification is executed without an answer;
  `notifications/initialized` with an id gets none either; a last line of exactly
  the maximal length without a newline is refused.

Skills, plugins, policy, extraction:

- An `act` step with `max_retries` is fired again in place without another verify.
- A plugin's output area keeps the output of the call before it (`call_json_fn`,
  `plugin-host/src/lib.rs:549-671`).  A state hook that writes a state and then traps
  is ignored in that capture, but the next capture whose call returns without writing
  delivers that state; in the same way an "allow" written before a trap blocks that
  act and is the vote on the next one.  `plugin_hooks.rs:8-16` says that failures
  keep the last valid state or block; this holds within a run, not across runs.
- A last plugin whose output is not a node makes the delivery fall back to the raw
  state.
- Policy texts are put in lower case, the rules' regular expressions are not.
- A null DOM property of a single extraction rule is not explained, and the page
  may change between the two scripts.

## 6. Plan

Done: all modules of section 2, their runs, and the proofs of section 4.

Next: an abstract trail (a set of records per id) refined by `BridgeAuditTrail`, and
an abstract approval slot refined by `PageApprovals` that `HitlBridge` can be
composed with.

### Not modelled

- Configuration, command line, `doctor`, client registration (`config.rs` and
  its neighbours): parsing, precedence and reporting at start-up, done once by
  one thread.
- URL validation and address ranges (`navigation.rs`), labels, quadrants and
  coordinates of normalisation, the privacy filter's patterns, Block Kit
  rendering: functions of a text or a node without state.  The models take what
  they decide as a constant set or a field.
- Cryptography (Ed25519, AES-GCM, the chat's request signature): library
  functions, ideal in the models.
- Visual capture and the thin wrappers over `headless_chrome`; JSON schemas and
  the shape of the tools' answers.
- The connector entry point of plugins, which nothing calls; the speculative
  engine's log of mismatches and its domain hints.
- Benchmarks, test support, npm launcher and scripts.
