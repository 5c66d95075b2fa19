----------------------------- MODULE PluginHost -----------------------------
(***************************************************************************)
(* Wasm plugins: the host verifies signed packages and runs their          *)
(* extension points (plugin-host/src/lib.rs), the server wires every       *)
(* configured plugin or does not start (mcp-server/src/plugins.rs), and    *)
(* the browser runs the hooks around a capture and an act                  *)
(* (core-runtime/src/plugin_hooks.rs, apply_state_hooks in                 *)
(* browser/capture.rs).                                                    *)
(*                                                                         *)
(* A plugin's instance lives as long as the server.  Its linear memory is  *)
(* kept between calls, the output area with it: a call that traps, is out  *)
(* of fuel or is interrupted may have written its output first, and one    *)
(* that returns may have written nothing; nobody clears the area, and its  *)
(* answer is then what an earlier call of that plugin left there, be it one *)
(* that failed.  Modules do whatever they like, so what a call writes and  *)
(* how it ends are free.                                                   *)
(***************************************************************************)
EXTENDS Naturals, Sequences, FiniteSets

CONSTANTS Configurations, \* sequences of plugins as their publishers signed them
          PackageValues,  \* per field, the values a package may have
          Modules,        \* per Wasm module: [valid, exports, starts]
          TrustedKeys,    \* ids in the key registry
          MaxHookRuns,    \* captures and acts
          MaxEdits        \* fields that differ from what was signed

HookPoints == {"on_state", "before_act"}
StateOutputs == {"node1", "node2", "json", "garbage", "huge"}
PolicyOutputs == {"allow", "deny", "json", "garbage", "huge"}

VARIABLES configured,  \* the enabled plugins, as signed
          packages,    \* the configured packages as they are read
          startup,     \* "stored", "wiring", "running" or "failed"
          nextEntry,   \* the entry build_plugin_hook_config is at
          hooks,       \* per hook point, the entries wired, in order
          memory,      \* per hook point and entry, the instance's output area
                       \* and, auxiliary, the run of the call that wrote it
                       \* and whether that call returned
          run,         \* the capture or act under way
          hookRuns, edits

hostVars == <<configured, packages, startup, nextEntry, hooks, memory, run,
              hookRuns, edits>>

NoRun == [kind |-> "none", at |-> 0, current |-> "raw", votes |-> <<>>]
NewArea == [output |-> "empty", run |-> 0, returned |-> TRUE]

SignaturePayloadFields == {"plugin_id", "version", "abi_version", "entry_points",
                           "capabilities", "sbom", "wasm_module"}

\* One value per field of the manifest, and the module.
IsManifest(content) == content = [f \in SignaturePayloadFields |-> content[f]]

ASSUME HostAssumption ==
    \A c \in Configurations:
        /\ Len(c) \in Nat /\ DOMAIN c = 1..Len(c)
        /\ \A i \in DOMAIN c: IsManifest(c[i].content)

(* Mutant: the payload names the module but does not cover its bytes. *)
SignedPartWithoutModule(content) ==
    [f \in SignaturePayloadFields \ {"wasm_module"} |-> content[f]]

\* signature_payload: every field of the manifest but the signature, and the
\* digest of the module.
SignedPart(content) == [f \in SignaturePayloadFields |-> content[f]]

HostInit ==
    /\ configured \in Configurations
    /\ packages = [i \in DOMAIN configured |->
                     [content |-> configured[i].content, key |-> configured[i].key,
                      signed |-> SignedPart(configured[i].content)]]
    /\ startup = "stored" /\ nextEntry = 1
    /\ hooks = [p \in HookPoints |-> <<>>]
    /\ memory = [p \in HookPoints |-> [i \in DOMAIN configured |-> NewArea]]
    /\ run = NoRun
    /\ hookRuns = 0 /\ edits = 0

\* Files change after they were signed.
EditPackage(i, field, value) ==
    /\ startup = "stored" /\ edits < MaxEdits
    /\ packages' = [packages EXCEPT ![i].content[field] = value]
    /\ edits' = edits + 1
    /\ UNCHANGED <<configured, startup, nextEntry, hooks, memory, run, hookRuns>>

StartServer == /\ startup = "stored"
               /\ startup' = "wiring"
               /\ UNCHANGED <<configured, packages, nextEntry, hooks, memory, run, hookRuns, edits>>

-----------------------------------------------------------------------------
(* load_plugin, in the order of its checks *)

ValidManifest(c) ==
    /\ c.plugin_id # "" /\ c.version # ""
    /\ c.abi_version = 1           \* MIN and MAX_SUPPORTED_ABI_VERSION
    /\ c.entry_points # {}

ValidSbom(c) == c.sbom # "empty"

\* KeyRegistry: an unsigned package has no key.
Registered(key) == key \in TrustedKeys

VerifySignature(p) ==
    /\ Registered(p.key)
    /\ p.signed = SignedPart(p.content)

LoadPlugin(p) ==
    LET module == Modules[p.content.wasm_module]
    IN /\ ValidManifest(p.content) /\ ValidSbom(p.content) /\ VerifySignature(p)
       /\ module.valid /\ p.content.entry_points \subseteq module.exports

\* authorize_extension, ensure_capability.
Authorized(p, point) ==
    /\ point \in p.content.entry_points
    /\ point = "on_state" => "read_state" \in p.content.capabilities

\* PluginRuntime::from_verified: instantiation runs `start`.
Instantiates(p) == Modules[p.content.wasm_module].starts

\* WasmStatePlugin::new, WasmPolicyPlugin::new.
Adapts(p, point) == Authorized(p, point) /\ Instantiates(p)

Duplicate(i) == \E j \in 1..(i - 1):
                    packages[j].content.plugin_id = packages[i].content.plugin_id

Points(i) == packages[i].content.entry_points \cap HookPoints

(* Mutant: a plugin that fails to load is left out. *)
WireNextLenient(i) ==
    IF LoadPlugin(packages[i]) /\ \A point \in Points(i): Adapts(packages[i], point)
    THEN hooks' = [p \in HookPoints |-> IF p \in Points(i) THEN Append(hooks[p], i)
                                        ELSE hooks[p]] /\ nextEntry' = i + 1
                                                       /\ UNCHANGED startup
    ELSE nextEntry' = i + 1 /\ UNCHANGED <<hooks, startup>>

\* One entry of build_plugin_hook_config: every failure ends the start-up, and
\* so does a plugin that would be wired to nothing.
WireNext(i) ==
    IF /\ LoadPlugin(packages[i]) /\ ~Duplicate(i)
       /\ Points(i) # {}
       /\ \A point \in Points(i): Adapts(packages[i], point)
    THEN /\ hooks' = [p \in HookPoints |-> IF p \in Points(i) THEN Append(hooks[p], i)
                                           ELSE hooks[p]]
         /\ nextEntry' = i + 1
         /\ UNCHANGED startup
    ELSE startup' = "failed" /\ UNCHANGED <<hooks, nextEntry>>

WirePlugin ==
    /\ startup = "wiring" /\ nextEntry <= Len(configured)
    /\ WireNext(nextEntry)
    /\ UNCHANGED <<configured, packages, memory, run, hookRuns, edits>>

Started == /\ startup = "wiring" /\ nextEntry > Len(configured)
           /\ startup' = "running"
           /\ UNCHANGED <<configured, packages, nextEntry, hooks, memory, run, hookRuns, edits>>

-----------------------------------------------------------------------------
(* Hook runs *)

HookPoint(kind) == IF kind = "capture" THEN "on_state" ELSE "before_act"

BeginRun(kind) ==
    /\ startup = "running" /\ run = NoRun /\ hookRuns < MaxHookRuns
    /\ run' = [kind |-> kind, at |-> 1, current |-> "raw", votes |-> <<>>]
    /\ hookRuns' = hookRuns + 1
    /\ UNCHANGED <<configured, packages, startup, nextEntry, hooks, memory, edits>>

\* How a call ends: within its fuel and EPOCH_TICKS_PER_CALL, or not.
Endings == {"returns", "traps", "timeout"}

\* What call_json_fn makes of a call: it ended well and the output area holds
\* JSON of an admissible size; an input over the limit is refused unrun.
CallResult(ending, output) ==
    IF ending = "returns" /\ output \notin {"empty", "garbage", "huge"}
    THEN output ELSE "error"

(* Mutant: a failing policy plugin is ignored. *)
AllowsUnlessDenied(result) == result \notin {"deny", "json"}

\* parse_policy_response; an error is a block.
Allows(result) == result = "allow"

(* Mutant: a failing state plugin's output is taken. *)
NextStateTaken(current, result, output) == IF output = "empty" THEN current ELSE output

\* run_state_hooks: a failure keeps the previous output.
NextState(current, result, output) == IF result = "error" THEN current ELSE result

\* One plugin of run_state_hooks or run_policy_hooks; `wrote` is "nothing" when
\* the call leaves the output area alone.  call_json_fn then reads whatever the
\* area holds.
CallHook(wrote, ending) ==
    LET point  == HookPoint(run.kind)
        i      == hooks[point][run.at]
        area   == IF wrote = "nothing" THEN memory[point][i]
                  ELSE [output |-> wrote, run |-> hookRuns, returned |-> ending = "returns"]
        result == CallResult(ending, area.output)
    IN /\ run.kind \in {"capture", "act"} /\ run.at <= Len(hooks[point])
       /\ wrote \in {"nothing"} \cup
             (IF run.kind = "capture" THEN StateOutputs ELSE PolicyOutputs)
       /\ memory' = [memory EXCEPT ![point][i] = area]
       /\ run' = [run EXCEPT
             !.votes = Append(@, [ending |-> ending, area |-> area]),
             !.at = @ + 1,
             !.current = IF run.kind = "capture" THEN NextState(@, result, area.output) ELSE @,
             !.kind = IF run.kind = "act" /\ ~Allows(result) THEN "blocked" ELSE @]
       /\ UNCHANGED <<configured, packages, startup, nextEntry, hooks, hookRuns, edits>>

\* apply_state_hooks delivers a transformed state only if it is a node, else
\* the one captured; act goes on when no plugin blocked it.
EndRun ==
    /\ run.kind \in {"capture", "act"} /\ run.at > Len(hooks[HookPoint(run.kind)])
    /\ run' = [run EXCEPT
          !.kind = IF run.kind = "capture" THEN "delivered" ELSE "performed",
          !.current = IF @ \in {"node1", "node2"} THEN @ ELSE "raw"]
    /\ UNCHANGED <<configured, packages, startup, nextEntry, hooks, memory, hookRuns, edits>>

Answer == /\ run.kind \in {"delivered", "performed", "blocked"}
          /\ run' = NoRun
          /\ UNCHANGED <<configured, packages, startup, nextEntry, hooks, memory, hookRuns, edits>>

HostNext ==
    \/ \E i \in DOMAIN configured, field \in SignaturePayloadFields:
          \E value \in PackageValues[field]: EditPackage(i, field, value)
    \/ StartServer \/ WirePlugin \/ Started
    \/ \E kind \in {"capture", "act"}: BeginRun(kind)
    \/ \E wrote \in {"nothing"} \cup StateOutputs \cup PolicyOutputs,
          ending \in Endings: CallHook(wrote, ending)
    \/ EndRun \/ Answer

HostSpec == HostInit /\ [][HostNext]_hostVars

-----------------------------------------------------------------------------
(* No code runs that its publisher did not sign as it is: every wired       *)
(* plugin has, field for field and down to its module, the content of a     *)
(* package some holder of a registered key signed (verify_signature).       *)
LoadedWasSigned ==
    \A p \in HookPoints: \A k \in DOMAIN hooks[p]:
        LET i == hooks[p][k]
        IN \E j \in DOMAIN configured: /\ configured[j].content = packages[i].content
                                       /\ configured[j].key \in TrustedKeys

(* A server that runs has every configured plugin at every hook point it    *)
(* declares, in the configured order and under an id of its own; a broken   *)
(* plugin is never silently absent from the checks before an act.           *)
StartsOnlyComplete ==
    startup = "running" =>
        /\ \A i \in DOMAIN packages: Points(i) # {} /\ ~Duplicate(i)
        /\ \A p \in HookPoints:
              /\ {hooks[p][k]: k \in DOMAIN hooks[p]} = {i \in DOMAIN packages: p \in Points(i)}
              /\ \A k, l \in DOMAIN hooks[p]: k < l => hooks[p][k] < hooks[p][l]

(* A call counts with this output: it returned and found the output in its  *)
(* area, where it had written it itself or an earlier run had left it.  A   *)
(* call of this run that wrote it and then failed is excluded; one of an    *)
(* earlier run is not, for the area is never cleared.                       *)
CountsAs(vote, output) ==
    /\ vote.ending = "returns" /\ vote.area.output = output
    /\ vote.area.run = hookRuns => vote.area.returned

(* An act is performed only after every policy plugin was called on it, and *)
(* each call returned with an "allow" in its output area: one that wrote it *)
(* and then trapped or ran out of time blocks this act.                     *)
ActNeedsEveryPlugin ==
    run.kind = "performed" =>
        /\ Len(run.votes) = Len(hooks["before_act"])
        /\ \A k \in DOMAIN run.votes: CountsAs(run.votes[k], "allow")

(* What is delivered is the captured state or what the last plugin that     *)
(* succeeded has in its output area; nothing a call wrote in this capture   *)
(* before it failed is.                                                     *)
DeliveredIsWhole ==
    run.kind = "delivered" /\ run.current # "raw" =>
        \E k \in DOMAIN run.votes:
            /\ CountsAs(run.votes[k], run.current)
            /\ \A l \in (k + 1)..Len(run.votes):
                  CallResult(run.votes[l].ending, run.votes[l].area.output) = "error"

(* Plugins are what was signed, all there, and all asked.                  *)
PluginsAreSafe ==
    /\ LoadedWasSigned /\ StartsOnlyComplete
    /\ ActNeedsEveryPlugin /\ DeliveredIsWhole

-----------------------------------------------------------------------------
(* The strengthening that makes it inductive.                              *)

Outputs == {"empty"} \cup StateOutputs \cup PolicyOutputs

Areas == [output: Outputs, run: Nat, returned: BOOLEAN]
Vote == [ending: Endings, area: Areas]

(* Packages are the configured ones, up to edits of what was signed.       *)
PackagesOK ==
    /\ configured \in Configurations
    /\ DOMAIN packages = DOMAIN configured
    /\ \A i \in DOMAIN configured:
          /\ packages[i] = [content |-> packages[i].content, key |-> configured[i].key,
                           signed |-> SignedPart(configured[i].content)]
          /\ IsManifest(packages[i].content)

(* Wired at a point, of the entries before n.                              *)
WiredAt(p, n) ==
    /\ hooks[p] \in Seq(Nat)
    /\ \A k \in DOMAIN hooks[p]: hooks[p][k] \in 1..(n - 1) /\ p \in Points(hooks[p][k])
    /\ \A i \in 1..(n - 1): p \in Points(i) => \E k \in DOMAIN hooks[p]: hooks[p][k] = i
    /\ \A k, l \in DOMAIN hooks[p]: k < l => hooks[p][k] < hooks[p][l]

WiringOK ==
    /\ nextEntry \in 1..(Len(configured) + 1)
    /\ startup = "stored" => nextEntry = 1
    /\ startup = "running" => nextEntry = Len(configured) + 1
    /\ DOMAIN hooks = HookPoints
    /\ \A p \in HookPoints: WiredAt(p, nextEntry)
    /\ \A i \in 1..(nextEntry - 1): /\ LoadPlugin(packages[i])
                                   /\ ~Duplicate(i) /\ Points(i) # {}

(* Every plugin called so far allowed the act.                             *)
AllAllowed(votes) == \A k \in DOMAIN votes: CountsAs(votes[k], "allow")

(* The state in hand is the captured one, or the last that succeeded.      *)
StateIsWhole(current, votes) ==
    current # "raw" =>
        \E k \in DOMAIN votes:
            /\ CountsAs(votes[k], current)
            /\ \A l \in (k + 1)..Len(votes):
                  CallResult(votes[l].ending, votes[l].area.output) = "error"

RunOK ==
    /\ run \in [kind: {"none", "capture", "act", "delivered", "performed", "blocked"},
                at: Nat, current: {"raw"} \cup Outputs, votes: Seq(Vote)]
    /\ run.kind # "none" => startup = "running"
    /\ run.kind \in {"capture", "act"} =>
          /\ run.at = Len(run.votes) + 1
          /\ Len(run.votes) <= Len(hooks[HookPoint(run.kind)])
    /\ run.kind = "performed" => Len(run.votes) = Len(hooks["before_act"])
    /\ run.kind \in {"act", "performed"} => AllAllowed(run.votes)
    /\ run.kind \in {"capture", "delivered"} => StateIsWhole(run.current, run.votes)

MemoryOK ==
    /\ hookRuns \in Nat
    /\ memory \in [HookPoints -> [DOMAIN configured -> Areas]]
    /\ \A p \in HookPoints: \A i \in DOMAIN configured: memory[p][i].run <= hookRuns

(* An area written in the run under way is that of a plugin it has called. *)
CalledOK ==
    run.kind \in {"capture", "act"} =>
        \A p \in HookPoints: \A i \in DOMAIN configured:
            memory[p][i].run = hookRuns =>
                p = HookPoint(run.kind) /\ \E k \in 1..(run.at - 1): hooks[p][k] = i

HostInv == PackagesOK /\ WiringOK /\ MemoryOK /\ CalledOK /\ RunOK
=============================================================================
