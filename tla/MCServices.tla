----------------------------- MODULE MCServices -----------------------------
(***************************************************************************)
(* The services around the page, each on a small instance of its own.      *)
(* They share no state with one another in these models, so a behaviour is *)
(* a behaviour of one of them, picked at the start, while the others stay  *)
(* in one of their initial states.                                         *)
(***************************************************************************)
EXTENDS AuditLog, SemanticCapture, McpBackend, McpServer,
        SkillRuns, SessionVault, Marketplace, PluginHost, PolicyEngine,
        Extraction, StdioTransport, StateDelivery, SelfHealing

VARIABLE part   \* the component that moves

Parts == {"log", "capture", "backend", "server", "skill", "vault",
          "market", "host", "policy", "extract", "stdio", "delivery", "heal"}

vars == <<part, logVars, capVars, backVars, serverVars, skillVars,
          vaultVars, packVars, hostVars, policyVars, extractVars, stdioVars,
          deliveryVars, healVars>>

-----------------------------------------------------------------------------
(* Audit log: no directory but a webhook; rotated, synced files, with a    *)
(* failing write and with one event more.                                  *)

McEnvs ==
    {[dir |-> "unset", maxBytes |-> {}, durability |-> "flush",
      hook |-> 1, events |-> 2, faults |-> 0],
     [dir |-> "usable", maxBytes |-> {2}, durability |-> "sync",
      hook |-> 0, events |-> 2, faults |-> 1],
     [dir |-> "usable", maxBytes |-> {3}, durability |-> "sync",
      hook |-> 0, events |-> 3, faults |-> 0]}

(* Page: body > (main > p), div, div, (aside > p); the second div comes    *)
(* and goes, and the aside is presentational.                               *)
McParent == <<0, 1, 2, 1, 1, 1, 6>>
McTag == <<"body", "main", "p", "div", "div", "aside", "p">>

(* Site of two pages; one model that can be imported and one that cannot.  *)
McEffect == {<<1, 1, 2>>, <<2, 1, 1>>, <<2, 2, 1>>}
McPacks == {[names |-> <<1, 2>>, counts |-> <<1>>],
            [names |-> <<1>>, counts |-> <<1>>]}

-----------------------------------------------------------------------------
(* Skills: all of three steps over some kinds and edges, and some with     *)
(* parameters, extracted values, handoffs, loops and broken edges.         *)

Literal == <<"text", "">>

McStep(kind, id, target, retries, success, failure) ==
    [kind |-> kind, id |-> id, target |-> target, control |-> Literal,
     data |-> Literal, key |-> "k", retries |-> retries,
     onSuccess |-> success, onFailure |-> failure]

McSteps(id) ==
    {McStep(k, id, "a", IF k = "act" THEN 1 ELSE 0, s, f) :
        k \in {"verify", "act", "extract"}, s \in {"", "s1"},
        f \in {"", "s3"}}

McSkills ==
    McSteps("s1") \X McSteps("s2") \X McSteps("s3") \cup
    {<<>>,
     <<McStep("locate", "l", "", 0, "", "l")>>,
     <<McStep("verify", "v", "a", 0, "", "zz")>>,
     <<McStep("verify", "v", "a", 0, "", ""), McStep("verify", "v", "b", 0, "", "")>>,
     <<McStep("verify", "v", "a", 0, "w", "a"), McStep("act", "a", "a", 0, "", ""),
       McStep("wait", "w", "", 0, "", "")>>,
     <<McStep("verify", "v", "a", 0, "a", "w"), McStep("wait", "w", "a", 0, "a", ""),
       McStep("act", "a", "a", 0, "", "")>>,
     <<McStep("verify", "v", "a", 2, "", ""),
       [McStep("act", "", "a", 1, "v", "v") EXCEPT !.data = <<"params", "none">>]>>,
     <<McStep("extract", "x", "", 0, "", ""), McStep("verify", "", "a", 0, "", ""),
       [McStep("act", "", "a", 1, "", "x") EXCEPT !.control = <<"extracted", "k">>]>>,
     <<McStep("locate", "l", "", 0, "", ""),
       [McStep("verify", "v", "a", 1, "", "h") EXCEPT !.data = <<"params", "p">>],
       [McStep("act", "a", "a", 1, "", "x") EXCEPT !.control = <<"bare", "q">>,
                                                   !.data = <<"extracted", "k">>],
       McStep("extract", "x", "", 0, "v", "l"),
       McStep("handoff", "h", "", 0, "", "")>>}

-----------------------------------------------------------------------------
(* Plugins: a sound one and another that is sound too, or wrong in one     *)
(* way; what an edit of a stored package may put into its fields.          *)

McPlugin(id, points, code) ==
    [key |-> "k",
     content |-> [plugin_id |-> id, version |-> "1", abi_version |-> 1,
                  entry_points |-> points, capabilities |-> {"read_state"},
                  sbom |-> "full", wasm_module |-> code]]

BothPoints == {"on_state", "before_act"}

McConfigurations ==
    {<<McPlugin("p", BothPoints, "good"), other>> : other \in
        {McPlugin("q", BothPoints, code) : code \in {"good", "bad", "trap"}} \cup
        {McPlugin("p", BothPoints, "good"),
         McPlugin("q", {"before_act", "connector"}, "other"),
         McPlugin("q", {"connector"}, "good"),
         McPlugin("q", {"on_state"}, "part"),
         [McPlugin("q", BothPoints, "good") EXCEPT !.key = "none"],
         [McPlugin("q", BothPoints, "good") EXCEPT !.content.capabilities = {}],
         [McPlugin("q", BothPoints, "good") EXCEPT !.content.abi_version = 0]}}

McModules ==
    [m \in {"good", "other", "trap", "bad", "part"} |->
        [valid |-> m # "bad", starts |-> m # "trap",
         exports |-> IF m = "part" THEN {"before_act"}
                     ELSE {"on_state", "before_act", "connector"}]]

McPackageValues ==
    [plugin_id |-> {"", "p"}, version |-> {"", "2"}, abi_version |-> {0, 1, 2},
     entry_points |-> {{}, {"connector"}, {"before_act"}}, capabilities |-> {{}},
     sbom |-> {"empty"}, wasm_module |-> {"other", "trap", "bad"}]

-----------------------------------------------------------------------------
(* Policy: every single rule over these fields, and pairs of simpler ones. *)

McProjectors ==
    {[amount_regex |-> TRUE, block |-> b, warn |-> w] :
        b \in {{}, {2}}, w \in {{}, {1}}} \cup
    {[amount_regex |-> FALSE, block |-> {1}, warn |-> {}]}

McRules ==
    {[id |-> i, domain |-> d, path_prefix |-> p, role |-> {}, text_regex |-> t,
      context_regex |-> {}, compiles |-> TRUE, action |-> a, outcome_projector |-> o,
      scope |-> IF a = RequireHumanApproval THEN {"until_navigation"} ELSE {}] :
        i \in {"r", "s"}, d \in {{}, {"shop"}},
        p \in {{}, {<<"/", "a">>}, {<<"/", "a", "/">>}}, t \in {{}, {{"pay"}}},
        a \in {"allow", "block", RequireHumanApproval},
        o \in {{}} \cup {{q} : q \in McProjectors}}

McSimpleRules ==
    {r \in McRules : /\ r.domain = {} /\ r.text_regex = {}
                     /\ \A q \in r.outcome_projector : q.block = {2} /\ q.warn = {1}}

McRuleSets ==
    {<<>>} \cup {<<r>> : r \in {q \in McRules : q.id = "r"}} \cup
    {<<[r EXCEPT !.compiles = FALSE]>> : r \in McSimpleRules} \cup
    McSimpleRules \X {r \in McSimpleRules : r.path_prefix # {}}

(* As require-approval-payments-domain of policy/default_rules.json.       *)
McDefaultRules ==
    <<[id |-> "payments", domain |-> {"shop"}, path_prefix |-> {<<"/", "a">>},
       role |-> {}, text_regex |-> {{"pay"}}, context_regex |-> {}, compiles |-> TRUE,
       action |-> RequireHumanApproval, outcome_projector |-> {},
       scope |-> {"until_navigation"}]>>

McContexts ==
    {[domain |-> d, path |-> p, target_role |-> {}, target_text |-> t,
      surrounding |-> s] :
        d \in {{}, {"shop"}}, t \in {{}, {"pay"}},
        p \in {<<"/">>, <<"/", "a">>, <<"/", "a", "/">>, <<"/", "a", "b">>,
               <<"/", "a", "/", "b">>},
        s \in {{}, {[text |-> "x", amounts |-> {1, 3}]},
               {[text |-> "x", amounts |-> {2}]}}}

-----------------------------------------------------------------------------
(* Extraction: a single rule, structured rules, item rules, and what is    *)
(* not a definition; a page of elements with some marks.                   *)

McField(key, spec) == [key |-> key, spec |-> spec]

McFieldSets ==
    {{}, {McField("a", "")}, {McField("a", "&"), McField("b", "attr_x")},
     {McField("a", "prop_value"), McField("b", "child")}}

McDefinition(items, fields, selector, attribute) ==
    [is_object |-> TRUE, items |-> items, has_fields |-> fields # {},
     fields_is_object |-> fields # {}, fields |-> UNION fields,
     selector |-> selector, attribute |-> attribute]

McDefinitions ==
    {McDefinition({}, {}, "s", a) : a \in {{}, {""}, {"text"}, {"attr_x"}, {"prop_value"}}}
    \cup {McDefinition({}, {f}, s, {}) : f \in McFieldSets, s \in {"", "s"}}
    \cup {McDefinition({[fields_is_object |-> TRUE, fields |-> f, selector |-> "s"]},
                       {{McField("c", "child")}}, "s", {"attr_x"}) : f \in McFieldSets}
    \cup {[McDefinition({}, {}, "", {}) EXCEPT !.is_object = FALSE]}

McPageElements == {{}, {"attr_x", "prop_value"}, {"child", "prop_value"}}

McBuiltinRules ==
    [n \in {"page_title", "headings"} |->
        [mode |-> IF n = "page_title" THEN "single" ELSE "structured",
         fields |-> IF n = "page_title" THEN {}
                    ELSE {McField("level", "prop_tagName"), McField("text", "&")},
         attribute |-> {}]]

-----------------------------------------------------------------------------
(* Stdio: lines below, at and above the limit of three bytes.              *)

McLine(kind, id, arg, size) == [kind |-> kind, id |-> id, arg |-> arg, size |-> size]

McClientLines ==
    {McLine("initialize", 1, v, 2) : v \in {"2025-06-18", "1999-01-01"}} \cup
    {McLine("call", id, "", size) : id \in {0, 2}, size \in {2, 3, 7}} \cup
    {McLine("initialized", id, "", 2) : id \in {0, 3}} \cup
    {McLine(kind, 4, "", 1) : kind \in {"list", "bad_arguments", "unknown_tool",
                                        "no_name", "unsupported"}} \cup
    {McLine("malformed", 0, "", 2), McLine("not_utf8", 0, "", 2),
     McLine("blank", 0, "", 0)}

-----------------------------------------------------------------------------
(* Delivery: body > header > a, main > (header > a, button, text), with a  *)
(* text that may hold phrases in two places, and elements that come and go.*)

McNode(role, aria, text, n) ==
    [role |-> role, aria |-> aria, label |-> text, alias |-> <<>>,
     attributes |-> <<>>, flagged |-> FALSE, id |-> n]

McTree ==
    << >> :> McNode("body", "", <<>>, 1)
    @@ <<1>> :> McNode("header", "", <<>>, 2)
    @@ <<1, 1>> :> McNode("a", "", <<"words">>, 3)
    @@ <<2>> :> McNode("main", "", <<>>, 4)
    @@ <<2, 1>> :> McNode("div", "", <<>>, 5)
    @@ <<2, 1, 1>> :> McNode("footer", "", <<>>, 6)
    @@ <<2, 1, 1, 1>> :> McNode("a", "", <<"words">>, 7)
    @@ <<2, 2>> :> McNode("text", "", <<"words">>, 8)

McFirstTrees ==
    {McTree, [McTree EXCEPT ![<<2>>].role = "div", ![<<2, 1>>].aria = "navigation",
                            ![<<2, 2>>].role = "button"]}

McPieces ==
    {<<>>, <<"words">>, <<"words", "phrase">>, <<"phrase", "veiled">>, <<"veiled">>}

(* A text of the last leaf, the leaf itself, a region's role, or new ids.  *)
McLaterTrees(tree) ==
    {[tree EXCEPT ![p][f] = t] : p \in DOMAIN tree \cap {<<2, 2>>},
                                 f \in {"label", "attributes"}, t \in McPieces}
    \cup {[tree EXCEPT ![<<2>>].role = r] : r \in {"main", "div", "nav"}}
    \cup {[p \in DOMAIN tree \ {<<2, 2>>} |-> tree[p]],
          [p \in DOMAIN tree |-> [tree[p] EXCEPT !.id = @ + 10]]}
    \cup {IF <<2, 3>> \in DOMAIN tree THEN tree
          ELSE tree @@ <<2, 3>> :> McNode("div", "link", <<"veiled">>, 9)}

-----------------------------------------------------------------------------
(* Recovery: an element, its twin, one with more words, one with fewer,    *)
(* one of another role, one without a node.                                *)

McElement(role, label, attributes, key) ==
    [role |-> role, label |-> label, alias |-> {}, attributes |-> attributes,
     key |-> key, real |-> TRUE]

McPay(key) == McElement("button", {{"pay", "now"}}, {<<"id", "x">>, <<"class", "c">>}, key)
McMore(key) == McElement("button", {{"pay", "now", "later"}}, {<<"id", "x">>}, key)
McLess(key) == McElement("button", {{"pay"}}, {}, key)
McBare(key) == [McElement("a", {}, {<<"id", "x">>, <<"name", "n">>}, key)
                   EXCEPT !.alias = {"n"}]

McLayouts ==
    {<<McPay("k1")>>, <<McPay("k2"), McMore("k3")>>, <<McPay("k2"), McPay("k3")>>,
     <<McLess("k2"), McBare("k3")>>,
     <<[McPay("k2") EXCEPT !.real = FALSE], McBare("k1")>>}

-----------------------------------------------------------------------------
(* A component that does not move starts in one of its initial states.     *)
Init ==
    /\ part \in Parts
    /\ LogInit /\ (part # "log" => logEnv = FromEnv(CHOOSE e \in AuditEnvs : TRUE))
    /\ CapInit /\ (part # "capture" => dom = CHOOSE d \in Doms : TRUE)
    /\ BackInit /\ (part # "backend" => live = CHOOSE p \in PageHashes : TRUE)
    /\ ServerInit /\ (part # "server" => plan = CHOOSE p \in Plans : TRUE)
    /\ SkillInit /\ (part # "skill" => skill = <<>>)
    /\ VaultInit
    /\ part # "vault" =>
          /\ currentKey = CHOOSE k \in KeyIds \ SpareKeys : TRUE
          /\ \A k \in DOMAIN keys : keys[k] = CHOOSE b \in KeyBytes : TRUE
          /\ \A c \in VaultClients : jar[c] = {}
    /\ HostInit /\ (part # "host" => configured = CHOOSE c \in Configurations : TRUE)
    /\ ExtractInit /\ (part # "extract" => found = CHOOSE f \in Pages : TRUE)
    /\ PackInit /\ PolicyInit
    /\ StdioInit /\ (part # "stdio" => script = <<>> /\ ~unended)
    /\ DeliveryInit
    /\ part # "delivery" =>
          /\ sanMode = CHOOSE m \in SanModes : TRUE
          /\ loadProfile = CHOOSE p \in LoadProfiles : TRUE
          /\ pageTree = CHOOSE t \in FirstTrees : TRUE
    /\ HealInit /\ (part # "heal" => rendered = CHOOSE l \in Layouts : TRUE)

(* Every component but the one that moves stays as it is.                  *)
Rest ==
    /\ UNCHANGED part
    /\ IF part = "log" THEN TRUE ELSE UNCHANGED logVars
    /\ IF part = "capture" THEN TRUE ELSE UNCHANGED capVars
    /\ IF part = "backend" THEN TRUE ELSE UNCHANGED backVars
    /\ IF part = "server" THEN TRUE ELSE UNCHANGED serverVars
    /\ IF part = "skill" THEN TRUE ELSE UNCHANGED skillVars
    /\ IF part = "vault" THEN TRUE ELSE UNCHANGED vaultVars
    /\ IF part = "market" THEN TRUE ELSE UNCHANGED packVars
    /\ IF part = "host" THEN TRUE ELSE UNCHANGED hostVars
    /\ IF part = "policy" THEN TRUE ELSE UNCHANGED policyVars
    /\ IF part = "extract" THEN TRUE ELSE UNCHANGED extractVars
    /\ IF part = "stdio" THEN TRUE ELSE UNCHANGED stdioVars
    /\ IF part = "delivery" THEN TRUE ELSE UNCHANGED deliveryVars
    /\ IF part = "heal" THEN TRUE ELSE UNCHANGED healVars

Next ==
    \/ part = "log" /\ LogNext /\ Rest
    \/ part = "capture" /\ CapNext /\ Rest
    \/ part = "backend" /\ BackNext /\ Rest
    \/ part = "server" /\ ServerNext /\ Rest
    \/ part = "skill" /\ SkillNext /\ Rest
    \/ part = "vault" /\ VaultNext /\ Rest
    \/ part = "market" /\ PackNext /\ Rest
    \/ part = "host" /\ HostNext /\ Rest
    \/ part = "policy" /\ PolicyNext /\ Rest
    \/ part = "extract" /\ ExtractNext /\ Rest
    \/ part = "stdio" /\ StdioNext /\ Rest
    \/ part = "delivery" /\ DeliveryNext /\ Rest
    \/ part = "heal" /\ HealNext /\ Rest

Spec == Init /\ [][Next]_vars
=============================================================================
