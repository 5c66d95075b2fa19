----------------------------- MODULE Extraction -----------------------------
(***************************************************************************)
(* Extraction rules (plugin-host/src/schema_registry.rs) and the extract   *)
(* tool (mcp-server/src/backend_tools.rs, extract.rs): a rule, registered  *)
(* by name or sent inline, becomes a script that the page evaluates; when  *)
(* its result has gaps, a second script asks the page why.  The page lives *)
(* on between the two.                                                     *)
(*                                                                         *)
(* An element is the set of things it has: children a selector finds,      *)
(* attributes, non-null DOM properties.  What a field or an attribute is   *)
(* resolved to is null or not; its text, and the sanitizing and redaction  *)
(* of it, are left out.                                                    *)
(***************************************************************************)
EXTENDS Naturals, Sequences, FiniteSets

CONSTANTS PageElements,   \* the things an element may have, as sets of marks
          Definitions,    \* JSON definitions of rules, valid or not
          RuleNames,      \* names embedders register under
          BuiltinRules,   \* with_builtin_rules: a function from names to rules
          MaxMatches,     \* elements a selector finds at most
          MaxPageChanges, MaxExtracts

ExtractionAssumption ==
    /\ MaxMatches \in Nat
    /\ \A n \in DOMAIN BuiltinRules: BuiltinRules[n].mode \in {"single", "structured"}

ASSUME ExtractionAssumption

VARIABLES registry,   \* SchemaRegistry.rules: a function from names to rules
          found,      \* the elements the rule's selector matches now
          tool,       \* the extract call under way
          pageChanges, extracts

extractVars == <<registry, found, tool, pageChanges, extracts>>

NoTool == [at |-> "idle"]

-----------------------------------------------------------------------------
(* ExtractionRule::from_value *)

\* A field: a child selector, "&", an attribute or a DOM property; "" is not
\* a usable one, nor is "@" alone.
ValidFields(fields) == fields # {} /\ \A f \in fields: f.spec \notin {"", "@"}

\* The forms in the order they are looked for; `items` hides the others.
Parse(definition) ==
    LET structured(d) == d.selector # "" /\ d.fields_is_object /\ ValidFields(d.fields)
        rule(d) == [mode |-> "structured", fields |-> d.fields, attribute |-> {}]
        single == [mode |-> "single", fields |-> {},
                   attribute |-> definition.attribute \ {""}]
    IN IF ~definition.is_object THEN {}
       ELSE IF definition.items # {}
       THEN {rule(d): d \in {i \in definition.items: structured(i)}}
       ELSE IF definition.has_fields
       THEN IF structured(definition) THEN {rule(definition)} ELSE {}
       ELSE IF definition.selector # "" THEN {single} ELSE {}

-----------------------------------------------------------------------------
(* The generated scripts, evaluated on the elements found *)

\* field_value_js and to_js_script: what is null.  "&" never is.
FieldResolves(element, spec) == spec = "&" \/ spec \in element

\* A single rule's attribute: "text" means the element's text, never null.
AttributeResolves(element, attribute) == attribute = "text" \/ attribute \in element

\* Two of the four names of is_dom_property.
IsDomProperty(spec) == spec \in {"prop_value", "prop_tagName"}

(* Mutant: the diagnostics look for an attribute also where the value is    *)
(* read from a property.                                                    *)
PresentAsAttribute(element, spec) ==
    spec = "&" \/ (~IsDomProperty(spec) /\ spec \in element)

\* field_presence: how the diagnostics decide.
Present(element, spec) == spec = "&" \/ spec \in element

\* The result: for a single rule the first element's text or attribute, for a
\* structured one a row per element; here the set of null places.
Result(rule, els) ==
    IF rule.mode = "single"
    THEN [rows |-> 0, null |-> els = <<>> \/ \E a \in rule.attribute:
                                                  ~AttributeResolves(els[1], a), gaps |-> {}]
    ELSE [rows |-> Len(els), null |-> FALSE,
          gaps |-> {f \in rule.fields: \E i \in DOMAIN els: ~FieldResolves(els[i], f.spec)}]

\* extraction_result_has_gaps
HasGaps(mode, result) ==
    \/ result.null
    \/ mode = "structured" /\ (result.rows = 0 \/ result.gaps # {})

\* to_js_diagnostics_script: the keys it names.
Diagnostics(rule, els) ==
    IF els = <<>> THEN {"$selector"}
    ELSE IF rule.mode = "single"
    THEN IF \E a \in rule.attribute: ~IsDomProperty(a) /\ ~AttributeResolves(els[1], a)
         THEN {"$selector"} ELSE {}
    ELSE {f.key: f \in {g \in rule.fields: \E i \in DOMAIN els: ~Present(els[i], g.spec)}}

-----------------------------------------------------------------------------
Pages == UNION {[1..n -> PageElements]: n \in 0..MaxMatches}

ExtractInit == /\ registry = BuiltinRules
               /\ found \in Pages
               /\ tool = NoTool
               /\ pageChanges = 0 /\ extracts = 0

(* Mutant: registering again replaces the rule. *)
RegisterOver(name, definition) ==
    /\ tool = NoTool
    /\ Parse(definition) # {}
    /\ registry' = [n \in DOMAIN registry \cup {name} |->
                      IF n = name THEN CHOOSE r \in Parse(definition): TRUE
                      ELSE registry[n]]
    /\ UNCHANGED <<found, tool, pageChanges, extracts>>

\* register_extraction_rule: a name is taken once, a bad definition never is.
Register(name, definition) ==
    /\ tool = NoTool
    /\ name \notin DOMAIN registry /\ Parse(definition) # {}
    /\ registry' = [n \in DOMAIN registry \cup {name} |->
                      IF n = name THEN CHOOSE r \in Parse(definition): TRUE
                      ELSE registry[n]]
    /\ UNCHANGED <<found, tool, pageChanges, extracts>>

PageChanges(els) == /\ pageChanges < MaxPageChanges /\ tool.at \in {"idle", "diagnose"}
                    /\ found' = els /\ els # found
                    /\ tool' = IF tool.at = "diagnose" THEN [tool EXCEPT !.still = FALSE]
                               ELSE tool
                    /\ pageChanges' = pageChanges + 1
                    /\ UNCHANGED <<registry, extracts>>

\* extract: a name wins over an inline rule; the value script may throw or its
\* evaluation fail, which ends the call with a ScriptEvalError.
Extract(rules, throws) ==
    /\ tool = NoTool /\ extracts < MaxExtracts
    /\ extracts' = extracts + 1
    /\ IF rules = {} \/ throws THEN tool' = [at |-> "error"]
       ELSE \E r \in rules:
              tool' = [at |-> IF HasGaps(r.mode, Result(r, found)) THEN "diagnose" ELSE "done",
                       rule |-> r, result |-> Result(r, found), errors |-> {}, still |-> TRUE]
    /\ UNCHANGED <<registry, found, pageChanges>>

ExtractNamed(name, throws) ==
    Extract(IF name \in DOMAIN registry THEN {registry[name]} ELSE {}, throws)

ExtractInline(definition, throws) == Extract(Parse(definition), throws)

\* diagnose_extraction: a failing script gives no errors.
Diagnose(fails) ==
    /\ tool.at = "diagnose"
    /\ tool' = [tool EXCEPT !.at = "done",
                            !.errors = IF fails THEN {} ELSE Diagnostics(tool.rule, found),
                            !.still = @ /\ ~fails]
    /\ UNCHANGED <<registry, found, pageChanges, extracts>>

Respond == /\ tool.at \in {"done", "error"}
           /\ tool' = NoTool
           /\ UNCHANGED <<registry, found, pageChanges, extracts>>

ExtractNext ==
    \/ \E name \in RuleNames, d \in Definitions: Register(name, d)
    \/ \E els \in Pages: PageChanges(els)
    \/ \E name \in RuleNames \cup DOMAIN BuiltinRules, t \in BOOLEAN: ExtractNamed(name, t)
    \/ \E d \in Definitions, t \in BOOLEAN: ExtractInline(d, t)
    \/ \E fails \in BOOLEAN: Diagnose(fails)
    \/ Respond

ExtractSpec == ExtractInit /\ [][ExtractNext]_extractVars

-----------------------------------------------------------------------------
SilentProperty(rule) == rule.mode = "single" /\ \E a \in rule.attribute: IsDomProperty(a)

(* Where the page stood still between the two scripts, the errors explain   *)
(* exactly what is missing: a key per field that is null in some row, the   *)
(* rule's own key when nothing was found, none for a value that is there.   *)
(* (A null DOM property of a single rule stays unexplained.)                *)
ErrorsExplainGaps ==
    tool.at = "done" /\ tool.still /\ ~SilentProperty(tool.rule) =>
        tool.errors = IF tool.result.null \/ (tool.rule.mode = "structured"
                                              /\ tool.result.rows = 0)
                      THEN {"$selector"} ELSE {f.key: f \in tool.result.gaps}

(* The rules every client can rely on are what they were, and a name        *)
(* once registered keeps its rule, whatever is registered later.            *)
NamesKeepTheirRule ==
    [][\A n \in DOMAIN registry: n \in DOMAIN registry' /\ registry'[n] = registry[n]]_extractVars

(* Every registered rule is one of the two forms, whoever brought it.        *)
RulesHaveModes ==
    \A n \in DOMAIN registry: registry[n].mode \in {"single", "structured"}

(* A call holds nothing, or its rule with what the rule gave; while the      *)
(* page stands still before the second script, that is what it gives now.   *)
ToolHoldsResult ==
    \/ tool \in {NoTool, [at |-> "error"]}
    \/ /\ tool = [at |-> tool.at, rule |-> tool.rule, result |-> tool.result,
                  errors |-> tool.errors, still |-> tool.still]
       /\ tool.at \in {"diagnose", "done"}
       /\ tool.rule.mode \in {"single", "structured"}
       /\ tool.still \in BOOLEAN
       /\ tool.at = "diagnose" /\ tool.still =>
             /\ tool.result = Result(tool.rule, found)
             /\ HasGaps(tool.rule.mode, tool.result)

(* The inductive invariant behind ErrorsExplainGaps.                        *)
ExtractInv == /\ found \in Pages
              /\ RulesHaveModes /\ ToolHoldsResult /\ ErrorsExplainGaps

(* What extract answers is explained, by rules that stay what they were.   *)
ExtractionIsHonest == []ErrorsExplainGaps /\ NamesKeepTheirRule
=============================================================================
