---------------------------- MODULE PolicyEngine ----------------------------
(***************************************************************************)
(* The policy engine (core-runtime/src/policy.rs): a list of rules is      *)
(* validated as a whole and replaces the one in force or is refused; the   *)
(* first rule that matches an action's context decides, and its outcome    *)
(* projector may raise the decision on the amounts the page shows.         *)
(*                                                                         *)
(* An optional field is a set of at most one element.  A regular           *)
(* expression is the set of normalised (trimmed, lower-case) texts it      *)
(* matches, and `compiles` says that each of a rule's expressions is       *)
(* non-empty and compiles; a path is the sequence of its separators and    *)
(* letters; an amount is a number of currency units.                       *)
(***************************************************************************)
EXTENDS Naturals, Sequences, FiniteSets

CONSTANTS DefaultRules,   \* policy/default_rules.json
          RuleSets,       \* lists of rules an embedder may set
          Contexts,       \* what is asked of the engine
          MaxRuleChanges  \* calls of set_policy_rules

VARIABLES policyRules,    \* the engine's rules
          asked,          \* the context being evaluated, or none: a set
          decision,
          ruleChanges

policyVars == <<policyRules, asked, decision, ruleChanges>>

-----------------------------------------------------------------------------
(* validate_rule_set *)

RequireHumanApproval == "require_human_approval"

ValidProjector(p) ==
    /\ (p.block \cup p.warn # {}) => p.amount_regex
    /\ \A b \in p.block, w \in p.warn: b >= w

ValidRule(r) ==
    /\ r.id # ""
    /\ r.compiles
    /\ <<>> \notin r.path_prefix
    /\ (r.action = RequireHumanApproval) <=> (r.scope # {})
    /\ \A p \in r.outcome_projector: ValidProjector(p)

(* Mutant: ids may be used twice. *)
ValidateRuleSetOneByOne(rules) == \A i \in DOMAIN rules: ValidRule(rules[i])

ValidateRuleSet(rules) ==
    /\ \A i \in DOMAIN rules: ValidRule(rules[i])
    /\ \A i, j \in DOMAIN rules: rules[i].id = rules[j].id => i = j

\* What the types of a rule and of a context guarantee.
RuleShape(r) ==
    /\ r.path_prefix \subseteq Seq(STRING)
    /\ \A p \in r.outcome_projector: p.block \cup p.warn \subseteq Nat

ContextShape(c) ==
    /\ DOMAIN c = {"domain", "path", "target_role", "target_text", "surrounding"}
    /\ c.path \in Seq(STRING)
    /\ \A s, t \in c.surrounding: s = t
    /\ \A s \in c.surrounding: /\ DOMAIN s = {"text", "amounts"}
                               /\ s.amounts \subseteq Nat /\ IsFiniteSet(s.amounts)

(* PolicyEngine::default panics if the embedded list is malformed.         *)
ASSUME PolicyAssumption ==
    /\ ValidateRuleSet(DefaultRules)
    /\ \A rules \in RuleSets \cup {DefaultRules}:
          /\ Len(rules) \in Nat /\ DOMAIN rules = 1..Len(rules)
          /\ \A i \in DOMAIN rules: RuleShape(rules[i])
    /\ \A c \in Contexts: ContextShape(c)

-----------------------------------------------------------------------------
(* CompiledPolicyRule::matches *)

StartsWith(path, prefix) ==
    Len(prefix) <= Len(path) /\ SubSeq(path, 1, Len(prefix)) = prefix

(* Mutant: a plain string prefix. *)
MatchesPathAsString(path, prefix) == StartsWith(path, prefix)

MatchesPath(path, prefix) ==
    /\ StartsWith(path, prefix)
    /\ \/ path = prefix
       \/ Len(prefix) < Len(path) /\ path[Len(prefix) + 1] = "/"
       \/ prefix[Len(prefix)] = "/"

Matches(r, c) ==
    /\ \A d \in r.domain: d \in c.domain
    /\ \A prefix \in r.path_prefix: MatchesPath(c.path, prefix)
    /\ \A role \in r.role: role \in c.target_role
    /\ \A re \in r.text_regex: \E t \in c.target_text: t \in re
    /\ \A re \in r.context_regex: \E s \in c.surrounding: s.text \in re

-----------------------------------------------------------------------------
(* compute_outcome and to_decision *)

(* Mutant: the first amount found is projected, not the largest. *)
ProjectedAmountFirst(p, c) ==
    IF p.amount_regex
    THEN {a \in UNION {s.amounts: s \in c.surrounding}:
             \A b \in UNION {s.amounts: s \in c.surrounding}: a <= b}
    ELSE {}

\* The largest amount of the surrounding text; a set of at most one.
ProjectedAmount(p, c) ==
    IF p.amount_regex
    THEN {a \in UNION {s.amounts: s \in c.surrounding}:
             \A b \in UNION {s.amounts: s \in c.surrounding}: a >= b}
    ELSE {}

Exceeds(amounts, threshold) == \E a \in amounts, t \in threshold: a > t

ComputeOutcome(r, c) ==
    IF \E p \in r.outcome_projector: Exceeds(ProjectedAmount(p, c), p.block)
    THEN "block"
    ELSE IF /\ \E p \in r.outcome_projector: Exceeds(ProjectedAmount(p, c), p.warn)
            /\ r.action = "allow"
    THEN RequireHumanApproval
    ELSE r.action

(* Mutant: the declared scope also where the projector asked for approval. *)
DecisionScopeDeclared(r, action) == r.scope

\* A rule promoted by its projector declares no scope: ActionOnly.
DecisionScope(r, action) ==
    IF action # RequireHumanApproval THEN {}
    ELSE IF r.scope = {} THEN {"action_only"} ELSE r.scope

ToDecision(r, c) ==
    [action |-> ComputeOutcome(r, c), rule_id |-> {r.id},
     scope |-> DecisionScope(r, ComputeOutcome(r, c))]

AllowDecision == [action |-> "allow", rule_id |-> {}, scope |-> {}]

Evaluate(rules, c) ==
    LET matching == {i \in DOMAIN rules: Matches(rules[i], c)}
    IN IF matching = {} THEN AllowDecision
       ELSE ToDecision(rules[CHOOSE i \in matching: \A j \in matching: i <= j], c)

-----------------------------------------------------------------------------
PolicyInit == /\ policyRules = DefaultRules
              /\ asked = {} /\ decision = AllowDecision
              /\ ruleChanges = 0

\* PolicyEngine::try_new: all or nothing.
SetPolicyRules(rules) ==
    /\ asked = {} /\ ruleChanges < MaxRuleChanges
    /\ policyRules' = IF ValidateRuleSet(rules) THEN rules ELSE policyRules
    /\ ruleChanges' = ruleChanges + 1
    /\ UNCHANGED <<asked, decision>>

EvaluateContext(c) == /\ asked = {}
                      /\ asked' = {c}
                      /\ decision' = Evaluate(policyRules, c)
                      /\ UNCHANGED <<policyRules, ruleChanges>>

Decided == /\ asked # {}
           /\ asked' = {} /\ decision' = AllowDecision
           /\ UNCHANGED <<policyRules, ruleChanges>>

PolicyNext == \/ \E rules \in RuleSets: SetPolicyRules(rules)
              \/ \E c \in Contexts: EvaluateContext(c)
              \/ Decided

PolicySpec == PolicyInit /\ [][PolicyNext]_policyVars

-----------------------------------------------------------------------------
Strictness(action) ==
    CASE action = "allow" -> 0 [] action = "block" -> 2 [] OTHER -> 1

(* Whatever amounts a page shows besides, the decision is at least as       *)
(* strict as it is for any part of them: a small amount beside a large one  *)
(* hides nothing, and thresholds never loosen a rule (compute_outcome).     *)
AmountsOnlyTighten ==
    \A c \in asked: \A s \in c.surrounding: \A fewer \in SUBSET s.amounts:
        Strictness(Evaluate(policyRules,
                       [c EXCEPT !.surrounding = {[s EXCEPT !.amounts = fewer]}]).action)
            <= Strictness(decision.action)

(* A decision carries an approval scope exactly when it asks for approval,  *)
(* also when the projector, not the rule, asks: enforcement has always a    *)
(* scope to grant and never grants one for a rule that blocks.              *)
ScopeFollowsAction == (decision.action = RequireHumanApproval) <=> (decision.scope # {})

(* A rule's path ends where a segment of the URL's path does: the           *)
(* rule for /login decides for /login/step and never for /logina.           *)
MatchEndsAtSegment ==
    \A c \in asked: \A i \in DOMAIN policyRules: \A prefix \in policyRules[i].path_prefix:
        Matches(policyRules[i], c) /\ Len(prefix) < Len(c.path) =>
            "/" \in {c.path[Len(prefix)], c.path[Len(prefix) + 1]}

(* The rule a decision names is one rule of the engine, and no rule before  *)
(* it matches: a reviewer who is shown the id is shown what decided, also   *)
(* after a list that was refused.                                           *)
RuleIsIdentified ==
    \A c \in asked: \A id \in decision.rule_id:
        LET named == {i \in DOMAIN policyRules: policyRules[i].id = id}
        IN /\ Cardinality(named) = 1
           /\ \A i \in named: /\ Matches(policyRules[i], c)
                              /\ \A j \in 1..(i - 1): ~Matches(policyRules[j], c)

(* A decision is no looser than what the page shows, grants a scope when it *)
(* asks, covers the paths its rule names and names the rule that made it.  *)
DecisionIsSound ==
    /\ AmountsOnlyTighten /\ ScopeFollowsAction
    /\ MatchEndsAtSegment /\ RuleIsIdentified

(* The strengthening that makes it inductive: the rules in force passed     *)
(* validation, and a decision is what they make of the context asked about. *)
PolicyInv ==
    /\ policyRules \in RuleSets \cup {DefaultRules} /\ ValidateRuleSet(policyRules)
    /\ \/ asked = {} /\ decision = AllowDecision
       \/ \E c \in Contexts: asked = {c} /\ decision = Evaluate(policyRules, c)
=============================================================================
