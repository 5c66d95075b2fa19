----------------------------- MODULE SkillRuns -----------------------------
(***************************************************************************)
(* SkillEngine::run over PageSkillRuntime: validation of a skill, its      *)
(* steps with branches and a lifetime budget of retries, templates filled  *)
(* from parameters and from what earlier steps extracted.                  *)
(*                                                                         *)
(* A step is a record: kind, id, target, the templates of its control slot *)
(* (target, selector, verb or condition) and of its data slot (value or    *)
(* expected text), key, retries, onSuccess and onFailure ("" for none).    *)
(***************************************************************************)
EXTENDS Naturals, Sequences, FiniteSets

CONSTANTS
    Skills,          \* the skill definitions that run: sequences of steps
    ParamKeys,       \* keys the run_skill call gives a scalar for
    MaxOperations    \* max_operations of the engine

StepKinds == {"locate", "verify", "act", "wait", "extract", "handoff"}

TemplateForms == {"text", "params", "extracted", "bare"}

(* parse_skill_definition: what the schema lets through *)
ASSUME SkillsAssumption ==
    \A s \in Skills :
        /\ Len(s) \in Nat
        /\ \A i \in 1..Len(s) :
             /\ s[i].kind \in StepKinds
             /\ s[i].retries \in Nat
             /\ s[i].control[1] \in TemplateForms /\ s[i].data[1] \in TemplateForms

VARIABLES
    skill,      \* the definition being run
    skillAt,    \* new, running, or how the run ended
    cursor,
    operations,
    retried,    \* retries_by_step
    extracted,  \* SkillExecutionContext: key -> null or text
    skillPast   \* auxiliary: the target cleared by a verify, how often each
                \* step was repeated since it succeeded, what went wrong

skillVars == <<skill, skillAt, cursor, operations, retried, extracted, skillPast>>

Zero(s) == [i \in 1..Len(s) |-> 0]

SkillInit ==
    /\ skill \in Skills
    /\ skillAt = "new"
    /\ cursor = 1
    /\ operations = 0
    /\ retried = Zero(skill)
    /\ extracted = <<>>
    /\ skillPast = [cleared |-> "", again |-> Zero(skill), flags |-> {}]

-----------------------------------------------------------------------------
(* validate_skill_definition.                                              *)

Indices == 1..Len(skill)
StepIds == {skill[i].id : i \in Indices} \ {""}
StepAt(id) == CHOOSE i \in Indices : skill[i].id = id

UniqueIds ==
    \A i, j \in Indices : i # j => skill[i].id = "" \/ skill[i].id # skill[j].id

BranchesKnown ==
    \A i \in Indices : {skill[i].onSuccess, skill[i].onFailure} \subseteq StepIds \cup {""}

(* where a success leads; past the end if nowhere *)
AfterSuccess(i) ==
    IF skill[i].onSuccess # "" THEN StepAt(skill[i].onSuccess) ELSE i + 1

SuccessEdges ==
    {<<i, AfterSuccess(i)>> : i \in {k \in Indices : skill[k].kind # "handoff"}}

FailureEdges ==
    {<<i, StepAt(skill[i].onFailure)>> : i \in {k \in Indices : skill[k].onFailure # ""}}

(* validate_act_transition *)
Authorizes(i, j) == skill[i].kind = "verify" /\ skill[i].target = skill[j].target

(* Mutant: a failed verify may lead to the act too.                        *)
ActPredecessorsOnAnyEdge ==
    \A j \in {k \in Indices : skill[k].kind = "act"} :
        /\ j # 1
        /\ \A e \in SuccessEdges \cup FailureEdges : e[2] = j => Authorizes(e[1], j)
        /\ \E e \in SuccessEdges \cup FailureEdges : e[2] = j

ActPredecessors ==
    \A j \in {k \in Indices : skill[k].kind = "act"} :
        /\ j # 1
        /\ \A e \in SuccessEdges : e[2] = j => Authorizes(e[1], j)
        /\ \A e \in FailureEdges : e[2] # j
        /\ \E e \in SuccessEdges : e[2] = j

Start ==
    /\ skillAt = "new"
    /\ skillAt' = IF Len(skill) > 0 /\ UniqueIds /\ BranchesKnown /\ ActPredecessors
                  THEN "running" ELSE "invalid"
    /\ UNCHANGED <<skill, cursor, operations, retried, extracted, skillPast>>

-----------------------------------------------------------------------------
(* Templates.                                                              *)

(* resolve_template: who wrote the value, "" if the step fails *)
Resolve(template, slot) ==
    CASE template[1] = "params" ->
            IF template[2] \in ParamKeys THEN "caller" ELSE ""
      [] template[1] = "extracted" ->
            IF slot = "data" /\ template[2] \in DOMAIN extracted
                 /\ extracted[template[2]] # "null"
            THEN "page" ELSE ""
      [] template[1] = "bare" ->
            IF template[2] \in ParamKeys THEN "caller" ELSE "skill"
      [] OTHER -> "skill"

Resolves(step) ==
    /\ Resolve(step.control, "control") # ""
    /\ step.kind \in {"verify", "act"} => Resolve(step.data, "data") # ""

-----------------------------------------------------------------------------
(* One turn of the loop.                                                   *)

CurrentStep == skill[cursor]

Running == skillAt = "running" /\ cursor <= Len(skill)

(* Mutant: only turns that succeed count as operations.                    *)
OperationsSucceeded(ok) == IF ok THEN operations + 1 ELSE operations

OperationsAfter(ok) == operations + 1

Stopped == operations >= MaxOperations

(* what the operations of this turn do, as far as the properties ask *)
Noted(ok) ==
    [skillPast EXCEPT
        !.again[cursor] = IF ok THEN 0 ELSE @,
        !.cleared = CASE CurrentStep.kind = "verify" -> IF ok THEN CurrentStep.target ELSE ""
                      [] CurrentStep.kind = "act" -> IF ok THEN "" ELSE @
                      [] OTHER -> "",
        !.flags = @ \cup (IF CurrentStep.kind = "act" /\ Resolves(CurrentStep)
                          THEN (IF skillPast.cleared # CurrentStep.target
                                THEN {"unverified"} ELSE {})
                               \cup (IF Resolve(CurrentStep.control, "control") = "page"
                                     THEN {"steered"} ELSE {})
                          ELSE {})]

(* PageSkillRuntime::extract: text or, for a missing element, null *)
Stored(step, value) ==
    IF step.kind # "extract" THEN extracted
    ELSE [k \in DOMAIN extracted \cup {step.key} |->
             IF k = step.key THEN value ELSE extracted[k]]

Succeeds(value) ==
    /\ Running /\ ~Stopped
    /\ CurrentStep.kind # "handoff" /\ Resolves(CurrentStep)
    /\ retried' = [retried EXCEPT ![cursor] = 0]
    /\ operations' = OperationsAfter(TRUE)
    /\ extracted' = Stored(CurrentStep, value)
    /\ cursor' = AfterSuccess(cursor)
    /\ skillPast' = Noted(TRUE)
    /\ UNCHANGED <<skill, skillAt>>

(* Mutant: leaving the step gives it a fresh budget.                       *)
BudgetRenewed == [retried EXCEPT ![cursor] = 0]

BudgetAfterBranch == retried

Fails ==
    /\ Running /\ ~Stopped
    /\ CurrentStep.kind # "handoff"
    /\ \/ /\ retried[cursor] < CurrentStep.retries
          /\ retried' = [retried EXCEPT ![cursor] = @ + 1]
          /\ operations' = OperationsAfter(FALSE)
          /\ skillPast' = [Noted(FALSE) EXCEPT !.again[cursor] = @ + 1]
          /\ UNCHANGED <<cursor, skillAt>>
       \/ /\ retried[cursor] >= CurrentStep.retries /\ CurrentStep.onFailure # ""
          /\ cursor' = StepAt(CurrentStep.onFailure)
          /\ retried' = BudgetAfterBranch
          /\ operations' = OperationsAfter(FALSE)
          /\ skillPast' = [Noted(FALSE) EXCEPT !.cleared = ""]
          /\ UNCHANGED skillAt
       \/ /\ retried[cursor] >= CurrentStep.retries /\ CurrentStep.onFailure = ""
          /\ skillAt' = "failed"
          /\ operations' = OperationsAfter(FALSE)
          /\ skillPast' = Noted(FALSE)
          /\ UNCHANGED <<cursor, retried>>
    /\ UNCHANGED <<skill, extracted>>

EndOfRun ==
    /\ skillAt = "running"
    /\ skillAt' = IF cursor > Len(skill) THEN "completed"
                  ELSE IF Stopped THEN "limit" ELSE "handoff"
    /\ cursor <= Len(skill) => Stopped \/ CurrentStep.kind = "handoff"
    /\ UNCHANGED <<skill, cursor, operations, retried, extracted, skillPast>>

SkillNext == Start \/ (\E v \in {"null", "text"} : Succeeds(v)) \/ Fails \/ EndOfRun

SkillSpec == SkillInit /\ [][SkillNext]_skillVars

(* the engine's loop runs *)
SkillFairness == WF_skillVars(SkillNext)

-----------------------------------------------------------------------------
(* Every act was preceded by a successful verify of the same target, with  *)
(* nothing but failed attempts of that act since, and its target and verb  *)
(* never came from page content.                                           *)
ActsAreVerified == skillPast.flags = {}

(* Since it last succeeded a step ran again in place at most max_retries   *)
(* times, however often branches came back to it.                          *)
RetriesAreALifetime ==
    \A i \in 1..Len(skill) : skillPast.again[i] <= skill[i].retries

(* Branches, retries and templates together never get an act past its      *)
(* verification or a step past its budget.                                 *)
SkillsAreSafe == ActsAreVerified /\ RetriesAreALifetime

(* The strengthening that makes it inductive: repetitions are what was     *)
(* spent of the budget, and whoever stands at an act of a valid skill has  *)
(* just come from the verify of its target.                                *)
BudgetOK ==
    /\ skill \in Skills
    /\ cursor \in Nat \ {0}
    /\ retried \in [Indices -> Nat]
    /\ \A i \in Indices : retried[i] <= skill[i].retries
    /\ skillPast = [cleared |-> skillPast.cleared, again |-> retried, flags |-> {}]

ClearedOK ==
    /\ skillAt = "new" => cursor = 1
    /\ skillAt = "running" =>
         /\ BranchesKnown /\ ActPredecessors
         /\ cursor <= Len(skill) /\ skill[cursor].kind = "act" =>
              skillPast.cleared = skill[cursor].target

SkillInv == BudgetOK /\ ClearedOK

(* A run ends, whatever its branches and retries.                          *)
SkillsEnd == skillAt = "running" ~> skillAt # "running"
=============================================================================
