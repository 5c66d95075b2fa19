-------------------------- MODULE Admission_proofs --------------------------
(***************************************************************************)
(* What is let in, and what it may do: packs under an author's key,        *)
(* plugins before an act, the rules that decide and the skills that run.   *)
(* Proofs for every registry of keys, list of rules, context, skill,       *)
(* plugin and sequence of changes.                                         *)
(***************************************************************************)
EXTENDS Marketplace, PluginHost, PolicyEngine, SkillRuns, FiniteSetTheorems,
        WellFoundedInduction, TLAPS

-----------------------------------------------------------------------------
(* Packs.                                                                   *)

(* Payloads of different versions differ, for the older ones lack a field.  *)
LEMMA PayloadNamesVersion ==
    ASSUME NEW c, NEW d, NEW version \in Versions,
           SignaturePayload(c, version) = SignaturePayload(d, "v2")
    PROVE  version = "v2"
<1>1. DOMAIN SignaturePayload(d, "v2") = PackFields /\ "abi_version" \in PackFields
  BY DEF SignaturePayload, SignedFields, PackFields, PluginFields
<1>2. version # "v2" => "abi_version" \notin DOMAIN SignaturePayload(c, version)
  BY DEF SignaturePayload, SignedFields
<1> QED BY <1>1, <1>2

(* A payload of today determines the pack.                                  *)
LEMMA PayloadNamesContent ==
    ASSUME NEW c, NEW d, IsContent(c), IsContent(d),
           SignaturePayload(c, "v2") = SignaturePayload(d, "v2")
    PROVE  c = d
<1>1. [f \in PackFields |-> c[f]] = [f \in PackFields |-> d[f]]
  BY DEF SignaturePayload, SignedFields
<1> QED BY <1>1, Zenon DEF IsContent

(* Nothing was signed or accepted at the start.                             *)
LEMMA MarketStarts ==
    ASSUME PackInit
    PROVE  MarketInv
BY MarketAssumption DEF PackInit, MarketInv, ArrivedOK, SignaturesOK, AcceptedIsAuthored

(* A published pack is signed by its author.                                *)
LEMMA PublishKeeps ==
    ASSUME MarketInv, NEW author \in Authors, NEW content \in PackContents,
           NEW version \in Versions, Publish(author, content, version)
    PROVE  MarketInv'
<1> PICK signed : signed = [author |-> author, version |-> version,
                            payload |-> SignaturePayload(content, version)]
  OBVIOUS
<1> PICK pack : pack = [author |-> author, content |-> content]
  OBVIOUS
<1>1. /\ signatures' = signatures \cup {signed} /\ authored' = authored \cup {pack}
      /\ \E signature : arrived' = [content |-> content, signature |-> signature]
      /\ arrived = NoPack /\ UNCHANGED verdict
  BY DEF Publish
<1>2. IsContent(content)
  <2>1. content \in {[f \in PackFields |-> 0]} \/
        \E g \in {"version", "abi_version"}, v \in PackValues :
           content = [f \in PackFields |-> IF f = g THEN v ELSE 0]
    BY DEF PackContents
  <2> QED BY <2>1 DEF IsContent
<1>3. ArrivedOK'
  BY <1>1, <1>2 DEF ArrivedOK, NoPack
<1>4. SignaturesOK'
  <2>1. \A p \in authored' : IsContent(p.content)
    BY <1>1, <1>2 DEF MarketInv, SignaturesOK
  <2>2. \A s \in signatures' :
          \E p \in authored' : /\ p = [author |-> s.author, content |-> p.content]
                               /\ s.payload = SignaturePayload(p.content, s.version)
                               /\ s.version \in Versions
    BY <1>1 DEF MarketInv, SignaturesOK
  <2> QED BY <2>1, <2>2 DEF SignaturesOK
<1>5. AcceptedIsAuthored'
  <2>1. verdict' \notin Authors
    BY <1>1, MarketAssumption DEF MarketInv, ArrivedOK
  <2> QED BY <2>1 DEF AcceptedIsAuthored
<1> QED BY <1>3, <1>4, <1>5 DEF MarketInv

(* A pack may change on its way, before it is verified.                     *)
LEMMA AlterKeeps ==
    ASSUME MarketInv, arrived # NoPack, verdict = "none",
           UNCHANGED <<signatures, authored, verdict>>,
           \/ \E field \in PackFields, value \in PackValues :
                arrived' = [arrived EXCEPT !.content[field] = value]
           \/ \E signature : arrived' = [arrived EXCEPT !.signature = signature]
    PROVE  MarketInv'
<1> PICK c, sig : c = arrived.content /\ sig = arrived.signature
  OBVIOUS
<1>1. arrived = [content |-> c, signature |-> sig] /\ c = [f \in PackFields |-> c[f]]
  BY DEF MarketInv, ArrivedOK, IsContent
<1>2. \E d, s : arrived' = [content |-> d, signature |-> s] /\ IsContent(d)
  <2>1. CASE \E field \in PackFields, value \in PackValues :
                arrived' = [arrived EXCEPT !.content[field] = value]
    <3>1. PICK field \in PackFields, value \in PackValues :
                arrived' = [arrived EXCEPT !.content[field] = value]
      BY <2>1
    <3> PICK d : d = [c EXCEPT ![field] = value]
      OBVIOUS
    <3>2. arrived' = [content |-> d, signature |-> sig]
      BY <1>1, <3>1
    <3>3. IsContent(d)
      BY <1>1 DEF IsContent
    <3> QED BY <3>2, <3>3
  <2>2. CASE \E signature : arrived' = [arrived EXCEPT !.signature = signature]
    <3>1. PICK s : arrived' = [arrived EXCEPT !.signature = s]
      BY <2>2
    <3>2. arrived' = [content |-> c, signature |-> s]
      BY <1>1, <3>1
    <3> QED BY <1>1, <3>2 DEF IsContent
  <2> QED BY <2>1, <2>2
<1>3. PICK d, s : arrived' = [content |-> d, signature |-> s] /\ IsContent(d)
  BY <1>2
<1>4. arrived' # NoPack
  BY <1>3 DEF NoPack
<1>5. ArrivedOK'
  BY <1>3, <1>4 DEF ArrivedOK
<1>6. SignaturesOK'
  BY DEF MarketInv, SignaturesOK
<1>7. AcceptedIsAuthored'
  BY MarketAssumption DEF AcceptedIsAuthored
<1> QED BY <1>5, <1>6, <1>7 DEF MarketInv

(* Verification: what passes every check was published as it is.            *)
LEMMA VerifyKeeps ==
    ASSUME MarketInv, NEW key \in Authors \cup {"invalid"}, VerifyDomainPack(key)
    PROVE  MarketInv'
<1>1. /\ arrived # NoPack /\ UNCHANGED <<arrived, signatures, authored>>
      /\ IsContent(arrived.content)
  BY DEF VerifyDomainPack, MarketInv, ArrivedOK
<1>2. ASSUME verdict' \in Authors
      PROVE  [author |-> verdict', content |-> arrived.content] \in authored
  <2>1. PICK s \in signatures :
           /\ verdict' = key
           /\ s.author = key
           /\ s.payload = SignaturePayload(arrived.content, "v2")
    BY <1>2, MarketAssumption DEF VerifyDomainPack
  <2>2. PICK p \in authored : /\ p = [author |-> s.author, content |-> p.content]
                              /\ s.payload = SignaturePayload(p.content, s.version)
                              /\ s.version \in Versions
    BY DEF MarketInv, SignaturesOK
  <2>3. s.version = "v2"
    BY <2>1, <2>2, PayloadNamesVersion
  <2>4. IsContent(p.content)
    BY DEF MarketInv, SignaturesOK
  <2>5. p.content = arrived.content
    BY <1>1, <2>1, <2>2, <2>3, <2>4, PayloadNamesContent
  <2> QED BY <2>1, <2>2, <2>5
<1>3. ArrivedOK'
  BY <1>1 DEF MarketInv, ArrivedOK
<1>4. SignaturesOK'
  BY <1>1 DEF MarketInv, SignaturesOK
<1>5. AcceptedIsAuthored'
  BY <1>1, <1>2 DEF AcceptedIsAuthored
<1> QED BY <1>3, <1>4, <1>5 DEF MarketInv

(* Every step keeps the invariant.                                          *)
LEMMA MarketStep ==
    ASSUME MarketInv, [PackNext]_packVars
    PROVE  MarketInv'
<1>1. CASE UNCHANGED packVars
  BY <1>1 DEF packVars, MarketInv, ArrivedOK, SignaturesOK, AcceptedIsAuthored
<1>2. ASSUME NEW field \in PackFields, NEW value \in PackValues, AlterField(field, value)
      PROVE  MarketInv'
  BY <1>2, AlterKeeps DEF AlterField
<1>3. ASSUME NEW signature, AlterSignature(signature) PROVE MarketInv'
  BY <1>3, AlterKeeps DEF AlterSignature
<1>4. CASE Settle
  <2>1. verdict' \notin Authors
    BY <1>4, MarketAssumption DEF Settle
  <2> QED BY <1>4, <2>1 DEF Settle, MarketInv, ArrivedOK, SignaturesOK, AcceptedIsAuthored
<1> QED BY <1>1, <1>2, <1>3, <1>4, PublishKeeps, VerifyKeeps DEF PackNext

(* verify_domain_pack accepts a pack under an author's key only when that   *)
(* author published exactly this pack, for any number of authors, packs and *)
(* changes on the way.                                                      *)
THEOREM PacksAreAuthored == PackSpec => []AcceptedIsAuthored
<1>1. PackInit => MarketInv
  BY MarketStarts
<1>2. MarketInv /\ [PackNext]_packVars => MarketInv'
  BY MarketStep
<1>3. MarketInv => AcceptedIsAuthored
  BY DEF MarketInv
<1> QED BY <1>1, <1>2, <1>3, PTL DEF PackSpec

-----------------------------------------------------------------------------
(* Skills.                                                                  *)

(* Control slots are filled by the skill or its caller, never by the page.  *)
LEMMA ControlIsNotPage ==
    ASSUME NEW template
    PROVE  Resolve(template, "control") # "page"
BY DEF Resolve

(* The invariant's parts, as the steps below use them.                      *)
LEMMA SkillFacts ==
    ASSUME SkillInv
    PROVE  /\ skill \in Skills /\ Len(skill) \in Nat /\ Indices = 1..Len(skill)
           /\ \A i \in Indices : skill[i].retries \in Nat
           /\ cursor \in Nat \ {0}
           /\ retried \in [Indices -> Nat]
           /\ \A i \in Indices : retried[i] <= skill[i].retries
BY SkillsAssumption DEF SkillInv, BudgetOK, Indices

(* What a turn notes while the run is valid: no flag, and the target that   *)
(* a verify or an act leaves cleared.                                       *)
LEMMA NotedIs ==
    ASSUME SkillInv, Running, NEW ok \in BOOLEAN
    PROVE  /\ cursor \in Indices /\ CurrentStep = skill[cursor]
           /\ \E c :
                /\ Noted(ok) = [cleared |-> c,
                                again |-> IF ok THEN [retried EXCEPT ![cursor] = 0]
                                                ELSE retried,
                                flags |-> {}]
                /\ (ok /\ skill[cursor].kind = "verify") => c = skill[cursor].target
                /\ (~ok /\ skill[cursor].kind = "act") => c = skill[cursor].target
<1>1. cursor \in Indices /\ CurrentStep = skill[cursor] /\ retried \in [Indices -> Nat]
  BY SkillFacts DEF Running, CurrentStep
<1> PICK was : was = skillPast.cleared
  OBVIOUS
<1>2. skillPast = [cleared |-> was, again |-> retried, flags |-> {}]
  BY DEF SkillInv, BudgetOK
<1>9. skillPast.again = retried /\ skillPast.cleared = was /\ skillPast.flags = {}
  BY <1>2
<1>3. CurrentStep.kind = "act" => was = CurrentStep.target
  BY <1>1 DEF SkillInv, ClearedOK, Running
<1> PICK c : c = CASE CurrentStep.kind = "verify" -> IF ok THEN CurrentStep.target ELSE ""
                   [] CurrentStep.kind = "act" -> IF ok THEN "" ELSE was
                   [] OTHER -> ""
  OBVIOUS
<1>4. /\ (ok /\ skill[cursor].kind = "verify") => c = skill[cursor].target
      /\ (~ok /\ skill[cursor].kind = "act") => c = skill[cursor].target
  BY <1>1, <1>3
<1> PICK f : f = IF CurrentStep.kind = "act" /\ Resolves(CurrentStep)
                 THEN (IF was # CurrentStep.target THEN {"unverified"} ELSE {})
                      \cup (IF Resolve(CurrentStep.control, "control") = "page"
                            THEN {"steered"} ELSE {})
                 ELSE {}
  OBVIOUS
<1>5. f = {}
  BY <1>3, ControlIsNotPage
<1> PICK r : r = IF ok THEN 0 ELSE retried[cursor]
  OBVIOUS
<1>6. Noted(ok) = [cleared |-> c, again |-> [retried EXCEPT ![cursor] = r], flags |-> {} \cup f]
  <2>2. Noted(ok) = [skillPast EXCEPT !.again = [retried EXCEPT ![cursor] = r],
                                      !.cleared = c, !.flags = {} \cup f]
    BY <1>9 DEF Noted
  <2> QED BY <1>2, <2>2
<1>7. [retried EXCEPT ![cursor] = r] = IF ok THEN [retried EXCEPT ![cursor] = 0] ELSE retried
  BY <1>1
<1>8. Noted(ok) = [cleared |-> c, again |-> IF ok THEN [retried EXCEPT ![cursor] = 0]
                                                   ELSE retried, flags |-> {}]
  BY <1>5, <1>6, <1>7
<1> QED BY <1>1, <1>4, <1>8

(* A branch of a valid skill leads to a step of it.                         *)
LEMMA StepAtIsStep ==
    ASSUME NEW id \in StepIds
    PROVE  StepAt(id) \in Indices /\ skill[StepAt(id)].id = id
BY DEF StepIds, StepAt

(* What is read off the definition alone stays with it.                     *)
LEMMA SkillFrame ==
    ASSUME UNCHANGED skill
    PROVE  /\ Indices' = Indices
           /\ BranchesKnown' <=> BranchesKnown
           /\ ActPredecessors' <=> ActPredecessors
<1>1. Indices' = Indices /\ StepIds' = StepIds
  BY DEF Indices, StepIds
<1>2. \A id : StepAt(id)' = StepAt(id)
  BY <1>1 DEF StepAt
<1>3. \A i : AfterSuccess(i)' = AfterSuccess(i)
  BY <1>2 DEF AfterSuccess
<1>4. SuccessEdges' = SuccessEdges
  BY <1>1, <1>3 DEF SuccessEdges
<1>5. FailureEdges' = FailureEdges
  BY <1>1, <1>2 DEF FailureEdges
<1>6. BranchesKnown' <=> BranchesKnown
  BY <1>1 DEF BranchesKnown
<1>7. \A i, j : Authorizes(i, j)' <=> Authorizes(i, j)
  BY DEF Authorizes
<1>8. ActPredecessors' <=> ActPredecessors
  BY <1>1, <1>4, <1>5, <1>7 DEF ActPredecessors
<1> QED BY <1>1, <1>6, <1>8

(* Nothing was run at the start.                                            *)
LEMMA SkillStarts ==
    ASSUME SkillInit
    PROVE  SkillInv
<1>1. /\ skill \in Skills /\ skillAt = "new" /\ cursor = 1
      /\ retried = [i \in 1..Len(skill) |-> 0]
      /\ skillPast = [cleared |-> "", again |-> retried, flags |-> {}]
  BY DEF SkillInit, Zero
<1>2. Len(skill) \in Nat /\ \A i \in Indices : skill[i].retries \in Nat
  BY <1>1, SkillsAssumption DEF Indices
<1>3. BudgetOK
  <2> retried = [i \in Indices |-> 0]
    BY <1>1 DEF Indices
  <2>1. retried \in [Indices -> Nat]
    OBVIOUS
  <2>2. \A i \in Indices : retried[i] <= skill[i].retries
    BY <1>2
  <2>3. skillPast.cleared = ""
    BY <1>1
  <2>4. skillPast = [cleared |-> skillPast.cleared, again |-> retried, flags |-> {}]
    BY <1>1, <2>3
  <2>5. skill \in Skills /\ cursor = 1
    BY <1>1, Zenon
  <2> QED BY <2>1, <2>2, <2>4, <2>5 DEF BudgetOK
<1>4. ClearedOK
  BY <1>1 DEF ClearedOK
<1> QED BY <1>3, <1>4 DEF SkillInv

(* The definition is validated, or refused.                                 *)
LEMMA StartKeeps ==
    ASSUME SkillInv, Start
    PROVE  SkillInv'
<1>1. /\ skillAt = "new" /\ cursor = 1 /\ skillAt' \in {"running", "invalid"}
      /\ skillAt' = "running" => BranchesKnown /\ ActPredecessors
      /\ UNCHANGED <<skill, cursor, retried, skillPast>>
  BY DEF Start, SkillInv, ClearedOK
<1>2. BudgetOK'
  BY <1>1, SkillFrame DEF SkillInv, BudgetOK
<1>3. ActPredecessors /\ 1 <= Len(skill) => skill[1].kind # "act"
  <2>1. Len(skill) \in Nat
    BY SkillsAssumption DEF SkillInv, BudgetOK
  <2>2. 1 <= Len(skill) => 1 \in Indices
    BY <2>1 DEF Indices
  <2> QED BY <2>2 DEF ActPredecessors
<1>4. (BranchesKnown => BranchesKnown') /\ (ActPredecessors => ActPredecessors')
  BY <1>1, SkillFrame
<1>5. ClearedOK'
  BY <1>1, <1>3, <1>4 DEF ClearedOK
<1> QED BY <1>2, <1>5 DEF SkillInv

(* A step succeeds: its budget is renewed, and an act that comes next has   *)
(* been cleared by it.                                                      *)
LEMMA SucceedsKeeps ==
    ASSUME SkillInv, NEW value, Succeeds(value)
    PROVE  SkillInv'
<1>1. /\ Running /\ skillAt = "running" /\ CurrentStep.kind # "handoff"
      /\ retried' = [retried EXCEPT ![cursor] = 0]
      /\ cursor' = AfterSuccess(cursor) /\ skillPast' = Noted(TRUE)
      /\ UNCHANGED <<skill, skillAt>>
  BY DEF Succeeds, Running
<1>2. cursor \in Indices /\ CurrentStep = skill[cursor]
  BY <1>1, NotedIs
<1> PICK c : /\ skillPast' = [cleared |-> c, again |-> retried', flags |-> {}]
             /\ skill[cursor].kind = "verify" => c = skill[cursor].target
  <2>1. PICK c : /\ Noted(TRUE) = [cleared |-> c, again |-> [retried EXCEPT ![cursor] = 0],
                                  flags |-> {}]
                 /\ skill[cursor].kind = "verify" => c = skill[cursor].target
    BY <1>1, NotedIs, Zenon
  <2> QED BY <1>1, <2>1
<1>3. Len(skill) \in Nat /\ Indices = 1..Len(skill) /\ \A i \in Indices : skill[i].retries \in Nat
  BY SkillFacts
<1>4. retried' \in [Indices -> Nat] /\ \A i \in Indices : retried'[i] <= skill[i].retries
  <2>1. cursor \in Indices /\ retried' = [retried EXCEPT ![cursor] = 0]
    BY <1>1, <1>2
  <2> QED BY <2>1, SkillFacts
<1>5. BranchesKnown /\ ActPredecessors
  BY <1>1 DEF SkillInv, ClearedOK
<1>6. AfterSuccess(cursor) \in Nat \ {0}
  <2>1. skill[cursor].onSuccess # "" => skill[cursor].onSuccess \in StepIds
    BY <1>2, <1>5 DEF BranchesKnown
  <2>2. skill[cursor].onSuccess # "" => StepAt(skill[cursor].onSuccess) \in Indices
    BY <2>1, StepAtIsStep
  <2>3. cursor + 1 \in Nat \ {0} /\ Indices \subseteq Nat \ {0}
    BY <1>2, <1>3
  <2> QED BY <2>2, <2>3 DEF AfterSuccess
<1>7. BudgetOK'
  <2>1. skillPast' = [cleared |-> skillPast'.cleared, again |-> retried', flags |-> {}]
    OBVIOUS
  <2> QED BY <1>1, <1>4, <1>6, <2>1, SkillFacts, SkillFrame DEF BudgetOK
<1>8. ASSUME cursor' <= Len(skill), skill[cursor'].kind = "act"
      PROVE  skillPast'.cleared = skill[cursor'].target
  <2> PICK j : j = cursor'
    OBVIOUS
  <2>1. j \in Indices /\ j = AfterSuccess(cursor)
    BY <1>1, <1>3, <1>6, <1>8
  <2>2. <<cursor, j>> \in SuccessEdges
    BY <1>1, <1>2, <2>1 DEF SuccessEdges
  <2>3. Authorizes(cursor, j)
    <3>1. \A e \in SuccessEdges : e[2] = j => Authorizes(e[1], j)
      BY <1>5, <1>8, <2>1 DEF ActPredecessors
    <3> QED BY <2>2, <3>1
  <2> QED BY <1>2, <2>3 DEF Authorizes
<1>9. BranchesKnown' /\ ActPredecessors'
  BY <1>1, <1>5, SkillFrame
<1>10. ClearedOK'
  BY <1>1, <1>8, <1>9 DEF ClearedOK
<1> QED BY <1>7, <1>10 DEF SkillInv

(* A step fails: it runs again within its budget, branches to a step that   *)
(* is no act, or ends the run.                                              *)
LEMMA FailsKeeps ==
    ASSUME SkillInv, Fails
    PROVE  SkillInv'
<1>1. Running /\ skillAt = "running" /\ UNCHANGED skill
  BY DEF Fails, Running
<1>2. cursor \in Indices /\ CurrentStep = skill[cursor]
  BY <1>1, NotedIs
<1>0. PICK c : /\ Noted(FALSE) = [cleared |-> c, again |-> retried, flags |-> {}]
               /\ skill[cursor].kind = "act" => c = skill[cursor].target
  BY <1>1, NotedIs, Zenon
<1>10. PICK n : n = Noted(FALSE)
  OBVIOUS
<1>9. n = [cleared |-> c, again |-> retried, flags |-> {}]
  BY <1>0, <1>10
<1>3. Len(skill) \in Nat /\ Indices = 1..Len(skill) /\ \A i \in Indices : skill[i].retries \in Nat
  BY SkillFacts
<1>4. BranchesKnown /\ ActPredecessors /\ retried \in [Indices -> Nat] /\ cursor \in Nat \ {0}
  BY <1>1 DEF SkillInv, ClearedOK, BudgetOK
<1>5. BranchesKnown' /\ ActPredecessors'
  BY <1>1, <1>4, SkillFrame
<1>6. CASE /\ retried[cursor] < CurrentStep.retries
           /\ retried' = [retried EXCEPT ![cursor] = @ + 1]
           /\ skillPast' = [Noted(FALSE) EXCEPT !.again[cursor] = @ + 1]
           /\ UNCHANGED <<cursor, skillAt>>
  <2>1. skillPast' = [cleared |-> c, again |-> retried', flags |-> {}]
    <3>1. skillPast' = [n EXCEPT !.again[cursor] = @ + 1] /\
          retried' = [retried EXCEPT ![cursor] = @ + 1]
      BY <1>6, <1>10
    <3> QED BY <3>1, <1>9
  <2>2. retried' \in [Indices -> Nat] /\ \A i \in Indices : retried'[i] <= skill[i].retries
    <3>1. /\ cursor \in Indices /\ retried' = [retried EXCEPT ![cursor] = @ + 1]
          /\ retried[cursor] < skill[cursor].retries
      BY <1>2, <1>6
    <3> QED BY <3>1, SkillFacts
  <2>3. BudgetOK'
    <3>1. skillPast' = [cleared |-> skillPast'.cleared, again |-> retried', flags |-> {}]
      BY <2>1
    <3> QED BY <1>1, <1>4, <1>6, <2>2, <3>1, SkillFacts, SkillFrame DEF BudgetOK
  <2>4. ClearedOK'
    <3>1. skillPast'.cleared = c
      BY <2>1
    <3> QED BY <1>0, <1>1, <1>5, <1>6, <3>1 DEF ClearedOK
  <2> QED BY <2>3, <2>4 DEF SkillInv
<1>7. CASE /\ CurrentStep.onFailure # ""
           /\ cursor' = StepAt(CurrentStep.onFailure)
           /\ retried' = retried
           /\ skillPast' = [Noted(FALSE) EXCEPT !.cleared = ""]
           /\ UNCHANGED skillAt
  <2>1. skillPast' = [cleared |-> "", again |-> retried', flags |-> {}]
    <3>1. skillPast' = [n EXCEPT !.cleared = ""] /\ retried' = retried
      BY <1>7, <1>10
    <3> QED BY <3>1, <1>9
  <2> PICK j : j = cursor'
    OBVIOUS
  <2>2. j \in Indices
    <3>1. CurrentStep.onFailure \in StepIds
      BY <1>2, <1>4, <1>7 DEF BranchesKnown
    <3> QED BY <1>7, <3>1, StepAtIsStep
  <2>3. skill[j].kind # "act"
    <3>1. <<cursor, j>> \in FailureEdges
      BY <1>2, <1>7 DEF FailureEdges
    <3> QED BY <1>4, <2>2, <3>1 DEF ActPredecessors
  <2>4. BudgetOK'
    <3>1. skillPast' = [cleared |-> skillPast'.cleared, again |-> retried', flags |-> {}]
      BY <2>1
    <3>2. cursor' \in Nat \ {0}
      BY <1>3, <2>2
    <3> QED BY <1>1, <1>7, <3>1, <3>2, SkillFacts, SkillFrame DEF BudgetOK
  <2>5. ClearedOK'
    BY <1>1, <1>5, <1>7, <2>3 DEF ClearedOK
  <2> QED BY <2>4, <2>5 DEF SkillInv
<1>8. CASE /\ skillAt' = "failed" /\ skillPast' = Noted(FALSE)
           /\ UNCHANGED <<cursor, retried>>
  <2>1. BudgetOK'
    <3>1. skillPast' = [cleared |-> skillPast'.cleared, again |-> retried', flags |-> {}]
      <4>1. skillPast' = n /\ retried' = retried
        BY <1>8, <1>10
      <4> QED BY <4>1, <1>9
    <3> QED BY <1>1, <1>8, <3>1, SkillFacts, SkillFrame DEF BudgetOK
  <2>2. ClearedOK'
    BY <1>8 DEF ClearedOK
  <2> QED BY <2>1, <2>2 DEF SkillInv
<1> QED BY <1>6, <1>7, <1>8 DEF Fails, BudgetAfterBranch

LEMMA SkillStep ==
    ASSUME SkillInv, [SkillNext]_skillVars
    PROVE  SkillInv'
<1>1. CASE UNCHANGED <<skill, cursor, retried, skillPast>> /\
           (skillAt' = skillAt \/ skillAt' \notin {"new", "running"})
  <2>1. BudgetOK'
    BY <1>1, SkillFrame DEF SkillInv, BudgetOK
  <2>2. (BranchesKnown => BranchesKnown') /\ (ActPredecessors => ActPredecessors')
    BY <1>1, SkillFrame
  <2>3. ClearedOK'
    BY <1>1, <2>2 DEF SkillInv, ClearedOK
  <2> QED BY <2>1, <2>3 DEF SkillInv
<1>2. CASE EndOfRun
  BY <1>1, <1>2 DEF EndOfRun
<1>3. CASE UNCHANGED skillVars
  BY <1>1, <1>3 DEF skillVars
<1> QED BY <1>2, <1>3, StartKeeps, SucceedsKeeps, FailsKeeps DEF SkillNext

(* Branches, retries and templates together never get an act past its       *)
(* verification or a step past its budget, in any skill and however its     *)
(* steps end.                                                               *)
THEOREM SkillsKeepToVerified == SkillSpec => []SkillsAreSafe
<1>1. SkillInit => SkillInv
  BY SkillStarts
<1>2. SkillInv /\ [SkillNext]_skillVars => SkillInv'
  BY SkillStep
<1>3. SkillInv => SkillsAreSafe
  <2> SUFFICES ASSUME SkillInv PROVE SkillsAreSafe
    OBVIOUS
  <2>1. skillPast.flags = {} /\ skillPast.again = retried
    BY DEF SkillInv, BudgetOK
  <2> QED BY <2>1 DEF SkillInv, BudgetOK, SkillsAreSafe, ActsAreVerified, RetriesAreALifetime,
                      Indices
<1> QED BY <1>1, <1>2, <1>3, PTL DEF SkillSpec

-----------------------------------------------------------------------------
(* Rules and decisions.                                                     *)

(* A set of naturals that is not empty has a least member.                  *)
LEMMA LeastNatural ==
    ASSUME NEW T \in SUBSET Nat, T # {}
    PROVE  \E x \in T : \A y \in T : x <= y
<1>1. IsWellFoundedOn(OpToRel(<, Nat), Nat)
  BY NatLessThanWellFounded
<1>2. IsWellFoundedOn({ss \in Nat \X Nat : ss[1] < ss[2]}, Nat)
  BY <1>1 DEF OpToRel
<1>3. PICK x \in T : \A y \in T :
         ~ (<<y, x>> \in {ss \in Nat \X Nat : ss[1] < ss[2]})
  BY <1>2, WFMin, Zenon
<1>4. \A y \in T : ~ (y < x)
  BY <1>3
<1> QED BY <1>4

HasLargest(A) == \E a \in A : \A b \in A : a >= b

(* A finite one has a largest member too: a smallest set without one would  *)
(* get one back by losing an element.                                       *)
LEMMA LargestNatural ==
    ASSUME NEW S \in SUBSET Nat, IsFiniteSet(S), S # {}
    PROVE  HasLargest(S)
<1> DEFINE Bad == {A \in SUBSET S : A # {} /\ ~HasLargest(A)}
           Sizes == {Cardinality(A) : A \in Bad}
<1> SUFFICES ASSUME ~HasLargest(S) PROVE FALSE
  OBVIOUS
<1>1. \A A \in SUBSET S : IsFiniteSet(A) /\ Cardinality(A) \in Nat
  BY FS_Subset, FS_CardinalityType
<1>2. S \in Bad
  OBVIOUS
<1>3. Sizes \in SUBSET Nat /\ Sizes # {}
  BY <1>1, <1>2
<1>4. PICK n \in Sizes : \A m \in Sizes : n <= m
  <2> HIDE DEF Sizes
  <2> QED BY <1>3, LeastNatural
<1>5. PICK A \in Bad : n = Cardinality(A)
  BY <1>4
<1>6. PICK x : x \in A
  BY <1>5
<1>7. A \ {x} \in SUBSET S /\ Cardinality(A \ {x}) = Cardinality(A) - 1
  BY <1>1, <1>5, <1>6, FS_RemoveElement
<1>8. A \ {x} \notin Bad
  <2>1. Cardinality(A) \in Nat
    BY <1>1, <1>5
  <2>2. ~ (Cardinality(A) <= Cardinality(A) - 1)
    BY <2>1
  <2>3. A \ {x} \in Bad => Cardinality(A \ {x}) \in Sizes
    OBVIOUS
  <2> QED BY <1>4, <1>5, <1>7, <2>2, <2>3
<1>9. A \subseteq Nat
  BY <1>5
<1>10. CASE A \ {x} = {}
  <2>1. \A b \in A : x = b
    BY <1>6, <1>10
  <2>2. x \in Nat
    BY <1>6, <1>9
  <2>3. \A b \in A : x >= b
    BY <2>1, <2>2
  <2> QED BY <1>5, <1>6, <2>3 DEF HasLargest
<1>11. CASE A \ {x} # {}
  <2>1. PICK a \in A \ {x} : \A b \in A \ {x} : a >= b
    BY <1>7, <1>8, <1>11 DEF HasLargest
  <2>2. a >= x \/ x >= a
    BY <1>6, <1>9, <2>1
  <2>3. CASE a >= x
    <3>1. \A b \in A : a >= b
      BY <2>1, <2>3
    <3> QED BY <1>5, <2>1, <3>1 DEF HasLargest
  <2>4. CASE x >= a
    <3>1. \A b \in A : x >= b
      BY <1>6, <1>9, <2>1, <2>4
    <3> QED BY <1>5, <1>6, <3>1 DEF HasLargest
  <2> QED BY <2>2, <2>3, <2>4
<1> QED BY <1>10, <1>11

(* The rule that decides: the first that matches.                           *)
First(rules, c, i) ==
    /\ i \in DOMAIN rules /\ Matches(rules[i], c)
    /\ \A j \in DOMAIN rules : Matches(rules[j], c) => i <= j

RulesShape(rules) ==
    /\ Len(rules) \in Nat /\ DOMAIN rules = 1..Len(rules)
    /\ \A i \in DOMAIN rules : RuleShape(rules[i])

(* Either no rule matches, or the first one that does decides.              *)
LEMMA FirstDecides ==
    ASSUME NEW rules, RulesShape(rules), NEW c
    PROVE  \/ /\ \A i \in DOMAIN rules : ~Matches(rules[i], c)
              /\ Evaluate(rules, c) = AllowDecision
           \/ \E i : First(rules, c, i) /\ Evaluate(rules, c) = ToDecision(rules[i], c)
<1> DEFINE matching == {i \in DOMAIN rules : Matches(rules[i], c)}
           least == CHOOSE i \in matching : \A j \in matching : i <= j
<1>1. Evaluate(rules, c) = IF matching = {} THEN AllowDecision ELSE ToDecision(rules[least], c)
  BY DEF Evaluate
<1>2. CASE matching = {}
  BY <1>1, <1>2
<1>3. CASE matching # {}
  <2>1. matching \in SUBSET Nat
    BY DEF RulesShape
  <2>2. \E i \in matching : \A j \in matching : i <= j
    <3> HIDE DEF matching
    <3> QED BY <1>3, <2>1, LeastNatural
  <2>3. least \in matching /\ \A j \in matching : least <= j
    <3> HIDE DEF matching
    <3> QED BY <2>2
  <2>4. First(rules, c, least)
    <3> HIDE DEF least
    <3> QED BY <2>3 DEF First
  <2>5. Evaluate(rules, c) = ToDecision(rules[least], c)
    BY <1>1, <1>3
  <2> HIDE DEF least
  <2> QED BY <2>4, <2>5
<1> HIDE DEF matching
<1> QED BY <1>2, <1>3

(* No two rules are both the first.                                         *)
LEMMA FirstIsOne ==
    ASSUME NEW rules, RulesShape(rules), NEW c, NEW i, NEW j,
           First(rules, c, i), First(rules, c, j)
    PROVE  i = j
<1>1. i \in Nat /\ j \in Nat
  BY DEF First, RulesShape
<1>2. i <= j /\ j <= i
  BY DEF First
<1> QED BY <1>1, <1>2

(* A page showing fewer of the amounts.                                     *)
Showing(c, s, fewer) == [c EXCEPT !.surrounding = {[s EXCEPT !.amounts = fewer]}]

(* It is the same page otherwise.                                           *)
LEMMA ShowingIs ==
    ASSUME NEW c, ContextShape(c), NEW s \in c.surrounding, NEW fewer,
           NEW d, d = Showing(c, s, fewer)
    PROVE  /\ d.domain = c.domain /\ d.path = c.path
           /\ d.target_role = c.target_role /\ d.target_text = c.target_text
           /\ \E t : d.surrounding = {t} /\ t.text = s.text /\ t.amounts = fewer
           /\ c.surrounding = {s}
<1> PICK t : t = [s EXCEPT !.amounts = fewer]
  OBVIOUS
<1>1. t.text = s.text /\ t.amounts = fewer
  BY DEF ContextShape
<1>2. d = [c EXCEPT !.surrounding = {t}]
  BY DEF Showing
<1>3. /\ d.domain = c.domain /\ d.path = c.path
      /\ d.target_role = c.target_role /\ d.target_text = c.target_text
      /\ d.surrounding = {t}
  BY <1>2 DEF ContextShape
<1>4. c.surrounding = {s}
  BY DEF ContextShape
<1> QED BY <1>1, <1>3, <1>4

(* Amounts do not decide which rules match.                                 *)
LEMMA AmountsDoNotMatch ==
    ASSUME NEW c, ContextShape(c), NEW s \in c.surrounding, NEW fewer, NEW r
    PROVE  Matches(r, Showing(c, s, fewer)) <=> Matches(r, c)
<1> PICK d : d = Showing(c, s, fewer)
  OBVIOUS
<1>1. /\ d.domain = c.domain /\ d.path = c.path
      /\ d.target_role = c.target_role /\ d.target_text = c.target_text
      /\ c.surrounding = {s}
  BY ShowingIs
<1>2. PICK t : d.surrounding = {t} /\ t.text = s.text
  BY ShowingIs
<1>3. \A re : (\E u \in d.surrounding : u.text \in re) <=> (\E u \in c.surrounding : u.text \in re)
  BY <1>1, <1>2
<1>4. Matches(r, d) <=> Matches(r, c)
  BY <1>1, <1>3, Zenon DEF Matches
<1> QED BY <1>4

(* What a part of the amounts exceeds, all of them exceed.                  *)
LEMMA MoreExceeds ==
    ASSUME NEW c, ContextShape(c), NEW s \in c.surrounding, NEW fewer \in SUBSET s.amounts,
           NEW p, NEW threshold \in SUBSET Nat,
           Exceeds(ProjectedAmount(p, Showing(c, s, fewer)), threshold)
    PROVE  Exceeds(ProjectedAmount(p, c), threshold)
<1> PICK d : d = Showing(c, s, fewer)
  OBVIOUS
<1>1. c.surrounding = {s}
  BY ShowingIs
<1>2. PICK t : d.surrounding = {t} /\ t.amounts = fewer
  BY ShowingIs
<1>3. UNION {u.amounts : u \in c.surrounding} = s.amounts
  BY <1>1
<1>4. UNION {u.amounts : u \in d.surrounding} = fewer
  BY <1>2
<1>5. PICK a \in ProjectedAmount(p, d), m \in threshold : a > m
  BY DEF Exceeds
<1>6. p.amount_regex /\ a \in fewer
  BY <1>4, <1>5 DEF ProjectedAmount
<1>7. s.amounts \in SUBSET Nat /\ IsFiniteSet(s.amounts) /\ a \in s.amounts
  BY <1>6 DEF ContextShape
<1>8. PICK b \in s.amounts : \A x \in s.amounts : b >= x
  BY <1>7, LargestNatural DEF HasLargest
<1>9. b \in ProjectedAmount(p, c)
  BY <1>3, <1>6, <1>8 DEF ProjectedAmount
<1>10. b > m
  <2>1. b \in Nat /\ a \in Nat /\ m \in Nat /\ b >= a /\ a > m
    BY <1>5, <1>7, <1>8
  <2> QED BY <2>1
<1> QED BY <1>5, <1>9, <1>10 DEF Exceeds

(* So one rule is never looser on more of them.                             *)
LEMMA OutcomeTightens ==
    ASSUME NEW c, ContextShape(c), NEW s \in c.surrounding, NEW fewer \in SUBSET s.amounts,
           NEW r, RuleShape(r)
    PROVE  Strictness(ComputeOutcome(r, Showing(c, s, fewer)))
             <= Strictness(ComputeOutcome(r, c))
<1> PICK d : d = Showing(c, s, fewer)
  OBVIOUS
<1> DEFINE Blocks(x) == \E p \in r.outcome_projector : Exceeds(ProjectedAmount(p, x), p.block)
           Warns(x) == \E p \in r.outcome_projector : Exceeds(ProjectedAmount(p, x), p.warn)
<1>1. \A p \in r.outcome_projector : p.block \in SUBSET Nat /\ p.warn \in SUBSET Nat
  BY DEF RuleShape
<1>2. Blocks(d) => Blocks(c)
  BY <1>1, MoreExceeds
<1>3. Warns(d) => Warns(c)
  BY <1>1, MoreExceeds
<1>4. \A x : ComputeOutcome(r, x) = IF Blocks(x) THEN "block"
                                    ELSE IF Warns(x) /\ r.action = "allow"
                                    THEN RequireHumanApproval ELSE r.action
  BY DEF ComputeOutcome
<1>5. Strictness("block") = 2 /\ Strictness("allow") = 0 /\ Strictness(RequireHumanApproval) = 1
      /\ Strictness(r.action) \in {0, 1, 2}
  BY DEF Strictness, RequireHumanApproval
<1> HIDE DEF Blocks, Warns
<1>6. CASE Blocks(c)
  BY <1>4, <1>5, <1>6
<1>7. CASE ~Blocks(c) /\ Warns(c) /\ r.action = "allow"
  BY <1>2, <1>4, <1>5, <1>7
<1>8. CASE ~Blocks(c) /\ ~(Warns(c) /\ r.action = "allow")
  <2>1. ComputeOutcome(r, d) = r.action /\ ComputeOutcome(r, c) = r.action
    BY <1>2, <1>3, <1>4, <1>8
  <2> QED BY <1>5, <2>1
<1> QED BY <1>6, <1>7, <1>8

(* A rule's path ends where a segment of the context's path does.           *)
LEMMA EndsAtSegment ==
    ASSUME NEW path \in Seq(STRING), NEW prefix \in Seq(STRING), prefix # <<>>,
           MatchesPath(path, prefix), Len(prefix) < Len(path)
    PROVE  "/" \in {path[Len(prefix)], path[Len(prefix) + 1]}
<1>1. Len(prefix) \in Nat /\ Len(prefix) > 0 /\ Len(path) \in Nat
  OBVIOUS
<1>2. SubSeq(path, 1, Len(prefix)) = prefix
  BY DEF MatchesPath, StartsWith
<1>3. prefix[Len(prefix)] = path[Len(prefix)]
  <2>1. SubSeq(path, 1, Len(prefix))[Len(prefix)] = path[Len(prefix)]
    BY <1>1
  <2> QED BY <1>2, <2>1
<1>4. path # prefix
  BY <1>1
<1> QED BY <1>3, <1>4 DEF MatchesPath

IdentifiedBy(c, id) ==
    LET named == {i \in DOMAIN policyRules : policyRules[i].id = id}
    IN /\ Cardinality(named) = 1
       /\ \A i \in named : /\ Matches(policyRules[i], c)
                           /\ \A j \in 1..(i - 1) : ~Matches(policyRules[j], c)

(* What the engine answers is sound, whatever is in force and asked.        *)
LEMMA DecisionsAreSound ==
    ASSUME NEW c \in Contexts, policyRules \in RuleSets \cup {DefaultRules},
           ValidateRuleSet(policyRules),
           asked = {c}, decision = Evaluate(policyRules, c)
    PROVE  DecisionIsSound
<1>1. RulesShape(policyRules) /\ ContextShape(c)
  BY PolicyAssumption DEF RulesShape
<1>2. AmountsOnlyTighten
  <2> SUFFICES ASSUME NEW s \in c.surrounding, NEW fewer \in SUBSET s.amounts
               PROVE  Strictness(Evaluate(policyRules, Showing(c, s, fewer)).action)
                        <= Strictness(Evaluate(policyRules, c).action)
    BY Zenon DEF AmountsOnlyTighten, Showing
  <2> PICK d : d = Showing(c, s, fewer)
    OBVIOUS
  <2>1. \A i : First(policyRules, d, i) <=> First(policyRules, c, i)
    BY <1>1, AmountsDoNotMatch DEF First
  <2>2. CASE \A i : ~First(policyRules, c, i)
    <3>1. Evaluate(policyRules, d) = AllowDecision /\ Evaluate(policyRules, c) = AllowDecision
      BY <1>1, <2>1, <2>2, FirstDecides
    <3>2. Strictness("allow") = 0
      BY DEF Strictness
    <3> QED BY <3>1, <3>2 DEF AllowDecision
  <2>3. ASSUME NEW i, First(policyRules, c, i)
        PROVE  Strictness(Evaluate(policyRules, d).action)
                 <= Strictness(Evaluate(policyRules, c).action)
    <3>1. First(policyRules, d, i)
      BY <2>1, <2>3
    <3>2. \E k : First(policyRules, c, k) /\ Evaluate(policyRules, c) = ToDecision(policyRules[k], c)
      BY <1>1, <2>3, FirstDecides DEF First
    <3>3. Evaluate(policyRules, c) = ToDecision(policyRules[i], c)
      BY <1>1, <2>3, <3>2, FirstIsOne
    <3>4. \E k : First(policyRules, d, k) /\ Evaluate(policyRules, d) = ToDecision(policyRules[k], d)
      BY <1>1, <3>1, FirstDecides DEF First
    <3>5. Evaluate(policyRules, d) = ToDecision(policyRules[i], d)
      BY <1>1, <3>1, <3>4, FirstIsOne
    <3>6. RuleShape(policyRules[i])
      BY <1>1, <2>3 DEF RulesShape, First
    <3>7. Strictness(ComputeOutcome(policyRules[i], d)) <= Strictness(ComputeOutcome(policyRules[i], c))
      BY <1>1, <3>6, OutcomeTightens
    <3>8. \A x : ToDecision(policyRules[i], x).action = ComputeOutcome(policyRules[i], x)
      BY DEF ToDecision
    <3> QED BY <3>3, <3>5, <3>7, <3>8
  <2> QED BY <2>2, <2>3
<1>3. ScopeFollowsAction
  <2>1. AllowDecision.action # RequireHumanApproval /\ AllowDecision.scope = {}
    BY DEF AllowDecision, RequireHumanApproval
  <2>2. \A r : /\ ToDecision(r, c).action = ComputeOutcome(r, c)
               /\ ToDecision(r, c).scope = DecisionScope(r, ComputeOutcome(r, c))
    BY DEF ToDecision
  <2>3. \A r, action : (action = RequireHumanApproval) <=> (DecisionScope(r, action) # {})
    BY DEF DecisionScope
  <2> QED BY <1>1, <2>1, <2>2, <2>3, FirstDecides DEF ScopeFollowsAction
<1>4. MatchEndsAtSegment
  <2> SUFFICES ASSUME NEW i \in DOMAIN policyRules, NEW prefix \in policyRules[i].path_prefix,
                      Matches(policyRules[i], c), Len(prefix) < Len(c.path)
               PROVE  "/" \in {c.path[Len(prefix)], c.path[Len(prefix) + 1]}
    BY DEF MatchEndsAtSegment
  <2>1. prefix \in Seq(STRING) /\ c.path \in Seq(STRING)
    BY <1>1 DEF RulesShape, RuleShape, ContextShape
  <2>2. prefix # <<>>
    BY DEF ValidateRuleSet, ValidRule
  <2>3. MatchesPath(c.path, prefix)
    BY DEF Matches
  <2> QED BY <2>1, <2>2, <2>3, EndsAtSegment
<1>5. RuleIsIdentified
  <2> SUFFICES ASSUME NEW id \in Evaluate(policyRules, c).rule_id
               PROVE  IdentifiedBy(c, id)
    <3>1. RuleIsIdentified <=> \A x \in asked : \A y \in decision.rule_id : IdentifiedBy(x, y)
      BY Zenon DEF RuleIsIdentified, IdentifiedBy
    <3>2. \A x \in asked : x = c
      OBVIOUS
    <3> QED BY <3>1, <3>2
  <2>1. AllowDecision.rule_id = {} /\ \A r : ToDecision(r, c).rule_id = {r.id}
    BY DEF AllowDecision, ToDecision
  <2>2. PICK k : First(policyRules, c, k) /\ id = policyRules[k].id
    BY <1>1, <2>1, FirstDecides
  <2>3. {i \in DOMAIN policyRules : policyRules[i].id = id} = {k}
    BY <2>2 DEF First, ValidateRuleSet
  <2>4. Cardinality({k}) = 1
    BY FS_Singleton
  <2>5. \A j \in 1..(k - 1) : ~Matches(policyRules[j], c)
    <3>1. k \in Nat /\ k <= Len(policyRules) /\ Len(policyRules) \in Nat
          /\ DOMAIN policyRules = 1..Len(policyRules)
      BY <1>1, <2>2 DEF First, RulesShape
    <3>2. \A j \in 1..(k - 1) : j \in DOMAIN policyRules /\ ~(k <= j)
      BY <3>1
    <3> QED BY <2>2, <3>2 DEF First
  <2>6. Matches(policyRules[k], c)
    BY <2>2 DEF First
  <2> QED BY <2>3, <2>4, <2>5, <2>6 DEF IdentifiedBy
<1> QED BY <1>2, <1>3, <1>4, <1>5 DEF DecisionIsSound

(* The built-in rules are in force at the start.                            *)
LEMMA PolicyStarts ==
    ASSUME PolicyInit
    PROVE  PolicyInv
BY PolicyAssumption DEF PolicyInit, PolicyInv

(* A list that does not validate changes nothing; rules change only between *)
(* two decisions.                                                           *)
LEMMA PolicyStep ==
    ASSUME PolicyInv, [PolicyNext]_policyVars
    PROVE  PolicyInv'
<1>1. ASSUME NEW rules \in RuleSets, SetPolicyRules(rules)
      PROVE  PolicyInv'
  <2>1. policyRules' \in RuleSets \cup {DefaultRules} /\ ValidateRuleSet(policyRules')
    BY <1>1 DEF SetPolicyRules, PolicyInv
  <2>2. asked' = {} /\ decision' = AllowDecision
    BY <1>1 DEF SetPolicyRules, PolicyInv
  <2> QED BY <2>1, <2>2 DEF PolicyInv
<1>2. ASSUME NEW c \in Contexts, EvaluateContext(c)
      PROVE  PolicyInv'
  BY <1>2 DEF EvaluateContext, PolicyInv
<1>3. CASE Decided
  BY <1>3 DEF Decided, PolicyInv
<1>4. CASE UNCHANGED policyVars
  BY <1>4 DEF policyVars, PolicyInv
<1> QED BY <1>1, <1>2, <1>3, <1>4 DEF PolicyNext

(* For every list of rules and context: a decision is no looser than what   *)
(* the page shows, has a scope exactly when it asks for approval, covers    *)
(* whole segments of the path and names the one rule that made it.          *)
THEOREM DecisionsHold == PolicySpec => []DecisionIsSound
<1>1. PolicyInit => PolicyInv
  BY PolicyStarts
<1>2. PolicyInv /\ [PolicyNext]_policyVars => PolicyInv'
  BY PolicyStep
<1>3. PolicyInv => DecisionIsSound
  <2> SUFFICES ASSUME PolicyInv PROVE DecisionIsSound
    OBVIOUS
  <2>1. CASE asked = {} /\ decision = AllowDecision
    <3>1. AllowDecision.action # RequireHumanApproval /\ AllowDecision.scope = {}
      BY DEF AllowDecision, RequireHumanApproval
    <3> QED BY <2>1, <3>1 DEF DecisionIsSound, AmountsOnlyTighten, ScopeFollowsAction,
                              MatchEndsAtSegment, RuleIsIdentified
  <2>2. ASSUME NEW c \in Contexts, asked = {c}, decision = Evaluate(policyRules, c)
        PROVE  DecisionIsSound
    BY <2>2, DecisionsAreSound DEF PolicyInv
  <2> QED BY <2>1, <2>2 DEF PolicyInv
<1> QED BY <1>1, <1>2, <1>3, PTL DEF PolicySpec

-----------------------------------------------------------------------------
(* Plugins.                                                                 *)

(* Lengths of the configuration are numbers.                                *)
LEMMA ConfiguredIs ==
    ASSUME configured \in Configurations
    PROVE  /\ Len(configured) \in Nat /\ DOMAIN configured = 1..Len(configured)
           /\ \A i \in DOMAIN configured : IsManifest(configured[i].content)
BY HostAssumption

(* Nothing is wired at the start.                                           *)
LEMMA HostStarts ==
    ASSUME HostInit
    PROVE  HostInv
<1>1. configured \in Configurations
  BY DEF HostInit
<1>2. /\ Len(configured) \in Nat /\ DOMAIN configured = 1..Len(configured)
      /\ \A i \in DOMAIN configured : IsManifest(configured[i].content)
  BY <1>1, ConfiguredIs
<1>3. PackagesOK
  <2>1. packages = [i \in DOMAIN configured |->
                      [content |-> configured[i].content, key |-> configured[i].key,
                       signed |-> SignedPart(configured[i].content)]]
    BY DEF HostInit
  <2>2. \A i \in DOMAIN configured : packages[i].content = configured[i].content
    BY <2>1
  <2> QED BY <1>1, <1>2, <2>1, <2>2 DEF PackagesOK
<1>4. WiringOK
  <2>1. startup = "stored" /\ nextEntry = 1 /\ hooks = [p \in HookPoints |-> << >>]
    BY DEF HostInit
  <2>2. \A p \in HookPoints : WiredAt(p, 1)
    BY <2>1 DEF WiredAt
  <2> QED BY <1>2, <2>1, <2>2 DEF WiringOK
<1>5. MemoryOK
  <2>1. memory = [p \in HookPoints |-> [i \in DOMAIN configured |-> NewArea]] /\ hookRuns = 0
    BY DEF HostInit
  <2>2. NewArea \in Areas /\ NewArea.run = 0
    BY DEF NewArea, Areas, Outputs
  <2> QED BY <2>1, <2>2 DEF MemoryOK
<1>6. RunOK
  <2>1. run = [kind |-> "none", at |-> 0, current |-> "raw", votes |-> << >>]
    BY DEF HostInit, NoRun
  <2>2. << >> \in Seq(Vote)
    OBVIOUS
  <2>3. run \in [kind: {"none", "capture", "act", "delivered", "performed", "blocked"},
                 at: Nat, current: {"raw"} \cup Outputs, votes: Seq(Vote)]
    BY <2>1, <2>2
  <2>4. run.kind = "none"
    BY <2>1
  <2> QED BY <2>3, <2>4 DEF RunOK
<1>7. CalledOK
  BY DEF CalledOK, HostInit, NoRun
<1> QED BY <1>3, <1>4, <1>5, <1>6, <1>7 DEF HostInv

(* What the invariant says of packages alone stays with them.               *)
LEMMA HostFrame ==
    ASSUME UNCHANGED packages
    PROVE  /\ \A i : Points(i)' = Points(i)
           /\ \A i : Duplicate(i)' <=> Duplicate(i)
           /\ \A i : LoadPlugin(packages[i])' <=> LoadPlugin(packages[i])
<1>1. \A i : Points(i)' = Points(i)
  BY DEF Points
<1>2. \A i : Duplicate(i)' <=> Duplicate(i)
  BY DEF Duplicate
<1>3. \A i : LoadPlugin(packages[i])' <=> LoadPlugin(packages[i])
  BY DEF LoadPlugin, ValidManifest, ValidSbom, VerifySignature, Registered, SignedPart
<1> QED BY <1>1, <1>2, <1>3

(* Wiring is undisturbed where it and the packages are.                     *)
LEMMA WiringFrame ==
    ASSUME WiringOK, UNCHANGED <<configured, packages, nextEntry, hooks>>,
           startup' = startup \/ startup' \in {"failed", "wiring"}
               \/ (startup' = "running" /\ nextEntry = Len(configured) + 1)
    PROVE  WiringOK'
<1>1. \A p \in HookPoints : WiredAt(p, nextEntry)'
  <2> SUFFICES ASSUME NEW p \in HookPoints PROVE WiredAt(p, nextEntry)'
    OBVIOUS
  <2>1. WiredAt(p, nextEntry)
    BY DEF WiringOK
  <2> QED BY <2>1, HostFrame DEF WiredAt
<1>2. \A i \in 1..(nextEntry - 1) : /\ LoadPlugin(packages[i])'
                                    /\ ~Duplicate(i)' /\ Points(i)' # {}
  BY HostFrame DEF WiringOK
<1> QED BY <1>1, <1>2 DEF WiringOK

(* What votes say depends on them and on the run alone.                     *)
LEMMA VotesFrame ==
    ASSUME UNCHANGED hookRuns
    PROVE  /\ \A votes : AllAllowed(votes)' <=> AllAllowed(votes)
           /\ \A current, votes : StateIsWhole(current, votes)' <=> StateIsWhole(current, votes)
<1>1. \A vote, output : CountsAs(vote, output)' <=> CountsAs(vote, output)
  BY DEF CountsAs
<1>2. \A votes : AllAllowed(votes)' <=> AllAllowed(votes)
  BY <1>1 DEF AllAllowed
<1>3. \A current, votes : StateIsWhole(current, votes)' <=> StateIsWhole(current, votes)
  BY <1>1 DEF StateIsWhole
<1> QED BY <1>2, <1>3

(* Runs and memory are undisturbed where they, the hooks and a running      *)
(* server are.                                                              *)
LEMMA RunFrame ==
    ASSUME RunOK, MemoryOK, CalledOK, UNCHANGED <<configured, memory, run, hookRuns>>,
           UNCHANGED <<startup, hooks>> \/ startup # "running"
    PROVE  RunOK' /\ MemoryOK' /\ CalledOK'
<1>1. MemoryOK'
  BY DEF MemoryOK
<1>2. CASE UNCHANGED <<startup, hooks>>
  <2>1. RunOK'
    BY <1>2, VotesFrame DEF RunOK
  <2>2. CalledOK'
    BY <1>2 DEF CalledOK
  <2> QED BY <1>1, <2>1, <2>2
<1>3. CASE startup # "running"
  <2>1. run.kind = "none"
    BY <1>3 DEF RunOK
  <2> QED BY <1>1, <2>1 DEF RunOK, CalledOK
<1> QED BY <1>2, <1>3

(* Nothing but wiring and editing touches what is loaded.                   *)
LEMMA EditPackageKeeps ==
    ASSUME HostInv, NEW i \in DOMAIN configured, NEW field \in SignaturePayloadFields,
           NEW value, EditPackage(i, field, value)
    PROVE  HostInv'
<1>1. /\ startup = "stored" /\ packages' = [packages EXCEPT ![i].content[field] = value]
      /\ UNCHANGED <<configured, startup, nextEntry, hooks, memory, run, hookRuns>>
  BY DEF EditPackage
<1>2. PackagesOK'
  <2>0. /\ configured \in Configurations /\ DOMAIN packages = DOMAIN configured
        /\ \A k \in DOMAIN configured :
             /\ packages[k] = [content |-> packages[k].content, key |-> configured[k].key,
                               signed |-> SignedPart(configured[k].content)]
             /\ IsManifest(packages[k].content)
    BY DEF HostInv, PackagesOK
  <2> PICK c : c = [packages[i].content EXCEPT ![field] = value]
    OBVIOUS
  <2>1. IsManifest(c)
    BY <2>0 DEF IsManifest
  <2>2. packages' = [packages EXCEPT ![i] = [packages[i] EXCEPT !.content = c]]
    BY <1>1
  <2>3. [packages[i] EXCEPT !.content = c] =
           [content |-> c, key |-> configured[i].key,
            signed |-> SignedPart(configured[i].content)]
    <3> PICK q : q = packages[i].content
      OBVIOUS
    <3> PICK b : b = configured[i].key
      OBVIOUS
    <3> PICK s : s = SignedPart(configured[i].content)
      OBVIOUS
    <3>1. packages[i] = [content |-> q, key |-> b, signed |-> s]
      BY <2>0
    <3> QED BY <3>1
  <2>4. packages'[i] = [content |-> c, key |-> configured[i].key,
                        signed |-> SignedPart(configured[i].content)]
    BY <2>0, <2>2, <2>3
  <2>5. \A k \in DOMAIN configured : k # i => packages'[k] = packages[k]
    BY <2>0, <2>2
  <2>6. DOMAIN packages' = DOMAIN configured
    BY <2>0, <2>2
  <2>7. packages'[i].content = c
    BY <2>4
  <2>8. \A k \in DOMAIN configured :
           /\ packages'[k] = [content |-> packages'[k].content, key |-> configured[k].key,
                              signed |-> SignedPart(configured[k].content)]
           /\ IsManifest(packages'[k].content)
    BY <2>0, <2>1, <2>4, <2>5, <2>7
  <2> QED BY <1>1, <2>0, <2>6, <2>8 DEF PackagesOK
<1>3. WiringOK'
  <2>1. /\ nextEntry = 1 /\ Len(configured) \in Nat /\ DOMAIN hooks = HookPoints
        /\ 1..(nextEntry - 1) = {}
    BY <1>1, ConfiguredIs DEF HostInv, PackagesOK, WiringOK
  <2>2. \A p \in HookPoints : hooks[p] \in Seq(Nat) /\ DOMAIN hooks[p] = {}
    BY <2>1 DEF HostInv, WiringOK, WiredAt
  <2>3. \A p \in HookPoints : WiredAt(p, nextEntry)'
    BY <1>1, <2>1, <2>2 DEF WiredAt
  <2> QED BY <1>1, <2>1, <2>3 DEF WiringOK
<1>4. RunOK' /\ MemoryOK' /\ CalledOK'
  BY <1>1, RunFrame DEF HostInv
<1> QED BY <1>2, <1>3, <1>4 DEF HostInv

(* One entry more is wired, behind those that are.                          *)
LEMMA WiredOneMore ==
    ASSUME NEW p \in HookPoints, NEW n \in Nat \ {0}, WiredAt(p, n), UNCHANGED packages,
           hooks'[p] = IF p \in Points(n) THEN Append(hooks[p], n) ELSE hooks[p]
    PROVE  WiredAt(p, n + 1)'
<1> PICK h : h = hooks[p]
  OBVIOUS
<1> PICK g : g = hooks'[p]
  OBVIOUS
<1>1. /\ h \in Seq(Nat)
      /\ \A k \in DOMAIN h : h[k] \in 1..(n - 1) /\ p \in Points(h[k])
      /\ \A i \in 1..(n - 1) : p \in Points(i) => \E k \in DOMAIN h : h[k] = i
      /\ \A k, l \in DOMAIN h : k < l => h[k] < h[l]
  BY DEF WiredAt
<1>2. (n + 1) - 1 = n /\ 1..(n - 1) \subseteq 1..n /\ \A i \in 1..n : i = n \/ i \in 1..(n - 1)
  OBVIOUS
<1>5. ASSUME /\ g \in Seq(Nat)
             /\ \A k \in DOMAIN g : g[k] \in 1..n /\ p \in Points(g[k])
             /\ \A i \in 1..n : p \in Points(i) => \E k \in DOMAIN g : g[k] = i
             /\ \A k, l \in DOMAIN g : k < l => g[k] < g[l]
      PROVE  WiredAt(p, n + 1)'
  <2>1. (n + 1) - 1 = n
    OBVIOUS
  <2>2. \A i : Points(i)' = Points(i)
    BY HostFrame
  <2>3. /\ \A k \in DOMAIN g : g[k] \in 1..((n + 1) - 1) /\ p \in Points(g[k])'
        /\ \A i \in 1..((n + 1) - 1) : p \in Points(i)' => \E k \in DOMAIN g : g[k] = i
    BY <1>5, <2>1, <2>2
  <2> QED BY <1>5, <2>3, Zenon DEF WiredAt
<1>3. CASE p \notin Points(n)
  <2>1. g = h
    BY <1>3
  <2>2. /\ h \in Seq(Nat)
        /\ \A k \in DOMAIN h : h[k] \in 1..n /\ p \in Points(h[k])
        /\ \A i \in 1..n : p \in Points(i) => \E k \in DOMAIN h : h[k] = i
    BY <1>1, <1>2, <1>3
  <2> QED BY <1>1, <1>5, <2>1, <2>2
<1>4. CASE p \in Points(n)
  <2>1. g = Append(h, n)
    BY <1>4
  <2>2. /\ g \in Seq(Nat) /\ Len(h) \in Nat /\ DOMAIN h = 1..Len(h)
        /\ DOMAIN g = 1..(Len(h) + 1) /\ g[Len(h) + 1] = n
        /\ \A k \in DOMAIN h : g[k] = h[k]
    BY <1>1, <2>1
  <2>3. \A k \in DOMAIN g : k \in DOMAIN h \/ k = Len(h) + 1
    BY <2>2
  <2>4. \A k \in DOMAIN g : g[k] \in 1..n /\ p \in Points(g[k])
    <3>1. n \in 1..n
      OBVIOUS
    <3> QED BY <1>1, <1>2, <1>4, <2>2, <2>3, <3>1
  <2>5. \A i \in 1..n : p \in Points(i) => \E k \in DOMAIN g : g[k] = i
    <3>1. DOMAIN h \subseteq DOMAIN g /\ Len(h) + 1 \in DOMAIN g
      BY <2>2
    <3> QED BY <1>1, <1>2, <2>2, <3>1
  <2>6. \A k, l \in DOMAIN g : k < l => g[k] < g[l]
    <3> SUFFICES ASSUME NEW k \in DOMAIN g, NEW l \in DOMAIN g, k < l PROVE g[k] < g[l]
      OBVIOUS
    <3>1. k \in DOMAIN h
      BY <2>2
    <3>2. CASE l \in DOMAIN h
      BY <1>1, <2>2, <3>1, <3>2
    <3>3. CASE l = Len(h) + 1
      <4>1. g[k] \in 1..(n - 1) /\ g[l] = n
        BY <1>1, <2>2, <3>1, <3>3
      <4> QED BY <4>1
    <3> QED BY <2>3, <3>2, <3>3
  <2> QED BY <1>5, <2>2, <2>4, <2>5, <2>6
<1> QED BY <1>3, <1>4

(* Wiring the next entry, or failing to, keeps the invariant.               *)
LEMMA WirePluginKeeps ==
    ASSUME HostInv, WirePlugin
    PROVE  HostInv'
<1>1. /\ startup = "wiring" /\ nextEntry <= Len(configured) /\ WireNext(nextEntry)
      /\ UNCHANGED <<configured, packages, memory, run, hookRuns>>
  BY DEF WirePlugin
<1>2. PackagesOK'
  BY <1>1 DEF HostInv, PackagesOK
<1>3. RunOK' /\ MemoryOK' /\ CalledOK'
  BY <1>1, RunFrame DEF HostInv
<1>4. WiringOK'
  <2>1. CASE startup' = "failed" /\ UNCHANGED <<hooks, nextEntry>>
    BY <1>1, <2>1, WiringFrame DEF HostInv
  <2>2. CASE /\ LoadPlugin(packages[nextEntry]) /\ ~Duplicate(nextEntry)
             /\ Points(nextEntry) # {}
             /\ hooks' = [p \in HookPoints |-> IF p \in Points(nextEntry)
                                               THEN Append(hooks[p], nextEntry) ELSE hooks[p]]
             /\ nextEntry' = nextEntry + 1
             /\ UNCHANGED startup
    <3> PICK n : n = nextEntry
      OBVIOUS
    <3>1. Len(configured) \in Nat /\ n \in Nat \ {0} /\ n <= Len(configured)
      BY <1>1, ConfiguredIs DEF HostInv, PackagesOK, WiringOK
    <3>2. \A p \in HookPoints : WiredAt(p, n + 1)'
      <4> SUFFICES ASSUME NEW p \in HookPoints PROVE WiredAt(p, n + 1)'
        OBVIOUS
      <4>1. WiredAt(p, n)
        BY DEF HostInv, WiringOK
      <4>2. hooks'[p] = IF p \in Points(n) THEN Append(hooks[p], n) ELSE hooks[p]
        BY <2>2
      <4> QED BY <1>1, <3>1, <4>1, <4>2, WiredOneMore
    <3>3. \A i \in 1..n : /\ LoadPlugin(packages[i])' /\ ~Duplicate(i)' /\ Points(i)' # {}
      <4>1. \A i \in 1..(n - 1) : LoadPlugin(packages[i]) /\ ~Duplicate(i) /\ Points(i) # {}
        BY DEF HostInv, WiringOK
      <4>2. \A i \in 1..n : i = n \/ i \in 1..(n - 1)
        BY <3>1
      <4>3. LoadPlugin(packages[n]) /\ ~Duplicate(n) /\ Points(n) # {}
        BY <2>2
      <4> QED BY <1>1, <4>1, <4>2, <4>3, HostFrame
    <3>4. nextEntry' = n + 1 /\ (n + 1) - 1 = n /\ nextEntry' \in 1..(Len(configured) + 1)
      BY <2>2, <3>1
    <3>5. DOMAIN hooks' = HookPoints /\ startup' = "wiring"
      BY <1>1, <2>2
    <3>6. \A p \in HookPoints : WiredAt(p, nextEntry)'
      BY <3>2, <3>4 DEF WiredAt
    <3> QED BY <1>1, <3>3, <3>4, <3>5, <3>6 DEF WiringOK
  <2> QED BY <1>1, <2>1, <2>2 DEF WireNext
<1> QED BY <1>2, <1>3, <1>4 DEF HostInv

(* The server starts, and is up when every entry is wired.                  *)
LEMMA StartsKeep ==
    ASSUME HostInv, StartServer \/ Started
    PROVE  HostInv'
<1>1. /\ UNCHANGED <<configured, packages, nextEntry, hooks, memory, run, hookRuns>>
      /\ startup # "running"
      /\ startup' = "wiring" \/ (startup' = "running" /\ nextEntry > Len(configured))
  BY DEF StartServer, Started
<1>2. PackagesOK'
  BY <1>1 DEF HostInv, PackagesOK
<1>3. RunOK' /\ MemoryOK' /\ CalledOK'
  BY <1>1, RunFrame DEF HostInv
<1>4. nextEntry > Len(configured) => nextEntry = Len(configured) + 1
  BY ConfiguredIs DEF HostInv, PackagesOK, WiringOK
<1>5. WiringOK'
  BY <1>1, <1>4, WiringFrame DEF HostInv
<1> QED BY <1>2, <1>3, <1>5 DEF HostInv

(* A hook run begins with the captured state and no votes.                  *)
LEMMA BeginRunKeeps ==
    ASSUME HostInv, NEW kind \in {"capture", "act"}, BeginRun(kind)
    PROVE  HostInv'
<1>1. /\ startup = "running"
      /\ run' = [kind |-> kind, at |-> 1, current |-> "raw", votes |-> << >>]
      /\ hookRuns' = hookRuns + 1
      /\ UNCHANGED <<configured, packages, startup, nextEntry, hooks, memory>>
  BY DEF BeginRun
<1>2. PackagesOK' /\ WiringOK'
  BY <1>1, WiringFrame DEF HostInv, PackagesOK
<1>10. MemoryOK' /\ CalledOK'
  <2>1. /\ hookRuns \in Nat /\ memory \in [HookPoints -> [DOMAIN configured -> Areas]]
        /\ \A p \in HookPoints : \A i \in DOMAIN configured : memory[p][i].run <= hookRuns
    BY DEF HostInv, MemoryOK
  <2>2. \A p \in HookPoints : \A i \in DOMAIN configured : memory[p][i].run \in Nat
    BY <2>1 DEF Areas
  <2>3. \A p \in HookPoints : \A i \in DOMAIN configured :
           memory[p][i].run <= hookRuns + 1 /\ memory[p][i].run # hookRuns + 1
    BY <2>1, <2>2
  <2> QED BY <1>1, <2>1, <2>3 DEF MemoryOK, CalledOK
<1>3. run'.kind = kind /\ run'.at = 1 /\ run'.current = "raw" /\ run'.votes = << >>
  BY <1>1
<1>4. << >> \in Seq(Vote) /\ Len(<< >>) = 0
  OBVIOUS
<1>5. run' \in [kind: {"none", "capture", "act", "delivered", "performed", "blocked"},
                at: Nat, current: {"raw"} \cup Outputs, votes: Seq(Vote)]
  BY <1>1, <1>4
<1>6. HookPoint(kind) \in HookPoints
  BY DEF HookPoint, HookPoints
<1>7. Len(hooks[HookPoint(kind)]) \in Nat
  <2>1. WiredAt(HookPoint(kind), nextEntry)
    BY <1>6 DEF HostInv, WiringOK
  <2>2. hooks[HookPoint(kind)] \in Seq(Nat)
    BY <2>1 DEF WiredAt
  <2> QED BY <2>2
<1>8. AllAllowed(<< >>)' /\ StateIsWhole("raw", << >>)'
  BY DEF AllAllowed, StateIsWhole
<1>9. RunOK'
  <2>1. 0 <= Len(hooks[HookPoint(kind)])
    BY <1>7
  <2> QED BY <1>1, <1>3, <1>4, <1>5, <1>8, <2>1 DEF RunOK
<1> QED BY <1>2, <1>9, <1>10 DEF HostInv

(* A vote more keeps what the votes say, if it says it too.                 *)
LEMMA VoteMore ==
    ASSUME NEW votes \in Seq(Vote), NEW v \in Vote
    PROVE  /\ Append(votes, v) \in Seq(Vote)
           /\ Len(Append(votes, v)) = Len(votes) + 1
           /\ AllAllowed(votes) /\ CountsAs(v, "allow") => AllAllowed(Append(votes, v))
           /\ \A current :
                /\ CallResult(v.ending, v.area.output) = "error" /\ StateIsWhole(current, votes) =>
                     StateIsWhole(current, Append(votes, v))
                /\ CountsAs(v, current) =>
                     StateIsWhole(current, Append(votes, v))
<1> PICK g : g = Append(votes, v)
  OBVIOUS
<1>1. /\ g \in Seq(Vote) /\ Len(votes) \in Nat /\ DOMAIN votes = 1..Len(votes)
      /\ Len(g) = Len(votes) + 1 /\ DOMAIN g = 1..(Len(votes) + 1) /\ g[Len(votes) + 1] = v
      /\ \A k \in DOMAIN votes : g[k] = votes[k]
  OBVIOUS
<1>2. \A k \in DOMAIN g : k \in DOMAIN votes \/ k = Len(votes) + 1
  BY <1>1
<1>3. DOMAIN votes \subseteq DOMAIN g /\ Len(g) \in DOMAIN g
  BY <1>1
<1>4. AllAllowed(votes) /\ CountsAs(v, "allow") => AllAllowed(g)
  BY <1>1, <1>2 DEF AllAllowed
<1>5. ASSUME NEW current, CallResult(v.ending, v.area.output) = "error",
             StateIsWhole(current, votes)
      PROVE  StateIsWhole(current, g)
  <2> SUFFICES ASSUME current # "raw"
               PROVE  \E k \in DOMAIN g :
                         /\ CountsAs(g[k], current)
                         /\ \A l \in (k + 1)..Len(g) :
                               CallResult(g[l].ending, g[l].area.output) = "error"
    BY DEF StateIsWhole
  <2>1. PICK k \in DOMAIN votes :
           /\ CountsAs(votes[k], current)
           /\ \A l \in (k + 1)..Len(votes) :
                 CallResult(votes[l].ending, votes[l].area.output) = "error"
    BY <1>5 DEF StateIsWhole
  <2>2. ASSUME NEW l \in (k + 1)..Len(g)
        PROVE  CallResult(g[l].ending, g[l].area.output) = "error"
    <3>1. l = Len(votes) + 1 \/ (l \in DOMAIN votes /\ l \in (k + 1)..Len(votes))
      BY <1>1, <2>1, <2>2
    <3>2. CASE l = Len(votes) + 1
      <4>1. g[l] = v
        BY <1>1, <3>2
      <4> QED BY <1>5, <4>1
    <3>3. CASE l \in DOMAIN votes /\ l \in (k + 1)..Len(votes)
      <4>1. g[l] = votes[l]
        BY <1>1, <3>3
      <4> QED BY <2>1, <3>3, <4>1
    <3> QED BY <3>1, <3>2, <3>3
  <2>3. k \in DOMAIN g /\ CountsAs(g[k], current)
    BY <1>1, <1>3, <2>1
  <2> QED BY <2>2, <2>3
<1>6. ASSUME NEW current, CountsAs(v, current)
      PROVE  StateIsWhole(current, g)
  <2>1. CountsAs(g[Len(g)], current)
    BY <1>1, <1>6
  <2>2. (Len(g) + 1)..Len(g) = {}
    BY <1>1
  <2> QED BY <1>3, <2>1, <2>2 DEF StateIsWhole
<1> QED BY <1>1, <1>4, <1>5, <1>6

(* The fields of a run after a call.                                        *)
LEMMA RunWith ==
    ASSUME NEW r \in [kind: {"none", "capture", "act", "delivered", "performed", "blocked"},
                      at: Nat, current: {"raw"} \cup Outputs, votes: Seq(Vote)],
           NEW k \in {"none", "capture", "act", "delivered", "performed", "blocked"},
           NEW n \in Nat, NEW c \in {"raw"} \cup Outputs, NEW vs \in Seq(Vote), NEW q,
           q = [r EXCEPT !.votes = vs, !.at = n, !.current = c, !.kind = k]
    PROVE  /\ q \in [kind: {"none", "capture", "act", "delivered", "performed", "blocked"},
                     at: Nat, current: {"raw"} \cup Outputs, votes: Seq(Vote)]
           /\ q.kind = k /\ q.at = n /\ q.current = c /\ q.votes = vs
OBVIOUS

(* A plugin is called: whatever it writes and however it ends, its vote is  *)
(* counted, and a call that fails changes nothing but that.                 *)
LEMMA CallHookKeeps ==
    ASSUME HostInv, NEW wrote, NEW ending \in Endings, CallHook(wrote, ending)
    PROVE  HostInv'
<1> PICK point : point = HookPoint(run.kind)
  OBVIOUS
<1> PICK i : i = hooks[point][run.at]
  OBVIOUS
<1> PICK area : area = IF wrote = "nothing" THEN memory[point][i]
                       ELSE [output |-> wrote, run |-> hookRuns, returned |-> ending = "returns"]
  OBVIOUS
<1> PICK output : output = area.output
  OBVIOUS
<1> PICK result : result = CallResult(ending, output)
  OBVIOUS
<1> PICK kind : kind = run.kind
  OBVIOUS
<1> PICK votes : votes = run.votes
  OBVIOUS
<1> PICK vote : vote = [ending |-> ending, area |-> area]
  OBVIOUS
<1> PICK current : current = IF kind = "capture" THEN NextState(run.current, result, output)
                             ELSE run.current
  OBVIOUS
<1> PICK after : after = IF kind = "act" /\ ~Allows(result) THEN "blocked" ELSE kind
  OBVIOUS
<1>1. /\ kind \in {"capture", "act"} /\ run.at <= Len(hooks[point])
      /\ wrote \in {"nothing"} \cup (IF kind = "capture" THEN StateOutputs ELSE PolicyOutputs)
      /\ memory' = [memory EXCEPT ![point][i] = area]
      /\ UNCHANGED <<configured, packages, startup, nextEntry, hooks, hookRuns>>
  BY DEF CallHook
<1>2. run' = [run EXCEPT !.votes = Append(@, vote), !.at = @ + 1, !.current = current,
                         !.kind = after]
  BY DEF CallHook
<1>3. PackagesOK' /\ WiringOK'
  BY <1>1, WiringFrame DEF HostInv, PackagesOK
<1>4. /\ run \in [kind: {"none", "capture", "act", "delivered", "performed", "blocked"},
                  at: Nat, current: {"raw"} \cup Outputs, votes: Seq(Vote)]
      /\ startup = "running" /\ run.at = Len(votes) + 1
      /\ kind = "act" => AllAllowed(votes)
      /\ kind = "capture" => StateIsWhole(run.current, votes)
  BY <1>1 DEF HostInv, RunOK
<1>5. point \in HookPoints /\ hooks[point] \in Seq(Nat)
  <2>1. point \in HookPoints
    BY DEF HookPoint, HookPoints
  <2> QED BY <2>1 DEF HostInv, WiringOK, WiredAt
<1> PICK wired, place : wired = hooks[point] /\ place = run.at
  OBVIOUS
<1>0. run.at \in Nat /\ run.at \in DOMAIN hooks[point] /\ wired \in Seq(Nat)
      /\ wired[place] \in Nat /\ (\A k \in 1..(place - 1) : k \in DOMAIN wired /\ k < place)
  <2>1. wired \in Seq(Nat) /\ votes \in Seq(Vote) /\ place = Len(votes) + 1
    BY <1>4, <1>5
  <2>2. place <= Len(wired)
    BY <1>1
  <2> PICK last, v : last = Len(wired) /\ v = Len(votes)
    OBVIOUS
  <2>3. last \in Nat /\ DOMAIN wired = 1..last /\ v \in Nat
    BY ONLY <2>1, last = Len(wired), v = Len(votes)
  <2>4. place \in Nat /\ place \in 1..last /\ (\A k \in 1..(place - 1) : k \in 1..last /\ k < place)
    BY ONLY <2>1, <2>2, <2>3, last = Len(wired), v = Len(votes)
  <2>5. wired[place] \in Nat
    BY ONLY <2>1, <2>3, <2>4
  <2> QED BY <2>1, <2>3, <2>4, <2>5
<1>6. i \in DOMAIN configured
  <2>2. run.at \in DOMAIN hooks[point]
    BY <1>0
  <2>3. i \in 1..(nextEntry - 1)
    BY <1>5, <2>2 DEF HostInv, WiringOK, WiredAt
  <2>4. nextEntry \in 1..(Len(configured) + 1) /\ configured \in Configurations
    BY DEF HostInv, PackagesOK, WiringOK
  <2>5. Len(configured) \in Nat /\ DOMAIN configured = 1..Len(configured)
    BY <2>4, ConfiguredIs
  <2> QED BY ONLY <2>3, <2>4, <2>5
<1>7. /\ area \in Areas /\ area.run <= hookRuns /\ output \in Outputs
      /\ wrote # "nothing" => area.run = hookRuns /\ area.returned = (ending = "returns")
      /\ wrote = "nothing" => area = memory[point][i]
  <2>1. /\ hookRuns \in Nat
        /\ memory[point][i] \in Areas /\ memory[point][i].run <= hookRuns
    BY <1>5, <1>6 DEF HostInv, MemoryOK
  <2>2. CASE wrote = "nothing"
    BY <2>1, <2>2 DEF Areas
  <2>3. CASE wrote # "nothing"
    <3>1. wrote \in Outputs
      BY <1>1, <2>3 DEF Outputs
    <3>2. area = [output |-> wrote, run |-> hookRuns, returned |-> ending = "returns"]
      BY <2>3
    <3>3. PICK b \in BOOLEAN : b = (ending = "returns")
      OBVIOUS
    <3>4. area = [output |-> wrote, run |-> hookRuns, returned |-> b]
      BY <3>2, <3>3
    <3> QED BY <2>1, <2>3, <3>1, <3>3, <3>4 DEF Areas
  <2> QED BY <2>2, <2>3
<1>20. memory \in [HookPoints -> [DOMAIN configured -> Areas]]
  BY DEF HostInv, MemoryOK
<1>21. /\ memory' \in [HookPoints -> [DOMAIN configured -> Areas]]
       /\ memory'[point][i] = area
       /\ \A p \in HookPoints : \A j \in DOMAIN configured :
             p # point \/ j # i => memory'[p][j] = memory[p][j]
  BY <1>1, <1>5, <1>6, <1>7, <1>20
<1>8. MemoryOK'
  <2>1. \A p \in HookPoints : \A j \in DOMAIN configured : memory'[p][j].run <= hookRuns
    BY <1>7, <1>21 DEF HostInv, MemoryOK
  <2> QED BY <1>1, <1>21, <2>1 DEF HostInv, MemoryOK
(* A plugin is called once in a run, so what it finds is of an earlier one. *)
<1>22. wrote = "nothing" => area.run # hookRuns
  <2> SUFFICES ASSUME wrote = "nothing", area.run = hookRuns PROVE FALSE
    OBVIOUS
  <2>1. PICK k \in 1..(run.at - 1) : hooks[point][k] = i
    BY <1>1, <1>5, <1>6, <1>7 DEF HostInv, CalledOK
  <2>2. k \in DOMAIN hooks[point] /\ k < place
    BY <1>0, <2>1
  <2>3. wired[k] < wired[place]
    BY <1>0, <1>5, <2>2 DEF HostInv, WiringOK, WiredAt
  <2>4. wired[k] = wired[place]
    BY <2>1
  <2> QED BY ONLY <1>0, <2>3, <2>4
<1>9. vote \in Vote /\ vote.ending = ending /\ vote.area = area /\ vote.area.output = output
  BY <1>7 DEF Vote
<1>23. ending = "returns" => CountsAs(vote, output)
  BY <1>7, <1>9, <1>22 DEF CountsAs
<1>10. votes \in Seq(Vote) /\ Append(votes, vote) \in Seq(Vote)
       /\ Len(Append(votes, vote)) = Len(votes) + 1
  BY <1>4, <1>9, VoteMore
<1>11. current \in {"raw"} \cup Outputs
  BY <1>4, <1>7 DEF NextState, CallResult
<1>12. after \in {"capture", "act", "blocked"}
  BY <1>1
<1>13. /\ run' \in [kind: {"none", "capture", "act", "delivered", "performed", "blocked"},
                    at: Nat, current: {"raw"} \cup Outputs, votes: Seq(Vote)]
       /\ run'.kind = after /\ run'.at = run.at + 1 /\ run'.current = current
       /\ run'.votes = Append(votes, vote)
  <2>0. PICK n, vs : n = run.at + 1 /\ vs = Append(votes, vote)
    OBVIOUS
  <2>6. run.at \in Nat
    BY <1>4
  <2>1. n \in Nat /\ vs \in Seq(Vote)
    BY ONLY <1>10, <2>0, <2>6
  <2>2. run' = [run EXCEPT !.votes = vs, !.at = n, !.current = current, !.kind = after]
    BY <1>2, <2>0
  <2>3. run \in [kind: {"none", "capture", "act", "delivered", "performed", "blocked"},
                 at: Nat, current: {"raw"} \cup Outputs, votes: Seq(Vote)]
    BY <1>4
  <2>4. after \in {"none", "capture", "act", "delivered", "performed", "blocked"}
    BY <1>12
  <2>5. /\ run' \in [kind: {"none", "capture", "act", "delivered", "performed", "blocked"},
                      at: Nat, current: {"raw"} \cup Outputs, votes: Seq(Vote)]
        /\ run'.kind = after /\ run'.at = n /\ run'.current = current /\ run'.votes = vs
    BY ONLY <1>11, <2>1, <2>2, <2>3, <2>4, RunWith, Zenon
  <2> QED BY <2>0, <2>5
<1>24. CalledOK'
  <2> SUFFICES ASSUME after \in {"capture", "act"}, NEW p \in HookPoints,
                      NEW j \in DOMAIN configured, memory'[p][j].run = hookRuns
               PROVE  p = HookPoint(after) /\ \E k \in 1..((run.at + 1) - 1) : hooks[p][k] = j
    <3>1. HookPoint(run.kind)' = HookPoint(after)
      BY <1>13 DEF HookPoint
    <3>2. /\ configured' = configured /\ hooks' = hooks /\ hookRuns' = hookRuns
          /\ run'.kind = after /\ run'.at = run.at + 1
      BY <1>1, <1>13
    <3> QED BY <3>1, <3>2, Zenon DEF CalledOK
  <2>1. HookPoint(after) = point
    OBVIOUS
  <2>2. run.at \in 1..((run.at + 1) - 1) /\ 1..(run.at - 1) \subseteq 1..((run.at + 1) - 1)
    <3>1. PICK n : n = run.at
      OBVIOUS
    <3>2. PICK h : h = hooks[point]
      OBVIOUS
    <3>3. n \in Nat /\ n \in DOMAIN h /\ h \in Seq(Nat)
      BY <1>0, <1>5, <3>1, <3>2
    <3>4. n \in 1..((n + 1) - 1) /\ 1..(n - 1) \subseteq 1..((n + 1) - 1)
      BY ONLY <3>3
    <3> QED BY <3>1, <3>4
  <2>3. CASE p = point /\ j = i
    BY <2>1, <2>2, <2>3
  <2>4. CASE p # point \/ j # i
    <3>1. memory[p][j].run = hookRuns
      BY <1>21, <2>4
    <3>2. p = point /\ \E k \in 1..(run.at - 1) : hooks[p][k] = j
      BY <1>1, <3>1 DEF HostInv, CalledOK
    <3> QED BY <2>1, <2>2, <3>2
  <2> QED BY <2>3, <2>4
<1>14. after = "act" => AllAllowed(Append(votes, vote))
  <2> SUFFICES ASSUME after = "act" PROVE AllAllowed(Append(votes, vote))
    OBVIOUS
  <2>1. kind = "act" /\ Allows(result)
    OBVIOUS
  <2>2. ending = "returns" /\ output = "allow"
    BY <2>1 DEF Allows, CallResult
  <2>3. CountsAs(vote, "allow")
    BY <1>23, <2>2
  <2> QED BY <1>4, <1>9, <1>10, <2>1, <2>3, VoteMore
<1>15. after = "capture" => StateIsWhole(current, Append(votes, vote))
  <2> SUFFICES ASSUME after = "capture" PROVE StateIsWhole(current, Append(votes, vote))
    OBVIOUS
  <2>1. kind = "capture" /\ current = NextState(run.current, result, output)
    OBVIOUS
  <2>2. CASE result = "error"
    <3>1. current = run.current
      BY <2>1, <2>2 DEF NextState
    <3>2. CallResult(vote.ending, vote.area.output) = "error"
      BY <1>9, <2>2
    <3> QED BY <1>4, <1>9, <1>10, <2>1, <3>1, <3>2, VoteMore
  <2>3. CASE result # "error"
    <3>1. ending = "returns" /\ current = output
      BY <2>1, <2>3 DEF NextState, CallResult
    <3>2. CountsAs(vote, current)
      BY <1>23, <3>1
    <3> QED BY <1>9, <1>10, <3>2, VoteMore
  <2> QED BY <2>2, <2>3
<1>16. after \in {"capture", "act"} =>
          /\ run.at + 1 = Len(Append(votes, vote)) + 1
          /\ Len(Append(votes, vote)) <= Len(hooks[HookPoint(after)])
  <2> SUFFICES ASSUME after \in {"capture", "act"}
               PROVE  /\ run.at + 1 = Len(Append(votes, vote)) + 1
                      /\ Len(Append(votes, vote)) <= Len(hooks[HookPoint(after)])
    OBVIOUS
  <2>1. HookPoint(after) = point
    OBVIOUS
  <2> QED BY <1>1, <1>4, <1>10, <2>1
<1>17. RunOK'
  <2>1. run'.kind \in {"capture", "act", "blocked"} /\ startup' = "running"
    BY <1>1, <1>4, <1>12, <1>13
  <2>2. run'.kind \in {"capture", "act"} =>
          /\ run'.at = Len(run'.votes) + 1
          /\ Len(run'.votes) <= Len(hooks'[HookPoint(run'.kind)])
    BY <1>1, <1>13, <1>16
  <2> PICK vs : vs = Append(votes, vote)
    OBVIOUS
  <2>3. /\ run'.votes = vs /\ run'.current = current /\ run'.kind = after
        /\ after \in {"capture", "act", "blocked"}
    BY <1>12, <1>13
  <2>4. /\ after = "act" => AllAllowed(vs)'
        /\ after = "capture" => StateIsWhole(current, vs)'
    BY <1>1, <1>14, <1>15, VotesFrame
  <2>5. run'.kind \in {"act", "performed"} => AllAllowed(run.votes)'
    BY <2>3, <2>4 DEF AllAllowed
  <2>6. run'.kind \in {"capture", "delivered"} => StateIsWhole(run.current, run.votes)'
    BY <2>3, <2>4 DEF StateIsWhole
  <2>7. HookPoint(run.kind)' = HookPoint(run'.kind)
    BY DEF HookPoint
  <2> QED BY <1>13, <2>1, <2>2, <2>5, <2>6, <2>7 DEF RunOK
<1> QED BY <1>3, <1>8, <1>17, <1>24 DEF HostInv

(* The run ends: the act went past every plugin, the state is whole.        *)
LEMMA EndRunKeeps ==
    ASSUME HostInv, EndRun
    PROVE  HostInv'
<1> PICK kind : kind = run.kind
  OBVIOUS
<1> PICK votes : votes = run.votes
  OBVIOUS
<1> PICK after : after = IF kind = "capture" THEN "delivered" ELSE "performed"
  OBVIOUS
<1> PICK current : current = IF run.current \in {"node1", "node2"} THEN run.current ELSE "raw"
  OBVIOUS
<1>1. /\ kind \in {"capture", "act"} /\ run.at > Len(hooks[HookPoint(kind)])
      /\ run' = [run EXCEPT !.kind = after, !.current = current]
      /\ UNCHANGED <<configured, packages, startup, nextEntry, hooks, memory, hookRuns>>
  BY DEF EndRun
<1>2. PackagesOK' /\ WiringOK' /\ MemoryOK'
  BY <1>1, WiringFrame DEF HostInv, PackagesOK, MemoryOK
<1>3. /\ run \in [kind: {"none", "capture", "act", "delivered", "performed", "blocked"},
                  at: Nat, current: {"raw"} \cup Outputs, votes: Seq(Vote)]
      /\ startup = "running" /\ run.at = Len(votes) + 1
      /\ Len(votes) <= Len(hooks[HookPoint(kind)])
      /\ kind = "act" => AllAllowed(votes)
      /\ kind = "capture" => StateIsWhole(run.current, votes)
  BY <1>1 DEF HostInv, RunOK
<1>4. /\ run' \in [kind: {"none", "capture", "act", "delivered", "performed", "blocked"},
                   at: Nat, current: {"raw"} \cup Outputs, votes: Seq(Vote)]
      /\ run'.kind = after /\ run'.current = current /\ run'.votes = votes
  BY <1>1, <1>3
<1>5. after = "performed" => Len(votes) = Len(hooks["before_act"]) /\ AllAllowed(votes)
  <2> SUFFICES ASSUME after = "performed"
               PROVE  Len(votes) = Len(hooks["before_act"]) /\ AllAllowed(votes)
    OBVIOUS
  <2>1. kind = "act" /\ HookPoint(kind) = "before_act" /\ "before_act" \in HookPoints
    BY <1>1 DEF HookPoint, HookPoints
  <2>2. hooks["before_act"] \in Seq(Nat)
    BY <2>1 DEF HostInv, WiringOK, WiredAt
  <2>3. Len(votes) \in Nat
    BY <1>3
  <2> QED BY <1>1, <1>3, <2>1, <2>2, <2>3
<1>6. after = "delivered" => StateIsWhole(current, votes)
  <2> SUFFICES ASSUME after = "delivered" PROVE StateIsWhole(current, votes)
    OBVIOUS
  <2>1. StateIsWhole(run.current, votes) /\ (current = run.current \/ current = "raw")
    BY <1>3
  <2> QED BY <2>1 DEF StateIsWhole
<1>7. RunOK'
  BY <1>1, <1>3, <1>4, <1>5, <1>6, VotesFrame DEF RunOK
<1>8. CalledOK'
  BY <1>4 DEF CalledOK
<1> QED BY <1>2, <1>7, <1>8 DEF HostInv

(* So does answering a finished call.                                       *)
LEMMA AnswerKeeps ==
    ASSUME HostInv, Answer
    PROVE  HostInv'
<1>1. /\ run' = [kind |-> "none", at |-> 0, current |-> "raw", votes |-> << >>]
      /\ UNCHANGED <<configured, packages, startup, nextEntry, hooks, memory, hookRuns>>
  BY DEF Answer, NoRun
<1>2. PackagesOK' /\ WiringOK' /\ MemoryOK'
  BY <1>1, WiringFrame DEF HostInv, PackagesOK, MemoryOK
<1>3. << >> \in Seq(Vote)
  OBVIOUS
<1>4. /\ run' \in [kind: {"none", "capture", "act", "delivered", "performed", "blocked"},
                   at: Nat, current: {"raw"} \cup Outputs, votes: Seq(Vote)]
      /\ run'.kind = "none"
  BY <1>1, <1>3
<1> QED BY <1>2, <1>4 DEF HostInv, RunOK, CalledOK

LEMMA HostStep ==
    ASSUME HostInv, [HostNext]_hostVars
    PROVE  HostInv'
<1>1. CASE UNCHANGED hostVars
  <2>1. PackagesOK' /\ WiringOK'
    BY <1>1, WiringFrame DEF HostInv, PackagesOK, hostVars
  <2>2. RunOK' /\ MemoryOK' /\ CalledOK'
    BY <1>1, RunFrame DEF HostInv, hostVars
  <2> QED BY <2>1, <2>2 DEF HostInv
<1> QED BY <1>1, EditPackageKeeps, StartsKeep, WirePluginKeeps, BeginRunKeeps, CallHookKeeps,
           EndRunKeeps, AnswerKeeps DEF HostNext

(* A plugin that loads has the content its publisher signed.                *)
LEMMA LoadedIsSigned ==
    ASSUME PackagesOK, NEW i \in DOMAIN configured, LoadPlugin(packages[i])
    PROVE  configured[i].content = packages[i].content /\ configured[i].key \in TrustedKeys
<1> PICK a : a = configured[i].content
  OBVIOUS
<1> PICK b : b = packages[i].content
  OBVIOUS
<1>1. IsManifest(a) /\ IsManifest(b)
  BY ConfiguredIs DEF PackagesOK
<1>2. packages[i].key = configured[i].key /\ packages[i].signed = SignedPart(a)
  BY DEF PackagesOK
<1>3. packages[i].key \in TrustedKeys /\ packages[i].signed = SignedPart(b)
  BY DEF LoadPlugin, VerifySignature, Registered
<1>4. SignedPart(a) = a /\ SignedPart(b) = b
  BY <1>1 DEF SignedPart, IsManifest
<1> QED BY <1>2, <1>3, <1>4

(* For every configuration, edit, module and answer of a plugin: what is    *)
(* loaded was signed as it is, and a server that runs has wired all of it   *)
(* in order.  An act is performed only when the call of every plugin wired  *)
(* to it returned with "allow" in its output area, and a state is delivered *)
(* with what the areas of calls that returned hold; nothing written in the  *)
(* same run by a call that then failed counts.  What an earlier run left in *)
(* an area counts when a call returns without writing, also when the call   *)
(* that wrote it failed: the area is never cleared.                         *)
THEOREM PluginsHold == HostSpec => []PluginsAreSafe
<1>1. HostInit => HostInv
  BY HostStarts
<1>2. HostInv /\ [HostNext]_hostVars => HostInv'
  BY HostStep
<1>3. HostInv => PluginsAreSafe
  <2> SUFFICES ASSUME HostInv PROVE PluginsAreSafe
    OBVIOUS
  <2>1. /\ Len(configured) \in Nat /\ DOMAIN configured = 1..Len(configured)
        /\ DOMAIN packages = 1..Len(configured)
        /\ nextEntry \in 1..(Len(configured) + 1)
        /\ 1..(nextEntry - 1) \subseteq DOMAIN configured
    BY ConfiguredIs DEF HostInv, PackagesOK, WiringOK
  <2>2. LoadedWasSigned
    <3> SUFFICES ASSUME NEW p \in HookPoints, NEW k \in DOMAIN hooks[p], NEW i, i = hooks[p][k]
                 PROVE  \E j \in DOMAIN configured : /\ configured[j].content = packages[i].content
                                                     /\ configured[j].key \in TrustedKeys
      BY DEF LoadedWasSigned
    <3>1. i \in 1..(nextEntry - 1)
      BY DEF HostInv, WiringOK, WiredAt
    <3>2. LoadPlugin(packages[i]) /\ i \in DOMAIN configured
      BY <2>1, <3>1 DEF HostInv, WiringOK
    <3> QED BY <3>2, LoadedIsSigned DEF HostInv
  <2>3. StartsOnlyComplete
    <3> SUFFICES ASSUME startup = "running"
                 PROVE  /\ \A i \in DOMAIN packages : Points(i) # {} /\ ~Duplicate(i)
                        /\ \A p \in HookPoints :
                             /\ {hooks[p][k] : k \in DOMAIN hooks[p]} =
                                  {i \in DOMAIN packages : p \in Points(i)}
                             /\ \A k, l \in DOMAIN hooks[p] : k < l => hooks[p][k] < hooks[p][l]
      BY DEF StartsOnlyComplete
    <3>1. 1..(nextEntry - 1) = DOMAIN packages
      BY <2>1 DEF HostInv, WiringOK
    <3>2. \A i \in DOMAIN packages : Points(i) # {} /\ ~Duplicate(i)
      BY <3>1 DEF HostInv, WiringOK
    <3>3. ASSUME NEW p \in HookPoints
          PROVE  /\ \A k \in DOMAIN hooks[p] : hooks[p][k] \in DOMAIN packages
                                               /\ p \in Points(hooks[p][k])
                 /\ \A i \in DOMAIN packages : p \in Points(i) =>
                      \E k \in DOMAIN hooks[p] : hooks[p][k] = i
                 /\ \A k, l \in DOMAIN hooks[p] : k < l => hooks[p][k] < hooks[p][l]
      BY <3>1, <3>3 DEF HostInv, WiringOK, WiredAt
    <3>4. \A p \in HookPoints :
             {hooks[p][k] : k \in DOMAIN hooks[p]} = {i \in DOMAIN packages : p \in Points(i)}
      BY <3>3
    <3> QED BY <3>2, <3>3, <3>4
  <2>4. ActNeedsEveryPlugin
    BY DEF HostInv, RunOK, AllAllowed, ActNeedsEveryPlugin
  <2>5. DeliveredIsWhole
    BY DEF HostInv, RunOK, StateIsWhole, DeliveredIsWhole
  <2> QED BY <2>2, <2>3, <2>4, <2>5 DEF PluginsAreSafe
<1> QED BY <1>1, <1>2, <1>3, PTL DEF HostSpec

=============================================================================
