---------------------- MODULE PublicNavigation_proofs ----------------------
(***************************************************************************)
(* The public navigation boundary lets through what was admitted, spends   *)
(* an approval of a single action on one attempt, and tells the outcome of *)
(* a navigation as it was: proofs for every set of destinations, every     *)
(* policy and any number of requests and calls.                            *)
(***************************************************************************)
EXTENDS PublicNavigation, FiniteSetTheorems, TLAPS

AgentStates == [op : Ops, to : Dests,
                prev : [loader : Nat, url : Dests, rev : Nat],
                since : Nat, init : Nat, stamp : Nat,
                result : {"none", "ok", "error", "human"}]

(* Where a call has a validated destination, has passed the check for an   *)
(* earlier rejection, and knows the document it starts from.               *)
Validated == {"evaluate", "publish", "send", "goto"}
Checked == {"evaluate", "publish", "send", "goto", "act_begin", "acting"}
Departed == {"evaluate", "publish", "send", "goto", "wait", "fallback"}

(* A step of the agent that reaches none of these places anew, or only     *)
(* with nothing to report, and has an outcome that is true.                *)
AgentKeeps ==
    /\ agent' \in AgentStates
    /\ agent'.op \in Validated => agent.op \in Validated /\ agent'.to = agent.to
    /\ agent'.op = "send" => agent.op = "send" /\ agent'.to = agent.to
    /\ agent'.op \in Checked =>
         rejection = {} \/ (agent.op \in Checked /\ agent'.stamp = agent.stamp)
    /\ agent'.op \in Departed =>
         /\ agent.op \in Departed
         /\ agent'.since = agent.since
         /\ agent'.prev = agent.prev
    /\ agent'.stamp <= stamps
    /\ agent'.op = "check" => agent'.result = "none"
    /\ agent'.result = "ok" => moves > agent'.since

(* An agent that stays where it is reaches nothing anew.                   *)
LEMMA AgentStays ==
    ASSUME NavigationInv, UNCHANGED agent
    PROVE  AgentKeeps
BY DEF NavigationInv, TypeOK, CallOK, AgentKeeps, AgentStates, OutcomeIsTold,
   CompletedBecauseChromeMoved

(* Going to another place with the same locals, and returning.             *)
LEMMA AgentGoes ==
    ASSUME NavigationInv
    PROVE  /\ Return => AgentKeeps
           /\ \A op \in Ops : Go(op) =>
                /\ agent' \in AgentStates /\ agent'.op = op /\ agent'.to = agent.to
                /\ agent'.prev = agent.prev /\ agent'.since = agent.since
                /\ agent'.stamp = agent.stamp /\ agent'.result = agent.result
           /\ \A res \in {"ok", "error", "human"} : Finish(res) =>
                /\ agent' \in AgentStates /\ agent'.op = "epoch" /\ agent'.result = res
                /\ agent'.since = agent.since /\ agent'.stamp = agent.stamp
<1>1. agent \in AgentStates /\ agent.stamp <= stamps /\ stamps \in Nat
  BY DEF NavigationInv, TypeOK, CallOK, AgentStates
<1>2. Return => AgentKeeps
  <2>1. Idle \in AgentStates
    BY NavigationAssumption DEF Idle, AgentStates, Ops
  <2>2. Idle.op = "idle" /\ Idle.stamp = 0 /\ Idle.result = "none"
    BY DEF Idle
  <2> QED BY <1>1, <2>1, <2>2 DEF Return, AgentKeeps, Validated, Checked, Departed
<1>3. ASSUME NEW op \in Ops, Go(op)
      PROVE  /\ agent' \in AgentStates /\ agent'.op = op /\ agent'.to = agent.to
             /\ agent'.prev = agent.prev /\ agent'.since = agent.since
             /\ agent'.stamp = agent.stamp /\ agent'.result = agent.result
  BY <1>1, <1>3 DEF Go, AgentStates
<1>4. ASSUME NEW res \in {"ok", "error", "human"}, Finish(res)
      PROVE  /\ agent' \in AgentStates /\ agent'.op = "epoch" /\ agent'.result = res
             /\ agent'.since = agent.since /\ agent'.stamp = agent.stamp
  BY <1>1, <1>4 DEF Finish, AgentStates, Ops
<1> QED BY <1>2, <1>3, <1>4

(* The sets that are counted are finite.                                   *)
LEMMA Counting ==
    ASSUME NavigationInv, NEW d \in Dests
    PROVE  /\ Cardinality(Passes(d)) \in Nat
           /\ Cardinality(Capabilities(d)) \in Nat
           /\ \A P : P \subseteq Passes(d) =>
                Cardinality(P) \in Nat /\ Cardinality(P) <= Cardinality(Passes(d))
           /\ \A P, x : P \subseteq Passes(d) \cup {x} =>
                Cardinality(P) \in Nat /\ Cardinality(P) <= Cardinality(Passes(d)) + 1
           /\ \A C : C \subseteq Capabilities(d) =>
                Cardinality(C) \in Nat /\ Cardinality(C) <= Cardinality(Capabilities(d))
           /\ \A C, x : C \subseteq Capabilities(d) \cup {x} =>
                Cardinality(C) \in Nat /\ Cardinality(C) <= Cardinality(Capabilities(d)) + 1
           /\ \A C : \A x \in Capabilities(d) : C \subseteq Capabilities(d) \ {x} =>
                Cardinality(C) \in Nat /\ Cardinality(C) <= Cardinality(Capabilities(d)) - 1
<1>1. IsFiniteSet(Passes(d))
  <2>1. Passes(d) \subseteq (0 .. atts) \X {d}
    <3>1. /\ sent \subseteq Nat \X Dests /\ atts \in Nat
          /\ attempt \subseteq Attempts /\ icp \subseteq Intercepts
          /\ \A s \in sent : s[1] <= atts
          /\ \A a \in attempt : a.no <= atts
          /\ \A i \in icp : i.att <= atts
      BY DEF NavigationInv, TypeOK, CreditOK
    <3>2. \A s \in sent : s[2] = d => s \in (0 .. atts) \X {d}
      BY <3>1
    <3>3. \A a \in attempt : a.no \in 0 .. atts
      BY <3>1 DEF Attempts
    <3>4. \A i \in icp : i.att \in 0 .. atts
      BY <3>1 DEF Intercepts
    <3> QED BY <3>2, <3>3, <3>4 DEF Passes
  <2>2. IsFiniteSet(0 .. atts) /\ IsFiniteSet({d})
    <3>1. 0 \in Int /\ atts \in Int
      BY DEF NavigationInv, TypeOK
    <3>2. IsFiniteSet(0 .. atts)
      BY <3>1, FS_Interval
    <3> QED BY <3>2, FS_Singleton
  <2>3. IsFiniteSet((0 .. atts) \X {d})
    BY <2>2, FS_Product
  <2> QED BY <2>1, <2>3, FS_Subset
<1>2. IsFiniteSet(Capabilities(d))
  <2>1. Capabilities(d) \subseteq granted
    BY DEF Capabilities
  <2> QED BY <2>1, FS_Subset DEF NavigationInv, CreditOK
<1>3. ASSUME NEW S, IsFiniteSet(S)
      PROVE  /\ Cardinality(S) \in Nat
             /\ \A P : P \subseteq S => Cardinality(P) \in Nat /\ Cardinality(P) <= Cardinality(S)
             /\ \A P, x : P \subseteq S \cup {x} =>
                  Cardinality(P) \in Nat /\ Cardinality(P) <= Cardinality(S) + 1
             /\ \A P : \A x \in S : P \subseteq S \ {x} =>
                  Cardinality(P) \in Nat /\ Cardinality(P) <= Cardinality(S) - 1
  <2>0. ASSUME NEW T, IsFiniteSet(T), NEW P, P \subseteq T
        PROVE  /\ Cardinality(P) \in Nat /\ Cardinality(T) \in Nat
               /\ Cardinality(P) <= Cardinality(T)
    <3>1. IsFiniteSet(P) /\ Cardinality(P) <= Cardinality(T)
      BY <2>0, FS_Subset
    <3> QED BY <2>0, <3>1, FS_CardinalityType
  <2>1. Cardinality(S) \in Nat
    BY <1>3, FS_CardinalityType
  <2>2. ASSUME NEW P, NEW x, P \subseteq S \cup {x}
        PROVE  Cardinality(P) \in Nat /\ Cardinality(P) <= Cardinality(S) + 1
    <3>1. /\ IsFiniteSet(S \cup {x})
          /\ Cardinality(S \cup {x}) = IF x \in S THEN Cardinality(S) ELSE Cardinality(S) + 1
      BY <1>3, FS_AddElement
    <3>2. Cardinality(P) \in Nat /\ Cardinality(P) <= Cardinality(S \cup {x})
      BY <2>0, <2>2, <3>1
    <3> QED BY <2>1, <3>1, <3>2
  <2>3. ASSUME NEW P, NEW x \in S, P \subseteq S \ {x}
        PROVE  Cardinality(P) \in Nat /\ Cardinality(P) <= Cardinality(S) - 1
    <3>1. /\ IsFiniteSet(S \ {x}) /\ Cardinality(S \ {x}) = Cardinality(S) - 1
      BY <1>3, FS_RemoveElement
    <3>2. Cardinality(P) \in Nat /\ Cardinality(P) <= Cardinality(S \ {x})
      BY <2>0, <2>3, <3>1
    <3> QED BY <3>1, <3>2
  <2> QED BY <1>3, <2>0, <2>1, <2>2, <2>3
<1>4. /\ Cardinality(Passes(d)) \in Nat
      /\ \A P : P \subseteq Passes(d) =>
           Cardinality(P) \in Nat /\ Cardinality(P) <= Cardinality(Passes(d))
      /\ \A P, x : P \subseteq Passes(d) \cup {x} =>
           Cardinality(P) \in Nat /\ Cardinality(P) <= Cardinality(Passes(d)) + 1
  BY <1>1, <1>3
<1>5. /\ Cardinality(Capabilities(d)) \in Nat
      /\ \A C : C \subseteq Capabilities(d) =>
           Cardinality(C) \in Nat /\ Cardinality(C) <= Cardinality(Capabilities(d))
      /\ \A C, x : C \subseteq Capabilities(d) \cup {x} =>
           Cardinality(C) \in Nat /\ Cardinality(C) <= Cardinality(Capabilities(d)) + 1
      /\ \A C : \A x \in Capabilities(d) : C \subseteq Capabilities(d) \ {x} =>
           Cardinality(C) \in Nat /\ Cardinality(C) <= Cardinality(Capabilities(d)) - 1
  BY <1>2, <1>3
<1> QED BY <1>4, <1>5

(* A part of the invariant is kept while what it speaks of is unchanged    *)
(* and the agent reaches nothing anew.                                     *)
LEMMA NavFrames ==
    ASSUME NavigationInv, AgentKeeps
    PROVE  /\ UNCHANGED <<sent, attempt, icp, pending>> => AdmissionOK'
           /\ UNCHANGED <<granted, sent, attempt, icp, atts, given>> => CreditOK'
           /\ UNCHANGED <<queue, nextReq, page, icp, load>> => OrderOK'
           /\ UNCHANGED <<page, moves, obs>> => DocumentOK'
           /\ UNCHANGED stamps => CallOK'
           /\ UNCHANGED <<stamps, told, rejection, moves>> => OutcomeIsTold'
<1>1. UNCHANGED <<sent, attempt, icp, pending>> => AdmissionOK'
  BY DEF NavigationInv, AgentKeeps, AdmissionOK, Validated
<1>2. ASSUME UNCHANGED <<granted, sent, attempt, icp, atts, given>>
      PROVE  CreditOK'
  <2>1. ASSUME NEW d \in Dests, Verdicts[d] = "require", Scopes[d] = "action_only"
        PROVE  (Cardinality(Passes(d)) + Cardinality(Capabilities(d)) + OnItsWay(d)
                   <= given[d])'
    <3>1. Passes(d)' = Passes(d) /\ Capabilities(d)' = Capabilities(d)
      BY <1>2 DEF Passes, Capabilities
    <3>2. /\ OnItsWay(d) \in {0, 1} /\ OnItsWay(d)' \in {0, 1}
          /\ OnItsWay(d)' = 1 => OnItsWay(d) = 1
      BY DEF OnItsWay, AgentKeeps
    <3>3. Cardinality(Passes(d)) \in Nat /\ Cardinality(Capabilities(d)) \in Nat
      BY Counting
    <3>4. given[d] \in Nat /\ given' = given
      BY <1>2 DEF NavigationInv, TypeOK
    <3>5. Cardinality(Passes(d)) + Cardinality(Capabilities(d)) + OnItsWay(d) <= given[d]
      BY <2>1 DEF NavigationInv, CreditOK
    <3>6. /\ Cardinality(Passes(d))' = Cardinality(Passes(d))
          /\ Cardinality(Capabilities(d))' = Cardinality(Capabilities(d))
      BY <3>1
    <3> QED BY <3>2, <3>3, <3>4, <3>5, <3>6
  <2>2. \A d \in Dests : (Verdicts[d] = "require" /\ Scopes[d] = "action_only" =>
             Cardinality(Passes(d)) + Cardinality(Capabilities(d)) + OnItsWay(d)
                 <= given[d])'
    BY <2>1
  <2> QED BY <1>2, <2>2 DEF NavigationInv, CreditOK
<1>3. UNCHANGED <<queue, nextReq, page, icp, load>> => OrderOK'
  BY DEF NavigationInv, OrderOK, NoneNavigated
<1>4. UNCHANGED <<page, moves, obs>> => DocumentOK'
  BY DEF NavigationInv, AgentKeeps, DocumentOK, Departed
<1>5. UNCHANGED stamps => CallOK'
  BY DEF AgentKeeps, CallOK
<1>6. UNCHANGED <<stamps, told, rejection, moves>> => OutcomeIsTold'
  BY DEF NavigationInv, AgentKeeps, OutcomeIsTold, RejectionIsReported,
     CompletedBecauseChromeMoved, Checked
<1> QED BY <1>1, <1>2, <1>3, <1>4, <1>5, <1>6

(* The count when d gains at most one pass or capability for each it loses *)
(* or is given.                                                            *)
LEMMA CreditStep ==
    ASSUME NavigationInv,
           IsFiniteSet(granted'),
           \A s \in sent' : s[1] <= atts',
           \A a \in attempt' : a.no <= atts',
           \A i \in icp' : /\ i.att <= atts'
                           /\ \A a \in attempt' : i.id \in a.requests => a.no = i.att,
           given' \in [Dests -> Nat],
           \A d \in Dests : Verdicts[d] = "require" /\ Scopes[d] = "action_only" =>
               \E p, c \in {0, 1} :
                   /\ Passes(d)' \subseteq Passes(d) \/ (p = 1 /\ \E x : Passes(d)' \subseteq Passes(d) \cup {x})
                   /\ \/ Capabilities(d)' \subseteq Capabilities(d) /\ c = 0
                      \/ /\ c = 1
                         /\ \E x \in Capabilities(d) : Capabilities(d)' \subseteq Capabilities(d) \ {x}
                   /\ p + OnItsWay(d)' <= c + OnItsWay(d)
                   /\ given'[d] = given[d]
    PROVE  CreditOK'
<1>1. ASSUME NEW d \in Dests, Verdicts[d] = "require", Scopes[d] = "action_only"
      PROVE  (Cardinality(Passes(d)) + Cardinality(Capabilities(d)) + OnItsWay(d)
                 <= given[d])'
  <2>1. PICK p \in {0, 1}, c \in {0, 1} :
           /\ Passes(d)' \subseteq Passes(d) \/ (p = 1 /\ \E x : Passes(d)' \subseteq Passes(d) \cup {x})
           /\ \/ Capabilities(d)' \subseteq Capabilities(d) /\ c = 0
              \/ /\ c = 1
                 /\ \E x \in Capabilities(d) : Capabilities(d)' \subseteq Capabilities(d) \ {x}
           /\ p + OnItsWay(d)' <= c + OnItsWay(d)
           /\ given'[d] = given[d]
    BY <1>1
  <2>2. PICK np, nc : np = Cardinality(Passes(d)') /\ nc = Cardinality(Capabilities(d)')
    OBVIOUS
  <2>3. Cardinality(Passes(d)) \in Nat /\ Cardinality(Capabilities(d)) \in Nat
    BY Counting
  <2>4. np \in Nat /\ np <= Cardinality(Passes(d)) + p
    <3>1. CASE Passes(d)' \subseteq Passes(d)
      <4>1. np \in Nat /\ np <= Cardinality(Passes(d))
        BY <2>2, <3>1, Counting
      <4> QED BY <2>3, <4>1
    <3>2. CASE p = 1 /\ \E x : Passes(d)' \subseteq Passes(d) \cup {x}
      <4>1. np \in Nat /\ np <= Cardinality(Passes(d)) + 1
        BY <2>2, <3>2, Counting
      <4> QED BY <3>2, <4>1
    <3> QED BY <2>1, <3>1, <3>2
  <2>5. nc \in Nat /\ nc <= Cardinality(Capabilities(d)) - c
    <3>1. CASE c = 0 /\ Capabilities(d)' \subseteq Capabilities(d)
      <4>1. nc \in Nat /\ nc <= Cardinality(Capabilities(d))
        BY <2>2, <3>1, Counting
      <4> QED BY <2>3, <3>1, <4>1
    <3>2. CASE c = 1 /\ \E x \in Capabilities(d) : Capabilities(d)' \subseteq Capabilities(d) \ {x}
      <4>1. nc \in Nat /\ nc <= Cardinality(Capabilities(d)) - 1
        BY <2>2, <3>2, Counting
      <4> QED BY <3>2, <4>1
    <3> QED BY <2>1, <3>1, <3>2
  <2>6. OnItsWay(d) \in {0, 1} /\ OnItsWay(d)' \in {0, 1}
    BY DEF OnItsWay
  <2>7. Cardinality(Passes(d)) + Cardinality(Capabilities(d)) + OnItsWay(d) <= given[d]
    BY <1>1 DEF NavigationInv, CreditOK
  <2>8. given[d] \in Nat /\ given'[d] = given[d]
    BY <2>1 DEF NavigationInv, TypeOK
  <2>9. p + OnItsWay(d)' <= c + OnItsWay(d)
    BY <2>1
  <2>10. np + nc + OnItsWay(d)' <= given'[d]
    BY <2>3, <2>4, <2>5, <2>6, <2>7, <2>8, <2>9
  <2>11. /\ Cardinality(Passes(d))' = np /\ Cardinality(Capabilities(d))' = nc
    BY <2>2
  <2> QED BY <2>10, <2>11
<1>2. \A d \in Dests : (Verdicts[d] = "require" /\ Scopes[d] = "action_only" =>
           Cardinality(Passes(d)) + Cardinality(Capabilities(d)) + OnItsWay(d)
               <= given[d])'
  BY <1>1
<1> QED BY <1>2 DEF CreditOK

(* The count when nothing is let through or approved.                      *)
LEMMA CreditShrinks ==
    ASSUME NavigationInv, AgentKeeps,
           granted' \subseteq granted, UNCHANGED given,
           atts' \in Nat, atts <= atts',
           \A a \in attempt' : a.no <= atts',
           \A i \in icp' : /\ i.att <= atts'
                           /\ \A a \in attempt' : i.id \in a.requests => a.no = i.att,
           \A s \in sent' : s[1] <= atts',
           \A d \in Dests : Passes(d)' \subseteq Passes(d)
    PROVE  CreditOK'
<1>1. IsFiniteSet(granted')
  BY FS_Subset DEF NavigationInv, CreditOK
<1>2. given' \in [Dests -> Nat]
  BY DEF NavigationInv, TypeOK
<1>3. ASSUME NEW d \in Dests
      PROVE  /\ Passes(d)' \subseteq Passes(d)
             /\ Capabilities(d)' \subseteq Capabilities(d) /\ 0 = 0
             /\ 0 + OnItsWay(d)' <= 0 + OnItsWay(d)
             /\ given'[d] = given[d]
  BY DEF Capabilities, OnItsWay, AgentKeeps
<1>4. \A d \in Dests : Verdicts[d] = "require" /\ Scopes[d] = "action_only" =>
               \E p, c \in {0, 1} :
                   /\ Passes(d)' \subseteq Passes(d) \/ (p = 1 /\ \E x : Passes(d)' \subseteq Passes(d) \cup {x})
                   /\ \/ Capabilities(d)' \subseteq Capabilities(d) /\ c = 0
                      \/ /\ c = 1
                         /\ \E x \in Capabilities(d) : Capabilities(d)' \subseteq Capabilities(d) \ {x}
                   /\ p + OnItsWay(d)' <= c + OnItsWay(d)
                   /\ given'[d] = given[d]
  BY <1>3
<1> QED BY <1>1, <1>2, <1>4, CreditStep

(* record_frame *)
LEMMA FrameRecorded ==
    ASSUME NavigationInv, NEW loader \in Nat, NEW url \in Dests, RecordFrame(loader, url)
    PROVE  /\ obs' \in [loader : Nat, url : Dests, rev : Nat, complete : BOOLEAN,
                        awaiting : BOOLEAN]
           /\ obs'.loader = loader /\ obs'.url = url
<1>1. obs \in [loader : Nat, url : Dests, rev : Nat, complete : BOOLEAN,
               awaiting : BOOLEAN]
  BY DEF NavigationInv, TypeOK
<1>2. CASE obs.loader = loader
  BY <1>1, <1>2 DEF RecordFrame
<1>3. CASE obs.loader # loader
  <2>1. obs' = [loader |-> loader, url |-> url, rev |-> obs.rev + 1,
                complete |-> FALSE, awaiting |-> FALSE]
    BY <1>3 DEF RecordFrame
  <2> QED BY <1>1, <2>1
<1> QED BY <1>2, <1>3

(* A rejection is kept until it is told.                                   *)
LEMMA RejectKeeps ==
    ASSUME NavigationInv, NEW human \in BOOLEAN, Reject(human),
           UNCHANGED <<agent, told, moves>>
    PROVE  /\ OutcomeIsTold' /\ CallOK'
           /\ rejection' \subseteq [human : BOOLEAN, stamp : Nat] /\ stamps' \in Nat
<1>1. /\ stamps \in Nat /\ told \in Nat /\ agent.stamp \in Nat /\ agent.stamp <= stamps
      /\ rejection \subseteq [human : BOOLEAN, stamp : Nat]
      /\ OutcomeIsTold
  BY DEF NavigationInv, TypeOK, CallOK
<1>2. stamps' = stamps + 1 /\ rejection' # {}
  BY DEF Reject
<1>3. rejection' = rejection \/ rejection' = {[human |-> human, stamp |-> stamps + 1]}
  BY DEF Reject
<1>4. rejection' \subseteq [human : BOOLEAN, stamp : Nat]
  BY <1>1, <1>3
<1>5. agent.op \in Checked => \A r \in rejection' : r.stamp > agent.stamp
  BY <1>1, <1>3 DEF OutcomeIsTold, RejectionIsReported, Checked
<1>6. OutcomeIsTold'
  BY <1>1, <1>2, <1>5 DEF OutcomeIsTold, RejectionIsReported, CompletedBecauseChromeMoved,
     Checked
<1>7. CallOK'
  BY <1>1, <1>2 DEF NavigationInv, CallOK
<1> QED BY <1>1, <1>2, <1>4, <1>6, <1>7

(* Taking the rejection tells it.                                          *)
LEMMA TakeKeeps ==
    ASSUME NavigationInv, TakeRejection, UNCHANGED <<stamps, moves>>,
           agent'.result = "ok" => moves > agent'.since
    PROVE  OutcomeIsTold' /\ rejection' = {} /\ told' \in Nat
<1>1. stamps \in Nat /\ told \in Nat /\ (stamps > told => rejection # {})
  BY DEF NavigationInv, TypeOK, OutcomeIsTold, RejectionIsReported
<1>2. rejection' = {} /\ told' \in {told, stamps} /\ ~ (stamps > told')
  BY <1>1 DEF TakeRejection
<1> QED BY <1>1, <1>2 DEF OutcomeIsTold, RejectionIsReported, CompletedBecauseChromeMoved

(* A new request is paused behind whatever is waiting.                     *)
LEMMA RequestKeeps ==
    ASSUME NavigationInv, NEW d \in Dests, NEW parent \in Nat, Request(d, parent),
           UNCHANGED <<page, icp>>
    PROVE  /\ OrderOK' /\ queue' \in Seq(Events) /\ nextReq' \in Nat
           /\ load' \subseteq [id : Nat, url : Dests, go : BOOLEAN]
<1> PICK e : e = [kind |-> "paused", id |-> nextReq, url |-> d, parent |-> parent]
  OBVIOUS
<1>1. /\ queue \in Seq(Events) /\ nextReq \in Nat /\ icp \subseteq Intercepts
      /\ OrderOK /\ Len(queue) \in Nat
  BY DEF NavigationInv, TypeOK
<1>2. e \in Events /\ e.kind = "paused" /\ e.id = nextReq
  BY <1>1 DEF Events
<1>3. queue' = Append(queue, e) /\ nextReq' = nextReq + 1
      /\ load' = {[id |-> nextReq, url |-> d, go |-> FALSE]}
  BY DEF Request
<1>4. /\ queue' \in Seq(Events) /\ Len(queue') = Len(queue) + 1
      /\ queue'[Len(queue) + 1] = e
      /\ \A k \in 1 .. Len(queue) : queue'[k] = queue[k]
      /\ \A k \in 1 .. Len(queue') : k \in 1 .. Len(queue) \/ k = Len(queue) + 1
  BY <1>1, <1>2, <1>3
<1>5. \A k \in 1 .. Len(queue) :
         /\ queue[k].kind = "paused" => queue[k].id \in Nat /\ queue[k].id < nextReq
         /\ queue[k].kind = "navigated" => queue[k].loader = page.loader
  <2>1. ASSUME NEW k \in 1 .. Len(queue), queue[k].kind = "paused" PROVE queue[k].id \in Nat
    <3>1. queue[k] \in Events
      BY <1>1
    <3> QED BY <2>1, <3>1 DEF Events
  <2> QED BY <1>1, <2>1 DEF OrderOK
<1>6. \A k \in 1 .. Len(queue') :
         /\ queue'[k].kind = "paused" => queue'[k].id < nextReq'
         /\ queue'[k].kind = "navigated" => queue'[k].loader = page'.loader
  BY <1>1, <1>2, <1>3, <1>4, <1>5
<1>7. \A i \in icp' : i.id < nextReq' /\ i.id # nextReq
  BY <1>1, <1>3 DEF OrderOK, Intercepts
<1>8. \A j, k \in 1 .. Len(queue') :
         queue'[k].kind = "paused" /\ queue'[k].id = nextReq /\ k < j =>
             queue'[j].kind # "navigated"
  BY <1>1, <1>4, <1>5
<1>9. \A l \in load' : l.id = nextReq /\ ~ l.go /\ l.id < nextReq'
  BY <1>1, <1>3
<1>10. OrderOK'
  BY <1>6, <1>7, <1>8, <1>9 DEF OrderOK
<1>11. load' \subseteq [id : Nat, url : Dests, go : BOOLEAN]
  BY <1>1, <1>3
<1> QED BY <1>1, <1>3, <1>4, <1>10, <1>11

(* What Chrome does on its own.                                            *)
LEMMA ChromeKeeps ==
    ASSUME NavigationInv, Chrome
    PROVE  NavigationInv'
<1>1. /\ UNCHANGED <<obs, attempt, rejection, icp, approvalVars, agent, clock, ghostVars>>
      /\ UNCHANGED <<obs, attempt, rejection, icp, pending, granted, epoch, nextPend, agent,
                     clock, ops, atts, sent, given, stamps, told>>
  BY DEF Chrome, PageRequests, Redirect, Commit, GoesIdle, approvalVars, ghostVars
<1>2. AgentKeeps
  BY <1>1, AgentStays
<1>3. AdmissionOK' /\ CreditOK' /\ CallOK'
  BY <1>1, <1>2, NavFrames
<1>4. /\ page \in [loader : Nat, url : Dests, idle : BOOLEAN] /\ moves \in Nat
      /\ load \subseteq [id : Nat, url : Dests, go : BOOLEAN]
      /\ queue \in Seq(Events) /\ nextReq \in Nat /\ Len(queue) \in Nat
      /\ DocumentOK /\ OrderOK
  BY DEF NavigationInv, TypeOK
<1>5. CASE PageRequests \/ Redirect
  <2>1. UNCHANGED <<page, moves>>
    BY <1>5 DEF PageRequests, Redirect
  <2>2. PICK d \in Dests, parent \in Nat : Request(d, parent)
    BY <1>4, <1>5 DEF PageRequests, Redirect
  <2>3. /\ OrderOK' /\ queue' \in Seq(Events) /\ nextReq' \in Nat
        /\ load' \subseteq [id : Nat, url : Dests, go : BOOLEAN]
    BY <1>1, <2>1, <2>2, RequestKeeps
  <2>4. DocumentOK' /\ OutcomeIsTold'
    BY <1>1, <1>2, <2>1, NavFrames
  <2>5. TypeOK'
    BY <1>1, <2>1, <2>3 DEF NavigationInv, TypeOK
  <2> QED BY <1>3, <2>3, <2>4, <2>5 DEF NavigationInv
<1>6. CASE Commit
  <2>1. PICK l \in load :
           /\ l.go
           /\ page' = [loader |-> page.loader + 1, url |-> l.url, idle |-> FALSE]
           /\ queue' = Append(queue, [kind |-> "navigated", loader |-> page.loader + 1,
                                      url |-> l.url])
    BY <1>6 DEF Commit
  <2>2. load' = {} /\ moves' = moves + 1 /\ UNCHANGED nextReq
    BY <1>6 DEF Commit
  <2> PICK e : e = [kind |-> "navigated", loader |-> page.loader + 1, url |-> l.url]
    OBVIOUS
  <2>3. e \in Events /\ e.kind = "navigated" /\ e.loader = page.loader + 1 /\ l.url \in Dests
    BY <1>4, <2>1 DEF Events
  <2>4. /\ queue' \in Seq(Events) /\ Len(queue') = Len(queue) + 1
        /\ queue'[Len(queue) + 1] = e
        /\ \A k \in 1 .. Len(queue) : queue'[k] = queue[k]
        /\ \A k \in 1 .. Len(queue') : k \in 1 .. Len(queue) \/ k = Len(queue) + 1
    BY <1>4, <2>1, <2>3
  <2>5. /\ page' \in [loader : Nat, url : Dests, idle : BOOLEAN]
        /\ page'.loader = page.loader + 1 /\ moves' \in Nat
    BY <1>4, <2>1, <2>2, <2>3
  <2>6. NoneNavigated
    BY <1>4, <2>1 DEF OrderOK
  <2>7. OrderOK'
    BY <1>1, <1>4, <2>2, <2>3, <2>4, <2>5, <2>6 DEF OrderOK, NoneNavigated
  <2>8. DocumentOK'
    <3>1. /\ agent.op \in Departed => agent.prev.loader <= obs.loader
          /\ obs.loader <= page.loader /\ page.loader = moves
          /\ agent.op \in Departed => agent.since = agent.prev.loader
          /\ obs.loader \in Nat /\ agent.prev.loader \in Nat /\ page.loader \in Nat
      BY DEF NavigationInv, TypeOK, DocumentOK, Departed
    <3>2. page'.loader = moves' /\ obs'.loader <= page'.loader
      BY <1>1, <2>2, <2>5, <3>1
    <3>3. agent.op \in Departed => page'.loader # agent.prev.loader
      BY <2>5, <3>1
    <3> QED BY <1>1, <3>1, <3>2, <3>3 DEF DocumentOK, Departed
  <2>9. OutcomeIsTold'
    <3>1. agent.result = "ok" => moves' > agent.since
      BY <1>4, <2>2 DEF NavigationInv, TypeOK, OutcomeIsTold, CompletedBecauseChromeMoved
    <3> QED BY <1>1, <3>1 DEF NavigationInv, OutcomeIsTold, CompletedBecauseChromeMoved,
               RejectionIsReported
  <2>10. TypeOK'
    BY <1>1, <2>2, <2>4, <2>5 DEF NavigationInv, TypeOK
  <2> QED BY <1>3, <2>7, <2>8, <2>9, <2>10 DEF NavigationInv
<1>7. CASE GoesIdle
  <2> PICK e : e = [kind |-> "idle", loader |-> page.loader]
    OBVIOUS
  <2>1. /\ page' = [page EXCEPT !.idle = TRUE] /\ queue' = Append(queue, e)
        /\ UNCHANGED <<moves, load, nextReq>>
    BY <1>7 DEF GoesIdle
  <2>2. e \in Events /\ e.kind = "idle"
    BY <1>4 DEF Events
  <2>3. /\ queue' \in Seq(Events) /\ Len(queue') = Len(queue) + 1
        /\ queue'[Len(queue) + 1] = e
        /\ \A k \in 1 .. Len(queue) : queue'[k] = queue[k]
        /\ \A k \in 1 .. Len(queue') : k \in 1 .. Len(queue) \/ k = Len(queue) + 1
    BY <1>4, <2>1, <2>2
  <2>4. /\ page' \in [loader : Nat, url : Dests, idle : BOOLEAN]
        /\ page'.loader = page.loader /\ page'.url = page.url
    BY <1>4, <2>1
  <2>5. NoneNavigated => NoneNavigated'
    BY <2>2, <2>3 DEF NoneNavigated
  <2>6. OrderOK'
    <3>1. \A k \in 1 .. Len(queue') :
             /\ queue'[k].kind = "paused" => queue'[k].id < nextReq'
             /\ queue'[k].kind = "navigated" => queue'[k].loader = page'.loader
      BY <1>4, <2>1, <2>2, <2>3, <2>4 DEF OrderOK
    <3>2. ASSUME NEW l \in load, NEW j \in 1 .. Len(queue'), NEW k \in 1 .. Len(queue'),
                 queue'[k].kind = "paused", queue'[k].id = l.id, k < j
          PROVE  queue'[j].kind # "navigated"
      <4>1. k \in 1 .. Len(queue)
        BY <2>2, <2>3, <3>2
      <4>2. CASE j = Len(queue) + 1
        BY <2>2, <2>3, <4>2
      <4>3. CASE j \in 1 .. Len(queue)
        BY <1>4, <2>3, <3>2, <4>1, <4>3 DEF OrderOK
      <4> QED BY <2>3, <4>2, <4>3
    <3>3. \A l \in load' :
             /\ l.id < nextReq'
             /\ l.go => NoneNavigated'
             /\ \A i \in icp' : i.id = l.id => NoneNavigated'
      BY <1>1, <1>4, <2>1, <2>5 DEF OrderOK
    <3>4. \A i \in icp' : i.id < nextReq'
      BY <1>1, <1>4, <2>1 DEF OrderOK
    <3> QED BY <2>1, <3>1, <3>2, <3>3, <3>4 DEF OrderOK
  <2>7. DocumentOK'
    BY <1>1, <1>4, <2>1, <2>4 DEF DocumentOK
  <2>8. OutcomeIsTold'
    BY <1>1, <1>2, <2>1, NavFrames
  <2>9. TypeOK'
    BY <1>1, <2>1, <2>3, <2>4 DEF NavigationInv, TypeOK
  <2> QED BY <1>3, <2>6, <2>7, <2>8, <2>9 DEF NavigationInv
<1> QED BY <1>5, <1>6, <1>7 DEF Chrome

(* Any document state is no older than before.                             *)
LEMMA DocumentFrame ==
    ASSUME NavigationInv, AgentKeeps, UNCHANGED <<page, moves>>,
           obs'.loader \in Nat, obs.loader <= obs'.loader, obs'.loader <= page.loader
    PROVE  DocumentOK'
<1>1. /\ agent.prev.loader \in Nat /\ obs.loader \in Nat /\ DocumentOK
  BY DEF NavigationInv, TypeOK
<1> QED BY <1>1 DEF DocumentOK, AgentKeeps, Departed

(* starting_request *)
LEMMA StartingKeeps ==
    ASSUME NavigationInv, Starting
    PROVE  /\ obs' \in [loader : Nat, url : Dests, rev : Nat, complete : BOOLEAN,
                        awaiting : BOOLEAN]
           /\ obs'.loader = obs.loader /\ obs'.url = obs.url
           /\ obs'.loader \in Nat /\ obs.loader <= obs'.loader /\ obs'.loader <= page.loader
<1>1. /\ obs \in [loader : Nat, url : Dests, rev : Nat, complete : BOOLEAN, awaiting : BOOLEAN]
      /\ obs.loader <= page.loader
  BY DEF NavigationInv, TypeOK, DocumentOK
<1>2. obs' \in [loader : Nat, url : Dests, rev : Nat, complete : BOOLEAN, awaiting : BOOLEAN]
  <2>1. obs.rev \in Nat /\ obs.rev + 1 \in Nat
    BY <1>1
  <2>2. [obs EXCEPT !.complete = FALSE] \in
           [loader : Nat, url : Dests, rev : Nat, complete : BOOLEAN, awaiting : BOOLEAN]
    BY <1>1
  <2>3. [[obs EXCEPT !.complete = FALSE] EXCEPT !.awaiting = TRUE] \in
           [loader : Nat, url : Dests, rev : Nat, complete : BOOLEAN, awaiting : BOOLEAN]
    BY <2>2
  <2> QED BY <2>1, <2>3 DEF Starting
<1>3. obs'.loader = obs.loader /\ obs'.url = obs.url
  BY <1>1 DEF Starting
<1>4. obs.loader \in Nat
  BY <1>1
<1> QED BY <1>1, <1>2, <1>3, <1>4

(* The event thread takes the next event.                                  *)
LEMMA EventTaken ==
    ASSUME NavigationInv, icp = {}, queue # <<>>, queue' = Tail(queue),
           UNCHANGED <<page, nextReq, icp>>, load' \subseteq load
    PROVE  /\ queue' \in Seq(Events) /\ Head(queue) \in Events /\ OrderOK'
           /\ Head(queue) = queue[1] /\ 1 \in 1 .. Len(queue)
           /\ NoneNavigated => NoneNavigated'
<1>1. /\ queue \in Seq(Events) /\ Len(queue) \in Nat /\ nextReq \in Nat /\ OrderOK
  BY DEF NavigationInv, TypeOK
<1>2. /\ queue' \in Seq(Events) /\ Head(queue) \in Events /\ Head(queue) = queue[1]
      /\ 1 \in 1 .. Len(queue) /\ Len(queue') = Len(queue) - 1
  BY <1>1
<1>3. \A k \in 1 .. Len(queue') : k + 1 \in 1 .. Len(queue) /\ queue'[k] = queue[k + 1]
  BY <1>1, <1>2
<1>4. NoneNavigated => NoneNavigated'
  BY <1>3 DEF NoneNavigated
<1>5. \A k \in 1 .. Len(queue') :
         /\ queue'[k].kind = "paused" => queue'[k].id < nextReq'
         /\ queue'[k].kind = "navigated" => queue'[k].loader = page'.loader
  BY <1>1, <1>3 DEF OrderOK
<1>6. ASSUME NEW l \in load', NEW j \in 1 .. Len(queue'), NEW k \in 1 .. Len(queue'),
             queue'[k].kind = "paused", queue'[k].id = l.id, k < j
      PROVE  queue'[j].kind # "navigated"
  <2>1. k + 1 < j + 1
    BY <1>6, <1>2
  <2> QED BY <1>1, <1>3, <1>6, <2>1 DEF OrderOK
<1>7. \A l \in load' : l.id < nextReq' /\ (l.go => NoneNavigated')
  BY <1>1, <1>4 DEF OrderOK
<1> QED BY <1>2, <1>4, <1>5, <1>6, <1>7 DEF OrderOK

(* Page events.                                                            *)
LEMMA PageEventKeeps ==
    ASSUME NavigationInv, HandleNavigated \/ HandleIdle \/ HandleStray
    PROVE  NavigationInv'
<1>1. /\ UNCHANGED <<page, moves, load, nextReq, attempt, icp, pending, granted, epoch,
                     nextPend, agent, clock, ops, atts, sent, given, told>>
      /\ icp = {}
  BY DEF HandleNavigated, HandleIdle, HandleStray, NextEvent, chromeVars, approvalVars,
     ghostVars
<1>2. AgentKeeps
  BY <1>1, AgentStays
<1>3. AdmissionOK' /\ CreditOK'
  BY <1>1, <1>2, NavFrames
<1>4. /\ page.loader \in Nat /\ obs.loader \in Nat /\ obs.loader <= page.loader
      /\ obs \in [loader : Nat, url : Dests, rev : Nat, complete : BOOLEAN, awaiting : BOOLEAN]
  BY DEF NavigationInv, TypeOK, DocumentOK
<1>5. CASE HandleStray
  <2>1. Reject(FALSE) /\ UNCHANGED <<queue, obs>>
    BY <1>5 DEF HandleStray
  <2>2. /\ OutcomeIsTold' /\ CallOK'
        /\ rejection' \subseteq [human : BOOLEAN, stamp : Nat] /\ stamps' \in Nat
    BY <1>1, <2>1, RejectKeeps
  <2>3. OrderOK' /\ DocumentOK'
    BY <1>1, <1>2, <2>1, NavFrames
  <2>4. TypeOK'
    BY <1>1, <2>1, <2>2 DEF NavigationInv, TypeOK
  <2> QED BY <1>3, <2>2, <2>3, <2>4 DEF NavigationInv
<1>6. CASE HandleNavigated \/ HandleIdle
  <2>1. queue # <<>> /\ queue' = Tail(queue) /\ UNCHANGED <<rejection, stamps>>
    BY <1>6 DEF HandleNavigated, HandleIdle, NextEvent, ghostVars
  <2>2. /\ queue' \in Seq(Events) /\ Head(queue) \in Events /\ OrderOK'
        /\ Head(queue) = queue[1] /\ 1 \in 1 .. Len(queue)
    BY <1>1, <2>1, EventTaken
  <2>3. CallOK' /\ OutcomeIsTold'
    BY <1>1, <1>2, <2>1, NavFrames
  <2>4. /\ obs' \in [loader : Nat, url : Dests, rev : Nat, complete : BOOLEAN,
                     awaiting : BOOLEAN]
        /\ obs.loader <= obs'.loader /\ obs'.loader <= page.loader
    <3>1. CASE HandleNavigated
      <4>1. Head(queue).kind = "navigated" /\ RecordFrame(Head(queue).loader, Head(queue).url)
        BY <3>1 DEF HandleNavigated, NextEvent
      <4>2. Head(queue).loader = page.loader /\ Head(queue).url \in Dests
        BY <2>2, <4>1 DEF NavigationInv, OrderOK, Events
      <4>3. RecordFrame(page.loader, Head(queue).url)
        BY <4>1, <4>2
      <4> QED BY <1>4, <4>2, <4>3, FrameRecorded
    <3>2. CASE HandleIdle
      <4>1. obs' = obs \/ obs' = [obs EXCEPT !.complete = TRUE]
        BY <3>2 DEF HandleIdle
      <4>2. obs' \in [loader : Nat, url : Dests, rev : Nat, complete : BOOLEAN,
                      awaiting : BOOLEAN]
        BY <1>4, <4>1
      <4>3. obs'.loader = obs.loader
        BY <1>4, <4>1
      <4> QED BY <1>4, <4>2, <4>3
    <3> QED BY <1>6, <3>1, <3>2
  <2>5. DocumentOK'
    <3>1. obs'.loader \in Nat
      BY <2>4
    <3> QED BY <1>1, <1>2, <2>4, <3>1, DocumentFrame
  <2>6. TypeOK'
    BY <1>1, <2>1, <2>2, <2>4 DEF NavigationInv, TypeOK
  <2> QED BY <1>3, <2>2, <2>3, <2>5, <2>6 DEF NavigationInv
<1> QED BY <1>5, <1>6

(* The attempt of a paused request is the recorded one, or a new one with  *)
(* nothing let through.                                                    *)
LEMMA AttemptFound ==
    ASSUME NavigationInv, NEW e \in Events, e.kind = "paused"
    PROVE  /\ AttemptFor(e) \in Attempts
           /\ AttemptFor(e).evaluated \subseteq Admitted
           /\ \/ AttemptFor(e) \in attempt /\ AttemptFor(e).no <= atts
              \/ AttemptFor(e).evaluated = {} /\ AttemptFor(e).no = atts + 1
<1>1. /\ attempt \subseteq Attempts /\ atts \in Nat /\ e.url \in Dests
      /\ \A a \in attempt : a.evaluated \subseteq Admitted /\ a.no <= atts
  BY DEF NavigationInv, TypeOK, AdmissionOK, CreditOK, Events
<1>2. CASE \E a \in attempt : a.explicit \/ e.parent \in a.requests
  <2>1. AttemptFor(e) \in attempt
    BY <1>2 DEF AttemptFor
  <2> QED BY <1>1, <2>1
<1>3. CASE ~ \E a \in attempt : a.explicit \/ e.parent \in a.requests
  <2>1. AttemptFor(e) = [orig |-> e.url, explicit |-> FALSE, source |-> {}, seen |-> FALSE,
                         requests |-> {}, evaluated |-> {}, no |-> atts + 1]
    BY <1>3 DEF AttemptFor
  <2> QED BY <1>1, <2>1 DEF Attempts
<1> QED BY <1>2, <1>3

(* The signature of an approval names the destination.                     *)
LEMMA SignatureNames ==
    ASSUME NEW a \in Attempts, NEW d \in Dests
    PROVE  /\ Signature(a, d) \in Signatures /\ Signature(a, d)[2] = d
           /\ <<"direct", d>> \in Signatures /\ <<"direct", d>>[2] = d
<1>1. a.orig \in Dests
  BY DEF Attempts
<1>2. <<"direct", d>> \in Signatures /\ <<a.orig, d>> \in Signatures
  BY <1>1 DEF Signatures
<1>3. <<"direct", d>>[2] = d /\ <<a.orig, d>>[2] = d
  OBVIOUS
<1> QED BY <1>2, <1>3 DEF Signature

(* A paused request is rejected, sent on, or handed to the evaluation.     *)
LEMMA InterceptStartKeeps ==
    ASSUME NavigationInv, InterceptStart
    PROVE  NavigationInv'
<1>1. /\ UNCHANGED <<page, moves, nextReq, pending, granted, epoch, nextPend, agent, clock,
                     ops, given, told>>
      /\ icp = {} /\ queue # <<>> /\ queue' = Tail(queue) /\ Starting
  BY DEF InterceptStart, NextEvent, approvalVars
<1>2. AgentKeeps
  BY <1>1, AgentStays
<1> PICK e : e = Head(queue)
  OBVIOUS
<1> PICK a : a = AttemptFor(e)
  OBVIOUS
<1>3. e.kind = "paused"
  BY DEF InterceptStart, NextEvent
<1>4. /\ obs' \in [loader : Nat, url : Dests, rev : Nat, complete : BOOLEAN, awaiting : BOOLEAN]
      /\ obs'.loader \in Nat /\ obs.loader <= obs'.loader /\ obs'.loader <= page.loader
  BY <1>1, StartingKeeps
<1>5. DocumentOK'
  BY <1>1, <1>2, <1>4, DocumentFrame
<1>6. /\ load \subseteq [id : Nat, url : Dests, go : BOOLEAN] /\ queue \in Seq(Events)
      /\ sent \subseteq Nat \X Dests /\ atts \in Nat /\ obs.url \in Dests
      /\ attempt \subseteq Attempts /\ OrderOK /\ AdmissionOK /\ Len(queue) \in Nat
  <2>1. TypeOK /\ OrderOK /\ AdmissionOK
    BY DEF NavigationInv
  <2>2. /\ load \subseteq [id : Nat, url : Dests, go : BOOLEAN] /\ queue \in Seq(Events)
        /\ sent \subseteq Nat \X Dests /\ atts \in Nat /\ attempt \subseteq Attempts
    BY <2>1 DEF TypeOK
  <2>3. obs.url \in Dests
    BY <2>1 DEF TypeOK
  <2>4. Len(queue) \in Nat
    BY <2>2
  <2> QED BY <2>1, <2>2, <2>3, <2>4
<1>7. /\ queue' \in Seq(Events) /\ e \in Events /\ e = queue[1] /\ 1 \in 1 .. Len(queue)
      /\ Len(queue') = Len(queue) - 1
      /\ \A k \in 1 .. Len(queue') : k + 1 \in 1 .. Len(queue) /\ queue'[k] = queue[k + 1]
  BY <1>1, <1>6
<1>8. e.url \in Dests /\ e.id \in Nat /\ e.id < nextReq
  BY <1>3, <1>6, <1>7 DEF Events, OrderOK
<1>9. /\ a \in Attempts /\ a.evaluated \subseteq Admitted
      /\ (a \in attempt /\ a.no <= atts) \/ (a.evaluated = {} /\ a.no = atts + 1)
  BY <1>3, <1>7, AttemptFound
<1>10. CASE e.url \notin Public
  <2>1. Reject(FALSE) /\ Fail(e.id) /\ UNCHANGED <<attempt, icp, sent, atts>>
    BY <1>10 DEF InterceptStart
  <2>2. /\ OutcomeIsTold' /\ CallOK'
        /\ rejection' \subseteq [human : BOOLEAN, stamp : Nat] /\ stamps' \in Nat
    BY <1>1, <2>1, RejectKeeps
  <2>3. load' \subseteq load
    BY <2>1 DEF Fail
  <2>4. OrderOK'
    BY <1>1, <2>1, <2>3, EventTaken
  <2>5. AdmissionOK' /\ CreditOK'
    BY <1>1, <1>2, <2>1, NavFrames
  <2>6. TypeOK'
    BY <1>1, <1>4, <1>7, <2>1, <2>2, <2>3 DEF NavigationInv, TypeOK
  <2> QED BY <1>5, <2>2, <2>4, <2>5, <2>6 DEF NavigationInv
<1>11. CASE e.url \in Public
  <2> PICK b : b = [a EXCEPT !.seen = TRUE, !.requests = a.requests \cup {e.id}]
    OBVIOUS
  <2>1. /\ attempt' = {b} /\ UNCHANGED <<rejection, stamps>>
        /\ atts' = IF a.no > atts THEN a.no ELSE atts
    BY <1>11 DEF InterceptStart
  <2>2. b \in Attempts /\ b.no = a.no /\ b.evaluated = a.evaluated
    BY <1>8, <1>9 DEF Attempts
  <2>3. atts' \in Nat /\ atts <= atts' /\ a.no <= atts' /\ a.no \in Nat
    BY <1>6, <1>9, <2>1 DEF Attempts
  <2>4. CallOK' /\ OutcomeIsTold'
    BY <1>1, <1>2, <2>1, NavFrames
  <2>5. /\ \A k \in 1 .. Len(queue') :
             /\ queue'[k].kind = "paused" => queue'[k].id < nextReq'
             /\ queue'[k].kind = "navigated" => queue'[k].loader = page'.loader
        /\ NoneNavigated => NoneNavigated'
    BY <1>1, <1>6, <1>7 DEF OrderOK, NoneNavigated
  <2>6. \A l \in load : l.id = e.id => NoneNavigated'
    <3>1. ASSUME NEW l \in load, l.id = e.id, NEW k \in 1 .. Len(queue')
          PROVE  queue'[k].kind # "navigated"
      <4>1. k + 1 \in 1 .. Len(queue) /\ 1 < k + 1 /\ queue'[k] = queue[k + 1]
        BY <1>6, <1>7
      <4> QED BY <1>3, <1>6, <1>7, <3>1, <4>1 DEF OrderOK
    <3> QED BY <3>1 DEF NoneNavigated
  <2>7. ASSUME NEW l \in load, NEW j \in 1 .. Len(queue'), NEW k \in 1 .. Len(queue'),
               queue'[k].kind = "paused", queue'[k].id = l.id, k < j
        PROVE  queue'[j].kind # "navigated"
    <3>1. k + 1 < j + 1
      BY <1>7, <2>7
    <3> QED BY <1>6, <1>7, <2>7, <3>1 DEF OrderOK
  <2>8. \A s \in sent : s[1] <= atts'
    <3>1. ASSUME NEW s \in sent PROVE s[1] <= atts'
      <4>1. s[1] \in Nat /\ s[1] <= atts
        BY <1>6 DEF NavigationInv, CreditOK
      <4> QED BY <1>6, <2>3, <4>1
    <3> QED BY <3>1
  <2>9. CASE e.url \in a.evaluated
    <3>1. Continue(e.id, a.no, e.url) /\ UNCHANGED icp
      BY <1>11, <2>9 DEF InterceptStart
    <3>2. a \in attempt /\ e.url \in Admitted
      BY <1>9, <2>9
    <3>3. sent' = sent \cup {<<a.no, e.url>>} /\ icp' = {}
      BY <1>1, <3>1 DEF Continue
    <3>4. \A l \in load' : \E m \in load :
             l.id = m.id /\ l.url = m.url /\ l.go \in BOOLEAN
             /\ (l.go => m.go \/ m.id = e.id)
      BY <1>6, <3>1 DEF Continue
    <3>5. load' \subseteq [id : Nat, url : Dests, go : BOOLEAN]
      BY <1>6, <3>1 DEF Continue
    <3>6. OrderOK'
      <4>1. \A l \in load' :
               /\ l.id < nextReq'
               /\ l.go => NoneNavigated'
        BY <1>1, <1>6, <2>5, <2>6, <3>4 DEF OrderOK
      <4>2. \A l \in load' : \A j, k \in 1 .. Len(queue') :
               queue'[k].kind = "paused" /\ queue'[k].id = l.id /\ k < j =>
                   queue'[j].kind # "navigated"
        BY <2>7, <3>4
      <4> QED BY <2>5, <3>3, <4>1, <4>2 DEF OrderOK
    <3>7. AdmissionOK'
      <4>1. \A s \in sent' : s[2] \in Admitted
        BY <1>6, <3>2, <3>3 DEF AdmissionOK
      <4>2. \A x \in attempt' : x.evaluated \subseteq Admitted
        BY <1>9, <2>1, <2>2
      <4> QED BY <1>1, <1>6, <3>3, <4>1, <4>2 DEF AdmissionOK
    <3>8. CreditOK'
      <4>1. \A s \in sent' : s[1] <= atts'
        BY <2>3, <2>8, <3>3
      <4>2. ASSUME NEW d \in Dests PROVE Passes(d)' \subseteq Passes(d)
        <5>1. \A s \in sent' : s[2] = d => s \in Passes(d)
          BY <2>9, <3>2, <3>3 DEF Passes
        <5>2. \A x \in attempt' : d \in x.evaluated => <<x.no, d>> \in Passes(d)
          BY <2>1, <2>2, <3>2 DEF Passes
        <5> QED BY <3>3, <5>1, <5>2 DEF Passes
      <4>3. \A x \in attempt' : x.no <= atts'
        BY <2>1, <2>2, <2>3
      <4> QED BY <1>1, <1>2, <2>3, <3>3, <4>1, <4>2, <4>3, CreditShrinks
    <3>9. sent' \subseteq Nat \X Dests
      BY <1>6, <1>8, <2>3, <3>3
    <3>10. TypeOK'
      BY <1>1, <1>4, <1>7, <2>1, <2>2, <2>3, <3>1, <3>5, <3>9 DEF NavigationInv, TypeOK
    <3> QED BY <1>5, <2>4, <3>6, <3>7, <3>8, <3>10 DEF NavigationInv
  <2>10. CASE e.url \notin a.evaluated
    <3> PICK src : src = (IF a.source = {} THEN obs.url ELSE CHOOSE u \in a.source : TRUE)
      OBVIOUS
    <3> PICK i : i = [id |-> e.id, url |-> e.url, att |-> a.no, sig |-> Signature(a, e.url),
                      source |-> src, verdict |-> "none"]
      OBVIOUS
    <3>1. icp' = {i} /\ UNCHANGED <<load, sent>>
      BY <1>11, <2>10 DEF InterceptStart
    <3>2. src \in Dests
      <4>1. a.source \subseteq Dests
        BY <1>9 DEF Attempts
      <4> QED BY <1>6, <4>1
    <3>3. Signature(a, e.url) \in Signatures /\ Signature(a, e.url)[2] = e.url
      BY <1>8, <1>9, SignatureNames
    <3>4. i \in Intercepts
      BY <1>8, <2>3, <3>2, <3>3 DEF Intercepts
    <3>5. OrderOK'
      <4>1. \A l \in load' :
               /\ l.id < nextReq'
               /\ l.go => NoneNavigated'
               /\ \A x \in icp' : x.id = l.id => NoneNavigated'
        BY <1>1, <1>6, <2>5, <2>6, <3>1 DEF OrderOK
      <4>2. \A x \in icp' : x.id < nextReq'
        BY <1>1, <1>8, <3>1
      <4> QED BY <2>5, <2>7, <3>1, <4>1, <4>2 DEF OrderOK
    <3>6. AdmissionOK'
      <4>1. \A x \in attempt' : x.evaluated \subseteq Admitted
        BY <1>9, <2>1, <2>2
      <4>2. \A x \in icp' : x.url \in Public /\ x.sig[2] = x.url /\ x.verdict # "ok"
        BY <1>11, <3>1, <3>3
      <4> QED BY <1>1, <1>6, <3>1, <4>1, <4>2 DEF AdmissionOK
    <3>7. CreditOK'
      <4>1. \A s \in sent' : s[1] <= atts'
        BY <2>8, <3>1
      <4>2. ASSUME NEW d \in Dests PROVE Passes(d)' \subseteq Passes(d)
        <5>1. {x \in icp' : x.url = d /\ x.verdict = "ok"} = {}
          BY <3>1
        <5>2. \A x \in attempt' : d \in x.evaluated => a \in attempt /\ d \in a.evaluated /\ x.no = a.no
          BY <1>9, <2>1, <2>2
        <5> QED BY <3>1, <5>1, <5>2 DEF Passes
      <4>3. \A x \in attempt' : x.no <= atts'
        BY <2>1, <2>2, <2>3
      <4>4. \A x \in icp' : x.att <= atts' /\ \A y \in attempt' : x.id \in y.requests => y.no = x.att
        BY <2>1, <2>2, <2>3, <3>1
      <4> QED BY <1>1, <1>2, <2>3, <4>1, <4>2, <4>3, <4>4, CreditShrinks
    <3>8. TypeOK'
      BY <1>1, <1>4, <1>7, <2>1, <2>2, <2>3, <3>1, <3>4 DEF NavigationInv, TypeOK
    <3> QED BY <1>5, <2>4, <3>5, <3>6, <3>7, <3>8 DEF NavigationInv
  <2> QED BY <2>9, <2>10
<1> QED BY <1>10, <1>11

(* What an evaluation finds: a destination let through is neither blocked  *)
(* nor vetoed, and one that needs an approval of a single action uses one  *)
(* up.                                                                     *)
LEMMA EvaluationOutcome ==
    ASSUME NEW d \in Dests, NEW sig, NEW url, NEW clear \in BOOLEAN,
           NEW o \in Evaluations(d, sig, url, clear)
    PROVE  /\ o.verdict \in {"ok", "blocked", "ask"}
           /\ o.pending \subseteq pending /\ o.granted \subseteq granted
           /\ o.verdict = "ok" => d \notin Vetoed /\ Verdicts[d] # "block"
           /\ o.verdict = "ok" /\ Verdicts[d] = "require" /\ Scopes[d] = "action_only" =>
                \E g \in granted : g.sig = sig /\ g \notin o.granted
<1> PICK keep : keep = {g \in granted : GrantValid(g, url)}
  OBVIOUS
<1>1. keep \subseteq granted /\ Usable(d, sig, url) \subseteq granted
  BY DEF Usable
<1>2. Verdicts[d] \in {"allow", "block", "require"} /\ Scopes[d] \in ScopeNames
  BY NavigationAssumption DEF ScopeNames
<1>3. Plugins(d) \in {"ok", "blocked"} /\ (Plugins(d) = "ok" => d \notin Vetoed)
  BY DEF Plugins
<1>4. CASE Verdicts[d] = "allow"
  <2>1. o = [verdict |-> Plugins(d), pending |-> pending, granted |-> granted]
    BY <1>4 DEF Evaluations
  <2> QED BY <1>3, <1>4, <2>1
<1>5. CASE Verdicts[d] = "block"
  <2>1. o = [verdict |-> "blocked", granted |-> granted,
             pending |-> IF clear THEN {} ELSE pending]
    BY <1>5 DEF Evaluations
  <2> QED BY <1>5, <2>1
<1>6. CASE Verdicts[d] = "require" /\ Usable(d, sig, url) # {}
  <2>1. PICK g \in Usable(d, sig, url) :
           o = [verdict |-> Plugins(d), pending |-> pending,
                granted |-> IF Scopes[d] = "action_only" THEN keep \ {g} ELSE keep]
    BY <1>6 DEF Evaluations
  <2>2. g \in granted /\ g.sig = sig
    BY DEF Usable
  <2>3. o.verdict = Plugins(d) /\ o.pending = pending
        /\ o.granted = IF Scopes[d] = "action_only" THEN keep \ {g} ELSE keep
    BY <2>1
  <2> QED BY <1>1, <1>3, <1>6, <2>2, <2>3
<1>7. CASE Verdicts[d] = "require" /\ Usable(d, sig, url) = {}
  <2>1. o = [verdict |-> "ask", granted |-> keep, pending |-> pending]
    BY <1>7 DEF Evaluations
  <2> QED BY <1>1, <1>7, <2>1
<1> QED BY <1>2, <1>4, <1>5, <1>6, <1>7

(* The evaluation of a paused request.                                     *)
LEMMA InterceptEvaluateKeeps ==
    ASSUME NavigationInv, InterceptEvaluate
    PROVE  NavigationInv'
<1> PICK i \in icp :
      /\ i.verdict = "none"
      /\ \E o \in Evaluations(i.url, i.sig, i.source, TRUE) :
           Evaluate(o) /\ icp' = {[i EXCEPT !.verdict = o.verdict]}
  BY DEF InterceptEvaluate
<1>1. PICK o \in Evaluations(i.url, i.sig, i.source, TRUE) :
         /\ pending' = o.pending /\ granted' = o.granted
         /\ icp' = {[i EXCEPT !.verdict = o.verdict]}
         /\ UNCHANGED <<epoch, nextPend>>
  BY DEF Evaluate
<1>2. UNCHANGED <<page, moves, load, nextReq, queue, obs, attempt, rejection, agent, clock,
                  ops, atts, sent, given, stamps, told>>
  BY DEF InterceptEvaluate, chromeVars, ghostVars
<1>3. AgentKeeps
  BY <1>2, AgentStays
<1>4. DocumentOK' /\ CallOK' /\ OutcomeIsTold'
  BY <1>2, <1>3, NavFrames
<1> PICK j : j = [i EXCEPT !.verdict = o.verdict]
  OBVIOUS
<1>5. icp \subseteq Intercepts /\ AdmissionOK /\ CreditOK /\ OrderOK /\ i.url \in Dests
  BY DEF NavigationInv, TypeOK, Intercepts
<1>6. /\ o.verdict \in {"ok", "blocked", "ask"}
      /\ o.pending \subseteq pending /\ o.granted \subseteq granted
      /\ o.verdict = "ok" => i.url \notin Vetoed /\ Verdicts[i.url] # "block"
      /\ o.verdict = "ok" /\ Verdicts[i.url] = "require" /\ Scopes[i.url] = "action_only" =>
           \E g \in granted : g.sig = i.sig /\ g \notin o.granted
  <2>1. TRUE \in BOOLEAN
    OBVIOUS
  <2> QED BY <1>1, <1>5, <2>1, EvaluationOutcome
<1>7. /\ j \in Intercepts /\ j.id = i.id /\ j.url = i.url /\ j.att = i.att
      /\ j.sig = i.sig /\ j.verdict = o.verdict
  BY <1>5, <1>6 DEF Intercepts
<1>8. icp' = {j}
  BY <1>1
<1>9. OrderOK'
  BY <1>2, <1>5, <1>7, <1>8 DEF OrderOK, NoneNavigated
<1>10. AdmissionOK'
  <2>1. /\ j.url \in Public /\ j.sig[2] = j.url
        /\ j.verdict = "ok" => j.url \in Admitted
    BY <1>5, <1>6, <1>7 DEF AdmissionOK, Admitted
  <2> QED BY <1>1, <1>2, <1>5, <1>6, <1>8, <2>1 DEF AdmissionOK
<1>11. CreditOK'
  <2>1. IsFiniteSet(granted')
    BY <1>1, <1>5, <1>6, FS_Subset DEF CreditOK
  <2>2. given' \in [Dests -> Nat]
    BY <1>2 DEF NavigationInv, TypeOK
  <2>3. /\ \A s \in sent' : s[1] <= atts'
        /\ \A a \in attempt' : a.no <= atts'
        /\ \A x \in icp' : /\ x.att <= atts'
                           /\ \A a \in attempt' : x.id \in a.requests => a.no = x.att
    BY <1>2, <1>5, <1>7, <1>8 DEF CreditOK
  <2>4. ASSUME NEW d \in Dests, Verdicts[d] = "require", Scopes[d] = "action_only"
        PROVE  \E p, c \in {0, 1} :
                   /\ Passes(d)' \subseteq Passes(d) \/ (p = 1 /\ \E x : Passes(d)' \subseteq Passes(d) \cup {x})
                   /\ \/ Capabilities(d)' \subseteq Capabilities(d) /\ c = 0
                      \/ /\ c = 1
                         /\ \E x \in Capabilities(d) : Capabilities(d)' \subseteq Capabilities(d) \ {x}
                   /\ p + OnItsWay(d)' <= c + OnItsWay(d)
                   /\ given'[d] = given[d]
    <3>1. OnItsWay(d)' = OnItsWay(d) /\ given'[d] = given[d] /\ OnItsWay(d) \in Nat
      BY <1>2 DEF OnItsWay
    <3>2. Capabilities(d)' \subseteq Capabilities(d)
      BY <1>1, <1>6 DEF Capabilities
    <3>3. CASE o.verdict = "ok" /\ i.url = d
      <4>1. PICK g \in granted : g.sig = i.sig /\ g \notin granted'
        BY <1>1, <1>6, <2>4, <3>3
      <4>2. g \in Capabilities(d)
        BY <1>5, <3>3, <4>1 DEF AdmissionOK, Capabilities
      <4>3. Capabilities(d)' \subseteq Capabilities(d) \ {g}
        BY <3>2, <4>1 DEF Capabilities
      <4>4. Passes(d)' \subseteq Passes(d) \cup {<<j.att, d>>}
        BY <1>2, <1>8 DEF Passes
      <4>5. 1 + OnItsWay(d)' <= 1 + OnItsWay(d)
        BY <3>1
      <4> QED BY <3>1, <4>2, <4>3, <4>4, <4>5
    <3>4. CASE ~ (o.verdict = "ok" /\ i.url = d)
      <4>1. Passes(d)' \subseteq Passes(d)
        BY <1>2, <1>7, <1>8, <3>4 DEF Passes
      <4>2. 0 + OnItsWay(d)' <= 0 + OnItsWay(d)
        BY <3>1
      <4> QED BY <3>1, <3>2, <4>1, <4>2
    <3> QED BY <3>3, <3>4
  <2> QED BY <2>1, <2>2, <2>3, <2>4, CreditStep
<1>12. TypeOK'
  BY <1>1, <1>2, <1>6, <1>7, <1>8 DEF NavigationInv, TypeOK
<1> QED BY <1>4, <1>9, <1>10, <1>11, <1>12 DEF NavigationInv

(* replace_pending *)
LEMMA PublishKeeps ==
    ASSUME NavigationInv, NEW d \in Dests, NEW sig \in Signatures, sig[2] = d, Publish(d, sig)
    PROVE  /\ pending' \subseteq [id : Nat, sig : Signatures, to : Dests, scope : ScopeNames]
           /\ \A p \in pending' : p.sig[2] = p.to
           /\ nextPend' \in Nat /\ UNCHANGED <<granted, epoch>>
<1>1. nextPend \in Nat /\ Scopes[d] \in ScopeNames
  BY NavigationAssumption DEF NavigationInv, TypeOK, ScopeNames
<1> QED BY <1>1 DEF Publish

(* The request for an approval is published.                               *)
LEMMA InterceptPublishKeeps ==
    ASSUME NavigationInv, InterceptPublish
    PROVE  NavigationInv'
<1>1. PICK i \in icp : /\ i.verdict = "ask" /\ Publish(i.url, i.sig)
                       /\ icp' = {[i EXCEPT !.verdict = "human"]}
  BY DEF InterceptPublish
<1>2. UNCHANGED <<page, moves, load, nextReq, queue, obs, attempt, rejection, agent, clock,
                  ops, atts, sent, given, stamps, told>>
  BY DEF InterceptPublish, chromeVars, ghostVars
<1>3. AgentKeeps
  BY <1>2, AgentStays
<1>4. DocumentOK' /\ CallOK' /\ OutcomeIsTold'
  BY <1>2, <1>3, NavFrames
<1> PICK j : j = [i EXCEPT !.verdict = "human"]
  OBVIOUS
<1>5. /\ icp \subseteq Intercepts /\ AdmissionOK /\ CreditOK /\ OrderOK
      /\ i.url \in Dests /\ i.sig \in Signatures /\ i.sig[2] = i.url /\ atts \in Nat
  BY DEF NavigationInv, TypeOK, Intercepts, AdmissionOK
<1>6. /\ j \in Intercepts /\ j.id = i.id /\ j.url = i.url /\ j.att = i.att
      /\ j.sig = i.sig /\ j.verdict = "human" /\ icp' = {j}
  BY <1>1, <1>5 DEF Intercepts
<1>7. /\ pending' \subseteq [id : Nat, sig : Signatures, to : Dests, scope : ScopeNames]
      /\ \A p \in pending' : p.sig[2] = p.to
      /\ nextPend' \in Nat /\ UNCHANGED <<granted, epoch>>
  BY <1>1, <1>5, PublishKeeps
<1>8. OrderOK'
  BY <1>2, <1>5, <1>6 DEF OrderOK, NoneNavigated
<1>9. AdmissionOK'
  BY <1>2, <1>5, <1>6, <1>7 DEF AdmissionOK
<1>10. CreditOK'
  <2>1. ASSUME NEW d \in Dests PROVE Passes(d)' \subseteq Passes(d)
    BY <1>2, <1>6 DEF Passes
  <2>2. /\ \A s \in sent' : s[1] <= atts'
        /\ \A a \in attempt' : a.no <= atts'
        /\ \A x \in icp' : /\ x.att <= atts'
                           /\ \A a \in attempt' : x.id \in a.requests => a.no = x.att
    BY <1>2, <1>5, <1>6 DEF CreditOK
  <2>3. atts' \in Nat /\ atts <= atts' /\ granted' \subseteq granted
    BY <1>2, <1>5, <1>7
  <2> QED BY <1>2, <1>3, <2>1, <2>2, <2>3, CreditShrinks
<1>11. TypeOK'
  BY <1>2, <1>6, <1>7 DEF NavigationInv, TypeOK
<1> QED BY <1>4, <1>8, <1>9, <1>10, <1>11 DEF NavigationInv

(* The paused request is answered.                                         *)
LEMMA InterceptFinishKeeps ==
    ASSUME NavigationInv, InterceptFinish
    PROVE  NavigationInv'
<1>1. PICK i \in icp :
         \/ /\ i.verdict = "ok"
            /\ attempt' = {EvaluatedIn(a, i) : a \in attempt}
            /\ Continue(i.id, i.att, i.url)
            /\ UNCHANGED <<rejection, stamps>>
         \/ /\ i.verdict \in {"blocked", "human"}
            /\ Reject(i.verdict = "human")
            /\ Fail(i.id)
            /\ UNCHANGED <<attempt, sent>>
  BY DEF InterceptFinish
<1>2. /\ icp' = {}
      /\ UNCHANGED <<page, moves, nextReq, queue, obs, pending, granted, epoch, nextPend,
                     agent, clock, ops, atts, given, told>>
  BY DEF InterceptFinish, approvalVars
<1>3. AgentKeeps
  BY <1>2, AgentStays
<1>4. DocumentOK'
  BY <1>2, <1>3, NavFrames
<1>5. /\ icp \subseteq Intercepts /\ AdmissionOK /\ CreditOK /\ OrderOK
      /\ i.url \in Dests /\ i.att \in Nat /\ atts \in Nat /\ attempt \subseteq Attempts
      /\ sent \subseteq Nat \X Dests /\ load \subseteq [id : Nat, url : Dests, go : BOOLEAN]
  BY DEF NavigationInv, TypeOK, Intercepts
<1>6. CASE i.verdict = "ok"
  <2>1. /\ attempt' = {EvaluatedIn(a, i) : a \in attempt}
        /\ Continue(i.id, i.att, i.url) /\ UNCHANGED <<rejection, stamps>>
    BY <1>1, <1>6
  <2>2. CallOK' /\ OutcomeIsTold'
    BY <1>2, <1>3, <2>1, NavFrames
  <2>3. i.url \in Admitted /\ sent' = sent \cup {<<i.att, i.url>>}
    BY <1>5, <1>6, <2>1 DEF AdmissionOK, Continue
  <2>4. ASSUME NEW b \in attempt'
        PROVE  \E a \in attempt :
                  /\ b \in Attempts /\ b.no = a.no /\ b.requests = a.requests
                  /\ \/ b.evaluated = a.evaluated
                     \/ b.evaluated = a.evaluated \cup {i.url} /\ i.id \in a.requests
    <3>1. PICK a \in attempt : b = EvaluatedIn(a, i)
      BY <2>1
    <3>2. CASE i.id \in a.requests
      <4>1. b = [a EXCEPT !.evaluated = a.evaluated \cup {i.url}] /\ a \in Attempts
        BY <1>5, <3>1, <3>2 DEF EvaluatedIn
      <4>2. b \in Attempts
        <5>1. a.evaluated \cup {i.url} \in SUBSET Dests
          BY <1>5, <4>1 DEF Attempts
        <5> QED BY <4>1, <5>1 DEF Attempts
      <4>3. b.no = a.no /\ b.requests = a.requests /\ b.evaluated = a.evaluated \cup {i.url}
        BY <4>1 DEF Attempts
      <4> QED BY <3>2, <4>2, <4>3
    <3>3. CASE i.id \notin a.requests
      <4>1. b = a
        BY <3>1, <3>3 DEF EvaluatedIn
      <4> QED BY <1>5, <4>1
    <3> QED BY <3>2, <3>3
  <2>5. \A l \in load' : \E m \in load :
           l.id = m.id /\ l.url = m.url /\ l.go \in BOOLEAN
           /\ (l.go => m.go \/ m.id = i.id)
    BY <1>5, <2>1 DEF Continue
  <2>6. load' \subseteq [id : Nat, url : Dests, go : BOOLEAN]
    BY <1>5, <2>1 DEF Continue
  <2>7. OrderOK'
    <3>1. NoneNavigated' <=> NoneNavigated
      BY <1>2 DEF NoneNavigated
    <3>2. \A l \in load' : l.id < nextReq' /\ (l.go => NoneNavigated')
      BY <1>2, <1>5, <2>5, <3>1 DEF OrderOK
    <3>3. \A l \in load' : \A j, k \in 1 .. Len(queue) :
             queue[k].kind = "paused" /\ queue[k].id = l.id /\ k < j =>
                 queue[j].kind # "navigated"
      BY <1>5, <2>5 DEF OrderOK
    <3> QED BY <1>2, <1>5, <3>2, <3>3 DEF OrderOK
  <2>8. AdmissionOK'
    <3>1. \A s \in sent' : s[2] \in Admitted
      BY <1>5, <2>3 DEF AdmissionOK
    <3>2. \A b \in attempt' : b.evaluated \subseteq Admitted
      BY <1>5, <2>3, <2>4 DEF AdmissionOK
    <3> QED BY <1>2, <1>5, <3>1, <3>2 DEF AdmissionOK
  <2>9. CreditOK'
    <3>1. ASSUME NEW d \in Dests PROVE Passes(d)' \subseteq Passes(d)
      <4>1. \A s \in sent' : s[2] = d => s \in Passes(d)
        BY <1>6, <2>3 DEF Passes
      <4>2. ASSUME NEW b \in attempt', d \in b.evaluated PROVE <<b.no, d>> \in Passes(d)
        <5>1. PICK a \in attempt :
                  /\ b.no = a.no
                  /\ \/ b.evaluated = a.evaluated
                     \/ b.evaluated = a.evaluated \cup {i.url} /\ i.id \in a.requests
          BY <2>4
        <5>2. i.id \in a.requests => a.no = i.att
          BY <1>5 DEF CreditOK
        <5>3. CASE d \in a.evaluated
          BY <5>1, <5>3 DEF Passes
        <5>4. CASE d \notin a.evaluated
          <6>1. d = i.url /\ b.no = i.att
            BY <4>2, <5>1, <5>2, <5>4
          <6> QED BY <1>6, <6>1 DEF Passes
        <5> QED BY <5>3, <5>4
      <4> QED BY <1>2, <4>1, <4>2 DEF Passes
    <3>2. /\ \A s \in sent' : s[1] <= atts'
          /\ \A b \in attempt' : b.no <= atts'
      <4>1. \A s \in sent' : s[1] <= atts
        BY <1>5, <2>3 DEF CreditOK
      <4>2. \A b \in attempt' : b.no <= atts
        BY <1>5, <2>4 DEF CreditOK
      <4> QED BY <1>2, <4>1, <4>2
    <3>3. atts' \in Nat /\ atts <= atts' /\ granted' \subseteq granted
      BY <1>2, <1>5
    <3> QED BY <1>2, <1>3, <3>1, <3>2, <3>3, CreditShrinks
  <2>10. sent' \subseteq Nat \X Dests /\ attempt' \subseteq Attempts
    BY <1>5, <2>3, <2>4
  <2>11. TypeOK'
    BY <1>2, <2>1, <2>6, <2>10 DEF NavigationInv, TypeOK
  <2> QED BY <1>4, <2>2, <2>7, <2>8, <2>9, <2>11 DEF NavigationInv
<1>7. CASE i.verdict # "ok"
  <2>1. PICK human \in BOOLEAN : Reject(human) /\ Fail(i.id) /\ UNCHANGED <<attempt, sent>>
    BY <1>1, <1>7
  <2>2. /\ OutcomeIsTold' /\ CallOK'
        /\ rejection' \subseteq [human : BOOLEAN, stamp : Nat] /\ stamps' \in Nat
    BY <1>2, <2>1, RejectKeeps
  <2>3. load' \subseteq load
    BY <2>1 DEF Fail
  <2>4. OrderOK'
    <3>1. NoneNavigated' <=> NoneNavigated
      BY <1>2 DEF NoneNavigated
    <3> QED BY <1>2, <1>5, <2>3, <3>1 DEF OrderOK
  <2>5. AdmissionOK'
    BY <1>2, <1>5, <2>1 DEF AdmissionOK
  <2>6. CreditOK'
    <3>1. ASSUME NEW d \in Dests PROVE Passes(d)' \subseteq Passes(d)
      BY <1>2, <2>1 DEF Passes
    <3>2. /\ \A s \in sent' : s[1] <= atts'
          /\ \A b \in attempt' : b.no <= atts'
      BY <1>2, <1>5, <2>1 DEF CreditOK
    <3>3. atts' \in Nat /\ atts <= atts' /\ granted' \subseteq granted
      BY <1>2, <1>5
    <3> QED BY <1>2, <1>3, <3>1, <3>2, <3>3, CreditShrinks
  <2>7. TypeOK'
    BY <1>2, <2>1, <2>2, <2>3 DEF NavigationInv, TypeOK
  <2> QED BY <1>4, <2>2, <2>4, <2>5, <2>6, <2>7 DEF NavigationInv
<1> QED BY <1>6, <1>7

(* A step that leaves Chrome, the queue and what is let through alone.     *)
QuietStep ==
    /\ UNCHANGED <<page, moves, load, nextReq, queue, icp, atts, sent, given, stamps>>
    /\ attempt' \subseteq attempt
    /\ granted' \subseteq granted
    /\ pending' \subseteq [id : Nat, sig : Signatures, to : Dests, scope : ScopeNames]
    /\ \A p \in pending' : p.sig[2] = p.to
    /\ epoch' \in Nat /\ nextPend' \in Nat /\ ops' \in Nat
    /\ clock' \in {"primary", "fallback", "expired"}
    /\ obs' = obs \/ RecordFrame(page.loader, page.url)
    /\ UNCHANGED <<rejection, told>> \/ TakeRejection

(* Such a step keeps the invariant.                                         *)
LEMMA QuietKeeps ==
    ASSUME NavigationInv, AgentKeeps, QuietStep
    PROVE  NavigationInv'
<1>1. /\ UNCHANGED <<page, moves, load, nextReq, queue, icp, atts, sent, given, stamps>>
      /\ attempt' \subseteq attempt /\ granted' \subseteq granted
      /\ agent' \in AgentStates
  BY DEF QuietStep, AgentKeeps
<1>2. OrderOK' /\ CallOK'
  BY <1>1, NavFrames
<1>3. /\ obs' \in [loader : Nat, url : Dests, rev : Nat, complete : BOOLEAN, awaiting : BOOLEAN]
      /\ obs'.loader \in Nat /\ obs.loader <= obs'.loader /\ obs'.loader <= page.loader
  <2>1. /\ page.loader \in Nat /\ page.url \in Dests /\ obs.loader <= page.loader
        /\ obs \in [loader : Nat, url : Dests, rev : Nat, complete : BOOLEAN, awaiting : BOOLEAN]
        /\ obs.loader \in Nat
    BY DEF NavigationInv, TypeOK, DocumentOK
  <2>2. CASE obs' = obs
    BY <2>1, <2>2
  <2>3. CASE RecordFrame(page.loader, page.url)
    BY <2>1, <2>3, FrameRecorded
  <2> QED BY <2>2, <2>3 DEF QuietStep
<1>4. DocumentOK'
  BY <1>1, <1>3, DocumentFrame
<1>5. OutcomeIsTold' /\ rejection' \subseteq [human : BOOLEAN, stamp : Nat] /\ told' \in Nat
  <2>1. agent'.result = "ok" => moves > agent'.since
    BY DEF AgentKeeps
  <2>2. CASE TakeRejection
    BY <1>1, <2>1, <2>2, TakeKeeps
  <2>3. CASE UNCHANGED <<rejection, told>>
    BY <1>1, <2>3, NavFrames DEF NavigationInv, TypeOK
  <2> QED BY <2>2, <2>3 DEF QuietStep
<1>6. AdmissionOK'
  BY <1>1 DEF NavigationInv, AdmissionOK, QuietStep, AgentKeeps, Validated
<1>7. CreditOK'
  <2>1. CreditOK /\ atts \in Nat
    BY DEF NavigationInv, TypeOK
  <2>2. ASSUME NEW d \in Dests PROVE Passes(d)' \subseteq Passes(d)
    BY <1>1 DEF Passes
  <2>3. /\ \A s \in sent' : s[1] <= atts'
        /\ \A a \in attempt' : a.no <= atts'
        /\ \A i \in icp' : /\ i.att <= atts'
                           /\ \A a \in attempt' : i.id \in a.requests => a.no = i.att
    BY <1>1, <2>1 DEF CreditOK
  <2>4. atts' \in Nat /\ atts <= atts'
    BY <1>1, <2>1
  <2> QED BY <1>1, <2>2, <2>3, <2>4, CreditShrinks
<1>8. TypeOK'
  <2>1. TypeOK
    BY DEF NavigationInv
  <2>2. /\ attempt' \subseteq Attempts
        /\ granted' \subseteq [id : Nat, sig : Signatures, scope : ScopeNames,
                              epoch : Nat, url : Dests]
    BY <1>1, <2>1 DEF TypeOK
  <2>3. /\ pending' \subseteq [id : Nat, sig : Signatures, to : Dests, scope : ScopeNames]
        /\ epoch' \in Nat /\ nextPend' \in Nat /\ ops' \in Nat
        /\ clock' \in {"primary", "fallback", "expired"}
    BY DEF QuietStep
  <2> QED BY ONLY <1>1, <1>3, <1>5, <2>1, <2>2, <2>3 DEF TypeOK, AgentStates
<1> QED BY <1>2, <1>4, <1>5, <1>6, <1>7, <1>8 DEF NavigationInv

(* The parts of a quiet step that nothing touches.                         *)
LEMMA QuietParts ==
    ASSUME NavigationInv
    PROVE  /\ UNCHANGED pending \/ pending' \subseteq pending =>
                /\ pending' \subseteq [id : Nat, sig : Signatures, to : Dests, scope : ScopeNames]
                /\ \A p \in pending' : p.sig[2] = p.to
           /\ UNCHANGED epoch => epoch' \in Nat
           /\ UNCHANGED nextPend => nextPend' \in Nat
           /\ UNCHANGED ops => ops' \in Nat
           /\ UNCHANGED clock => clock' \in {"primary", "fallback", "expired"}
BY DEF NavigationInv, TypeOK, AdmissionOK

(* Time, the reviewer's refusal and the start of a call.                   *)
LEMMA StartKeeps ==
    ASSUME NavigationInv, ClockTicks \/ Refuse \/ NavigateStart \/ ActStart
    PROVE  NavigationInv'
<1>1. /\ UNCHANGED <<page, moves, load, nextReq, queue, icp, atts, sent, given, stamps,
                     attempt, granted, epoch, nextPend, obs, rejection, told>>
      /\ UNCHANGED pending \/ pending' \subseteq pending
  BY DEF ClockTicks, Refuse, NavigateStart, ActStart, chromeVars, eventVars, approvalVars,
     ghostVars
<1>2. ops \in Nat /\ clock \in {"primary", "fallback", "expired"} /\ stamps \in Nat
      /\ pending \subseteq [id : Nat, sig : Signatures, to : Dests, scope : ScopeNames]
  BY DEF NavigationInv, TypeOK
<1>3. ops' \in Nat /\ clock' \in {"primary", "fallback", "expired"}
  <2>1. CASE ClockTicks \/ Refuse
    BY <1>2, <2>1 DEF ClockTicks, Refuse, ghostVars
  <2>2. CASE NavigateStart \/ ActStart
    <3>1. ops' = ops + 1 /\ (clock' = "primary" \/ clock' = clock)
      BY <2>2 DEF NavigateStart, ActStart
    <3> QED BY <1>2, <3>1
  <2> QED BY <2>1, <2>2
<1>4. QuietStep
  <2>1. /\ pending' \subseteq [id : Nat, sig : Signatures, to : Dests, scope : ScopeNames]
        /\ \A p \in pending' : p.sig[2] = p.to
        /\ epoch' \in Nat /\ nextPend' \in Nat
    BY <1>1, QuietParts
  <2> QED BY <1>1, <1>3, <2>1 DEF QuietStep
<1>5. AgentKeeps
  <2>1. CASE ClockTicks \/ Refuse
    <3>1. UNCHANGED agent
      BY <2>1 DEF ClockTicks, Refuse
    <3> QED BY <3>1, AgentStays
  <2>2. ASSUME NEW op \in {"check", "act_check"}, NEW d \in Dests, NEW n \in Nat,
               agent' = [op |-> op, to |-> d,
                         prev |-> [loader |-> 0, url |-> Home, rev |-> 0],
                         since |-> 0, init |-> n, stamp |-> stamps, result |-> "none"]
        PROVE  AgentKeeps
    <3>2. op \in Ops /\ op \notin Validated /\ op \notin Checked /\ op \notin Departed
      BY DEF Ops, Validated, Checked, Departed
    <3>3. agent' \in AgentStates
      BY <1>2, <2>2, <3>2, NavigationAssumption DEF AgentStates
    <3>4. agent'.op = op /\ agent'.stamp = stamps /\ agent'.result = "none"
      BY <2>2
    <3> QED BY <1>2, <3>2, <3>3, <3>4 DEF AgentKeeps, Validated
  <2>3. CASE NavigateStart
    <3>1. PICK n : n = (IF pending = {} THEN 0 ELSE (CHOOSE p \in pending : TRUE).id)
      OBVIOUS
    <3>2. n \in Nat
      BY <1>2, <3>1
    <3>3. PICK d \in Dests : agent' = [Idle EXCEPT !.op = "check", !.to = d, !.stamp = stamps,
                                          !.init = n]
      BY <2>3, <3>1 DEF NavigateStart
    <3>4. agent' = [op |-> "check", to |-> d,
                    prev |-> [loader |-> 0, url |-> Home, rev |-> 0],
                    since |-> 0, init |-> n, stamp |-> stamps, result |-> "none"]
      BY <3>3 DEF Idle
    <3> QED BY <2>2, <3>2, <3>4
  <2>4. CASE ActStart
    <3>1. agent' = [Idle EXCEPT !.op = "act_check", !.stamp = stamps]
      BY <2>4 DEF ActStart
    <3>2. agent' = [op |-> "act_check", to |-> Home,
                    prev |-> [loader |-> 0, url |-> Home, rev |-> 0],
                    since |-> 0, init |-> 0, stamp |-> stamps, result |-> "none"]
      BY <3>1 DEF Idle
    <3>3. Home \in Dests /\ 0 \in Nat
      BY NavigationAssumption
    <3> QED BY <2>2, <3>2, <3>3
  <2> QED BY <2>1, <2>3, <2>4
<1> QED BY <1>4, <1>5, QuietKeeps

(* An approval is a capability for the destination that was asked for.     *)
LEMMA ApproveKeeps ==
    ASSUME NavigationInv, Approve
    PROVE  NavigationInv'
<1>1. PICK p \in pending :
         /\ granted' = granted \cup {[id |-> p.id, sig |-> p.sig, scope |-> p.scope,
                                      epoch |-> epoch, url |-> obs.url]}
         /\ given' = [given EXCEPT ![p.to] = given[p.to] + 1]
  BY DEF Approve
<1>2. /\ pending' = {}
      /\ UNCHANGED <<page, moves, load, nextReq, queue, obs, attempt, rejection, icp, epoch,
                     nextPend, agent, clock, ops, atts, sent, stamps, told>>
  BY DEF Approve, chromeVars, eventVars
<1>3. AgentKeeps
  BY <1>2, AgentStays
<1>4. OrderOK' /\ DocumentOK' /\ CallOK' /\ OutcomeIsTold'
  BY <1>2, <1>3, NavFrames
<1> PICK g : g = [id |-> p.id, sig |-> p.sig, scope |-> p.scope, epoch |-> epoch,
                  url |-> obs.url]
  OBVIOUS
<1>5. /\ p \in [id : Nat, sig : Signatures, to : Dests, scope : ScopeNames]
      /\ p.sig[2] = p.to /\ epoch \in Nat /\ obs.url \in Dests
      /\ given \in [Dests -> Nat] /\ CreditOK
  BY DEF NavigationInv, TypeOK, AdmissionOK
<1>6. /\ g \in [id : Nat, sig : Signatures, scope : ScopeNames, epoch : Nat, url : Dests]
      /\ g.sig[2] = p.to /\ granted' = granted \cup {g} /\ p.to \in Dests
  BY <1>1, <1>5
<1>7. given' \in [Dests -> Nat] /\ \A d \in Dests : given'[d] = IF d = p.to THEN given[d] + 1 ELSE given[d]
  BY <1>1, <1>5
<1>8. AdmissionOK'
  BY <1>2 DEF NavigationInv, AdmissionOK
<1>9. CreditOK'
  <2>1. ASSUME NEW d \in Dests, Verdicts[d] = "require", Scopes[d] = "action_only"
        PROVE  (Cardinality(Passes(d)) + Cardinality(Capabilities(d)) + OnItsWay(d)
                   <= given[d])'
    <3>1. PICK np, nc : np = Cardinality(Passes(d)') /\ nc = Cardinality(Capabilities(d)')
      OBVIOUS
    <3>2. Cardinality(Passes(d)) \in Nat /\ Cardinality(Capabilities(d)) \in Nat
          /\ given[d] \in Nat
      BY <1>5, Counting
    <3>3. Passes(d)' = Passes(d) /\ OnItsWay(d)' = OnItsWay(d) /\ OnItsWay(d) \in {0, 1}
      BY <1>2 DEF Passes, OnItsWay
    <3>4. np = Cardinality(Passes(d))
      BY <3>1, <3>3
    <3>5. Cardinality(Passes(d)) + Cardinality(Capabilities(d)) + OnItsWay(d) <= given[d]
      BY <1>5, <2>1 DEF CreditOK
    <3>6. /\ nc \in Nat
          /\ nc + given[d] <= Cardinality(Capabilities(d)) + given'[d]
      <4>1. CASE d = p.to
        <5>1. Capabilities(d)' \subseteq Capabilities(d) \cup {g}
          BY <1>6 DEF Capabilities
        <5>2. nc \in Nat /\ nc <= Cardinality(Capabilities(d)) + 1
          BY <3>1, <5>1, Counting
        <5> QED BY <1>7, <3>2, <4>1, <5>2
      <4>2. CASE d # p.to
        <5>1. Capabilities(d)' \subseteq Capabilities(d)
          BY <1>6, <4>2 DEF Capabilities
        <5>2. nc \in Nat /\ nc <= Cardinality(Capabilities(d))
          BY <3>1, <5>1, Counting
        <5> QED BY <1>7, <3>2, <4>2, <5>2
      <4> QED BY <4>1, <4>2
    <3>7. given'[d] \in Nat
      BY <1>7
    <3>8. np + nc + OnItsWay(d)' <= given'[d]
      BY <3>2, <3>3, <3>4, <3>5, <3>6, <3>7
    <3>9. Cardinality(Passes(d))' = np /\ Cardinality(Capabilities(d))' = nc
      BY <3>1
    <3> QED BY <3>8, <3>9
  <2>2. \A d \in Dests : (Verdicts[d] = "require" /\ Scopes[d] = "action_only" =>
             Cardinality(Passes(d)) + Cardinality(Capabilities(d)) + OnItsWay(d)
                 <= given[d])'
    BY <2>1
  <2>3. IsFiniteSet(granted')
    BY <1>5, <1>6, FS_AddElement DEF CreditOK
  <2> QED BY <1>2, <1>5, <2>2, <2>3 DEF CreditOK
<1>10. TypeOK'
  BY <1>2, <1>6, <1>7 DEF NavigationInv, TypeOK
<1> QED BY <1>4, <1>8, <1>9, <1>10 DEF NavigationInv

(* The waiting loop, the end of a navigation and what act does around the  *)
(* action itself.                                                          *)
LEMMA AgentQuietKeeps ==
    ASSUME NavigationInv,
           \/ NavigateWait \/ NavigateFallback \/ NavigateEpoch \/ NavigateClear
           \/ NavigateExpire \/ NavigateFinal \/ ActCheck \/ ActBegin \/ ActFinish
    PROVE  NavigationInv'
<1>1. /\ UNCHANGED <<page, moves, load, nextReq, queue, icp, atts, sent, given, stamps,
                     nextPend, clock, ops>>
      /\ attempt' \subseteq attempt /\ granted' \subseteq granted
      /\ UNCHANGED pending \/ pending' \subseteq pending
      /\ obs' = obs \/ RecordFrame(page.loader, page.url)
      /\ UNCHANGED <<rejection, told>> \/ TakeRejection
  BY DEF NavigateWait, NavigateFallback, NavigateEpoch, NavigateClear, NavigateExpire,
     NavigateFinal, ActCheck, ActBegin, ActFinish, chromeVars, eventVars, approvalVars, ghostVars
<1>2. UNCHANGED epoch \/ epoch' = epoch + 1
  BY DEF NavigationInv, TypeOK, NavigateWait, NavigateFallback, NavigateEpoch, NavigateClear,
     NavigateExpire, NavigateFinal, ActCheck, ActBegin, ActFinish, approvalVars
<1>3. QuietStep
  <2>1. /\ pending' \subseteq [id : Nat, sig : Signatures, to : Dests, scope : ScopeNames]
        /\ \A p \in pending' : p.sig[2] = p.to
        /\ nextPend' \in Nat /\ ops' \in Nat /\ clock' \in {"primary", "fallback", "expired"}
    BY <1>1, QuietParts
  <2>2. epoch' \in Nat
    BY <1>2 DEF NavigationInv, TypeOK
  <2> QED BY <1>1, <2>1, <2>2 DEF QuietStep
<1>4. /\ agent \in AgentStates /\ agent.stamp <= stamps
      /\ agent.result = "ok" => moves > agent.since
      /\ page.loader = moves /\ obs.loader <= page.loader
      /\ page.loader \in Nat /\ obs.loader \in Nat /\ moves \in Nat
      /\ agent.prev.loader \in Nat /\ agent.since \in Nat
      /\ agent.op \in Departed =>
           /\ agent.since = agent.prev.loader /\ agent.prev.loader <= obs.loader
           /\ page.loader = agent.prev.loader => page.url = agent.prev.url
  BY DEF NavigationInv, TypeOK, CallOK, OutcomeIsTold, CompletedBecauseChromeMoved, DocumentOK,
     AgentStates, Departed
<1>5. ASSUME NEW res \in {"ok", "error", "human"}, Finish(res),
             res = "ok" => moves > agent.since
      PROVE  AgentKeeps
  <2>1. /\ agent' \in AgentStates /\ agent'.op = "epoch" /\ agent'.result = res
        /\ agent'.since = agent.since /\ agent'.stamp = agent.stamp
    BY <1>5, AgentGoes
  <2> QED BY <1>4, <1>5, <2>1 DEF AgentKeeps, Validated, Checked, Departed
<1>6. ASSUME NEW op \in {"clear", "expire", "final"}, Go(op)
      PROVE  AgentKeeps
  <2>1. op \in Ops
    BY DEF Ops
  <2>2. /\ agent' \in AgentStates /\ agent'.op = op /\ agent'.since = agent.since
        /\ agent'.stamp = agent.stamp /\ agent'.result = agent.result
    BY <1>6, <2>1, AgentGoes
  <2> QED BY <1>4, <2>2 DEF AgentKeeps, Validated, Checked, Departed
<1>7. ASSUME NEW op \in {"wait", "fallback"}, Go(op), agent.op \in Departed
      PROVE  AgentKeeps
  <2>1. op \in Ops
    BY DEF Ops
  <2>2. /\ agent' \in AgentStates /\ agent'.op = op /\ agent'.since = agent.since
        /\ agent'.prev = agent.prev
        /\ agent'.stamp = agent.stamp /\ agent'.result = agent.result
    BY <1>7, <2>1, AgentGoes
  <2> QED BY <1>4, <1>7, <2>2 DEF AgentKeeps, Validated, Checked
<1>8. ASSUME NEW op \in {"act_begin", "acting"}, Go(op),
             rejection = {} \/ agent.op \in Checked
      PROVE  AgentKeeps
  <2>1. op \in Ops
    BY DEF Ops
  <2>2. /\ agent' \in AgentStates /\ agent'.op = op /\ agent'.since = agent.since
        /\ agent'.stamp = agent.stamp /\ agent'.result = agent.result
    BY <1>8, <2>1, AgentGoes
  <2> QED BY <1>4, <1>8, <2>2 DEF AgentKeeps, Validated, Departed
<1>9. CASE NavigateWait
  <2>1. agent.op \in Departed
    BY <1>9 DEF NavigateWait, At, Departed
  <2>2. CASE \E r \in rejection : Finish(IF r.human THEN "human" ELSE "error")
    <3>1. PICK res \in {"error", "human"} : Finish(res)
      BY <2>2
    <3>2. AgentKeeps
      BY <1>5, <3>1
    <3> QED BY <1>3, <3>2, QuietKeeps
  <2>3. CASE rejection = {} /\ PrimaryComplete /\ Finish("ok")
    <3>1. obs.loader # agent.prev.loader
      BY <2>3 DEF PrimaryComplete
    <3>2. moves > agent.since
      BY <1>4, <2>1, <3>1
    <3>3. AgentKeeps
      BY <1>5, <2>3, <3>2
    <3> QED BY <1>3, <3>3, QuietKeeps
  <2>4. CASE Go("fallback")
    <3>1. AgentKeeps
      BY <1>7, <2>1, <2>4
    <3> QED BY <1>3, <3>1, QuietKeeps
  <2> QED BY <1>9, <2>2, <2>3, <2>4 DEF NavigateWait
<1>10. CASE NavigateFallback
  <2>1. agent.op \in Departed
    BY <1>10 DEF NavigateFallback, At, Departed
  <2>2. CASE Finish("error")
    <3>1. AgentKeeps
      BY <1>5, <2>2
    <3> QED BY <1>3, <3>1, QuietKeeps
  <2>3. CASE RecordFrame(page.loader, page.url) /\ FallbackComplete(obs') /\ Finish("ok")
    <3>1. obs'.loader = page.loader /\ obs'.url = page.url
      <4>1. page.url \in Dests
        BY DEF NavigationInv, TypeOK
      <4> QED BY <1>4, <2>3, <4>1, FrameRecorded
    <3>2. page.loader # agent.prev.loader
      BY <1>4, <2>1, <2>3, <3>1 DEF FallbackComplete
    <3>3. moves > agent.since
      BY <1>4, <2>1, <3>2
    <3>4. AgentKeeps
      BY <1>5, <2>3, <3>3
    <3> QED BY <1>3, <3>4, QuietKeeps
  <2>4. CASE Go("wait")
    <3>1. AgentKeeps
      BY <1>7, <2>1, <2>4
    <3> QED BY <1>3, <3>1, QuietKeeps
  <2> QED BY <1>10, <2>2, <2>3, <2>4 DEF NavigateFallback
<1>11. CASE NavigateEpoch
  <2>1. AgentKeeps
    BY <1>6, <1>11 DEF NavigateEpoch
  <2> QED BY <1>3, <2>1, QuietKeeps
<1>12. CASE NavigateClear
  <2>1. PICK res \in {"none", "ok", "error", "human"} :
           /\ agent' = [agent EXCEPT !.op = "expire", !.result = res]
           /\ res = "ok" => agent.result = "ok"
    <3>1. agent.result \in {"none", "ok", "error", "human"}
      BY <1>4 DEF AgentStates
    <3> QED BY <1>12, <3>1 DEF NavigateClear
  <2>2. /\ agent' \in AgentStates /\ agent'.op = "expire" /\ agent'.since = agent.since
        /\ agent'.stamp = agent.stamp /\ agent'.result = res
    BY <1>4, <2>1 DEF AgentStates, Ops
  <2>3. AgentKeeps
    BY <1>4, <2>1, <2>2 DEF AgentKeeps, Validated, Checked, Departed
  <2> QED BY <1>3, <2>3, QuietKeeps
<1>13. CASE NavigateExpire
  <2>1. Go("final") \/ Return
    BY <1>13 DEF NavigateExpire
  <2>2. AgentKeeps
    BY <1>6, <2>1, AgentGoes
  <2> QED BY <1>3, <2>2, QuietKeeps
<1>14. CASE NavigateFinal \/ ActFinish
  <2>1. Return
    BY <1>14 DEF NavigateFinal, ActFinish
  <2>2. AgentKeeps
    BY <2>1, AgentGoes
  <2> QED BY <1>3, <2>2, QuietKeeps
<1>15. CASE ActCheck
  <2>1. Return \/ (Go("act_begin") /\ rejection = {})
    BY <1>15 DEF ActCheck
  <2>2. AgentKeeps
    BY <1>8, <2>1, AgentGoes
  <2> QED BY <1>3, <2>2, QuietKeeps
<1>16. CASE ActBegin
  <2>1. Go("acting") /\ agent.op \in Checked
    BY <1>16 DEF ActBegin, At, Checked
  <2>2. AgentKeeps
    BY <1>8, <2>1
  <2> QED BY <1>3, <2>2, QuietKeeps
<1> QED BY <1>9, <1>10, <1>11, <1>12, <1>13, <1>14, <1>15, <1>16

(* A navigation reads the document it starts from.                         *)
LEMMA NavigateCheckKeeps ==
    ASSUME NavigationInv, NavigateCheck
    PROVE  NavigationInv'
<1>1. /\ UNCHANGED <<page, moves, load, nextReq, queue, attempt, icp, pending, granted, epoch,
                     nextPend, clock, ops, atts, sent, given, stamps>>
      /\ TakeRejection /\ agent.op = "check"
  BY DEF NavigateCheck, At, chromeVars, approvalVars
<1>2. CASE Return /\ UNCHANGED obs
  <2>1. AgentKeeps
    BY <1>2, AgentGoes
  <2>2. QuietStep
    BY <1>1, <1>2, QuietParts DEF QuietStep
  <2> QED BY <2>1, <2>2, QuietKeeps
<1>3. CASE /\ rejection = {} /\ agent.to \in Public
           /\ RecordFrame(page.loader, page.url)
           /\ agent' = [agent EXCEPT !.op = "evaluate", !.since = moves, !.prev = Document(obs')]
  <2>1. /\ page.loader \in Nat /\ page.url \in Dests /\ page.loader = moves /\ moves \in Nat
        /\ agent \in AgentStates /\ agent.stamp <= stamps /\ agent.result # "ok"
        /\ AdmissionOK /\ CreditOK /\ OrderOK /\ given \in [Dests -> Nat]
    BY <1>1 DEF NavigationInv, TypeOK, DocumentOK, CallOK, AgentStates
  <2>2. /\ obs' \in [loader : Nat, url : Dests, rev : Nat, complete : BOOLEAN,
                     awaiting : BOOLEAN]
        /\ obs'.loader = page.loader /\ obs'.url = page.url
    BY <1>3, <2>1, FrameRecorded
  <2>3. /\ Document(obs') \in [loader : Nat, url : Dests, rev : Nat]
        /\ Document(obs').loader = page.loader /\ Document(obs').url = page.url
    BY <2>2 DEF Document
  <2>4. /\ agent' \in AgentStates /\ agent'.op = "evaluate" /\ agent'.since = moves
        /\ agent'.prev = Document(obs') /\ agent'.to = agent.to
        /\ agent'.stamp = agent.stamp /\ agent'.result = agent.result
    BY <1>3, <2>1, <2>3 DEF AgentStates, Ops
  <2>5. OutcomeIsTold' /\ rejection' = {} /\ told' \in Nat
    BY <1>1, <2>1, <2>4, TakeKeeps
  <2>6. AdmissionOK'
    BY <1>1, <1>3, <2>1, <2>4 DEF AdmissionOK
  <2>7. OrderOK'
    BY <1>1, <2>1 DEF OrderOK, NoneNavigated
  <2>8. CallOK'
    BY <1>1, <2>1, <2>4 DEF CallOK
  <2>9. DocumentOK'
    BY <1>1, <2>1, <2>2, <2>3, <2>4 DEF DocumentOK
  <2>10. CreditOK'
    <3>1. ASSUME NEW d \in Dests, Verdicts[d] = "require", Scopes[d] = "action_only"
          PROVE  \E p, c \in {0, 1} :
                   /\ Passes(d)' \subseteq Passes(d) \/ (p = 1 /\ \E x : Passes(d)' \subseteq Passes(d) \cup {x})
                   /\ \/ Capabilities(d)' \subseteq Capabilities(d) /\ c = 0
                      \/ /\ c = 1
                         /\ \E x \in Capabilities(d) : Capabilities(d)' \subseteq Capabilities(d) \ {x}
                   /\ p + OnItsWay(d)' <= c + OnItsWay(d)
                   /\ given'[d] = given[d]
      <4>1. /\ Passes(d)' \subseteq Passes(d) /\ Capabilities(d)' \subseteq Capabilities(d)
            /\ given'[d] = given[d]
        BY <1>1 DEF Passes, Capabilities
      <4>2. 0 + OnItsWay(d)' <= 0 + OnItsWay(d)
        BY <1>1, <2>4 DEF OnItsWay
      <4> QED BY <4>1, <4>2
    <3>2. /\ IsFiniteSet(granted') /\ given' \in [Dests -> Nat]
          /\ \A s \in sent' : s[1] <= atts'
          /\ \A a \in attempt' : a.no <= atts'
          /\ \A i \in icp' : /\ i.att <= atts'
                             /\ \A a \in attempt' : i.id \in a.requests => a.no = i.att
      BY <1>1, <2>1 DEF CreditOK
    <3> QED BY <3>1, <3>2, CreditStep
  <2>11. TypeOK'
    BY <1>1, <2>2, <2>4, <2>5 DEF NavigationInv, TypeOK, AgentStates
  <2> QED BY <2>5, <2>6, <2>7, <2>8, <2>9, <2>10, <2>11 DEF NavigationInv
<1> QED BY <1>2, <1>3 DEF NavigateCheck

(* A navigation is evaluated under the policy.                             *)
LEMMA NavigateEvaluateKeeps ==
    ASSUME NavigationInv, NavigateEvaluate
    PROVE  NavigationInv'
<1>1. /\ UNCHANGED <<page, moves, load, nextReq, queue, obs, attempt, rejection, icp, clock,
                     ops, atts, sent, given, stamps, told>>
      /\ agent.op = "evaluate"
  BY DEF NavigateEvaluate, At, chromeVars, eventVars, ghostVars
<1>2. /\ agent \in AgentStates /\ agent.to \in Dests /\ agent.to \in Public
      /\ agent.stamp <= stamps /\ (agent.result = "ok" => moves > agent.since)
      /\ AdmissionOK /\ CreditOK /\ given \in [Dests -> Nat]
  BY <1>1 DEF NavigationInv, TypeOK, AdmissionOK, CallOK, OutcomeIsTold,
     CompletedBecauseChromeMoved, AgentStates
<1>3. CASE Return /\ UNCHANGED approvalVars
  <2>1. AgentKeeps
    BY <1>3, AgentGoes
  <2>2. UNCHANGED <<pending, granted, epoch, nextPend>>
    BY <1>3 DEF approvalVars
  <2>3. QuietStep
    BY <1>1, <2>2, QuietParts DEF QuietStep
  <2> QED BY <2>1, <2>3, QuietKeeps
<1>4. ASSUME NEW o \in Evaluations(agent.to, <<"direct", agent.to>>, agent.prev.url, FALSE),
             Evaluate(o),
             CASE o.verdict = "ok" -> Go("send")
               [] o.verdict = "ask" -> Go("publish")
               [] OTHER -> Return
      PROVE  NavigationInv'
  <2>1. /\ o.verdict \in {"ok", "blocked", "ask"}
        /\ o.pending \subseteq pending /\ o.granted \subseteq granted
        /\ o.verdict = "ok" => agent.to \notin Vetoed /\ Verdicts[agent.to] # "block"
        /\ o.verdict = "ok" /\ Verdicts[agent.to] = "require" /\ Scopes[agent.to] = "action_only" =>
             \E g \in granted : g.sig = <<"direct", agent.to>> /\ g \notin o.granted
    <3>1. FALSE \in BOOLEAN
      OBVIOUS
    <3> QED BY <1>2, <1>4, <3>1, EvaluationOutcome
  <2>2. /\ pending' = o.pending /\ granted' = o.granted /\ UNCHANGED <<epoch, nextPend>>
        /\ pending' \subseteq pending /\ granted' \subseteq granted
    BY <1>4, <2>1 DEF Evaluate
  <2>3. QuietStep
    <3>1. /\ pending' \subseteq [id : Nat, sig : Signatures, to : Dests, scope : ScopeNames]
          /\ \A p \in pending' : p.sig[2] = p.to
          /\ epoch' \in Nat /\ nextPend' \in Nat /\ ops' \in Nat
          /\ clock' \in {"primary", "fallback", "expired"}
      BY <1>1, <2>2, QuietParts
    <3> QED BY <1>1, <2>2, <3>1 DEF QuietStep
  <2>4. CASE o.verdict = "blocked"
    <3>1. Return
      BY <1>4, <2>4
    <3>2. AgentKeeps
      BY <3>1, AgentGoes
    <3> QED BY <2>3, <3>2, QuietKeeps
  <2>5. CASE o.verdict = "ask"
    <3>1. Go("publish") /\ "publish" \in Ops
      BY <1>4, <2>5 DEF Ops
    <3>2. /\ agent' \in AgentStates /\ agent'.op = "publish" /\ agent'.to = agent.to
          /\ agent'.prev = agent.prev /\ agent'.since = agent.since
          /\ agent'.stamp = agent.stamp /\ agent'.result = agent.result
      BY <3>1, AgentGoes
    <3>3. AgentKeeps
      BY <1>1, <1>2, <3>2 DEF AgentKeeps, Validated, Checked, Departed
    <3> QED BY <2>3, <3>3, QuietKeeps
  <2>6. CASE o.verdict = "ok"
    <3>1. Go("send") /\ "send" \in Ops
      BY <1>4, <2>6 DEF Ops
    <3>2. /\ agent' \in AgentStates /\ agent'.op = "send" /\ agent'.to = agent.to
          /\ agent'.prev = agent.prev /\ agent'.since = agent.since
          /\ agent'.stamp = agent.stamp /\ agent'.result = agent.result
      BY <3>1, AgentGoes
    <3>3. AdmissionOK'
      BY <1>1, <1>2, <2>1, <2>2, <2>6, <3>2 DEF AdmissionOK, Admitted
    <3>4. OrderOK'
      BY <1>1 DEF NavigationInv, OrderOK, NoneNavigated
    <3>5. CallOK'
      BY <1>1, <1>2, <3>2 DEF CallOK
    <3>6. DocumentOK'
      BY <1>1, <3>2 DEF NavigationInv, DocumentOK
    <3>7. OutcomeIsTold'
      BY <1>1, <1>2, <3>2 DEF NavigationInv, OutcomeIsTold, RejectionIsReported,
         CompletedBecauseChromeMoved
    <3>8. CreditOK'
      <4>1. ASSUME NEW d \in Dests, Verdicts[d] = "require", Scopes[d] = "action_only"
            PROVE  \E p, c \in {0, 1} :
                     /\ Passes(d)' \subseteq Passes(d) \/ (p = 1 /\ \E x : Passes(d)' \subseteq Passes(d) \cup {x})
                     /\ \/ Capabilities(d)' \subseteq Capabilities(d) /\ c = 0
                        \/ /\ c = 1
                           /\ \E x \in Capabilities(d) : Capabilities(d)' \subseteq Capabilities(d) \ {x}
                     /\ p + OnItsWay(d)' <= c + OnItsWay(d)
                     /\ given'[d] = given[d]
        <5>1. Passes(d)' \subseteq Passes(d) /\ given'[d] = given[d]
          BY <1>1 DEF Passes
        <5>2. Capabilities(d)' \subseteq Capabilities(d)
          BY <2>2 DEF Capabilities
        <5>3. CASE d = agent.to
          <6>1. PICK g \in granted : g.sig = <<"direct", d>> /\ g \notin granted'
            BY <2>1, <2>2, <2>6, <4>1, <5>3
          <6>2. g \in Capabilities(d)
            BY <6>1 DEF Capabilities
          <6>3. Capabilities(d)' \subseteq Capabilities(d) \ {g}
            BY <5>2, <6>1 DEF Capabilities
          <6>4. 0 + OnItsWay(d)' <= 1 + OnItsWay(d)
            BY <1>1, <3>2 DEF OnItsWay
          <6> QED BY <5>1, <6>2, <6>3, <6>4
        <5>4. CASE d # agent.to
          <6>1. 0 + OnItsWay(d)' <= 0 + OnItsWay(d)
            BY <1>1, <3>2, <5>4 DEF OnItsWay
          <6> QED BY <5>1, <5>2, <6>1
        <5> QED BY <5>3, <5>4
      <4>2. IsFiniteSet(granted')
        BY <1>2, <2>2, FS_Subset DEF CreditOK
      <4>3. /\ given' \in [Dests -> Nat]
            /\ \A s \in sent' : s[1] <= atts'
            /\ \A a \in attempt' : a.no <= atts'
            /\ \A i \in icp' : /\ i.att <= atts'
                               /\ \A a \in attempt' : i.id \in a.requests => a.no = i.att
        BY <1>1, <1>2 DEF CreditOK
      <4> QED BY <4>1, <4>2, <4>3, CreditStep
    <3>9. TypeOK'
      BY <1>1, <2>2, <3>2 DEF NavigationInv, TypeOK, AgentStates
    <3> QED BY <3>3, <3>4, <3>5, <3>6, <3>7, <3>8, <3>9 DEF NavigationInv
  <2> QED BY <2>1, <2>4, <2>5, <2>6
<1> QED BY <1>3, <1>4 DEF NavigateEvaluate

(* The approval a navigation needs is asked for.                           *)
LEMMA NavigatePublishKeeps ==
    ASSUME NavigationInv, NavigatePublish
    PROVE  NavigationInv'
<1>1. /\ UNCHANGED <<page, moves, load, nextReq, queue, obs, attempt, rejection, icp, clock,
                     ops, atts, sent, given, stamps, told>>
      /\ Publish(agent.to, <<"direct", agent.to>>) /\ Return
  BY DEF NavigatePublish, chromeVars, eventVars, ghostVars
<1>2. agent.to \in Dests
  BY DEF NavigationInv, TypeOK
<1>3. <<"direct", agent.to>> \in Signatures /\ <<"direct", agent.to>>[2] = agent.to
  BY <1>2 DEF Signatures
<1>4. /\ pending' \subseteq [id : Nat, sig : Signatures, to : Dests, scope : ScopeNames]
      /\ \A p \in pending' : p.sig[2] = p.to
      /\ nextPend' \in Nat /\ UNCHANGED <<granted, epoch>>
  BY <1>1, <1>2, <1>3, PublishKeeps
<1>5. QuietStep
  <2>1. epoch' \in Nat /\ ops' \in Nat /\ clock' \in {"primary", "fallback", "expired"}
    BY <1>1, <1>4, QuietParts
  <2> QED BY <1>1, <1>4, <2>1 DEF QuietStep
<1>6. AgentKeeps
  BY <1>1, AgentGoes
<1> QED BY <1>5, <1>6, QuietKeeps

(* The attempt of an admitted navigation is recorded.                      *)
LEMMA NavigateSendKeeps ==
    ASSUME NavigationInv, NavigateSend
    PROVE  NavigationInv'
<1> PICK a : a = [orig |-> agent.to, explicit |-> TRUE, source |-> {agent.prev.url},
                  seen |-> FALSE, requests |-> {}, evaluated |-> {agent.to}, no |-> atts + 1]
  OBVIOUS
<1>1. /\ UNCHANGED <<page, moves, load, nextReq, queue, rejection, icp, pending, granted, epoch,
                     nextPend, clock, ops, sent, given, stamps, told>>
      /\ agent.op = "send" /\ attempt' = {a} /\ atts' = atts + 1 /\ Starting /\ Go("goto")
  BY DEF NavigateSend, At, chromeVars, approvalVars
<1>2. /\ agent \in AgentStates /\ agent.to \in Dests /\ agent.to \in Admitted
      /\ agent.prev.url \in Dests /\ agent.to \in Public
      /\ agent.stamp <= stamps /\ (agent.result = "ok" => moves > agent.since)
      /\ AdmissionOK /\ CreditOK /\ given \in [Dests -> Nat] /\ atts \in Nat
      /\ sent \subseteq Nat \X Dests /\ icp \subseteq Intercepts
  BY <1>1 DEF NavigationInv, TypeOK, AdmissionOK, CallOK, OutcomeIsTold,
     CompletedBecauseChromeMoved, AgentStates
<1>3. /\ agent' \in AgentStates /\ agent'.op = "goto" /\ agent'.to = agent.to
      /\ agent'.prev = agent.prev /\ agent'.since = agent.since
      /\ agent'.stamp = agent.stamp /\ agent'.result = agent.result
  <2>1. "goto" \in Ops
    BY DEF Ops
  <2> QED BY <1>1, <2>1, AgentGoes
<1>4. AgentKeeps
  BY <1>1, <1>2, <1>3 DEF AgentKeeps, Validated, Checked, Departed
<1>5. OrderOK' /\ CallOK' /\ OutcomeIsTold'
  BY <1>1, <1>4, NavFrames
<1>6. /\ obs' \in [loader : Nat, url : Dests, rev : Nat, complete : BOOLEAN, awaiting : BOOLEAN]
      /\ obs'.loader \in Nat /\ obs.loader <= obs'.loader /\ obs'.loader <= page.loader
  BY <1>1, StartingKeeps
<1>7. DocumentOK'
  BY <1>1, <1>4, <1>6, DocumentFrame
<1>8. a \in Attempts /\ a.evaluated = {agent.to} /\ a.no = atts + 1 /\ a.requests = {}
  BY <1>2 DEF Attempts
<1>9. AdmissionOK'
  BY <1>1, <1>2, <1>3, <1>8 DEF AdmissionOK
<1>10. CreditOK'
  <2>1. ASSUME NEW d \in Dests, Verdicts[d] = "require", Scopes[d] = "action_only"
        PROVE  \E p, c \in {0, 1} :
                 /\ Passes(d)' \subseteq Passes(d) \/ (p = 1 /\ \E x : Passes(d)' \subseteq Passes(d) \cup {x})
                 /\ \/ Capabilities(d)' \subseteq Capabilities(d) /\ c = 0
                    \/ /\ c = 1
                       /\ \E x \in Capabilities(d) : Capabilities(d)' \subseteq Capabilities(d) \ {x}
                 /\ p + OnItsWay(d)' <= c + OnItsWay(d)
                 /\ given'[d] = given[d]
    <3>1. Capabilities(d)' \subseteq Capabilities(d) /\ given'[d] = given[d]
      BY <1>1 DEF Capabilities
    <3>2. OnItsWay(d)' = 0
      BY <1>3 DEF OnItsWay
    <3>3. CASE d = agent.to
      <4>1. Passes(d)' \subseteq Passes(d) \cup {<<atts + 1, d>>}
        BY <1>1, <1>8 DEF Passes
      <4>2. 1 + OnItsWay(d)' <= 0 + OnItsWay(d)
        BY <1>1, <3>2, <3>3 DEF OnItsWay
      <4> QED BY <3>1, <4>1, <4>2
    <3>4. CASE d # agent.to
      <4>1. Passes(d)' \subseteq Passes(d)
        BY <1>1, <1>8, <3>4 DEF Passes
      <4>2. 0 + OnItsWay(d)' <= 0 + OnItsWay(d)
        BY <3>2 DEF OnItsWay
      <4> QED BY <3>1, <4>1, <4>2
    <3> QED BY <3>3, <3>4
  <2>2. /\ IsFiniteSet(granted') /\ given' \in [Dests -> Nat]
        /\ \A x \in attempt' : x.no <= atts'
    BY <1>1, <1>2, <1>8 DEF CreditOK
  <2>3. \A s \in sent' : s[1] <= atts'
    BY <1>1, <1>2 DEF CreditOK
  <2>4. \A i \in icp' : /\ i.att <= atts'
                        /\ \A x \in attempt' : i.id \in x.requests => x.no = i.att
    BY <1>1, <1>2, <1>8 DEF CreditOK, Intercepts
  <2> QED BY <2>1, <2>2, <2>3, <2>4, CreditStep
<1>11. TypeOK'
  <2>1. attempt' \subseteq Attempts /\ atts' \in Nat /\ agent' \in AgentStates
    BY <1>1, <1>2, <1>3, <1>8
  <2> QED BY <1>1, <1>6, <2>1 DEF NavigationInv, TypeOK, AgentStates
<1> QED BY <1>5, <1>7, <1>9, <1>10, <1>11 DEF NavigationInv

(* Page.navigate is called.                                                *)
LEMMA NavigateGotoKeeps ==
    ASSUME NavigationInv, NavigateGoto
    PROVE  NavigationInv'
<1>1. /\ UNCHANGED <<page, moves, obs, attempt, rejection, icp, pending, granted, epoch,
                     nextPend, clock, ops, atts, sent, given, stamps, told>>
      /\ agent.op = "goto"
  BY DEF NavigateGoto, At, approvalVars, ghostVars
<1>2. /\ agent \in AgentStates /\ agent.to \in Dests
      /\ agent.stamp <= stamps /\ (agent.result = "ok" => moves > agent.since)
  BY <1>1 DEF NavigationInv, TypeOK, CallOK, OutcomeIsTold, CompletedBecauseChromeMoved,
     AgentStates
<1>3. CASE Request(agent.to, 0) /\ Go("wait")
  <2>1. /\ agent' \in AgentStates /\ agent'.op = "wait" /\ agent'.to = agent.to
        /\ agent'.prev = agent.prev /\ agent'.since = agent.since
        /\ agent'.stamp = agent.stamp /\ agent'.result = agent.result
    <3>1. "wait" \in Ops
      BY DEF Ops
    <3> QED BY <1>3, <3>1, AgentGoes
  <2>2. AgentKeeps
    BY <1>1, <1>2, <2>1 DEF AgentKeeps, Validated, Checked, Departed
  <2>3. /\ OrderOK' /\ queue' \in Seq(Events) /\ nextReq' \in Nat
        /\ load' \subseteq [id : Nat, url : Dests, go : BOOLEAN]
    <3>1. 0 \in Nat
      OBVIOUS
    <3> QED BY <1>1, <1>2, <1>3, <3>1, RequestKeeps
  <2>4. AdmissionOK' /\ CreditOK' /\ DocumentOK' /\ CallOK' /\ OutcomeIsTold'
    BY <1>1, <2>2, NavFrames
  <2>5. TypeOK'
    BY <1>1, <2>1, <2>3 DEF NavigationInv, TypeOK, AgentStates
  <2> QED BY <2>3, <2>4, <2>5 DEF NavigationInv
<1>4. CASE /\ agent' = [agent EXCEPT !.op = "epoch", !.result = "error"]
           /\ UNCHANGED <<load, nextReq, queue>>
  <2>1. /\ agent' \in AgentStates /\ agent'.op = "epoch" /\ agent'.result = "error"
        /\ agent'.stamp = agent.stamp
    BY <1>2, <1>4 DEF AgentStates, Ops
  <2>2. AgentKeeps
    BY <1>2, <2>1 DEF AgentKeeps, Validated, Checked, Departed
  <2>3. QuietStep
    BY <1>1, <1>4, QuietParts DEF QuietStep
  <2> QED BY <2>2, <2>3, QuietKeeps
<1> QED BY <1>3, <1>4 DEF NavigateGoto

(* At the beginning nothing is let through and nothing is to report.       *)
LEMMA NavigationInit ==
    ASSUME Init
    PROVE  NavigationInv
<1>1. TypeOK
  <2>1. page \in [loader : Nat, url : Dests, idle : BOOLEAN]
    BY NavigationAssumption DEF Init
  <2>2. obs \in [loader : Nat, url : Dests, rev : Nat, complete : BOOLEAN, awaiting : BOOLEAN]
    BY NavigationAssumption DEF Init
  <2>3. agent \in [op : Ops, to : Dests, prev : [loader : Nat, url : Dests, rev : Nat],
                   since : Nat, init : Nat, stamp : Nat,
                   result : {"none", "ok", "error", "human"}]
    BY NavigationAssumption DEF Init, Idle, Ops
  <2>4. queue \in Seq(Events)
    BY DEF Init
  <2>5. given \in [Dests -> Nat]
    BY DEF Init
  <2> QED BY <2>1, <2>2, <2>3, <2>4, <2>5 DEF Init, TypeOK
<1>2. agent.op = "idle" /\ agent.stamp = 0 /\ agent.result = "none"
  BY DEF Init, Idle
<1>3. AdmissionOK
  BY <1>2 DEF Init, AdmissionOK
<1>4. CreditOK
  <2>1. IsFiniteSet({}) /\ Cardinality({}) = 0
    BY FS_EmptySet
  <2>2. ASSUME NEW d \in Dests
        PROVE  Cardinality(Passes(d)) + Cardinality(Capabilities(d)) + OnItsWay(d) <= given[d]
    <3>1. Passes(d) = {} /\ Capabilities(d) = {}
      BY DEF Init, Passes, Capabilities
    <3>2. OnItsWay(d) = 0 /\ given[d] = 0
      BY <1>2 DEF Init, OnItsWay
    <3>3. Cardinality(Passes(d)) = 0 /\ Cardinality(Capabilities(d)) = 0
      BY <2>1, <3>1
    <3> QED BY <3>2, <3>3
  <2> QED BY <2>1, <2>2 DEF Init, CreditOK
<1>5. OrderOK
  <2>1. Len(queue) = 0
    BY DEF Init
  <2> QED BY <2>1 DEF Init, OrderOK
<1>6. DocumentOK
  BY <1>2 DEF Init, DocumentOK
<1>7. CallOK
  BY <1>2 DEF Init, CallOK
<1>8. OutcomeIsTold
  BY <1>2 DEF Init, OutcomeIsTold, RejectionIsReported, CompletedBecauseChromeMoved
<1> QED BY <1>1, <1>3, <1>4, <1>5, <1>6, <1>7, <1>8 DEF NavigationInv

(* Every step keeps the invariant.                                         *)
LEMMA NavigationStep ==
    ASSUME NavigationInv, [Next]_vars
    PROVE  NavigationInv'
<1>1. CASE UNCHANGED vars
  <2>1. UNCHANGED <<page, moves, load, nextReq, queue, obs, attempt, rejection, icp, pending,
                    granted, epoch, nextPend, agent, clock, ops, atts, sent, given, stamps,
                    told>>
    BY <1>1 DEF vars, chromeVars, eventVars, approvalVars, ghostVars
  <2>2. AgentKeeps
    BY <2>1, AgentStays
  <2>3. QuietStep
    BY <2>1, QuietParts DEF QuietStep
  <2> QED BY <2>2, <2>3, QuietKeeps
<1>2. CASE Chrome
  BY <1>2, ChromeKeeps
<1>3. CASE EventThread
  <2>1. CASE HandleNavigated \/ HandleIdle \/ HandleStray
    BY <2>1, PageEventKeeps
  <2> QED BY <1>3, <2>1, InterceptStartKeeps, InterceptEvaluateKeeps, InterceptPublishKeeps,
             InterceptFinishKeeps DEF EventThread
<1>4. CASE Reviewer \/ ClockTicks \/ NavigateStart \/ ActStart
  <2>1. CASE Approve
    BY <2>1, ApproveKeeps
  <2>2. CASE ClockTicks \/ Refuse \/ NavigateStart \/ ActStart
    BY <2>2, StartKeeps
  <2> QED BY <1>4, <2>1, <2>2 DEF Reviewer
<1>5. CASE AgentContinues
  <2>1. CASE \/ NavigateWait \/ NavigateFallback \/ NavigateEpoch \/ NavigateClear
             \/ NavigateExpire \/ NavigateFinal \/ ActCheck \/ ActBegin \/ ActFinish
    BY <2>1, AgentQuietKeeps
  <2> QED BY <1>5, <2>1, NavigateCheckKeeps, NavigateEvaluateKeeps, NavigatePublishKeeps,
             NavigateSendKeeps, NavigateGotoKeeps DEF AgentContinues
<1> QED BY <1>1, <1>2, <1>3, <1>4, <1>5 DEF Next

(* The invariant of the boundary: what is let through was admitted and     *)
(* paid for, a document is committed only after the event of the one       *)
(* before it was handled, and an outcome is told as it was.                *)
THEOREM NavigationInvariant == Spec => []NavigationInv
BY NavigationInit, NavigationStep, PTL DEF Spec

(* intercept_navigation_request and navigate_with_persistent_boundary let  *)
(* nothing through that is not public, is blocked or is vetoed, and an     *)
(* approval of a single action lets one attempt through, however the two   *)
(* threads, the redirects and the reviewer interleave.                     *)
THEOREM SentIsAdmitted == Spec => []SentWasAdmitted
<1>1. ASSUME NavigationInv PROVE SentWasAdmitted
  <2>1. \A s \in sent : s[2] \in Public \ Vetoed /\ Verdicts[s[2]] # "block"
    BY <1>1 DEF NavigationInv, AdmissionOK, Admitted
  <2>2. ASSUME NEW d \in Dests, Verdicts[d] = "require", Scopes[d] = "action_only"
        PROVE  Cardinality({s \in sent : s[2] = d}) <= given[d]
    <3>1. {s \in sent : s[2] = d} \subseteq Passes(d)
      BY DEF Passes
    <3>2. /\ Cardinality({s \in sent : s[2] = d}) \in Nat
          /\ Cardinality({s \in sent : s[2] = d}) <= Cardinality(Passes(d))
          /\ Cardinality(Passes(d)) \in Nat /\ Cardinality(Capabilities(d)) \in Nat
      BY <1>1, <3>1, Counting
    <3>3. Cardinality(Passes(d)) + Cardinality(Capabilities(d)) + OnItsWay(d) <= given[d]
      BY <1>1, <2>2 DEF NavigationInv, CreditOK
    <3>4. OnItsWay(d) \in {0, 1} /\ given[d] \in Nat
      BY <1>1 DEF OnItsWay, NavigationInv, TypeOK
    <3> QED BY <3>2, <3>3, <3>4
  <2> QED BY <2>1, <2>2 DEF SentWasAdmitted
<1> QED BY <1>1, NavigationInvariant, PTL

(* A rejection found in the background is returned by a tool call before   *)
(* anything else is started, and a navigation that reports success was     *)
(* followed by a commit of Chrome.                                         *)
THEOREM OutcomesAreTold == Spec => []OutcomeIsTold
<1>1. NavigationInv => OutcomeIsTold
  BY DEF NavigationInv
<1> QED BY <1>1, NavigationInvariant, PTL
=============================================================================
