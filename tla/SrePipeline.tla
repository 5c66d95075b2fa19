---------------------------- MODULE SrePipeline ----------------------------
(***************************************************************************)
(* AsyncPipeline: the render worker, the SRE worker that serves two queues *)
(* and prefers the fast one, and the audit worker, joined by bounded       *)
(* channels.  A task is the number of its submission; what the stages      *)
(* compute from a state is not distinguished here.                         *)
(***************************************************************************)
EXTENDS Naturals, Sequences, FiniteSets

CONSTANTS
    RenderCapacity, SreCapacity, AuditCapacity,   \* as configured, 0 allowed
    MaxSubmits,                                   \* bound: submit_state calls
    MaxAudits                                     \* bound: submit_audit_event

VARIABLES
    handles,    \* LayeredStateHandle of each accepted task: held or dropped
    renderQ,    \* tasks in the render queue
    rendering,  \* the render worker's task and the queue it sends to next
    fastQ, fullQ,
    sre,        \* what the SRE worker does next; its open flags
    delivered,  \* results put into the one-slot channels of the handles
    overtaken,  \* auxiliary: full tasks served since fastQ last was empty
    auditQ,
    pipeCount,  \* PipelineMetricsInner
    pipeOpen    \* the AsyncPipeline has not been dropped

pipeVars == <<handles, renderQ, rendering, fastQ, fullQ, sre, delivered,
              overtaken, auditQ, pipeCount, pipeOpen>>

(* capacity_or_default *)
CapacityOrDefault(n) == IF n = 0 THEN 1 ELSE n

Room(queue, capacity) == Len(queue) < CapacityOrDefault(capacity)

Counters == {"submitted", "processed", "backpressure", "fast", "full",
             "audits", "audited", "auditBackpressure"}

Count(names) ==
    pipeCount' = [n \in Counters |-> pipeCount[n] + IF n \in names THEN 1 ELSE 0]

PipeInit ==
    /\ handles = <<>>
    /\ renderQ = <<>>
    /\ rendering = {}
    /\ fastQ = <<>> /\ fullQ = <<>>
    /\ sre = [at |-> "fast", fastOpen |-> TRUE, fullOpen |-> TRUE]
    /\ delivered = {}
    /\ overtaken = 0
    /\ auditQ = <<>>
    /\ pipeCount = [n \in Counters |-> 0]
    /\ pipeOpen = TRUE

-----------------------------------------------------------------------------
(* Callers.                                                                *)

SubmitState ==
    /\ pipeOpen /\ pipeCount.submitted < MaxSubmits
    /\ IF Room(renderQ, RenderCapacity)
       THEN /\ Count({"submitted"})
            /\ handles' = Append(handles, "held")
            /\ renderQ' = Append(renderQ, Len(handles) + 1)
       ELSE Count({"submitted", "backpressure"}) /\ UNCHANGED <<handles, renderQ>>
    /\ UNCHANGED <<rendering, fastQ, fullQ, sre, delivered, overtaken, auditQ,
                   pipeOpen>>

SubmitAuditEvent ==
    /\ pipeOpen /\ pipeCount.audits < MaxAudits
    /\ IF Room(auditQ, AuditCapacity)
       THEN Count({"audits"}) /\ auditQ' = Append(auditQ, "event")
       ELSE Count({"audits", "auditBackpressure"}) /\ UNCHANGED auditQ
    /\ UNCHANGED <<handles, renderQ, rendering, fastQ, fullQ, sre, delivered,
                   overtaken, pipeOpen>>

(* A caller gives up after recv_stage timed out.                           *)
DropHandle(t) ==
    /\ handles[t] = "held"
    /\ handles' = [handles EXCEPT ![t] = "dropped"]
    /\ UNCHANGED <<renderQ, rendering, fastQ, fullQ, sre, delivered, overtaken,
                   auditQ, pipeCount, pipeOpen>>

DropPipeline ==
    /\ pipeOpen
    /\ pipeOpen' = FALSE
    /\ UNCHANGED <<handles, renderQ, rendering, fastQ, fullQ, sre, delivered,
                   overtaken, auditQ, pipeCount>>

-----------------------------------------------------------------------------
(* The render worker blocks on each of the two queues in turn.             *)

RenderTakes ==
    /\ rendering = {} /\ renderQ # <<>>
    /\ rendering' = {[task |-> Head(renderQ), to |-> "fast"]}
    /\ renderQ' = Tail(renderQ)
    /\ Count({"processed"})
    /\ UNCHANGED <<handles, fastQ, fullQ, sre, delivered, overtaken, auditQ,
                   pipeOpen>>

(* Mutant: try_send, and a full queue loses the task.                      *)
RenderSendsOrDrops ==
    /\ \E r \in rendering :
         /\ rendering' = IF r.to = "fast" THEN {[r EXCEPT !.to = "full"]} ELSE {}
         /\ fastQ' = IF r.to = "fast" /\ Room(fastQ, SreCapacity)
                     THEN Append(fastQ, r.task) ELSE fastQ
         /\ fullQ' = IF r.to = "full" /\ Room(fullQ, SreCapacity)
                     THEN Append(fullQ, r.task) ELSE fullQ
    /\ UNCHANGED <<handles, renderQ, sre, delivered, overtaken, auditQ,
                   pipeCount, pipeOpen>>

RenderSends ==
    /\ \E r \in rendering :
         \/ /\ r.to = "fast" /\ Room(fastQ, SreCapacity)
            /\ fastQ' = Append(fastQ, r.task)
            /\ rendering' = {[r EXCEPT !.to = "full"]}
            /\ UNCHANGED fullQ
         \/ /\ r.to = "full" /\ Room(fullQ, SreCapacity)
            /\ fullQ' = Append(fullQ, r.task)
            /\ rendering' = {}
            /\ UNCHANGED fastQ
    /\ UNCHANGED <<handles, renderQ, sre, delivered, overtaken, auditQ,
                   pipeCount, pipeOpen>>

(* Mutant: the worker never ends.                                          *)
RenderStays == FALSE

(* The worker has ended and dropped its senders.                           *)
RenderEnded == ~ pipeOpen /\ renderQ = <<>> /\ rendering = {}

-----------------------------------------------------------------------------
(* The SRE worker: try_recv on the fast queue, then recv_timeout on the    *)
(* full one; a channel reports disconnected only once it is empty.         *)

(* process_sre_task: the send to a dropped handle is ignored.              *)
Process(t, stage) ==
    /\ delivered' = IF handles[t] = "held" THEN delivered \cup {<<t, stage>>}
                    ELSE delivered
    /\ Count({stage})

PollFast ==
    /\ sre.at = "fast"
    /\ IF sre.fastOpen /\ fastQ # <<>>
       THEN /\ Process(Head(fastQ), "fast")
            /\ fastQ' = Tail(fastQ)
            /\ overtaken' = 0
            /\ UNCHANGED sre
       ELSE /\ sre' = [sre EXCEPT !.at = "full",
                                  !.fastOpen = @ /\ ~ RenderEnded]
            /\ UNCHANGED <<delivered, fastQ, overtaken, pipeCount>>
    /\ UNCHANGED <<handles, renderQ, rendering, fullQ, auditQ, pipeOpen>>

(* Mutant: the loop ends with the fast queue.                              *)
NextRoundShort(s) == [s EXCEPT !.at = IF s.fastOpen THEN "fast" ELSE "ended"]

(* while fast_open || full_open *)
NextRound(s) == [s EXCEPT !.at = IF s.fastOpen \/ s.fullOpen THEN "fast" ELSE "ended"]

(* Mutant: the full queue is served until it is empty.                     *)
AfterFullGreedy == IF Len(fullQ) > 1 THEN sre ELSE NextRound(sre)

(* One task of the full queue, then the fast queue again.                  *)
AfterFull == NextRound(sre)

PollFull ==
    /\ sre.at = "full" /\ sre.fullOpen
    /\ \/ /\ fullQ # <<>>
          /\ Process(Head(fullQ), "full")
          /\ fullQ' = Tail(fullQ)
          /\ overtaken' = IF fastQ = <<>> THEN 0 ELSE overtaken + 1
          /\ sre' = AfterFull
       \/ /\ fullQ = <<>>
          /\ sre' = NextRound([sre EXCEPT !.fullOpen = ~ RenderEnded])
          /\ UNCHANGED <<delivered, pipeCount, fullQ, overtaken>>
    /\ UNCHANGED <<handles, renderQ, rendering, fastQ, auditQ, pipeOpen>>

(* The full queue is closed: wait on the fast one.                         *)
WaitFast ==
    /\ sre.at = "full" /\ ~ sre.fullOpen
    /\ IF fastQ # <<>>
       THEN /\ Process(Head(fastQ), "fast")
            /\ fastQ' = Tail(fastQ)
            /\ overtaken' = 0
            /\ sre' = NextRound(sre)
       ELSE /\ sre' = NextRound([sre EXCEPT !.fastOpen = ~ RenderEnded])
            /\ UNCHANGED <<delivered, pipeCount, fastQ, overtaken>>
    /\ UNCHANGED <<handles, renderQ, rendering, fullQ, auditQ, pipeOpen>>

AuditWorker ==
    /\ auditQ # <<>>
    /\ auditQ' = Tail(auditQ)
    /\ Count({"audited"})
    /\ UNCHANGED <<handles, renderQ, rendering, fastQ, fullQ, sre, delivered,
                   overtaken, pipeOpen>>

RenderWorker == RenderTakes \/ RenderSends
SreWorker == PollFast \/ PollFull \/ WaitFast

PipeNext ==
    \/ SubmitState \/ SubmitAuditEvent \/ DropPipeline
    \/ \E t \in DOMAIN handles : DropHandle(t)
    \/ RenderWorker \/ SreWorker \/ AuditWorker

(* The three threads run; callers owe nothing.                             *)
PipeFairness ==
    /\ WF_pipeVars(RenderWorker)
    /\ WF_pipeVars(SreWorker)
    /\ WF_pipeVars(AuditWorker)

PipeSpec == PipeInit /\ [][PipeNext]_pipeVars

-----------------------------------------------------------------------------

(* The metrics account for every submission: it was rejected, or it waits  *)
(* in exactly one place of each stage, or the stage completed it; the same *)
(* for audit events.  Nothing is lost or served twice between the queues.  *)
MetricsAddUp ==
    LET toFast == {r \in rendering : r.to = "fast"} IN
    /\ pipeCount.submitted =
         pipeCount.backpressure + Len(renderQ) + pipeCount.processed
    /\ pipeCount.processed =
         pipeCount.fast + Len(fastQ) + Cardinality(toFast)
    /\ pipeCount.processed =
         pipeCount.full + Len(fullQ) + Cardinality(rendering)
    /\ pipeCount.audits =
         pipeCount.auditBackpressure + pipeCount.audited + Len(auditQ)

(* The fast stage is preferred: while a fast task waits, the SRE worker    *)
(* serves at most one full task, the one it was already waiting for.  (The *)
(* full result of a task may so come before its fast result.)              *)
FastIsPreferred == overtaken <= 1

(* Every accepted submission gets its fast and its full result, unless its *)
(* caller gave up, also after the pipeline was dropped.                    *)
ResultsArrive ==
    \A t \in 1..MaxSubmits :
        Len(handles) >= t ~>
            \/ Len(handles) >= t /\ handles[t] = "dropped"
            \/ {<<t, "fast">>, <<t, "full">>} \subseteq delivered

(* The SRE worker of a dropped pipeline ends, with both queues drained.    *)
WorkerEnds ==
    ~ pipeOpen ~> sre.at = "ended" /\ fastQ = <<>> /\ fullQ = <<>>

(* Whatever was accepted is served, fast results first, counted right, and *)
(* the worker ends with its pipeline.                                      *)
PipelineDelivers ==
    ResultsArrive /\ WorkerEnds /\ [](MetricsAddUp /\ FastIsPreferred)
=============================================================================
