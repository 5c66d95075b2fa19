----------------------------- MODULE MCProgress -----------------------------
(***************************************************************************)
(* The components whose calls, runs or messages must come to an end, each  *)
(* under the fairness its module states and on a small instance.  As in    *)
(* MCServices a behaviour is one of the component picked at the start.     *)
(***************************************************************************)
EXTENDS HitlBridge, AuditLog, SrePipeline, McpServer, SkillRuns, SessionVault

VARIABLE part   \* the component that moves

Parts == {"bridge", "log", "pipe", "server", "skill", "vault"}

progressVars == <<part, vars, logVars, pipeVars, serverVars, skillVars, vaultVars>>

(* A webhook whose queue holds one event, and a file that rotates.         *)
McEnvs ==
    {[dir |-> "unset", maxBytes |-> {}, durability |-> "flush",
      hook |-> 1, events |-> 2, faults |-> 0],
     [dir |-> "usable", maxBytes |-> {3}, durability |-> "sync",
      hook |-> 0, events |-> 2, faults |-> 0]}

McStep(kind, id, retries, success, failure) ==
    [kind |-> kind, id |-> id, target |-> "a", control |-> <<"text", "">>,
     data |-> <<"text", "">>, key |-> "k", retries |-> retries,
     onSuccess |-> success, onFailure |-> failure]

(* Skills with a loop over success, over failure, over both, and none.     *)
McSkills ==
    {<<McStep("verify", "v", 0, "", f), McStep("act", "a", 1, s, "x"),
       McStep("extract", "x", 0, "v", s)>> : f \in {"", "x", "v"}, s \in {"", "v"}}
    \cup {<<McStep("locate", "l", 0, "", "l")>>, <<>>}

-----------------------------------------------------------------------------
ProgressInit ==
    /\ part \in Parts
    /\ Init /\ PipeInit
    /\ LogInit /\ (part # "log" => logEnv = FromEnv(CHOOSE e \in AuditEnvs : TRUE))
    /\ ServerInit /\ (part # "server" => plan = CHOOSE p \in Plans : TRUE)
    /\ SkillInit /\ (part # "skill" => skill = <<>>)
    /\ VaultInit
    /\ part # "vault" =>
          /\ currentKey = CHOOSE k \in KeyIds \ SpareKeys : TRUE
          /\ \A k \in DOMAIN keys : keys[k] = CHOOSE b \in KeyBytes : TRUE
          /\ \A c \in VaultClients : jar[c] = {}

(* Every component but the one that moves stays as it is.                  *)
Rest ==
    /\ UNCHANGED part
    /\ IF part = "bridge" THEN TRUE ELSE UNCHANGED vars
    /\ IF part = "log" THEN TRUE ELSE UNCHANGED logVars
    /\ IF part = "pipe" THEN TRUE ELSE UNCHANGED pipeVars
    /\ IF part = "server" THEN TRUE ELSE UNCHANGED serverVars
    /\ IF part = "skill" THEN TRUE ELSE UNCHANGED skillVars
    /\ IF part = "vault" THEN TRUE ELSE UNCHANGED vaultVars

ProgressNext ==
    \/ part = "bridge" /\ Next /\ Rest
    \/ part = "log" /\ LogNext /\ Rest
    \/ part = "pipe" /\ PipeNext /\ Rest
    \/ part = "server" /\ ServerNext /\ Rest
    \/ part = "skill" /\ SkillNext /\ Rest
    \/ part = "vault" /\ VaultNext /\ Rest

(* The fairness of the modules, for the component that moves.              *)
ProgressFairness ==
    /\ \A w \in Workers : WF_vars(part = "bridge" /\ ResolveStep(w))
    /\ WF_logVars(part = "log" /\ Worker)
    /\ WF_logVars(part = "log" /\ \E c \in Callers : LogSend(c))
    /\ WF_pipeVars(part = "pipe" /\ RenderWorker)
    /\ WF_pipeVars(part = "pipe" /\ SreWorker)
    /\ WF_pipeVars(part = "pipe" /\ AuditWorker)
    /\ WF_serverVars(part = "server" /\ ServerSteps)
    /\ WF_skillVars(part = "skill" /\ SkillNext)
    /\ \A c \in VaultClients : WF_vaultVars(part = "vault" /\ VaultStep(c))

ProgressSpec == ProgressInit /\ [][ProgressNext]_progressVars /\ ProgressFairness
=============================================================================
