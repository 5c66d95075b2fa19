------------------------------ MODULE AuditLog ------------------------------
(***************************************************************************)
(* The audit log: AuditLogger with its worker thread, the rolling file     *)
(* sink, the webhook sink with its sender thread, and the replay of what   *)
(* was written.                                                            *)
(*                                                                         *)
(* Callers of log put their event into the recent events and then into the *)
(* channel, two steps.  State updates are put into the channel only: by    *)
(* capture_state, whose previous state is the semantic capture cache, and  *)
(* by a semantic wait, which keeps a previous state of its own.  A page    *)
(* content stands for a semantic root; a crash or a power failure may come *)
(* at any time.                                                            *)
(***************************************************************************)
EXTENDS Naturals, Sequences, FiniteSets

CONSTANTS
    Callers,      \* threads that call AuditLogger::log
    Contents,     \* page contents
    AuditEnvs,    \* environments: dir, maxBytes, durability, capacity of the
                  \* webhook's queue (0: no webhook) and, two bounds, the
                  \* numbers of events logged and of failed writes
    MaxRecent,    \* MAX_RECENT_EVENTS
    MaxRetries    \* max_retries of the webhook sink

ASSUME LogAssumption ==
    /\ "page" \notin Callers
    /\ MaxRecent \in Nat /\ MaxRetries \in Nat
    /\ \A env \in AuditEnvs : /\ env.maxBytes \subseteq Nat /\ env.hook \in Nat
                              /\ env.events \in Nat /\ env.faults \in Nat

VARIABLES
    logEnv,    \* the configuration read by from_env_with
    logged,    \* auxiliary: the number of events so far
    halfway,   \* halfway[c]: the event c has pushed and not yet sent
    recent,    \* recent_events
    channel,   \* messages for the worker
    worker,    \* the event the worker is handing to the sinks, {} or one
    files,     \* the rolling files, oldest first: sequences of pieces
    open,      \* RollingFileState.current_bytes, {} before the first file
    written,   \* auxiliary: events MeteredSink counted as written
    faults,    \* MeteredSink.errors
    hook,      \* the webhook queue
    post,      \* the event being posted and its attempt, {} or one
    received,  \* what the webhook's receiver got
    cache,     \* semantic_capture_cache.last_state, {} or one
    waiter,    \* last_state of a semantic wait, {} or one
    waits,     \* auxiliary: a semantic wait has captured
    alive      \* the process runs

logVars == <<logEnv, logged, halfway, recent, channel, worker, files, open,
             written, faults, hook, post, received, cache, waiter, waits,
             alive>>
fileVars == <<files, open, written, faults>>
hookVars == <<hook, post, received>>
pageVars == <<cache, waiter, waits>>

(* from_env_with: without a usable directory there is no file sink; no     *)
(* readable size, {}, is 10 MiB, which no run here reaches; anything but   *)
(* "sync" flushes.  A webhook is a sink the caller hands to with_sinks.    *)
FromEnv(env) ==
    [file |-> env.dir = "usable",
     max  |-> IF env.maxBytes = {} THEN 100
              ELSE CHOOSE n \in env.maxBytes : TRUE,
     sync |-> env.durability = "sync",
     hook |-> env.hook, events |-> env.events, faults |-> env.faults]

LogInit ==
    /\ logEnv \in {FromEnv(env) : env \in AuditEnvs}
    /\ logged = 0
    /\ halfway = [c \in Callers |-> {}]
    /\ recent = <<>>
    /\ channel = <<>>
    /\ worker = {}
    /\ files = <<>>
    /\ open = {}
    /\ written = {}
    /\ faults = 0
    /\ hook = <<>>
    /\ post = {}
    /\ received = <<>>
    /\ cache = {}
    /\ waiter = {}
    /\ waits = FALSE
    /\ alive = TRUE

-----------------------------------------------------------------------------
(* Callers.  An event is raw until sanitize_audit_event has seen it.       *)

Sanitized(e) == [e EXCEPT !.raw = FALSE]

(* push_recent_event *)
Push(events, e) ==
    LET all == Append(events, e)
        over == IF Len(all) > MaxRecent THEN Len(all) - MaxRecent ELSE 0
    IN  SubSeq(all, over + 1, Len(all))

LogPush(c) ==
    /\ alive /\ halfway[c] = {} /\ logged < logEnv.events
    /\ logged' = logged + 1
    /\ LET e == Sanitized([id |-> logged + 1, by |-> c, kind |-> "call",
                           raw |-> TRUE])
       IN  /\ recent' = Push(recent, e)
           /\ halfway' = [halfway EXCEPT ![c] = {e}]
    /\ UNCHANGED <<logEnv, channel, worker, fileVars, hookVars, pageVars, alive>>

LogSend(c) ==
    /\ alive
    /\ \E e \in halfway[c] : channel' = Append(channel, e)
    /\ halfway' = [halfway EXCEPT ![c] = {}]
    /\ UNCHANGED <<logEnv, logged, recent, worker, fileVars, hookVars,
                   pageVars, alive>>

(* clear_recent_events *)
ClearRecent ==
    /\ alive /\ recent # <<>>
    /\ recent' = <<>>
    /\ UNCHANGED <<logEnv, logged, halfway, channel, worker, fileVars,
                   hookVars, pageVars, alive>>

(* log_state_update; the page may show any content by now.                 *)
StateUpdate(previous, current) ==
    /\ alive /\ logged < logEnv.events
    /\ logged' = logged + 1
    /\ channel' = Append(channel, [id |-> logged + 1, by |-> "page",
                                   kind |-> "update", raw |-> TRUE,
                                   prev |-> previous, cur |-> current])
    /\ UNCHANGED <<logEnv, halfway, recent, worker, fileVars, hookVars, alive>>

(* Mutant: the cache keeps its first state.                                *)
CaptureKeepsCache(content) ==
    /\ StateUpdate(cache, content)
    /\ cache' = IF cache = {} THEN {content} ELSE cache
    /\ UNCHANGED <<waiter, waits>>

(* The cache of another load profile counts for nothing.                   *)
CaptureState(content) ==
    /\ \E previous \in {cache, {}} : StateUpdate(previous, content)
    /\ cache' = {content}
    /\ UNCHANGED <<waiter, waits>>

WaitCaptures(content) ==
    /\ StateUpdate(waiter, content)
    /\ waiter' = {content}
    /\ waits' = TRUE
    /\ UNCHANGED cache

(* The wait is over; a navigation clears the cache.                        *)
WaitEnds ==
    /\ alive /\ waiter # {}
    /\ waiter' = {}
    /\ UNCHANGED <<logEnv, logged, halfway, recent, channel, worker, fileVars,
                   hookVars, cache, waits, alive>>

CacheCleared ==
    /\ alive /\ cache # {}
    /\ cache' = {}
    /\ UNCHANGED <<logEnv, logged, halfway, recent, channel, worker, fileVars,
                   hookVars, waiter, waits, alive>>

-----------------------------------------------------------------------------
(* The worker.                                                             *)

(* build_state_update_event: a snapshot without a previous state, nothing  *)
(* without a change, otherwise a patch.                                    *)
BuildStateUpdate(m) ==
    IF m.prev = {m.cur} THEN {}
    ELSE {[id |-> m.id, by |-> m.by, raw |-> m.raw, from |-> m.prev,
           to |-> m.cur, kind |-> IF m.prev = {} THEN "snapshot" ELSE "patch"]}

(* Mutant: the worker buffers every event.                                 *)
BuffersAll(m) == TRUE

(* should_buffer_event *)
Buffers(m) == m.kind = "update"

WorkerTakes ==
    /\ alive /\ worker = {} /\ channel # <<>>
    /\ channel' = Tail(channel)
    /\ LET m == Head(channel)
           built == IF m.kind = "update" THEN BuildStateUpdate(m) ELSE {m}
       IN  /\ worker' = {[ev |-> Sanitized(e), to |-> "file"] : e \in built}
           /\ recent' = IF built # {} /\ Buffers(m)
                        THEN Push(recent, Sanitized(CHOOSE e \in built : TRUE))
                        ELSE recent
    /\ UNCHANGED <<logEnv, logged, halfway, fileVars, hookVars, pageVars, alive>>

(* Events of two sizes.                                                    *)
EventSize(e) == 1 + (e.id % 2)

(* Mutant: the event itself is not counted.                                *)
NeedsNewTooLate(e) ==
    open = {} \/ (logEnv.max > 0 /\ \E b \in open : b > logEnv.max)

(* RollingFileSink::write opens a file first or when this event would pass *)
(* the limit.                                                              *)
NeedsNew(e) ==
    open = {} \/ (logEnv.max > 0 /\ \E b \in open : b + EventSize(e) > logEnv.max)

(* A piece of a line: whole with its newline, or what a failed write left; *)
(* safe once sync_data has returned.                                       *)
Piece(e, whole, safe) == [ev |-> e, whole |-> whole, safe |-> safe]

(* Mutant: sync_data is not called.                                        *)
AppendUnsynced(fs, p) ==
    [fs EXCEPT ![Len(fs)] = Append(@, [p EXCEPT !.safe = FALSE])]

AppendPiece(fs, p) ==
    [fs EXCEPT ![Len(fs)] =
        Append(IF p.safe THEN [k \in DOMAIN @ |-> [@[k] EXCEPT !.safe = TRUE]]
               ELSE @, p)]

WriteOk(e) ==
    LET fs == IF NeedsNew(e) THEN Append(files, <<>>) ELSE files IN
    /\ files' = AppendPiece(fs, Piece(e, TRUE, logEnv.sync))
    /\ open' = {EventSize(e) + (IF NeedsNew(e) THEN 0 ELSE CHOOSE b \in open : TRUE)}
    /\ written' = written \cup {e.id}
    /\ UNCHANGED faults

(* The file cannot be opened; or write_all stops half way, or the line is  *)
(* there and flush or sync_data fails, and current_bytes keeps its value.  *)
WriteFails(e) ==
    /\ faults < logEnv.faults
    /\ faults' = faults + 1
    /\ \/ NeedsNew(e) /\ UNCHANGED <<files, open>>
       \/ LET fs == IF NeedsNew(e) THEN Append(files, <<>>) ELSE files IN
          /\ \E whole \in BOOLEAN : files' = AppendPiece(fs, Piece(e, whole, FALSE))
          /\ open' = IF NeedsNew(e) THEN {0} ELSE open
    /\ UNCHANGED written

WorkerWrites ==
    /\ alive
    /\ \E w \in worker :
         /\ w.to = "file"
         /\ worker' = {[w EXCEPT !.to = "hook"]}
         /\ IF logEnv.file THEN WriteOk(w.ev) \/ WriteFails(w.ev)
            ELSE UNCHANGED fileVars
    /\ UNCHANGED <<logEnv, logged, halfway, recent, channel, hookVars,
                   pageVars, alive>>

(* Mutant: send instead of try_send.                                       *)
HookTakesBlocking == Len(hook) < logEnv.hook

HookTakes == TRUE

(* WebhookSink::write drops the event when the queue is full.              *)
WorkerPosts ==
    /\ alive
    /\ HookTakes
    /\ \E w \in worker :
         /\ w.to = "hook"
         /\ hook' = IF Len(hook) < logEnv.hook THEN Append(hook, w.ev) ELSE hook
    /\ worker' = {}
    /\ UNCHANGED <<logEnv, logged, halfway, recent, channel, fileVars, post,
                   received, pageVars, alive>>

-----------------------------------------------------------------------------
(* The webhook's sender thread: retry_webhook_post and post_once.          *)

HookNext ==
    /\ alive /\ post = {} /\ hook # <<>>
    /\ post' = {[ev |-> Head(hook), attempt |-> 0]}
    /\ hook' = Tail(hook)
    /\ UNCHANGED <<logEnv, logged, halfway, recent, channel, worker, fileVars,
                   received, pageVars, alive>>

(* Mutant: one attempt too many.                                           *)
RetriesLeftTooMany(p) == p.attempt <= MaxRetries

RetriesLeft(p) == p.attempt < MaxRetries

(* A transport error may come after the receiver took the event; 408, 425, *)
(* 429 and 5xx are tried again too, other statuses are not.                *)
HookPosts ==
    /\ alive
    /\ \E p \in post, got \in BOOLEAN, answer \in {"ok", "retryable", "fatal"} :
         /\ answer = "ok" => got
         /\ answer = "fatal" => ~ got
         /\ received' = IF got THEN Append(received, p.ev) ELSE received
         /\ post' = IF answer = "retryable" /\ RetriesLeft(p)
                    THEN {[p EXCEPT !.attempt = p.attempt + 1]} ELSE {}
    /\ UNCHANGED <<logEnv, logged, halfway, recent, channel, worker, fileVars,
                   hook, pageVars, alive>>

-----------------------------------------------------------------------------
(* The process dies and leaves the files, or power fails and each file     *)
(* keeps at least what was synced.                                         *)

Survives(f, n) == n <= Len(f) /\ \A k \in DOMAIN f : f[k].safe => k <= n

LogCrash ==
    /\ alive
    /\ alive' = FALSE
    /\ halfway' = [c \in Callers |-> {}]
    /\ recent' = <<>> /\ channel' = <<>> /\ worker' = {}
    /\ hook' = <<>> /\ post' = {}
    /\ \/ UNCHANGED files
       \/ \E keep \in [DOMAIN files -> 0..logged] :
            /\ \A n \in DOMAIN files : Survives(files[n], keep[n])
            /\ files' = [n \in DOMAIN files |-> SubSeq(files[n], 1, keep[n])]
    /\ UNCHANGED <<logEnv, logged, open, written, faults, received, pageVars>>

Worker == WorkerTakes \/ WorkerWrites \/ WorkerPosts

LogNext ==
    \/ \E c \in Callers : LogPush(c) \/ LogSend(c)
    \/ \E content \in Contents : CaptureState(content) \/ WaitCaptures(content)
    \/ ClearRecent \/ WaitEnds \/ CacheCleared
    \/ Worker \/ HookNext \/ HookPosts \/ LogCrash

(* The threads of the logger run; nothing is assumed of the receiver.      *)
LogFairness == WF_logVars(Worker) /\ WF_logVars(\E c \in Callers : LogSend(c))

LogSpec == LogInit /\ [][LogNext]_logVars

-----------------------------------------------------------------------------
(* Reading back.  The pieces are named by their file and their place in it, *)
(* and read in this order.                                                 *)

Pieces == UNION {{n} \X DOMAIN files[n] : n \in DOMAIN files}
PieceAt(p) == files[p[1]][p[2]]

Sooner(p, q) == p[1] < q[1] \/ (p[1] = q[1] /\ p[2] < q[2])

(* _parse_ndjson: a line is readable when nothing torn precedes it on it.  *)
ReadableIn(f) ==
    {k \in DOMAIN f : f[k].whole /\ (k = 1 \/ f[k - 1].whole)}

(* The bytes of the lines of a file, up to each of them.                   *)
Bytes(f) ==
    LET upTo[k \in 0..Len(f)] ==
            IF k = 0 THEN 0 ELSE upTo[k - 1] + EventSize(f[k].ev)
    IN  upTo

(* replay_events: what is on file of the states, and the update that       *)
(* decides what an update at p meets.                                      *)
Updates == {p \in Pieces : PieceAt(p).ev.kind # "call"}

LastBefore(q, p) ==
    /\ q \in Updates /\ Sooner(q, p)
    /\ \A r \in Updates : Sooner(r, p) => r = q \/ Sooner(r, q)

(* A patch needs a snapshot and is applied to the state it was made        *)
(* against; otherwise it fails or leads to a state that never was.         *)
Applies(p) ==
    PieceAt(p).ev.kind = "patch" =>
        \E q \in Updates : LastBefore(q, p) /\ PieceAt(p).ev.from = {PieceAt(q).ev.to}

-----------------------------------------------------------------------------

(* Every event counted as written is in the files exactly once, and as     *)
(* long as no write failed the files hold whole lines, no file is longer   *)
(* than the limit unless it holds a single event, and what one thread      *)
(* logged is there in the order it was logged.                             *)
FilesTellTheLog ==
    /\ alive => \A id \in written :
         Cardinality({p \in Pieces : PieceAt(p).whole /\ PieceAt(p).ev.id = id}) = 1
    /\ faults = 0 =>
         /\ \A p \in Pieces : PieceAt(p).whole
         /\ \A n \in DOMAIN files :
              Len(files[n]) > 1 /\ logEnv.max > 0 =>
                  Bytes(files[n])[Len(files[n])] <= logEnv.max
         /\ \A p, q \in Pieces :
              Sooner(p, q) /\ PieceAt(p).ev.by = PieceAt(q).ev.by =>
                  PieceAt(p).ev.id < PieceAt(q).ev.id

(* With AUDIT_DURABILITY=sync an event counted as written is still in the  *)
(* files, whole and on a line of its own unless an earlier write on its    *)
(* file failed, after the process died or the power failed.                *)
SyncSurvives ==
    logEnv.sync => \A id \in written : \E p \in Pieces :
        /\ PieceAt(p).whole /\ PieceAt(p).ev.id = id
        /\ faults = 0 => p[2] \in ReadableIn(files[p[1]])

(* What is in a sequence.                                                  *)
In(s) == {s[k] : k \in DOMAIN s}

(* The recent events hold no event twice, those of one thread in order,    *)
(* and none that still has to be sanitized; nor do the sinks.              *)
RecentIsFaithful ==
    /\ \A i, j \in DOMAIN recent :
         i < j /\ recent[i].by = recent[j].by => recent[i].id < recent[j].id
    /\ \A e \in In(recent) \cup In(hook) \cup In(received)
              \cup {PieceAt(p).ev : p \in Pieces} : ~ e.raw

(* The receiver of the webhook gets the events of one thread in order,     *)
(* each at most once per attempt and repeats only next to each other.      *)
HookKeepsOrder ==
    \A i, j \in DOMAIN received : i < j =>
        /\ received[i].by = received[j].by => received[i].id <= received[j].id
        /\ received[i] = received[j] => /\ j - i <= MaxRetries
                                        /\ received[j - 1] = received[i]

(* The files of a session that never waited on a semantic state can be     *)
(* replayed: every patch meets the state it was made against.              *)
CapturesReplay ==
    faults = 0 /\ ~ waits /\ alive => \A p \in Updates : Applies(p)

(* The log tells what happened: in its files, after a crash, in its recent *)
(* events, to the webhook, and when it is replayed.                        *)
LogIsFaithful ==
    /\ FilesTellTheLog /\ SyncSurvives
    /\ RecentIsFaithful /\ HookKeepsOrder
    /\ CapturesReplay

(* An event handed to the channel is offered to the sinks however long the *)
(* webhook's receiver takes.                                               *)
LogDrains == channel # <<>> ~> (channel = <<>> \/ ~ alive)

-----------------------------------------------------------------------------
(* The strengthening that makes LogIsFaithful inductive.                   *)

CallEvents == [id : Nat, by : Callers, kind : {"call"}, raw : {FALSE}]
UpdateEvents == [id : Nat, by : {"page"}, raw : {FALSE}, from : SUBSET Contents,
                 to : Contents, kind : {"snapshot", "patch"}]
LogEvents == CallEvents \cup UpdateEvents
Messages == [id : Nat, by : {"page"}, kind : {"update"}, raw : {TRUE},
             prev : SUBSET Contents, cur : Contents]

LogTypeOK ==
    /\ logEnv \in [file : BOOLEAN, max : Nat, sync : BOOLEAN, hook : Nat,
                  events : Nat, faults : Nat]
    /\ logged \in Nat /\ faults \in Nat
    /\ halfway \in [Callers -> SUBSET CallEvents]
    /\ \A c \in Callers : \A e \in halfway[c] : e.by = c
    /\ recent \in Seq(LogEvents)
    /\ channel \in Seq(CallEvents \cup Messages)
    /\ worker \subseteq [ev : LogEvents, to : {"file", "hook"}]
    /\ files \in Seq(Seq([ev : LogEvents, whole : BOOLEAN, safe : BOOLEAN]))
    /\ open \subseteq Nat
    /\ hook \in Seq(LogEvents) /\ received \in Seq(LogEvents)
    /\ post \subseteq [ev : LogEvents, attempt : 0..MaxRetries]
    /\ cache \subseteq Contents /\ waiter \subseteq Contents
    /\ waits \in BOOLEAN /\ alive \in BOOLEAN

(* There is at most one of what a set stands in for.                       *)
SinglesOK ==
    /\ \A v, w \in worker : v = w
    /\ \A p, q \in post : p = q
    /\ \A a, b \in open : a = b

(* Where events are on their way, last stop first.                         *)
Filed == {PieceAt(p).ev : p \in Pieces}
WithWorker == {w.ev : w \in worker}
Posted == {p.ev : p \in post}
Halfway == UNION {halfway[c] : c \in Callers}

(* Of what one thread logged, all in S came before all in T.               *)
Ahead(S, T) == \A e \in S, f \in T : e.by = f.by => e.id < f.id

Ascending(s) == \A i, j \in DOMAIN s : i < j /\ s[i].by = s[j].by => s[i].id < s[j].id

(* Nothing overtakes on the way to the files and to the webhook.           *)
OrderKept ==
    /\ Ascending(recent) /\ Ascending(channel) /\ Ascending(hook)
    /\ \A i, j \in DOMAIN received :
         i < j /\ received[i].by = received[j].by => received[i].id <= received[j].id
    /\ \A p, q \in Pieces :
         Sooner(p, q) /\ PieceAt(p).ev.by = PieceAt(q).ev.by =>
             PieceAt(p).ev.id < PieceAt(q).ev.id
    /\ Ahead(Filed \cup WithWorker, In(channel) \cup Halfway)
    /\ Ahead(Filed, {w.ev : w \in {v \in worker : v.to = "file"}})
    /\ Ahead(In(channel), Halfway)
    /\ Ahead({e \in In(recent) : e.by = "page"}, In(channel))
    /\ Ahead(In(received) \cup Posted, In(hook) \cup WithWorker \cup In(channel) \cup Halfway)
    /\ Ahead(In(hook), WithWorker \cup In(channel) \cup Halfway)
    /\ \A e \in In(received), f \in Posted : e.by = f.by => e.id <= f.id

(* Ids are counted, and belong to one thread.                              *)
IdsOK ==
    LET under == Filed \cup WithWorker \cup In(channel) \cup Halfway
    IN  /\ \A e \in under \cup In(recent) \cup In(hook) \cup In(received) \cup Posted :
              e.id <= logged
        /\ \A e, f \in under : e.id = f.id => e.by = f.by

(* A line posted again is the last that was received, as often as tried.   *)
RetriesOK ==
    /\ \A p \in post : \A i \in DOMAIN received : received[i] = p.ev =>
           /\ Len(received) - i < p.attempt
           /\ received[Len(received)] = p.ev
    /\ HookKeepsOrder

(* What was written is whole, and safe if it was synced; the file that is  *)
(* open is the last one and its bytes are counted.                         *)
WritesOK ==
    /\ alive \/ logEnv.sync => \A id \in written : \E p \in Pieces :
         /\ PieceAt(p).whole /\ PieceAt(p).ev.id = id
         /\ logEnv.sync => PieceAt(p).safe
    /\ open # {} => files # <<>>
    /\ faults = 0 =>
         /\ \A p \in Pieces : PieceAt(p).whole
         /\ alive => \A b \in open : b = Bytes(files[Len(files)])[Len(files[Len(files)])]
         /\ \A n \in DOMAIN files : Len(files[n]) > 1 /\ logEnv.max > 0 =>
              Bytes(files[n])[Len(files[n])] <= logEnv.max

(* The state a replay would reach with the last update on file, and with   *)
(* the one the worker has yet to write.                                    *)
Reached == {PieceAt(p).ev.to : p \in {q \in Updates : \A r \in Updates : r = q \/ Sooner(r, q)}}

InHand == {w.ev : w \in {v \in worker : v.to = "file" /\ v.ev.kind # "call"}}

ReachedNext == IF InHand = {} THEN Reached ELSE {e.to : e \in InHand}

(* x is nothing or the state after what is ahead of place k of the channel. *)
Continues(x, k) ==
    \/ x = {}
    \/ \E j \in 1..(k - 1) :
          /\ channel[j].kind = "update" /\ x = {channel[j].cur}
          /\ \A i \in (j + 1)..(k - 1) : channel[i].kind # "update"
    \/ x = ReachedNext /\ \A i \in 1..(k - 1) : channel[i].kind # "update"

(* The chain of updates is unbroken from the first on file to the cache.   *)
ChainOK ==
    faults = 0 /\ ~ waits /\ alive /\ logEnv.file =>
        /\ \A p \in Updates : Applies(p)
        /\ \A e \in InHand : e.kind = "patch" => e.from = Reached /\ e.from # {}
        /\ \A k \in DOMAIN channel :
             channel[k].kind = "update" => Continues(channel[k].prev, k)
        /\ Continues(cache, Len(channel) + 1)

(* The inductive invariant behind LogIsFaithful.                           *)
LogInv ==
    /\ LogTypeOK /\ SinglesOK /\ OrderKept /\ IdsOK /\ RetriesOK /\ WritesOK /\ ChainOK
    /\ ~ logEnv.file => files = <<>>
=============================================================================
