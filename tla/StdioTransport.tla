--------------------------- MODULE StdioTransport ---------------------------
(***************************************************************************)
(* The stdio loop of dragon-head-mcp (mcp-server/src/main.rs) and the      *)
(* JSON-RPC layer under it (handle_jsonrpc in server.rs, protocol.rs):     *)
(* lines of at most MaxLine bytes are read, answered or not, one after the *)
(* other, until the client closes stdin or stdout.                         *)
(*                                                                         *)
(* A line is what the client wrote: kind, id (0 for null or none), arg and *)
(* size in bytes without its newline.  Of its text only this counts: a     *)
(* piece of a line that is not all of it is not JSON.                      *)
(***************************************************************************)
EXTENDS Naturals, Sequences

CONSTANTS
    ClientLines,   \* lines a client may write
    MaxLine,       \* MAX_REQUEST_LINE_BYTES
    MaxLines       \* bound: lines of a session

(* What a line is, when all of it is read: not JSON or not text, blank, a  *)
(* notification of the client's, or one of the requests.                   *)
LineKinds ==
    {"not_utf8", "malformed", "blank", "initialized", "initialize", "list", "call",
     "bad_arguments", "no_name", "unknown_tool", "unsupported"}

ASSUME StdioAssumption ==
    /\ MaxLine \in Nat \ {0} /\ MaxLines \in Nat
    /\ \A line \in ClientLines : line.size \in Nat /\ line.kind \in LineKinds

VARIABLES
    script,     \* the lines the client writes before it closes stdin
    unended,    \* the last one has no newline
    stdin,      \* [line, offset]: the next byte to read
    stdioAt,    \* start, read, drain, handle, write, ended or failed
    piece,      \* the bytes read: [line, from, to]
    answer,     \* the response about to be written
    answers,    \* what stdout got
    ran         \* history: lines whose tool call was executed

stdioVars == <<script, unended, stdin, stdioAt, piece, answer, answers, ran>>

NoPiece == [line |-> 0, from |-> 0, to |-> 0]
Silence == [id |-> 0, says |-> "nothing"]

StdioInit ==
    /\ script \in UNION {[1..n -> ClientLines] : n \in 0..MaxLines}
    /\ unended \in BOOLEAN
    /\ stdin = [line |-> 1, offset |-> 0]
    /\ stdioAt = "start"
    /\ piece = NoPiece /\ answer = Silence
    /\ answers = <<>> /\ ran = <<>>

(* build_server, all of it or nothing; its parts are modules of their own  *)
StartUp ==
    /\ stdioAt = "start"
    /\ stdioAt' \in {"read", "failed"}
    /\ UNCHANGED <<script, unended, stdin, piece, answer, answers, ran>>

-----------------------------------------------------------------------------
(* read_capped_line.                                                       *)

HasNewline == stdin.line <= Len(script) /\ ~(unended /\ stdin.line = Len(script))

(* bytes up to and with the newline, or to the end of the input *)
Available ==
    IF stdin.line > Len(script) THEN 0
    ELSE script[stdin.line].size - stdin.offset + IF HasNewline THEN 1 ELSE 0

(* read_until of a reader that take() limits *)
Taken == IF Available < MaxLine THEN Available ELSE MaxLine

EndsLine == HasNewline /\ Taken = Available

After(n) == IF EndsLine THEN [line |-> stdin.line + 1, offset |-> 0]
            ELSE [stdin EXCEPT !.offset = @ + n]

ReadCappedLine ==
    /\ stdioAt = "read"
    /\ stdin' = After(Taken)
    /\ stdioAt' = CASE Taken = 0 -> "ended"
                    [] Taken > 0 /\ (EndsLine \/ Taken < MaxLine) -> "handle"
                    [] OTHER -> "drain"
    /\ piece' = [line |-> stdin.line, from |-> stdin.offset,
                 to |-> stdin.offset + Taken - IF EndsLine THEN 1 ELSE 0]
    /\ UNCHANGED <<script, unended, answer, answers, ran>>

(* Mutant: one more read is taken to be the rest of the line.              *)
DrainedAtOnce == TRUE

Drained == Taken = 0 \/ EndsLine

StdioResponds(r) == stdioAt' = "write" /\ answer' = r

Drain ==
    /\ stdioAt = "drain"
    /\ stdin' = After(Taken)
    /\ IF Drained THEN StdioResponds([id |-> 0, says |-> "-32600"])
       ELSE UNCHANGED <<stdioAt, answer>>
    /\ UNCHANGED <<script, unended, piece, answers, ran>>

ReadError ==
    /\ stdioAt \in {"read", "drain"}
    /\ stdioAt' = "ended"
    /\ UNCHANGED <<script, unended, stdin, piece, answer, answers, ran>>

-----------------------------------------------------------------------------
(* A line of the session: UTF-8, blank, JSON-RPC.                          *)

Whole(p) == p.from = 0 /\ p.to = script[p.line].size

Request == IF Whole(piece) THEN script[piece.line]
           ELSE [kind |-> "malformed", id |-> 0, arg |-> "", size |-> 0]

SupportedProtocolVersions == {"2025-11-25", "2025-06-18"}

NegotiateProtocolVersion(requested) ==
    IF requested \in SupportedProtocolVersions THEN requested ELSE "2025-11-25"

(* Mutant: a notification is dropped before its method is looked at.       *)
RunsUnlessNotified(r) == r.kind = "call" /\ r.id # 0

(* call_tool_output: a known tool; its arguments are checked there first   *)
Runs(r) == r.kind = "call"

(* what the methods say, before it is known whether anybody is told *)
Says(r) ==
    CASE r.kind = "initialize" -> {NegotiateProtocolVersion(r.arg)}
      [] r.kind = "list" -> {"result"}
      [] r.kind = "call" -> {"result", "-32000"}
      [] r.kind \in {"bad_arguments", "no_name"} -> {"-32602"}
      [] r.kind \in {"unknown_tool", "unsupported"} -> {"-32601"}
      [] OTHER -> {"nothing"}

(* parse errors go to id null; a null id is a notification *)
Answers(r) ==
    IF r.kind \in {"not_utf8", "malformed"} THEN {[id |-> 0, says |-> "-32700"]}
    ELSE IF r.id = 0 THEN {Silence}
    ELSE {IF s = "nothing" THEN Silence ELSE [id |-> r.id, says |-> s] : s \in Says(r)}

HandleJsonrpc ==
    /\ stdioAt = "handle"
    /\ \E a \in Answers(Request) :
          IF a = Silence THEN stdioAt' = "read" /\ UNCHANGED answer ELSE StdioResponds(a)
    /\ ran' = IF Runs(Request) THEN Append(ran, piece.line) ELSE ran
    /\ UNCHANGED <<script, unended, stdin, piece, answers>>

(* writeln! and flush; an error ends main *)
Write ==
    /\ stdioAt = "write"
    /\ \/ stdioAt' = "read" /\ answers' = Append(answers, answer)
       \/ stdioAt' = "failed" /\ UNCHANGED answers
    /\ answer' = Silence
    /\ UNCHANGED <<script, unended, stdin, piece, ran>>

StdioNext ==
    StartUp \/ ReadCappedLine \/ Drain \/ HandleJsonrpc \/ Write \/ ReadError

StdioSpec == StdioInit /\ [][StdioNext]_stdioVars

-----------------------------------------------------------------------------
(* How many lines were read completely, and which lines fit.               *)
Done == IF stdin.offset > 0 THEN stdin.line ELSE stdin.line - 1
Fits(k) == script[k].size < MaxLine

(* The lines of a set, up to a line, in their order.                       *)
InOrder(lines) ==
    LET upTo[n \in 0..Len(script)] ==
            IF n = 0 THEN <<>>
            ELSE IF n \in lines THEN Append(upTo[n - 1], n) ELSE upTo[n - 1]
    IN  upTo

(* The lines that are owed an answer, and to whom; the lines that call.    *)
Answered(k) == Fits(k) /\ script[k].kind \notin {"not_utf8", "malformed"}
IdOf(k) == IF Answered(k) THEN script[k].id ELSE 0
Asking ==
    {k \in 1..Len(script) :
        ~Answered(k) \/ (script[k].id # 0 /\ script[k].kind \notin {"initialized", "blank"})}
Calling == {k \in 1..Len(script) : Fits(k) /\ script[k].kind = "call"}

(* Between two lines the client has had one answer for every line that was *)
(* too long or no request and for every request with an id, in their       *)
(* order, to that id; an over-long line cost one answer however long it    *)
(* was.  (notifications/initialized is never answered, even with an id.)   *)
OneAnswerEach ==
    stdioAt = "read" =>
        LET due == InOrder(Asking)[Done]
        IN  /\ Len(answers) = Len(due)
            /\ \A k \in DOMAIN due : answers[k].id = IdOf(due[k])

(* Every tools/call that fits a line is executed once and in order, a      *)
(* notification too, and nothing else is: not the end of an over-long one. *)
CallsRunOnce == stdioAt = "read" => ran = InOrder(Calling)[Done]

(* Requests and answers stay in step, whatever the lines between them.     *)
StdioKeepsStep == OneAnswerEach /\ CallsRunOnce

(* The strengthening that makes it inductive: where the reader stands in   *)
(* the input, and up to which line it has run, answered and written, at    *)
(* each place of the loop.                                                 *)
Sayings == {"nothing", "result", "-32000", "-32600", "-32601", "-32602", "-32700"}
             \cup SupportedProtocolVersions
Replies == [id : {0} \cup {line.id : line \in ClientLines}, says : Sayings]

AtTheEnd == unended /\ stdin.line = Len(script) /\ stdin.offset = script[stdin.line].size

StandsWell ==
    /\ script \in Seq(ClientLines) /\ unended \in BOOLEAN
    /\ stdin \in [line : 1 .. Len(script) + 1, offset : Nat]
    /\ stdin.line <= Len(script) => stdin.offset <= script[stdin.line].size
    /\ stdin.line > Len(script) => stdin.offset = 0

AnsweredTo(n) ==
    LET due == InOrder(Asking)[n]
    IN  /\ due \in Seq(Nat) /\ answers \in Seq(Replies)
        /\ Len(answers) = Len(due)
        /\ \A k \in DOMAIN due : answers[k].id = IdOf(due[k])

RanTo(n) == ran = InOrder(Calling)[n]

StdioInv ==
    /\ StandsWell /\ answer \in Replies
    /\ stdioAt \in {"start", "read", "drain", "handle", "write", "ended", "failed"}
    /\ stdioAt = "start" =>
         stdin = [line |-> 1, offset |-> 0] /\ answers = <<>> /\ ran = <<>>
    /\ stdioAt = "read" =>
         /\ stdin.offset = 0 \/ AtTheEnd
         /\ AnsweredTo(Done) /\ RanTo(Done)
    /\ stdioAt = "handle" =>
         /\ stdin.offset = 0 \/ AtTheEnd
         /\ Done >= 1 /\ Fits(Done)
         /\ piece = [line |-> Done, from |-> 0, to |-> script[Done].size]
         /\ AnsweredTo(Done - 1) /\ RanTo(Done - 1)
    /\ stdioAt = "drain" =>
         /\ stdin.offset > 0 /\ ~Fits(Done)
         /\ AnsweredTo(Done - 1) /\ RanTo(Done - 1)
    /\ stdioAt = "write" =>
         /\ stdin.offset = 0 \/ AtTheEnd
         /\ Done \in Asking /\ answer.id = IdOf(Done)
         /\ AnsweredTo(Done - 1) /\ RanTo(Done)
=============================================================================
