-------------------------- MODULE BridgeAuditTrail --------------------------
(***************************************************************************)
(* The append-only audit file of the HITL bridge and the three places      *)
(* where record looks for an id before it appends: the records remembered  *)
(* in memory, the index directory beside the file, and the file itself.    *)
(*                                                                         *)
(* One mutex covers a whole call, so calls do not interleave; a crash may  *)
(* fall between any two of its steps.  The file is the sequence of what    *)
(* reached it: the text of a record and its newline are separate writes    *)
(* (writeln! on an unbuffered File), and a write may stop half way.        *)
(***************************************************************************)
EXTENDS Naturals, Sequences

CONSTANTS
    RequestIds,  \* request ids
    Contents,    \* everything else an AuditRecord holds
    CacheSize,   \* MAX_RECENT_AUDIT_RECORDS (1024 in the code)
    Scenarios,   \* which faults may come together, see FaultKinds
    MaxCalls,    \* bound: calls of prepare, verify_writable and record
    MaxCrashes   \* bound: crashes

(* torn: a line is written in part; sync: sync_all fails; power: a crash   *)
(* loses what was not synced; replay: an id of an earlier process is       *)
(* submitted again, which the bridge itself never does.                    *)
FaultKinds == {"torn", "sync", "power", "replay"}

ASSUME TrailAssumption ==
    /\ CacheSize \in Nat \ {0}
    /\ Scenarios \subseteq SUBSET FaultKinds
    /\ MaxCalls \in Nat
    /\ MaxCrashes \in Nat

(* AuditRecord; its digest is as good as the record itself.                *)
AuditRecords == [id : RequestIds, decision : Contents]

Chunks == [kind : {"text", "torn", "newline"}, rec : SUBSET AuditRecords]

VARIABLES
    file,         \* what the trail file holds
    synced,       \* auxiliary: how much of it is on disk
    index,        \* digest in the index directory, per id: {} or one
    initialized,  \* AuditState.initialized
    persistent,   \* AuditState.persistent_index
    recent,       \* AuditState.recent_records
    pc,           \* where the call that holds the mutex is
    cur,          \* its record; {} for prepare and verify_writable
    acked,        \* auxiliary: records for which record returned Ok
    old,          \* auxiliary: ids submitted to an earlier process
    mine,         \* auxiliary: ids submitted to this one
    calls,        \* auxiliary: calls so far
    crashes,      \* auxiliary: crashes so far
    faults        \* the faults of this behaviour, constant

diskVars == <<file, synced, index>>
memVars == <<initialized, persistent, recent>>
callerVars == <<old, mine, calls, faults>>
trailVars == <<diskVars, memVars, pc, cur, acked, callerVars, crashes>>

TrailInit ==
    /\ file = <<>>
    /\ synced = 0
    /\ index = [i \in RequestIds |-> {}]
    /\ initialized = FALSE
    /\ persistent = FALSE
    /\ recent = <<>>
    /\ pc = "idle"
    /\ cur = {}
    /\ acked = {}
    /\ old = {}
    /\ mine = {}
    /\ calls = 0
    /\ crashes = 0
    /\ faults \in Scenarios

(* A line parses if it is the text of one record and nothing else; the     *)
(* last one may lack its newline.                                          *)
Readable(k) ==
    /\ file[k].kind = "text"
    /\ k = 1 \/ file[k - 1].kind = "newline"
    /\ k = Len(file) \/ file[k + 1].kind = "newline"

(* The record whose text it is.                                            *)
Rec(k) == CHOOSE r \in file[k].rec : TRUE

(* What reading the first n chunks, line by line, yields.                  *)
LinesTo[n \in 0 .. Len(file)] ==
    IF n = 0 THEN <<>>
    ELSE IF Readable(n) THEN Append(LinesTo[n - 1], Rec(n))
    ELSE LinesTo[n - 1]

(* The records that prepare_locked, find_record_in_history and read_all    *)
(* see, in file order.                                                     *)
Lines == LinesTo[Len(file)]

OnFile == {Lines[i] : i \in 1 .. Len(Lines)}

(* Mutant: > for >= when the oldest record is dropped.                     *)
RememberOneMore(rs) ==
    LET all == recent \o rs
    IN  IF Len(all) <= CacheSize + 1 THEN all
        ELSE SubSeq(all, Len(all) - CacheSize, Len(all))

(* AuditState::remember, for several records one after the other.          *)
Remember(rs) ==
    LET all == recent \o rs
    IN  IF Len(all) <= CacheSize THEN all
        ELSE SubSeq(all, Len(all) - CacheSize + 1, Len(all))

GoTo(label) == pc' = label /\ UNCHANGED <<cur, acked>>

Fail == pc' = "idle" /\ cur' = {} /\ UNCHANGED acked

Succeed == pc' = "idle" /\ cur' = {} /\ acked' = acked \cup cur

-----------------------------------------------------------------------------
(* Callers: prepare before the gateway is changed, verify_writable at      *)
(* startup, record after it.  A record may be submitted again, and another *)
(* decision for its id too.                                                *)
Call ==
    /\ pc = "idle"
    /\ calls < MaxCalls
    /\ calls' = calls + 1
    /\ \/ cur' = {} /\ UNCHANGED mine
       \/ \E r \in AuditRecords :
            /\ r.id \in old => "replay" \in faults
            /\ cur' = {r}
            /\ mine' = mine \cup {r.id}
    /\ pc' = "prepare"
    /\ UNCHANGED <<diskVars, memVars, acked, old, faults, crashes>>

(* prepare_locked: n lines are read before the end or an error, and the    *)
(* index is written for the first w of them, until a write fails.          *)
PrepareLocked ==
    /\ pc = "prepare"
    /\ IF initialized
       THEN /\ IF cur = {} THEN Succeed ELSE GoTo("lookup")
            /\ UNCHANGED <<index, memVars>>
       ELSE \E n \in 0 .. Len(Lines), w \in 0 .. Len(Lines), p \in BOOLEAN :
              /\ w <= n /\ (~ p => w = 0)
              /\ index' = [i \in RequestIds |->
                             IF \E j \in 1 .. w : Lines[j].id = i
                             THEN {Lines[j] : j \in
                                     {k \in 1 .. w : Lines[k].id = i}}
                             ELSE index[i]]
              /\ persistent' = (p /\ w = n)
              /\ recent' = Remember(SubSeq(Lines, 1, n))
              /\ \/ /\ n = Len(Lines)
                    /\ initialized' = TRUE
                    /\ IF cur = {} THEN Succeed ELSE GoTo("lookup")
                 \/ /\ UNCHANGED initialized
                    /\ Fail
    /\ UNCHANGED <<file, synced, callerVars, crashes>>

(* Where record looks an id up: memory, then the index, then the file.     *)
Cached(id) == {recent[k] : k \in {j \in 1 .. Len(recent) : recent[j].id = id}}

(* Mutant: the in-memory records alone are consulted.                      *)
KnownFromMemory(id) == Cached(id)

Known(id) ==
    IF Cached(id) # {} THEN Cached(id)
    ELSE IF persistent THEN index[id]
    ELSE {r \in OnFile : r.id = id}

Lookup ==
    /\ pc = "lookup"
    /\ \E r \in cur :
         \/ Fail
         \/ r \in Known(r.id) /\ GoTo("resync")
         \/ Known(r.id) = {} /\ GoTo("write")
    /\ UNCHANGED <<diskVars, memVars, callerVars, crashes>>

(* writeln!: the text,                                                     *)
WriteText ==
    /\ pc = "write"
    /\ \/ /\ file' = Append(file, [kind |-> "text", rec |-> cur])
          /\ GoTo("newline")
       \/ /\ "torn" \in faults
          /\ file' = Append(file, [kind |-> "torn", rec |-> cur])
          /\ Fail
       \/ Fail /\ UNCHANGED file
    /\ UNCHANGED <<synced, index, memVars, callerVars, crashes>>

(* ... and the newline; then the record is remembered.                     *)
WriteNewline ==
    /\ pc = "newline"
    /\ \/ /\ file' = Append(file, [kind |-> "newline", rec |-> {}])
          /\ \E r \in cur : recent' = Remember(<<r>>)
          /\ GoTo("sync")
       \/ /\ "torn" \in faults
          /\ Fail
          /\ UNCHANGED <<file, recent>>
    /\ UNCHANGED <<synced, index, initialized, persistent, callerVars, crashes>>

(* Mutant: the answer is given before the file is synced.                  *)
SyncLater ==
    /\ pc = "sync"
    /\ GoTo("index")
    /\ UNCHANGED <<diskVars, memVars, callerVars, crashes>>

(* sync_all *)
Sync ==
    /\ pc = "sync"
    /\ \/ synced' = Len(file) /\ GoTo("index")
       \/ "sync" \in faults /\ Fail /\ UNCHANGED synced
    /\ UNCHANGED <<file, index, memVars, callerVars, crashes>>

(* A known record is synced again before it is acknowledged.               *)
Resync ==
    /\ pc = "resync"
    /\ \/ synced' = Len(file) /\ Succeed
       \/ "sync" \in faults /\ Fail /\ UNCHANGED synced
    /\ UNCHANGED <<file, index, memVars, callerVars, crashes>>

WriteIndex ==
    /\ pc = "index"
    /\ \E r \in cur :
         \/ /\ persistent
            /\ index' = [index EXCEPT ![r.id] = {r}]
            /\ UNCHANGED persistent
         \/ persistent' = FALSE /\ UNCHANGED index
    /\ Succeed
    /\ UNCHANGED <<file, synced, initialized, recent, callerVars, crashes>>

(* How much of the file a power failure may leave.                         *)
Cuts == {n \in synced .. Len(file) :
           n = 0 \/ file[n].kind = "newline" \/ "torn" \in faults}

(* The process dies and starts again.  A power failure keeps what was      *)
(* synced and any part of the rest; index files are never synced.          *)
Crash ==
    /\ crashes < MaxCrashes
    /\ crashes' = crashes + 1
    /\ pc = "newline" => "torn" \in faults
    /\ \/ UNCHANGED diskVars
       \/ /\ "power" \in faults
          /\ \E n \in Cuts : file' = SubSeq(file, 1, n)
          /\ \E lost \in SUBSET RequestIds :
               index' = [i \in RequestIds |-> IF i \in lost THEN {} ELSE index[i]]
          /\ UNCHANGED synced
    /\ initialized' = FALSE
    /\ persistent' = FALSE
    /\ recent' = <<>>
    /\ old' = old \cup mine
    /\ mine' = {}
    /\ Fail
    /\ UNCHANGED <<calls, faults>>

TrailNext ==
    \/ Call \/ PrepareLocked \/ Lookup \/ WriteText \/ WriteNewline \/ Sync
    \/ Resync \/ WriteIndex \/ Crash

TrailSpec == TrailInit /\ [][TrailNext]_trailVars

-----------------------------------------------------------------------------
Pcs == {"idle", "prepare", "lookup", "write", "newline", "sync", "resync",
        "index"}

(* Type invariant.                                                         *)
TrailTypeOK ==
    /\ file \in Seq(Chunks)
    /\ synced \in 0 .. Len(file)
    /\ index \in [RequestIds -> SUBSET AuditRecords]
    /\ initialized \in BOOLEAN
    /\ persistent \in BOOLEAN
    /\ recent \in Seq(AuditRecords)
    /\ Len(recent) <= CacheSize
    /\ pc \in Pcs
    /\ cur \in SUBSET AuditRecords
    /\ acked \in SUBSET AuditRecords
    /\ old \subseteq RequestIds
    /\ mine \subseteq RequestIds
    /\ calls \in Nat
    /\ crashes \in Nat
    /\ faults \in Scenarios

(* An id has at most one readable record, hence one decision: not after a  *)
(* retry, not when memory has forgotten it, the index is gone or stale, or *)
(* the process was restarted half way through a call or a recovery.        *)
(* Sync errors are excepted: they leave a record that the index misses.    *)
OneRecordPerId ==
    "sync" \notin faults =>
        \A j, k \in 1 .. Len(Lines) : Lines[j].id = Lines[k].id => j = k

(* As long as lines are written whole, an acknowledged record can be read  *)
(* back, whatever crashed or lost power since.  Replaying an id after a    *)
(* power failure is excepted: its index file may outlive its line.         *)
AckedSurvives ==
    "torn" \notin faults /\ ~ {"power", "replay"} \subseteq faults =>
        acked \subseteq OnFile

-----------------------------------------------------------------------------
(* The strengthening that makes the two inductive.                         *)

(* The text of a record at the beginning of a line, and one whose newline  *)
(* reached the file.                                                       *)
Begins(k) == file[k].kind = "text" /\ (k = 1 \/ file[k - 1].kind = "newline")
Complete(k) == Begins(k) /\ k < Len(file) /\ file[k + 1].kind = "newline"

Places == 1 .. Len(file)
Whole == {Rec(k) : k \in {j \in Places : Complete(j)}}

(* A call holds its record while it is under way, and knows where in the   *)
(* file it has put it.                                                     *)
CallOK ==
    /\ pc = "idle" => cur = {}
    /\ \A r \in cur : /\ cur = {r}
                      /\ r.id \in mine
                      /\ "replay" \notin faults => r.id \notin old
    /\ pc \notin {"idle", "prepare"} => initialized /\ cur # {}
    /\ pc = "newline" => file # <<>> /\ file[Len(file)] = [kind |-> "text", rec |-> cur]
    /\ pc \in {"sync", "index"} =>
         /\ Len(file) > 1
         /\ file[Len(file)].kind = "newline"
         /\ file[Len(file) - 1] = [kind |-> "text", rec |-> cur]

(* What is on disk was submitted.                                          *)
DiskOK ==
    /\ \A k \in Places : file[k].kind = "text" =>
         \E r \in AuditRecords : file[k].rec = {r} /\ r.id \in old \cup mine
    /\ \A i \in RequestIds : index[i] # {} => i \in old \cup mine

(* However the file is cut, a line that begins has no complete one of its  *)
(* id before it; the index that is relied on misses no complete line but   *)
(* the one being recorded.                                                 *)
UniqueOK ==
    "sync" \notin faults =>
        /\ \A j, k \in Places : j < k /\ Complete(j) /\ Begins(k) => Rec(j).id # Rec(k).id
        /\ initialized /\ persistent =>
             \A j \in Places : Complete(j) =>
                 \/ Rec(j) \in index[Rec(j).id]
                 \/ pc \in {"sync", "index"} /\ Rec(j) \in cur
        /\ pc \in {"write", "newline"} =>
             \A j \in Places, r \in cur : Complete(j) => Rec(j).id # r.id
        /\ pc \in {"sync", "index"} =>
             \A j \in Places, r \in cur : Complete(j) /\ Rec(j).id = r.id => Rec(j) = r

(* Lines written whole stay whole; memory and an index that can be asked   *)
(* hold nothing else, and what is acknowledged was synced.                 *)
KeptOK ==
    "torn" \notin faults /\ ~ {"power", "replay"} \subseteq faults =>
        /\ \A k \in Places :
             /\ file[k].kind = "text" => Begins(k) /\ (k = Len(file) \/ Complete(k))
             /\ k = Len(file) /\ pc # "newline" => file[k].kind = "newline"
        /\ \A k \in 1 .. Len(recent) : recent[k] \in Whole
        /\ \A i \in RequestIds : i \notin old \/ "power" \notin faults => index[i] \subseteq Whole
        /\ pc = "resync" => cur \subseteq Whole
        /\ pc = "index" => synced = Len(file)
        /\ \A r \in acked : \E k \in Places : Complete(k) /\ k < synced /\ Rec(k) = r

TrailInv ==
    /\ TrailTypeOK
    /\ CallOK
    /\ DiskOK
    /\ UniqueOK
    /\ KeptOK

-----------------------------------------------------------------------------
(* audit.rs:52-53: one line per record, synced before record returns, so   *)
(* that a crash never leaves a torn or missing entry.                      *)
AckedIsReadable == acked \subseteq OnFile
=============================================================================
