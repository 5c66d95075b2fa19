---------------------------- MODULE SessionVault ----------------------------
(***************************************************************************)
(* The session vault (core-runtime/src/session_vault.rs) and the two       *)
(* operations of a page that use it (browser/vault.rs): cookies are saved  *)
(* encrypted under a session id and restored later, while keys rotate.     *)
(*                                                                         *)
(* Every call is a future.  It waits for the KMS lock, then for the        *)
(* storage lock (tokio mutexes, first come first served), and may be       *)
(* dropped at each await; an adapter other than SoftwareKms may fail to    *)
(* encrypt or to decrypt.  A ciphertext is the plaintext with the id and   *)
(* the bytes of the key it was made with; ids may be used again once       *)
(* retired, with other bytes.                                              *)
(***************************************************************************)
EXTENDS Naturals, Sequences, FiniteSets

CONSTANTS VaultClients,     \* callers of the vault, each with one page
          SessionIds,
          Cookies,          \* what a page may hold; a session is a set of them
          KeyIds,
          KeyBytes,         \* key material
          SpareKeys,        \* ids added with add_key before the vault exists
          MaxVaultCalls,    \* calls made
          MaxVaultFaults    \* failing adapter or browser calls, dropped futures

ASSUME VaultAssumption == /\ SpareKeys \subseteq KeyIds
                          /\ KeyIds \ SpareKeys # {}
                          /\ MaxVaultCalls \in Nat /\ MaxVaultFaults \in Nat

VARIABLES keys,      \* SoftwareKms.keys: a function from ids to bytes
          currentKey,
          storage,   \* VaultStorage: a function from session ids to ciphertexts
          locks,     \* "kms", "storage": the holder, then those who wait
          futures,   \* per client, the call under way
          jar,       \* per client, the cookies of its page
          saved,     \* history: per session, the plaintext last inserted
          vaultCalls, vaultFaults

vaultVars == <<keys, currentKey, storage, locks, futures, jar, saved,
               vaultCalls, vaultFaults>>

NoFuture == [op |-> "none", at |-> "idle"]

Ciphertext(data, id) == [data |-> data, key |-> id, bytes |-> keys[id]]

Opens(ct) == ct.key \in DOMAIN keys /\ keys[ct.key] = ct.bytes

Holds(c, lock) == locks[lock] # <<>> /\ Head(locks[lock]) = c

\* A queue without c, which stands in it at most once.
Leaving(queue, c) ==
    LET at == {i \in 1 .. Len(queue): queue[i] = c}
        first == CHOOSE i \in at: TRUE
    IN  IF at = {} THEN queue
        ELSE [i \in 1 .. Len(queue) - 1 |-> IF i < first THEN queue[i] ELSE queue[i + 1]]

\* Leaving a lock, or the queue for it, when a guard or a waiting future drops.
Without(c) == [lock \in DOMAIN locks |-> Leaving(locks[lock], c)]

Queued(c, lock) == [locks EXCEPT ![lock] = Append(@, c)]

VaultInit ==
    /\ \E id \in KeyIds \ SpareKeys, first, spare \in KeyBytes:
          /\ currentKey = id
          /\ keys = [k \in SpareKeys \cup {id} |-> IF k = id THEN first ELSE spare]
    /\ storage = << >>
    /\ locks = [lock \in {"kms", "storage"} |-> <<>>]
    /\ futures = [c \in VaultClients |-> NoFuture]
    /\ jar \in [VaultClients -> {{}, Cookies}]
    /\ saved = << >>
    /\ vaultCalls = 0 /\ vaultFaults = 0

-----------------------------------------------------------------------------
(* Calls *)

(* Mutant: load_session takes the storage lock first. *)
FirstLockOfLoad(op) == IF op = "load" THEN "storage" ELSE "kms"

\* The lock every operation asks for first.
FirstLock(op) == "kms"

Calls(c, future) ==
    /\ futures[c] = NoFuture
    /\ vaultCalls < MaxVaultCalls
    /\ futures' = [futures EXCEPT ![c] = future]
    /\ locks' = Queued(c, FirstLock(future.op))
    /\ vaultCalls' = vaultCalls + 1
    /\ UNCHANGED <<keys, currentKey, storage, jar, saved, vaultFaults>>

\* save_to_vault: the cookies are read before the vault is asked.
SaveToVault(c, sid) ==
    Calls(c, [op |-> "store", at |-> "locks", sid |-> sid, data |-> jar[c]])

LoadFromVault(c, sid) == Calls(c, [op |-> "load", at |-> "locks", sid |-> sid])

RotateKey(c, id, bytes) ==
    Calls(c, [op |-> "rotate", at |-> "locks", id |-> id, bytes |-> bytes])

(* Mutant: a rotation guard without Drop. *)
RollsBackNothing(c) == UNCHANGED <<keys, currentKey>>

\* A future ends, in success or with an error: its guards are dropped, the
\* rotation guard (Drop) before the locks.
RollsBack(c) ==
    IF futures[c].at # "encrypting" THEN UNCHANGED <<keys, currentKey>>
    ELSE /\ currentKey' = IF futures[c].previous \in DOMAIN keys
                          THEN futures[c].previous ELSE currentKey
         /\ keys' = [k \in DOMAIN keys \ {futures[c].id} |-> keys[k]]

Ends(c) == futures' = [futures EXCEPT ![c] = NoFuture] /\ locks' = Without(c)

VaultFault == vaultFaults < MaxVaultFaults /\ vaultFaults' = vaultFaults + 1

\* The caller drops the future at an await, or an adapter or browser call
\* fails and `?` leaves the function.
Dropped(c) ==
    /\ futures[c] # NoFuture
    /\ VaultFault
    /\ RollsBack(c)
    /\ Ends(c)
    /\ UNCHANGED <<storage, jar, saved, vaultCalls>>

-----------------------------------------------------------------------------
(* store_session *)

\* encrypt under the KMS lock, then wait for the storage lock.
Encrypts(c) ==
    /\ futures[c].op = "store" /\ futures[c].at = "locks" /\ Holds(c, "kms")
    /\ futures' = [futures EXCEPT ![c] =
                     [op |-> "store", at |-> "insert", sid |-> @.sid,
                      ct |-> Ciphertext(@.data, currentKey)]]
    /\ locks' = Queued(c, "storage")
    /\ UNCHANGED <<keys, currentKey, storage, jar, saved, vaultCalls, vaultFaults>>

With(f, sid, v) == [s \in DOMAIN f \cup {sid} |-> IF s = sid THEN v ELSE f[s]]

Inserts(c) ==
    /\ futures[c].op = "store" /\ futures[c].at = "insert" /\ Holds(c, "storage")
    /\ storage' = With(storage, futures[c].sid, futures[c].ct)
    /\ saved' = With(saved, futures[c].sid, futures[c].ct.data)
    /\ Ends(c)
    /\ UNCHANGED <<keys, currentKey, jar, vaultCalls, vaultFaults>>

-----------------------------------------------------------------------------
(* load_session, and load_from_vault's cookies *)

\* The second lock; whichever of the two comes first is already held.
Nests(c) ==
    /\ futures[c].op \in {"load", "rotate"} /\ futures[c].at = "locks"
    /\ \E lock \in DOMAIN locks:
          /\ Holds(c, FirstLock(futures[c].op)) /\ lock # FirstLock(futures[c].op)
          /\ locks' = Queued(c, lock)
    /\ futures' = [futures EXCEPT ![c].at = "both"]
    /\ UNCHANGED <<keys, currentKey, storage, jar, saved, vaultCalls, vaultFaults>>

HoldsBoth(c, op) == /\ futures[c].op = op /\ futures[c].at = "both"
                    /\ Holds(c, "kms") /\ Holds(c, "storage")

(* Mutant: both locks are given back before the decryption. *)
KeptByLoadNothing == {}

\* The ciphertext is cloned; the storage lock is given back, the KMS lock kept.
KeptByLoad == {"kms"}

Reads(c) ==
    /\ HoldsBoth(c, "load")
    /\ IF futures[c].sid \in DOMAIN storage
       THEN /\ futures' = [futures EXCEPT ![c] =
                             [op |-> "load", at |-> "decrypt", sid |-> @.sid,
                              ct |-> storage[@.sid]]]
            /\ locks' = [lock \in DOMAIN locks |->
                           IF lock \in KeptByLoad THEN locks[lock]
                           ELSE Without(c)[lock]]
       ELSE Ends(c)
    /\ UNCHANGED <<keys, currentKey, storage, jar, saved, vaultCalls, vaultFaults>>

\* decrypt: an absent key is an error, the wrong bytes fail authentication.
\* "cookies" keeps what was loaded and is to be set, one SetCookie at a time.
Decrypts(c) ==
    /\ futures[c].op = "load" /\ futures[c].at = "decrypt"
    /\ IF Opens(futures[c].ct)
       THEN /\ futures' = [futures EXCEPT ![c] =
                             [op |-> "load", at |-> "cookies", todo |-> @.ct.data]]
            /\ locks' = Without(c)
       ELSE Ends(c)
    /\ UNCHANGED <<keys, currentKey, storage, jar, saved, vaultCalls, vaultFaults>>

SetsCookie(c, cookie) ==
    /\ futures[c].op = "load" /\ futures[c].at = "cookies" /\ cookie \in futures[c].todo
    /\ jar' = [jar EXCEPT ![c] = @ \cup {cookie}]
    /\ futures' = [futures EXCEPT ![c].todo = @ \ {cookie}]
    /\ UNCHANGED <<keys, currentKey, storage, locks, saved, vaultCalls, vaultFaults>>

(* Mutant: load_from_vault returns before every cookie is set. *)
CookiesSetAnyway(f) == TRUE

CookiesSet(f) == f.todo = {}

Restored(c) ==
    /\ futures[c].op = "load" /\ futures[c].at = "cookies" /\ CookiesSet(futures[c])
    /\ Ends(c)
    /\ UNCHANGED <<keys, currentKey, storage, jar, saved, vaultCalls, vaultFaults>>

-----------------------------------------------------------------------------
(* rotate_key_secret *)

\* Decrypt everything, then stage and activate the new key; an id that exists
\* is refused before anything changed.
Stages(c) ==
    LET f == futures[c] IN
    /\ HoldsBoth(c, "rotate")
    /\ IF (\A sid \in DOMAIN storage: Opens(storage[sid])) /\ f.id \notin DOMAIN keys
       THEN /\ keys' = With(keys, f.id, f.bytes)
            /\ currentKey' = f.id
            /\ futures' = [futures EXCEPT ![c] =
                  [op |-> "rotate", at |-> "encrypting", id |-> f.id,
                   previous |-> currentKey, done |-> << >>,
                   retired |-> {currentKey} \cup {storage[s].key: s \in DOMAIN storage}]]
            /\ UNCHANGED locks
       ELSE Ends(c) /\ UNCHANGED <<keys, currentKey>>
    /\ UNCHANGED <<storage, jar, saved, vaultCalls, vaultFaults>>

\* One awaited encryption of the replacement map.
ReEncrypts(c, sid) ==
    /\ futures[c].op = "rotate" /\ futures[c].at = "encrypting"
    /\ sid \in DOMAIN storage \ DOMAIN futures[c].done
    /\ futures' = [futures EXCEPT ![c].done =
                     With(@, sid, Ciphertext(storage[sid].data, currentKey))]
    /\ UNCHANGED <<keys, currentKey, storage, locks, jar, saved, vaultCalls, vaultFaults>>

\* What finalize_key_rotation removes: every key in use before, not the new one.
Retired(f) == f.retired \ {f.id}

(* Mutant: sessions that could not be encrypted are left out. *)
ReplacementBestEffort(f) == DOMAIN f.done \subseteq DOMAIN storage

\* The replacement map is complete.
Replacement(f) == DOMAIN f.done = DOMAIN storage

\* commit and the swap of the storage: no await between them.
Commits(c) ==
    LET f == futures[c] IN
    /\ f.op = "rotate" /\ f.at = "encrypting" /\ Replacement(f)
    /\ keys' = [k \in DOMAIN keys \ Retired(f) |-> keys[k]]
    /\ storage' = f.done
    /\ Ends(c)
    /\ UNCHANGED <<currentKey, jar, saved, vaultCalls, vaultFaults>>

-----------------------------------------------------------------------------
VaultStep(c) == \/ Encrypts(c) \/ Inserts(c) \/ Nests(c)
                \/ Reads(c) \/ Decrypts(c) \/ Restored(c) \/ Stages(c) \/ Commits(c)
                \/ \E cookie \in Cookies: SetsCookie(c, cookie)
                \/ \E sid \in SessionIds: ReEncrypts(c, sid)

VaultNext ==
    \E c \in VaultClients:
        \/ \E sid \in SessionIds: SaveToVault(c, sid) \/ LoadFromVault(c, sid)
        \/ \E id \in KeyIds, bytes \in KeyBytes: RotateKey(c, id, bytes)
        \/ VaultStep(c)
        \/ Dropped(c)

\* A future that is polled goes on when it can; the locks are fair queues.
VaultFairness == \A c \in VaultClients: WF_vaultVars(VaultStep(c))

VaultSpec == VaultInit /\ [][VaultNext]_vaultVars /\ VaultFairness

-----------------------------------------------------------------------------
(* Whatever interleaves with a rotation, fails in it or drops it, every     *)
(* stored session opens with the keys the KMS has, to what was last stored: *)
(* rotate_key_secret's replacement map is complete before commit, and       *)
(* store_session inserts under the KMS lock.                                *)
SessionsStayReadable ==
    /\ DOMAIN storage = DOMAIN saved
    /\ \A sid \in DOMAIN storage:
          Opens(storage[sid]) /\ storage[sid].data = saved[sid]

(* load_session never fails, nor answers with an older session, because of  *)
(* a rotation or a store beside it: what it has cloned still opens, and is  *)
(* still what the vault holds, when it gets to the decryption.              *)
LoadsAreCurrent ==
    \A c \in VaultClients:
        futures[c].op = "load" /\ futures[c].at = "decrypt" =>
            /\ Opens(futures[c].ct)
            /\ futures[c].ct.data = saved[futures[c].sid]

(* KeyRotationGuard: between rotations the KMS has the key in use and the   *)
(* spare ones, no staged key of a failed or dropped rotation and no key     *)
(* that a committed one superseded.                                         *)
RotationIsAllOrNothing ==
    (\A c \in VaultClients: futures[c].at # "encrypting") =>
        /\ currentKey \in DOMAIN keys
        /\ DOMAIN keys \ SpareKeys = {currentKey}

(* Stores, loads and rotations beside one another, failing or dropped half  *)
(* way, lose no session and no key.                                         *)
VaultKeepsSessions ==
    SessionsStayReadable /\ LoadsAreCurrent /\ RotationIsAllOrNothing

(* Every call ends: the two locks are taken in one order, so no two futures *)
(* wait for each other.                                                     *)
VaultCallsEnd == \A c \in VaultClients: futures[c] # NoFuture ~> futures[c] = NoFuture

-----------------------------------------------------------------------------
(* The vault as its callers see it.  A stored session is what its          *)
(* ciphertext opens to; a load takes effect when it decrypts, a save when  *)
(* it inserts; a client that rotates keys makes no call.                   *)
Plaintext(ct) == IF Opens(ct) THEN ct.data ELSE {"unreadable"}

CallOf(f) ==
    CASE f.op = "store" -> [op |-> "save", sid |-> f.sid,
                            data |-> IF f.at = "insert" THEN f.ct.data ELSE f.data]
      [] f.op = "load"  -> IF f.at = "cookies" THEN [op |-> "restore", todo |-> f.todo]
                           ELSE [op |-> "load", sid |-> f.sid]
      [] OTHER          -> [op |-> "none"]

Store == INSTANCE SessionStore WITH
            contents <- [sid \in DOMAIN storage |-> Plaintext(storage[sid])],
            pending  <- [c \in VaultClients |-> CallOf(futures[c])],
            page     <- jar,
            giveups  <- vaultFaults

(* The vault implements the store: rotation, encryption and the two locks   *)
(* never show in what a save leaves, a load answers or a page is given, and *)
(* no call fails or is cut short but by a failing adapter or browser or by  *)
(* its caller dropping it.                                                  *)
VaultIsAStore == Store!StoreSpec

-----------------------------------------------------------------------------
(* The strengthening that makes VaultKeepsSessions inductive, and on which  *)
(* the refinement rests.                                                    *)

Ciphertexts == [data: SUBSET Cookies, key: KeyIds, bytes: KeyBytes]

(* What a call keeps from one await to the next.                            *)
StoreCalls == [op: {"store"}, at: {"locks"}, sid: SessionIds, data: SUBSET Cookies]
StoreInserts == [op: {"store"}, at: {"insert"}, sid: SessionIds, ct: Ciphertexts]
LoadCalls == [op: {"load"}, at: {"locks", "both"}, sid: SessionIds]
LoadDecrypts == [op: {"load"}, at: {"decrypt"}, sid: SessionIds, ct: Ciphertexts]
LoadCookies == [op: {"load"}, at: {"cookies"}, todo: SUBSET Cookies]
RotateCalls == [op: {"rotate"}, at: {"locks", "both"}, id: KeyIds, bytes: KeyBytes]
RotateRuns == [op: {"rotate"}, at: {"encrypting"}, id: KeyIds, previous: KeyIds,
               done: UNION {[S -> Ciphertexts]: S \in SUBSET SessionIds},
               retired: SUBSET KeyIds]

Futures == {NoFuture} \cup StoreCalls \cup StoreInserts \cup LoadCalls
           \cup LoadDecrypts \cup LoadCookies \cup RotateCalls \cup RotateRuns

(* Type invariant.                                                          *)
VaultTypeOK ==
    /\ keys \in UNION {[S -> KeyBytes]: S \in SUBSET KeyIds}
    /\ currentKey \in KeyIds
    /\ storage \in UNION {[S -> Ciphertexts]: S \in SUBSET SessionIds}
    /\ locks \in [{"kms", "storage"} -> Seq(VaultClients)]
    /\ futures \in [VaultClients -> Futures]
    /\ jar \in [VaultClients -> SUBSET Cookies]
    /\ saved \in [DOMAIN storage -> SUBSET Cookies]
    /\ vaultCalls \in Nat /\ vaultFaults \in Nat

(* From its first result until it ends or has decrypted, a call holds the   *)
(* KMS lock.                                                                *)
UnderKms == {"insert", "both", "decrypt", "encrypting"}

KmsExcludes == \A c \in VaultClients: futures[c].at \in UnderKms => Holds(c, "kms")

(* The keys there are, and the one every stored session is encrypted with.  *)
KeysAre(current, others) ==
    /\ DOMAIN keys = SpareKeys \cup {current} \cup others
    /\ current \notin SpareKeys
    /\ \A sid \in DOMAIN storage: storage[sid].key = current

KeysBetweenRotations ==
    (\A c \in VaultClients: futures[c].at # "encrypting") => KeysAre(currentKey, {})

(* A rotation under way: the old key still opens everything, the new one    *)
(* what has been encrypted again.                                           *)
RotationUnderWay(f) ==
    /\ KeysAre(f.previous, {f.id})
    /\ f.id \notin SpareKeys /\ f.id # f.previous /\ currentKey = f.id
    /\ f.retired = {f.previous}
    /\ DOMAIN f.done \subseteq DOMAIN storage
    /\ \A sid \in DOMAIN f.done:
          f.done[sid] = Ciphertext(storage[sid].data, f.id)

(* What a call has computed under the KMS lock is still right.              *)
CallOK(f) ==
    /\ f.at = "encrypting" => RotationUnderWay(f)
    /\ f.at = "insert" => f.ct.key = currentKey /\ Opens(f.ct)
    /\ f.at = "decrypt" => f.sid \in DOMAIN storage /\ f.ct = storage[f.sid]

CallsOK == \A c \in VaultClients: CallOK(futures[c])

VaultInv ==
    /\ VaultTypeOK
    /\ KmsExcludes
    /\ SessionsStayReadable
    /\ KeysBetweenRotations
    /\ CallsOK
=============================================================================
