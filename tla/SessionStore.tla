---------------------------- MODULE SessionStore ----------------------------
(***************************************************************************)
(* What the session vault promises its callers: a store of plaintext       *)
(* sessions in which a save and a load each take effect in one step.       *)
(* There are no keys, no ciphertexts and no locks here, so a key rotation, *)
(* whole, failed or dropped, is not to be seen.                            *)
(***************************************************************************)
EXTENDS Naturals

CONSTANTS VaultClients, SessionIds, Cookies

VARIABLES contents,   \* a function from session ids to sets of cookies
          pending,    \* per client, the save or load under way
          page,       \* per client, the cookies of its page
          giveups     \* failed or dropped calls, whatever they were

storeVars == <<contents, pending, page, giveups>>

NoCall == [op |-> "none"]

StoreInit ==
    /\ contents = << >>
    /\ pending = [c \in VaultClients |-> NoCall]
    /\ page \in [VaultClients -> SUBSET Cookies]
    /\ giveups = 0

Becomes(c, call) == pending' = [pending EXCEPT ![c] = call]

(* A call is made; a save takes the cookies the page has now.              *)
Asks(c) ==
    /\ pending[c] = NoCall
    /\ \E sid \in SessionIds :
         \/ Becomes(c, [op |-> "save", sid |-> sid, data |-> page[c]])
         \/ Becomes(c, [op |-> "load", sid |-> sid])
    /\ UNCHANGED <<contents, page, giveups>>

Saves(c) ==
    /\ pending[c].op = "save"
    /\ contents' = [s \in DOMAIN contents \cup {pending[c].sid} |->
                      IF s = pending[c].sid THEN pending[c].data ELSE contents[s]]
    /\ Becomes(c, NoCall)
    /\ UNCHANGED <<page, giveups>>

(* A load of a session the store does not hold ends at once.               *)
Loads(c) ==
    /\ pending[c].op = "load"
    /\ IF pending[c].sid \in DOMAIN contents
       THEN Becomes(c, [op |-> "restore", todo |-> contents[pending[c].sid]])
       ELSE Becomes(c, NoCall)
    /\ UNCHANGED <<contents, page, giveups>>

Restores(c, cookie) ==
    /\ pending[c].op = "restore" /\ cookie \in pending[c].todo
    /\ page' = [page EXCEPT ![c] = @ \cup {cookie}]
    /\ Becomes(c, [op |-> "restore", todo |-> pending[c].todo \ {cookie}])
    /\ UNCHANGED <<contents, giveups>>

LoadEnds(c) ==
    /\ pending[c] = [op |-> "restore", todo |-> {}]
    /\ Becomes(c, NoCall)
    /\ UNCHANGED <<contents, page, giveups>>

(* A failure or a dropped future leaves the store as it is.                *)
GivesUp(c) ==
    /\ giveups' = giveups + 1
    /\ Becomes(c, NoCall)
    /\ UNCHANGED <<contents, page>>

StoreNext ==
    \E c \in VaultClients :
        \/ Asks(c) \/ Saves(c) \/ Loads(c) \/ LoadEnds(c) \/ GivesUp(c)
        \/ \E cookie \in Cookies : Restores(c, cookie)

StoreSpec == StoreInit /\ [][StoreNext]_storeVars
=============================================================================
