------------------------------ MODULE PeerPins ------------------------------
(***************************************************************************)
(* The keys a server has pinned for the nodes it shook hands with          *)
(* (server/chat/cross_server.py): the first key seen of a node is trusted  *)
(* and kept, in memory under a lock and in a database without one.         *)
(*                                                                         *)
(* Handshakes run in threads of their own, and so does the administrator's *)
(* command that forgets all pins. The handshake of a single question       *)
(* (fetch_post) makes the same check and does not look at its outcome.     *)
(***************************************************************************)
EXTENDS Naturals

CONSTANTS Nodes, NodeKeys,
          Handshakes,   \* threads that shake hands
          MaxRestarts,  \* bound of the restarts
          NoPin

ASSUME PinAssumption == NoPin \notin NodeKeys /\ MaxRestarts \in Nat

VARIABLES
    pinned,     \* _pinned_pubkeys
    stored,     \* pinned_keys, or NoPin everywhere while there is no table
    hasTable,   \* the database has its table
    check,      \* the _check_pin of each thread
    resetting,  \* what the command that forgets the pins has still to do
    firm,       \* keys pinned by a handshake that met no other key, nor a reset
    trusted,    \* last key of a node a handshake went on with
    restarts

pinVars == <<pinned, stored, hasTable, check, resetting, firm, trusted, restarts>>

Unpinned == [n \in Nodes |-> NoPin]
NoCheck == [at |-> "idle"]
Check(n, k, at, first, alone) ==
    [node |-> n, key |-> k, at |-> at, first |-> first, alone |-> alone]

PinsInit ==
    /\ pinned = Unpinned /\ stored = Unpinned /\ hasTable = TRUE
    /\ check = [h \in Handshakes |-> NoCheck] /\ resetting = "no"
    /\ firm = Unpinned /\ trusted = Unpinned /\ restarts = 0

-----------------------------------------------------------------------------
(* _check_pin. *)

CheckAt(h, step) == check[h].at = step

\* Other handshakes of the node under way, with another key.
Rivals(h, n, k) ==
    {g \in Handshakes \ {h} :
        ~CheckAt(g, "idle") /\ check[g].node = n /\ check[g].key # k}

\* The pin is looked up under the lock, which is then given back. A handshake
\* that finds another key of its node under way has met it, and the other it;
\* so has one that runs while the pins are forgotten.
BeginCheck(h, n, k) ==
    /\ CheckAt(h, "idle")
    /\ pinned[n] \in {NoPin, k}
    /\ LET Others == Rivals(h, n, k)
       IN  check' = [g \in Handshakes |->
               IF g = h THEN Check(n, k, IF pinned[n] = NoPin THEN "remember" ELSE "touch",
                                   pinned[n] = NoPin, Others = {} /\ resetting = "no")
               ELSE IF g \in Others THEN [check[g] EXCEPT !.alone = FALSE] ELSE check[g]]
    /\ UNCHANGED <<pinned, stored, hasTable, resetting, firm, trusted, restarts>>

\* The pin is another key: a connection is refused, and nothing is left of it.
\* fetch_post goes on with the key it met; nothing is written.
FetchAnyway(h, n, k) ==
    /\ CheckAt(h, "idle")
    /\ pinned[n] \notin {NoPin, k}
    /\ trusted' = [trusted EXCEPT ![n] = k]
    /\ UNCHANGED <<pinned, stored, hasTable, check, resetting, firm, restarts>>

\* _save_pin, in memory ...
Remember(h) ==
    /\ CheckAt(h, "remember")
    /\ pinned' = [pinned EXCEPT ![check[h].node] = check[h].key]
    /\ check' = [check EXCEPT ![h].at = "write"]
    /\ UNCHANGED <<stored, hasTable, resetting, firm, trusted, restarts>>

\* Mutant: the pin is kept in memory only.
WritePinNowhere(h) ==
    /\ CheckAt(h, "write") /\ hasTable
    /\ check' = [check EXCEPT ![h].at = "trust"]
    /\ UNCHANGED <<pinned, stored, hasTable, resetting, firm, trusted, restarts>>

\* ... and in the table, if there is one.
WritePin(h) ==
    /\ CheckAt(h, "write") /\ hasTable
    /\ stored' = [stored EXCEPT ![check[h].node] = check[h].key]
    /\ check' = [check EXCEPT ![h].at = "trust"]
    /\ UNCHANGED <<pinned, hasTable, resetting, firm, trusted, restarts>>

\* The pin was there: the time it was verified is written.
TouchPin(h) ==
    /\ CheckAt(h, "touch") /\ hasTable
    /\ check' = [check EXCEPT ![h].at = "trust"]
    /\ UNCHANGED <<pinned, stored, hasTable, resetting, firm, trusted, restarts>>

\* Without its table the database refuses, and the handshake ends.
PinRefused(h) ==
    /\ check[h].at \in {"write", "touch"} /\ ~hasTable
    /\ check' = [check EXCEPT ![h] = NoCheck]
    /\ UNCHANGED <<pinned, stored, hasTable, resetting, firm, trusted, restarts>>

\* The handshake goes on with the key.
Trust(h) ==
    /\ CheckAt(h, "trust")
    /\ LET c == check[h]
       IN  /\ trusted' = [trusted EXCEPT ![c.node] = c.key]
           /\ firm' = IF c.first /\ c.alone THEN [firm EXCEPT ![c.node] = c.key] ELSE firm
    /\ check' = [check EXCEPT ![h] = NoCheck]
    /\ UNCHANGED <<pinned, stored, hasTable, resetting, restarts>>

-----------------------------------------------------------------------------
(* reset_tofu_pins and restarts. *)

ForgetPins ==
    /\ resetting = "no" /\ resetting' = "remove"
    /\ pinned' = Unpinned /\ firm' = Unpinned
    /\ check' = [h \in Handshakes |-> IF CheckAt(h, "idle") THEN check[h]
                                      ELSE [check[h] EXCEPT !.alone = FALSE]]
    /\ UNCHANGED <<stored, hasTable, trusted, restarts>>

RemovePins ==
    /\ resetting = "remove" /\ resetting' = "create"
    /\ stored' = Unpinned /\ hasTable' = FALSE
    /\ UNCHANGED <<pinned, check, firm, trusted, restarts>>

\* _init_pins_db: the table is made if there is none, and what it holds is
\* added to what is in memory.
CreatePins ==
    /\ resetting = "create" /\ resetting' = "no" /\ hasTable' = TRUE
    /\ pinned' = [n \in Nodes |-> IF stored[n] = NoPin THEN pinned[n] ELSE stored[n]]
    /\ UNCHANGED <<stored, check, firm, trusted, restarts>>

\* The process ends, at any point, and is started again.
Restart ==
    /\ restarts < MaxRestarts /\ restarts' = restarts + 1
    /\ pinned' = stored /\ hasTable' = TRUE
    /\ check' = [h \in Handshakes |-> NoCheck] /\ resetting' = "no"
    /\ UNCHANGED <<stored, firm, trusted>>

PinsNext ==
    \/ \E h \in Handshakes :
          \/ \E n \in Nodes, k \in NodeKeys : BeginCheck(h, n, k) \/ FetchAnyway(h, n, k)
          \/ Remember(h) \/ WritePin(h) \/ TouchPin(h) \/ PinRefused(h) \/ Trust(h)
    \/ ForgetPins \/ RemovePins \/ CreatePins \/ Restart

PinsSpec == PinsInit /\ [][PinsNext]_pinVars

-----------------------------------------------------------------------------

PinsTypeOK ==
    /\ pinned \in [Nodes -> NodeKeys \cup {NoPin}] /\ stored \in [Nodes -> NodeKeys \cup {NoPin}]
    /\ hasTable \in BOOLEAN /\ resetting \in {"no", "remove", "create"}
    /\ check \in [Handshakes -> {NoCheck} \cup
           [node : Nodes, key : NodeKeys, at : {"remember", "write", "touch", "trust"},
            first : BOOLEAN, alone : BOOLEAN]]
    /\ firm \in [Nodes -> NodeKeys \cup {NoPin}] /\ trusted \in [Nodes -> NodeKeys \cup {NoPin}]
    /\ restarts \in 0 .. MaxRestarts

\* Trust on first use, over races, restarts and pins forgotten: once a node's
\* key was pinned by a handshake that met no other key of that node and no
\* reset, it is the pin in memory and in the table until the pins are
\* forgotten, and no connection goes on with another key; only fetch_post does
\* (_check_pin, _save_pin, reset_tofu_pins).
FirstKeyStays ==
    [][\A n \in Nodes : firm[n] # NoPin /\ firm'[n] # NoPin =>
           /\ firm'[n] = firm[n] /\ pinned'[n] = firm[n] /\ stored'[n] = firm[n]
           /\ \/ trusted'[n] \in {trusted[n], firm[n]}
              \/ \E h \in Handshakes, k \in NodeKeys : FetchAnyway(h, n, k)]_pinVars

=============================================================================
