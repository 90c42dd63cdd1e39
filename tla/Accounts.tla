------------------------------ MODULE Accounts ------------------------------
(***************************************************************************)
(* Accounts, bans and the table of connections (server/user/manager.py,    *)
(* server/admin/commands.py, and the handlers of server/chat/server.py     *)
(* that register, log in, publish keys and report a compromise).           *)
(*                                                                         *)
(* ChatServer.tla follows one connection per identity and its messages;    *)
(* here a connection may log in again with another UUID, and operators run *)
(* commands at any time, which close sockets and delete table entries      *)
(* without the server's lock.  Every method of UserManager is a connection *)
(* to the database of its own.                                             *)
(*                                                                         *)
(* A closed socket ends its connection at the next recv, and so may a      *)
(* broken one at any time: a connection may end whenever it handles no     *)
(* request, and whether its socket is closed is not told apart.            *)
(*                                                                         *)
(* With a DHT, storing a key ends in an exception once the local copy is   *)
(* written (int("user:...", 16), dht/routing.py:100), and the exception    *)
(* ends the connection.                                                    *)
(***************************************************************************)
EXTENDS Naturals, FiniteSets

CONSTANTS
    People,       \* UUIDs
    Links,        \* ClientConnection objects
    Operators,    \* threads that run an administrator's command
    PublicKeys,   \* key pairs
    KeysOf,       \* bound: those a UUID is registered with, with a DHT or without
    MaxTable,     \* max_connections
    NoRow, NoLink, NoOne, NoKey

ASSUME AccountsAssumption ==
    /\ NoLink \notin Links
    /\ NoOne \notin People
    /\ NoKey \notin PublicKeys
    /\ KeysOf \in [BOOLEAN -> [People -> SUBSET PublicKeys]]
    /\ MaxTable \in Nat

VARIABLES
    row,       \* the row of each UUID in the table users
    located,   \* the key under "user:..." in the server's own DHT store
    dht,       \* there is a DHT node
    table,     \* ChatServer.connections
    link,      \* each connection and the request its thread handles
    order,     \* the command each operator's thread runs
    \* What the properties need and no action reads:
    slipped,   \* users banned while a login was past the ban check
    twice      \* connections that logged in with a second UUID

accountsVars == <<row, located, dht, table, link, order, slipped, twice>>

Rows == [key : PublicKeys, banned : BOOLEAN]

LinkSteps == {"unused", "idle", "register", "publish", "login", "enter", "evict", "ended"}

AccountsTypeOK ==
    /\ row \in [People -> Rows \cup {NoRow}]
    /\ located \in [People -> PublicKeys \cup {NoKey}]
    /\ dht \in BOOLEAN
    /\ table \in [People -> Links \cup {NoLink}]
    /\ link \in [Links -> [at : LinkSteps, uuid : People \cup {NoOne},
                           key : PublicKeys \cup {NoKey}, whose : People \cup {NoOne},
                           new : PublicKeys \cup {NoKey}, known : BOOLEAN]]
    /\ order \in [Operators -> [at : {"none", "close", "delete"}, whose : People \cup {NoOne}]]
    /\ slipped \subseteq People /\ twice \subseteq Links

Unused == [at |-> "unused", uuid |-> NoOne, key |-> NoKey,
           whose |-> NoOne, new |-> NoKey, known |-> FALSE]
NoOrder == [at |-> "none", whose |-> NoOne]

AccountsInit ==
    /\ row = [u \in People |-> NoRow]
    /\ located = [u \in People |-> NoKey]
    /\ dht \in BOOLEAN
    /\ table = [u \in People |-> NoLink]
    /\ link = [c \in Links |-> Unused]
    /\ order = [o \in Operators |-> NoOrder]
    /\ slipped = {} /\ twice = {}

-----------------------------------------------------------------------------

Banned(u) == row[u] # NoRow /\ row[u].banned
Idling(c) == link[c].at = "idle"
Served(u) == table[u] # NoLink

\* The request of c is over.
Rested(l) == [l EXCEPT !.at = "idle", !.whose = NoOne, !.new = NoKey, !.known = FALSE]

\* _disconnect_client: only the entry of the UUID of the last login is removed.
Ended(c) ==
    /\ link' = [link EXCEPT ![c] = [Unused EXCEPT !.at = "ended"]]
    /\ table' = [u \in People |->
                    IF u = link[c].uuid /\ table[u] = c THEN NoLink ELSE table[u]]

\* Mutant: the entry stays.
EndLinkKeeps(c) ==
    /\ Idling(c)
    /\ link' = [link EXCEPT ![c] = [Unused EXCEPT !.at = "ended"]]
    /\ UNCHANGED <<row, located, dht, table, order, slipped, twice>>

\* recv fails or finds the socket closed.
EndLink(c) ==
    /\ Idling(c)
    /\ Ended(c)
    /\ UNCHANGED <<row, located, dht, order, slipped, twice>>

Connect(c) ==
    /\ link[c].at = "unused"
    /\ link' = [link EXCEPT ![c] = [@ EXCEPT !.at = "idle"]]
    /\ UNCHANGED <<row, located, dht, table, order, slipped, twice>>

\* REGISTER: the ban and the size of the table are checked; register_user
\* looks for the row.
Register(c, u, k) ==
    /\ Idling(c)
    /\ ~Banned(u)
    /\ Cardinality({v \in People : Served(v)}) < MaxTable
    /\ link' = [link EXCEPT ![c] = [@ EXCEPT !.at = "register", !.whose = u, !.new = k,
                                            !.known = (row[u] # NoRow)]]
    /\ UNCHANGED <<row, located, dht, table, order, slipped, twice>>

FreshRow(k) == [key |-> k, banned |-> FALSE]

\* UPDATE keeps the flags, and changes nothing if the row is gone.
NewRow(old, known, k) ==
    IF ~known THEN FreshRow(k)
    ELSE IF old = NoRow THEN NoRow ELSE [old EXCEPT !.key = k]

\* INSERT fails if another connection has inserted the row meanwhile.
RegisterWrite(c) ==
    /\ link[c].at = "register"
    /\ LET l == link[c]
           u == l.whose
       IN  IF ~l.known /\ row[u] # NoRow
           THEN Ended(c) /\ UNCHANGED row
           ELSE /\ row' = [row EXCEPT ![u] = NewRow(@, l.known, l.new)]
                /\ link' = [link EXCEPT ![c] = IF dht THEN [@ EXCEPT !.at = "publish"]
                                               ELSE Rested(@)]
                /\ UNCHANGED table
    /\ UNCHANGED <<located, dht, order, slipped, twice>>

\* dht_node.store: the local copy is written, then the exception.
PublishKey(c) ==
    /\ link[c].at = "publish"
    /\ located' = [located EXCEPT ![link[c].whose] = link[c].new]
    /\ Ended(c)
    /\ UNCHANGED <<row, dht, order, slipped, twice>>

\* STORE_PUBKEY publishes the key the connection logged in with.
StorePubkey(c) ==
    /\ Idling(c) /\ link[c].uuid # NoOne /\ dht
    /\ located' = [located EXCEPT ![link[c].uuid] = link[c].key]
    /\ Ended(c)
    /\ UNCHANGED <<row, dht, order, slipped, twice>>

\* The copy in the DHT is past its ttl.
Lapse(u) ==
    /\ located[u] # NoKey
    /\ located' = [located EXCEPT ![u] = NoKey]
    /\ UNCHANGED <<row, dht, table, link, order, slipped, twice>>

-----------------------------------------------------------------------------
(* LOGIN: the row is read, then whether it is banned, then the connection  *)
(* enters the table.                                                       *)

Login(c, u) ==
    /\ Idling(c)
    /\ row[u] # NoRow
    /\ link' = [link EXCEPT ![c] = [@ EXCEPT !.at = "login", !.whose = u, !.new = row[u].key]]
    /\ UNCHANGED <<row, located, dht, table, order, slipped, twice>>

\* Mutant: the ban is not looked at.
LoginCheckLax(c) ==
    /\ link[c].at = "login"
    /\ link' = [link EXCEPT ![c] = [link[c] EXCEPT !.at = "enter", !.uuid = link[c].whose,
                                                  !.key = link[c].new]]
    /\ twice' = IF link[c].uuid \in {NoOne, link[c].whose} THEN twice ELSE twice \cup {c}
    /\ UNCHANGED <<row, located, dht, table, order, slipped>>

LoginCheck(c) ==
    /\ link[c].at = "login"
    /\ LET u == link[c].whose
       IN  IF Banned(u)
           THEN link' = [link EXCEPT ![c] = Rested(@)] /\ UNCHANGED twice
           ELSE /\ link' = [link EXCEPT ![c] = [link[c] EXCEPT !.at = "enter", !.uuid = u,
                                                              !.key = link[c].new]]
                /\ twice' = IF link[c].uuid \in {NoOne, u} THEN twice ELSE twice \cup {c}
    /\ UNCHANGED <<row, located, dht, table, order, slipped>>

\* The socket of an older connection of the UUID is closed.
Enter(c) ==
    /\ link[c].at = "enter"
    /\ table' = [table EXCEPT ![link[c].whose] = c]
    /\ link' = [link EXCEPT ![c] = Rested(@)]
    /\ UNCHANGED <<row, located, dht, order, slipped, twice>>

Entering(u) == \E c \in Links : link[c].at = "enter" /\ link[c].whose = u

\* Banned, or marked compromised, which bans as well (nothing reads the other
\* flag).  A UUID without a row stays without.
MarkedRow(u) ==
    /\ row' = IF row[u] = NoRow THEN row ELSE [row EXCEPT ![u].banned = TRUE]
    /\ slipped' = IF Entering(u) THEN slipped \cup {u} ELSE slipped

\* COMPROMISED, from any connection; so does a dead man's switch that fires.
Compromised(c, u) ==
    /\ Idling(c)
    /\ MarkedRow(u)
    /\ link' = [link EXCEPT ![c] = [@ EXCEPT !.at = "evict", !.whose = u]]
    /\ UNCHANGED <<located, dht, table, order, twice>>

Evict(c) ==
    /\ link[c].at = "evict"
    /\ table' = [table EXCEPT ![link[c].whose] = NoLink]
    /\ link' = [link EXCEPT ![c] = Rested(@)]
    /\ UNCHANGED <<row, located, dht, order, slipped, twice>>

-----------------------------------------------------------------------------
(* AdminCommandHandler.execute.  Ban and kick look at the table, close the *)
(* socket and delete the entry in three steps.                             *)

Free(o) == order[o] = NoOrder

Ordered(o, u) == order' = [order EXCEPT ![o] =
                   IF Served(u) THEN [at |-> "close", whose |-> u] ELSE NoOrder]

BanUser(o, u) ==
    /\ Free(o)
    /\ MarkedRow(u)
    /\ Ordered(o, u)
    /\ UNCHANGED <<located, dht, table, link, twice>>

KickUser(o, u) ==
    /\ Free(o) /\ Served(u)
    /\ Ordered(o, u)
    /\ UNCHANGED <<row, located, dht, table, link, slipped, twice>>

\* A missing entry raises KeyError, which the try around close swallows.
CloseSocket(o) ==
    /\ order[o].at = "close"
    /\ order' = [order EXCEPT ![o].at = "delete"]
    /\ UNCHANGED <<row, located, dht, table, link, slipped, twice>>

\* del: of whatever connection is in the table by now.
DeleteEntry(o) ==
    /\ order[o].at = "delete"
    /\ table' = [table EXCEPT ![order[o].whose] = NoLink]
    /\ order' = [order EXCEPT ![o] = NoOrder]
    /\ UNCHANGED <<row, located, dht, link, slipped, twice>>

UnbanUser(u) ==
    /\ Banned(u)
    /\ row' = [row EXCEPT ![u].banned = FALSE]
    /\ slipped' = slipped \ {u}
    /\ UNCHANGED <<located, dht, table, link, order, twice>>

DeleteUser(u) ==
    /\ row[u] # NoRow
    /\ row' = [row EXCEPT ![u] = NoRow]
    /\ slipped' = slipped \ {u}
    /\ UNCHANGED <<located, dht, table, link, order, twice>>

\* create_user_for_admin: a UUID nobody has used.
CreateUser(u, k) ==
    /\ row[u] = NoRow /\ located[u] = NoKey
    /\ \A c \in Links : u \notin {link[c].uuid, link[c].whose}
    /\ row' = [row EXCEPT ![u] = FreshRow(k)]
    /\ UNCHANGED <<located, dht, table, link, order, slipped, twice>>

LinkStep(c) ==
    \/ Connect(c) \/ EndLink(c) \/ RegisterWrite(c) \/ PublishKey(c) \/ StorePubkey(c)
    \/ LoginCheck(c) \/ Enter(c) \/ Evict(c)
    \/ \E u \in People : Login(c, u) \/ Compromised(c, u)
    \/ \E u \in People, k \in PublicKeys : k \in KeysOf[dht][u] /\ Register(c, u, k)

AccountsNext ==
    \/ \E c \in Links : LinkStep(c)
    \/ \E o \in Operators, u \in People : BanUser(o, u) \/ KickUser(o, u)
    \/ \E o \in Operators : CloseSocket(o) \/ DeleteEntry(o)
    \/ \E u \in People : UnbanUser(u) \/ DeleteUser(u) \/ Lapse(u)
    \/ \E u \in People, k \in PublicKeys : k \in KeysOf[dht][u] /\ CreateUser(u, k)

AccountsSpec == AccountsInit /\ [][AccountsNext]_accountsVars

-----------------------------------------------------------------------------
(* Properties.                                                             *)

\* A banned user is not served: once the command or the report that banned it
\* is done, the table has no entry of it, unless a login was past the ban
\* check when the ban was written.
BannedAreOut ==
    \A u \in People :
        /\ Banned(u) /\ u \notin slipped
        /\ \A c \in Links : ~(link[c].at = "evict" /\ link[c].whose = u)
        /\ \A o \in Operators : order[o].whose # u
        => ~Served(u)

\* No entry outlives its connection, unless the connection logged in with a
\* second UUID: _disconnect_client removes the entry of the last one only.
EntriesEnd ==
    \A u \in People : Served(u) /\ link[table[u]].at = "ended" => table[u] \in twice

=============================================================================
