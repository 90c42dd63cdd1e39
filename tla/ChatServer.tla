------------------------------ MODULE ChatServer ------------------------------
(***************************************************************************)
(* The session table, the message relay and the offline queue of the chat  *)
(* server (server/chat/server.py, server/chat/offline.py).                 *)
(*                                                                         *)
(* The server runs one thread per accepted socket.  A thread reads one     *)
(* request at a time and runs its handler to the end; handlers of          *)
(* different threads interleave.  Only the changes of the table            *)
(* "connections" are made under self.lock: the lookups of the senders and  *)
(* the three statements of the login that empty the offline queue are not. *)
(* One action below is one stretch of a handler between two points where   *)
(* another thread can change what the handler has read.                    *)
(***************************************************************************)
EXTENDS Integers, FiniteSets

CONSTANTS
    Users,      \* UUIDs registered with this server
    Conns,      \* ClientConnection objects: one per accept, never used again
    Msgs,       \* SEND_MSG requests, each told apart by its server_msg_id
    NoUser,     \* no UUID
    NoConn,     \* no connection
    MaxBanned   \* bound: users that are ever marked compromised

ASSUME NoUserAssumption == NoUser \notin Users
ASSUME NoConnAssumption == NoConn \notin Conns

VARIABLES
    pc,          \* where the thread of each connection is
    sock,        \* state of the socket of each connection
    owner,       \* conn.uuid: the user of the connection's latest login
    auth,        \* conn.authenticated
    names,       \* history: the users a connection has been entered for
    connections, \* self.connections: UUID -> connection it is served by
    offline,     \* rows of offline_messages, per recipient
    cargo,       \* messages the running handler holds in local variables
    target,      \* target_conn of a running _handle_send_message
    dest,        \* to_uuid of each message sent so far
    receipt,     \* status of the DELIVERY_RECEIPT the sender has received
    inbox,       \* messages that reached the client behind each connection
    banned,      \* users with is_banned = 1
    evicting     \* users marked compromised whose connection is to be cut

vars == <<pc, sock, owner, auth, names, connections, offline, cargo, target,
          dest, receipt, inbox, banned, evicting>>

-----------------------------------------------------------------------------
(* Types.                                                                  *)

LoginSteps == {"checked", "registered", "pushing", "clearing"}
SendSteps  == {"sending", "storing"}

\* No object yet, waiting in recv, running a handler, thread ended.
Locations == {"free", "idle"} \cup LoginSteps \cup SendSteps \cup {"gone"}

\* "lost": the peer is gone and the server has not noticed; "closed": the
\* server closed the socket.  sendall reaches a client on "open" only.
SocketStates == {"none", "open", "lost", "closed"}

Receipts == {"none", "delivered", "queued_offline"}

TypeOK ==
    /\ pc \in [Conns -> Locations]
    /\ sock \in [Conns -> SocketStates]
    /\ owner \in [Conns -> Users \cup {NoUser}]
    /\ auth \in [Conns -> BOOLEAN]
    /\ names \in [Conns -> SUBSET Users]
    /\ connections \in [Users -> Conns \cup {NoConn}]
    /\ offline \in [Users -> SUBSET Msgs]
    /\ cargo \in [Conns -> SUBSET Msgs]
    /\ target \in [Conns -> Conns \cup {NoConn}]
    /\ dest \in [Msgs -> Users \cup {NoUser}]
    /\ receipt \in [Msgs -> Receipts]
    /\ inbox \in [Conns -> SUBSET Msgs]
    /\ banned \in SUBSET Users
    /\ evicting \in SUBSET Users

Init ==
    /\ pc = [c \in Conns |-> "free"]
    /\ sock = [c \in Conns |-> "none"]
    /\ owner = [c \in Conns |-> NoUser]
    /\ auth = [c \in Conns |-> FALSE]
    /\ names = [c \in Conns |-> {}]
    /\ connections = [u \in Users |-> NoConn]
    /\ offline = [u \in Users |-> {}]
    /\ cargo = [c \in Conns |-> {}]
    /\ target = [c \in Conns |-> NoConn]
    /\ dest = [m \in Msgs |-> NoUser]
    /\ receipt = [m \in Msgs |-> "none"]
    /\ inbox = [c \in Conns |-> {}]
    /\ banned = {}
    /\ evicting = {}

-----------------------------------------------------------------------------
(* Helpers.                                                                *)

Registered(c) == auth[c] /\ connections[owner[c]] = c

\* Threads that have an accepted socket and have not ended.
Live(c) == pc[c] \notin {"free", "gone"}

\* _send_raw: sendall on a socket that is not open is swallowed.
Written(c, ms) ==
    inbox' = IF sock[c] = "open" THEN [inbox EXCEPT ![c] = @ \cup ms] ELSE inbox

\* The socket of u's connection is closed, if u has one.
CloseSocketOf(u) ==
    sock' = [c \in Conns |-> IF c = connections[u] THEN "closed" ELSE sock[c]]

\* The sender learns the outcome if its own socket is still open.
Acknowledge(c, ms, status) ==
    receipt' = [m \in Msgs |-> IF m \in ms /\ sock[c] = "open"
                               THEN status ELSE receipt[m]]

-----------------------------------------------------------------------------
(* Clients and their sockets.                                              *)

\* A client connects; who it is it says with LOGIN.
Accept(c) ==
    /\ pc[c] = "free"
    /\ pc' = [pc EXCEPT ![c] = "idle"]
    /\ sock' = [sock EXCEPT ![c] = "open"]
    /\ UNCHANGED <<owner, auth, names, connections, offline, cargo, target, dest, receipt,
                   inbox, banned, evicting>>

\* The client or the network goes away; nothing tells the server yet.
Vanish(c) ==
    /\ sock[c] = "open"
    /\ sock' = [sock EXCEPT ![c] = "lost"]
    /\ UNCHANGED <<pc, owner, auth, names, connections, offline, cargo, target, dest,
                   receipt, inbox, banned, evicting>>

-----------------------------------------------------------------------------
(* LOGIN.  A line that was already read from the socket is handled even if *)
(* the socket has been closed since, so no step looks at sock.             *)

\* Nonce, user, signature and ban are checked; conn takes the user's name,
\* whatever name it had before, and is marked authenticated.
LoginCheck(c, u) ==
    /\ pc[c] = "idle"
    /\ u \notin banned
    /\ pc' = [pc EXCEPT ![c] = "checked"]
    /\ owner' = [owner EXCEPT ![c] = u]
    /\ auth' = [auth EXCEPT ![c] = TRUE]
    /\ UNCHANGED <<sock, names, connections, offline, cargo, target, dest,
                   receipt, inbox, banned, evicting>>

\* Under self.lock: the previous connection of this user, which is c itself
\* when it logs in twice as the same one, is closed and replaced.  An entry
\* that c has under another name stays.
LoginRegister(c) ==
    /\ pc[c] = "checked"
    /\ CloseSocketOf(owner[c])
    /\ connections' = [connections EXCEPT ![owner[c]] = c]
    /\ names' = [names EXCEPT ![c] = @ \cup {owner[c]}]
    /\ pc' = [pc EXCEPT ![c] = "registered"]
    /\ UNCHANGED <<owner, auth, offline, cargo, target, dest, receipt, inbox,
                   banned, evicting>>

\* Mutant: the queue is cleared before it is pushed.
LoginFetchThenClear(c) ==
    /\ pc[c] = "registered"
    /\ cargo' = [cargo EXCEPT ![c] = offline[owner[c]]]
    /\ pc' = [pc EXCEPT ![c] = IF cargo'[c] = {} THEN "idle" ELSE "clearing"]
    /\ UNCHANGED <<sock, owner, auth, names, connections, offline, target, dest,
                   receipt, inbox, banned, evicting>>

\* get_messages; LOGIN_OK follows at once when the queue is empty.
LoginFetch(c) ==
    /\ pc[c] = "registered"
    /\ cargo' = [cargo EXCEPT ![c] = offline[owner[c]]]
    /\ pc' = [pc EXCEPT ![c] = IF offline[owner[c]] = {}
                               THEN "idle" ELSE "pushing"]
    /\ UNCHANGED <<sock, owner, auth, names, connections, offline, target, dest,
                   receipt, inbox, banned, evicting>>

\* OFFLINE_QUEUE is written to the client.
LoginPush(c) ==
    /\ pc[c] = "pushing"
    /\ Written(c, cargo[c])
    /\ pc' = [pc EXCEPT ![c] = "clearing"]
    /\ UNCHANGED <<sock, owner, auth, names, connections, offline, cargo, target,
                   dest, receipt, banned, evicting>>

\* clear_messages deletes every row of the user; LOGIN_OK follows.
LoginClear(c) ==
    /\ pc[c] = "clearing"
    /\ offline' = [offline EXCEPT ![owner[c]] = {}]
    /\ cargo' = [cargo EXCEPT ![c] = {}]
    /\ pc' = [pc EXCEPT ![c] = "idle"]
    /\ UNCHANGED <<sock, owner, auth, names, connections, target, dest, receipt,
                   inbox, banned, evicting>>

-----------------------------------------------------------------------------
(* SEND_MSG to a user of this server.                                      *)

\* connections.get(to_uuid), without the lock, decides the branch.
SendLookup(c, m, u) ==
    /\ pc[c] = "idle"
    /\ auth[c]
    /\ dest[m] = NoUser
    /\ dest' = [dest EXCEPT ![m] = u]
    /\ cargo' = [cargo EXCEPT ![c] = {m}]
    /\ target' = [target EXCEPT ![c] = connections[u]]
    /\ pc' = [pc EXCEPT ![c] = IF connections[u] = NoConn
                               THEN "storing" ELSE "sending"]
    /\ UNCHANGED <<sock, owner, auth, names, connections, offline, receipt, inbox,
                   banned, evicting>>

\* RECV_MSG to target_conn, then DELIVERY_RECEIPT and SEND_OK to the sender.
SendDirect(c) ==
    /\ pc[c] = "sending"
    /\ Written(target[c], cargo[c])
    /\ Acknowledge(c, cargo[c], "delivered")
    /\ cargo' = [cargo EXCEPT ![c] = {}]
    /\ target' = [target EXCEPT ![c] = NoConn]
    /\ pc' = [pc EXCEPT ![c] = "idle"]
    /\ UNCHANGED <<sock, owner, auth, names, connections, offline, dest, banned,
                   evicting>>

\* Mutant: a queued message is reported as delivered.
SendStoreDelivered(c) ==
    /\ pc[c] = "storing"
    /\ offline' = [u \in Users |-> offline[u] \cup
                                     {m \in cargo[c] : dest[m] = u}]
    /\ Acknowledge(c, cargo[c], "delivered")
    /\ cargo' = [cargo EXCEPT ![c] = {}]
    /\ pc' = [pc EXCEPT ![c] = "idle"]
    /\ UNCHANGED <<sock, owner, auth, names, connections, target, dest, inbox,
                   banned, evicting>>

\* add_message, then DELIVERY_RECEIPT and SEND_OK to the sender.
SendStore(c) ==
    /\ pc[c] = "storing"
    /\ offline' = [u \in Users |-> offline[u] \cup
                                     {m \in cargo[c] : dest[m] = u}]
    /\ Acknowledge(c, cargo[c], "queued_offline")
    /\ cargo' = [cargo EXCEPT ![c] = {}]
    /\ pc' = [pc EXCEPT ![c] = "idle"]
    /\ UNCHANGED <<sock, owner, auth, names, connections, target, dest, inbox,
                   banned, evicting>>

-----------------------------------------------------------------------------
(* The ends of a connection.                                               *)

\* Where the thread is in recv or in a call that may raise.
MayEnd == {"idle", "registered", "clearing", "storing"}

\* Mutant: the table entry stays.
DisconnectKeepsEntry(c) ==
    /\ pc[c] \in MayEnd
    /\ sock' = [sock EXCEPT ![c] = "closed"]
    /\ pc' = [pc EXCEPT ![c] = "gone"]
    /\ cargo' = [cargo EXCEPT ![c] = {}]
    /\ target' = [target EXCEPT ![c] = NoConn]
    /\ UNCHANGED <<owner, auth, names, connections, offline, dest, receipt, inbox,
                   banned, evicting>>

\* Mutant: the entry is dropped whichever connection it holds.
DisconnectAnyEntry(c) ==
    /\ pc[c] \in MayEnd
    /\ sock' = [sock EXCEPT ![c] = "closed"]
    /\ connections' = IF auth[c]
                      THEN [connections EXCEPT ![owner[c]] = NoConn]
                      ELSE connections
    /\ pc' = [pc EXCEPT ![c] = "gone"]
    /\ cargo' = [cargo EXCEPT ![c] = {}]
    /\ target' = [target EXCEPT ![c] = NoConn]
    /\ UNCHANGED <<owner, auth, names, offline, dest, receipt, inbox, banned, evicting>>

\* The receive loop ends: recv failed or returned nothing, or the running
\* handler raised (the database was locked, a request it could not parse).
\* _disconnect_client drops the entry of the latest name only, and only if it
\* is this connection's.
Disconnect(c) ==
    /\ pc[c] \in MayEnd
    /\ sock' = [sock EXCEPT ![c] = "closed"]
    /\ connections' = IF Registered(c)
                      THEN [connections EXCEPT ![owner[c]] = NoConn]
                      ELSE connections
    /\ pc' = [pc EXCEPT ![c] = "gone"]
    /\ cargo' = [cargo EXCEPT ![c] = {}]
    /\ target' = [target EXCEPT ![c] = NoConn]
    /\ UNCHANGED <<owner, auth, names, offline, dest, receipt, inbox, banned, evicting>>

\* Mutant: the pass closes the socket and leaves the entry to the thread.
TimeoutCloses(c) ==
    /\ \E u \in Users : connections[u] = c
    /\ sock' = [sock EXCEPT ![c] = "closed"]
    /\ UNCHANGED <<pc, owner, auth, names, connections, offline, cargo, target,
                   dest, receipt, inbox, banned, evicting>>

\* The maintenance thread cuts a connection silent for 600 seconds: last_seen
\* is the connection's, so its entries go together, under self.lock.
TimeoutDrop(c) ==
    /\ \E u \in Users : connections[u] = c
    /\ sock' = [sock EXCEPT ![c] = "closed"]
    /\ connections' = [u \in Users |-> IF connections[u] = c
                                       THEN NoConn ELSE connections[u]]
    /\ UNCHANGED <<pc, owner, auth, names, offline, cargo, target, dest,
                   receipt, inbox, banned, evicting>>

\* COMPROMISED or the dead man's switch: mark_compromised sets is_banned.
MarkCompromised(u) ==
    /\ u \notin evicting
    /\ Cardinality(banned \cup {u}) <= MaxBanned
    /\ banned' = banned \cup {u}
    /\ evicting' = evicting \cup {u}
    /\ UNCHANGED <<pc, sock, owner, auth, names, connections, offline, cargo, target,
                   dest, receipt, inbox>>

\* ... and then, under self.lock, the user's connection is closed.
Evict(u) ==
    /\ u \in evicting
    /\ CloseSocketOf(u)
    /\ connections' = [connections EXCEPT ![u] = NoConn]
    /\ evicting' = evicting \ {u}
    /\ UNCHANGED <<pc, owner, auth, names, offline, cargo, target, dest, receipt,
                   inbox, banned>>

\* The process dies and is started again: the two databases survive.
Restart ==
    /\ \E c \in Conns : Live(c)
    /\ pc' = [c \in Conns |-> IF Live(c) THEN "gone" ELSE pc[c]]
    /\ sock' = [c \in Conns |-> IF Live(c) THEN "closed" ELSE sock[c]]
    /\ connections' = [u \in Users |-> NoConn]
    /\ cargo' = [c \in Conns |-> {}]
    /\ target' = [c \in Conns |-> NoConn]
    /\ evicting' = {}
    /\ UNCHANGED <<owner, auth, names, offline, dest, receipt, inbox, banned>>

-----------------------------------------------------------------------------

\* One step of the handler a thread is running.
HandlerStep(c) ==
    \/ LoginRegister(c)
    \/ LoginFetch(c)
    \/ LoginPush(c)
    \/ LoginClear(c)
    \/ SendDirect(c)
    \/ SendStore(c)

Next ==
    \/ \E c \in Conns :
          \/ Accept(c)
          \/ Vanish(c)
          \/ \E u \in Users : LoginCheck(c, u)
          \/ \E m \in Msgs, u \in Users : SendLookup(c, m, u)
          \/ HandlerStep(c)
          \/ Disconnect(c)
          \/ TimeoutDrop(c)
    \/ \E u \in Users :
          \/ MarkCompromised(u)
          \/ Evict(u)
    \/ Restart

Spec == Init /\ [][Next]_vars

(* Fairness.  A running handler is not stopped for ever.  The lines a      *)
(* thread has buffered are finitely many, so it returns to recv again and  *)
(* again, and recv fails on a socket the server has closed.  The           *)
(* maintenance thread passes every 60 seconds and finds the connections    *)
(* whose client has gone silent or whose thread has ended: neither sets    *)
(* last_seen any more.                                                     *)

ReceiveFails(c) == pc[c] = "idle" /\ sock[c] = "closed" /\ Disconnect(c)

SilentClientDropped(c) ==
    /\ sock[c] = "lost" \/ pc[c] = "gone"
    /\ TimeoutDrop(c)

Fairness ==
    /\ \A c \in Conns :
          /\ WF_vars(HandlerStep(c))
          /\ SF_vars(ReceiveFails(c))
          /\ WF_vars(SilentClientDropped(c))
    /\ \A u \in Users : WF_vars(Evict(u))

FairSpec == Spec /\ Fairness

-----------------------------------------------------------------------------
(* Properties.                                                             *)

Arrived(m) == \E c \in Conns : m \in inbox[c]

\* Sessions: every table entry leads to a connection that logged in as that
\* user, and to a live thread.  The one way an entry outlives its thread is
\* a later login of the same connection under another name: no old thread that
\* ends late, timeout or eviction leaves an entry behind (_disconnect_client).
NoGhostSession ==
    \A u \in Users : connections[u] # NoConn =>
        LET c == connections[u] IN
            /\ u \in names[c]
            /\ Live(c) \/ owner[c] # u

\* Sessions: a client that has logged in and still has its socket is served
\* under every name it has logged in with: no end of another connection of the
\* same user, no takeover, no timeout and no second login takes an entry away
\* and leaves the socket open.
OpenSessionIsReachable ==
    \A c \in Conns : sock[c] = "open" =>
        \A u \in names[c] : connections[u] = c

\* Relay: a message only ever reaches a client of the user it was sent to,
\* whatever takes over the entry between the lookup and the sendall.
NoMisdelivery ==
    \A c \in Conns : \A m \in inbox[c] : dest[m] \in names[c]

\* Relay: "delivered" was reported of a message that never arrived only if a
\* connection of the recipient had broken or had been closed meanwhile.
DeliveredOrSocketLost ==
    \A m \in Msgs : receipt[m] = "delivered" /\ ~Arrived(m) =>
        \E c \in Conns : dest[m] \in names[c] /\ sock[c] # "open"

\* Offline queue: the same message reaches two clients only when the second
\* took over from the first, which the server has then cut off.
NoTwoLiveCopies ==
    \A c, d \in Conns : c # d /\ inbox[c] \cap inbox[d] # {} =>
        sock[c] # "open" \/ sock[d] # "open"

\* Offline queue: a message the login has fetched leaves the queue only after
\* it was written to the client, or when that client's socket is broken.
ClearedOnlyAfterPush ==
    [][\A u \in Users : \A m \in offline[u] \ offline'[u] :
          \E c \in Conns :
             /\ owner[c] = u
             /\ pc[c] = "clearing"
             /\ m \in cargo[c] => m \in inbox[c] \/ sock[c] # "open"]_vars

\* Sessions: an entry whose socket is dead is removed in the end, so that the
\* recipient's messages go to the offline queue again, the entry left by an
\* ended thread included (_disconnect_client, _maintenance_loop).
DeadSessionForgotten ==
    \A c \in Conns, u \in Users :
        connections[u] = c /\ sock[c] # "open" ~> connections[u] # c

-----------------------------------------------------------------------------
(* What the repository says of the code and the code does not do.          *)

\* offline.py:82: clear_messages removes the queue after its delivery.  Stated
\* for a login whose client is still there to receive it.
ClearedMeansArrived ==
    [][\A u \in Users : \A m \in offline[u] \ offline'[u] :
          \/ Arrived(m)
          \/ \E c \in Conns : /\ owner[c] = u
                              /\ pc[c] = "clearing"
                              /\ sock[c] # "open"]_vars

-----------------------------------------------------------------------------
(* Strengthening of the safety properties that is inductive.               *)

\* What a connection object is before its accept and after its thread ended.
ThreadLifeInv ==
    \A c \in Conns :
        /\ pc[c] = "free" => /\ sock[c] = "none"
                            /\ names[c] = {}
                            /\ inbox[c] = {}
        /\ pc[c] = "gone" => sock[c] = "closed"
        /\ pc[c] # "free" => sock[c] # "none"
        /\ pc[c] \in LoginSteps \cup SendSteps => auth[c]
        /\ auth[c] => owner[c] \in Users
        /\ names[c] # {} => auth[c]
        /\ pc[c] \in LoginSteps \ {"checked"} => owner[c] \in names[c]

\* What the messages held by a running handler are.  A connection that was
\* looked up had been entered for the recipient.
CargoInv ==
    \A c \in Conns :
        /\ pc[c] = "sending" => target[c] \in Conns
        /\ \A m \in cargo[c] :
              /\ dest[m] # NoUser
              /\ pc[c] \in {"pushing", "clearing"} => dest[m] = owner[c]
              /\ pc[c] = "clearing" => m \in inbox[c] \/ sock[c] # "open"
              /\ pc[c] = "sending" => dest[m] \in names[target[c]]

\* Queued messages are their owner's; receipts are for messages sent.
QueueInv ==
    /\ \A u \in Users : \A m \in offline[u] : dest[m] = u
    /\ \A m \in Msgs : receipt[m] # "none" => dest[m] # NoUser

IndInv ==
    /\ TypeOK
    /\ ThreadLifeInv
    /\ CargoInv
    /\ QueueInv
    /\ NoGhostSession
    /\ OpenSessionIsReachable
    /\ NoMisdelivery
    /\ DeliveredOrSocketLost

=============================================================================
