------------------------------ MODULE CrossServer ------------------------------
(***************************************************************************)
(* The connections between servers and the messages relayed over them      *)
(* (server/chat/cross_server.py).                                          *)
(*                                                                         *)
(* Servers call each other at addresses they have been told or have seen.  *)
(* After HELLO, HELLO and AUTH_OK both ends enter the connection in their  *)
(* table of peers, one entry per peer, and start a thread that receives    *)
(* until the connection fails.  fetch_post makes connections of its own    *)
(* for one request.  A message for a user of another server is written to  *)
(* the peer's entry, or waits in memory for the next call that succeeds.   *)
(*                                                                         *)
(* Two ends of one connection are two threads of two processes.  Only the  *)
(* accesses to the table are made under peers_lock; a sender keeps the     *)
(* socket it has looked up and writes to it without the lock.              *)
(***************************************************************************)
EXTENDS Naturals

CONSTANTS
    Servers,    \* node_id's
    Conns,      \* TCP connections, each used once
    Msgs,       \* messages to be relayed
    MaxFaults,  \* bound on failed statements on peer_servers
    NoServer, NoConn

ASSUME NoServerAssumption == NoServer \notin Servers
ASSUME NoConnAssumption == NoConn \notin Conns
ASSUME FaultAssumption == MaxFaults \in Nat
ASSUME ControlAssumption == Msgs \cap {"hello", "auth", "fetch"} = {}

VARIABLES
    from, to,   \* the servers that made and that accepted each connection
    place,      \* what each server's thread for the connection is doing
    wire,       \* what has been written and not yet read, per reader
    peers,      \* self.peers: the connection of each peer
    known,      \* address of the peer that known_peers names first
    table,      \* address in the table peer_servers
    dials,      \* peers that a thread or a timer may call
    pending,    \* self.pending_messages
    cargo,      \* messages the running _flush_pending of a connection sends
    home, dest, \* server of the sender and server of the recipient
    stage,      \* where the thread that relays a message is
    via,        \* socket it has looked up in the table, or the connection
                \* whose _flush_pending has taken the list it appends to
    answer,     \* what relay_message has answered
    arrived,    \* how often the message was received
    dropped,    \* messages that a send, a restart or a list that was taken
                \* has dropped
    faults      \* failed statements so far

links == <<from, to, place, wire, peers>>
addresses == <<known, table, dials>>
relays == <<pending, cargo, home, dest, stage, via, answer, arrived, dropped>>
vars == <<links, addresses, relays, faults>>

Control == {"hello", "auth", "fetch"}

\* Ends whose handshake is under way: the caller and fetch_post wait for
\* HELLO, fetch_post waits for its result, the other side for HELLO, AUTH_OK.
Handshake == {"calling", "fetching", "asking", "greeted", "answered"}

\* "orphan": in the table, but the thread has given up before it received.
Places == Handshake \cup {"none", "naming", "flushing", "receiving", "orphan",
                          "closed", "gone"}

\* "stale": the port an incoming connection came from, where nobody listens.
Addresses == {"none", "listen", "stale"}

TypeOK ==
    /\ from \in [Conns -> Servers \cup {NoServer}]
    /\ to \in [Conns -> Servers \cup {NoServer}]
    /\ place \in [Conns -> [Servers -> Places]]
    /\ wire \in [Conns -> [Servers -> SUBSET (Msgs \cup Control)]]
    /\ peers \in [Servers -> [Servers -> Conns \cup {NoConn}]]
    /\ known \in [Servers -> [Servers -> Addresses]]
    /\ table \in [Servers -> [Servers -> Addresses]]
    /\ dials \in [Servers -> SUBSET Servers]
    /\ pending \in [Servers -> [Servers -> SUBSET Msgs]]
    /\ cargo \in [Conns -> SUBSET Msgs]
    /\ home \in [Msgs -> Servers \cup {NoServer}]
    /\ dest \in [Msgs -> Servers \cup {NoServer}]
    /\ stage \in [Msgs -> {"new", "queue", "append", "send", "write", "done"}]
    /\ via \in [Msgs -> Conns \cup {NoConn}]
    /\ answer \in [Msgs -> {"none", "delivered", "queued"}]
    /\ arrived \in [Msgs -> Nat]
    /\ dropped \in SUBSET Msgs
    /\ faults \in 0..MaxFaults
    /\ \A m \in Msgs : stage[m] = "write" => via[m] \in Conns

Init ==
    /\ from = [c \in Conns |-> NoServer]
    /\ to = [c \in Conns |-> NoServer]
    /\ place = [c \in Conns |-> [s \in Servers |-> "none"]]
    /\ wire = [c \in Conns |-> [s \in Servers |-> {}]]
    /\ peers = [s \in Servers |-> [p \in Servers |-> NoConn]]
    /\ known = [s \in Servers |-> [p \in Servers |-> "none"]]
    /\ table = [s \in Servers |-> [p \in Servers |-> "none"]]
    /\ dials = [s \in Servers |-> {}]
    /\ pending = [s \in Servers |-> [p \in Servers |-> {}]]
    /\ cargo = [c \in Conns |-> {}]
    /\ home = [m \in Msgs |-> NoServer]
    /\ dest = [m \in Msgs |-> NoServer]
    /\ stage = [m \in Msgs |-> "new"]
    /\ via = [m \in Msgs |-> NoConn]
    /\ answer = [m \in Msgs |-> "none"]
    /\ arrived = [m \in Msgs |-> 0]
    /\ dropped = {}
    /\ faults = 0

-----------------------------------------------------------------------------
(* Addresses.                                                              *)

\* add_known_peer: the row is replaced, the list is only added to.
Named(s, p, address) ==
    /\ table' = [table EXCEPT ![s][p] = address]
    /\ known' = IF known[s][p] = "none"
                THEN [known EXCEPT ![s][p] = address] ELSE known

\* ... and the address is called at once.  Calls to a stale one never get
\* through and are not modelled.
Call(s, p) == dials' = [dials EXCEPT ![s] = @ \cup {p}]

\* A peer is announced to s by its listening address.
AddKnownPeer(s, p) ==
    /\ s # p
    /\ Named(s, p, "listen")
    /\ Call(s, p)
    /\ UNCHANGED <<links, relays, faults>>

-----------------------------------------------------------------------------
(* The handshake.                                                          *)

\* A connection comes about; the caller has written its HELLO, and the other
\* server has a thread for it.
Connect(c, s, p, purpose) ==
    /\ from[c] = NoServer
    /\ from' = [from EXCEPT ![c] = s]
    /\ to' = [to EXCEPT ![c] = p]
    /\ place' = [place EXCEPT ![c] =
                     [@ EXCEPT ![s] = purpose, ![p] = "greeted"]]
    /\ UNCHANGED <<wire, peers, addresses, relays, faults>>

\* _connect_to_peer, whether there is a connection to p already or not.
Dial(c, s, p) == p \in dials[s] /\ Connect(c, s, p, "calling")

\* fetch_post, when no peer is entered under the address it was given.
Fetch(c, s, p) ==
    /\ s # p
    /\ \A d \in Conns : peers[s][p] = d => from[d] # s
    /\ Connect(c, s, p, "fetching")

\* _handle_peer checks HELLO and sends its own.
Answer(c, s, p) ==
    /\ from[c] = s /\ to[c] = p
    /\ place[c][p] = "greeted"
    /\ place' = [place EXCEPT ![c][p] = "answered"]
    /\ wire' = [wire EXCEPT ![c][s] = @ \cup {"hello"}]
    /\ UNCHANGED <<from, to, peers, addresses, relays, faults>>

\* The caller checks HELLO, sends AUTH_OK and enters the connection in its
\* table, whatever is entered there.
Register(c, s, p) ==
    /\ from[c] = s /\ to[c] = p
    /\ place[c][s] = "calling"
    /\ "hello" \in wire[c][s]
    /\ wire' = [wire EXCEPT ![c][s] = @ \ {"hello"},
                           ![c][p] = @ \cup {"auth"}]
    /\ peers' = [peers EXCEPT ![s][p] = c]
    /\ place' = [place EXCEPT ![c][s] = "naming"]
    /\ UNCHANGED <<from, to, addresses, relays, faults>>

\* The list of the peer is taken, also from a thread about to append to it.
Flushed(c, s, p) ==
    /\ cargo' = [cargo EXCEPT ![c] = pending[s][p]]
    /\ stage' = [m \in Msgs |->
                    IF m \in pending[s][p] THEN "send" ELSE stage[m]]
    /\ via' = [m \in Msgs |->
                  IF /\ stage[m] = "append" /\ via[m] = NoConn
                     /\ home[m] = s /\ dest[m] = p
                  THEN c ELSE via[m]]

\* Mutant: the messages are sent and stay in the queue.
NameKeepsQueue(c, s, p) ==
    /\ from[c] = s /\ to[c] = p
    /\ place[c][s] = "naming"
    /\ Named(s, p, "listen")
    /\ Call(s, p)
    /\ Flushed(c, s, p)
    /\ place' = [place EXCEPT ![c][s] = "flushing"]
    /\ UNCHANGED <<from, to, wire, peers, pending, home, dest, answer, arrived,
                   dropped, faults>>

\* add_known_peer, then _flush_pending takes the queue of the peer.
Name(c, s, p) ==
    /\ from[c] = s /\ to[c] = p
    /\ place[c][s] = "naming"
    /\ Named(s, p, "listen")
    /\ Call(s, p)
    /\ pending' = [pending EXCEPT ![s][p] = {}]
    /\ Flushed(c, s, p)
    /\ place' = [place EXCEPT ![c][s] = "flushing"]
    /\ UNCHANGED <<from, to, wire, peers, home, dest, answer, arrived, dropped,
                   faults>>

\* The statement on peer_servers raises: the entry stays and nobody receives.
NameFails(c, s, p) ==
    /\ from[c] = s /\ to[c] = p
    /\ place[c][s] = "naming"
    /\ faults < MaxFaults
    /\ faults' = faults + 1
    /\ place' = [place EXCEPT ![c][s] = "orphan"]
    /\ UNCHANGED <<from, to, wire, peers, addresses, relays>>

\* The queue is sent; the receiving thread starts.
StartLoop(c, s) ==
    /\ place[c][s] = "flushing"
    /\ \A m \in cargo[c] : stage[m] = "done"
    /\ place' = [place EXCEPT ![c][s] = "receiving"]
    /\ cargo' = [cargo EXCEPT ![c] = {}]
    /\ UNCHANGED <<from, to, wire, peers, addresses, pending, home, dest,
                   stage, via, answer, arrived, dropped, faults>>

\* fetch_post sends AUTH_OK and its request.
AskPost(c, s, p) ==
    /\ from[c] = s /\ to[c] = p
    /\ place[c][s] = "fetching"
    /\ "hello" \in wire[c][s]
    /\ wire' = [wire EXCEPT ![c][s] = @ \ {"hello"},
                           ![c][p] = @ \cup {"auth", "fetch"}]
    /\ place' = [place EXCEPT ![c][s] = "asking"]
    /\ UNCHANGED <<from, to, peers, addresses, relays, faults>>

\* _handle_peer checks AUTH_OK, enters the connection in its table, names the
\* peer by the port it called from, and receives.
Admit(c, s, p) ==
    /\ from[c] = s /\ to[c] = p
    /\ place[c][p] = "answered"
    /\ "auth" \in wire[c][p]
    /\ wire' = [wire EXCEPT ![c][p] = @ \ {"auth"}]
    /\ peers' = [peers EXCEPT ![p][s] = c]
    /\ Named(p, s, "stale")
    /\ place' = [place EXCEPT ![c][p] = "receiving"]
    /\ UNCHANGED <<from, to, dials, relays, faults>>

\* The statement on peer_servers raises: the socket is closed, the entry stays.
AdmitFails(c, s, p) ==
    /\ from[c] = s /\ to[c] = p
    /\ place[c][p] = "answered"
    /\ "auth" \in wire[c][p]
    /\ faults < MaxFaults
    /\ faults' = faults + 1
    /\ wire' = [wire EXCEPT ![c][p] = @ \ {"auth"}]
    /\ peers' = [peers EXCEPT ![p][s] = c]
    /\ place' = [place EXCEPT ![c][p] = "closed"]
    /\ UNCHANGED <<from, to, addresses, relays>>

\* A handshake times out, its connection breaks, or the line it expects comes
\* together with the next one, which is not JSON; fetch_post also ends here,
\* with the first thing it reads.
HandshakeEnds(c, q) ==
    /\ place[c][q] \in Handshake
    /\ place' = [place EXCEPT ![c][q] = "gone"]
    /\ UNCHANGED <<from, to, wire, peers, addresses, relays, faults>>

-----------------------------------------------------------------------------
(* Receiving.                                                              *)

\* _handle_interserver_message
Receive(c, q, x) ==
    /\ place[c][q] = "receiving"
    /\ x \in wire[c][q]
    /\ wire' = [wire EXCEPT ![c][q] = @ \ {x}]
    /\ arrived' = IF x \in Msgs THEN [arrived EXCEPT ![x] = @ + 1] ELSE arrived
    /\ UNCHANGED <<from, to, place, peers, addresses, pending, cargo, home,
                   dest, stage, via, answer, dropped, faults>>

\* Mutant: the entry stays.
LoopEndsKeepsEntry(c, q, r) ==
    /\ place[c][q] = "receiving"
    /\ \/ from[c] = q /\ to[c] = r
       \/ from[c] = r /\ to[c] = q
    /\ place' = [place EXCEPT ![c][q] = "gone"]
    /\ UNCHANGED <<from, to, wire, peers, addresses, relays, faults>>

\* The other end is gone, the network fails, or nothing came for 300 seconds.
\* The entry of the peer is dropped, whichever connection it names.
LoopEnds(c, q, r) ==
    /\ place[c][q] = "receiving"
    /\ \/ from[c] = q /\ to[c] = r
       \/ from[c] = r /\ to[c] = q
    /\ place' = [place EXCEPT ![c][q] = "gone"]
    /\ peers' = [peers EXCEPT ![q][r] = NoConn]
    /\ UNCHANGED <<from, to, wire, addresses, relays, faults>>

-----------------------------------------------------------------------------
(* Relaying.                                                               *)

\* relay_message has found the recipient's server.  It looks the peer up and
\* queues the message, or asks the peer for its rate limit and sends it.
Relay(m, s, p) ==
    /\ s # p
    /\ stage[m] = "new"
    /\ home' = [home EXCEPT ![m] = s]
    /\ dest' = [dest EXCEPT ![m] = p]
    /\ stage' = [stage EXCEPT ![m] = IF peers[s][p] = NoConn
                                     THEN "queue" ELSE "send"]
    /\ UNCHANGED <<links, addresses, pending, cargo, via, answer, arrived,
                   dropped, faults>>

\* The sender is over its rate limit.
Limit(m) ==
    /\ stage[m] = "send"
    /\ answer[m] = "none"
    /\ stage' = [stage EXCEPT ![m] = "done"]
    /\ UNCHANGED <<links, addresses, pending, cargo, home, dest, via, answer,
                   arrived, dropped, faults>>

\* The list of the peer is looked up, without a lock.
Queue(m) ==
    /\ stage[m] = "queue"
    /\ stage' = [stage EXCEPT ![m] = "append"]
    /\ UNCHANGED <<links, addresses, pending, cargo, home, dest, via, answer,
                   arrived, dropped, faults>>

\* _try_connect_to_peer_by_node_id calls the first address; then the answer.
Queued(m, s, p) ==
    /\ stage[m] = "append"
    /\ s = home[m] /\ p = dest[m]
    /\ IF known[s][p] = "listen" THEN Call(s, p) ELSE UNCHANGED dials
    /\ answer' = [answer EXCEPT ![m] = "queued"]
    /\ UNCHANGED <<links, known, table, home, dest, via, arrived, faults>>

\* The message is appended to the list that was looked up.
Append(m, s, p) ==
    /\ Queued(m, s, p)
    /\ via[m] = NoConn
    /\ pending' = [pending EXCEPT ![s][p] = @ \cup {m}]
    /\ stage' = [stage EXCEPT ![m] = "done"]
    /\ UNCHANGED <<cargo, dropped>>

\* A _flush_pending has taken that list and has not come to its end.
AppendTaken(m, c, s, p) ==
    /\ Queued(m, s, p)
    /\ via[m] = c
    /\ place[c][s] = "flushing"
    /\ cargo' = [cargo EXCEPT ![c] = @ \cup {m}]
    /\ stage' = [stage EXCEPT ![m] = "send"]
    /\ UNCHANGED <<pending, dropped>>

\* ... or has come to its end: nobody will look at the list again.
AppendLost(m, c, s, p) ==
    /\ Queued(m, s, p)
    /\ via[m] = c
    /\ \A n \in cargo[c] : stage[n] = "done"
    /\ dropped' = dropped \cup {m}
    /\ stage' = [stage EXCEPT ![m] = "done"]
    /\ UNCHANGED <<pending, cargo>>

\* The answer to a message is given once; _flush_pending gives none.
Reported(m, result) ==
    answer' = IF answer[m] = "none" THEN [answer EXCEPT ![m] = result]
              ELSE answer

\* _send_to_peer looks the socket up.
Pick(m, s, p) ==
    /\ stage[m] = "send"
    /\ s = home[m] /\ p = dest[m]
    /\ peers[s][p] # NoConn
    /\ via' = [via EXCEPT ![m] = peers[s][p]]
    /\ stage' = [stage EXCEPT ![m] = "write"]
    /\ UNCHANGED <<links, addresses, pending, cargo, home, dest, answer,
                   arrived, dropped, faults>>

\* There is no entry any more: nothing is sent and nothing is queued.
PickNothing(m, s, p) ==
    /\ stage[m] = "send"
    /\ s = home[m] /\ p = dest[m]
    /\ peers[s][p] = NoConn
    /\ Reported(m, "queued")
    /\ dropped' = dropped \cup {m}
    /\ stage' = [stage EXCEPT ![m] = "done"]
    /\ UNCHANGED <<links, addresses, pending, cargo, home, dest, via, arrived,
                   faults>>

\* sendall, which keeps its socket open.
Write(m, s, p) ==
    /\ stage[m] = "write"
    /\ s = home[m] /\ p = dest[m]
    /\ place[via[m]][s] # "closed"
    /\ wire' = [wire EXCEPT ![via[m]][p] = @ \cup {m}]
    /\ Reported(m, "delivered")
    /\ stage' = [stage EXCEPT ![m] = "done"]
    /\ UNCHANGED <<from, to, place, peers, addresses, pending, cargo, home,
                   dest, via, arrived, dropped, faults>>

\* Mutant: a failed send counts as delivered.
WriteFailsDelivered(m, s, p) ==
    /\ stage[m] = "write"
    /\ s = home[m] /\ p = dest[m]
    /\ peers' = [peers EXCEPT ![s][p] = NoConn]
    /\ Reported(m, "delivered")
    /\ dropped' = dropped \cup {m}
    /\ stage' = [stage EXCEPT ![m] = "done"]
    /\ UNCHANGED <<from, to, place, wire, addresses, pending, cargo, home,
                   dest, via, arrived, faults>>

\* sendall raises: the entry of the peer is dropped, whichever connection it
\* names, and the message with it.
WriteFails(m, s, p) ==
    /\ stage[m] = "write"
    /\ s = home[m] /\ p = dest[m]
    /\ peers' = [peers EXCEPT ![s][p] = NoConn]
    /\ Reported(m, "queued")
    /\ dropped' = dropped \cup {m}
    /\ stage' = [stage EXCEPT ![m] = "done"]
    /\ UNCHANGED <<from, to, place, wire, addresses, pending, cargo, home,
                   dest, via, arrived, faults>>

\* The same for a message that is not relayed: the query for a rate limit, a
\* lookup, an announcement, a decoy.
OtherSendFails(s, p) ==
    /\ peers' = [peers EXCEPT ![s][p] = NoConn]
    /\ UNCHANGED <<from, to, place, wire, addresses, relays, faults>>

-----------------------------------------------------------------------------

\* Messages server s has in memory and nowhere else.
InMemory(s) ==
    {m \in Msgs :
        \/ \E p \in Servers : m \in pending[s][p]
        \/ home[m] = s /\ stage[m] \in {"queue", "append", "send", "write"}}

\* A server dies and is started again: start() loads and calls the rows.
Restart(s) ==
    /\ place' = [c \in Conns |-> IF place[c][s] = "none" THEN place[c]
                                 ELSE [place[c] EXCEPT ![s] = "gone"]]
    /\ peers' = [peers EXCEPT ![s] = [p \in Servers |-> NoConn]]
    /\ known' = [known EXCEPT ![s] = table[s]]
    /\ dials' = [dials EXCEPT ![s] = {p \in Servers : table[s][p] = "listen"}]
    /\ dropped' = dropped \cup InMemory(s)
    /\ pending' = [pending EXCEPT ![s] = [p \in Servers |-> {}]]
    /\ cargo' = [c \in Conns |-> IF from[c] = s THEN {} ELSE cargo[c]]
    /\ stage' = [m \in Msgs |-> IF home[m] = s THEN "done" ELSE stage[m]]
    /\ UNCHANGED <<from, to, wire, table, home, dest, via, answer, arrived,
                   faults>>

Sending(m) ==
    \E s, p \in Servers :
        \/ Append(m, s, p)
        \/ \E c \in Conns : AppendTaken(m, c, s, p) \/ AppendLost(m, c, s, p)
        \/ Pick(m, s, p)
        \/ PickNothing(m, s, p)
        \/ Write(m, s, p)
        \/ WriteFails(m, s, p)

Next ==
    \/ \E s, p \in Servers : AddKnownPeer(s, p) \/ OtherSendFails(s, p)
    \/ \E c \in Conns, s, p \in Servers :
          \/ Dial(c, s, p)
          \/ Fetch(c, s, p)
          \/ Answer(c, s, p)
          \/ Register(c, s, p)
          \/ Name(c, s, p)
          \/ NameFails(c, s, p)
          \/ AskPost(c, s, p)
          \/ Admit(c, s, p)
          \/ AdmitFails(c, s, p)
          \/ LoopEnds(c, s, p)
    \/ \E c \in Conns, s \in Servers :
          \/ StartLoop(c, s)
          \/ HandshakeEnds(c, s)
          \/ \E x \in Msgs \cup Control : Receive(c, s, x)
    \/ \E m \in Msgs :
          \/ \E s, p \in Servers : Relay(m, s, p)
          \/ Limit(m)
          \/ Queue(m)
          \/ Sending(m)
    \/ \E s \in Servers : Restart(s)

Spec == Init /\ [][Next]_vars

-----------------------------------------------------------------------------
(* Properties.                                                             *)

OnWire(m) ==
    \E c \in Conns, s \in Servers : s = dest[m] /\ m \in wire[c][s]

Waiting(m) == \E s, p \in Servers : m \in pending[s][p]

\* Relay: a message is received once at most, and nothing is about to send it
\* again, however many connections come and go, and whatever the table named
\* when it was queued, flushed and written (_flush_pending, _send_to_peer).
RelayedOnce ==
    \A m \in Msgs :
        /\ arrived[m] <= 1
        /\ arrived[m] = 1 =>
              stage[m] = "done" /\ ~OnWire(m) /\ ~Waiting(m)

\* Relay: a message reported as delivered was written to its recipient's
\* server; one reported as queued is queued or being sent, unless a send has
\* failed, the server has restarted or the message was appended to a list that
\* was taken before (relay_message, _flush_pending).
AnswerHolds ==
    \A m \in Msgs :
        /\ answer[m] = "delivered" => OnWire(m) \/ arrived[m] = 1
        /\ answer[m] = "queued" =>
              \/ OnWire(m) \/ arrived[m] = 1
              \/ Waiting(m)
              \/ stage[m] \in {"send", "write"}
              \/ m \in dropped

\* Peers: an entry names a connection between the two servers over which the
\* peer has proved who it is (_connect_to_peer, _handle_peer).
EntryIsProved ==
    \A s, p \in Servers : \A c \in Conns : peers[s][p] = c =>
        \/ /\ from[c] = s /\ to[c] = p
           /\ place[c][p] # "greeted"
        \/ /\ from[c] = p /\ to[c] = s
           /\ place[c][p] \notin {"calling", "fetching"}

\* Peers: as long as no statement on peer_servers fails, an entry names a
\* connection that a thread receives from or is about to: the end of the other
\* side will be read and drop the entry, so that messages are queued again
\* and not written to a dead socket (_peer_recv_loop).
EntryIsServed ==
    faults = 0 =>
        \A s, p \in Servers : \A c \in Conns : peers[s][p] = c =>
            place[c][s] \in {"naming", "flushing", "receiving"}

-----------------------------------------------------------------------------
(* Strengthening that is inductive.                                        *)

\* What is on a wire, and what it says of the other end.
LinkInv ==
    /\ \A m \in Msgs : stage[m] = "write" => from[via[m]] # NoServer
    /\ \A c \in Conns :
          /\ from[c] = NoServer => \A s \in Servers : wire[c][s] = {}
          /\ from[c] # NoServer =>
                /\ from[c] # to[c] /\ to[c] \in Servers
                /\ "hello" \in wire[c][from[c]] => place[c][to[c]] # "greeted"
                /\ "auth" \in wire[c][to[c]] =>
                      place[c][from[c]] \notin {"calling", "fetching"}

\* A message is in one place: not sent yet, in the hands of a thread, in the
\* queue of its recipient's server, on one wire to it, or received.
PlaceInv ==
    /\ \A m \in Msgs : stage[m] # "done" => arrived[m] = 0
    /\ \A m \in Msgs : stage[m] = "new" => answer[m] = "none"
    /\ \A m \in Msgs, s, p \in Servers : m \in pending[s][p] =>
          /\ stage[m] = "done" /\ arrived[m] = 0
          /\ s = home[m] /\ p = dest[m]
    /\ \A m \in Msgs, c \in Conns, s \in Servers : m \in wire[c][s] =>
          /\ stage[m] = "done" /\ arrived[m] = 0
          /\ s = dest[m]
          /\ ~Waiting(m)
          /\ \A d \in Conns : m \in wire[d][s] => d = c
    /\ \A m \in Msgs : arrived[m] <= 1

IndInv ==
    /\ TypeOK
    /\ LinkInv
    /\ EntryIsProved
    /\ EntryIsServed
    /\ PlaceInv
    /\ AnswerHolds

=============================================================================
