-------------------------------- MODULE Dht --------------------------------
(***************************************************************************)
(* The distributed hash table (server/dht/node.py and routing.py).         *)
(*                                                                         *)
(* Signed datagrams, which the network may lose, delay, reorder and        *)
(* duplicate, fill each node's routing table and its store of values.      *)
(* Every node has a clock of its own.                                      *)
(*                                                                         *)
(* An entry of the table says which node it is about and where messages to *)
(* it go: to a node's address, or, if its host is "" or 0.0.0.0, back to   *)
(* the machine that sends (Here).                                          *)
(*                                                                         *)
(* Nothing in the repository sends DHT_GET, so _handle_get never runs; a   *)
(* value is read from the node's own store.  The keys of the repository's  *)
(* calls of store ("user:...", "server:...") are not hexadecimal: such a   *)
(* call writes the own store and then raises.                              *)
(***************************************************************************)
EXTENDS Integers, FiniteSets, Sequences

CONSTANTS
    Nodes,          \* node IDs
    Here,           \* a host that leads back to the sender
    Advertised,     \* self.host of each node: its address or Here
    Distance,       \* XOR of two IDs
    Bucket,         \* index of the bucket of an ID in the table of a node
    K,              \* k_bucket_size
    Alpha,          \* alpha
    Rounds,         \* rounds of queries at the end of bootstrap
    PacketRoom,     \* entries that fit into a packet of DHT_MAX_PACKET bytes
    DhtWindow,      \* DHT_REPLAY_WINDOW
    SeenMax,        \* MAX_REPLAY_CACHE
    Ttl,            \* ttl of a stored value
    Values,         \* values stored
    Commanded,      \* nodes whose administrators give commands
    HexKeys, OtherKeys, \* keys that are hexadecimal numbers, and others
    Skews,          \* clocks of the nodes: functions from Nodes to Int
    MaxNow,         \* bound on the time
    Quotas,         \* bounds on the messages each node signs: an execution has one
    MaxEvents       \* bound on commands and restarts

Keys == HexKeys \cup OtherKeys

ASSUME DhtAssumption ==
    /\ Advertised \in [Nodes -> Nodes \cup {Here}] /\ Here \notin Nodes
    /\ \A n \in Nodes : Advertised[n] \in {n, Here}
    /\ Distance \in [Nodes -> [Nodes -> Nat]] /\ Bucket \in [Nodes -> [Nodes -> Nat]]
    /\ {K, Alpha, PacketRoom, DhtWindow, SeenMax, Ttl, MaxNow, MaxEvents} \subseteq Nat
    /\ Quotas \subseteq [Nodes -> Nat]
    /\ Skews \subseteq [Nodes -> Int] /\ Commanded \subseteq Nodes

VARIABLES
    table,        \* routing_table: the entries of all its buckets
    store,        \* _store: a set of at most one value for each key
    acks,         \* _store["_acks:..."]: the nodes that acknowledged each key
    seen,         \* _seen_messages: keys of messages with the time of arrival
    hidden,       \* hidden_mode
    whitelist,    \* whitelist
    boot,         \* bootstrap: queries still to be sent, 0 if it does not run
    net,          \* datagrams sent, any of which may arrive at any time, or never
    signed,       \* number of messages each node has signed
    events,       \* number of commands and restarts so far
    now,          \* the time
    skew,         \* how far each clock is ahead of it
    quota,        \* the bounds of this execution
    \* What the properties need and no action reads:
    handled,      \* messages each node has handled
    excused,      \* messages it may handle again: pushed out of _seen_messages
                  \* by others, or forgotten in a restart
    again         \* messages it has handled again without excuse

dhtVars == <<table, store, acks, seen, hidden, whitelist, boot, net, signed,
             events, now, skew, quota, handled, excused, again>>

Clock(n) == now + skew[n]

\* The key _check_replay remembers: the type of the message is not in it.
SeenKey(m) == <<m.from, m.ts, m.no>>

DhtTypeOK ==
    /\ DOMAIN table = Nodes
    /\ \A n \in Nodes :
         /\ \A e \in table[n] : e.id \in Nodes /\ e.at \in Nodes \cup {Here}
         /\ \A d, e \in table[n] : d.id = e.id => d = e
         /\ \A e \in table[n] :
              Cardinality({d \in table[n] : Bucket[n][d.id] = Bucket[n][e.id]}) <= K
         /\ \A k \in Keys : Cardinality(store[n][k]) <= 1
         /\ acks[n] \in [Keys -> SUBSET Nodes]
         /\ Cardinality(seen[n]) <= SeenMax
    /\ hidden \subseteq Nodes
    /\ whitelist \in [Nodes -> SUBSET Nodes]
    /\ boot \in [Nodes -> 0..Rounds]
    /\ \A m \in net : m.from \in Nodes /\ m.to \in Nodes /\ signed[m.no[1]] >= m.no[2]
    /\ now \in 0..MaxNow

DhtInit ==
    /\ table = [n \in Nodes |-> {}]
    /\ store = [n \in Nodes |-> [k \in Keys |-> {}]]
    /\ acks = [n \in Nodes |-> [k \in Keys |-> {}]]
    /\ seen = [n \in Nodes |-> {}]
    /\ hidden = {}
    /\ whitelist = [n \in Nodes |-> {}]
    /\ boot = [n \in Nodes |-> 0]
    /\ net = {}
    /\ signed = [n \in Nodes |-> 0] /\ events = 0
    /\ now = 0 /\ skew \in Skews /\ quota \in Quotas
    /\ handled = [n \in Nodes |-> {}]
    /\ excused = [n \in Nodes |-> {}]
    /\ again = [n \in Nodes |-> {}]

-----------------------------------------------------------------------------

\* add_node: an entry of the same node is replaced, and a full bucket takes no
\* new one; nobody pings its oldest.  The order in a bucket is never used.
Added(n, tab, e) ==
    IF \/ \E d \in tab : d.id = e.id
       \/ Cardinality({d \in tab : Bucket[n][d.id] = Bucket[n][e.id]}) < K
    THEN {d \in tab : d.id # e.id} \cup {e}
    ELSE tab

\* get_closest over all buckets of a table: its nearest entries in ascending
\* order of distance. IDs of the same distance are one ID, so there is one such
\* listing.
Closest(tab, target, count) ==
    LET far(e) == Distance[e.id][target]
        size == IF Cardinality(tab) < count THEN Cardinality(tab) ELSE count
    IN  {list \in [1..size -> tab] :
           /\ \A i \in 1..size : \A j \in 1 .. i-1 :
                list[i] # list[j] /\ far(list[j]) <= far(list[i])
           /\ \A i \in 1..size : \A e \in tab :
                far(e) < far(list[i]) => \E j \in 1 .. i-1 : list[j] = e}

Address(n, e) == IF e.at = Here THEN n ELSE e.at

\* A fresh nonce: the number of the message among those its node has signed.
Nonce(n) == <<n, signed[n] + 1>>

Sign(n) == signed[n] < quota[n] /\ signed' = [signed EXCEPT ![n] = @ + 1]

Ask(n, to) == [type |-> "PING", from |-> n, to |-> to, ts |-> Clock(n),
               no |-> Nonce(n), host |-> Advertised[n]]

Find(n, to, target) == [type |-> "FIND_NODE", from |-> n, to |-> to, ts |-> Clock(n),
                        no |-> Nonce(n), host |-> Advertised[n], target |-> target]

Event == events < MaxEvents /\ events' = events + 1

Silent == UNCHANGED <<seen, now, skew, quota, handled, excused, again>>

\* ping, by an administrator's command.
Ping(n, to) ==
    /\ Event
    /\ Sign(n)
    /\ net' = net \cup {Ask(n, to)}
    /\ Silent
    /\ UNCHANGED <<table, store, acks, hidden, whitelist, boot>>

\* bootstrap, for one node of the list: it is pinged, entered with the address
\* of the list, and asked.  The two messages differ in nonce.
Join(n, to) ==
    /\ boot[n] = 0 /\ Rounds > 0
    /\ signed[n] + 1 < quota[n]
    /\ signed' = [signed EXCEPT ![n] = @ + 2]
    /\ table' = [table EXCEPT ![n] = Added(n, @, [id |-> to, at |-> to])]
    /\ net' = net \cup {Ask(n, to), [Find(n, to, n) EXCEPT !.no = <<n, signed[n] + 2>>]}
    /\ boot' = [boot EXCEPT ![n] = Rounds]
    /\ Silent
    /\ UNCHANGED <<events, store, acks, hidden, whitelist>>

\* One of the rounds, while answers arrive: one query each for the nodes the
\* table then calls closest to the own ID.
Query(n) ==
    /\ boot[n] > 0
    /\ boot' = [boot EXCEPT ![n] = @ - 1]
    /\ \E near \in Closest(table[n], n, Alpha) :
         IF near = <<>> THEN UNCHANGED <<signed, net>>
         ELSE /\ Sign(n)
              /\ net' = net \cup {Find(n, Address(n, near[i]), n) : i \in DOMAIN near}
    /\ Silent
    /\ UNCHANGED <<events, table, store, acks, hidden, whitelist>>

\* The life of a copy is counted from its arrival.
Expiry(n) == Clock(n) + Ttl

\* store: the own store first; then, for a hexadecimal key, one signed message
\* to the nodes closest to it.  For any other key the search raises.
Store(n, k, v) ==
    /\ Sign(n)
    /\ store' = [store EXCEPT ![n][k] = {[value |-> v, until |-> Expiry(n),
                                          by |-> n, born |-> now]}]
    /\ IF k \in HexKeys
       THEN \E near \in Closest(table[n], n, K) :
              net' = net \cup {[type |-> "STORE", from |-> n, to |-> Address(n, near[i]),
                                ts |-> Clock(n), no |-> Nonce(n), host |-> Advertised[n],
                                key |-> k, value |-> v, born |-> now] : i \in DOMAIN near}
       ELSE net' = net
    /\ Silent
    /\ UNCHANGED <<events, table, acks, hidden, whitelist, boot>>

-----------------------------------------------------------------------------

\* Mutant: messages are forgotten after one window.
CutoffSoon(n) == Clock(n) - DhtWindow

\* Messages that arrived before the cutoff are forgotten.
Cutoff(n) == Clock(n) - 2 * DhtWindow

\* Mutant: only messages from the future are refused.
InWindowAhead(n, m) == m.ts - Clock(n) <= DhtWindow

InDhtWindow(n, m) == Clock(n) - m.ts <= DhtWindow /\ m.ts - Clock(n) <= DhtWindow

\* _check_replay, _verify_message: a message from outside the time window, or
\* one that is remembered, is dropped.  Beyond SeenMax the oldest is forgotten.
Admit(n, m) ==
    LET young == {s \in seen[n] : s.at >= Cutoff(n)} \cup {[key |-> SeenKey(m), at |-> Clock(n)]}
        full == Cardinality(young) > SeenMax
    IN /\ m \in net /\ m.to = n
       /\ InDhtWindow(n, m)
       /\ \A s \in seen[n] : s.key # SeenKey(m)
       /\ IF full
          THEN \E s \in young :
                 /\ \A r \in young : s.at <= r.at
                 /\ seen' = [seen EXCEPT ![n] = young \ {s}]
                 /\ excused' = [excused EXCEPT ![n] = @ \cup {s.key}]
          ELSE seen' = [seen EXCEPT ![n] = young] /\ UNCHANGED excused
       /\ handled' = [handled EXCEPT ![n] = @ \cup {SeenKey(m)}]
       /\ again' = [again EXCEPT ![n] =
                      @ \cup ({SeenKey(m)} \cap (handled[n] \ excused[n]))]
       /\ UNCHANGED <<events, now, skew, quota>>

\* A visible node enters every sender, under the host the message gives.
Met(n, m) == IF n \in hidden THEN table[n]
             ELSE Added(n, table[n], [id |-> m.from, at |-> m.host])

Serves(n, m) == n \in hidden => m.from \in whitelist[n]

HandlePing(n, m) ==
    /\ m.type = "PING" /\ Admit(n, m)
    /\ table' = [table EXCEPT ![n] = Met(n, m)]
    /\ net' = net \cup {[type |-> "PONG", from |-> n, to |-> m.from, ts |-> Clock(n),
                         no |-> m.no, host |-> Advertised[n]]}
    /\ UNCHANGED <<store, acks, hidden, whitelist, boot, signed>>

\* A pong is entered by a hidden node, too.
HandlePong(n, m) ==
    /\ m.type = "PONG" /\ Admit(n, m)
    /\ table' = [table EXCEPT ![n] = Added(n, @, [id |-> m.from, at |-> m.host])]
    /\ UNCHANGED <<store, acks, hidden, whitelist, boot, net, signed>>

\* An answer of more than DHT_MAX_PACKET bytes is not sent at all.
HandleFindNode(n, m) ==
    /\ m.type = "FIND_NODE" /\ Admit(n, m)
    /\ table' = [table EXCEPT ![n] = Met(n, m)]
    /\ \E nodes \in Closest(Met(n, m), m.target, K) :
         IF Serves(n, m) /\ Len(nodes) <= PacketRoom
         THEN /\ Sign(n)
              /\ net' = net \cup {[type |-> "NODES", from |-> n, to |-> m.from,
                                   ts |-> Clock(n), no |-> Nonce(n), nodes |-> nodes]}
         ELSE UNCHANGED <<net, signed>>
    /\ UNCHANGED <<store, acks, hidden, whitelist, boot>>

\* Mutant: what is learned is entered under the address of the one who tells.
LearnedFrom(n, m, e) == [id |-> e.id, at |-> m.from]

\* An entry learned from another node keeps the host that node knows.
Learned(n, m, e) == e

\* The entries of an answer are entered one after the other.
AddedInTurn(n, tab, list) ==
    LET T[i \in 0 .. Len(list)] == IF i = 0 THEN tab ELSE Added(n, T[i-1], list[i])
    IN  T[Len(list)]

\* The answer carries no host: whatever was known of its sender is replaced by
\* an entry that leads nowhere.
HandleNodes(n, m) ==
    /\ m.type = "NODES" /\ Admit(n, m)
    /\ table' = [table EXCEPT ![n] =
                   AddedInTurn(n, Added(n, @, [id |-> m.from, at |-> Here]),
                               [i \in DOMAIN m.nodes |-> Learned(n, m, m.nodes[i])])]
    /\ UNCHANGED <<store, acks, hidden, whitelist, boot, net, signed>>

\* A STORE is taken from any publisher; the last to arrive stays.
HandleStore(n, m) ==
    /\ m.type = "STORE" /\ Admit(n, m)
    /\ table' = [table EXCEPT ![n] = Met(n, m)]
    /\ IF Serves(n, m)
       THEN /\ store' = [store EXCEPT ![n][m.key] =
                 {[value |-> m.value, until |-> Expiry(n), by |-> m.from,
                   born |-> m.born]}]
            /\ Sign(n)
            /\ net' = net \cup {[type |-> "STORE_ACK", from |-> n, to |-> m.from,
                                 ts |-> Clock(n), no |-> Nonce(n), key |-> m.key]}
       ELSE UNCHANGED <<store, net, signed>>
    /\ UNCHANGED <<acks, hidden, whitelist, boot>>

HandleStoreAck(n, m) ==
    /\ m.type = "STORE_ACK" /\ Admit(n, m)
    /\ table' = [table EXCEPT ![n] = Added(n, @, [id |-> m.from, at |-> Here])]
    /\ acks' = [acks EXCEPT ![n][m.key] = @ \cup {m.from}]
    /\ UNCHANGED <<store, hidden, whitelist, boot, net, signed>>

-----------------------------------------------------------------------------

\* Administrators' commands.
SetHidden(n) ==
    /\ Event
    /\ hidden' = IF n \in hidden THEN hidden \ {n} ELSE hidden \cup {n}
    /\ Silent
    /\ UNCHANGED <<table, store, acks, whitelist, boot, net, signed>>

SetWhitelist(n, m) ==
    /\ Event
    /\ whitelist' = [whitelist EXCEPT ![n] = IF m \in @ THEN @ \ {m} ELSE @ \cup {m}]
    /\ Silent
    /\ UNCHANGED <<table, store, acks, hidden, boot, net, signed>>

RemoveNode(n, m) ==
    /\ Event
    /\ \E e \in table[n] : e.id = m
    /\ table' = [table EXCEPT ![n] = {e \in @ : e.id # m}]
    /\ Silent
    /\ UNCHANGED <<store, acks, hidden, whitelist, boot, net, signed>>

\* Everything is in memory; the mode and the list come from the configuration.
DhtRestart(n) ==
    /\ Event
    /\ table' = [table EXCEPT ![n] = {}]
    /\ store' = [store EXCEPT ![n] = [k \in Keys |-> {}]]
    /\ acks' = [acks EXCEPT ![n] = [k \in Keys |-> {}]]
    /\ seen' = [seen EXCEPT ![n] = {}]
    /\ hidden' = hidden \ {n}
    /\ whitelist' = [whitelist EXCEPT ![n] = {}]
    /\ boot' = [boot EXCEPT ![n] = 0]
    /\ excused' = [excused EXCEPT ![n] = @ \cup handled[n]]
    /\ UNCHANGED <<net, signed, now, skew, quota, handled, again>>

DhtTick ==
    /\ now < MaxNow /\ now' = now + 1
    /\ UNCHANGED <<events, table, store, acks, seen, hidden, whitelist, boot, net, signed,
                   skew, quota, handled, excused, again>>

DhtNext ==
    \/ \E n \in Nodes :
         \/ \E m \in Nodes : Join(n, m)
         \/ Query(n) \/ DhtRestart(n)
         \/ \E k \in Keys, v \in Values : Store(n, k, v)
    \/ \E n \in Commanded :
         \/ SetHidden(n)
         \/ \E m \in Nodes : Ping(n, m) \/ SetWhitelist(n, m) \/ RemoveNode(n, m)
    \/ \E m \in net : \/ HandlePing(m.to, m) \/ HandlePong(m.to, m)
                      \/ HandleFindNode(m.to, m) \/ HandleNodes(m.to, m)
                      \/ HandleStore(m.to, m) \/ HandleStoreAck(m.to, m)
    \/ DhtTick

DhtSpec == DhtInit /\ [][DhtNext]_dhtVars

-----------------------------------------------------------------------------

\* A datagram the network duplicates or delays is handled once: as long as its
\* timestamp is in the time window of the receiver, however far ahead the
\* sender's clock is, it is among the messages seen, unless a restart or newer
\* messages pushed it out (_check_replay, node.py:95).
HandledOnce == \A n \in Nodes : again[n] = {}

\* A message for a node goes to that node, or nowhere: an entry may have lost
\* its address on the way through other tables, and never has another node's
\* (the handlers of FIND_NODE_RESPONSE and STORE_ACK, node.py:261-339).
EntryLeadsHome == \A n \in Nodes : \A e \in table[n] : e.at \in {e.id, Here}

\* What a node still gives out for a key was stored by its publisher no longer
\* ago than its time to live and the delay the time window tolerates between
\* the two clocks (_handle_store, node.py:292; get, node.py:447).
ValuesAreYoung ==
    \A n \in Nodes, k \in Keys : \A c \in store[n][k] :
        c.until > Clock(n) =>
            now - c.born <= Ttl + DhtWindow + skew[c.by] - skew[n]

=============================================================================
