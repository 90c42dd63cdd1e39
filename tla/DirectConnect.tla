---------------------------- MODULE DirectConnect ----------------------------
(***************************************************************************)
(* One client's direct connections, src/client/network/direct_connect.py:  *)
(* the table of peers, what they said of their access to a network, and    *)
(* the search for a gateway among them.                                    *)
(*                                                                         *)
(* Of the entries, only those the LAN announcements make come into being:  *)
(* a handshake ends where the hello is signed (line 312, 427: the module   *)
(* does not import load_ed25519_private), before the peer is entered. An   *)
(* entry then has no transport, and send_to_peer takes the lock, looks     *)
(* the peer up and returns False. The handlers of a peer's messages are    *)
(* modelled as the self-test calls them (1341).                            *)
(*                                                                         *)
(* One action is one hold of _peers_lock, with what precedes the next.     *)
(***************************************************************************)
EXTENDS FiniteSets, Naturals

CONSTANTS Near,      \* the other stations
          Offers,    \* what a station may say it has access to
          Callers,   \* threads of the client
          MaxCalls,  \* bound: calls begun
          NoStation, NoCaller

ASSUME DirectAssumption == IsFiniteSet(Near)

VARIABLES
    peers,      \* self.peers: those entered -> [can, gateway]
    topology,   \* self._topology: Near -> stations it says it is connected to
    gateways,   \* self._known_gateways
    own,        \* _has_public_access, _has_radio_access, _network_gateway_enabled
    call,       \* Callers -> the step of its call
    holder,     \* who holds _peers_lock and will not release it
    outcome,    \* what became of the last payload to be relayed
    unsettled,  \* stations a message changed beside the last search, or without one
    calls

directVars == <<peers, topology, gateways, own, call, holder, outcome, unsettled, calls>>

NoCall == [at |-> "idle"]
Wanted == {"any", "public", "radio"}

DirectInit ==
    /\ peers = <<>> /\ topology = [p \in Near |-> {}] /\ gateways = {}
    /\ own = [can |-> {}, gateway |-> TRUE, running |-> TRUE]
    /\ call = [c \in Callers |-> NoCall] /\ holder = NoCaller
    /\ outcome = "none" /\ unsettled = {} /\ calls = 0

-----------------------------------------------------------------------------
(* The graph of the stations. *)

\* Own edges come from peers alone, the others from what either end says.
Linked(said, a, b) == b \in said[a] \/ a \in said[b]

\* Stations at most n edges from one of the set, this one not among them.
Ball(said, set, n) ==
    LET B[i \in 0 .. n] ==
            IF i = 0 THEN set
            ELSE B[i-1] \cup {b \in Near : \E a \in B[i-1] : Linked(said, a, b)}
    IN  B[n]

Reachable(said) == Ball(said, DOMAIN peers, Cardinality(Near))

\* First stations of the shortest ways to a station; which of several the
\* breadth-first search meets first depends on the order of the tables.
NextHops(target) ==
    {p \in DOMAIN peers : \E n \in 0 .. Cardinality(Near) :
        target \in Ball(topology, {p}, n) 
        /\ \A m \in 0 .. n-1 : target \notin Ball(topology, DOMAIN peers, m)}

\* bool(has_public or has_radio) and is_network_gateway
IsGatewayNow(p) == p \in DOMAIN peers /\ peers[p].can # {} /\ peers[p].gateway

Offering(can, want) == can # {} /\ (want = "any" \/ want \in can)

-----------------------------------------------------------------------------
(* The steps of a call. *)

Free == holder = NoCaller

Begin(c) == call[c] = NoCall /\ Free /\ calls < MaxCalls /\ calls' = calls + 1

\* The searches under way may have looked at a station as it was.
Changed(p) == [d \in Callers |-> IF call[d].at = "visit"
                                 THEN [call[d] EXCEPT !.old = @ \cup {p}] ELSE call[d]]

\* _recompute_gateways begins: who can be reached is settled, then every one
\* of them is looked up on its own.
Snapshot(c, reach, next) ==
    call' = [call EXCEPT ![c] =
                [at |-> "visit", rest |-> reach, found |-> {}, old |-> {}, next |-> next]]

Visit(c) ==
    /\ call[c].at = "visit" /\ Free
    /\ \E p \in call[c].rest :
          call' = [call EXCEPT ![c].rest = @ \ {p},
                               ![c].found = IF IsGatewayNow(p) THEN @ \cup {p} ELSE @]
    /\ UNCHANGED <<peers, topology, gateways, own, holder, outcome, unsettled, calls>>

Publish(c) ==
    /\ call[c].at = "visit" /\ call[c].rest = {} /\ Free
    /\ gateways' = call[c].found
    /\ unsettled' = call[c].old
    /\ call' = [call EXCEPT ![c] = call[c].next]
    /\ UNCHANGED <<peers, topology, own, holder, outcome, calls>>

\* The rest of a call that only takes the lock, for broadcasts, sends or the
\* listing of the table, and ends.
Finish(c) ==
    /\ call[c].at = "lock" /\ Free
    /\ call' = [call EXCEPT ![c] = NoCall]
    /\ UNCHANGED <<peers, topology, gateways, own, holder, outcome, unsettled, calls>>

Locking == [at |-> "lock"]

\* find_network_gateway searches only if no gateway is known, and goes through
\* the list it then finds.
FindGateway(c, want, relaying) ==
    LET looking == [at |-> "find", want |-> want, relaying |-> relaying]
    IN  IF gateways = {} THEN Snapshot(c, Reachable(topology), looking)
        ELSE call' = [call EXCEPT ![c] = looking]

ReadKnown(c) ==
    /\ call[c].at = "find"
    /\ call' = [call EXCEPT ![c] = [at |-> "look", want |-> call[c].want,
                                    relaying |-> call[c].relaying, rest |-> gateways]]
    /\ UNCHANGED <<peers, topology, gateways, own, holder, outcome, unsettled, calls>>

\* A route query's answer is never sent, so that it ends here too.
LookAtGateway(c) ==
    /\ call[c].at = "look" /\ Free
    /\ \/ call[c].rest = {} /\ call' = [call EXCEPT ![c] = NoCall]
       \/ \E p \in call[c].rest :
             call' = [call EXCEPT ![c] =
                        IF ~(p \in DOMAIN peers /\ Offering(peers[p].can, call[c].want))
                        THEN [call[c] EXCEPT !.rest = call[c].rest \ {p}]
                        ELSE IF call[c].relaying THEN [at |-> "relay", gateway |-> p]
                        ELSE Locking]
    /\ UNCHANGED <<peers, topology, gateways, own, holder, outcome, unsettled, calls>>

\* relay_to_network sends to a neighbour with the lock held, which the send
\* takes again: the lock is not reentrant.
RelayDirect(c) ==
    /\ call[c].at = "relay" /\ Free
    /\ IF call[c].gateway \in DOMAIN peers
       THEN holder' = c /\ call' = [call EXCEPT ![c] = [at |-> "stuck"]]
       ELSE holder' = holder /\ call' = [call EXCEPT ![c].at = "hop"]
    /\ UNCHANGED <<peers, topology, gateways, own, outcome, unsettled, calls>>

\* A payload counts as relayed whatever the send answers.
RelayByHop(c) ==
    /\ call[c].at = "hop" /\ Free
    /\ outcome' = IF NextHops(call[c].gateway) = {} THEN "noroute" ELSE "relayed"
    /\ call' = [call EXCEPT ![c] = IF outcome' = "relayed" THEN Locking ELSE NoCall]
    /\ UNCHANGED <<peers, topology, gateways, own, holder, unsettled, calls>>

-----------------------------------------------------------------------------
(* The calls. *)

\* Who is entered already stays as it is.
Announcement(p) ==
    /\ own.running /\ Free /\ p \notin DOMAIN peers
    /\ peers' = [q \in DOMAIN peers \cup {p} |->
                    IF q = p THEN [can |-> {}, gateway |-> FALSE] ELSE peers[q]]
    /\ UNCHANGED <<topology, gateways, own, call, holder, outcome, unsettled, calls>>

\* disconnect_peer of one, cleanup_dead_peers of those not heard of.
RemovePeers(gone) ==
    /\ Free /\ gone \subseteq DOMAIN peers
    /\ peers' = [q \in DOMAIN peers \ gone |-> peers[q]]
    /\ UNCHANGED <<topology, gateways, own, call, holder, outcome, unsettled, calls>>

SetNetworkCapabilities(c, can, gateway) ==
    /\ Begin(c)
    /\ own' = [own EXCEPT !.can = can, !.gateway = gateway]
    /\ call' = [call EXCEPT ![c] = Locking]
    /\ UNCHANGED <<peers, topology, gateways, holder, outcome, unsettled>>

Stop(c) ==
    /\ Begin(c) /\ own' = [own EXCEPT !.running = FALSE]
    /\ call' = [call EXCEPT ![c] = Locking]
    /\ UNCHANGED <<peers, topology, gateways, holder, outcome, unsettled>>

GetNetworkGateways(c) ==
    /\ Begin(c)
    /\ IF gateways = {} THEN Snapshot(c, Reachable(topology), Locking)
       ELSE call' = [call EXCEPT ![c] = Locking]
    /\ UNCHANGED <<peers, topology, gateways, own, holder, outcome, unsettled>>

RelayToNetwork(c, want) ==
    /\ Begin(c) /\ FindGateway(c, want, TRUE)
    /\ UNCHANGED <<peers, topology, gateways, own, holder, outcome, unsettled>>

HandleRouteQuery(c, want) ==
    /\ Begin(c) /\ FindGateway(c, want, FALSE)
    /\ UNCHANGED <<peers, topology, gateways, own, holder, outcome, unsettled>>

Reported(p, can, gateway) ==
    IF p \in DOMAIN peers THEN [peers EXCEPT ![p] = [can |-> can, gateway |-> gateway]] ELSE peers

\* The entry is written under one hold, the topology and the search follow.
HandleCapability(c, p, can, gateway, neighbours) ==
    /\ Begin(c) /\ peers' = Reported(p, can, gateway)
    /\ call' = [Changed(p) EXCEPT ![c] = [at |-> "note", from |-> p, neighbours |-> neighbours]]
    /\ UNCHANGED <<topology, gateways, own, holder, outcome, unsettled>>

\* What it says of its neighbours is no list: the entry is written and no search
\* follows. If it is not even a collection, the call ends with an exception.
HandleBadCapability(c, p, can, gateway) ==
    /\ Begin(c) /\ peers' = Reported(p, can, gateway)
    /\ \E next \in {Locking} \cup {NoCall : q \in {p} \cap DOMAIN peers} :
          call' = [Changed(p) EXCEPT ![c] = next]
    /\ unsettled' = unsettled \cup {p}
    /\ UNCHANGED <<topology, gateways, own, holder, outcome>>

UpdateTopology(c) ==
    /\ call[c].at = "note" /\ Free
    /\ topology' = [topology EXCEPT ![call[c].from] = call[c].neighbours]
    /\ Snapshot(c, Reachable(topology'), Locking)
    /\ UNCHANGED <<peers, gateways, own, holder, outcome, unsettled, calls>>

\* Whoever says it reaches a network is a gateway from then on.
HandleRouteResponse(c, p, reachable) ==
    /\ Begin(c)
    /\ peers' = IF p \in DOMAIN peers /\ reachable
                THEN [peers EXCEPT ![p].gateway = TRUE] ELSE peers
    /\ call' = [Changed(p) EXCEPT ![c] = [at |-> "heard"]]
    /\ UNCHANGED <<topology, gateways, own, holder, outcome, unsettled>>

\* Mutant: the entry is changed and the gateways stay as they were.
SearchForgotten(c) ==
    /\ call[c].at = "heard" /\ Free /\ call' = [call EXCEPT ![c] = NoCall]
    /\ UNCHANGED <<peers, topology, gateways, own, holder, outcome, unsettled, calls>>

SearchAfterResponse(c) ==
    /\ call[c].at = "heard" /\ Free /\ Snapshot(c, Reachable(topology), NoCall)
    /\ UNCHANGED <<peers, topology, gateways, own, holder, outcome, unsettled, calls>>

\* Served here, passed on to the station next on the way to the one named, or
\* dropped. Nothing counts the stations it has passed.
HandleNetworkRelay(c, from, want, final) ==
    /\ Begin(c)
    /\ \/ /\ own.gateway /\ Offering(own.can, want)
          /\ outcome' = "served"
       \/ /\ ~(own.gateway /\ Offering(own.can, want))
          /\ \/ \E next \in NextHops(final) :
                   outcome' = IF next # from THEN "forwarded" ELSE "dropped"
             \/ NextHops(final) = {} /\ outcome' = "dropped"
    /\ call' = [call EXCEPT ![c] = IF outcome' = "dropped" THEN NoCall ELSE Locking]
    /\ UNCHANGED <<peers, topology, gateways, own, holder, unsettled>>

DirectNext ==
    \/ \E p \in Near : Announcement(p)
    \/ \E gone \in SUBSET Near : gone # {} /\ RemovePeers(gone)
    \/ \E c \in Callers :
          \/ Visit(c) \/ Publish(c) \/ Finish(c) \/ ReadKnown(c) \/ LookAtGateway(c)
          \/ RelayDirect(c) \/ RelayByHop(c) \/ UpdateTopology(c) \/ SearchAfterResponse(c)
          \/ Stop(c) \/ GetNetworkGateways(c)
          \/ \E want \in Wanted : RelayToNetwork(c, want) \/ HandleRouteQuery(c, want)
          \/ \E can \in Offers, gateway \in BOOLEAN :
                \/ SetNetworkCapabilities(c, can, gateway)
                \/ \E p \in Near :
                      \/ HandleBadCapability(c, p, can, gateway)
                      \/ \E neighbours \in SUBSET (Near \ {p}) :
                            HandleCapability(c, p, can, gateway, neighbours)
          \/ \E p \in Near :
                \/ \E reachable \in BOOLEAN : HandleRouteResponse(c, p, reachable)
                \/ \E want \in Wanted, final \in Near \cup {NoStation} :
                      HandleNetworkRelay(c, p, want, final)

DirectSpec == DirectInit /\ [][DirectNext]_directVars

-----------------------------------------------------------------------------

DirectTypeOK ==
    /\ DOMAIN peers \subseteq Near
    /\ \A p \in DOMAIN peers : peers[p].can \in Offers /\ peers[p].gateway \in BOOLEAN
    /\ topology \in [Near -> SUBSET Near] /\ gateways \subseteq Near
    /\ own \in [can : Offers, gateway : BOOLEAN, running : BOOLEAN]
    /\ \A c \in Callers : call[c].at \in {"idle", "visit", "lock", "find", "look", "relay",
                                          "hop", "stuck", "note", "heard"}
    /\ holder \in Callers \cup {NoCaller} /\ unsettled \subseteq Near /\ calls \in 0 .. MaxCalls
    /\ outcome \in {"none", "noroute", "relayed", "served", "forwarded", "dropped"}

\* Between calls, a peer that has said it has access to a network is among the
\* gateways known if and only if it shares it, whatever was entered, removed and
\* entered again since and however the searches ran beside each other; only a
\* peer whose word came during the last search, or without a list of its
\* neighbours, may not be, until the next search (_recompute_gateways).
GatewaysAreCurrent ==
    (\A c \in Callers : call[c] = NoCall) =>
        \A p \in DOMAIN peers \ unsettled :
            p \in gateways /\ peers[p].can # {} <=> IsGatewayNow(p)

=============================================================================
