----------------------------- MODULE PeerQueries -----------------------------
(***************************************************************************)
(* How servers find the home of a user, relay to it and learn the rate a   *)
(* peer allows a user (relay_message, _find_user_server and the handlers   *)
(* of _handle_interserver_message in server/chat/cross_server.py).         *)
(*                                                                         *)
(* Between two servers that are connected the lines arrive in order, and   *)
(* one thread handles them. CrossServer has the connections themselves;    *)
(* here an entry is there or is not, and a line is read or lost with it.   *)
(* Nothing a server stores in the DHT names the home of a user.            *)
(***************************************************************************)
EXTENDS Naturals, Sequences

CONSTANTS Servers, Users,
          Msgs,         \* messages to be relayed
          Traffic,      \* who writes to whom: pairs of users
          Rate,         \* seconds per message of each server, for every user
          DefaultRate,  \* assumed of a peer that has not answered
          MaxLine,      \* bound of the lines under way between two servers
          NoServer

ASSUME QueryAssumption ==
    /\ NoServer \notin Servers /\ MaxLine \in Nat
    /\ DefaultRate \in Nat /\ Rate \in [Servers -> Nat] /\ Traffic \subseteq Users \X Users

VARIABLES
    hosts,      \* users table of each server
    ever,       \* who was in it at some time
    home,       \* remote_user_cache
    rates,      \* _peer_rate_cache: what each server has heard from each peer
    linked,     \* pairs <<s, p>>: s has an entry of p
    lines,      \* lines written by each server for each other and not yet read
    relay,      \* where the message is: at a step of relay_message, or its answer
    reached,    \* what the server it was relayed to has done with the message
    applied     \* seconds per message it was admitted at there

queryVars == <<hosts, ever, home, rates, linked, lines, relay, reached, applied>>

NoRelay == [at |-> "new"]
Max2(a, b) == IF a > b THEN a ELSE b

QueriesInit ==
    /\ hosts = [s \in Servers |-> {}] /\ ever = hosts
    /\ home = [s \in Servers |-> [u \in Users |-> NoServer]]
    /\ rates = [s \in Servers |-> [p \in Servers |-> [u \in Users |-> DefaultRate]]]
    /\ linked = {} /\ lines = [s \in Servers |-> [p \in Servers |-> <<>>]]
    /\ relay = [m \in Msgs |-> NoRelay]
    /\ reached = [m \in Msgs |-> "no"] /\ applied = [m \in Msgs |-> 0]

RegisterUser(s, u) ==
    /\ u \notin hosts[s]
    /\ hosts' = [hosts EXCEPT ![s] = @ \cup {u}] /\ ever' = [ever EXCEPT ![s] = @ \cup {u}]
    /\ UNCHANGED <<home, rates, linked, lines, relay, reached, applied>>

\* The administrator's command; nobody else is told.
ForgetUser(s, u) ==
    /\ u \in hosts[s]
    /\ hosts' = [hosts EXCEPT ![s] = @ \ {u}]
    /\ UNCHANGED <<ever, home, rates, linked, lines, relay, reached, applied>>

Link(s, p) ==
    /\ s # p /\ linked' = linked \cup {<<s, p>>, <<p, s>>}
    /\ UNCHANGED <<hosts, ever, home, rates, lines, relay, reached, applied>>

\* The connection ends: what was under way is lost, and each side finds out.
Unlink(s, p) ==
    /\ <<s, p>> \in linked
    /\ linked' = linked \ {<<s, p>>, <<p, s>>}
    /\ lines' = [lines EXCEPT ![s][p] = <<>>, ![p][s] = <<>>]
    /\ UNCHANGED <<hosts, ever, home, rates, relay, reached, applied>>

\* _send_to_peer: all lines or none, as the connection is there or not.
Room(s, p) == Len(lines[s][p]) < MaxLine
Written(s, p, line) == [lines EXCEPT ![s][p] = Append(@, line)]

-----------------------------------------------------------------------------
(* relay_message. *)

RelayAt(m, step) == relay[m].at = step

\* A user of s sends to one that s does not host.
Ask(m, s, from, to) ==
    /\ RelayAt(m, "new") /\ from \in hosts[s] /\ to \notin hosts[s]
    /\ relay' = [relay EXCEPT ![m] = [at |-> IF home[s][to] = NoServer THEN "find" ELSE "send",
                                      server |-> s, from |-> from, to |-> to,
                                      target |-> home[s][to], asked |-> {}]]
    /\ UNCHANGED <<hosts, ever, home, rates, linked, lines, reached, applied>>

Answered(m, what) == relay' = [relay EXCEPT ![m] = [at |-> what]]

\* Mutant: the peer that could be asked is remembered.
FindRemembers(m, p) ==
    LET r == relay[m] s == r.server
    IN  /\ RelayAt(m, "find") /\ p \notin r.asked \cup {s}
        /\ IF <<s, p>> \in linked
           THEN /\ Room(s, p)
                /\ lines' = Written(s, p, [type |-> "lookup", user |-> r.to])
                /\ home' = [home EXCEPT ![s][r.to] = p]
                /\ relay' = [relay EXCEPT ![m].at = "send", ![m].target = p]
           ELSE /\ relay' = [relay EXCEPT ![m].asked = @ \cup {p}] /\ UNCHANGED <<lines, home>>
        /\ UNCHANGED <<hosts, ever, rates, linked, reached, applied>>

\* _find_user_server: the first peer the question could be sent to is taken for
\* the home; its answer comes later, to the cache.
Find(m, p) ==
    LET r == relay[m] s == r.server
    IN  /\ RelayAt(m, "find") /\ p \notin r.asked \cup {s}
        /\ IF <<s, p>> \in linked
           THEN /\ Room(s, p)
                /\ lines' = Written(s, p, [type |-> "lookup", user |-> r.to])
                /\ relay' = [relay EXCEPT ![m].at = "send", ![m].target = p]
           ELSE /\ relay' = [relay EXCEPT ![m].asked = @ \cup {p}] /\ UNCHANGED lines
        /\ UNCHANGED <<hosts, ever, home, rates, linked, reached, applied>>

NoRoute(m) ==
    /\ LET r == relay[m]
       IN  /\ r.at \in {"find", "send"}
           /\ IF r.at = "find" THEN r.asked = Servers \ {r.server} ELSE r.target = r.server
    /\ Answered(m, "no_route")
    /\ UNCHANGED <<hosts, ever, home, rates, linked, lines, reached, applied>>

\* Without an entry of the home the message is queued (CrossServer).
QueueRelay(m) ==
    /\ RelayAt(m, "send") /\ relay[m].target # relay[m].server
    /\ <<relay[m].server, relay[m].target>> \notin linked
    /\ Answered(m, "queued")
    /\ UNCHANGED <<hosts, ever, home, rates, linked, lines, reached, applied>>

\* The rate is asked for; the user may be over the rate here, otherwise the
\* message goes.
QueryAndRelay(m, limited) ==
    LET r == relay[m] s == r.server p == r.target
        query == [type |-> "rate_query", user |-> r.from]
        message == [type |-> "relay", msg |-> m, from |-> r.from, to |-> r.to]
    IN  /\ RelayAt(m, "send") /\ p # s /\ <<s, p>> \in linked /\ Room(s, p)
        /\ IF limited THEN lines' = Written(s, p, query) /\ Answered(m, "rate_limited")
                      ELSE /\ lines' = [lines EXCEPT ![s][p] = @ \o <<query, message>>]
                           /\ Answered(m, "delivered")
        /\ UNCHANGED <<hosts, ever, home, rates, linked, reached, applied>>

-----------------------------------------------------------------------------
(* The handlers: each reads the next line that p has written to s. *)

NextLine(s, p, type) == lines[p][s] # <<>> /\ Head(lines[p][s]).type = type
Read(s, p) == [lines EXCEPT ![p][s] = Tail(@)]
Replied(s, p, line) == [lines EXCEPT ![p][s] = Tail(@), ![s][p] = Append(@, line)]

\* _handle_user_lookup: whoever hosts the user notes that too.
HandleLookup(s, p) ==
    /\ NextLine(s, p, "lookup") /\ Room(s, p)
    /\ LET u == Head(lines[p][s]).user found == u \in hosts[s]
       IN  /\ home' = IF found THEN [home EXCEPT ![s][u] = s] ELSE home
           /\ lines' = Replied(s, p, [type |-> "found", user |-> u, found |-> found])
    /\ UNCHANGED <<hosts, ever, rates, linked, relay, reached, applied>>

HandleFound(s, p) ==
    /\ NextLine(s, p, "found")
    /\ LET line == Head(lines[p][s])
       IN  home' = IF line.found THEN [home EXCEPT ![s][line.user] = p] ELSE home
    /\ lines' = Read(s, p)
    /\ UNCHANGED <<hosts, ever, rates, linked, relay, reached, applied>>

HandleRateQuery(s, p) ==
    /\ NextLine(s, p, "rate_query") /\ Room(s, p)
    /\ lines' = Replied(s, p, [type |-> "rate", user |-> Head(lines[p][s]).user, rate |-> Rate[s]])
    /\ UNCHANGED <<hosts, ever, home, rates, linked, relay, reached, applied>>

HandleRate(s, p) ==
    /\ NextLine(s, p, "rate")
    /\ LET line == Head(lines[p][s]) IN rates' = [rates EXCEPT ![s][p][line.user] = line.rate]
    /\ lines' = Read(s, p)
    /\ UNCHANGED <<hosts, ever, home, linked, relay, reached, applied>>

\* _handle_relay_message: the stricter of the two rates limits the recipient. A
\* message too many is refused, which the other side does not read; one for
\* somebody who is not there is stored, whether or not s hosts the recipient.
HandleRelay(s, p, admitted) ==
    /\ NextLine(s, p, "relay") /\ Room(s, p)
    /\ LET line == Head(lines[p][s])
           rate == Max2(Rate[s], rates[s][p][line.from])
       IN  /\ applied' = [applied EXCEPT ![line.msg] = rate]
           /\ IF admitted
              THEN /\ reached' = [reached EXCEPT ![line.msg] =
                                     IF line.to \in hosts[s] THEN "home" ELSE "stranger"]
                   /\ lines' = Read(s, p)
              ELSE /\ reached' = [reached EXCEPT ![line.msg] = "refused"]
                   /\ lines' = Replied(s, p, [type |-> "rejected"])
    /\ UNCHANGED <<hosts, ever, home, rates, linked, relay>>

\* A line no handler is for.
ReadRejected(s, p) ==
    /\ NextLine(s, p, "rejected") /\ lines' = Read(s, p)
    /\ UNCHANGED <<hosts, ever, home, rates, linked, relay, reached, applied>>

\* The process ends and is started again with the users it had.
RestartServer(s) ==
    /\ home' = [home EXCEPT ![s] = [u \in Users |-> NoServer]]
    /\ rates' = [rates EXCEPT ![s] = [p \in Servers |-> [u \in Users |-> DefaultRate]]]
    /\ linked' = {l \in linked : s \notin {l[1], l[2]}}
    /\ lines' = [q \in Servers |-> [p \in Servers |-> IF s \in {p, q} THEN <<>> ELSE lines[q][p]]]
    /\ relay' = [m \in Msgs |-> IF relay[m].at \in {"find", "send"} /\ relay[m].server = s
                                THEN [at |-> "none"] ELSE relay[m]]
    /\ UNCHANGED <<hosts, ever, reached, applied>>

QueriesNext ==
    \/ \E s, p \in Servers :
          \/ Link(s, p) \/ Unlink(s, p)
          \/ HandleLookup(s, p) \/ HandleFound(s, p) \/ HandleRateQuery(s, p)
          \/ HandleRate(s, p) \/ ReadRejected(s, p)
          \/ \E admitted \in BOOLEAN : HandleRelay(s, p, admitted)
    \/ \E s \in Servers : RestartServer(s) \/ \E u \in Users : RegisterUser(s, u) \/ ForgetUser(s, u)
    \/ \E m \in Msgs :
          \/ \E s \in Servers, pair \in Traffic : Ask(m, s, pair[1], pair[2])
          \/ NoRoute(m) \/ QueueRelay(m) \/ \E p \in Servers : Find(m, p)
          \/ \E limited \in BOOLEAN : QueryAndRelay(m, limited)

QueriesSpec == QueriesInit /\ [][QueriesNext]_queryVars

-----------------------------------------------------------------------------

QueriesTypeOK ==
    /\ hosts \in [Servers -> SUBSET Users] /\ ever \in [Servers -> SUBSET Users]
    /\ home \in [Servers -> [Users -> Servers \cup {NoServer}]]
    /\ rates \in [Servers -> [Servers -> [Users -> Nat]]]
    /\ linked \subseteq Servers \X Servers
    /\ \A s, p \in Servers : Len(lines[s][p]) <= MaxLine + 1
    /\ \A m \in Msgs : relay[m].at \in {"new", "find", "send", "none", "no_route", "queued",
                                        "rate_limited", "delivered"}
    /\ reached \in [Msgs -> {"no", "home", "stranger", "refused"}]
    /\ applied \in [Msgs -> Nat]

\* No server is remembered as the home of a user it never had, whoever was asked
\* meanwhile, whatever answers are under way and whoever was started again.
HomesWereTrue ==
    \A s \in Servers, u \in Users : home[s][u] # NoServer => u \in ever[home[s][u]]

=============================================================================
