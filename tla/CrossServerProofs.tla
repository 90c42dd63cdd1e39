--------------------------- MODULE CrossServerProofs ---------------------------
(***************************************************************************)
(* Proofs about CrossServer, for any servers, connections and messages.    *)
(***************************************************************************)
EXTENDS CrossServer, TLAPS

-----------------------------------------------------------------------------

\* Every action assigns each variable a value of its type.
LEMMA TypeStep ==
    ASSUME TypeOK,
           Next
    PROVE  TypeOK'
<1>w. wire \in [Conns -> [Servers -> SUBSET (Msgs \cup Control)]]
    BY DEF TypeOK
<1> USE FaultAssumption DEF Handshake, Places
<1>1. CASE \E s, p \in Servers : AddKnownPeer(s, p)
    BY <1>1
       DEF AddKnownPeer, Named, Call, TypeOK, links, relays, Addresses
<1>2. CASE \E c \in Conns, s, p \in Servers :
              Dial(c, s, p) \/ Fetch(c, s, p)
    <2>1. PICK c \in Conns, s \in Servers, p \in Servers,
               purpose \in {"calling", "fetching"} : Connect(c, s, p, purpose)
        BY <1>2 DEF Dial, Fetch
    <2>2. [place[c] EXCEPT ![s] = purpose, ![p] = "greeted"]
             \in [Servers -> Places]
        BY DEF TypeOK
    <2>3. place' \in [Conns -> [Servers -> Places]]
        BY <2>1, <2>2 DEF Connect, TypeOK
    <2> QED
        BY <2>1, <2>3 DEF Connect, TypeOK, links, addresses, relays
<1>4. CASE \E c \in Conns, s, p \in Servers : Answer(c, s, p)
    BY <1>4, <1>w
       DEF Answer, Control, TypeOK, links, addresses, relays, Addresses
<1>5. CASE \E c \in Conns, s, p \in Servers : Register(c, s, p)
    <2>1. PICK c \in Conns, s \in Servers, p \in Servers : Register(c, s, p)
        BY <1>5
    <2>2. wire' \in [Conns -> [Servers -> SUBSET (Msgs \cup Control)]]
        BY <2>1, <1>w DEF Register, Control
    <2> QED
        BY <2>1, <2>2 DEF Register, TypeOK, addresses, relays, Places
<1>6. CASE \E c \in Conns, s, p \in Servers : Name(c, s, p)
    BY <1>6
       DEF Name, Named, Call, Flushed, TypeOK, links, addresses, Addresses
<1>7. CASE \E c \in Conns, s, p \in Servers : NameFails(c, s, p)
    BY <1>7
       DEF NameFails, TypeOK, links, addresses, relays, Addresses
<1>8. CASE \E c \in Conns, s, p \in Servers : AskPost(c, s, p)
    <2>1. PICK c \in Conns, s \in Servers, p \in Servers : AskPost(c, s, p)
        BY <1>8
    <2>2. wire' \in [Conns -> [Servers -> SUBSET (Msgs \cup Control)]]
        BY <2>1, <1>w DEF AskPost, Control
    <2> QED
        BY <2>1, <2>2 DEF AskPost, TypeOK, addresses, relays, Places, Handshake
<1>9. CASE \E c \in Conns, s, p \in Servers : Admit(c, s, p)
    BY <1>9
       DEF Admit, Named, TypeOK, links, addresses, relays, Addresses
<1>10. CASE \E c \in Conns, s, p \in Servers : AdmitFails(c, s, p)
    BY <1>10
       DEF AdmitFails, TypeOK, links, addresses, relays, Addresses
<1>11. CASE \E c \in Conns, s, p \in Servers : LoopEnds(c, s, p)
    BY <1>11
       DEF LoopEnds, TypeOK, links, addresses, relays, Addresses
<1>12. CASE \E c \in Conns, s \in Servers : StartLoop(c, s)
    BY <1>12
       DEF StartLoop, TypeOK, links, addresses, relays, Addresses
<1>13. CASE \E c \in Conns, s \in Servers : HandshakeEnds(c, s)
    BY <1>13
       DEF HandshakeEnds, TypeOK, links, addresses, relays, Addresses
<1>14. CASE \E c \in Conns, s \in Servers, x \in Msgs \cup Control :
              Receive(c, s, x)
    BY <1>14
       DEF Receive, TypeOK, links, addresses, relays, Addresses
<1>15. CASE \E m \in Msgs, s, p \in Servers : Relay(m, s, p)
    BY <1>15
       DEF Relay, TypeOK, links, addresses, relays, Addresses
<1>16. CASE \E m \in Msgs : Limit(m)
    BY <1>16
       DEF Limit, TypeOK, links, addresses, relays, Addresses
<1>17. CASE \E m \in Msgs : Queue(m)
    BY <1>17
       DEF Queue, TypeOK, links, addresses, relays
<1>q. ASSUME NEW m \in Msgs, NEW s \in Servers, NEW p \in Servers,
             Queued(m, s, p)
      PROVE  /\ dials' \in [Servers -> SUBSET Servers]
             /\ answer' \in [Msgs -> {"none", "delivered", "queued"}]
             /\ UNCHANGED <<links, known, table, home, dest, via, arrived,
                            faults>>
    <2>1. dials \in [Servers -> SUBSET Servers]
        BY DEF TypeOK
    <2>2. UNCHANGED dials \/ dials' = [dials EXCEPT ![s] = @ \cup {p}]
        BY <1>q, Zenon DEF Queued, Call
    <2>3. dials' \in [Servers -> SUBSET Servers]
        BY <2>1, <2>2
    <2> QED
        BY <1>q, <2>3 DEF Queued, TypeOK
<1>23. CASE \E m \in Msgs, s, p \in Servers : Append(m, s, p)
    BY <1>23, <1>q
       DEF Append, TypeOK, links
<1>24. CASE \E m \in Msgs, c \in Conns, s, p \in Servers :
               AppendTaken(m, c, s, p)
    BY <1>24, <1>q
       DEF AppendTaken, TypeOK, links
<1>25. CASE \E m \in Msgs, c \in Conns, s, p \in Servers :
               AppendLost(m, c, s, p)
    BY <1>25, <1>q
       DEF AppendLost, TypeOK, links
<1>26. CASE \E s, p \in Servers : OtherSendFails(s, p)
    BY <1>26
       DEF OtherSendFails, TypeOK, addresses, relays
<1>18. CASE \E m \in Msgs, s, p \in Servers : Pick(m, s, p)
    BY <1>18
       DEF Pick, TypeOK, links, addresses, relays, Addresses
<1>19. CASE \E m \in Msgs, s, p \in Servers : PickNothing(m, s, p)
    BY <1>19
       DEF PickNothing, Reported, TypeOK, links, addresses, relays, Addresses
<1>20. CASE \E m \in Msgs, s, p \in Servers : Write(m, s, p)
    BY <1>20
       DEF Write, Reported, TypeOK, links, addresses, relays, Addresses
<1>21. CASE \E m \in Msgs, s, p \in Servers : WriteFails(m, s, p)
    BY <1>21
       DEF WriteFails, Reported, TypeOK, links, addresses, relays, Addresses
<1>22. CASE \E s \in Servers : Restart(s)
    BY <1>22
       DEF Restart, InMemory, TypeOK, links, addresses, relays, Addresses
<1> QED
    BY <1>1, <1>2, <1>4, <1>5, <1>6, <1>7, <1>8, <1>9, <1>10, <1>11, <1>12,
       <1>13, <1>14, <1>15, <1>16, <1>17, <1>18, <1>19, <1>20, <1>21, <1>22,
       <1>23, <1>24, <1>25, <1>26
       DEF Next, Sending

\* HELLO and AUTH_OK are written by an end that has reached the place they
\* tell of, and no end goes back to an earlier place.
LEMMA LinkStep ==
    ASSUME TypeOK, LinkInv, EntryIsProved,
           Next
    PROVE  LinkInv'
<1>e. \A q, r \in Servers, d \in Conns : peers[q][r] = d => from[d] # NoServer
  <2>1. \A q, r \in Servers, d \in Conns : peers[q][r] = d => from[d] \in Servers
    BY DEF EntryIsProved
  <2> QED
    BY <2>1, NoServerAssumption
<1> USE NoServerAssumption, NoConnAssumption, FaultAssumption,
        ControlAssumption DEF TypeOK, LinkInv, EntryIsProved,
        links, addresses, relays, Control, Handshake
<1>1. CASE \E s, p \in Servers : AddKnownPeer(s, p)
    BY <1>1 DEF AddKnownPeer, Named, Call
<1>2. CASE \E c \in Conns, s, p \in Servers : Dial(c, s, p)
    BY <1>2 DEF Dial, Connect
<1>3. CASE \E c \in Conns, s, p \in Servers : Fetch(c, s, p)
    BY <1>3 DEF Fetch, Connect
<1>4. CASE \E c \in Conns, s, p \in Servers : Answer(c, s, p)
    BY <1>4 DEF Answer
<1>5. CASE \E c \in Conns, s, p \in Servers : Register(c, s, p)
    BY <1>5 DEF Register
<1>6. CASE \E c \in Conns, s, p \in Servers : Name(c, s, p)
    BY <1>6 DEF Name, Named, Call, Flushed
<1>7. CASE \E c \in Conns, s, p \in Servers : NameFails(c, s, p)
    BY <1>7 DEF NameFails
<1>8. CASE \E c \in Conns, s, p \in Servers : AskPost(c, s, p)
    BY <1>8 DEF AskPost
<1>9. CASE \E c \in Conns, s, p \in Servers : Admit(c, s, p)
    BY <1>9 DEF Admit, Named
<1>10. CASE \E c \in Conns, s, p \in Servers : AdmitFails(c, s, p)
    BY <1>10 DEF AdmitFails
<1>11. CASE \E c \in Conns, s, p \in Servers : LoopEnds(c, s, p)
    BY <1>11 DEF LoopEnds
<1>12. CASE \E c \in Conns, s \in Servers : StartLoop(c, s)
    BY <1>12 DEF StartLoop
<1>13. CASE \E c \in Conns, s \in Servers : HandshakeEnds(c, s)
    BY <1>13 DEF HandshakeEnds
<1>14. CASE \E c \in Conns, s \in Servers, x \in Msgs \cup Control :
              Receive(c, s, x)
    BY <1>14 DEF Receive
<1>15. CASE \E m \in Msgs, s, p \in Servers : Relay(m, s, p)
    BY <1>15 DEF Relay
<1>16. CASE \E m \in Msgs : Limit(m)
    BY <1>16 DEF Limit
<1>17. CASE \E m \in Msgs : Queue(m)
    BY <1>17
       DEF Queue
<1>23. CASE \E m \in Msgs, s, p \in Servers : Append(m, s, p)
    BY <1>23
       DEF Append, Queued
<1>24. CASE \E m \in Msgs, c \in Conns, s, p \in Servers :
               AppendTaken(m, c, s, p)
    BY <1>24
       DEF AppendTaken, Queued
<1>25. CASE \E m \in Msgs, c \in Conns, s, p \in Servers :
               AppendLost(m, c, s, p)
    BY <1>25
       DEF AppendLost, Queued
<1>26. CASE \E s, p \in Servers : OtherSendFails(s, p)
    BY <1>26
       DEF OtherSendFails
<1>18. CASE \E m \in Msgs, s, p \in Servers : Pick(m, s, p)
    <2>1. PICK m \in Msgs, s \in Servers, p \in Servers : Pick(m, s, p)
        BY <1>18
    <2>2. UNCHANGED <<from, to, place, wire>>
        BY <2>1 DEF Pick
    <2>3. PICK c \in Conns : peers[s][p] = c
        BY <2>1 DEF Pick
    <2>5. from[c] # NoServer
        BY ONLY <2>3, <1>e, s \in Servers, p \in Servers, c \in Conns
    <2>4. \A n \in Msgs : stage'[n] = "write" => from[via'[n]] # NoServer
        BY <2>1, <2>3, <2>5 DEF Pick
    <2> QED
        BY <2>2, <2>4
<1>19. CASE \E m \in Msgs, s, p \in Servers : PickNothing(m, s, p)
    BY <1>19 DEF PickNothing, Reported
<1>20. CASE \E m \in Msgs, s, p \in Servers : Write(m, s, p)
    BY <1>20 DEF Write, Reported
<1>21. CASE \E m \in Msgs, s, p \in Servers : WriteFails(m, s, p)
    BY <1>21 DEF WriteFails, Reported
<1>22. CASE \E s \in Servers : Restart(s)
    BY <1>22 DEF Restart, InMemory
<1> QED
    BY <1>1, <1>2, <1>3, <1>4, <1>5, <1>6, <1>7, <1>8, <1>9, <1>10, <1>11,
       <1>12, <1>13, <1>14, <1>15, <1>16, <1>17, <1>18, <1>19, <1>20, <1>21,
       <1>22, <1>23, <1>24, <1>25, <1>26
       DEF Next, Sending

\* A connection is entered when HELLO or AUTH_OK has been read from it, which
\* LinkInv ties to the place of the other end.
LEMMA ProvedStep ==
    ASSUME TypeOK, LinkInv, EntryIsProved,
           Next
    PROVE  EntryIsProved'
<1> DEFINE Proved(q, r, d) ==
        \/ from[d] = q /\ to[d] = r /\ place[d][r] # "greeted"
        \/ /\ from[d] = r /\ to[d] = q
           /\ place[d][r] \notin {"calling", "fetching"}
<1>t. /\ place \in [Conns -> [Servers -> Places]]
      /\ peers \in [Servers -> [Servers -> Conns \cup {NoConn}]]
      /\ from \in [Conns -> Servers \cup {NoServer}]
      /\ to \in [Conns -> Servers \cup {NoServer}]
    BY DEF TypeOK
<1>p. \A q, r \in Servers, d \in Conns : peers[q][r] = d => Proved(q, r, d)
    BY DEF EntryIsProved
<1>l. \A c \in Conns, s, p \in Servers : from[c] = s /\ to[c] = p =>
         /\ s # p
         /\ "hello" \in wire[c][s] => place[c][p] # "greeted"
         /\ "auth" \in wire[c][p] => place[c][s] \notin {"calling", "fetching"}
    BY NoServerAssumption DEF LinkInv
<1> USE NoServerAssumption, NoConnAssumption
<1>g. SUFFICES \A q, r \in Servers, d \in Conns :
                  peers'[q][r] = d => Proved(q, r, d)'
    BY DEF EntryIsProved
<1>f. UNCHANGED <<from, to, place, peers>> =>
         \A q, r \in Servers, d \in Conns :
            peers'[q][r] = d => Proved(q, r, d)'
    BY <1>p
<1>1. CASE \E s, p \in Servers : AddKnownPeer(s, p)
    BY <1>1, <1>f DEF AddKnownPeer, links
<1>9. CASE \E m \in Msgs, s, p \in Servers :
              Relay(m, s, p) \/ Limit(m) \/ Queue(m) \/ Pick(m, s, p)
                 \/ PickNothing(m, s, p)
    BY <1>9, <1>f DEF Relay, Limit, Queue, Pick, PickNothing, links
<1>12. CASE \E m \in Msgs, c \in Conns, s, p \in Servers :
              AppendTaken(m, c, s, p) \/ AppendLost(m, c, s, p)
    BY <1>12, <1>f DEF AppendTaken, AppendLost, Queued, links
<1>16. CASE \E m \in Msgs, s, p \in Servers : Append(m, s, p)
    BY <1>16, <1>f DEF Append, Queued, links
<1>10. CASE \E m \in Msgs, s, p \in Servers : Write(m, s, p)
    BY <1>10, <1>f DEF Write
<1>11. CASE \E c \in Conns, s \in Servers, x \in Msgs \cup Control :
               Receive(c, s, x)
    BY <1>11, <1>f DEF Receive
<1>2. CASE \E c \in Conns, s, p \in Servers :
              Dial(c, s, p) \/ Fetch(c, s, p)
    <2>1. PICK c \in Conns, s \in Servers, p \in Servers,
               purpose \in {"calling", "fetching"} : Connect(c, s, p, purpose)
        BY <1>2 DEF Dial, Fetch
    <2>2. \A q, r \in Servers : peers[q][r] # c
        BY <2>1, <1>p DEF Connect
    <2>3. \A d \in Conns \ {c} : /\ from'[d] = from[d] /\ to'[d] = to[d]
                                /\ place'[d] = place[d]
        BY <2>1, <1>t DEF Connect
    <2>4. UNCHANGED peers
        BY <2>1 DEF Connect
    <2> QED
        BY <2>2, <2>3, <2>4, <1>p
<1>3. CASE \E c \in Conns, s, p \in Servers :
              \/ Answer(c, s, p) \/ Name(c, s, p) \/ NameFails(c, s, p)
              \/ StartLoop(c, s) \/ AskPost(c, s, p) \/ HandshakeEnds(c, s)
    <2>1. PICK c \in Conns, s \in Servers, next \in Places \ {"greeted",
               "calling", "fetching"} : place' = [place EXCEPT ![c][s] = next]
        BY <1>3 DEF Answer, Name, NameFails, StartLoop, AskPost, HandshakeEnds,
                    Places, Handshake
    <2>2. UNCHANGED <<from, to, peers>>
        BY <1>3 DEF Answer, Name, NameFails, StartLoop, AskPost, HandshakeEnds
    <2> QED
        BY <2>1, <2>2, <1>p, <1>t
<1>4. CASE \E c \in Conns, s, p \in Servers : Register(c, s, p)
    <2>1. PICK c \in Conns, s \in Servers, p \in Servers :
             /\ from[c] = s /\ to[c] = p
             /\ "hello" \in wire[c][s]
             /\ peers' = [peers EXCEPT ![s][p] = c]
             /\ place' = [place EXCEPT ![c][s] = "naming"]
             /\ UNCHANGED <<from, to>>
        BY <1>4 DEF Register
    <2>2. s # p /\ place[c][p] # "greeted"
        BY <2>1, <1>l
    <2>3. Proved(s, p, c)'
        BY <2>1, <2>2, <1>t
    <2>4. \A q, r \in Servers, d \in Conns :
             Proved(q, r, d) => Proved(q, r, d)'
        BY <2>1, <1>t
    <2>5. \A q, r \in Servers, d \in Conns : peers'[q][r] = d =>
             peers[q][r] = d \/ (q = s /\ r = p /\ d = c)
        BY <2>1, <1>t
    <2> QED
        BY <2>3, <2>4, <2>5, <1>p
<1>5. CASE \E c \in Conns, s, p \in Servers :
              Admit(c, s, p) \/ AdmitFails(c, s, p)
    <2>1. PICK c \in Conns, s \in Servers, p \in Servers,
               next \in {"receiving", "closed"} :
             /\ from[c] = s /\ to[c] = p
             /\ "auth" \in wire[c][p]
             /\ peers' = [peers EXCEPT ![p][s] = c]
             /\ place' = [place EXCEPT ![c][p] = next]
             /\ UNCHANGED <<from, to>>
        BY <1>5 DEF Admit, AdmitFails
    <2>2. s # p /\ place[c][s] \notin {"calling", "fetching"}
        BY <2>1, <1>l
    <2>3. Proved(p, s, c)'
        BY <2>1, <2>2, <1>t
    <2>4. \A q, r \in Servers, d \in Conns :
             Proved(q, r, d) => Proved(q, r, d)'
        BY <2>1, <1>t
    <2>5. \A q, r \in Servers, d \in Conns : peers'[q][r] = d =>
             peers[q][r] = d \/ (q = p /\ r = s /\ d = c)
        BY <2>1, <1>t
    <2> QED
        BY <2>3, <2>4, <2>5, <1>p
<1>6. CASE \E c \in Conns, s, p \in Servers : LoopEnds(c, s, p)
    <2>1. PICK c \in Conns, s \in Servers, p \in Servers :
             /\ UNCHANGED <<from, to>>
             /\ place' = [place EXCEPT ![c][s] = "gone"]
             /\ peers' = [peers EXCEPT ![s][p] = NoConn]
        BY <1>6 DEF LoopEnds
    <2>2. \A d \in Conns, q \in Servers :
             place'[d][q] = place[d][q] \/ place'[d][q] = "gone"
        BY <2>1, <1>t
    <2>3. \A q, r \in Servers :
             peers'[q][r] = peers[q][r] \/ peers'[q][r] = NoConn
        BY <2>1, <1>t
    <2> QED
        BY <2>1, <2>2, <2>3, <1>p
<1>7. CASE \/ \E m \in Msgs, s, p \in Servers : WriteFails(m, s, p)
           \/ \E s, p \in Servers : OtherSendFails(s, p)
    <2>1. PICK s \in Servers, p \in Servers :
             peers' = [peers EXCEPT ![s][p] = NoConn]
        BY <1>7 DEF WriteFails, OtherSendFails
    <2>2. UNCHANGED <<from, to, place>>
        BY <1>7 DEF WriteFails, OtherSendFails
    <2>3. \A q, r \in Servers :
             peers'[q][r] = peers[q][r] \/ peers'[q][r] = NoConn
        BY <2>1, <1>t
    <2> QED
        BY <2>2, <2>3, <1>p
<1>8. CASE \E s \in Servers : Restart(s)
    <2>1. PICK s \in Servers : Restart(s)
        BY <1>8
    <2>2. UNCHANGED <<from, to>>
        BY <2>1 DEF Restart
    <2>3. \A d \in Conns, q \in Servers :
             place'[d][q] = place[d][q] \/ place'[d][q] = "gone"
        BY <2>1, <1>t DEF Restart
    <2>4. \A q, r \in Servers :
             peers'[q][r] = peers[q][r] \/ peers'[q][r] = NoConn
        BY <2>1, <1>t DEF Restart
    <2> QED
        BY <2>2, <2>3, <2>4, <1>p
<1> QED
    BY <1>1, <1>2, <1>3, <1>4, <1>5, <1>6, <1>7, <1>8,
       <1>9, <1>10, <1>11, <1>12, <1>16 DEF Next, Sending

\* Each action that changes an entry or an end leaves the entry of the peer
\* with a thread that receives, or drops the entry.
LEMMA ServedStep ==
    ASSUME TypeOK, LinkInv, EntryIsProved, EntryIsServed,
           Next
    PROVE  EntryIsServed'
<1> DEFINE Live == {"naming", "flushing", "receiving"}
<1>t. /\ place \in [Conns -> [Servers -> Places]]
      /\ peers \in [Servers -> [Servers -> Conns \cup {NoConn}]]
      /\ faults \in 0..MaxFaults
    BY DEF TypeOK
<1>l. \A d \in Conns : from[d] # NoServer => from[d] # to[d]
    BY DEF LinkInv
<1>p. \A q, r \in Servers, d \in Conns : peers[q][r] = d =>
         \/ from[d] = q /\ to[d] = r
         \/ from[d] = r /\ to[d] = q
    BY DEF EntryIsProved
<1>s. faults = 0 => \A q, r \in Servers, d \in Conns :
         peers[q][r] = d => place[d][q] \in Live
    BY DEF EntryIsServed
<1> USE NoServerAssumption, NoConnAssumption, FaultAssumption
<1>g. SUFFICES ASSUME faults' = 0
               PROVE  \A q, r \in Servers, d \in Conns :
                         peers'[q][r] = d => place'[d][q] \in Live
    BY DEF EntryIsServed
<1>f. UNCHANGED <<place, peers, faults>> =>
         \A q, r \in Servers, d \in Conns : peers'[q][r] = d => place'[d][q] \in Live
    BY <1>s, <1>g
<1>1. CASE \E s, p \in Servers : AddKnownPeer(s, p)
    BY <1>1, <1>f DEF AddKnownPeer, links
<1>2. CASE \E c \in Conns, s, p \in Servers :
              Dial(c, s, p) \/ Fetch(c, s, p)
    <2>1. PICK c \in Conns, s \in Servers, p \in Servers,
               purpose \in {"calling", "fetching"} : Connect(c, s, p, purpose)
        BY <1>2 DEF Dial, Fetch
    <2>2. faults = 0
        BY <2>1, <1>g DEF Connect
    <2>3. \A q, r \in Servers : peers[q][r] # c
        BY <2>1, <1>p DEF Connect
    <2>4. \A d \in Conns \ {c} : place'[d] = place[d]
        BY <2>1, <1>t DEF Connect
    <2>5. UNCHANGED peers
        BY <2>1 DEF Connect
    <2> QED
        BY <2>2, <2>3, <2>4, <2>5, <1>s
<1>4. CASE \E c \in Conns, s, p \in Servers : Answer(c, s, p)
    <2>1. PICK c \in Conns, p \in Servers :
             /\ place[c][p] = "greeted"
             /\ place' = [place EXCEPT ![c][p] = "answered"]
             /\ UNCHANGED <<peers, faults>>
        BY <1>4 DEF Answer
    <2>2. \A d \in Conns, q \in Servers : place[d][q] \in Live => place'[d][q] = place[d][q]
        BY <2>1, <1>t
    <2> QED
        BY <2>1, <2>2, <1>s, <1>g
<1>5. CASE \E c \in Conns, s, p \in Servers : Register(c, s, p)
    <2>1. PICK c \in Conns, s \in Servers, p \in Servers :
             /\ place' = [place EXCEPT ![c][s] = "naming"]
             /\ peers' = [peers EXCEPT ![s][p] = c]
             /\ UNCHANGED faults
        BY <1>5 DEF Register
    <2> QED
        BY <2>1, <1>s, <1>t, <1>g
<1>6. CASE \E c \in Conns, s, p \in Servers : Name(c, s, p)
    <2>1. PICK c \in Conns, s \in Servers :
             /\ place' = [place EXCEPT ![c][s] = "flushing"]
             /\ UNCHANGED <<peers, faults>>
        BY <1>6 DEF Name
    <2> QED
        BY <2>1, <1>s, <1>t, <1>g
<1>7. CASE \E c \in Conns, s, p \in Servers :
              NameFails(c, s, p) \/ AdmitFails(c, s, p)
    BY <1>7, <1>t, <1>g DEF NameFails, AdmitFails
<1>8. CASE \E c \in Conns, s, p \in Servers : AskPost(c, s, p)
    <2>1. PICK c \in Conns, s \in Servers :
             /\ place[c][s] = "fetching"
             /\ place' = [place EXCEPT ![c][s] = "asking"]
             /\ UNCHANGED <<peers, faults>>
        BY <1>8 DEF AskPost, relays, addresses
    <2>2. \A d \in Conns, q \in Servers : place[d][q] \in Live => place'[d][q] = place[d][q]
        BY <2>1, <1>t
    <2> QED
        BY <2>1, <2>2, <1>s, <1>g
<1>9. CASE \E c \in Conns, s, p \in Servers : Admit(c, s, p)
    <2>1. PICK c \in Conns, s \in Servers, p \in Servers :
             /\ place' = [place EXCEPT ![c][p] = "receiving"]
             /\ peers' = [peers EXCEPT ![p][s] = c]
             /\ UNCHANGED faults
        BY <1>9 DEF Admit
    <2> QED
        BY <2>1, <1>s, <1>t, <1>g
<1>11. CASE \E c \in Conns, s, p \in Servers : LoopEnds(c, s, p)
    <2>1. PICK c \in Conns, s \in Servers, p \in Servers : LoopEnds(c, s, p)
        BY <1>11
    <2>2. faults = 0
        BY <2>1, <1>g DEF LoopEnds
    <2>3. \A r \in Servers : peers'[s][r] # c
        BY <2>1, <1>t, <1>p, <1>l DEF LoopEnds
    <2>4. \A q, r \in Servers : peers'[q][r] \in Conns =>
             peers[q][r] = peers'[q][r]
        BY <2>1, <1>t DEF LoopEnds
    <2>5. \A q \in Servers, d \in Conns : d # c \/ q # s =>
             place'[d][q] = place[d][q]
        BY <2>1, <1>t DEF LoopEnds
    <2> QED
        BY <2>2, <2>3, <2>4, <2>5, <1>s
<1>12. CASE \E c \in Conns, s \in Servers : StartLoop(c, s)
    BY <1>12, <1>s, <1>t, <1>g DEF StartLoop
<1>13. CASE \E c \in Conns, s \in Servers : HandshakeEnds(c, s)
    BY <1>13, <1>s, <1>t, <1>g DEF HandshakeEnds, Handshake
<1>14. CASE \E c \in Conns, s \in Servers, x \in Msgs \cup Control :
              Receive(c, s, x)
    BY <1>14, <1>f DEF Receive
<1>15. CASE \E m \in Msgs, s, p \in Servers :
              Relay(m, s, p) \/ Limit(m) \/ Queue(m) \/ Pick(m, s, p)
                 \/ PickNothing(m, s, p)
    BY <1>15, <1>f
       DEF Relay, Limit, Queue, Pick, PickNothing, links
<1>16. CASE \E m \in Msgs, s, p \in Servers : Append(m, s, p)
    BY <1>16, <1>f DEF Append, Queued, links
<1>17. CASE \E m \in Msgs, c \in Conns, s, p \in Servers :
              AppendTaken(m, c, s, p) \/ AppendLost(m, c, s, p)
    BY <1>17, <1>f DEF AppendTaken, AppendLost, Queued, links
<1>18. CASE \/ \E m \in Msgs, s, p \in Servers : WriteFails(m, s, p)
            \/ \E s, p \in Servers : OtherSendFails(s, p)
    <2>1. PICK s \in Servers, p \in Servers :
             peers' = [peers EXCEPT ![s][p] = NoConn]
        BY <1>18 DEF WriteFails, OtherSendFails
    <2>2. UNCHANGED <<place, faults>>
        BY <1>18 DEF WriteFails, OtherSendFails
    <2>3. \A q, r \in Servers :
             peers'[q][r] = peers[q][r] \/ peers'[q][r] = NoConn
        BY <2>1, <1>t
    <2> QED
        BY <2>2, <2>3, <1>s, <1>g
<1>20. CASE \E m \in Msgs, s, p \in Servers : Write(m, s, p)
    BY <1>20, <1>f DEF Write
<1>22. CASE \E s \in Servers : Restart(s)
    BY <1>22, <1>s, <1>t, <1>g DEF Restart
<1> QED
    BY <1>1, <1>2, <1>4, <1>5, <1>6, <1>7, <1>8, <1>9, <1>11, <1>12, <1>13,
       <1>14, <1>15, <1>16, <1>17, <1>18, <1>20, <1>22 DEF Next, Sending

\* The actions that touch no message: handshakes, addresses, ended loops.
LEMMA MessagesStay ==
    ASSUME TypeOK,
           NEW c \in Conns, NEW s \in Servers, NEW p \in Servers,
           \/ AddKnownPeer(s, p) \/ Dial(c, s, p) \/ Fetch(c, s, p)
           \/ Answer(c, s, p) \/ Register(c, s, p) \/ NameFails(c, s, p)
           \/ AskPost(c, s, p) \/ Admit(c, s, p) \/ AdmitFails(c, s, p)
           \/ LoopEnds(c, s, p) \/ HandshakeEnds(c, s)
           \/ OtherSendFails(s, p)
    PROVE  /\ UNCHANGED relays
           /\ \A m \in Msgs, d \in Conns, q \in Servers :
                 m \in wire'[d][q] <=> m \in wire[d][q]
<1>t. wire \in [Conns -> [Servers -> SUBSET (Msgs \cup Control)]]
    BY DEF TypeOK
<1>m. \A m \in Msgs : m # "hello" /\ m # "auth" /\ m # "fetch"
    BY ControlAssumption
<1>1. CASE AddKnownPeer(s, p) \/ Dial(c, s, p) \/ Fetch(c, s, p)
           \/ NameFails(c, s, p) \/ LoopEnds(c, s, p) \/ HandshakeEnds(c, s)
           \/ OtherSendFails(s, p)
    BY <1>1 DEF AddKnownPeer, Dial, Fetch, Connect, NameFails, LoopEnds,
                HandshakeEnds, OtherSendFails, links
<1>2. CASE Answer(c, s, p)
    BY <1>2, <1>t, <1>m DEF Answer
<1>3. CASE Register(c, s, p)
    <2>1. /\ wire' = [wire EXCEPT ![c][s] = @ \ {"hello"},
                                 ![c][p] = @ \cup {"auth"}]
          /\ UNCHANGED relays
        BY <1>3, Zenon DEF Register
    <2>2. \A m \in Msgs, q \in Servers : m \in wire'[c][q] <=> m \in wire[c][q]
        BY <2>1, <1>t, <1>m
    <2>3. \A d \in Conns : d # c => wire'[d] = wire[d]
        BY <2>1, <1>t
    <2> QED
        BY <2>1, <2>2, <2>3
<1>4. CASE AskPost(c, s, p)
    <2>1. /\ wire' = [wire EXCEPT ![c][s] = @ \ {"hello"},
                                 ![c][p] = @ \cup {"auth", "fetch"}]
          /\ UNCHANGED relays
        BY <1>4, Zenon DEF AskPost
    <2>2. \A m \in Msgs, q \in Servers : m \in wire'[c][q] <=> m \in wire[c][q]
        BY <2>1, <1>t, <1>m
    <2>3. \A d \in Conns : d # c => wire'[d] = wire[d]
        BY <2>1, <1>t
    <2> QED
        BY <2>1, <2>2, <2>3
<1>5. CASE Admit(c, s, p) \/ AdmitFails(c, s, p)
    <2>1. /\ wire' = [wire EXCEPT ![c][p] = @ \ {"auth"}]
          /\ UNCHANGED relays
        BY <1>5 DEF Admit, AdmitFails
    <2> QED
        BY <2>1, <1>t, <1>m
<1> QED
    BY <1>1, <1>2, <1>3, <1>4, <1>5

\* A message stays in one place: what leaves a place has been in no other.
LEMMA PlaceStep ==
    ASSUME TypeOK, PlaceInv,
           Next
    PROVE  PlaceInv'
<1>t. /\ wire \in [Conns -> [Servers -> SUBSET (Msgs \cup Control)]]
      /\ pending \in [Servers -> [Servers -> SUBSET Msgs]]
      /\ home \in [Msgs -> Servers \cup {NoServer}]
      /\ dest \in [Msgs -> Servers \cup {NoServer}]
      /\ stage \in
            [Msgs -> {"new", "queue", "append", "send", "write", "done"}]
      /\ answer \in [Msgs -> {"none", "delivered", "queued"}]
      /\ arrived \in [Msgs -> Nat]
      /\ via \in [Msgs -> Conns \cup {NoConn}]
      /\ \A m \in Msgs : stage[m] = "write" => via[m] \in Conns
    BY DEF TypeOK
<1> USE DEF PlaceInv, Waiting
<1>1. CASE \E c \in Conns, s, p \in Servers :
              \/ Dial(c, s, p) \/ Fetch(c, s, p)
              \/ Answer(c, s, p) \/ Register(c, s, p) \/ NameFails(c, s, p)
              \/ AskPost(c, s, p) \/ Admit(c, s, p) \/ AdmitFails(c, s, p)
              \/ LoopEnds(c, s, p) \/ HandshakeEnds(c, s)
    BY <1>1, MessagesStay DEF relays
<1>3. CASE \E s, p \in Servers : OtherSendFails(s, p)
    BY <1>3 DEF OtherSendFails, relays
<1>2. CASE \E s, p \in Servers : AddKnownPeer(s, p)
    BY <1>2 DEF AddKnownPeer, links, relays
<1>6. CASE \E c \in Conns, s, p \in Servers : Name(c, s, p)
    BY <1>6, <1>t DEF Name, Flushed
<1>12. CASE \E c \in Conns, s \in Servers : StartLoop(c, s)
    BY <1>12 DEF StartLoop
<1>14. CASE \E c \in Conns, s \in Servers, x \in Msgs \cup Control :
              Receive(c, s, x)
    BY <1>14, <1>t DEF Receive
<1>15. CASE \E m \in Msgs, s, p \in Servers : Relay(m, s, p)
    BY <1>15, <1>t DEF Relay, links
<1>16. CASE \E m \in Msgs : Limit(m)
    BY <1>16, <1>t DEF Limit, links
<1>17. CASE \E m \in Msgs : Queue(m)
    BY <1>17, <1>t
       DEF Queue, links
<1>23. CASE \E m \in Msgs, s, p \in Servers : Append(m, s, p)
    BY <1>23, <1>t
       DEF Append, Queued, links
<1>24. CASE \E m \in Msgs, c \in Conns, s, p \in Servers :
               AppendTaken(m, c, s, p)
    BY <1>24, <1>t
       DEF AppendTaken, Queued, links
<1>25. CASE \E m \in Msgs, c \in Conns, s, p \in Servers :
               AppendLost(m, c, s, p)
    BY <1>25, <1>t
       DEF AppendLost, Queued, links
<1>18. CASE \E m \in Msgs, s, p \in Servers : Pick(m, s, p)
    BY <1>18, <1>t DEF Pick, links
<1>19. CASE \E m \in Msgs, s, p \in Servers : PickNothing(m, s, p)
    BY <1>19, <1>t DEF PickNothing, Reported, links
<1>20. CASE \E m \in Msgs, s, p \in Servers : Write(m, s, p)
    BY <1>20, <1>t DEF Write, Reported
<1>21. CASE \E m \in Msgs, s, p \in Servers : WriteFails(m, s, p)
    BY <1>21, <1>t DEF WriteFails, Reported
<1>22. CASE \E s \in Servers : Restart(s)
    BY <1>22, <1>t DEF Restart
<1> QED
    BY <1>1, <1>2, <1>6, <1>12, <1>14, <1>15, <1>16, <1>17, <1>18, <1>19,
       <1>3, <1>20, <1>21, <1>22,
       <1>23, <1>24, <1>25 DEF Next, Sending

\* What has been answered stays true of the message.
LEMMA AnswerStep ==
    ASSUME TypeOK, PlaceInv, AnswerHolds,
           Next
    PROVE  AnswerHolds'
<1>t. /\ wire \in [Conns -> [Servers -> SUBSET (Msgs \cup Control)]]
      /\ pending \in [Servers -> [Servers -> SUBSET Msgs]]
      /\ home \in [Msgs -> Servers \cup {NoServer}]
      /\ dest \in [Msgs -> Servers \cup {NoServer}]
      /\ stage \in
            [Msgs -> {"new", "queue", "append", "send", "write", "done"}]
      /\ answer \in [Msgs -> {"none", "delivered", "queued"}]
      /\ arrived \in [Msgs -> Nat]
      /\ \A m \in Msgs : stage[m] = "write" => via[m] \in Conns
    BY DEF TypeOK
<1>n. \A m \in Msgs : stage[m] = "new" => answer[m] = "none"
    BY DEF PlaceInv
<1>w. \A m \in Msgs, c \in Conns, s \in Servers :
         m \in wire[c][s] => arrived[m] = 0 /\ s = dest[m]
    BY DEF PlaceInv
<1>d. \A m \in Msgs : stage[m] \in {"send", "write"} => stage[m] # "done"
    OBVIOUS
<1> USE DEF AnswerHolds, OnWire, Waiting
<1>1. CASE \E c \in Conns, s, p \in Servers :
              \/ Dial(c, s, p) \/ Fetch(c, s, p)
              \/ Answer(c, s, p) \/ Register(c, s, p) \/ NameFails(c, s, p)
              \/ AskPost(c, s, p) \/ Admit(c, s, p) \/ AdmitFails(c, s, p)
              \/ LoopEnds(c, s, p) \/ HandshakeEnds(c, s)
    <2>1. /\ UNCHANGED relays
          /\ \A m \in Msgs, d \in Conns, q \in Servers :
                m \in wire'[d][q] <=> m \in wire[d][q]
        BY <1>1, MessagesStay
    <2> QED
        <3>1. UNCHANGED <<pending, dest, stage, answer, arrived, dropped>>
            BY <2>1 DEF relays
        <3>2. \A m \in Msgs : OnWire(m) => OnWire(m)'
            BY <2>1, <3>1
        <3> QED
            BY <3>1, <3>2
<1>3. CASE \E s, p \in Servers : OtherSendFails(s, p)
    BY <1>3 DEF OtherSendFails, relays
<1>2. CASE \E s, p \in Servers : AddKnownPeer(s, p)
    BY <1>2 DEF AddKnownPeer, links, relays
<1>6. CASE \E c \in Conns, s, p \in Servers : Name(c, s, p)
    BY <1>6, <1>t DEF Name, Flushed
<1>12. CASE \E c \in Conns, s \in Servers : StartLoop(c, s)
    BY <1>12 DEF StartLoop
<1>14. CASE \E c \in Conns, s \in Servers, x \in Msgs \cup Control :
              Receive(c, s, x)
    <2>1. PICK c \in Conns, s \in Servers, x \in Msgs \cup Control :
             Receive(c, s, x)
        BY <1>14
    <2>2. UNCHANGED <<pending, dest, stage, answer, dropped>>
        BY <2>1 DEF Receive
    <2>3. \A m \in Msgs : m # x =>
             arrived'[m] = arrived[m] /\ (OnWire(m) => OnWire(m)')
        BY <2>1, <2>2, <1>t DEF Receive
    <2>4. x \in Msgs => arrived'[x] = 1
        BY <2>1, <1>t, <1>w DEF Receive
    <2>5. ASSUME NEW m \in Msgs
          PROVE  OnWire(m) \/ arrived[m] = 1 => (OnWire(m) \/ arrived[m] = 1)'
        BY <2>3, <2>4
    <2> QED
        BY <2>2, <2>5
<1>15. CASE \E m \in Msgs, s, p \in Servers : Relay(m, s, p)
    BY <1>15, <1>t, <1>n DEF Relay, links
<1>16. CASE \E m \in Msgs : Limit(m)
    BY <1>16, <1>t DEF Limit, links
<1>17. CASE \E m \in Msgs : Queue(m)
    BY <1>17, <1>t
       DEF Queue, links
<1>23. CASE \E m \in Msgs, s, p \in Servers : Append(m, s, p)
    BY <1>23, <1>t
       DEF Append, Queued, links
<1>24. CASE \E m \in Msgs, c \in Conns, s, p \in Servers :
               AppendTaken(m, c, s, p)
    BY <1>24, <1>t
       DEF AppendTaken, Queued, links
<1>25. CASE \E m \in Msgs, c \in Conns, s, p \in Servers :
               AppendLost(m, c, s, p)
    BY <1>25, <1>t
       DEF AppendLost, Queued, links
<1>18. CASE \E m \in Msgs, s, p \in Servers : Pick(m, s, p)
    BY <1>18, <1>t DEF Pick, links
<1>19. CASE \E m \in Msgs, s, p \in Servers : PickNothing(m, s, p)
    BY <1>19, <1>t DEF PickNothing, Reported, links
<1>20. CASE \E m \in Msgs, s, p \in Servers : Write(m, s, p)
    <2>1. PICK m \in Msgs, s \in Servers, p \in Servers : Write(m, s, p)
        BY <1>20
    <2>2. /\ UNCHANGED <<pending, dest, arrived, dropped>>
          /\ stage' = [stage EXCEPT ![m] = "done"]
          /\ \A n \in Msgs : n # m => answer'[n] = answer[n]
        BY <2>1, <1>t DEF Write, Reported
    <2>3. wire' = [wire EXCEPT ![via[m]][p] = @ \cup {m}]
             /\ via[m] \in Conns /\ p = dest[m]
        BY <2>1, <1>t DEF Write
    <2>4. \A n \in Msgs : OnWire(n) => OnWire(n)'
        BY <2>2, <2>3, <1>t
    <2>5. OnWire(m)'
        BY <2>2, <2>3, <1>t
    <2> QED
        BY <2>2, <2>4, <2>5, <1>t
<1>21. CASE \E m \in Msgs, s, p \in Servers : WriteFails(m, s, p)
    BY <1>21, <1>t DEF WriteFails, Reported
<1>22. CASE \E s \in Servers : Restart(s)
    <2>1. PICK s \in Servers : Restart(s)
        BY <1>22
    <2>2. UNCHANGED <<dest, wire, answer, arrived>>
        BY <2>1 DEF Restart
    <2>3. \A m \in Msgs : m \in dropped => m \in dropped'
        BY <2>1 DEF Restart
    <2>4. \A m \in Msgs : stage[m] \in {"send", "write"} =>
             stage'[m] \in {"send", "write"} \/ m \in dropped'
        <3> SUFFICES ASSUME NEW m \in Msgs, stage[m] \in {"send", "write"}
                     PROVE  stage'[m] \in {"send", "write"} \/ m \in dropped'
            OBVIOUS
        <3>1. CASE home[m] = s
            <4>1. m \in InMemory(s)
                BY <3>1 DEF InMemory
            <4> QED
                BY <2>1, <4>1 DEF Restart
        <3>2. CASE home[m] # s
            BY <2>1, <3>2, <1>t DEF Restart
        <3> QED
            BY <3>1, <3>2
    <2>5. \A m \in Msgs, q, r \in Servers : m \in pending[q][r] =>
             m \in pending'[q][r] \/ m \in dropped'
        BY <2>1, <1>t DEF Restart, InMemory
    <2> QED
        BY <2>2, <2>3, <2>4, <2>5
<1> QED
    BY <1>1, <1>2, <1>6, <1>12, <1>14, <1>15, <1>16, <1>17, <1>18, <1>19,
       <1>3, <1>20, <1>21, <1>22,
       <1>23, <1>24, <1>25 DEF Next, Sending

-----------------------------------------------------------------------------

\* Nothing is connected, entered or relayed in the beginning.
LEMMA InitInv == Init => IndInv
<1> SUFFICES ASSUME Init PROVE IndInv
    OBVIOUS
<1> USE NoServerAssumption, NoConnAssumption, FaultAssumption DEF Init
<1>1. TypeOK
    BY DEF TypeOK, Places, Addresses
<1>2. LinkInv
    BY DEF LinkInv
<1>3. EntryIsProved /\ EntryIsServed
    BY DEF EntryIsProved, EntryIsServed
<1>4. PlaceInv
    BY DEF PlaceInv, Waiting
<1>5. AnswerHolds
    BY DEF AnswerHolds
<1> QED
    BY <1>1, <1>2, <1>3, <1>4, <1>5 DEF IndInv

\* A step that changes nothing keeps the invariant.
LEMMA StutterInv == IndInv /\ UNCHANGED vars => IndInv'
<1> SUFFICES ASSUME IndInv, UNCHANGED vars PROVE IndInv'
    OBVIOUS
<1> USE DEF IndInv, vars, links, addresses, relays
<1>1. TypeOK'
    BY DEF TypeOK
<1>2. LinkInv'
    BY DEF LinkInv
<1>3. EntryIsProved' /\ EntryIsServed'
    BY DEF EntryIsProved, EntryIsServed
<1>4. PlaceInv'
    BY DEF PlaceInv, Waiting
<1>5. AnswerHolds'
    BY DEF AnswerHolds, OnWire, Waiting
<1> QED
    BY <1>1, <1>2, <1>3, <1>4, <1>5

\* The conjunction of the parts is an invariant of every behaviour.
THEOREM InductiveInvariant == Spec => []IndInv
<1>1. Init => IndInv
    BY InitInv
<1>2. IndInv /\ [Next]_vars => IndInv'
    <2>1. ASSUME IndInv, Next PROVE IndInv'
        BY <2>1, TypeStep, LinkStep, ProvedStep, ServedStep, PlaceStep,
           AnswerStep DEF IndInv
    <2> QED
        BY <2>1, StutterInv
<1> QED
    BY <1>1, <1>2, PTL DEF Spec

\* Every variable keeps its type.
THEOREM TypeCorrect == Spec => []TypeOK
<1>1. IndInv => TypeOK
    BY DEF IndInv
<1> QED
    BY <1>1, InductiveInvariant, PTL

\* Whatever connections come and go, whatever the table names when a message is
\* queued, flushed and written, and whichever servers restart, a message is
\* received once at most and never sent again afterwards.
THEOREM RelayOnce == Spec => []RelayedOnce
<1>1. IndInv => RelayedOnce
    <2> SUFFICES ASSUME IndInv, NEW m \in Msgs
                 PROVE  /\ arrived[m] <= 1
                        /\ arrived[m] = 1 =>
                              stage[m] = "done" /\ ~OnWire(m) /\ ~Waiting(m)
        BY DEF RelayedOnce
    <2> QED
        BY DEF IndInv, PlaceInv, OnWire, Waiting
<1> QED
    BY <1>1, InductiveInvariant, PTL

\* What relay_message has answered is true of the message, unless a send has
\* failed or the server has restarted.
THEOREM AnswersHold == Spec => []AnswerHolds
<1>1. IndInv => AnswerHolds
    BY DEF IndInv
<1> QED
    BY <1>1, InductiveInvariant, PTL

\* An entry of the table of peers names a connection with that peer, which has
\* proved who it is over it.
THEOREM EntriesProved == Spec => []EntryIsProved
<1>1. IndInv => EntryIsProved
    BY DEF IndInv
<1> QED
    BY <1>1, InductiveInvariant, PTL

\* As long as no statement on peer_servers fails, a thread receives from each
\* connection that is entered, or is about to.
THEOREM EntriesServed == Spec => []EntryIsServed
<1>1. IndInv => EntryIsServed
    BY DEF IndInv
<1> QED
    BY <1>1, InductiveInvariant, PTL

=============================================================================
