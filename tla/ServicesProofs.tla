--------------------------- MODULE ServicesProofs ---------------------------
(***********************************************************************************)
(* The services of the server, for any number of users, connections, threads,      *)
(* servers and keys: bans and the table of connections, receipts, the pins of      *)
(* peers, the administrator's sessions, the rate limiter, the load of the forum,   *)
(* the start of a server, group messages, peer queries, the decoys, and the forum. *)
(***********************************************************************************)
EXTENDS Accounts, Receipts, PeerPins, AdminAccess, RateLimiter, ForumLoad, ServerStart,
        GroupMessages, PeerQueries, Decoys, Forum, FiniteSetTheorems, WellFoundedInduction,
        TLAPS

-----------------------------------------------------------------------------
(* Accounts. *)

\* Who a connection logs in as is the UUID it has by then, and an entry of a
\* connection that has logged in as nobody else is its own.
OwnEntryInv ==
    /\ \A c \in Links : link[c].at = "enter" => link[c].uuid = link[c].whose
    /\ \A u \in People : Served(u) /\ table[u] \notin twice =>
          link[table[u]].uuid = u /\ link[table[u]].at \notin {"unused", "ended"}

\* No login of a banned user is past the ban check, but those that slipped.
NoneEnters == \A u \in People : Banned(u) /\ u \notin slipped => ~Entering(u)

\* A registration is somebody's, with a key.
RegisterInv ==
    \A c \in Links : link[c].at = "register" => link[c].whose \in People /\ link[c].new \in PublicKeys

AccountsInv == AccountsTypeOK /\ RegisterInv /\ OwnEntryInv /\ NoneEnters /\ BannedAreOut

-----------------------------------------------------------------------------

LEMMA AccountsBegin == AccountsInit => AccountsInv
BY AccountsAssumption
DEF AccountsInit, AccountsInv, AccountsTypeOK, RegisterInv, OwnEntryInv, NoneEnters, BannedAreOut, Banned,
    Served, Entering, Unused, NoOrder, LinkSteps

\* What a connection may be; the request is over, or the connection is.
LinkStates == [at : LinkSteps, uuid : People \cup {NoOne}, key : PublicKeys \cup {NoKey},
               whose : People \cup {NoOne}, new : PublicKeys \cup {NoKey}, known : BOOLEAN]

LEMMA RestedType ==
    ASSUME NEW l \in LinkStates
    PROVE  /\ Rested(l) \in LinkStates
           /\ Rested(l).at = "idle" /\ Rested(l).uuid = l.uuid /\ Rested(l).whose = NoOne
BY DEF Rested, LinkStates, LinkSteps

LEMMA UnusedType ==
    LET gone == [Unused EXCEPT !.at = "ended"]
    IN  gone \in LinkStates /\ gone.at = "ended" /\ gone.whose = NoOne
BY DEF Unused, LinkStates, LinkSteps

\* The end of a connection that handles no login and no report.
LEMMA EndedKeeps ==
    ASSUME AccountsInv, NEW c \in Links, link[c].at \notin {"enter", "evict"}, Ended(c),
           UNCHANGED <<row, dht, order, slipped, twice>>,
           located' \in [People -> PublicKeys \cup {NoKey}]
    PROVE  AccountsInv'
<1>. DEFINE gone == [Unused EXCEPT !.at = "ended"]
<1>1. /\ link \in [Links -> LinkStates]
      /\ link' = [link EXCEPT ![c] = gone]
      /\ table' = [u \in People |-> IF u = link[c].uuid /\ table[u] = c THEN NoLink ELSE table[u]]
      /\ gone \in LinkStates /\ gone.at = "ended" /\ gone.whose = NoOne
    BY UnusedType DEF Ended, AccountsInv, AccountsTypeOK, LinkStates
<1>. HIDE DEF gone
<1>2. AccountsTypeOK' /\ RegisterInv'
    BY <1>1 DEF AccountsInv, AccountsTypeOK, RegisterInv, LinkStates
<1>3. OwnEntryInv'
    BY <1>1, AccountsAssumption DEF AccountsInv, AccountsTypeOK, OwnEntryInv, Served
<1>4. NoneEnters' /\ BannedAreOut'
    BY <1>1, AccountsAssumption
    DEF AccountsInv, AccountsTypeOK, NoneEnters, BannedAreOut, Banned, Entering, Served
<1>. QED
    BY <1>2, <1>3, <1>4 DEF AccountsInv

\* A connection goes on with another request, or to the next step of one,
\* under the name it has.
LEMMA GoesOn ==
    ASSUME AccountsInv, NEW c \in Links, NEW l \in LinkStates,
           link[c].at \notin {"enter", "evict"},
           l.uuid = link[c].uuid, l.at \notin {"unused", "ended", "enter"},
           l.at = "register" => l.whose \in People /\ l.new \in PublicKeys,
           link' = [link EXCEPT ![c] = l],
           UNCHANGED <<located, dht, table, order, slipped, twice>>,
           row' \in [People -> Rows \cup {NoRow}],
           \A u \in People : Banned(u)' => Banned(u)
    PROVE  AccountsInv'
<1>1. link \in [Links -> LinkStates]
    BY DEF AccountsInv, AccountsTypeOK, LinkStates
<1>2. AccountsTypeOK' /\ RegisterInv'
    BY <1>1 DEF AccountsInv, AccountsTypeOK, RegisterInv, LinkStates
<1>3. OwnEntryInv'
    BY <1>1, AccountsAssumption DEF AccountsInv, AccountsTypeOK, OwnEntryInv, Served
<1>4. NoneEnters'
    BY <1>1 DEF AccountsInv, NoneEnters, Entering
<1>5. BannedAreOut'
    BY <1>1, AccountsAssumption DEF AccountsInv, AccountsTypeOK, BannedAreOut, Served
<1>. QED
    BY <1>2, <1>3, <1>4, <1>5 DEF AccountsInv

LEMMA ConnectKeeps ==
    ASSUME AccountsInv, NEW c \in Links, Connect(c) PROVE AccountsInv'
<1>. DEFINE l == [link[c] EXCEPT !.at = "idle"]
<1>1. /\ l \in LinkStates /\ l.uuid = link[c].uuid /\ l.at = "idle"
      /\ link' = [link EXCEPT ![c] = l]
    BY DEF Connect, AccountsInv, AccountsTypeOK, LinkStates, LinkSteps
<1>. HIDE DEF l
<1>. QED
    BY <1>1, GoesOn DEF Connect, AccountsInv, AccountsTypeOK, Banned

LEMMA EndLinkKeepsInv ==
    ASSUME AccountsInv, NEW c \in Links, EndLink(c) PROVE AccountsInv'
BY EndedKeeps DEF EndLink, Idling, AccountsInv, AccountsTypeOK

LEMMA RegisterKeeps ==
    ASSUME AccountsInv, NEW c \in Links, NEW u \in People, NEW k \in PublicKeys, Register(c, u, k)
    PROVE  AccountsInv'
<1>. DEFINE l == [link[c] EXCEPT !.at = "register", !.whose = u, !.new = k, !.known = (row[u] # NoRow)]
<1>0. link[c] \in LinkStates
    BY DEF AccountsInv, AccountsTypeOK, LinkStates
<1>1. l \in LinkStates
  <2>1. CASE row[u] # NoRow
    <3>1. [link[c] EXCEPT !.at = "register", !.whose = u, !.new = k, !.known = TRUE] \in LinkStates
        BY <1>0 DEF LinkStates, LinkSteps
    <3>2. (row[u] # NoRow) = TRUE
        BY <2>1
    <3>. QED
        BY <3>1, <3>2, Zenon
  <2>2. CASE row[u] = NoRow
    <3>1. [link[c] EXCEPT !.at = "register", !.whose = u, !.new = k, !.known = FALSE] \in LinkStates
        BY <1>0 DEF LinkStates, LinkSteps
    <3>2. (row[u] # NoRow) = FALSE
        BY <2>2
    <3>. QED
        BY <3>1, <3>2, Zenon
  <2>. QED
    BY <2>1, <2>2
<1>2. /\ l.whose = u /\ l.new = k /\ l.uuid = link[c].uuid /\ l.at = "register"
      /\ link' = [link EXCEPT ![c] = l]
    BY DEF Register, AccountsInv, AccountsTypeOK, LinkStates, LinkSteps
<1>. HIDE DEF l
<1>. QED
    BY <1>1, <1>2, GoesOn DEF Register, Idling, AccountsInv, AccountsTypeOK, Banned

LEMMA NewRowType ==
    ASSUME NEW old \in Rows \cup {NoRow}, NEW known \in BOOLEAN, NEW k \in PublicKeys
    PROVE  /\ NewRow(old, known, k) \in Rows \cup {NoRow}
           /\ known /\ old # NoRow => NewRow(old, known, k).banned = old.banned
           /\ known /\ old = NoRow => NewRow(old, known, k) = NoRow
           /\ ~known => NewRow(old, known, k).banned = FALSE
BY DEF NewRow, FreshRow, Rows

LEMMA RegisterWriteKeeps ==
    ASSUME AccountsInv, NEW c \in Links, RegisterWrite(c)
    PROVE  AccountsInv'
<1>. DEFINE u == link[c].whose
            known == link[c].known
            newRow == NewRow(row[u], known, link[c].new)
<1>1. known \in BOOLEAN /\ row[u] \in Rows \cup {NoRow} /\ row \in [People -> Rows \cup {NoRow}]
      /\ link \in [Links -> LinkStates] /\ link[c].at = "register"
      /\ u \in People /\ link[c].new \in PublicKeys
    BY DEF AccountsInv, AccountsTypeOK, RegisterInv, RegisterWrite, LinkStates
<1>2. CASE ~known /\ row[u] # NoRow
    BY <1>1, <1>2, EndedKeeps DEF RegisterWrite, AccountsInv, AccountsTypeOK
<1>3. CASE known \/ row[u] = NoRow
  <2>. DEFINE l == IF dht THEN [link[c] EXCEPT !.at = "publish"] ELSE Rested(link[c])
  <2>1. /\ row' = [row EXCEPT ![u] = newRow]
        /\ link' = [link EXCEPT ![c] = l]
        /\ UNCHANGED <<located, dht, table, order, slipped, twice>>
      BY <1>3 DEF RegisterWrite
  <2>2. l \in LinkStates /\ l.uuid = link[c].uuid /\ l.at \in {"publish", "idle"}
    <3>1. [link[c] EXCEPT !.at = "publish"] \in LinkStates
          /\ [link[c] EXCEPT !.at = "publish"].uuid = link[c].uuid
          /\ [link[c] EXCEPT !.at = "publish"].at = "publish"
        BY <1>1 DEF LinkStates, LinkSteps
    <3>. QED
        BY <1>1, <3>1, RestedType
  <2>3. /\ newRow \in Rows \cup {NoRow}
        /\ known /\ row[u] # NoRow => newRow.banned = row[u].banned
        /\ known /\ row[u] = NoRow => newRow = NoRow
        /\ ~known => newRow.banned = FALSE
      BY <1>1, NewRowType
  <2>. HIDE DEF l, newRow
  <2>4. \A v \in People : Banned(v)' => Banned(v)
      BY <1>1, <2>1, <2>3 DEF Banned
  <2>. QED
      BY <1>1, <2>1, <2>2, <2>3, <2>4, GoesOn
<1>. QED
    BY <1>2, <1>3

LEMMA PublishKeeps ==
    ASSUME AccountsInv, NEW c \in Links, PublishKey(c) \/ StorePubkey(c) PROVE AccountsInv'
<1>1. located' \in [People -> PublicKeys \cup {NoKey}]
    BY DEF PublishKey, StorePubkey, AccountsInv, AccountsTypeOK
<1>. QED
    BY <1>1, EndedKeeps DEF PublishKey, StorePubkey, Idling

LEMMA LoginKeeps ==
    ASSUME AccountsInv, NEW c \in Links, NEW u \in People, Login(c, u) PROVE AccountsInv'
<1>. DEFINE l == [link[c] EXCEPT !.at = "login", !.whose = u, !.new = row[u].key]
<1>1. row[u] \in Rows /\ link[c] \in LinkStates
    BY DEF Login, AccountsInv, AccountsTypeOK, LinkStates
<1>2. /\ l \in LinkStates /\ l.uuid = link[c].uuid /\ l.at = "login"
    BY <1>1 DEF LinkStates, LinkSteps, Rows
<1>3. link' = [link EXCEPT ![c] = l]
    BY DEF Login
<1>4. /\ link[c].at = "idle" /\ UNCHANGED <<row, located, dht, table, order, slipped, twice>>
      /\ row \in [People -> Rows \cup {NoRow}] /\ \A v \in People : Banned(v)' => Banned(v)
    BY DEF Login, Idling, AccountsInv, AccountsTypeOK, Banned
<1>. HIDE DEF l
<1>. QED
    BY <1>2, <1>3, <1>4, GoesOn

\* Past the check whoever is banned is not, and a second name is noted.
LEMMA LoginCheckKeeps ==
    ASSUME AccountsInv, NEW c \in Links, LoginCheck(c) PROVE AccountsInv'
<1>. DEFINE u == link[c].whose
<1>1. link[c] \in LinkStates /\ link \in [Links -> LinkStates] /\ link[c].at = "login"
    BY DEF LoginCheck, AccountsInv, AccountsTypeOK, LinkStates
<1>2. CASE Banned(u)
  <2>1. link' = [link EXCEPT ![c] = Rested(link[c])]
    BY <1>2 DEF LoginCheck
  <2>. QED
    BY <1>1, <1>2, <2>1, RestedType, GoesOn
    DEF LoginCheck, AccountsInv, AccountsTypeOK, Banned
<1>3. CASE ~Banned(u)
  <2>. DEFINE l == [link[c] EXCEPT !.at = "enter", !.uuid = u, !.key = link[c].new]
  <2>1. /\ link' = [link EXCEPT ![c] = l]
        /\ twice' = IF link[c].uuid \in {NoOne, u} THEN twice ELSE twice \cup {c}
        /\ UNCHANGED <<row, located, dht, table, order, slipped>>
    BY <1>3 DEF LoginCheck
  <2>2. l \in LinkStates /\ l.at = "enter" /\ l.uuid = u /\ l.whose = u
    BY <1>1 DEF LinkStates, LinkSteps
  <2>. HIDE DEF l
  <2>3. AccountsTypeOK' /\ RegisterInv'
    BY <1>1, <2>1, <2>2 DEF AccountsInv, AccountsTypeOK, RegisterInv, LinkStates
  <2>4. OwnEntryInv'
    BY <1>1, <2>1, <2>2, AccountsAssumption DEF AccountsInv, AccountsTypeOK, OwnEntryInv, Served
  <2>5. NoneEnters'
    BY <1>1, <1>3, <2>1, <2>2 DEF AccountsInv, NoneEnters, Entering, Banned
  <2>6. BannedAreOut'
    BY <1>1, <2>1, <2>2 DEF AccountsInv, AccountsTypeOK, BannedAreOut, Served, Banned
  <2>. QED
    BY <2>3, <2>4, <2>5, <2>6 DEF AccountsInv
<1>. QED
    BY <1>2, <1>3

LEMMA EnterKeeps ==
    ASSUME AccountsInv, NEW c \in Links, Enter(c) PROVE AccountsInv'
<1>. DEFINE u == link[c].whose
            l == Rested(link[c])
<1>1. /\ link \in [Links -> LinkStates] /\ link[c].at = "enter" /\ link[c].uuid = u
      /\ link' = [link EXCEPT ![c] = l] /\ table' = [table EXCEPT ![u] = c]
      /\ l \in LinkStates /\ l.at = "idle" /\ l.uuid = u /\ l.whose = NoOne
      /\ UNCHANGED <<row, located, dht, order, slipped, twice>>
  <2>1. link \in [Links -> LinkStates]
    BY DEF AccountsInv, AccountsTypeOK, LinkStates
  <2>. QED
    BY <2>1, RestedType DEF Enter, AccountsInv, OwnEntryInv
<1>. HIDE DEF l
<1>2. AccountsTypeOK' /\ RegisterInv'
    BY <1>1 DEF AccountsInv, AccountsTypeOK, RegisterInv, LinkStates
<1>3. OwnEntryInv'
    BY <1>1, AccountsAssumption DEF AccountsInv, AccountsTypeOK, OwnEntryInv, Served
<1>4. NoneEnters'
    BY <1>1 DEF AccountsInv, NoneEnters, Entering, Banned
<1>5. BannedAreOut'
  <2>1. u \in People => ~Banned(u) \/ u \in slipped
    BY <1>1 DEF AccountsInv, NoneEnters, Entering
  <2>. QED
    BY <1>1, <2>1, AccountsAssumption DEF AccountsInv, AccountsTypeOK, BannedAreOut, Served, Banned
<1>. QED
    BY <1>2, <1>3, <1>4, <1>5 DEF AccountsInv

\* The ban is written: a login past the check is noted.
LEMMA MarkedRowFacts ==
    ASSUME AccountsInv, NEW u \in People, MarkedRow(u)
    PROVE  /\ row' \in [People -> Rows \cup {NoRow}] /\ slipped' \subseteq People
           /\ \A v \in People : Banned(v)' => Banned(v) \/ v = u
           /\ slipped \subseteq slipped' /\ (Entering(u) => u \in slipped')
BY DEF MarkedRow, AccountsInv, AccountsTypeOK, Rows, Banned

LEMMA CompromisedKeeps ==
    ASSUME AccountsInv, NEW c \in Links, NEW u \in People, Compromised(c, u) PROVE AccountsInv'
<1>. DEFINE l == [link[c] EXCEPT !.at = "evict", !.whose = u]
<1>1. /\ link \in [Links -> LinkStates] /\ link[c].at = "idle" /\ link' = [link EXCEPT ![c] = l]
      /\ l \in LinkStates /\ l.at = "evict" /\ l.uuid = link[c].uuid /\ l.whose = u
      /\ UNCHANGED <<located, dht, table, order, twice>>
    BY DEF Compromised, Idling, AccountsInv, AccountsTypeOK, LinkStates, LinkSteps
<1>. HIDE DEF l
<1>2. /\ row' \in [People -> Rows \cup {NoRow}] /\ slipped' \subseteq People
      /\ \A v \in People : Banned(v)' => Banned(v) \/ v = u
      /\ slipped \subseteq slipped' /\ (Entering(u) => u \in slipped')
    BY MarkedRowFacts DEF Compromised
<1>3. AccountsTypeOK' /\ RegisterInv'
    BY <1>1, <1>2 DEF AccountsInv, AccountsTypeOK, RegisterInv, LinkStates
<1>4. OwnEntryInv'
    BY <1>1, AccountsAssumption DEF AccountsInv, AccountsTypeOK, OwnEntryInv, Served
<1>5. NoneEnters'
    BY <1>1, <1>2 DEF AccountsInv, NoneEnters, Entering
<1>6. BannedAreOut'
    BY <1>1, <1>2 DEF AccountsInv, BannedAreOut, Served
<1>. QED
    BY <1>3, <1>4, <1>5, <1>6 DEF AccountsInv

LEMMA EvictKeeps ==
    ASSUME AccountsInv, NEW c \in Links, Evict(c) PROVE AccountsInv'
<1>. DEFINE u == link[c].whose
            l == Rested(link[c])
<1>1. /\ link \in [Links -> LinkStates] /\ link[c].at = "evict"
      /\ link' = [link EXCEPT ![c] = l] /\ table' = [table EXCEPT ![u] = NoLink]
      /\ l \in LinkStates /\ l.at = "idle" /\ l.uuid = link[c].uuid
      /\ UNCHANGED <<row, located, dht, order, slipped, twice>>
  <2>1. link \in [Links -> LinkStates]
    BY DEF AccountsInv, AccountsTypeOK, LinkStates
  <2>. QED
    BY <2>1, RestedType DEF Evict
<1>. HIDE DEF l
<1>2. AccountsTypeOK' /\ RegisterInv'
    BY <1>1 DEF AccountsInv, AccountsTypeOK, RegisterInv, LinkStates
<1>3. OwnEntryInv'
    BY <1>1, AccountsAssumption DEF AccountsInv, AccountsTypeOK, OwnEntryInv, Served
<1>4. NoneEnters'
    BY <1>1 DEF AccountsInv, NoneEnters, Entering, Banned
<1>5. BannedAreOut'
    BY <1>1, AccountsAssumption DEF AccountsInv, AccountsTypeOK, BannedAreOut, Served, Banned
<1>. QED
    BY <1>2, <1>3, <1>4, <1>5 DEF AccountsInv

-----------------------------------------------------------------------------
(* The administrator's commands. *)

Orders == [at : {"none", "close", "delete"}, whose : People \cup {NoOne}]

LEMMA BanUserKeeps ==
    ASSUME AccountsInv, NEW o \in Operators, NEW u \in People, BanUser(o, u) PROVE AccountsInv'
<1>1. /\ order \in [Operators -> Orders] /\ order[o].whose = NoOne
      /\ order' = [order EXCEPT ![o] = IF Served(u) THEN [at |-> "close", whose |-> u] ELSE NoOrder]
      /\ UNCHANGED <<located, dht, table, link, twice>>
    BY DEF BanUser, Free, Ordered, NoOrder, AccountsInv, AccountsTypeOK, Orders
<1>2. /\ row' \in [People -> Rows \cup {NoRow}] /\ slipped' \subseteq People
      /\ \A v \in People : Banned(v)' => Banned(v) \/ v = u
      /\ slipped \subseteq slipped' /\ (Entering(u) => u \in slipped')
    BY MarkedRowFacts DEF BanUser
<1>3. order' \in [Operators -> Orders]
    BY <1>1 DEF Orders, NoOrder
<1>4. AccountsTypeOK' /\ RegisterInv' /\ OwnEntryInv'
    BY <1>1, <1>2, <1>3
    DEF AccountsInv, AccountsTypeOK, RegisterInv, OwnEntryInv, Orders, Served
<1>5. NoneEnters'
    BY <1>1, <1>2 DEF AccountsInv, NoneEnters, Entering
<1>6. BannedAreOut'
  <2>1. Served(u) => order'[o].whose = u
    BY <1>1
  <2>2. \A v \in People, p \in Operators : order[p].whose = v => order'[p].whose = v
    BY <1>1, AccountsAssumption
  <2>. QED
    BY <1>1, <1>2, <2>1, <2>2 DEF AccountsInv, BannedAreOut, Served
<1>. QED
    BY <1>4, <1>5, <1>6 DEF AccountsInv

LEMMA KickUserKeeps ==
    ASSUME AccountsInv, NEW o \in Operators, NEW u \in People, KickUser(o, u) PROVE AccountsInv'
<1>1. /\ order \in [Operators -> Orders] /\ order[o].whose = NoOne
      /\ order' = [order EXCEPT ![o] = [at |-> "close", whose |-> u]]
      /\ UNCHANGED <<row, located, dht, table, link, slipped, twice>>
    BY DEF KickUser, Free, Ordered, NoOrder, AccountsInv, AccountsTypeOK, Orders
<1>2. order' \in [Operators -> Orders]
    BY <1>1 DEF Orders
<1>3. AccountsTypeOK' /\ RegisterInv' /\ OwnEntryInv' /\ NoneEnters'
    BY <1>1, <1>2
    DEF AccountsInv, AccountsTypeOK, RegisterInv, OwnEntryInv, NoneEnters, Orders, Served, Entering, Banned
<1>4. BannedAreOut'
  <2>1. \A v \in People, p \in Operators : order[p].whose = v => order'[p].whose = v
    BY <1>1, AccountsAssumption
  <2>. QED
    BY <1>1, <2>1 DEF AccountsInv, BannedAreOut, Served, Banned
<1>. QED
    BY <1>3, <1>4 DEF AccountsInv

LEMMA CloseSocketKeeps ==
    ASSUME AccountsInv, NEW o \in Operators, CloseSocket(o) PROVE AccountsInv'
<1>1. /\ order \in [Operators -> Orders] /\ order' = [order EXCEPT ![o].at = "delete"]
      /\ UNCHANGED <<row, located, dht, table, link, slipped, twice>>
    BY DEF CloseSocket, AccountsInv, AccountsTypeOK, Orders
<1>2. order' \in [Operators -> Orders] /\ \A p \in Operators : order'[p].whose = order[p].whose
    BY <1>1 DEF Orders
<1>. QED
    BY <1>1, <1>2
    DEF AccountsInv, AccountsTypeOK, RegisterInv, OwnEntryInv, NoneEnters, BannedAreOut, Orders,
        Served, Entering, Banned

LEMMA DeleteEntryKeeps ==
    ASSUME AccountsInv, NEW o \in Operators, DeleteEntry(o) PROVE AccountsInv'
<1>. DEFINE u == order[o].whose
<1>1. /\ order \in [Operators -> Orders] /\ order' = [order EXCEPT ![o] = NoOrder]
      /\ table' = [table EXCEPT ![u] = NoLink]
      /\ UNCHANGED <<row, located, dht, link, slipped, twice>>
    BY DEF DeleteEntry, AccountsInv, AccountsTypeOK, Orders
<1>2. AccountsTypeOK' /\ RegisterInv'
    BY <1>1 DEF AccountsInv, AccountsTypeOK, RegisterInv, Orders, NoOrder
<1>3. OwnEntryInv' /\ NoneEnters'
    BY <1>1, AccountsAssumption
    DEF AccountsInv, AccountsTypeOK, OwnEntryInv, NoneEnters, Served, Entering, Banned
<1>4. BannedAreOut'
    BY <1>1, AccountsAssumption DEF AccountsInv, AccountsTypeOK, BannedAreOut, Served, Banned
<1>. QED
    BY <1>2, <1>3, <1>4 DEF AccountsInv

\* A row that is not banned from then on.
LEMMA ClearedKeeps ==
    ASSUME AccountsInv, NEW u \in People, NEW r \in Rows \cup {NoRow},
           row' = [row EXCEPT ![u] = r], r = NoRow \/ ~r.banned,
           slipped' = slipped \ {u} \/ slipped' = slipped,
           UNCHANGED <<located, dht, table, link, order, twice>>
    PROVE  AccountsInv'
<1>1. \A v \in People : Banned(v)' => Banned(v) /\ v # u
    BY DEF Banned, AccountsInv, AccountsTypeOK
<1>. QED
    BY <1>1
    DEF AccountsInv, AccountsTypeOK, RegisterInv, OwnEntryInv, NoneEnters, BannedAreOut,
        Served, Entering

LEMMA UnbanUserKeeps ==
    ASSUME AccountsInv, NEW u \in People, UnbanUser(u) PROVE AccountsInv'
<1>. DEFINE r == [row[u] EXCEPT !.banned = FALSE]
<1>1. r \in Rows /\ r.banned = FALSE /\ row' = [row EXCEPT ![u] = r]
    BY DEF UnbanUser, Banned, AccountsInv, AccountsTypeOK, Rows
<1>. HIDE DEF r
<1>. QED
    BY <1>1, ClearedKeeps DEF UnbanUser

LEMMA DeleteUserKeeps ==
    ASSUME AccountsInv, NEW u \in People, DeleteUser(u) PROVE AccountsInv'
BY ClearedKeeps DEF DeleteUser

LEMMA CreateUserKeeps ==
    ASSUME AccountsInv, NEW u \in People, NEW k \in PublicKeys, CreateUser(u, k) PROVE AccountsInv'
<1>1. FreshRow(k) \in Rows /\ ~FreshRow(k).banned
    BY DEF FreshRow, Rows
<1>. QED
    BY <1>1, ClearedKeeps DEF CreateUser

LEMMA LapseKeeps ==
    ASSUME AccountsInv, NEW u \in People, Lapse(u) PROVE AccountsInv'
BY DEF Lapse, AccountsInv, AccountsTypeOK, RegisterInv, OwnEntryInv, NoneEnters, BannedAreOut,
       Served, Entering, Banned

LEMMA AccountsStep == AccountsInv /\ [AccountsNext]_accountsVars => AccountsInv'
<1>. SUFFICES ASSUME AccountsInv, [AccountsNext]_accountsVars PROVE AccountsInv'
    OBVIOUS
<1>1. ASSUME NEW c \in Links, LinkStep(c) PROVE AccountsInv'
    BY <1>1, ConnectKeeps, EndLinkKeepsInv, RegisterKeeps, RegisterWriteKeeps, PublishKeeps,
       LoginKeeps, LoginCheckKeeps, EnterKeeps, CompromisedKeeps, EvictKeeps DEF LinkStep
<1>2. ASSUME NEW o \in Operators, NEW u \in People, BanUser(o, u) \/ KickUser(o, u)
      PROVE AccountsInv'
    BY <1>2, BanUserKeeps, KickUserKeeps
<1>3. ASSUME NEW o \in Operators, CloseSocket(o) \/ DeleteEntry(o) PROVE AccountsInv'
    BY <1>3, CloseSocketKeeps, DeleteEntryKeeps
<1>4. ASSUME NEW u \in People, UnbanUser(u) \/ DeleteUser(u) \/ Lapse(u) PROVE AccountsInv'
    BY <1>4, UnbanUserKeeps, DeleteUserKeeps, LapseKeeps
<1>5. ASSUME NEW u \in People, NEW k \in PublicKeys, CreateUser(u, k) PROVE AccountsInv'
    BY <1>5, CreateUserKeeps
<1>6. CASE UNCHANGED accountsVars
    BY <1>6
    DEF accountsVars, AccountsInv, AccountsTypeOK, RegisterInv, OwnEntryInv, NoneEnters,
        BannedAreOut, Served, Entering, Banned
<1>. QED
    BY <1>1, <1>2, <1>3, <1>4, <1>5, <1>6 DEF AccountsNext

\* Bans: whoever is banned is not in the table of connections once the command
\* or report is done, for every number of users, connections and operators.
THEOREM BansHold == AccountsSpec => []BannedAreOut
<1>1. AccountsInv => BannedAreOut
    BY DEF AccountsInv
<1>. QED
    BY AccountsBegin, AccountsStep, <1>1, PTL DEF AccountsSpec

\* Entries: none outlives its connection, unless that logged in as two users.
THEOREM EntriesEndWithLinks == AccountsSpec => []EntriesEnd
<1>1. AccountsInv => EntriesEnd
    BY DEF AccountsInv, OwnEntryInv, EntriesEnd
<1>. QED
    BY AccountsBegin, AccountsStep, <1>1, PTL DEF AccountsSpec

-----------------------------------------------------------------------------
(* Receipts. *)

\* A name is given once: none that is in use is at or past the clock's second
\* and the count.
Given(n) == n[1] < second \/ (n[1] = second /\ n[2] <= count)

\* What clients hold or will get has a name given, and the map knows its writer
\* under it, or nobody.
MailInv == \A m \in held \cup queue : Given(m.name) /\ senderOf[m.name] \in {NoWriter, m.from}

\* A connection that is served is somebody's.
ThreadInv == \A w \in threads : user[w] \in Writers

ReceiptsInv == ReceiptsTypeOK /\ MailInv /\ ThreadInv /\ ReceiptToSender

LEMMA ReceiptsBegin == ReceiptsInit => ReceiptsInv
BY ReceiptsAssumption
DEF ReceiptsInit, ReceiptsInv, ReceiptsTypeOK, MailInv, ThreadInv, ReceiptToSender

LEMMA LogInKeeps ==
    ASSUME ReceiptsInv, NEW w \in Wires, NEW u \in Writers, LogIn(w, u) PROVE ReceiptsInv'
BY ReceiptsAssumption
DEF LogIn, ReceiptsInv, ReceiptsTypeOK, MailInv, ThreadInv, ReceiptToSender, Given

LEMMA NameIsNew ==
    ASSUME ReceiptsInv, sent < MaxSent
    PROVE  NewName \in MailNames /\ ~Given(NewName)
BY ReceiptsAssumption DEF ReceiptsInv, ReceiptsTypeOK, NewName, MailNames, Given

LEMMA SendKeeps ==
    ASSUME ReceiptsInv, NEW w \in Wires, NEW u \in Writers, Send(w, u) \/ SendAway(w)
    PROVE  ReceiptsInv'
<1>. DEFINE mail == [name |-> NewName, from |-> user[w], to |-> u]
<1>1. /\ w \in threads /\ sent < MaxSent /\ sent' = sent + 1 /\ count' = count + 1
      /\ senderOf' = [senderOf EXCEPT ![NewName] = user[w]]
      /\ UNCHANGED <<second, online, user, threads, confirmed>>
      /\ held' \in {held, held \cup {mail}} /\ queue' \in {queue, queue \cup {mail}}
    BY DEF Send, SendAway
<1>2. user[w] \in Writers /\ NewName \in MailNames /\ ~Given(NewName)
    BY <1>1, NameIsNew DEF ReceiptsInv, ThreadInv
<1>3. mail \in Mail /\ mail.name = NewName /\ mail.from = user[w]
    BY <1>2 DEF Mail
<1>4. \A n \in MailNames : n = NewName \/ Given(n) => Given(n)'
    BY <1>1 DEF ReceiptsInv, ReceiptsTypeOK, NewName, MailNames, Given
<1>. HIDE DEF mail
<1>5. ReceiptsTypeOK'
  <2>1. held' \subseteq Mail /\ queue' \subseteq Mail
    BY <1>1, <1>3 DEF ReceiptsInv, ReceiptsTypeOK
  <2>. QED
    BY <1>1, <1>2, <2>1, ReceiptsAssumption DEF ReceiptsInv, ReceiptsTypeOK
<1>6. MailInv'
  <2>. SUFFICES ASSUME NEW m \in held' \cup queue'
                PROVE  Given(m.name)' /\ senderOf'[m.name] \in {NoWriter, m.from}
    BY DEF MailInv
  <2>1. CASE m = mail
    <3>1. Given(m.name)'
        BY <2>1, <1>2, <1>3, <1>4
    <3>2. senderOf'[m.name] = m.from
        BY <2>1, <1>1, <1>2, <1>3 DEF ReceiptsInv, ReceiptsTypeOK
    <3>. QED
        BY <3>1, <3>2
  <2>2. CASE m \in held \cup queue
    <3>1. m.name \in MailNames /\ Given(m.name) /\ senderOf[m.name] \in {NoWriter, m.from}
        BY <2>2 DEF ReceiptsInv, ReceiptsTypeOK, MailInv, Mail
    <3>. QED
        BY <3>1, <1>1, <1>2, <1>4 DEF ReceiptsInv, ReceiptsTypeOK
  <2>. QED
    BY <2>1, <2>2, <1>1
<1>. QED
    BY <1>1, <1>5, <1>6 DEF ReceiptsInv, ThreadInv, ReceiptToSender

LEMMA ReceiptKeeps ==
    ASSUME ReceiptsInv, NEW w \in Wires, NEW m \in held, NEW named \in BOOLEAN, Receipt(w, m, named)
    PROVE  ReceiptsInv'
<1>. DEFINE to == IF named THEN m.from ELSE senderOf[m.name]
<1>1. /\ to # NoWriter
      /\ confirmed' = confirmed \cup {[to |-> to, from |-> m.from]}
      /\ UNCHANGED <<second, count, senderOf, online, user, threads, queue, held, sent>>
    BY DEF Receipt
<1>2. m \in Mail /\ to = m.from
    BY <1>1 DEF ReceiptsInv, ReceiptsTypeOK, MailInv
<1>3. m.from \in Writers
    BY <1>2 DEF Mail
<1>. HIDE DEF to
<1>. QED
    BY <1>1, <1>2, <1>3
    DEF ReceiptsInv, ReceiptsTypeOK, MailInv, ThreadInv, ReceiptToSender, Given

LEMMA DisconnectKeeps ==
    ASSUME ReceiptsInv, NEW w \in Wires, Disconnect(w) PROVE ReceiptsInv'
<1>1. ReceiptsTypeOK'
    BY ReceiptsAssumption DEF Disconnect, ReceiptsInv, ReceiptsTypeOK
<1>2. MailInv'
    BY DEF Disconnect, ReceiptsInv, ReceiptsTypeOK, MailInv, Mail, Given
<1>. QED
    BY <1>1, <1>2 DEF Disconnect, ReceiptsInv, ThreadInv, ReceiptToSender

LEMMA SecondKeeps == ASSUME ReceiptsInv, Second \/ ServerRestart PROVE ReceiptsInv'
<1>1. ReceiptsTypeOK'
    BY ReceiptsAssumption DEF Second, ServerRestart, ReceiptsInv, ReceiptsTypeOK
<1>2. \A n \in MailNames : Given(n) => Given(n)'
    BY ReceiptsAssumption
    DEF Second, ServerRestart, ReceiptsInv, ReceiptsTypeOK, MailNames, Given
<1>3. \A m \in held \cup queue : m.name \in MailNames
    BY DEF ReceiptsInv, ReceiptsTypeOK, Mail
<1>4. MailInv'
    BY <1>2, <1>3 DEF Second, ServerRestart, ReceiptsInv, MailInv
<1>. QED
    BY <1>1, <1>4 DEF Second, ServerRestart, ReceiptsInv, ThreadInv, ReceiptToSender

LEMMA ReceiptsStep == ReceiptsInv /\ [ReceiptsNext]_receiptVars => ReceiptsInv'
<1>1. ASSUME ReceiptsInv, UNCHANGED receiptVars PROVE ReceiptsInv'
    BY <1>1 DEF receiptVars, ReceiptsInv, ReceiptsTypeOK, MailInv, ThreadInv, ReceiptToSender, Given
<1>2. ASSUME ReceiptsInv, ReceiptsNext PROVE ReceiptsInv'
  <2>1. ASSUME NEW w \in Wires, SendAway(w) PROVE ReceiptsInv'
    <3>1. user[w] \in Writers
        BY <1>2, <2>1 DEF SendAway, ReceiptsInv, ThreadInv
    <3>. QED
        BY <1>2, <2>1, <3>1, SendKeeps
  <2>. QED
    BY <1>2, <2>1, LogInKeeps, SendKeeps, ReceiptKeeps, DisconnectKeeps, SecondKeeps
    DEF ReceiptsNext
<1>. QED
    BY <1>1, <1>2

\* Receipts: whoever gets one wrote the message, over any number of messages,
\* connections and restarts of the server.
THEOREM ReceiptsReachSenders == ReceiptsSpec => []ReceiptToSender
<1>1. ReceiptsInv => ReceiptToSender
    BY DEF ReceiptsInv
<1>. QED
    BY ReceiptsBegin, ReceiptsStep, <1>1, PTL DEF ReceiptsSpec

-----------------------------------------------------------------------------
(* PeerPins: the first key pinned of a node stays the only one trusted. *)

Handshaking(h) == check[h].at # "idle"

\* A handshake that found its node's pin in place has nothing to remember; one
\* that is alone met no other key of its node and no reset is under way, and
\* what it has pinned so far is what memory and table hold.
AloneInv ==
    \A h \in Handshakes :
        /\ check[h].at = "touch" => ~check[h].first
        /\ Handshaking(h) /\ check[h].alone =>
              /\ resetting = "no"
              /\ \A g \in Handshakes \ {h} : Handshaking(g) /\ check[g].node = check[h].node =>
                    check[g].key = check[h].key
              /\ check[h].first /\ check[h].at \in {"write", "trust"} =>
                    pinned[check[h].node] = check[h].key
              /\ check[h].first /\ check[h].at = "trust" =>
                    stored[check[h].node] = check[h].key

\* A firm pin is the one in memory and in the table, and no handshake under way
\* has another key.
FirmInv ==
    \A n \in Nodes : firm[n] # NoPin =>
        /\ resetting = "no" /\ pinned[n] = firm[n] /\ stored[n] = firm[n]
        /\ \A h \in Handshakes : Handshaking(h) /\ check[h].node = n => check[h].key = firm[n]

PinsInv == PinsTypeOK /\ AloneInv /\ FirmInv

-----------------------------------------------------------------------------

LEMMA PinsBegin == PinsInit => PinsInv
BY PinAssumption DEF PinsInit, PinsInv, PinsTypeOK, AloneInv, FirmInv, Unpinned, NoCheck, Handshaking

LEMMA BeginKeeps ==
    ASSUME PinsInv, NEW h \in Handshakes, NEW n \in Nodes, NEW k \in NodeKeys, BeginCheck(h, n, k)
    PROVE  PinsInv'
<1>. DEFINE Others == Rivals(h, n, k)
<1>1. /\ check[h].at = "idle" /\ pinned[n] \in {NoPin, k}
      /\ check'[h] = Check(n, k, IF pinned[n] = NoPin THEN "remember" ELSE "touch",
                           pinned[n] = NoPin, Others = {} /\ resetting = "no")
      /\ \A g \in Others : check'[g] = [check[g] EXCEPT !.alone = FALSE]
      /\ \A g \in Handshakes : g # h /\ g \notin Others => check'[g] = check[g]
      /\ DOMAIN check' = Handshakes
      /\ UNCHANGED <<pinned, stored, hasTable, resetting, firm, trusted, restarts>>
    BY DEF PinsInv, PinsTypeOK, BeginCheck, CheckAt, Rivals
<1>2. \A g \in Others : /\ check[g] \in [node : Nodes, key : NodeKeys, at : {"remember", "write", "touch", "trust"},
                                         first : BOOLEAN, alone : BOOLEAN]
                        /\ check'[g].node = check[g].node /\ check'[g].key = check[g].key
                        /\ check'[g].at = check[g].at /\ check'[g].first = check[g].first
                        /\ check'[g].alone = FALSE
    BY <1>1 DEF PinsInv, PinsTypeOK, CheckAt, NoCheck, Rivals
<1>0. check'[h] = Check(n, k, IF pinned[n] = NoPin THEN "remember" ELSE "touch",
                        pinned[n] = NoPin, Others = {} /\ resetting = "no")
    BY <1>1
<1>a. /\ check'[h].node = n /\ check'[h].key = k
      /\ check'[h].at = IF pinned[n] = NoPin THEN "remember" ELSE "touch"
    BY <1>0 DEF Check
<1>e. check'[h].first = (pinned[n] = NoPin)
    BY <1>0 DEF Check
<1>f. check'[h].alone = (Others = {} /\ resetting = "no")
    BY <1>0 DEF Check
<1>b. check'[h].at = "touch" => ~check'[h].first
    BY <1>a, <1>e
<1>c. check'[h].alone => Others = {} /\ resetting = "no"
    BY <1>f
<1>d. check'[h].first => check'[h].at = "remember"
    BY <1>a, <1>e
<1>3. PinsTypeOK'
  <2>1. check' \in [Handshakes -> {NoCheck} \cup
           [node : Nodes, key : NodeKeys, at : {"remember", "write", "touch", "trust"},
            first : BOOLEAN, alone : BOOLEAN]]
    <3>1. \A g \in Handshakes : check'[g] \in {NoCheck} \cup
           [node : Nodes, key : NodeKeys, at : {"remember", "write", "touch", "trust"},
            first : BOOLEAN, alone : BOOLEAN]
      <4>. SUFFICES ASSUME NEW g \in Handshakes
                    PROVE  check'[g] \in {NoCheck} \cup
           [node : Nodes, key : NodeKeys, at : {"remember", "write", "touch", "trust"},
            first : BOOLEAN, alone : BOOLEAN]
        OBVIOUS
      <4>1. CASE g = h
        <5>1. (pinned[n] = NoPin) \in BOOLEAN /\ (Others = {} /\ resetting = "no") \in BOOLEAN
            OBVIOUS
        <5>. QED
            BY <4>1, <5>1, <1>1 DEF Check
      <4>2. CASE g \in Others
        BY <4>2, <1>1, <1>2
      <4>3. CASE g # h /\ g \notin Others
        BY <4>3, <1>1 DEF PinsInv, PinsTypeOK
      <4>. QED
        BY <4>1, <4>2, <4>3
    <3>2. check' = [g \in Handshakes |-> check'[g]]
        BY DEF BeginCheck
    <3>. QED
        BY <3>1, <3>2
  <2>. QED
    BY <1>1, <2>1 DEF PinsInv, PinsTypeOK
<1>4. \A g \in Handshakes : g # h /\ g \notin Others =>
          ~Handshaking(g) \/ check[g].node # n \/ check[g].key = k
    BY DEF Handshaking, CheckAt, Rivals
<1>5. AloneInv'
  <2>1. ASSUME NEW g \in Handshakes, check'[g].at = "touch" PROVE ~check'[g].first
    <3>1. CASE g = h
        BY <3>1, <2>1, <1>b
    <3>2. CASE g # h
        BY <3>2, <2>1, <1>1, <1>2 DEF PinsInv, AloneInv
    <3>. QED
        BY <3>1, <3>2
  <2>2. ASSUME NEW f \in Handshakes, Handshaking(f)', check'[f].alone
        PROVE  /\ resetting' = "no"
               /\ \A g \in Handshakes \ {f} : Handshaking(g)' /\ check'[g].node = check'[f].node =>
                    check'[g].key = check'[f].key
               /\ check'[f].first /\ check'[f].at \in {"write", "trust"} =>
                    pinned'[check'[f].node] = check'[f].key
               /\ check'[f].first /\ check'[f].at = "trust" =>
                    stored'[check'[f].node] = check'[f].key
    <3>1. CASE f = h
      <4>1. Others = {} /\ resetting = "no"
        BY <3>1, <2>2, <1>c
      <4>2. check'[h].node = n /\ (check'[h].first => check'[h].at = "remember")
        BY <1>a, <1>d
      <4>3. \A g \in Handshakes \ {f} : Handshaking(g)' /\ check'[g].node = check'[f].node =>
                check'[g].key = check'[f].key
        BY <3>1, <4>1, <4>2, <1>1, <1>a, <1>4 DEF Handshaking
      <4>. QED
        BY <3>1, <4>1, <4>2, <4>3, <1>1
    <3>2. CASE f # h
      <4>1. /\ f \notin Others /\ check'[f] = check[f] /\ Handshaking(f) /\ check[f].alone
            /\ check[f].node # n \/ check[f].key = k
        BY <3>2, <2>2, <1>1, <1>2, <1>4 DEF Handshaking
      <4>2. \A g \in Handshakes \ {f} : Handshaking(g)' /\ check'[g].node = check'[f].node =>
                check'[g].key = check'[f].key
        BY <4>1, <1>1, <1>a, <1>2 DEF PinsInv, AloneInv, Check, Handshaking
      <4>. QED
        BY <4>1, <4>2, <1>1 DEF PinsInv, AloneInv
    <3>. QED
        BY <3>1, <3>2
  <2>. QED
    BY <2>1, <2>2 DEF AloneInv
<1>6. FirmInv'
    BY <1>1, <1>2, PinAssumption DEF PinsInv, FirmInv, Handshaking, Check
<1>. QED
    BY <1>3, <1>5, <1>6 DEF PinsInv

\* What a handshake under way is.
HandshakeJobs == [node : Nodes, key : NodeKeys, at : {"remember", "write", "touch", "trust"},
         first : BOOLEAN, alone : BOOLEAN]

LEMMA RememberKeeps ==
    ASSUME PinsInv, NEW h \in Handshakes, Remember(h) PROVE PinsInv'
<1>1. /\ check[h] \in HandshakeJobs /\ check[h].at = "remember" /\ Handshaking(h)
      /\ check' = [check EXCEPT ![h].at = "write"]
      /\ check'[h] = [check[h] EXCEPT !.at = "write"]
      /\ pinned' = [pinned EXCEPT ![check[h].node] = check[h].key]
    BY DEF Remember, CheckAt, PinsInv, PinsTypeOK, HandshakeJobs, NoCheck, Handshaking
<1>2. PinsTypeOK'
    BY <1>1 DEF Remember, PinsInv, PinsTypeOK, HandshakeJobs
<1>3. AloneInv'
    BY <1>1 DEF Remember, PinsInv, PinsTypeOK, AloneInv, Handshaking, HandshakeJobs
<1>4. FirmInv'
    BY <1>1 DEF Remember, PinsInv, PinsTypeOK, FirmInv, Handshaking, HandshakeJobs
<1>. QED
    BY <1>2, <1>3, <1>4 DEF PinsInv

LEMMA WritePinKeeps ==
    ASSUME PinsInv, NEW h \in Handshakes, WritePin(h) PROVE PinsInv'
<1>1. /\ check[h] \in HandshakeJobs /\ check[h].at = "write" /\ Handshaking(h)
      /\ check' = [check EXCEPT ![h].at = "trust"]
      /\ check'[h] = [check[h] EXCEPT !.at = "trust"]
      /\ stored' = [stored EXCEPT ![check[h].node] = check[h].key]
    BY DEF WritePin, CheckAt, PinsInv, PinsTypeOK, HandshakeJobs, NoCheck, Handshaking
<1>2. PinsTypeOK'
    BY <1>1 DEF WritePin, PinsInv, PinsTypeOK, HandshakeJobs
<1>3. AloneInv'
    BY <1>1 DEF WritePin, PinsInv, PinsTypeOK, AloneInv, Handshaking, HandshakeJobs
<1>4. FirmInv'
    BY <1>1 DEF WritePin, PinsInv, PinsTypeOK, FirmInv, Handshaking, HandshakeJobs
<1>. QED
    BY <1>2, <1>3, <1>4 DEF PinsInv

LEMMA TouchKeeps ==
    ASSUME PinsInv, NEW h \in Handshakes, TouchPin(h) PROVE PinsInv'
<1>1. /\ check[h] \in HandshakeJobs /\ check[h].at = "touch" /\ Handshaking(h)
      /\ check' = [check EXCEPT ![h].at = "trust"]
      /\ check'[h] = [check[h] EXCEPT !.at = "trust"]
    BY DEF TouchPin, CheckAt, PinsInv, PinsTypeOK, HandshakeJobs, NoCheck, Handshaking
<1>2. PinsTypeOK'
    BY <1>1 DEF TouchPin, PinsInv, PinsTypeOK, HandshakeJobs
<1>3. AloneInv'
    BY <1>1 DEF TouchPin, PinsInv, PinsTypeOK, AloneInv, Handshaking, HandshakeJobs
<1>4. FirmInv'
    BY <1>1 DEF TouchPin, PinsInv, PinsTypeOK, FirmInv, Handshaking, HandshakeJobs
<1>. QED
    BY <1>2, <1>3, <1>4 DEF PinsInv

LEMMA RefusedKeeps ==
    ASSUME PinsInv, NEW h \in Handshakes, PinRefused(h) PROVE PinsInv'
<1>1. check' = [check EXCEPT ![h] = NoCheck] /\ NoCheck.at = "idle"
    BY DEF PinRefused, NoCheck
<1>2. PinsTypeOK'
    BY <1>1 DEF PinRefused, PinsInv, PinsTypeOK
<1>3. AloneInv'
    BY <1>1 DEF PinRefused, PinsInv, PinsTypeOK, AloneInv, Handshaking
<1>4. FirmInv'
    BY <1>1 DEF PinRefused, PinsInv, PinsTypeOK, FirmInv, Handshaking
<1>. QED
    BY <1>2, <1>3, <1>4 DEF PinsInv

\* Only here a pin becomes firm.
LEMMA TrustKeeps ==
    ASSUME PinsInv, NEW h \in Handshakes, Trust(h) PROVE PinsInv'
<1>. DEFINE n == check[h].node  k == check[h].key
<1>1. /\ check[h] \in HandshakeJobs /\ check[h].at = "trust" /\ Handshaking(h)
      /\ check' = [check EXCEPT ![h] = NoCheck] /\ NoCheck.at = "idle"
      /\ trusted' = [trusted EXCEPT ![n] = k]
      /\ \/ firm' = firm
         \/ check[h].first /\ check[h].alone /\ firm' = [firm EXCEPT ![n] = k]
      /\ UNCHANGED <<pinned, stored, hasTable, resetting, restarts>>
    BY DEF Trust, CheckAt, PinsInv, PinsTypeOK, HandshakeJobs, NoCheck, Handshaking
<1>2. PinsTypeOK'
    BY <1>1 DEF PinsInv, PinsTypeOK, HandshakeJobs
<1>3. AloneInv'
    BY <1>1 DEF PinsInv, PinsTypeOK, AloneInv, Handshaking
<1>4. FirmInv'
  <2>1. CASE firm' = firm
    BY <2>1, <1>1 DEF PinsInv, PinsTypeOK, FirmInv, Handshaking
  <2>2. CASE check[h].first /\ check[h].alone /\ firm' = [firm EXCEPT ![n] = k]
    <3>1. /\ resetting = "no" /\ pinned[n] = k /\ stored[n] = k
          /\ \A g \in Handshakes \ {h} : Handshaking(g) /\ check[g].node = n => check[g].key = k
        BY <2>2, <1>1 DEF PinsInv, AloneInv
    <3>. QED
        BY <3>1, <2>2, <1>1 DEF PinsInv, PinsTypeOK, FirmInv, Handshaking, HandshakeJobs
  <2>. QED
    BY <2>1, <2>2, <1>1
<1>. QED
    BY <1>2, <1>3, <1>4 DEF PinsInv

LEMMA ForgetPinKeeps == ASSUME PinsInv, ForgetPins PROVE PinsInv'
<1>1. \A h \in Handshakes :
         \/ check[h].at = "idle" /\ check'[h] = check[h]
         \/ check[h] \in HandshakeJobs /\ check'[h] = [check[h] EXCEPT !.alone = FALSE]
    BY DEF ForgetPins, CheckAt, PinsInv, PinsTypeOK, HandshakeJobs, NoCheck
<1>2. check' \in [Handshakes -> {NoCheck} \cup HandshakeJobs]
  <2>1. \A h \in Handshakes : check'[h] \in {NoCheck} \cup HandshakeJobs
    BY <1>1 DEF PinsInv, PinsTypeOK, HandshakeJobs
  <2>2. check' = [h \in Handshakes |-> check'[h]]
    BY DEF ForgetPins
  <2>. QED
    BY <2>1, <2>2
<1>3. PinsTypeOK'
    BY <1>2 DEF ForgetPins, PinsInv, PinsTypeOK, HandshakeJobs, Unpinned
<1>4. AloneInv'
  <2>1. \A h \in Handshakes : /\ Handshaking(h)' => ~check'[h].alone
                             /\ check'[h].at = check[h].at
    BY <1>1 DEF Handshaking, HandshakeJobs
  <2>2. \A h \in Handshakes : check'[h].at = "touch" => check'[h].first = check[h].first
    BY <1>1 DEF HandshakeJobs
  <2>. QED
    BY <2>1, <2>2 DEF PinsInv, AloneInv
<1>5. FirmInv'
    BY DEF ForgetPins, FirmInv, Unpinned
<1>. QED
    BY <1>3, <1>4, <1>5 DEF PinsInv

\* While the pins are forgotten, nothing is firm and nobody alone.
LEMMA ResetKeeps == ASSUME PinsInv, RemovePins \/ CreatePins PROVE PinsInv'
<1>1. resetting # "no" /\ UNCHANGED <<check, firm, trusted, restarts>>
    BY DEF RemovePins, CreatePins
<1>2. PinsTypeOK'
  <2>1. CASE RemovePins
    BY <2>1 DEF RemovePins, PinsInv, PinsTypeOK, Unpinned
  <2>2. CASE CreatePins
    BY <2>2 DEF CreatePins, PinsInv, PinsTypeOK
  <2>. QED
    BY <2>1, <2>2
<1>3. AloneInv'
    BY <1>1 DEF PinsInv, AloneInv, Handshaking
<1>4. FirmInv'
    BY <1>1 DEF PinsInv, FirmInv
<1>. QED
    BY <1>2, <1>3, <1>4 DEF PinsInv

LEMMA PinsRestartKeeps == ASSUME PinsInv, Restart PROVE PinsInv'
<1>1. NoCheck.at = "idle" /\ \A h \in Handshakes : check'[h] = NoCheck
    BY DEF Restart, NoCheck
<1>2. PinsTypeOK'
    BY PinAssumption DEF Restart, PinsInv, PinsTypeOK
<1>3. AloneInv'
    BY <1>1 DEF Restart, AloneInv, Handshaking
<1>4. FirmInv'
    BY <1>1 DEF Restart, PinsInv, FirmInv, Handshaking
<1>. QED
    BY <1>2, <1>3, <1>4 DEF PinsInv

-----------------------------------------------------------------------------

\* A fetch that goes on with another key leaves the pins alone.
LEMMA FetchAnywayKeeps ==
    ASSUME PinsInv, NEW h \in Handshakes, NEW n \in Nodes, NEW k \in NodeKeys, FetchAnyway(h, n, k)
    PROVE  PinsInv'
<1>1. PinsTypeOK'
    BY DEF FetchAnyway, PinsInv, PinsTypeOK
<1>2. AloneInv' /\ FirmInv'
    BY DEF FetchAnyway, PinsInv, AloneInv, FirmInv, Handshaking
<1>. QED
    BY <1>1, <1>2 DEF PinsInv

LEMMA PinsStepKeeps == PinsInv /\ [PinsNext]_pinVars => PinsInv'
<1>. SUFFICES ASSUME PinsInv, [PinsNext]_pinVars PROVE PinsInv'
    OBVIOUS
<1>1. ASSUME NEW h \in Handshakes, NEW n \in Nodes, NEW k \in NodeKeys,
             BeginCheck(h, n, k) \/ FetchAnyway(h, n, k)
      PROVE  PinsInv'
    BY <1>1, BeginKeeps, FetchAnywayKeeps
<1>2. ASSUME NEW h \in Handshakes,
             Remember(h) \/ WritePin(h) \/ TouchPin(h) \/ PinRefused(h) \/ Trust(h)
      PROVE  PinsInv'
    BY <1>2, RememberKeeps, WritePinKeeps, TouchKeeps, RefusedKeeps, TrustKeeps
<1>3. CASE ForgetPins \/ RemovePins \/ CreatePins \/ Restart
    BY <1>3, ForgetPinKeeps, ResetKeeps, PinsRestartKeeps
<1>4. CASE UNCHANGED pinVars
    BY <1>4 DEF pinVars, PinsInv, PinsTypeOK, AloneInv, FirmInv, Handshaking
<1>. QED
    BY <1>1, <1>2, <1>3, <1>4 DEF PinsNext

LEMMA PinsInvariance == PinsSpec => []PinsInv
    BY PinsBegin, PinsStepKeeps, PTL DEF PinsSpec

\* Every variable keeps its type, whichever handshakes, resets and restarts
\* interleave in _check_pin and reset_tofu_pins.
THEOREM PinsTypeCorrect == PinsSpec => []PinsTypeOK
<1>1. PinsInv => PinsTypeOK
    BY DEF PinsInv
<1>. QED
    BY <1>1, PinsInvariance, PTL

\* Trust on first use: once _check_pin has pinned a node's key without meeting
\* another key of that node or a reset, memory and table hold it until
\* reset_tofu_pins, and no connection goes on with another key of the node
\* (only fetch_post does), for any number of threads, nodes, keys and restarts.
THEOREM FirstKeyKept == PinsSpec => FirstKeyStays
<1>. DEFINE Fetching(n) == \E h \in Handshakes, k \in NodeKeys : FetchAnyway(h, n, k)
            Stays(n) == firm[n] # NoPin /\ firm'[n] # NoPin =>
                /\ firm'[n] = firm[n] /\ pinned'[n] = firm[n] /\ stored'[n] = firm[n]
                /\ trusted'[n] \in {trusted[n], firm[n]} \/ Fetching(n)
<1>1. ASSUME PinsInv, PinsInv', [PinsNext]_pinVars, NEW n \in Nodes PROVE Stays(n)
  <2>0. /\ firm[n] # NoPin => pinned[n] = firm[n] /\ stored[n] = firm[n]
        /\ firm'[n] # NoPin => pinned'[n] = firm'[n] /\ stored'[n] = firm'[n]
      BY <1>1 DEF PinsInv, FirmInv
  <2>1. CASE \E h \in Handshakes : Trust(h)
    <3>1. PICK h \in Handshakes : Trust(h)
        BY <2>1
    <3>2. check[h] \in HandshakeJobs /\ Handshaking(h)
        BY <3>1, <1>1 DEF Trust, CheckAt, PinsInv, PinsTypeOK, HandshakeJobs, NoCheck, Handshaking
    <3>3. check[h].node = n /\ firm[n] # NoPin => check[h].key = firm[n]
        BY <3>2, <1>1 DEF PinsInv, FirmInv
    <3>. QED
        BY <2>0, <3>1, <3>2, <3>3, <1>1 DEF Trust, PinsInv, PinsTypeOK, HandshakeJobs
  <2>2. CASE ForgetPins
    BY <2>2, <1>1 DEF ForgetPins, Unpinned
  <2>3. CASE \E h \in Handshakes, m \in Nodes, k \in NodeKeys : FetchAnyway(h, m, k)
    <3>1. PICK h \in Handshakes, m \in Nodes, k \in NodeKeys : FetchAnyway(h, m, k)
        BY <2>3
    <3>2. CASE m = n
        BY <2>0, <3>1, <3>2 DEF FetchAnyway
    <3>3. CASE m # n
        BY <2>0, <3>1, <3>3, <1>1 DEF FetchAnyway, PinsInv, PinsTypeOK
    <3>. QED
        BY <3>2, <3>3
  <2>4. CASE /\ ~(\E h \in Handshakes : Trust(h)) /\ ~ForgetPins
             /\ ~(\E h \in Handshakes, m \in Nodes, k \in NodeKeys : FetchAnyway(h, m, k))
    <3>1. UNCHANGED <<firm, trusted>>
        BY <2>4, <1>1 DEF PinsNext, pinVars, BeginCheck, Remember, WritePin, TouchPin,
                          PinRefused, RemovePins, CreatePins, Restart
    <3>. QED
        BY <2>0, <3>1
  <2>. QED
    BY <2>1, <2>2, <2>3, <2>4
<1>2. PinsInv /\ PinsInv' /\ [PinsNext]_pinVars => [\A n \in Nodes : Stays(n)]_pinVars
    BY <1>1
<1>3. PinsSpec => [][\A n \in Nodes : Stays(n)]_pinVars
    BY <1>2, PinsInvariance, PTL DEF PinsSpec
<1>4. [\A n \in Nodes : Stays(n)]_pinVars <=>
      [\A n \in Nodes : firm[n] # NoPin /\ firm'[n] # NoPin =>
           /\ firm'[n] = firm[n] /\ pinned'[n] = firm[n] /\ stored'[n] = firm[n]
           /\ \/ trusted'[n] \in {trusted[n], firm[n]}
              \/ \E h \in Handshakes, k \in NodeKeys : FetchAnyway(h, n, k)]_pinVars
    OBVIOUS
<1>. QED
    BY <1>3, <1>4, PTL DEF FirstKeyStays

-----------------------------------------------------------------------------
(* AdminAccess: the sessions and the hash and salt of the PIN. *)

\* No two threads change the PIN at a time.
OneChangeInv == \A s, t \in Changing : s = t

\* While nobody has written a hash whose change is not done, the sessions were
\* opened with the PIN there is, and the logins that are about to open one have
\* verified that PIN.
CurrentInv ==
    (\A t \in Changing : job[t].op = "hash") =>
        /\ \A x \in sessions \ raced : pinOf[x] = hash
        /\ \A t \in Logins : job[t].op = "open" /\ ~job[t].crossed => job[t].pin = hash

\* Logins of an address that may still fail.
Trying(a) == {t \in Logins : job[t].op \in {"verify", "fail"} /\ job[t].from = a}

\* Each of them was let in below the limit.
LockoutInv == \A a \in Addresses : failures[a] + Cardinality(Trying(a)) < MaxAttempts + Cardinality(Logins)

JobInv ==
    /\ job \in [Logins -> Jobs]
    /\ hash \in Pins /\ salt \in Pins /\ changes \in 0 .. MaxPins
    /\ sessions \subseteq Tokens /\ expired \subseteq Tokens /\ raced \subseteq Tokens
    /\ locked \subseteq Addresses
    /\ pinOf \in [Tokens -> 0..MaxPins + 1]
    /\ failures \in [Addresses -> Nat]
    /\ spoilt \in BOOLEAN

AdminInv == JobInv /\ LockoutInv /\ (~spoilt => OneChangeInv /\ CurrentInv)

-----------------------------------------------------------------------------

LoginJobs == [op : {"verify", "fail", "open", "forget"}, from : Addresses, pin : Pins, crossed : BOOLEAN]
ChangeJobs == [op : {"check", "hash", "salt", "clear"}, pin : Pins]

LEMMA LoginsFinite == IsFiniteSet(Logins) /\ Cardinality(Logins) \in Nat
BY AdminAssumption, FS_CardinalityType

LEMMA TryingBounded ==
    ASSUME NEW a \in Addresses
    PROVE  /\ IsFiniteSet(Trying(a)) /\ Cardinality(Trying(a)) \in Nat
           /\ Cardinality(Trying(a)) <= Cardinality(Logins)
BY LoginsFinite, FS_Subset, FS_CardinalityType DEF Trying

\* A thread that is not at a failure any more makes room for one.
LEMMA TryingShrinks ==
    ASSUME NEW a \in Addresses, NEW t \in Trying(a), Trying(a)' = Trying(a) \ {t}
    PROVE  Cardinality(Trying(a))' = Cardinality(Trying(a)) - 1
BY TryingBounded, FS_RemoveElement

LEMMA TryingSubset ==
    ASSUME NEW a \in Addresses, Trying(a)' \subseteq Trying(a)
    PROVE  Cardinality(Trying(a))' \in Nat /\ Cardinality(Trying(a))' <= Cardinality(Trying(a))
BY TryingBounded, FS_Subset, FS_CardinalityType

LEMMA IdleJob == Idle \in Jobs /\ Idle.op = "idle"
BY DEF Idle, Jobs

LEMMA AdminBegin == AdminInit => AdminInv
<1>. SUFFICES ASSUME AdminInit PROVE AdminInv
    OBVIOUS
<1>1. JobInv
  <2>1. job \in [Logins -> Jobs] /\ spoilt \in BOOLEAN
      BY IdleJob, Zenon DEF AdminInit
  <2>2. /\ hash \in Pins /\ salt \in Pins /\ changes \in 0..MaxPins
        /\ pinOf \in [Tokens -> 0..MaxPins + 1] /\ failures \in [Addresses -> Nat]
      BY AdminAssumption DEF AdminInit, Pins
  <2>3. sessions \subseteq Tokens /\ expired \subseteq Tokens /\ raced \subseteq Tokens /\ locked \subseteq Addresses
      BY DEF AdminInit
  <2>. QED
      BY <2>1, <2>2, <2>3 DEF JobInv
<1>2. ASSUME NEW a \in Addresses PROVE Trying(a) = {} /\ failures[a] = 0
    BY DEF AdminInit, Trying, Idle
<1>3. LockoutInv
  <2>1. ASSUME NEW a \in Addresses
        PROVE  failures[a] + Cardinality(Trying(a)) < MaxAttempts + Cardinality(Logins)
    <3>1. Trying(a) = {} /\ failures[a] = 0
        BY <1>2
    <3>2. Cardinality(Trying(a)) = 0
        BY <3>1, FS_EmptySet
    <3>. QED
        BY <3>1, <3>2, LoginsFinite, AdminAssumption
  <2>. QED
      BY <2>1 DEF LockoutInv
<1>4. OneChangeInv /\ CurrentInv
    BY DEF AdminInit, OneChangeInv, CurrentInv, Changing, Idle
<1>. QED
    BY <1>1, <1>3, <1>4 DEF AdminInv

\* Those who change the PIN are the ones whose job is a change, before a step
\* and after it.
LEMMA LockoutKept ==
    ASSUME LockoutInv, JobInv,
           \A a \in Addresses : Trying(a)' \subseteq Trying(a) /\ failures'[a] \in {0, failures[a]}
    PROVE  LockoutInv'
<1>1. ASSUME NEW a \in Addresses
      PROVE  failures'[a] + Cardinality(Trying(a))' < MaxAttempts + Cardinality(Logins)
  <2>1. /\ Cardinality(Trying(a))' \in Nat /\ Cardinality(Trying(a))' <= Cardinality(Trying(a))
        /\ Cardinality(Trying(a)) \in Nat /\ failures[a] \in Nat
      BY TryingSubset, TryingBounded DEF JobInv
  <2>. QED
      BY <2>1, LoginsFinite, AdminAssumption DEF LockoutInv
<1>. QED
    BY <1>1 DEF LockoutInv

LEMMA AuthenticateKeeps ==
    ASSUME AdminInv, NEW t \in Logins, NEW a \in Addresses, NEW pin \in Pins, Authenticate(t, a, pin)
    PROVE  AdminInv'
<1>. DEFINE j == [op |-> "verify", from |-> a, pin |-> pin, crossed |-> FALSE]
<1>1. /\ job \in [Logins -> Jobs] /\ failures \in [Addresses -> Nat]
      /\ job' = [job EXCEPT ![t] = j] /\ job[t].op = "idle"
      /\ j \in Jobs /\ j.op = "verify" /\ j.from = a
    BY IdleJob DEF AdminInv, JobInv, Authenticate, Do, Jobs
<1>. HIDE DEF j
<1>2. JobInv'
    BY <1>1 DEF AdminInv, JobInv, Authenticate
<1>3. LockoutInv'
  <2>1. ASSUME NEW b \in Addresses
        PROVE  failures'[b] + Cardinality(Trying(b))' < MaxAttempts + Cardinality(Logins)
    <3>1. CASE b # a
      <4>1. Trying(b)' = Trying(b) /\ failures'[b] = failures[b]
          BY <1>1, <3>1 DEF Trying, Authenticate
      <4>. QED
          BY <4>1 DEF AdminInv, LockoutInv
    <3>2. CASE b = a
      <4>1. failures'[a] < MaxAttempts /\ failures'[a] \in Nat
          BY <1>1, AdminAssumption DEF Authenticate
      <4>2. Trying(a)' \in SUBSET Logins
          BY DEF Trying
      <4>3. Cardinality(Trying(a))' \in Nat /\ Cardinality(Trying(a))' <= Cardinality(Logins)
          BY <4>2, LoginsFinite, FS_Subset, FS_CardinalityType
      <4>. QED
          BY <3>2, <4>1, <4>3, LoginsFinite, AdminAssumption
    <3>. QED
        BY <3>1, <3>2
  <2>. QED
      BY <2>1 DEF LockoutInv
<1>4. ~spoilt' => OneChangeInv' /\ CurrentInv'
    BY <1>1 DEF AdminInv, OneChangeInv, CurrentInv, Changing, Authenticate
<1>. QED
    BY <1>2, <1>3, <1>4 DEF AdminInv

LEMMA VerifyKeeps ==
    ASSUME AdminInv, NEW t \in Logins, Verify(t)
    PROVE  AdminInv'
<1>. DEFINE j == [job[t] EXCEPT !.op = IF Verifies(job[t].pin) THEN "open" ELSE "fail"]
<1>1. /\ job \in [Logins -> Jobs] /\ failures \in [Addresses -> Nat]
      /\ job' = [job EXCEPT ![t] = j] /\ job[t].op = "verify"
    BY DEF AdminInv, JobInv, Verify, Do
<1>2. job[t] \in LoginJobs
    BY <1>1 DEF Jobs, Idle, LoginJobs
<1>3. /\ j \in Jobs /\ j.op \in {"open", "fail"} /\ j.from = job[t].from /\ j.pin = job[t].pin
      /\ j.op = "open" => j.pin = hash
    BY <1>2 DEF Jobs, LoginJobs, Verifies
<1>. HIDE DEF j
<1>4. JobInv'
    BY <1>1, <1>3 DEF AdminInv, JobInv, Verify
<1>5. LockoutInv'
  <2>1. \A a \in Addresses : Trying(a)' \subseteq Trying(a) /\ failures'[a] \in {0, failures[a]}
      BY <1>1, <1>3 DEF Trying, Verify
  <2>. QED
      BY <2>1, LockoutKept DEF AdminInv
<1>6. ~spoilt' => OneChangeInv' /\ CurrentInv'
    BY <1>1, <1>3 DEF AdminInv, OneChangeInv, CurrentInv, Changing, Verify
<1>. QED
    BY <1>4, <1>5, <1>6 DEF AdminInv

LEMMA FailKeeps ==
    ASSUME AdminInv, NEW t \in Logins, Fail(t)
    PROVE  AdminInv'
<1>1. /\ job \in [Logins -> Jobs] /\ failures \in [Addresses -> Nat]
      /\ job' = [job EXCEPT ![t] = Idle] /\ job[t].op = "fail" /\ Idle \in Jobs /\ Idle.op = "idle"
    BY IdleJob DEF AdminInv, JobInv, Fail, Do
<1>2. PICK a \in Addresses : a = job[t].from
    BY <1>1 DEF Jobs, Idle
<1>3. JobInv'
    BY <1>1, <1>2 DEF AdminInv, JobInv, Fail
<1>4. LockoutInv'
  <2>1. ASSUME NEW b \in Addresses
        PROVE  failures'[b] + Cardinality(Trying(b))' < MaxAttempts + Cardinality(Logins)
    <3>1. CASE b # a
      <4>1. Trying(b)' = Trying(b) /\ failures'[b] = failures[b]
          BY <1>1, <1>2, <3>1 DEF Trying, Fail
      <4>. QED
          BY <4>1 DEF AdminInv, LockoutInv
    <3>2. CASE b = a
      <4>1. t \in Trying(a) /\ Trying(a)' = Trying(a) \ {t}
          BY <1>1, <1>2 DEF Trying
      <4>2. IsFiniteSet(Trying(a)) /\ Cardinality(Trying(a)) \in Nat
          BY <1>2, TryingBounded
      <4>3. Cardinality(Trying(a))' = Cardinality(Trying(a)) - 1
          BY <4>1, <4>2, FS_RemoveElement
      <4>4. failures'[a] = failures[a] + 1 /\ failures[a] \in Nat
          BY <1>1, <1>2 DEF Fail
      <4>5. failures[a] + Cardinality(Trying(a)) < MaxAttempts + Cardinality(Logins)
          BY <1>2 DEF AdminInv, LockoutInv
      <4>6. failures'[a] + Cardinality(Trying(a))' < MaxAttempts + Cardinality(Logins)
          BY <4>2, <4>3, <4>4, <4>5, LoginsFinite, AdminAssumption
      <4>. QED
          BY <3>2, <4>6
    <3>. QED
        BY <3>1, <3>2
  <2>. QED
      BY <2>1 DEF LockoutInv
<1>5. ~spoilt' => OneChangeInv' /\ CurrentInv'
    BY <1>1 DEF AdminInv, OneChangeInv, CurrentInv, Changing, Fail
<1>. QED
    BY <1>3, <1>4, <1>5 DEF AdminInv

LEMMA OpenSessionKeeps ==
    ASSUME AdminInv, NEW t \in Logins, NEW x \in Tokens, OpenSession(t, x)
    PROVE  AdminInv'
<1>. DEFINE j == [job[t] EXCEPT !.op = "forget"]
<1>1. /\ job \in [Logins -> Jobs] /\ failures \in [Addresses -> Nat]
      /\ job' = [job EXCEPT ![t] = j] /\ job[t].op = "open"
    BY DEF AdminInv, JobInv, OpenSession, Do
<1>2. job[t] \in LoginJobs
    BY <1>1 DEF Jobs, Idle, LoginJobs
<1>3. j \in Jobs /\ j.op = "forget" /\ job[t].pin \in Pins /\ job[t].crossed \in BOOLEAN
    BY <1>2 DEF Jobs, LoginJobs
<1>. HIDE DEF j
<1>4. JobInv'
    BY <1>1, <1>3, AdminAssumption DEF AdminInv, JobInv, OpenSession, Pins
<1>5. LockoutInv'
  <2>1. \A a \in Addresses : Trying(a)' \subseteq Trying(a) /\ failures'[a] \in {0, failures[a]}
      BY <1>1, <1>3 DEF Trying, OpenSession
  <2>. QED
      BY <2>1, LockoutKept DEF AdminInv
<1>6. ~spoilt' => OneChangeInv'
    BY <1>1, <1>3 DEF AdminInv, OneChangeInv, Changing, OpenSession
<1>7. ~spoilt' => CurrentInv'
    BY <1>1, <1>3 DEF AdminInv, CurrentInv, Changing, OpenSession, JobInv
<1>. QED
    BY <1>4, <1>5, <1>6, <1>7 DEF AdminInv

LEMMA ForgetKeeps ==
    ASSUME AdminInv, NEW t \in Logins, Forget(t)
    PROVE  AdminInv'
<1>1. /\ job \in [Logins -> Jobs] /\ failures \in [Addresses -> Nat]
      /\ job' = [job EXCEPT ![t] = Idle] /\ job[t].op = "forget" /\ Idle \in Jobs /\ Idle.op = "idle"
    BY IdleJob DEF AdminInv, JobInv, Forget, Do
<1>2. JobInv'
    BY <1>1 DEF AdminInv, JobInv, Forget
<1>3. LockoutInv'
  <2>1. \A a \in Addresses : Trying(a)' \subseteq Trying(a) /\ failures'[a] \in {0, failures[a]}
      BY <1>1 DEF Trying, Forget
  <2>. QED
      BY <2>1, LockoutKept DEF AdminInv
<1>4. ~spoilt' => OneChangeInv' /\ CurrentInv'
    BY <1>1 DEF AdminInv, OneChangeInv, CurrentInv, Changing, Forget
<1>. QED
    BY <1>2, <1>3, <1>4 DEF AdminInv

\* What changes no job and counts no failure.
LEMMA SessionsEndKeep ==
    ASSUME AdminInv, UNCHANGED <<hash, salt, failures, job, changes, pinOf, raced, spoilt>>,
           sessions' \subseteq sessions, expired' \subseteq Tokens, locked' \subseteq locked
    PROVE  AdminInv'
<1>1. JobInv'
    BY DEF AdminInv, JobInv
<1>2. LockoutInv'
    BY DEF AdminInv, LockoutInv, Trying
<1>3. ~spoilt' => OneChangeInv' /\ CurrentInv'
    BY DEF AdminInv, OneChangeInv, CurrentInv, Changing
<1>. QED
    BY <1>1, <1>2, <1>3 DEF AdminInv

\* A step of a change of the PIN lets nobody in who may fail.
LEMMA ChangeTypes ==
    ASSUME AdminInv, NEW t \in Logins, NEW j \in ChangeJobs \cup {Idle},
           job' = [job EXCEPT ![t] = j],
           UNCHANGED <<sessions, expired, failures, locked, pinOf, raced>>,
           hash' \in Pins, salt' \in Pins, changes' \in 0..MaxPins, spoilt' \in BOOLEAN
    PROVE  JobInv' /\ LockoutInv'
<1>1. /\ job \in [Logins -> Jobs] /\ failures \in [Addresses -> Nat]
      /\ j \in Jobs /\ j.op \notin {"verify", "fail"}
    BY IdleJob DEF AdminInv, JobInv, ChangeJobs, Jobs
<1>2. JobInv'
    BY <1>1 DEF AdminInv, JobInv
<1>3. \A a \in Addresses : Trying(a)' \subseteq Trying(a) /\ failures'[a] \in {0, failures[a]}
    BY <1>1 DEF Trying
<1>. QED
    BY <1>2, <1>3, LockoutKept DEF AdminInv

LEMMA ChangePinKeeps ==
    ASSUME AdminInv, NEW t \in Logins, NEW old \in Pins, ChangePin(t, old)
    PROVE  AdminInv'
<1>. DEFINE j == [op |-> "check", pin |-> old]
<1>1. /\ job \in [Logins -> Jobs] /\ job' = [job EXCEPT ![t] = j] /\ job[t].op = "idle"
      /\ j \in ChangeJobs /\ j.op = "check"
    BY IdleJob DEF AdminInv, JobInv, ChangePin, Do, ChangeJobs
<1>. HIDE DEF j
<1>2. JobInv' /\ LockoutInv'
    BY <1>1, ChangeTypes DEF AdminInv, JobInv, ChangePin
<1>3. ~spoilt' => OneChangeInv' /\ CurrentInv'
    BY <1>1 DEF AdminInv, OneChangeInv, CurrentInv, Changing, ChangePin
<1>. QED
    BY <1>2, <1>3 DEF AdminInv

LEMMA CheckOldKeeps ==
    ASSUME AdminInv, NEW t \in Logins, CheckOld(t)
    PROVE  AdminInv'
<1>1. /\ job \in [Logins -> Jobs] /\ job[t].op = "check" /\ changes \in 0..MaxPins /\ MaxPins \in Nat
      /\ spoilt \in BOOLEAN
    BY AdminAssumption DEF AdminInv, JobInv, CheckOld
<1>2. CASE Verifies(job[t].pin) /\ changes < MaxPins
  <2>. DEFINE j == [op |-> "hash", pin |-> changes' + 1]
  <2>1. changes' = changes + 1 /\ changes' \in 0..MaxPins /\ changes' + 1 \in Pins
      BY <1>1, <1>2 DEF CheckOld, Pins
  <2>2. /\ job' = [job EXCEPT ![t] = j] /\ j \in ChangeJobs \cup {Idle} /\ j.op = "hash"
      BY <1>2, <2>1 DEF CheckOld, Do, ChangeJobs
  <2>. HIDE DEF j
  <2>3. spoilt' = (spoilt \/ Changing # {})
      BY <1>2 DEF CheckOld
  <2>4. spoilt' \in BOOLEAN
      BY <2>3, Zenon
  <2>5. JobInv' /\ LockoutInv'
    <3>1. hash' \in Pins /\ salt' \in Pins
        BY DEF AdminInv, JobInv, CheckOld
    <3>2. UNCHANGED <<sessions, expired, failures, locked, pinOf, raced>>
        BY DEF CheckOld
    <3>. QED
        BY <2>1, <2>2, <2>4, <3>1, <3>2, ChangeTypes
  <2>6. ASSUME ~spoilt' PROVE OneChangeInv' /\ CurrentInv'
    <3>1. ~spoilt /\ Changing = {}
        BY <2>3, <2>6, Zenon
    <3>2. Changing' = {t}
        BY <1>1, <2>2, <3>1 DEF Changing
    <3>3. OneChangeInv'
        BY <3>2 DEF OneChangeInv
    <3>4. CurrentInv
        BY <3>1 DEF AdminInv
    <3>5. CurrentInv'
        BY <1>1, <2>2, <3>1, <3>4 DEF CurrentInv, CheckOld
    <3>. QED
        BY <3>3, <3>5
  <2>. QED
      BY <2>5, <2>6 DEF AdminInv
<1>3. CASE ~(Verifies(job[t].pin) /\ changes < MaxPins)
  <2>1. job' = [job EXCEPT ![t] = Idle] /\ UNCHANGED <<changes, spoilt>> /\ Idle.op = "idle"
      BY <1>3, IdleJob DEF CheckOld, Do
  <2>2. UNCHANGED <<hash, salt, sessions, expired, failures, locked, pinOf, raced>>
      BY DEF CheckOld
  <2>3. JobInv' /\ LockoutInv'
      BY <2>1, <2>2, ChangeTypes DEF AdminInv, JobInv
  <2>4. ~spoilt' => OneChangeInv' /\ CurrentInv'
      BY <1>1, <2>1, <2>2 DEF AdminInv, OneChangeInv, CurrentInv, Changing
  <2>. QED
      BY <2>3, <2>4 DEF AdminInv
<1>. QED
    BY <1>2, <1>3

LEMMA WriteHashKeeps ==
    ASSUME AdminInv, NEW t \in Logins, WriteHash(t)
    PROVE  AdminInv'
<1>. DEFINE j == [job[t] EXCEPT !.op = "salt"]
<1>1. job \in [Logins -> Jobs] /\ job' = [job EXCEPT ![t] = j] /\ job[t].op = "hash"
    BY DEF AdminInv, JobInv, WriteHash, Do
<1>2. job[t] \in ChangeJobs
    BY <1>1 DEF Jobs, Idle, ChangeJobs
<1>3. j \in ChangeJobs /\ j.op = "salt" /\ job[t].pin \in Pins
    BY <1>2 DEF ChangeJobs
<1>. HIDE DEF j
<1>4. JobInv' /\ LockoutInv'
    BY <1>1, <1>3, ChangeTypes DEF AdminInv, JobInv, WriteHash
<1>5. ~spoilt' => OneChangeInv' /\ CurrentInv'
    BY <1>1, <1>3 DEF AdminInv, OneChangeInv, CurrentInv, Changing, WriteHash
<1>. QED
    BY <1>4, <1>5 DEF AdminInv

LEMMA WriteSaltKeeps ==
    ASSUME AdminInv, NEW t \in Logins, WriteSalt(t)
    PROVE  AdminInv'
<1>. DEFINE j == [job[t] EXCEPT !.op = "clear"]
<1>1. job \in [Logins -> Jobs] /\ job' = [job EXCEPT ![t] = j] /\ job[t].op = "salt"
    BY DEF AdminInv, JobInv, WriteSalt, Do
<1>2. job[t] \in ChangeJobs
    BY <1>1 DEF Jobs, Idle, ChangeJobs
<1>3. j \in ChangeJobs /\ j.op = "clear" /\ job[t].pin \in Pins
    BY <1>2 DEF ChangeJobs
<1>. HIDE DEF j
<1>4. JobInv' /\ LockoutInv'
    BY <1>1, <1>3, ChangeTypes DEF AdminInv, JobInv, WriteSalt
<1>5. ~spoilt' => OneChangeInv' /\ CurrentInv'
    BY <1>1, <1>3 DEF AdminInv, OneChangeInv, CurrentInv, Changing, WriteSalt
<1>. QED
    BY <1>4, <1>5 DEF AdminInv

LEMMA WriteFailsKeeps ==
    ASSUME AdminInv, NEW t \in Logins, WriteFails(t)
    PROVE  AdminInv'
<1>1. /\ job \in [Logins -> Jobs] /\ job' = [job EXCEPT ![t] = Idle]
      /\ job[t].op \in {"hash", "salt"} /\ Idle \in Jobs /\ Idle.op = "idle"
    BY IdleJob DEF AdminInv, JobInv, WriteFails, Do
<1>2. spoilt \in BOOLEAN /\ spoilt' = (spoilt \/ job[t].op = "salt")
    BY DEF AdminInv, JobInv, WriteFails
<1>3. spoilt' \in BOOLEAN
    BY <1>2, Zenon
<1>4. JobInv'
    BY <1>1, <1>3 DEF AdminInv, JobInv, WriteFails
<1>5. LockoutInv'
  <2>1. \A a \in Addresses : Trying(a)' \subseteq Trying(a) /\ failures'[a] \in {0, failures[a]}
      BY <1>1 DEF Trying, WriteFails
  <2>. QED
      BY <2>1, LockoutKept DEF AdminInv
<1>6. ASSUME ~spoilt' PROVE OneChangeInv' /\ CurrentInv'
  <2>1. OneChangeInv /\ CurrentInv /\ job[t].op = "hash"
      BY <1>1, <1>2, <1>6 DEF AdminInv
  <2>2. \A s \in Changing : s = t
      BY <1>1, <2>1 DEF OneChangeInv, Changing
  <2>3. /\ \A x \in sessions \ raced : pinOf[x] = hash
        /\ \A s \in Logins : job[s].op = "open" /\ ~job[s].crossed => job[s].pin = hash
      BY <2>1, <2>2 DEF CurrentInv
  <2>4. \A s \in Logins : job'[s].op = "open" => s # t /\ job'[s] = job[s]
      BY <1>1
  <2>5. OneChangeInv'
      BY <1>1, <2>2 DEF OneChangeInv, Changing
  <2>6. CurrentInv'
      BY <2>3, <2>4 DEF CurrentInv, WriteFails
  <2>. QED
      BY <2>5, <2>6
<1>. QED
    BY <1>4, <1>5, <1>6 DEF AdminInv

\* The end of the sessions marks the logins that have verified the old PIN.
LEMMA CrossedType ==
    ASSUME NEW j \in Jobs
    PROVE  /\ Crossed(j) \in Jobs /\ Crossed(j).op = j.op
           /\ j.op = "open" => Crossed(j).crossed
           /\ j.op \in {"verify", "fail"} => Crossed(j).from = j.from
<1>1. CASE j.op = "open"
  <2>1. j \in LoginJobs
      BY <1>1 DEF Jobs, Idle, LoginJobs
  <2>. QED
      BY <1>1, <2>1 DEF Crossed, Jobs, LoginJobs
<1>2. CASE j.op # "open"
    BY <1>2 DEF Crossed
<1>. QED
    BY <1>1, <1>2

LEMMA ClearKeeps ==
    ASSUME AdminInv, NEW t \in Logins, Clear(t)
    PROVE  AdminInv'
<1>1. job \in [Logins -> Jobs] /\ Idle \in Jobs /\ Idle.op = "idle" /\ job[t].op = "clear"
    BY IdleJob DEF AdminInv, JobInv, Clear
<1>2. /\ job' \in [Logins -> Jobs] /\ job'[t].op = "idle"
      /\ \A s \in Logins \ {t} :
            /\ job'[s].op = job[s].op
            /\ job[s].op = "open" => job'[s].crossed
            /\ job[s].op \in {"verify", "fail"} => job'[s].from = job[s].from
    BY <1>1, CrossedType DEF Clear
<1>3. JobInv'
    BY <1>2 DEF AdminInv, JobInv, Clear
<1>4. LockoutInv'
  <2>1. \A a \in Addresses : Trying(a)' \subseteq Trying(a) /\ failures'[a] \in {0, failures[a]}
      BY <1>2 DEF Trying, Clear
  <2>. QED
      BY <2>1, LockoutKept DEF AdminInv
<1>5. ~spoilt' => OneChangeInv'
    BY <1>2 DEF AdminInv, OneChangeInv, Changing, Clear
<1>6. CurrentInv'
    BY <1>2 DEF CurrentInv, Clear
<1>. QED
    BY <1>3, <1>4, <1>5, <1>6 DEF AdminInv

LEMMA RestartKeeps ==
    ASSUME AdminInv, AdminRestart
    PROVE  AdminInv'
<1>1. job' = [t \in Logins |-> Idle] /\ Idle \in Jobs /\ Idle.op = "idle"
    BY IdleJob DEF AdminRestart
<1>2. spoilt' \in BOOLEAN
    BY Zenon DEF AdminRestart
<1>3. JobInv'
    BY <1>1, <1>2 DEF AdminInv, JobInv, AdminRestart
<1>4. LockoutInv'
  <2>1. \A a \in Addresses : Trying(a)' \subseteq Trying(a) /\ failures'[a] \in {0, failures[a]}
      BY <1>1 DEF Trying, AdminRestart
  <2>. QED
      BY <2>1, LockoutKept DEF AdminInv
<1>5. OneChangeInv' /\ CurrentInv'
    BY <1>1 DEF OneChangeInv, CurrentInv, Changing, AdminRestart
<1>. QED
    BY <1>3, <1>4, <1>5 DEF AdminInv

LEMMA AdminStepKeeps == AdminInv /\ [AdminNext]_adminVars => AdminInv'
<1>. SUFFICES ASSUME AdminInv, [AdminNext]_adminVars PROVE AdminInv'
    OBVIOUS
<1>1. ASSUME NEW t \in Logins, NEW a \in Addresses, NEW pin \in Pins, Authenticate(t, a, pin) PROVE AdminInv'
    BY <1>1, AuthenticateKeeps
<1>2. ASSUME NEW t \in Logins, NEW a \in Addresses, LockedOut(t, a) PROVE AdminInv'
    BY <1>2, SessionsEndKeep DEF LockedOut, adminVars, AdminInv, JobInv
<1>3. ASSUME NEW t \in Logins, NEW pin \in Pins, ChangePin(t, pin) PROVE AdminInv'
    BY <1>3, ChangePinKeeps
<1>4. ASSUME NEW t \in Logins, AdminStep(t) PROVE AdminInv'
    BY <1>4, VerifyKeeps, FailKeeps, ForgetKeeps, OpenSessionKeeps, CheckOldKeeps, WriteHashKeeps,
       WriteSaltKeeps, WriteFailsKeeps, ClearKeeps DEF AdminStep
<1>5. ASSUME NEW a \in Addresses, Unlock(a) PROVE AdminInv'
    BY <1>5, SessionsEndKeep DEF Unlock, AdminInv, JobInv
<1>6. ASSUME NEW x \in Tokens, Expire(x) PROVE AdminInv'
    BY <1>6, SessionsEndKeep DEF Expire, AdminInv, JobInv
<1>7. ASSUME NEW xs \in SUBSET sessions, DropSessions(xs) PROVE AdminInv'
    BY <1>7, SessionsEndKeep DEF DropSessions, AdminInv, JobInv
<1>8. ASSUME AdminRestart PROVE AdminInv'
    BY <1>8, RestartKeeps
<1>9. ASSUME UNCHANGED adminVars PROVE AdminInv'
    BY <1>9, SessionsEndKeep DEF adminVars, AdminInv, JobInv
<1>. QED
    BY <1>1, <1>2, <1>3, <1>4, <1>5, <1>6, <1>7, <1>8, <1>9 DEF AdminNext

\* The administrator's sessions, their count of failures included.
THEOREM AdminTypeCorrect == AdminSpec => []AdminTypeOK
<1>1. AdminInv => AdminTypeOK
  <2>. SUFFICES ASSUME AdminInv PROVE AdminTypeOK
      OBVIOUS
  <2>1. ASSUME NEW a \in Addresses PROVE failures[a] \in Counts
    <3>1. /\ failures[a] + Cardinality(Trying(a)) < MaxAttempts + Cardinality(Logins)
          /\ failures[a] \in Nat
        BY DEF AdminInv, LockoutInv, JobInv
    <3>2. Cardinality(Trying(a)) \in Nat
        BY TryingBounded
    <3>. QED
        BY <3>1, <3>2, LoginsFinite, AdminAssumption DEF Counts
  <2>2. failures \in [Addresses -> Counts]
      BY <2>1 DEF AdminInv, JobInv
  <2>. QED
      BY <2>2 DEF AdminInv, JobInv, AdminTypeOK
<1>. QED
    BY <1>1, AdminBegin, AdminStepKeeps, PTL DEF AdminSpec

\* A session opened with an old PIN does not outlive the change (change_pin),
\* unless its login was under way when the sessions were ended.
THEOREM PinChangesEndSessions == AdminSpec => []OldPinsEnd
<1>1. AdminInv => OldPinsEnd
  <2>. SUFFICES ASSUME AdminInv PROVE OldPinsEnd
      OBVIOUS
  <2>. QED
      BY DEF AdminInv, CurrentInv, OldPinsEnd
<1>. QED
    BY <1>1, AdminBegin, AdminStepKeeps, PTL DEF AdminSpec

-----------------------------------------------------------------------------
(* RateLimiter: the rates of the buckets. *)

(* Naturals are well founded: a set of them that is not empty has a least. *)
LEMMA LeastNat ==
    ASSUME NEW T, T \subseteq Nat, T # {}
    PROVE  \E n \in T : \A m \in T : n <= m
<1>. DEFINE R == {p \in Nat \X Nat : p[1] < p[2]}
<1>1. IsWellFoundedOn(OpToRel(<, Nat), Nat)
    BY NatLessThanWellFounded, Zenon
<1>2. OpToRel(<, Nat) = R
    BY DEF OpToRel
<1>. HIDE DEF R
<1>3. IsWellFoundedOn(R, Nat)
    BY <1>1, <1>2, Zenon
<1>4. PICK x \in T : \A y \in T : ~(<<y, x>> \in R)
    BY <1>3, WFMin, Zenon
<1>5. ASSUME NEW y \in T PROVE x <= y
  <2>1. <<y, x>> \notin R /\ x \in Nat /\ y \in Nat
      BY <1>4
  <2>2. ~(y < x)
      BY <2>1 DEF R
  <2>. QED
      BY <2>1, <2>2
<1>. QED
    BY <1>5

HasLargest(U) == \E m \in U : \A x \in U : x <= m

\* A finite set of numbers has a largest one: a smallest set without, short of
\* one of its elements, would have one.
LEMMA LargestOfFinite ==
    ASSUME NEW S, S \subseteq Nat, IsFiniteSet(S), S # {}
    PROVE  HasLargest(S)
<1>. DEFINE T == {n \in Nat : \E U \in SUBSET S : U # {} /\ Cardinality(U) = n /\ ~HasLargest(U)}
<1>. SUFFICES ASSUME ~HasLargest(S) PROVE FALSE
    OBVIOUS
<1>1. \A U \in SUBSET S : IsFiniteSet(U) /\ Cardinality(U) \in Nat
    BY FS_Subset, FS_CardinalityType
<1>2. T # {} /\ T \subseteq Nat
    BY <1>1
<1>3. PICK n \in T : \A m \in T : n <= m
    BY <1>2, LeastNat
<1>4. PICK U \in SUBSET S : U # {} /\ Cardinality(U) = n /\ ~HasLargest(U)
    BY <1>3
<1>5. PICK x \in U : TRUE
    BY <1>4
<1>. DEFINE V == U \ {x}
<1>6. Cardinality(V) = n - 1 /\ Cardinality(V) \in Nat /\ V \in SUBSET S
    BY <1>1, <1>4, <1>5, FS_RemoveElement
<1>7. V = {} \/ HasLargest(V)
    BY <1>3, <1>6
<1>8. CASE V = {}
    BY <1>4, <1>5, <1>8 DEF HasLargest
<1>9. CASE HasLargest(V)
  <2>1. PICK m \in V : \A y \in V : y <= m
      BY <1>9 DEF HasLargest
  <2>2. m \in Nat /\ x \in Nat /\ \A y \in U : y \in Nat
      BY <1>4
  <2>3. IF x <= m THEN \A y \in U : y <= m ELSE \A y \in U : y <= x
      BY <2>1, <2>2
  <2>. QED
      BY <1>4, <1>5, <2>1, <2>3 DEF HasLargest
<1>. QED
    BY <1>7, <1>8, <1>9

LEMMA MaxBurstIsLargest == MaxBurst \in Nat \ {0} /\ \A c \in Bursts : c <= MaxBurst
<1>1. \E b \in Bursts : \A c \in Bursts : c <= b
    BY LimiterAssumption, LargestOfFinite DEF HasLargest
<1>2. MaxBurst \in Bursts /\ \A c \in Bursts : c <= MaxBurst
    BY <1>1 DEF MaxBurst
<1>. QED
    BY <1>2, LimiterAssumption

-----------------------------------------------------------------------------

Sets(s, op) == command[s] # NoCommand /\ command[s].op = op
SetsUser(s, u) == Sets(s, "user") /\ command[s].user = u

\* A user has one bucket at most, and one that is consumed from.
BucketsInv ==
    /\ bucket \in [Clients -> SUBSET Bucket]
    /\ \A u \in Clients : bucket[u] = {} \/ \E b \in Bucket : bucket[u] = {b}
    /\ taking \subseteq Clients /\ \A u \in taking : Present(u)

SettingsInv ==
    /\ override \in [Clients -> Rates \cup {NoRate}] /\ globalRate \in Rates /\ burst \in Bursts
    /\ command \in [Setters -> Commands \cup {NoCommand}]
    /\ relayed \subseteq Clients /\ overlap \subseteq Clients \cup {"global"}
    /\ \A s \in Setters : Sets(s, "burst") /\ command[s].step = "write" =>
           \E u \in Clients : command[s].user = {u} /\ Present(u)

\* Nobody else sets what is set without an overlap, and it is set already.
UserSetInv ==
    \A u \in Clients \ overlap : \A s \in Setters : SetsUser(s, u) =>
        override[u] = command[s].rate /\ \A t \in Setters : SetsUser(t, u) => t = s
GlobalSetInv ==
    "global" \notin overlap => \A s \in Setters : Sets(s, "global") =>
        globalRate = command[s].rate /\ \A t \in Setters : Sets(t, "global") => t = s

\* No command at work will change the rate of the bucket.
Settled(u) ==
    /\ \A s \in Setters : ~SetsUser(s, u)
    /\ override[u] = NoRate => \A s \in Setters : ~Sets(s, "global")

BucketRight(u) ==
    Present(u) /\ u \notin relayed /\ u \notin overlap /\ "global" \notin overlap /\ Settled(u) =>
        Of(u).rate = Effective(u)

RatesInv == UserSetInv /\ GlobalSetInv /\ \A u \in Clients : BucketRight(u)
LimiterInv == BucketsInv /\ SettingsInv /\ RatesInv

-----------------------------------------------------------------------------

LEMMA OfSingle == ASSUME NEW u, NEW b, bucket[u] = {b} PROVE Present(u) /\ Of(u) = b
BY DEF Present, Of

LEMMA OfPresent ==
    ASSUME BucketsInv, NEW u \in Clients, Present(u)
    PROVE  Of(u) \in Bucket /\ bucket[u] = {Of(u)}
BY OfSingle DEF BucketsInv, Present

LEMMA LimiterBegin == LimiterInit => LimiterInv
<1>. SUFFICES ASSUME LimiterInit PROVE LimiterInv
    OBVIOUS
<1>1. BucketsInv
    BY DEF LimiterInit, BucketsInv
<1>2. SettingsInv
    BY DEF LimiterInit, SettingsInv, Sets
<1>3. RatesInv
    BY DEF LimiterInit, RatesInv, UserSetInv, GlobalSetInv, BucketRight, Present, Sets, SetsUser
<1>. QED
    BY <1>1, <1>2, <1>3 DEF LimiterInv

\* Buckets whose rates stay, whatever is taken and refilled.
LEMMA RatesStay ==
    ASSUME LimiterInv, BucketsInv', SettingsInv', UNCHANGED <<override, globalRate, overlap>>,
           relayed \subseteq relayed',
           \A s \in Setters : \A op \in {"user", "global"} :
              /\ Sets(s, op)' = Sets(s, op)
              /\ Sets(s, op) => command'[s] = command[s],
           \A u \in Clients \ relayed' :
              Present(u)' => IF Present(u) THEN Of(u)'.rate = Of(u).rate ELSE Of(u)'.rate = Effective(u)
    PROVE  LimiterInv'
<1>1. \A s \in Setters, u \in Clients : SetsUser(s, u)' <=> SetsUser(s, u)
    BY DEF SetsUser
<1>2. UserSetInv'
    BY <1>1 DEF LimiterInv, RatesInv, UserSetInv, SetsUser
<1>3. GlobalSetInv'
    BY DEF LimiterInv, RatesInv, GlobalSetInv
<1>4. ASSUME NEW u \in Clients PROVE BucketRight(u)'
  <2>1. Settled(u)' <=> Settled(u)
      BY <1>1 DEF Settled
  <2>2. Effective(u)' = Effective(u)
      BY DEF Effective
  <2>. QED
      BY <2>1, <2>2 DEF LimiterInv, RatesInv, BucketRight
<1>. QED
    BY <1>2, <1>3, <1>4 DEF LimiterInv, RatesInv

LEMMA RefilledType ==
    ASSUME NEW b \in Bucket
    PROVE  Refilled(b) \in Bucket /\ Refilled(b).rate = b.rate
<1>1. /\ b.tokens \in Nat /\ b.since \in Nat /\ b.rate \in Nat /\ b.rate \in Rates
      /\ b.capacity \in Bursts /\ b.capacity \in Nat /\ b.capacity <= MaxBurst
  <2>1. b.tokens \in 0 .. MaxBurst /\ b.since \in 0 .. MaxBurst /\ b.rate \in Rates /\ b.capacity \in Bursts
      BY DEF Bucket
  <2>2. b.rate \in Nat /\ b.capacity \in Nat
      BY <2>1, LimiterAssumption
  <2>. QED
      BY <2>1, <2>2, MaxBurstIsLargest
<1>2. b.since * b.rate \in Nat
    BY <1>1
<1>3. PICK n \in Nat : n = b.since * b.rate
    BY <1>2
<1>4. LesserOf(b.capacity, b.tokens + n) \in 0 .. MaxBurst
    BY <1>1, MaxBurstIsLargest DEF LesserOf
<1>5. 0 \in 0 .. MaxBurst
    BY MaxBurstIsLargest
<1>6. Refilled(b) = [b EXCEPT !.tokens = LesserOf(b.capacity, b.tokens + n), !.since = 0]
    BY <1>3 DEF Refilled
<1>. QED
    BY <1>4, <1>5, <1>6 DEF Bucket

LEMMA FreshType ==
    ASSUME SettingsInv, NEW rate \in Rates
    PROVE  Fresh(rate) \in Bucket /\ Fresh(rate).rate = rate
<1>1. burst \in Bursts /\ burst \in 0 .. MaxBurst /\ 0 \in 0 .. MaxBurst
    BY MaxBurstIsLargest, LimiterAssumption DEF SettingsInv
<1>. QED
    BY <1>1 DEF Fresh, Bucket

\* One bucket is replaced by another.
LEMMA OneBucket ==
    ASSUME LimiterInv, NEW u \in Clients, NEW b \in Bucket, bucket' = [bucket EXCEPT ![u] = {b}],
           taking' \subseteq taking \cup {u}
    PROVE  /\ BucketsInv' /\ Present(u)' /\ Of(u)' = b
           /\ \A v \in Clients \ {u} : Present(v)' = Present(v) /\ Of(v)' = Of(v)
           /\ \A v \in Clients : Present(v) => Present(v)'
<1>1. bucket'[u] = {b} /\ \A v \in Clients \ {u} : bucket'[v] = bucket[v]
    BY DEF LimiterInv, BucketsInv
<1>2. Present(u)' /\ Of(u)' = b
    BY <1>1 DEF Present, Of
<1>3. \A v \in Clients \ {u} : Present(v)' = Present(v) /\ Of(v)' = Of(v)
    BY <1>1 DEF Present, Of
<1>4. BucketsInv'
    BY <1>1, <1>2, <1>3 DEF LimiterInv, BucketsInv
<1>. QED
    BY <1>2, <1>3, <1>4

LEMMA ConsumeKeeps ==
    ASSUME LimiterInv, NEW u \in Clients, NEW r \in Rates, NEW viaRelay \in BOOLEAN, Consume(u, r, viaRelay)
    PROVE  LimiterInv'
<1>. DEFINE b == IF Present(u) THEN Of(u) ELSE Fresh(r)
<1>1. b \in Bucket
    BY OfPresent, FreshType DEF LimiterInv
<1>2. /\ bucket' = [bucket EXCEPT ![u] = {Refilled(b)}] /\ taking' = taking \cup {u}
      /\ relayed' = IF viaRelay /\ ~Present(u) THEN relayed \cup {u} ELSE relayed
      /\ UNCHANGED <<override, globalRate, burst, command, overlap>>
    BY DEF Consume
<1>3. Refilled(b) \in Bucket /\ Refilled(b).rate = b.rate
    BY <1>1, RefilledType
<1>4. /\ BucketsInv' /\ Present(u)' /\ Of(u)' = Refilled(b)
      /\ \A v \in Clients \ {u} : Present(v)' = Present(v) /\ Of(v)' = Of(v)
      /\ \A v \in Clients : Present(v) => Present(v)'
    BY <1>2, <1>3, OneBucket
<1>5. SettingsInv'
    BY <1>2, <1>4 DEF LimiterInv, SettingsInv, Sets
<1>6. u \notin relayed' => IF Present(u) THEN Of(u)'.rate = Of(u).rate ELSE Of(u)'.rate = Effective(u)
  <2>1. CASE Present(u)
      BY <1>3, <1>4, <2>1
  <2>2. CASE ~Present(u) /\ ~viaRelay
    <3>1. Fresh(r).rate = r /\ r = Effective(u)
        BY <2>2, FreshType DEF Consume, LimiterInv
    <3>. QED
        BY <1>3, <1>4, <2>2, <3>1
  <2>3. CASE ~Present(u) /\ viaRelay
      BY <1>2, <2>3
  <2>. QED
      BY <2>1, <2>2, <2>3
<1>7. relayed \subseteq relayed' /\ \A s \in Setters : \A op \in {"user", "global"} :
              /\ Sets(s, op)' = Sets(s, op)
              /\ Sets(s, op) => command'[s] = command[s]
    BY <1>2 DEF Sets
<1>8. \A v \in Clients \ relayed' :
              Present(v)' => IF Present(v) THEN Of(v)'.rate = Of(v).rate ELSE Of(v)'.rate = Effective(v)
    BY <1>4, <1>6
<1>. QED
    BY <1>2, <1>4, <1>5, <1>7, <1>8, RatesStay

\* A bucket that is there is replaced by one with the same rate.
LEMMA SameRateKeeps ==
    ASSUME LimiterInv, NEW u \in Clients, Present(u), NEW b \in Bucket, b.rate = Of(u).rate,
           bucket' = [bucket EXCEPT ![u] = {b}],
           taking' \subseteq taking, UNCHANGED <<override, globalRate, burst, relayed, overlap>>,
           command' \in [Setters -> Commands \cup {NoCommand}],
           \A s \in Setters : command'[s] # command[s] => Sets(s, "burst") /\ Sets(s, "burst")',
           \A s \in Setters : Sets(s, "burst")' /\ command'[s].step = "write" =>
              \E v \in Clients : command'[s].user = {v} /\ Present(v)
    PROVE  LimiterInv'
<1>1. /\ BucketsInv' /\ Present(u)' /\ Of(u)' = b
      /\ \A v \in Clients \ {u} : Present(v)' = Present(v) /\ Of(v)' = Of(v)
      /\ \A v \in Clients : Present(v) => Present(v)'
    BY OneBucket
<1>2. SettingsInv'
    BY <1>1 DEF LimiterInv, SettingsInv
<1>3. \A s \in Setters : \A op \in {"user", "global"} :
              /\ Sets(s, op)' = Sets(s, op)
              /\ Sets(s, op) => command'[s] = command[s]
    BY DEF Sets
<1>4. \A v \in Clients \ relayed' :
              Present(v)' => IF Present(v) THEN Of(v)'.rate = Of(v).rate ELSE Of(v)'.rate = Effective(v)
    BY <1>1
<1>. QED
    BY <1>1, <1>2, <1>3, <1>4, RatesStay

LEMMA TakeKeeps ==
    ASSUME LimiterInv, NEW u \in Clients, Take(u)
    PROVE  LimiterInv'
<1>1. /\ taking' = taking \ {u} /\ UNCHANGED <<override, globalRate, burst, command, relayed, overlap>>
      /\ Present(u) /\ Of(u) \in Bucket
    BY OfPresent DEF Take, LimiterInv, BucketsInv
<1>2. /\ command \in [Setters -> Commands \cup {NoCommand}]
      /\ \A s \in Setters : Sets(s, "burst") /\ command[s].step = "write" =>
              \E v \in Clients : command[s].user = {v} /\ Present(v)
    BY DEF LimiterInv, SettingsInv
<1>3. CASE Of(u).tokens >= 1
  <2>. DEFINE b == [Of(u) EXCEPT !.tokens = @ - 1]
  <2>1. Of(u).tokens - 1 \in 0 .. MaxBurst
      BY <1>1, <1>3, MaxBurstIsLargest DEF Bucket
  <2>2. b \in Bucket /\ b.rate = Of(u).rate
      BY <1>1, <2>1 DEF Bucket
  <2>3. bucket' = [bucket EXCEPT ![u] = {b}]
      BY <1>3 DEF Take
  <2>. HIDE DEF b
  <2>4. \A s \in Setters : Sets(s, "burst")' /\ command'[s].step = "write" =>
              \E v \in Clients : command'[s].user = {v} /\ Present(v)
      BY <1>1, <1>2 DEF Sets
  <2>. QED
      BY <1>1, <1>2, <2>2, <2>3, <2>4, SameRateKeeps
<1>4. CASE ~(Of(u).tokens >= 1)
  <2>1. bucket' = [bucket EXCEPT ![u] = {Of(u)}]
      BY <1>1, <1>4, OfPresent DEF Take, LimiterInv, BucketsInv
  <2>2. \A s \in Setters : Sets(s, "burst")' /\ command'[s].step = "write" =>
              \E v \in Clients : command'[s].user = {v} /\ Present(v)
      BY <1>1, <1>2 DEF Sets
  <2>. QED
      BY <1>1, <1>2, <2>1, <2>2, SameRateKeeps
<1>. QED
    BY <1>3, <1>4

LEMMA LimiterTickKeeps ==
    ASSUME LimiterInv, LimiterTick
    PROVE  LimiterInv'
<1>. DEFINE Older(b) == [b EXCEPT !.since = LesserOf(MaxBurst, @ + 1)]
<1>1. ASSUME NEW b \in Bucket PROVE Older(b) \in Bucket /\ Older(b).rate = b.rate
  <2>1. b.since \in Nat /\ LesserOf(MaxBurst, b.since + 1) \in 0 .. MaxBurst
      BY MaxBurstIsLargest DEF Bucket, LesserOf
  <2>. QED
      BY <2>1 DEF Bucket
<1>. HIDE DEF Older
<1>2. /\ bucket' = [u \in Clients |-> {Older(b) : b \in bucket[u]}]
      /\ UNCHANGED <<override, globalRate, burst, taking, command, relayed, overlap>>
    BY DEF LimiterTick, Older
<1>3. ASSUME NEW u \in Clients
      PROVE  \/ bucket[u] = {} /\ bucket'[u] = {}
             \/ \E b \in Bucket : bucket[u] = {b} /\ bucket'[u] = {Older(b)}
    BY <1>2 DEF LimiterInv, BucketsInv
<1>4. BucketsInv'
    BY <1>1, <1>2, <1>3 DEF LimiterInv, BucketsInv, Present
<1>5. SettingsInv'
    BY <1>2, <1>3 DEF LimiterInv, SettingsInv, Sets, Present
<1>6. ASSUME NEW u \in Clients
      PROVE  Present(u)' = Present(u) /\ (Present(u) => Of(u)'.rate = Of(u).rate)
  <2>1. CASE bucket[u] = {} /\ bucket'[u] = {}
      BY <2>1 DEF Present
  <2>2. ASSUME NEW b \in Bucket, bucket[u] = {b}, bucket'[u] = {Older(b)}
        PROVE  Present(u)' = Present(u) /\ (Present(u) => Of(u)'.rate = Of(u).rate)
    <3>1. Present(u) /\ Of(u) = b
        BY <2>2 DEF Present, Of
    <3>2. Present(u)' /\ Of(u)' = Older(b)
        BY <2>2 DEF Present, Of
    <3>. QED
        BY <1>1, <3>1, <3>2
  <2>. QED
      BY <1>3, <2>1, <2>2
<1>7. \A s \in Setters : \A op \in {"user", "global"} :
              /\ Sets(s, op)' = Sets(s, op)
              /\ Sets(s, op) => command'[s] = command[s]
    BY <1>2 DEF Sets
<1>8. \A v \in Clients \ relayed' :
              Present(v)' => IF Present(v) THEN Of(v)'.rate = Of(v).rate ELSE Of(v)'.rate = Effective(v)
    BY <1>6
<1>. QED
    BY <1>2, <1>4, <1>5, <1>7, <1>8, RatesStay

-----------------------------------------------------------------------------

LEMMA CommandTypes ==
    /\ \A r \in Rates : LET c == [op |-> "global", rate |-> r, step |-> "apply"]
                        IN  c \in Commands /\ c # NoCommand
    /\ \A u \in Clients, r \in Rates : LET c == [op |-> "user", user |-> u, rate |-> r, step |-> "apply"]
                                       IN  c \in Commands /\ c # NoCommand
    /\ \A n \in Bursts : LET c == [op |-> "burst", capacity |-> n, step |-> "read",
                                   todo |-> Clients, user |-> {}, tokens |-> 0]
                         IN  c \in Commands /\ c # NoCommand
<1>1. 0 \in 0 .. MaxBurst
    BY MaxBurstIsLargest
<1>. QED
    BY <1>1, CommandAssumption DEF Commands

\* Whoever sets something runs in its scope.
LEMMA SettersRun ==
    ASSUME NEW s \in Setters
    PROVE  /\ Sets(s, "global") => "global" \in Running
           /\ \A u : SetsUser(s, u) => u \in Running
<1>1. Scope(command[s]) \subseteq Running
    BY DEF Running
<1>2. Sets(s, "global") => Scope(command[s]) = {"global"}
    BY DEF Sets, Scope
<1>3. \A u : SetsUser(s, u) => Scope(command[s]) = {u}
    BY DEF SetsUser, Sets, Scope
<1>. QED
    BY <1>1, <1>2, <1>3

\* A command that is issued touches no bucket.
LEMMA IssueTypes ==
    ASSUME LimiterInv, NEW s \in Setters, NEW c \in Commands, c # NoCommand, Issue(s, c), c.step # "write",
           override' \in [Clients -> Rates \cup {NoRate}], globalRate' \in Rates, burst' \in Bursts
    PROVE  /\ BucketsInv' /\ SettingsInv' /\ command[s] = NoCommand
           /\ command' = [command EXCEPT ![s] = c] /\ command \in [Setters -> Commands \cup {NoCommand}]
           /\ UNCHANGED <<bucket, relayed>> /\ overlap' = overlap \cup (Scope(c) \cap Running)
           /\ \A u \in Clients : Present(u)' = Present(u) /\ Of(u)' = Of(u)
<1>1. /\ command' = [command EXCEPT ![s] = c] /\ command[s] = NoCommand
      /\ UNCHANGED <<bucket, taking, relayed>> /\ overlap' = overlap \cup (Scope(c) \cap Running)
      /\ command \in [Setters -> Commands \cup {NoCommand}]
    BY DEF Issue, LimiterInv, SettingsInv
<1>2. \A u \in Clients : Present(u)' = Present(u) /\ Of(u)' = Of(u)
    BY <1>1 DEF Present, Of
<1>3. BucketsInv'
    BY <1>1 DEF LimiterInv, BucketsInv, Present
<1>4. overlap' \subseteq Clients \cup {"global"}
  <2>1. Scope(c) \subseteq Clients \cup {"global"}
    <3>1. CASE c.op = "global"
        BY <3>1 DEF Scope
    <3>2. CASE c.op = "user"
      <4>1. c.user \in Clients
          BY <3>2 DEF Commands
      <4>. QED
          BY <3>2, <4>1 DEF Scope
    <3>3. CASE c.op \notin {"global", "user"}
        BY <3>3 DEF Scope
    <3>. QED
        BY <3>1, <3>2, <3>3
  <2>. QED
      BY <1>1, <2>1 DEF LimiterInv, SettingsInv
<1>5. \A t \in Setters : Sets(t, "burst")' /\ command'[t].step = "write" =>
           \E u \in Clients : command'[t].user = {u} /\ Present(u)'
    BY <1>1, <1>2 DEF LimiterInv, SettingsInv, Sets
<1>6. SettingsInv'
    BY <1>1, <1>4, <1>5 DEF LimiterInv, SettingsInv
<1>. QED
    BY <1>1, <1>2, <1>3, <1>6

LEMMA SetGlobalRateKeeps ==
    ASSUME LimiterInv, NEW s \in Setters, NEW r \in Rates, SetGlobalRate(s, r)
    PROVE  LimiterInv'
<1>. DEFINE c == [op |-> "global", rate |-> r, step |-> "apply"]
<1>1. c \in Commands /\ c # NoCommand /\ c.op = "global" /\ c.rate = r /\ c.step = "apply"
    BY CommandTypes
<1>2. Issue(s, c) /\ globalRate' = r /\ UNCHANGED <<override, burst>>
    BY DEF SetGlobalRate
<1>3. Scope(c) = {"global"}
    BY <1>1 DEF Scope
<1>. HIDE DEF c
<1>4. /\ BucketsInv' /\ SettingsInv' /\ command[s] = NoCommand
      /\ command' = [command EXCEPT ![s] = c] /\ command \in [Setters -> Commands \cup {NoCommand}]
      /\ UNCHANGED <<bucket, relayed>> /\ overlap' = overlap \cup (Scope(c) \cap Running)
      /\ \A u \in Clients : Present(u)' = Present(u) /\ Of(u)' = Of(u)
    BY <1>1, <1>2, IssueTypes DEF LimiterInv, SettingsInv
<1>5. /\ \A t \in Setters \ {s} : command'[t] = command[t]
      /\ command'[s] = c
    BY <1>4
<1>6. \A t \in Setters, u \in Clients : SetsUser(t, u)' <=> SetsUser(t, u)
    BY <1>1, <1>4, <1>5 DEF SetsUser, Sets
<1>7. UserSetInv'
    BY <1>1, <1>2, <1>4, <1>5, <1>6 DEF LimiterInv, RatesInv, UserSetInv, SetsUser, Sets
<1>8. GlobalSetInv'
  <2>1. "global" \notin overlap' => \A t \in Setters : ~Sets(t, "global")
      BY <1>3, <1>4, SettersRun
  <2>. QED
      BY <1>1, <1>2, <1>5, <2>1 DEF GlobalSetInv, Sets
<1>9. ASSUME NEW u \in Clients PROVE BucketRight(u)'
  <2>1. Sets(s, "global")'
      BY <1>1, <1>5 DEF Sets
  <2>2. Settled(u)' => override[u] # NoRate /\ Settled(u)
      BY <1>2, <1>6, <2>1 DEF Settled
  <2>3. override[u] # NoRate => Effective(u)' = Effective(u)
      BY <1>2 DEF Effective
  <2>. QED
      BY <1>4, <2>2, <2>3 DEF LimiterInv, RatesInv, BucketRight
<1>. QED
    BY <1>4, <1>7, <1>8, <1>9 DEF LimiterInv, RatesInv

LEMMA SetUserRateKeeps ==
    ASSUME LimiterInv, NEW s \in Setters, NEW v \in Clients, NEW r \in Rates, SetUserRate(s, v, r)
    PROVE  LimiterInv'
<1>. DEFINE c == [op |-> "user", user |-> v, rate |-> r, step |-> "apply"]
<1>1. c \in Commands /\ c # NoCommand /\ c.op = "user" /\ c.user = v /\ c.rate = r /\ c.step = "apply"
    BY CommandTypes
<1>2. Issue(s, c) /\ override' = [override EXCEPT ![v] = r] /\ UNCHANGED <<globalRate, burst>>
    BY DEF SetUserRate
<1>3. Scope(c) = {v}
    BY <1>1 DEF Scope
<1>. HIDE DEF c
<1>4. override' \in [Clients -> Rates \cup {NoRate}] /\ override'[v] = r
      /\ \A u \in Clients \ {v} : override'[u] = override[u]
    BY <1>2 DEF LimiterInv, SettingsInv
<1>5. /\ BucketsInv' /\ SettingsInv' /\ command[s] = NoCommand
      /\ command' = [command EXCEPT ![s] = c] /\ command \in [Setters -> Commands \cup {NoCommand}]
      /\ UNCHANGED <<bucket, relayed>> /\ overlap' = overlap \cup (Scope(c) \cap Running)
      /\ \A u \in Clients : Present(u)' = Present(u) /\ Of(u)' = Of(u)
    BY <1>1, <1>2, <1>4, IssueTypes DEF LimiterInv, SettingsInv
<1>6. /\ \A t \in Setters \ {s} : command'[t] = command[t]
      /\ command'[s] = c
    BY <1>5
<1>7. /\ \A t \in Setters : Sets(t, "global")' <=> Sets(t, "global")
      /\ \A t \in Setters : \A u \in Clients \ {v} : SetsUser(t, u)' <=> SetsUser(t, u)
    BY <1>1, <1>5, <1>6 DEF SetsUser, Sets
<1>8. UserSetInv'
  <2>1. v \notin overlap' => \A t \in Setters : ~SetsUser(t, v)
      BY <1>3, <1>5, SettersRun
  <2>2. \A u \in (Clients \ overlap') \ {v} : \A t \in Setters : SetsUser(t, u)' =>
            override'[u] = command'[t].rate /\ \A q \in Setters : SetsUser(q, u)' => q = t
      BY <1>1, <1>4, <1>5, <1>6, <1>7 DEF LimiterInv, RatesInv, UserSetInv, SetsUser, Sets
  <2>3. v \notin overlap' => \A t \in Setters : SetsUser(t, v)' => t = s
      BY <1>6, <2>1 DEF SetsUser, Sets
  <2>4. v \notin overlap' => \A t \in Setters : SetsUser(t, v)' =>
            override'[v] = command'[t].rate /\ \A q \in Setters : SetsUser(q, v)' => q = t
      BY <1>1, <1>4, <1>6, <2>3
  <2>. QED
      BY <2>2, <2>4 DEF UserSetInv
<1>9. GlobalSetInv'
    BY <1>1, <1>2, <1>5, <1>6, <1>7 DEF LimiterInv, RatesInv, GlobalSetInv, Sets
<1>10. ASSUME NEW u \in Clients PROVE BucketRight(u)'
  <2>1. CASE u = v
    <3>1. SetsUser(s, v)'
        BY <1>1, <1>6 DEF SetsUser, Sets
    <3>. QED
        BY <2>1, <3>1 DEF BucketRight, Settled
  <2>2. CASE u # v
    <3>1. Settled(u)' <=> Settled(u)
        BY <1>4, <1>7, <2>2 DEF Settled
    <3>2. Effective(u)' = Effective(u)
        BY <1>2, <1>4, <2>2 DEF Effective
    <3>. QED
        BY <1>5, <3>1, <3>2 DEF LimiterInv, RatesInv, BucketRight
  <2>. QED
      BY <2>1, <2>2
<1>. QED
    BY <1>5, <1>8, <1>9, <1>10 DEF LimiterInv, RatesInv

LEMMA SetBurstKeeps ==
    ASSUME LimiterInv, NEW s \in Setters, NEW n \in Bursts, SetBurst(s, n)
    PROVE  LimiterInv'
<1>. DEFINE c == [op |-> "burst", capacity |-> n, step |-> "read", todo |-> Clients, user |-> {}, tokens |-> 0]
<1>1. c \in Commands /\ c # NoCommand /\ c.op = "burst" /\ c.step = "read"
    BY CommandTypes
<1>2. Issue(s, c) /\ burst' = n /\ UNCHANGED <<override, globalRate>>
    BY DEF SetBurst
<1>3. Scope(c) = {}
    BY <1>1 DEF Scope
<1>. HIDE DEF c
<1>4. /\ BucketsInv' /\ SettingsInv' /\ command[s] = NoCommand
      /\ command' = [command EXCEPT ![s] = c] /\ command \in [Setters -> Commands \cup {NoCommand}]
      /\ UNCHANGED <<bucket, relayed>> /\ overlap' = overlap \cup (Scope(c) \cap Running)
      /\ \A u \in Clients : Present(u)' = Present(u) /\ Of(u)' = Of(u)
    BY <1>1, <1>2, IssueTypes DEF LimiterInv, SettingsInv
<1>5. overlap' = overlap
    BY <1>3, <1>4
<1>6. \A t \in Setters : \A op \in {"user", "global"} :
              /\ Sets(t, op)' = Sets(t, op)
              /\ Sets(t, op) => command'[t] = command[t]
    BY <1>1, <1>4 DEF Sets
<1>7. \A v \in Clients \ relayed' :
              Present(v)' => IF Present(v) THEN Of(v)'.rate = Of(v).rate ELSE Of(v)'.rate = Effective(v)
    BY <1>4
<1>. QED
    BY <1>2, <1>4, <1>5, <1>6, <1>7, RatesStay

\* The rates a command sets are right in every bucket it affects.
LEMMA ApplyRateKeeps ==
    ASSUME LimiterInv, NEW s \in Setters, ApplyRate(s)
    PROVE  LimiterInv'
<1>. DEFINE c == command[s]
            Changed(u) == [(IF Present(u) THEN Of(u) ELSE Fresh(c.rate)) EXCEPT !.rate = c.rate]
<1>1. /\ c \in Commands /\ c # NoCommand /\ c.step = "apply"
      /\ command \in [Setters -> Commands \cup {NoCommand}]
    BY DEF ApplyRate, LimiterInv, SettingsInv
<1>2. /\ c.op \in {"global", "user"} /\ c.rate \in Rates
      /\ c.op = "user" => c.user \in Clients
    BY <1>1 DEF Commands
<1>3. /\ bucket' = [u \in Clients |-> IF Affects(c, u) THEN {Changed(u)} ELSE bucket[u]]
      /\ relayed' = {u \in relayed : ~Affects(c, u)}
      /\ command' = [command EXCEPT ![s] = NoCommand]
      /\ UNCHANGED <<override, globalRate, burst, taking, overlap>>
    BY DEF ApplyRate
<1>4. ASSUME NEW u \in Clients PROVE Changed(u) \in Bucket /\ Changed(u).rate = c.rate
  <2>1. PICK b \in Bucket : b = IF Present(u) THEN Of(u) ELSE Fresh(c.rate)
      BY <1>2, OfPresent, FreshType DEF LimiterInv
  <2>2. Changed(u) = [b EXCEPT !.rate = c.rate]
      BY <2>1
  <2>. HIDE DEF Changed
  <2>. QED
      BY <1>2, <2>2 DEF Bucket
<1>. HIDE DEF Changed
<1>5. ASSUME NEW u \in Clients
      PROVE  /\ Affects(c, u) => Present(u)' /\ Of(u)'.rate = c.rate /\ bucket'[u] = {Changed(u)}
             /\ ~Affects(c, u) => Present(u)' = Present(u) /\ Of(u)' = Of(u) /\ bucket'[u] = bucket[u]
  <2>1. CASE Affects(c, u)
    <3>1. bucket'[u] = {Changed(u)}
        BY <1>3, <2>1
    <3>2. Present(u)' /\ Of(u)' = Changed(u)
        BY <3>1 DEF Present, Of
    <3>. QED
        BY <1>4, <2>1, <3>1, <3>2
  <2>2. CASE ~Affects(c, u)
    <3>1. bucket'[u] = bucket[u]
        BY <1>3, <2>2
    <3>. QED
        BY <2>2, <3>1 DEF Present, Of
  <2>. QED
      BY <2>1, <2>2
<1>6. BucketsInv'
    BY <1>3, <1>4, <1>5 DEF LimiterInv, BucketsInv
<1>7. /\ \A t \in Setters \ {s} : command'[t] = command[t]
      /\ command'[s] = NoCommand
    BY <1>1, <1>3
<1>8. SettingsInv'
    BY <1>1, <1>3, <1>5, <1>7 DEF LimiterInv, SettingsInv, Sets
<1>9. UserSetInv' /\ GlobalSetInv'
    BY <1>3, <1>7 DEF LimiterInv, RatesInv, UserSetInv, GlobalSetInv, SetsUser, Sets
<1>10. ASSUME NEW u \in Clients PROVE BucketRight(u)'
  <2>. SUFFICES ASSUME Present(u)', u \notin relayed', u \notin overlap, "global" \notin overlap, Settled(u)'
                PROVE  Of(u)'.rate = Effective(u)'
      BY <1>3 DEF BucketRight
  <2>1. Effective(u)' = Effective(u)
      BY <1>3 DEF Effective
  <2>2. CASE c.op = "user" /\ c.user = u
    <3>1. SetsUser(s, u)
        BY <1>1, <2>2 DEF SetsUser, Sets
    <3>2. override[u] = c.rate /\ c.rate # NoRate
        BY <1>2, <3>1, LimiterAssumption DEF LimiterInv, RatesInv, UserSetInv
    <3>3. Affects(c, u)
        BY <2>2 DEF Affects
    <3>. QED
        BY <1>5, <2>1, <3>2, <3>3 DEF Effective
  <2>3. CASE c.op = "global" /\ Affects(c, u)
    <3>1. override[u] = NoRate /\ Sets(s, "global")
        BY <1>1, <2>3 DEF Affects, Sets
    <3>2. globalRate = c.rate
        BY <3>1 DEF LimiterInv, RatesInv, GlobalSetInv
    <3>. QED
        BY <1>5, <2>1, <2>3, <3>1, <3>2 DEF Effective
  <2>4. CASE ~Affects(c, u) /\ ~(c.op = "user" /\ c.user = u)
    <3>1. Present(u) /\ u \notin relayed
        BY <1>3, <1>5, <2>4
    <3>2. \A t \in Setters : ~SetsUser(t, u)
        BY <1>7, <2>4 DEF Settled, SetsUser, Sets
    <3>3. override[u] = NoRate => c.op # "global"
        BY <2>4, <3>1 DEF Affects
    <3>4. override[u] = NoRate => \A t \in Setters : ~Sets(t, "global")
        BY <1>3, <1>7, <3>3 DEF Settled, Sets
    <3>. QED
        BY <1>5, <2>1, <2>4, <3>1, <3>2, <3>4 DEF LimiterInv, RatesInv, BucketRight, Settled
  <2>. QED
      BY <1>2, <2>2, <2>3, <2>4 DEF Affects
<1>. QED
    BY <1>6, <1>8, <1>9, <1>10 DEF LimiterInv, RatesInv

BurstCommands == [op : {"burst"}, capacity : Bursts, step : {"read", "write"},
                  todo : SUBSET Clients, user : SUBSET Clients, tokens : 0..MaxBurst]

LEMMA BurstType ==
    ASSUME SettingsInv, NEW s \in Setters, command[s] # NoCommand, command[s].step \in {"read", "write"}
    PROVE  command[s] \in BurstCommands /\ Sets(s, "burst") /\ BurstCommands \subseteq Commands
BY DEF SettingsInv, Commands, BurstCommands, Sets

LEMMA BurstReadKeeps ==
    ASSUME LimiterInv, NEW s \in Setters, NEW u \in Clients, BurstRead(s, u)
    PROVE  LimiterInv'
<1>. DEFINE b == [Of(u) EXCEPT !.capacity = command[s].capacity]
            c == [command[s] EXCEPT !.step = "write", !.user = {u}, !.todo = @ \ {u}, !.tokens = Of(u).tokens]
<1>1. /\ command[s] \in BurstCommands /\ Sets(s, "burst") /\ BurstCommands \subseteq Commands
      /\ command \in [Setters -> Commands \cup {NoCommand}]
    BY BurstType DEF BurstRead, LimiterInv, SettingsInv
<1>2. Of(u) \in Bucket /\ Present(u)
    BY OfPresent DEF BurstRead, LimiterInv
<1>3. b \in Bucket /\ b.rate = Of(u).rate
    BY <1>1, <1>2 DEF BurstCommands, Bucket
<1>4. c \in BurstCommands /\ c.op = "burst" /\ c.user = {u}
    BY <1>1, <1>2 DEF BurstCommands, Bucket
<1>5. /\ bucket' = [bucket EXCEPT ![u] = {b}]
      /\ UNCHANGED <<override, globalRate, burst, taking, relayed, overlap>>
    BY DEF BurstRead
<1>6. command' = [command EXCEPT ![s] = c]
    BY <1>1 DEF BurstRead
<1>. HIDE DEF b, c
<1>7. c # NoCommand
    BY <1>1, <1>4, CommandAssumption
<1>8. command' \in [Setters -> Commands \cup {NoCommand}]
    BY <1>1, <1>4, <1>6
<1>9. \A t \in Setters : command'[t] # command[t] => Sets(t, "burst") /\ Sets(t, "burst")'
    BY <1>1, <1>4, <1>6, <1>7 DEF Sets
<1>10. \A t \in Setters : Sets(t, "burst")' /\ command'[t].step = "write" =>
              \E v \in Clients : command'[t].user = {v} /\ Present(v)
    BY <1>1, <1>2, <1>4, <1>6 DEF LimiterInv, SettingsInv, Sets
<1>. QED
    BY <1>2, <1>3, <1>5, <1>8, <1>9, <1>10, SameRateKeeps

LEMMA BurstWriteKeeps ==
    ASSUME LimiterInv, NEW s \in Setters, BurstWrite(s)
    PROVE  LimiterInv'
<1>1. /\ command[s] \in BurstCommands /\ Sets(s, "burst") /\ BurstCommands \subseteq Commands
      /\ command \in [Setters -> Commands \cup {NoCommand}] /\ command[s].step = "write"
    BY BurstType DEF BurstWrite, LimiterInv, SettingsInv
<1>2. PICK u \in Clients : command[s].user = {u} /\ Present(u)
    BY <1>1 DEF LimiterInv, SettingsInv
<1>3. u = CHOOSE x \in command[s].user : TRUE
    BY <1>2
<1>. DEFINE b == [Of(u) EXCEPT !.tokens = LesserOf(command[s].tokens, command[s].capacity)]
            c == [command[s] EXCEPT !.step = "read", !.user = {}, !.tokens = 0]
<1>4. Of(u) \in Bucket
    BY <1>2, OfPresent DEF LimiterInv
<1>5. b \in Bucket /\ b.rate = Of(u).rate
  <2>1. command[s].tokens \in 0 .. MaxBurst /\ command[s].capacity \in Bursts
      BY <1>1 DEF BurstCommands
  <2>2. command[s].capacity \in Nat
      BY <2>1, LimiterAssumption
  <2>3. LesserOf(command[s].tokens, command[s].capacity) \in 0 .. MaxBurst
      BY <2>1, <2>2, MaxBurstIsLargest DEF LesserOf
  <2>. QED
      BY <1>4, <2>3 DEF Bucket
<1>6. c \in BurstCommands /\ c.op = "burst" /\ c.step = "read"
  <2>1. 0 \in 0 .. MaxBurst
      BY MaxBurstIsLargest
  <2>. QED
      BY <1>1, <2>1 DEF BurstCommands
<1>7. /\ bucket' = [bucket EXCEPT ![u] = {b}]
      /\ UNCHANGED <<override, globalRate, burst, taking, relayed, overlap>>
    BY <1>3 DEF BurstWrite
<1>8. command' = [command EXCEPT ![s] = c]
    BY <1>1 DEF BurstWrite
<1>. HIDE DEF b, c
<1>9. c # NoCommand
    BY <1>1, <1>6, CommandAssumption
<1>10. command' \in [Setters -> Commands \cup {NoCommand}]
    BY <1>1, <1>6, <1>8
<1>11. \A t \in Setters : command'[t] # command[t] => Sets(t, "burst") /\ Sets(t, "burst")'
    BY <1>1, <1>6, <1>8, <1>9 DEF Sets
<1>12. \A t \in Setters : Sets(t, "burst")' /\ command'[t].step = "write" =>
              \E v \in Clients : command'[t].user = {v} /\ Present(v)
    BY <1>1, <1>6, <1>8 DEF LimiterInv, SettingsInv, Sets
<1>. QED
    BY <1>2, <1>5, <1>7, <1>10, <1>11, <1>12, SameRateKeeps

LEMMA BurstDoneKeeps ==
    ASSUME LimiterInv, NEW s \in Setters, BurstDone(s)
    PROVE  LimiterInv'
<1>1. /\ Sets(s, "burst") /\ command \in [Setters -> Commands \cup {NoCommand}]
    BY BurstType DEF BurstDone, LimiterInv, SettingsInv
<1>2. /\ command' = [command EXCEPT ![s] = NoCommand]
      /\ UNCHANGED <<bucket, override, globalRate, burst, taking, relayed, overlap>>
    BY DEF BurstDone
<1>3. BucketsInv' /\ \A u \in Clients : Present(u)' = Present(u) /\ Of(u)' = Of(u)
    BY <1>2 DEF LimiterInv, BucketsInv, Present, Of
<1>4. SettingsInv'
    BY <1>1, <1>2, <1>3 DEF LimiterInv, SettingsInv, Sets
<1>5. \A t \in Setters : \A op \in {"user", "global"} :
              /\ Sets(t, op)' = Sets(t, op)
              /\ Sets(t, op) => command'[t] = command[t]
    BY <1>1, <1>2 DEF Sets
<1>6. \A v \in Clients \ relayed' :
              Present(v)' => IF Present(v) THEN Of(v)'.rate = Of(v).rate ELSE Of(v)'.rate = Effective(v)
    BY <1>3
<1>. QED
    BY <1>2, <1>3, <1>4, <1>5, <1>6, RatesStay

LEMMA LimiterStepKeeps == LimiterInv /\ [LimiterNext]_limiterVars => LimiterInv'
<1>. SUFFICES ASSUME LimiterInv, [LimiterNext]_limiterVars PROVE LimiterInv'
    OBVIOUS
<1>1. CASE UNCHANGED limiterVars
    BY <1>1 DEF limiterVars, LimiterInv, BucketsInv, SettingsInv, RatesInv, UserSetInv, GlobalSetInv,
       BucketRight, Settled, SetsUser, Sets, Present, Of, Effective
<1>2. ASSUME NEW u \in Clients, Take(u) PROVE LimiterInv'
    BY <1>2, TakeKeeps
<1>3. ASSUME NEW u \in Clients, NEW r \in Rates, NEW viaRelay \in BOOLEAN, Consume(u, r, viaRelay)
      PROVE  LimiterInv'
    BY <1>3, ConsumeKeeps
<1>4. CASE LimiterTick
    BY <1>4, LimiterTickKeeps
<1>5. ASSUME NEW s \in Setters, NEW r \in Rates,
             SetGlobalRate(s, r) \/ \E u \in Clients : SetUserRate(s, u, r)
      PROVE  LimiterInv'
    BY <1>5, SetGlobalRateKeeps, SetUserRateKeeps
<1>6. ASSUME NEW s \in Setters,
             \/ \E n \in Bursts : SetBurst(s, n)
             \/ ApplyRate(s) \/ BurstWrite(s) \/ BurstDone(s)
             \/ \E u \in Clients : BurstRead(s, u)
      PROVE  LimiterInv'
    BY <1>6, SetBurstKeeps, ApplyRateKeeps, BurstReadKeeps, BurstWriteKeeps, BurstDoneKeeps
<1>. QED
    BY <1>1, <1>2, <1>3, <1>4, <1>5, <1>6 DEF LimiterNext

\* When no command that sets rates is at work, a bucket refills at the user's own
\* rate if one is set and at the global one otherwise, but for commands that
\* overlapped and for buckets a relay made (token_bucket.py).
THEOREM BucketsHaveTheirRate == LimiterSpec => []RatesAgree
<1>1. LimiterInv => RatesAgree
  <2>. SUFFICES ASSUME LimiterInv, NEW u \in Clients, Present(u), u \notin relayed,
                       overlap \cap {u, "global"} = {},
                       \A s \in Setters : command[s] = NoCommand \/ command[s].op = "burst"
                PROVE  Of(u).rate = Effective(u)
      BY DEF RatesAgree
  <2>1. Settled(u)
      BY DEF Settled, SetsUser, Sets
  <2>. QED
      BY <2>1 DEF LimiterInv, RatesInv, BucketRight
<1>. QED
    BY <1>1, LimiterBegin, LimiterStepKeeps, PTL DEF LimiterSpec

\* No bucket holds more tokens than any capacity that was set, and none owes any,
\* although set_burst writes back what it read before others took tokens.
THEOREM LimiterTypeCorrect == LimiterSpec => []LimiterTypeOK
<1>1. LimiterInv => LimiterTypeOK
  <2>. SUFFICES ASSUME LimiterInv PROVE LimiterTypeOK
      OBVIOUS
  <2>1. ASSUME NEW u \in Clients PROVE bucket[u] \subseteq Bucket /\ Cardinality(bucket[u]) <= 1
    <3>1. bucket[u] = {} \/ \E b \in Bucket : bucket[u] = {b}
        BY DEF LimiterInv, BucketsInv
    <3>2. Cardinality(bucket[u]) \in {0, 1}
        BY <3>1, FS_EmptySet, FS_Singleton
    <3>. QED
        BY <3>1, <3>2
  <2>. QED
      BY <2>1 DEF LimiterInv, BucketsInv, SettingsInv, LimiterTypeOK
<1>. QED
    BY <1>1, LimiterBegin, LimiterStepKeeps, PTL DEF LimiterSpec

-----------------------------------------------------------------------------
(* ForumLoad: the level and the load. *)

LoadInv == LoadTypeOK /\ LevelTracksLoad

\* The hysteresis in hundredths of users.
LEMMA SlackIsNat == Hysteresis * MaxOnline \in Nat
BY LoadAssumption

LEMMA LoadBegin == LoadInit => LoadInv
<1>. SUFFICES ASSUME LoadInit PROVE LoadInv
    OBVIOUS
<1>1. LoadTypeOK
    BY LoadAssumption DEF LoadInit, LoadTypeOK, Gone, Ratios, NotCounting
<1>2. LevelTracksLoad
    BY SlackIsNat DEF LoadInit, LevelTracksLoad
<1>. QED
    BY <1>1, <1>2 DEF LoadInv

\* A new level is the ratio itself or stands, and then not too far above it.
LEMMA NewLevelTracks ==
    ASSUME level \in Ratios, NEW ratio \in Ratios
    PROVE  /\ NewLevel(ratio) \in Ratios /\ ratio <= NewLevel(ratio)
           /\ 100 * NewLevel(ratio) <= 100 * ratio + Hysteresis * MaxOnline
<1>1. PICK h \in Nat : h = Hysteresis * MaxOnline
    BY SlackIsNat
<1>2. level \in Nat /\ ratio \in Nat
    BY LoadAssumption DEF Ratios
<1>3. CASE ratio > level \/ 100 * ratio < 100 * level - h
    BY <1>1, <1>2, <1>3 DEF NewLevel
<1>4. CASE ~(ratio > level \/ 100 * ratio < 100 * level - h)
    BY <1>1, <1>2, <1>4 DEF NewLevel
<1>. QED
    BY <1>3, <1>4

LEMMA VisitorsKeep ==
    ASSUME LoadInv,
           \/ \E u \in Visitors : Wake(u)
           \/ \E u \in Visitors, kind \in Kinds : Pass(u, kind) \/ Delay(u, kind) \/ Refuse(u, kind)
           \/ Tick \/ UNCHANGED loadVars
    PROVE  LoadInv'
<1>1. UNCHANGED <<level, measured, counting>>
    BY DEF Wake, Pass, Delay, Refuse, Tick, loadVars
<1>2. idle' \in [Visitors -> 0..Gone]
  <2>1. ASSUME NEW u \in Visitors PROVE Marked(u) \in [Visitors -> 0..Gone]
      BY LoadAssumption DEF Marked, LoadInv, LoadTypeOK, Gone
  <2>2. CASE Tick
    <3>1. ASSUME NEW u \in Visitors
          PROVE  (IF idle[u] < Gone - 1 THEN idle[u] + 1 ELSE idle[u]) \in 0..Gone
        BY LoadAssumption DEF LoadInv, LoadTypeOK, Gone
    <3>. QED
        BY <2>2, <3>1 DEF Tick
  <2>3. CASE ~Tick
    <3>1. idle' = idle \/ \E u \in Visitors : idle' = Marked(u)
        BY <2>3 DEF Wake, Pass, Delay, Refuse, loadVars
    <3>. QED
        BY <2>1, <3>1 DEF LoadInv, LoadTypeOK
  <2>. QED
      BY <2>2, <2>3
<1>3. gate' \in [Visitors -> {"none", "delayed"}]
    BY DEF LoadInv, LoadTypeOK, Wake, Pass, Delay, Refuse, Tick, loadVars
<1>. QED
    BY <1>1, <1>2, <1>3 DEF LoadInv, LoadTypeOK, LevelTracksLoad

LEMMA CountKeeps ==
    ASSUME LoadInv, Count
    PROVE  LoadInv'
<1>. DEFINE onlineNow == {u \in Visitors : ~Expired(u)}
<1>1. Cardinality(onlineNow) \in Nat
    BY LoadAssumption, FS_Subset, FS_CardinalityType
<1>2. counting' = IF Cardinality(onlineNow) < MaxOnline THEN Cardinality(onlineNow) ELSE MaxOnline
    BY DEF Count
<1>3. counting' \in Ratios
    BY <1>1, <1>2, LoadAssumption DEF Ratios
<1>4. idle' \in [Visitors -> 0..Gone]
  <2>1. Gone \in 0..Gone
      BY LoadAssumption DEF Gone
  <2>. QED
      BY <2>1 DEF Count, LoadInv, LoadTypeOK
<1>. QED
    BY <1>3, <1>4 DEF Count, LoadInv, LoadTypeOK, LevelTracksLoad

LEMMA UpdateKeeps ==
    ASSUME LoadInv, Update
    PROVE  LoadInv'
<1>1. counting \in Ratios /\ level \in Ratios
    BY DEF Update, LoadInv, LoadTypeOK
<1>2. level' = NewLevel(counting) /\ measured' = counting /\ counting' = NotCounting /\ UNCHANGED <<idle, gate>>
    BY DEF Update
<1>3. LevelTracksLoad' /\ level' \in Ratios
    BY <1>1, <1>2, NewLevelTracks DEF LevelTracksLoad
<1>. QED
    BY <1>1, <1>2, <1>3 DEF LoadInv, LoadTypeOK

LEMMA LoadStepKeeps == LoadInv /\ [LoadNext]_loadVars => LoadInv'
<1>. SUFFICES ASSUME LoadInv, [LoadNext]_loadVars PROVE LoadInv'
    OBVIOUS
<1>1. CASE LoadRestart
  <2>1. LoadTypeOK'
      BY <1>1, LoadAssumption DEF LoadRestart, LoadTypeOK, Gone, Ratios, NotCounting
  <2>2. LevelTracksLoad'
      BY <1>1, SlackIsNat DEF LoadRestart, LevelTracksLoad
  <2>. QED
      BY <2>1, <2>2 DEF LoadInv
<1>. QED
    BY <1>1, VisitorsKeep, CountKeeps, UpdateKeeps DEF LoadNext

\* The level by which the gate decides is never below the load that was measured
\* last, and above it by no more than the hysteresis (update_load).
THEOREM LevelFollowsLoad == LoadSpec => []LevelTracksLoad
<1>1. LoadInv => LevelTracksLoad
    BY DEF LoadInv
<1>. QED
    BY <1>1, LoadBegin, LoadStepKeeps, PTL DEF LoadSpec

-----------------------------------------------------------------------------
(* ServerStart: the entries of an identity. *)

\* A setup has written the entries before the one it writes next, the node id
\* after the keys, and no entry is ever taken back.
IdentityInv ==
    /\ keyring \in [Names -> Nat] /\ setup \in 0 .. 7 /\ setups \in Nat
    /\ setup > 0 => setups > 0
    /\ setup > 3 => keyring["x_priv"] # 0
    /\ setup > 4 => keyring["x_pub"] # 0
    /\ setup > 5 => keyring["e_priv"] # 0
    /\ setup > 6 => keyring["e_pub"] # 0
    /\ keyring["node_id"] # 0 => ServerKeys

StartInv == IdentityInv /\ IdentityComplete /\ stage \in Stages

LEMMA EntryNames ==
    /\ Len(Entries) = 7 /\ Names = {"pin_hash", "pin_salt", "node_id"} \cup Keys
    /\ Entries[1] = "pin_hash" /\ Entries[2] = "pin_salt" /\ Entries[3] = "x_priv" /\ Entries[4] = "x_pub"
    /\ Entries[5] = "e_priv" /\ Entries[6] = "e_pub" /\ Entries[7] = "node_id"
<1>1. /\ Len(Entries) = 7
      /\ Entries[1] = "pin_hash" /\ Entries[2] = "pin_salt" /\ Entries[3] = "x_priv" /\ Entries[4] = "x_pub"
      /\ Entries[5] = "e_priv" /\ Entries[6] = "e_pub" /\ Entries[7] = "node_id"
    BY DEF Entries
<1>2. 1 .. 7 = {1, 2, 3, 4, 5, 6, 7}
    OBVIOUS
<1>. QED
    BY <1>1, <1>2 DEF Names, Keys

LEMMA StartBegin == StartInit => StartInv
BY EntryNames DEF StartInit, StartInv, IdentityInv, IdentityComplete, Stages, Keys

LEMMA WriteEntryKeeps ==
    ASSUME StartInv, WriteEntry
    PROVE  StartInv'
<1>1. /\ keyring \in [Names -> Nat] /\ setup \in 1 .. 7 /\ setups \in Nat \ {0}
      /\ keyring' = [keyring EXCEPT ![Entries[setup]] = setups]
      /\ setup' = IF setup = 7 THEN 0 ELSE setup + 1
      /\ setups' = setups /\ stage' = stage
    BY EntryNames DEF StartInv, IdentityInv, WriteEntry, Entry
<1>2. \A n \in Names : keyring[n] # 0 => keyring'[n] # 0
    BY <1>1
<1>3. Entries[setup] \in Names /\ keyring'[Entries[setup]] # 0
    BY <1>1, EntryNames DEF Keys
<1>4. ServerKeys => ServerKeys'
    BY <1>2, EntryNames DEF ServerKeys
<1>5. /\ setup' > 3 => keyring'["x_priv"] # 0
      /\ setup' > 4 => keyring'["x_pub"] # 0
      /\ setup' > 5 => keyring'["e_priv"] # 0
      /\ setup' > 6 => keyring'["e_pub"] # 0
    BY <1>1, <1>2, <1>3, EntryNames DEF StartInv, IdentityInv, Keys
<1>6. keyring'["node_id"] # 0 => ServerKeys'
  <2>1. CASE setup = 7
      BY <1>1, <1>2, <2>1, EntryNames DEF StartInv, IdentityInv, ServerKeys, Keys
  <2>2. CASE setup # 7
    <3>1. Entries[setup] # "node_id"
        BY <1>1, <2>2, EntryNames
    <3>2. keyring'["node_id"] = keyring["node_id"]
        BY <1>1, <3>1, EntryNames
    <3>. QED
        BY <1>4, <3>2 DEF StartInv, IdentityInv
  <2>. QED
      BY <2>1, <2>2
<1>7. keyring' \in [Names -> Nat]
    BY <1>1
<1>8. setup' \in 0 .. 7
    BY <1>1
<1>. QED
    BY <1>1, <1>4, <1>5, <1>6, <1>7, <1>8 DEF StartInv, IdentityInv, IdentityComplete

LEMMA StartStepKeeps == StartInv /\ [StartNext]_startVars => StartInv'
<1>. SUFFICES ASSUME StartInv, [StartNext]_startVars PROVE StartInv'
    OBVIOUS
<1>1. CASE Setup \/ SetupDies
    BY <1>1 DEF StartInv, IdentityInv, IdentityComplete, ServerKeys, Setup, SetupDies
<1>2. CASE Identify
    BY <1>2 DEF StartInv, IdentityInv, IdentityComplete, ServerKeys, Identify, Proceed, End, Stages
<1>3. CASE \/ OpenLog \/ StartDht \/ (\E wasSent \in BOOLEAN : Bootstrap(wasSent)) \/ StartBroadcast \/ Announce \/ Kill
           \/ \E free \in BOOLEAN : StartRelay(free) \/ StartP2P(free)
  <2>1. UNCHANGED <<keyring, setup, setups>>
      BY <1>3 DEF OpenLog, StartDht, Bootstrap, StartBroadcast, Announce, Kill, StartRelay, StartP2P
  <2>2. stage' \in Stages /\ (stage' = "down" \/ stage \notin {"down", "config", "identity"})
      BY <1>3 DEF StartInv, OpenLog, StartDht, Bootstrap, StartBroadcast, Announce, Kill, StartRelay,
         StartP2P, Proceed, End, Stages
  <2>. QED
      BY <2>1, <2>2 DEF StartInv, IdentityInv, IdentityComplete, ServerKeys
<1>4. CASE \/ UNCHANGED startVars \/ \E available \in BOOLEAN : Start(available)
           \/ \E c \in Configs : LoadConfig(c)
           \/ \E f \in Files, g \in {"absent", "names"} : Edit(f, g)
  <2>1. UNCHANGED <<keyring, setup, setups>>
      BY <1>4 DEF startVars, Start, LoadConfig, Edit
  <2>2. stage' = stage \/ stage' \in {"down", "config", "identity"}
      BY <1>4 DEF startVars, Start, LoadConfig, Edit, Proceed, End
  <2>. QED
      BY <2>1, <2>2 DEF StartInv, IdentityInv, IdentityComplete, ServerKeys, Stages
<1>. QED
    BY <1>1, <1>2, <1>3, <1>4, WriteEntryKeeps DEF StartNext

\* The server never gets past the look at its node id without the keys that
\* belong to it, whatever write a setup was cut short at and however many setups
\* there were (initialize_server_credentials, main).
THEOREM IdentityIsWhole == StartSpec => []IdentityComplete
<1>1. StartInv => IdentityComplete
    BY DEF StartInv
<1>. QED
    BY <1>1, StartBegin, StartStepKeeps, PTL DEF StartSpec

-----------------------------------------------------------------------------
(* GroupMessages: who is sent a text. *)

Sends == [at : {"list", "links", "store", "deliver", "sent"}, from : Participants,
          todo : SUBSET Participants, next : Participants \cup {NoPerson},
          target : 1 .. MaxSessions \cup {NoSession}, relays : SUBSET Partners, local : Nat,
          offline : SUBSET Participants, remote : SUBSET Partners]
SendStates == {NoSend, [at |-> "refused"]} \cup Sends

GroupTypes ==
    /\ member \subseteq Participants /\ made \in 0 .. MaxSessions
    /\ session \in [Participants -> 1 .. MaxSessions \cup {NoSession}]
    /\ links \subseteq Partners /\ federated \in BOOLEAN /\ shelf \subseteq Texts
    /\ send \in [Texts -> SendStates]
    /\ got \in [Texts -> SUBSET Participants] /\ present \in [Texts -> SUBSET Participants]
    /\ steady \in [Texts -> SUBSET Participants]

\* Every login makes an entry of its own.
SessionInv ==
    /\ alive \subseteq 1 .. made
    /\ \A u \in Participants : session[u] # NoSession => session[u] \in 1 .. made
    /\ \A u, v \in Participants : session[u] = session[v] /\ session[u] # NoSession => u = v

\* A member that has been listed and stayed has yet to be looked up, is the one
\* being written to on the connection it has, or has been dealt with.
DealtWith(t, u) ==
    \/ u \in send[t].todo
    \/ send[t].next = u /\ send[t].target = session[u] /\ session[u] # NoSession
    \/ IF session[u] = NoSession THEN u \in send[t].offline
       ELSE session[u] \in alive => u \in got[t]

TextInv(t) ==
    /\ got[t] \subseteq present[t] /\ steady[t] \subseteq member
    /\ send[t].at \in {"new", "refused"} => got[t] = {} /\ steady[t] = {}
    /\ UnderWay(t) => /\ member \subseteq present[t] /\ send[t].todo \subseteq present[t]
                      /\ send[t].next \in present[t] \cup {NoPerson}
                      /\ send[t].from \notin steady[t]
    /\ send[t].at \in {"deliver", "sent"} => t \in shelf
    /\ send[t].at \in {"links", "store", "deliver", "sent"} => \A u \in steady[t] : DealtWith(t, u)
    /\ send[t].at = "sent" => send[t].todo = {} /\ send[t].next = NoPerson

GroupInv == GroupTypes /\ SessionInv /\ \A t \in Texts : TextInv(t)

-----------------------------------------------------------------------------

LEMMA MessagesBegin == MessagesInit => GroupInv
<1>. SUFFICES ASSUME MessagesInit PROVE GroupInv
    OBVIOUS
<1>1. GroupTypes /\ SessionInv
    BY GroupMessageAssumption DEF MessagesInit, GroupTypes, SessionInv, SendStates
<1>2. \A t \in Texts : TextInv(t)
    BY DEF MessagesInit, TextInv, NoSend, UnderWay
<1>. QED
    BY <1>1, <1>2 DEF GroupInv

\* What the others do meanwhile disturbs no member that stays.
LEMMA OthersKeep ==
    ASSUME GroupInv, GroupTypes', SessionInv', UNCHANGED <<send, got, shelf>>,
           \A t \in Texts :
              /\ present[t] \subseteq present'[t] /\ steady'[t] \subseteq steady[t]
              /\ steady'[t] \subseteq member'
              /\ UnderWay(t) => member' \subseteq present'[t],
           \A t \in Texts : \A u \in steady'[t] :
              session'[u] = session[u] /\ (session[u] \in alive' => session[u] \in alive)
    PROVE  GroupInv'
<1>1. ASSUME NEW t \in Texts PROVE TextInv(t)'
  <2>1. TextInv(t)
      BY DEF GroupInv
  <2>2. UnderWay(t)' = UnderWay(t)
      BY DEF UnderWay
  <2>3. \A u \in steady'[t] : DealtWith(t, u) => DealtWith(t, u)'
      BY DEF DealtWith
  <2>. QED
      BY <2>1, <2>2, <2>3 DEF TextInv
<1>. QED
    BY <1>1 DEF GroupInv

LEMMA JoinKeeps ==
    ASSUME GroupInv, NEW u \in Participants, JoinGroup(u) \/ LeaveGroup(u)
    PROVE  GroupInv'
<1>1. GroupTypes'
  <2>1. present' \in [Texts -> SUBSET Participants] /\ steady' \in [Texts -> SUBSET Participants]
      BY DEF GroupInv, GroupTypes, JoinGroup, LeaveGroup, Unsettled
  <2>. QED
      BY <2>1 DEF GroupInv, GroupTypes, JoinGroup, LeaveGroup
<1>2. UNCHANGED <<send, got, shelf, session, alive, made>>
    BY DEF JoinGroup, LeaveGroup
<1>4. SessionInv'
    BY <1>2 DEF GroupInv, SessionInv
<1>3. \A t \in Texts : /\ present[t] \subseteq present'[t] /\ steady'[t] \subseteq steady[t]
                       /\ steady'[t] \subseteq member' /\ (UnderWay(t) => member' \subseteq present'[t])
    BY DEF GroupInv, GroupTypes, TextInv, JoinGroup, LeaveGroup, Unsettled
<1>5. \A t \in Texts : \A v \in steady'[t] :
          session'[v] = session[v] /\ (session[v] \in alive' => session[v] \in alive)
    BY <1>2
<1>. QED
    BY <1>1, <1>2, <1>3, <1>4, <1>5, OthersKeep

\* Nobody else's connection changes.
LEMMA EntriesKeep ==
    ASSUME GroupInv, NEW u \in Participants, TakeSession(u) \/ BreakSocket(u) \/ RemoveEntry(u)
    PROVE  GroupInv'
<1>. USE GroupMessageAssumption
<1>1. GroupTypes'
    BY DEF GroupInv, GroupTypes, TakeSession, BreakSocket, RemoveEntry, Unsettled
<1>2. SessionInv'
  <2>1. CASE TakeSession(u)
    <3>1. /\ made \in Nat /\ made' = made + 1 /\ made + 1 # NoSession
          /\ session' = [session EXCEPT ![u] = made + 1] /\ session \in [Participants -> 1 .. MaxSessions \cup {NoSession}]
          /\ alive' = (alive \ {session[u]}) \cup {made + 1}
        BY <2>1 DEF GroupInv, GroupTypes, TakeSession
    <3>2. alive' \subseteq 1 .. made'
      <4>1. alive \subseteq 1 .. made
          BY DEF GroupInv, SessionInv
      <4>2. 1 .. made \subseteq 1 .. made' /\ made + 1 \in 1 .. made'
          BY <3>1
      <4>. QED
          BY <3>1, <4>1, <4>2
    <3>3. \A v \in Participants \ {u} : session'[v] # NoSession => session[v] \in 1 .. made
        BY <3>1 DEF GroupInv, SessionInv
    <3>4. \A v \in Participants : session'[v] # NoSession => session'[v] \in 1 .. made'
        BY <3>1, <3>3
    <3>5. session'[u] = made + 1 /\ \A v \in Participants \ {u} : session'[v] = session[v] /\ session'[v] # made + 1
        BY <3>1, <3>3
    <3>6. \A v, w \in Participants : session'[v] = session'[w] /\ session'[v] # NoSession => v = w
        BY <3>5 DEF GroupInv, SessionInv
    <3>. QED
        BY <3>2, <3>4, <3>6 DEF SessionInv
  <2>2. CASE BreakSocket(u)
      BY <2>2 DEF GroupInv, GroupTypes, SessionInv, BreakSocket
  <2>3. CASE RemoveEntry(u)
      BY <2>3 DEF GroupInv, GroupTypes, SessionInv, RemoveEntry
  <2>. QED
      BY <2>1, <2>2, <2>3
<1>3. UNCHANGED <<send, got, shelf, member, present>> /\ Unsettled(u)
    BY DEF TakeSession, BreakSocket, RemoveEntry
<1>4. \A t \in Texts : steady'[t] = steady[t] \ {u}
    BY <1>3 DEF Unsettled
<1>5. \A t \in Texts : /\ present[t] \subseteq present'[t] /\ steady'[t] \subseteq steady[t]
                       /\ steady'[t] \subseteq member' /\ (UnderWay(t) => member' \subseteq present'[t])
    BY <1>3, <1>4 DEF GroupInv, TextInv
<1>6. ASSUME NEW v \in Participants \ {u}
      PROVE  session'[v] = session[v] /\ (session[v] \in alive' => session[v] \in alive)
  <2>1. session[v] # NoSession => session[v] \in 1 .. made
      BY DEF GroupInv, SessionInv
  <2>. QED
      BY <2>1 DEF GroupInv, GroupTypes, TakeSession, BreakSocket, RemoveEntry
<1>7. \A t \in Texts : steady'[t] \subseteq Participants \ {u}
    BY <1>4 DEF GroupInv, GroupTypes
<1>8. \A t \in Texts : \A v \in steady'[t] :
          session'[v] = session[v] /\ (session[v] \in alive' => session[v] \in alive)
    BY <1>6, <1>7
<1>. QED
    BY <1>1, <1>2, <1>3, <1>5, <1>8, OthersKeep

\* A step of the thread that sends a message changes nothing of another's.
LEMMA OwnTextKeeps ==
    ASSUME GroupInv, NEW t \in Texts, NEW s \in SendStates, send' = [send EXCEPT ![t] = s],
           GroupTypes', UNCHANGED <<member, session, alive, made>>, shelf \subseteq shelf',
           \A r \in Texts \ {t} : got'[r] = got[r] /\ present'[r] = present[r] /\ steady'[r] = steady[r],
           TextInv(t)'
    PROVE  GroupInv'
<1>1. SessionInv'
    BY DEF GroupInv, SessionInv
<1>2. ASSUME NEW r \in Texts \ {t} PROVE TextInv(r)'
  <2>1. send'[r] = send[r]
      BY DEF GroupInv, GroupTypes
  <2>2. TextInv(r)
      BY DEF GroupInv
  <2>3. \A u \in steady[r] : DealtWith(r, u)' <=> DealtWith(r, u)
      BY <2>1 DEF DealtWith
  <2>. QED
      BY <2>1, <2>2, <2>3 DEF TextInv, UnderWay
<1>. QED
    BY <1>1, <1>2 DEF GroupInv

LEMMA CheckSenderKeeps ==
    ASSUME GroupInv, NEW t \in Texts, NEW u \in Participants, NEW keyed \in BOOLEAN, CheckSender(t, u, keyed)
    PROVE  GroupInv'
<1>1. GroupTypes /\ TextInv(t) /\ got[t] = {}
    BY DEF GroupInv, TextInv, CheckSender, SendAt
<1>2. CASE u \in member /\ keyed
  <2>. DEFINE s == [at |-> "list", from |-> u, todo |-> {}, next |-> NoPerson,
                    target |-> NoSession, relays |-> {}, local |-> 0, offline |-> {}, remote |-> {}]
  <2>1. s \in SendStates /\ s.at = "list" /\ s.from = u /\ s.todo = {} /\ s.next = NoPerson
      BY DEF SendStates, Sends
  <2>2. /\ send' = [send EXCEPT ![t] = s]
        /\ present' = [present EXCEPT ![t] = member] /\ steady' = [steady EXCEPT ![t] = member \ {u}]
        /\ UNCHANGED <<member, session, alive, made, links, federated, shelf, got>>
      BY <1>2 DEF CheckSender
  <2>. HIDE DEF s
  <2>3. GroupTypes'
      BY <1>1, <2>1, <2>2 DEF GroupTypes
  <2>4. TextInv(t)'
      BY <1>1, <2>1, <2>2 DEF TextInv, GroupTypes, UnderWay
  <2>5. \A r \in Texts \ {t} : got'[r] = got[r] /\ present'[r] = present[r] /\ steady'[r] = steady[r]
      BY <1>1, <2>2 DEF GroupTypes
  <2>. QED
      BY <2>1, <2>2, <2>3, <2>4, <2>5, OwnTextKeeps
<1>3. CASE ~(u \in member /\ keyed)
  <2>. DEFINE s == [at |-> "refused"]
  <2>1. s \in SendStates /\ s.at = "refused"
      BY DEF SendStates
  <2>2. /\ send' = [send EXCEPT ![t] = s]
        /\ UNCHANGED <<member, session, alive, made, links, federated, shelf, got, present, steady>>
      BY <1>3 DEF CheckSender
  <2>. HIDE DEF s
  <2>3. GroupTypes'
      BY <1>1, <2>1, <2>2 DEF GroupTypes
  <2>4. steady[t] = {}
      BY <1>1 DEF TextInv, CheckSender, SendAt
  <2>5. TextInv(t)'
      BY <1>1, <2>1, <2>2, <2>4 DEF TextInv, GroupTypes, UnderWay
  <2>. QED
      BY <2>1, <2>2, <2>3, <2>5, OwnTextKeeps
<1>. QED
    BY <1>2, <1>3

\* A send that is under way has the shape of one.
LEMMA UnderWayType ==
    ASSUME GroupTypes, NEW t \in Texts, UnderWay(t)
    PROVE  send[t] \in Sends
BY DEF GroupTypes, SendStates, NoSend, UnderWay

LEMMA ListMembersKeeps ==
    ASSUME GroupInv, NEW t \in Texts, ListMembers(t)
    PROVE  GroupInv'
<1>. DEFINE s == [send[t] EXCEPT !.at = "links", !.todo = member \ {send[t].from}]
<1>1. GroupTypes /\ TextInv(t) /\ send[t] \in Sends /\ UnderWay(t)
    BY UnderWayType DEF GroupInv, ListMembers, SendAt, UnderWay
<1>2. /\ s \in Sends /\ s.at = "links" /\ s.todo = member \ {send[t].from}
      /\ s.next = send[t].next /\ s.from = send[t].from
    BY <1>1 DEF Sends, GroupTypes
<1>3. send' = [send EXCEPT ![t] = s]
    BY <1>1 DEF ListMembers, GroupTypes
<1>. HIDE DEF s
<1>4. GroupTypes'
  <2>1. send' \in [Texts -> SendStates]
      BY <1>1, <1>2, <1>3 DEF GroupTypes, SendStates
  <2>. QED
      BY <1>1, <2>1 DEF GroupTypes, ListMembers
<1>5. TextInv(t)'
    BY <1>1, <1>2, <1>3 DEF TextInv, GroupTypes, ListMembers, UnderWay, DealtWith
<1>. QED
    BY <1>2, <1>3, <1>4, <1>5, OwnTextKeeps DEF ListMembers, SendStates

LEMMA LinksAndShelfKeep ==
    ASSUME GroupInv, NEW t \in Texts, ListLinks(t) \/ StoreText(t)
    PROVE  GroupInv'
<1>. DEFINE s == IF send[t].at = "links" THEN [send[t] EXCEPT !.at = "store", !.relays = links]
                 ELSE [send[t] EXCEPT !.at = "deliver"]
<1>1. GroupTypes /\ TextInv(t) /\ send[t] \in Sends /\ UnderWay(t) /\ send[t].at \in {"links", "store"}
    BY UnderWayType DEF GroupInv, ListLinks, StoreText, SendAt, UnderWay
<1>2. /\ s \in Sends /\ s.at = IF send[t].at = "links" THEN "store" ELSE "deliver"
      /\ s.todo = send[t].todo /\ s.offline = send[t].offline /\ s.target = send[t].target
      /\ s.next = send[t].next /\ s.from = send[t].from
    BY <1>1 DEF Sends, GroupTypes
<1>3. send' = [send EXCEPT ![t] = s]
    BY <1>1 DEF ListLinks, StoreText, SendAt, GroupTypes
<1>4. s.at = "deliver" => t \in shelf'
    BY <1>1 DEF ListLinks, StoreText, SendAt
<1>. HIDE DEF s
<1>5. GroupTypes'
    BY <1>1, <1>2, <1>3 DEF GroupTypes, ListLinks, StoreText, SendStates
<1>6. UNCHANGED <<member, session, alive, made, got, present, steady>> /\ shelf \subseteq shelf'
    BY DEF ListLinks, StoreText
<1>7. \A u \in steady[t] : DealtWith(t, u) => DealtWith(t, u)'
    BY <1>1, <1>2, <1>3, <1>6 DEF DealtWith, GroupTypes
<1>8. TextInv(t)'
    BY <1>1, <1>2, <1>3, <1>4, <1>6, <1>7 DEF TextInv, GroupTypes, UnderWay
<1>. QED
    BY <1>2, <1>3, <1>5, <1>6, <1>8, OwnTextKeeps DEF SendStates

LEMMA LookUpKeeps ==
    ASSUME GroupInv, NEW t \in Texts, NEW u \in Participants, LookUp(t, u)
    PROVE  GroupInv'
<1>. DEFINE s == IF session[u] = NoSession
                 THEN [send[t] EXCEPT !.todo = @ \ {u}, !.offline = @ \cup {u}]
                 ELSE [send[t] EXCEPT !.todo = @ \ {u}, !.next = u, !.target = session[u]]
<1>1. GroupTypes /\ TextInv(t) /\ send[t] \in Sends /\ UnderWay(t) /\ send[t].at = "deliver"
    BY UnderWayType DEF GroupInv, LookUp, SendAt, UnderWay
<1>2. s \in Sends /\ s.at = "deliver" /\ s.todo = send[t].todo \ {u} /\ s.from = send[t].from
    BY <1>1 DEF Sends, GroupTypes
<1>3. /\ session[u] = NoSession => /\ s.offline = send[t].offline \cup {u}
                                   /\ s.next = NoPerson
      /\ session[u] # NoSession => /\ s.offline = send[t].offline
                                   /\ s.next = u /\ s.target = session[u]
    BY <1>1 DEF Sends, GroupTypes, LookUp
<1>4. send' = [send EXCEPT ![t] = s]
    BY <1>1 DEF LookUp, GroupTypes
<1>. HIDE DEF s
<1>5. UNCHANGED <<member, session, alive, made, links, federated, shelf, got, present, steady>>
    BY DEF LookUp
<1>6. GroupTypes'
    BY <1>1, <1>2, <1>4, <1>5 DEF GroupTypes, SendStates
<1>7. ASSUME NEW v \in steady[t], DealtWith(t, v) PROVE DealtWith(t, v)'
  <2>1. v # NoPerson /\ v \in Participants
      BY <1>1, GroupMessageAssumption DEF GroupTypes
  <2>. QED
      BY <1>1, <1>2, <1>3, <1>4, <1>5, <1>7, <2>1 DEF DealtWith, GroupTypes, LookUp
<1>8. TextInv(t)'
    BY <1>1, <1>2, <1>3, <1>4, <1>5, <1>7 DEF TextInv, GroupTypes, UnderWay, LookUp
<1>. QED
    BY <1>2, <1>4, <1>5, <1>6, <1>8, OwnTextKeeps DEF SendStates

LEMMA WriteTextKeeps ==
    ASSUME GroupInv, NEW t \in Texts, WriteText(t)
    PROVE  GroupInv'
<1>. DEFINE s == [send[t] EXCEPT !.next = NoPerson, !.target = NoSession, !.local = @ + 1]
            u == send[t].next
<1>1. GroupTypes /\ TextInv(t) /\ send[t] \in Sends /\ UnderWay(t) /\ send[t].at = "deliver"
    BY UnderWayType DEF GroupInv, WriteText, SendAt, UnderWay
<1>2. /\ s \in Sends /\ s.at = "deliver" /\ s.todo = send[t].todo /\ s.from = send[t].from
      /\ s.offline = send[t].offline /\ s.next = NoPerson
  <2>1. send[t].local + 1 \in Nat
      BY <1>1 DEF Sends
  <2>. QED
      BY <1>1, <2>1 DEF Sends
<1>3. send' = [send EXCEPT ![t] = s]
    BY <1>1 DEF WriteText, GroupTypes
<1>. HIDE DEF s
<1>4. /\ UNCHANGED <<member, session, alive, made, links, federated, shelf, present, steady>>
      /\ got' = IF send[t].target \in alive THEN [got EXCEPT ![t] = @ \cup {u}] ELSE got
      /\ u \in present[t]
    BY <1>1 DEF WriteText, TextInv
<1>5. /\ got[t] \subseteq got'[t] /\ got'[t] \subseteq present[t]
      /\ send[t].target \in alive => send[t].next \in got'[t]
      /\ \A r \in Texts \ {t} : got'[r] = got[r]
    BY <1>1, <1>4 DEF GroupTypes, TextInv
<1>6. GroupTypes'
  <2>1. got' \in [Texts -> SUBSET Participants]
      BY <1>1, <1>4 DEF GroupTypes
  <2>. QED
      BY <1>1, <1>2, <1>3, <1>4, <2>1 DEF GroupTypes, SendStates
<1>7. ASSUME NEW v \in steady[t], DealtWith(t, v) PROVE DealtWith(t, v)'
    BY <1>1, <1>2, <1>3, <1>4, <1>5, <1>7 DEF DealtWith, GroupTypes
<1>8. TextInv(t)'
    BY <1>1, <1>2, <1>3, <1>4, <1>5, <1>7 DEF TextInv, GroupTypes, UnderWay
<1>. QED
    BY <1>2, <1>3, <1>4, <1>5, <1>6, <1>8, OwnTextKeeps DEF SendStates

\* What a send is once all members have been looked up.
Rounded(t, s) ==
    /\ send' = [send EXCEPT ![t] = s]
    /\ s.at \in {"deliver", "sent"} /\ s.todo = {} /\ s.next = NoPerson
    /\ s.offline = send[t].offline /\ s.from = send[t].from

LEMMA RelayRounds ==
    ASSUME GroupTypes, NEW t \in Texts, send[t] \in Sends, NEW p \in Partners, RelayToPartner(t, p)
    PROVE  \E s \in Sends : Rounded(t, s)
<1>. DEFINE s == [send[t] EXCEPT !.relays = @ \ {p}, !.remote = @ \cup {p}]
<1>1. /\ s \in Sends /\ s.at = "deliver" /\ s.todo = {} /\ s.next = NoPerson
      /\ s.offline = send[t].offline /\ s.from = send[t].from
    BY DEF Sends, RelayToPartner, SendAt
<1>2. send' = [send EXCEPT ![t] = s]
    BY DEF RelayToPartner, GroupTypes
<1>. QED
    BY <1>1, <1>2 DEF Rounded

LEMMA SentRounds ==
    ASSUME GroupTypes, NEW t \in Texts, send[t] \in Sends, Sent(t)
    PROVE  \E s \in Sends : Rounded(t, s)
<1>. DEFINE s == [send[t] EXCEPT !.at = "sent"]
<1>1. /\ s \in Sends /\ s.at = "sent" /\ s.todo = {} /\ s.next = NoPerson
      /\ s.offline = send[t].offline /\ s.from = send[t].from
    BY DEF Sends, Sent
<1>2. send' = [send EXCEPT ![t] = s]
    BY DEF Sent, GroupTypes
<1>. QED
    BY <1>1, <1>2 DEF Rounded

LEMMA RelayAndSentKeep ==
    ASSUME GroupInv, NEW t \in Texts, Sent(t) \/ \E p \in Partners : RelayToPartner(t, p)
    PROVE  GroupInv'
<1>1. GroupTypes /\ TextInv(t) /\ send[t] \in Sends /\ UnderWay(t) /\ send[t].at = "deliver"
    BY UnderWayType DEF GroupInv, RelayToPartner, Sent, SendAt, UnderWay
<1>2. UNCHANGED <<member, session, alive, made, links, federated, shelf, got, present, steady>>
    BY DEF RelayToPartner, Sent
<1>3. PICK s \in Sends : /\ send' = [send EXCEPT ![t] = s]
                         /\ s.at \in {"deliver", "sent"} /\ s.todo = {} /\ s.next = NoPerson
                         /\ s.offline = send[t].offline /\ s.from = send[t].from
    BY <1>1, RelayRounds, SentRounds DEF Rounded
<1>4. send[t].todo = {} /\ send[t].next = NoPerson
    BY DEF RelayToPartner, Sent
<1>5. GroupTypes'
    BY <1>1, <1>2, <1>3 DEF GroupTypes, SendStates
<1>6. ASSUME NEW v \in steady[t], DealtWith(t, v) PROVE DealtWith(t, v)'
  <2>1. v # NoPerson
      BY <1>1, GroupMessageAssumption DEF GroupTypes
  <2>. QED
      BY <1>1, <1>2, <1>3, <1>4, <1>6, <2>1 DEF DealtWith, GroupTypes
<1>7. TextInv(t)'
    BY <1>1, <1>2, <1>3, <1>6 DEF TextInv, GroupTypes, UnderWay
<1>. QED
    BY <1>2, <1>3, <1>5, <1>7, OwnTextKeeps DEF SendStates

LEMMA MessagesStepKeeps == GroupInv /\ [MessagesNext]_groupVars => GroupInv'
<1>. SUFFICES ASSUME GroupInv, [MessagesNext]_groupVars PROVE GroupInv'
    OBVIOUS
<1>1. ASSUME NEW u \in Participants,
             JoinGroup(u) \/ LeaveGroup(u) \/ TakeSession(u) \/ BreakSocket(u) \/ RemoveEntry(u)
      PROVE  GroupInv'
    BY <1>1, JoinKeeps, EntriesKeep
<1>2. CASE UNCHANGED groupVars \/ \E p \in Partners : FederateGroup(p)
  <2>1. UNCHANGED <<send, got, shelf, present, steady, member, session, alive, made>>
      BY <1>2 DEF FederateGroup, groupVars
  <2>2. links' \subseteq Partners /\ federated' \in BOOLEAN
      BY <1>2 DEF GroupInv, GroupTypes, FederateGroup, groupVars
  <2>3. GroupTypes' /\ SessionInv'
      BY <2>1, <2>2 DEF GroupInv, GroupTypes, SessionInv
  <2>4. \A t \in Texts : steady[t] \subseteq member /\ (UnderWay(t) => member \subseteq present[t])
      BY DEF GroupInv, TextInv
  <2>. QED
      BY <2>1, <2>3, <2>4, OthersKeep
<1>3. ASSUME NEW t \in Texts, ListMembers(t) \/ ListLinks(t) \/ StoreText(t) \/ WriteText(t) \/ Sent(t)
      PROVE  GroupInv'
    BY <1>3, ListMembersKeeps, LinksAndShelfKeep, WriteTextKeeps, RelayAndSentKeep
<1>4. ASSUME NEW t \in Texts, NEW u \in Participants,
             LookUp(t, u) \/ \E keyed \in BOOLEAN : CheckSender(t, u, keyed)
      PROVE  GroupInv'
    BY <1>4, LookUpKeeps, CheckSenderKeeps
<1>5. ASSUME NEW t \in Texts, NEW p \in Partners, RelayToPartner(t, p) PROVE GroupInv'
    BY <1>5, RelayAndSentKeep
<1>. QED
    BY <1>1, <1>2, <1>3, <1>4, <1>5 DEF MessagesNext

\* A message reaches everybody who was a member all the while on one connection
\* and nobody who was not a member meanwhile; members without a connection are
\* counted and the message is on the shelf (distribute_group_message).
THEOREM AudienceIsRight == MessagesSpec => []RightAudience
<1>1. GroupInv => RightAudience
  <2>. SUFFICES ASSUME GroupInv PROVE RightAudience
      OBVIOUS
  <2>1. ASSUME NEW t \in Texts, SendAt(t, "sent"), NEW u \in steady[t]
        PROVE  IF session[u] \in alive THEN u \in got[t]
               ELSE session[u] = NoSession => u \in send[t].offline /\ t \in shelf
    <3>1. TextInv(t) /\ u \in Participants /\ u # NoPerson
        BY GroupMessageAssumption DEF GroupInv, GroupTypes
    <3>2. /\ DealtWith(t, u) /\ send[t].todo = {} /\ send[t].next = NoPerson /\ t \in shelf
        BY <2>1, <3>1 DEF TextInv, SendAt
    <3>3. NoSession \notin alive
      <4>1. made \in 0 .. MaxSessions /\ alive \subseteq 1 .. made
          BY DEF GroupInv, SessionInv, GroupTypes
      <4>2. 1 .. made \subseteq 1 .. MaxSessions
          BY <4>1, GroupMessageAssumption
      <4>. QED
          BY <4>1, <4>2, GroupMessageAssumption
    <3>. QED
        BY <3>1, <3>2, <3>3 DEF DealtWith
  <2>. QED
      BY <2>1 DEF RightAudience, GroupInv, TextInv
<1>. QED
    BY <1>1, MessagesBegin, MessagesStepKeeps, PTL DEF MessagesSpec

\* The thread of a message, the table of connections and the members keep their
\* shape.
THEOREM MessagesTypeCorrect == MessagesSpec => []MessagesTypeOK
<1>1. GroupInv => MessagesTypeOK
  <2>. SUFFICES ASSUME GroupInv PROVE MessagesTypeOK
      OBVIOUS
  <2>1. ASSUME NEW t \in Texts
        PROVE  send[t].at \in {"new", "refused", "list", "links", "store", "deliver", "sent"}
      BY DEF GroupInv, GroupTypes, SendStates, NoSend, Sends
  <2>. QED
      BY <2>1, GroupMessageAssumption DEF GroupInv, GroupTypes, SessionInv, MessagesTypeOK
<1>. QED
    BY <1>1, MessagesBegin, MessagesStepKeeps, PTL DEF MessagesSpec

-----------------------------------------------------------------------------
(* PeerQueries: where the users of other servers are at home. *)

QueryLines ==
    [type : {"lookup", "rate_query"}, user : Users]
    \cup [type : {"found"}, user : Users, found : BOOLEAN]
    \cup [type : {"rate"}, user : Users, rate : Nat]
    \cup [type : {"relay"}, msg : Msgs, from : Users, to : Users]
    \cup [type : {"rejected"}]

\* What a server may write: it has only found users it had.
TrueLines(q) == {l \in QueryLines : l.type = "found" /\ l.found => l.user \in ever[q]}

LinesTrue(ls) ==
    /\ ls \in [Servers -> [Servers -> Seq(QueryLines)]]
    /\ \A q, r \in Servers : ls[q][r] \in Seq(TrueLines(q))
    /\ \A q \in Servers : ls[q][q] = <<>>

Relays ==
    [at : {"new", "none", "no_route", "queued", "rate_limited", "delivered"}]
    \cup [at : {"find", "send"}, server : Servers, from : Users, to : Users,
          target : Servers \cup {NoServer}, asked : SUBSET Servers]

QueryTypes ==
    /\ hosts \in [Servers -> SUBSET Users] /\ ever \in [Servers -> SUBSET Users]
    /\ home \in [Servers -> [Users -> Servers \cup {NoServer}]]
    /\ linked \subseteq {l \in Servers \X Servers : l[1] # l[2]}
    /\ relay \in [Msgs -> Relays]

HostsWereEver == \A s \in Servers : hosts[s] \subseteq ever[s]

QueriesInv == QueryTypes /\ HostsWereEver /\ LinesTrue(lines) /\ HomesWereTrue

-----------------------------------------------------------------------------

\* A message that looks for its way has the shape of one.
LEMMA RelayUnderWay ==
    ASSUME NEW r \in Relays, r.at \in {"find", "send"}
    PROVE  /\ r.server \in Servers /\ r.from \in Users /\ r.to \in Users
           /\ r.target \in Servers \cup {NoServer} /\ r.asked \subseteq Servers
BY DEF Relays

LEMMA WrittenTrue ==
    ASSUME LinesTrue(lines), NEW s \in Servers, NEW p \in Servers \ {s}, NEW l \in TrueLines(s)
    PROVE  LinesTrue(Written(s, p, l))
<1>1. l \in QueryLines
    BY DEF TrueLines
<1>. QED
    BY <1>1 DEF LinesTrue, Written

\* Two lines at once.
LEMMA BothTrue ==
    ASSUME LinesTrue(lines), NEW s \in Servers, NEW p \in Servers \ {s},
           NEW l \in TrueLines(s), NEW m \in TrueLines(s)
    PROVE  LinesTrue([lines EXCEPT ![s][p] = @ \o <<l, m>>])
<1>1. l \in QueryLines /\ m \in QueryLines /\ lines[s][p] \in Seq(QueryLines) /\ lines[s][p] \in Seq(TrueLines(s))
    BY DEF TrueLines, LinesTrue
<1>2. lines[s][p] \o <<l, m>> \in Seq(QueryLines) /\ lines[s][p] \o <<l, m>> \in Seq(TrueLines(s))
    BY <1>1
<1>. QED
    BY <1>2 DEF LinesTrue

LEMMA ReadTrue ==
    ASSUME LinesTrue(lines), NEW s \in Servers, NEW p \in Servers, lines[p][s] # <<>>
    PROVE  /\ LinesTrue(Read(s, p)) /\ s # p
           /\ Head(lines[p][s]) \in TrueLines(p)
<1>1. lines[p][s] \in Seq(QueryLines) /\ lines[p][s] \in Seq(TrueLines(p))
    BY DEF LinesTrue
<1>2. /\ Tail(lines[p][s]) \in Seq(QueryLines) /\ Tail(lines[p][s]) \in Seq(TrueLines(p))
      /\ Head(lines[p][s]) \in TrueLines(p)
    BY <1>1
<1>. QED
    BY <1>2 DEF LinesTrue, Read

\* What both sides of a connection have written changes at once.
LEMMA BothWaysTrue ==
    ASSUME LinesTrue(lines), NEW s \in Servers, NEW p \in Servers \ {s},
           NEW a \in Seq(TrueLines(p)), NEW b \in Seq(TrueLines(s)),
           a \in Seq(QueryLines), b \in Seq(QueryLines)
    PROVE  LinesTrue([lines EXCEPT ![p][s] = a, ![s][p] = b])
<1>1. PICK ls : ls = [lines EXCEPT ![p][s] = a]
    OBVIOUS
<1>2. LinesTrue(ls)
    BY <1>1 DEF LinesTrue
<1>3. LinesTrue([ls EXCEPT ![s][p] = b])
    BY <1>2 DEF LinesTrue
<1>4. [lines EXCEPT ![p][s] = a, ![s][p] = b] = [ls EXCEPT ![s][p] = b]
    BY <1>1
<1>. QED
    BY <1>3, <1>4

LEMMA RepliedTrue ==
    ASSUME LinesTrue(lines), NEW s \in Servers, NEW p \in Servers, lines[p][s] # <<>>,
           NEW l \in TrueLines(s)
    PROVE  LinesTrue(Replied(s, p, l))
<1>1. PICK a, b : a = Tail(lines[p][s]) /\ b = Append(lines[s][p], l)
    OBVIOUS
<1>2. s # p
    BY ReadTrue
<1>3. /\ lines[p][s] \in Seq(QueryLines) /\ lines[p][s] \in Seq(TrueLines(p))
      /\ lines[s][p] \in Seq(QueryLines) /\ lines[s][p] \in Seq(TrueLines(s))
      /\ l \in QueryLines
    BY DEF LinesTrue, TrueLines
<1>4. /\ a \in Seq(TrueLines(p)) /\ a \in Seq(QueryLines)
      /\ b \in Seq(TrueLines(s)) /\ b \in Seq(QueryLines)
    BY <1>1, <1>3
<1>5. Replied(s, p, l) = [lines EXCEPT ![p][s] = a, ![s][p] = b]
    BY <1>1, <1>2, <1>3 DEF Replied
<1>6. p \in Servers \ {s}
    BY <1>2
<1>7. LinesTrue([lines EXCEPT ![p][s] = a, ![s][p] = b])
    BY <1>4, <1>6, BothWaysTrue
<1>. QED
    BY <1>5, <1>7

\* Lines stay true as long as no server forgets that it had a user.
LEMMA TrueOnwards ==
    ASSUME \A s \in Servers : ever[s] \subseteq ever'[s], UNCHANGED lines, LinesTrue(lines)
    PROVE  LinesTrue(lines)'
<1>1. \A q \in Servers : TrueLines(q) \subseteq TrueLines(q)'
    BY DEF TrueLines
<1>2. ASSUME NEW q \in Servers, NEW r \in Servers PROVE lines[q][r] \in Seq(TrueLines(q)')
  <2>1. lines[q][r] \in Seq(TrueLines(q)) /\ TrueLines(q) \subseteq TrueLines(q)'
      BY <1>1 DEF LinesTrue
  <2>. QED
      BY <2>1
<1>. QED
    BY <1>2 DEF LinesTrue

\* What is neither told nor remembered.
LEMMA QuietQueries ==
    ASSUME QueriesInv, UNCHANGED <<hosts, ever, home>>, LinesTrue(lines'),
           linked' \subseteq {l \in Servers \X Servers : l[1] # l[2]}, relay' \in [Msgs -> Relays]
    PROVE  QueriesInv'
<1>1. LinesTrue(lines)'
    BY DEF LinesTrue, TrueLines
<1>. QED
    BY <1>1 DEF QueriesInv, QueryTypes, HostsWereEver, HomesWereTrue

LEMMA QueriesBegin == QueriesInit => QueriesInv
<1>. SUFFICES ASSUME QueriesInit PROVE QueriesInv
    OBVIOUS
<1>1. QueryTypes /\ HostsWereEver /\ HomesWereTrue
    BY DEF QueriesInit, QueryTypes, Relays, NoRelay, HostsWereEver, HomesWereTrue
<1>2. LinesTrue(lines)
    BY DEF QueriesInit, LinesTrue
<1>. QED
    BY <1>1, <1>2 DEF QueriesInv

LEMMA UsersKeep ==
    ASSUME QueriesInv, NEW s \in Servers, NEW u \in Users, RegisterUser(s, u) \/ ForgetUser(s, u)
    PROVE  QueriesInv'
<1>1. QueryTypes' /\ HostsWereEver'
  <2>1. CASE RegisterUser(s, u)
      BY <2>1 DEF QueriesInv, QueryTypes, HostsWereEver, RegisterUser
  <2>2. CASE ForgetUser(s, u)
      BY <2>2 DEF QueriesInv, QueryTypes, HostsWereEver, ForgetUser
  <2>. QED
      BY <2>1, <2>2
<1>2. \A q \in Servers : ever[q] \subseteq ever'[q]
    BY DEF QueriesInv, QueryTypes, RegisterUser, ForgetUser
<1>3. LinesTrue(lines)'
    BY <1>2, TrueOnwards DEF QueriesInv, RegisterUser, ForgetUser
<1>4. HomesWereTrue'
    BY <1>2 DEF QueriesInv, QueryTypes, HomesWereTrue, RegisterUser, ForgetUser
<1>. QED
    BY <1>1, <1>3, <1>4 DEF QueriesInv

LEMMA LinkKeeps ==
    ASSUME QueriesInv, NEW s \in Servers, NEW p \in Servers, Link(s, p) \/ Unlink(s, p)
    PROVE  QueriesInv'
<1>1. UNCHANGED <<hosts, ever, home, relay>> /\ linked' \subseteq {l \in Servers \X Servers : l[1] # l[2]}
    BY DEF QueriesInv, QueryTypes, Link, Unlink
<1>2. LinesTrue(lines')
  <2>1. CASE Link(s, p)
      BY <2>1 DEF QueriesInv, Link
  <2>2. CASE Unlink(s, p)
    <3>1. s # p /\ lines' = [lines EXCEPT ![s][p] = <<>>, ![p][s] = <<>>]
        BY <2>2 DEF QueriesInv, QueryTypes, Unlink
    <3>2. /\ <<>> \in Seq(TrueLines(p)) /\ <<>> \in Seq(TrueLines(s)) /\ <<>> \in Seq(QueryLines)
          /\ s \in Servers \ {p} /\ LinesTrue(lines)
        BY <3>1 DEF QueriesInv
    <3>3. LinesTrue([lines EXCEPT ![s][p] = <<>>, ![p][s] = <<>>])
        BY <3>2, BothWaysTrue
    <3>. QED
        BY <3>1, <3>3
  <2>. QED
      BY <2>1, <2>2
<1>. QED
    BY <1>1, <1>2, QuietQueries DEF QueriesInv, QueryTypes

LEMMA AskKeeps ==
    ASSUME QueriesInv, NEW m \in Msgs, NEW s \in Servers, NEW from \in Users, NEW to \in Users,
           Ask(m, s, from, to)
    PROVE  QueriesInv'
<1>. DEFINE r == [at |-> IF home[s][to] = NoServer THEN "find" ELSE "send",
                  server |-> s, from |-> from, to |-> to, target |-> home[s][to], asked |-> {}]
<1>1. r \in Relays
    BY DEF Relays, QueriesInv, QueryTypes
<1>2. relay' = [relay EXCEPT ![m] = r] /\ UNCHANGED <<hosts, ever, home, linked, lines>>
    BY DEF Ask
<1>. QED
    BY <1>1, <1>2, QuietQueries DEF QueriesInv, QueryTypes

LEMMA FindKeeps ==
    ASSUME QueriesInv, NEW m \in Msgs, NEW p \in Servers, Find(m, p)
    PROVE  QueriesInv'
<1>. DEFINE r == relay[m]
<1>1. /\ r \in Relays /\ r.at = "find" /\ r.server \in Servers /\ r.to \in Users
      /\ p # r.server
    BY RelayUnderWay DEF QueriesInv, QueryTypes, Find, RelayAt
<1>2. /\ [r EXCEPT !.at = "send", !.target = p] \in Relays
      /\ [r EXCEPT !.asked = @ \cup {p}] \in Relays
    BY <1>1 DEF Relays
<1>3. relay' \in [Msgs -> Relays]
    BY <1>2 DEF QueriesInv, QueryTypes, Find
<1>4. [type |-> "lookup", user |-> r.to] \in TrueLines(r.server)
    BY <1>1 DEF TrueLines, QueryLines
<1>5. LinesTrue(Written(r.server, p, [type |-> "lookup", user |-> r.to]))
    BY <1>1, <1>4, WrittenTrue DEF QueriesInv
<1>6. LinesTrue(lines')
    BY <1>5 DEF QueriesInv, Find
<1>7. UNCHANGED <<hosts, ever, home, linked>>
    BY DEF Find
<1>. QED
    BY <1>3, <1>6, <1>7, QuietQueries DEF QueriesInv, QueryTypes

LEMMA AnsweredType ==
    ASSUME QueriesInv, NEW m \in Msgs,
           NEW what \in {"no_route", "queued", "rate_limited", "delivered"}, Answered(m, what)
    PROVE  relay' \in [Msgs -> Relays]
BY DEF QueriesInv, QueryTypes, Answered, Relays

LEMMA NoWayKeeps ==
    ASSUME QueriesInv, NEW m \in Msgs, NoRoute(m) \/ QueueRelay(m)
    PROVE  QueriesInv'
<1>1. relay' \in [Msgs -> Relays]
    BY AnsweredType DEF NoRoute, QueueRelay
<1>2. UNCHANGED <<hosts, ever, home, linked, lines>>
    BY DEF NoRoute, QueueRelay
<1>. QED
    BY <1>1, <1>2, QuietQueries DEF QueriesInv, QueryTypes

LEMMA QueryAndRelayKeeps ==
    ASSUME QueriesInv, NEW m \in Msgs, NEW limited \in BOOLEAN, QueryAndRelay(m, limited)
    PROVE  QueriesInv'
<1>. DEFINE r == relay[m] s == r.server p == r.target
            query == [type |-> "rate_query", user |-> r.from]
            message == [type |-> "relay", msg |-> m, from |-> r.from, to |-> r.to]
<1>1. /\ r \in Relays /\ r.at = "send" /\ s \in Servers /\ r.from \in Users /\ r.to \in Users
      /\ p \in Servers \ {s}
    BY RelayUnderWay DEF QueriesInv, QueryTypes, QueryAndRelay, RelayAt
<1>2. query \in TrueLines(s) /\ message \in TrueLines(s)
    BY <1>1 DEF TrueLines, QueryLines
<1>3. LinesTrue(Written(s, p, query)) /\ LinesTrue([lines EXCEPT ![s][p] = @ \o <<query, message>>])
    BY <1>1, <1>2, WrittenTrue, BothTrue DEF QueriesInv
<1>4. relay' \in [Msgs -> Relays]
    BY AnsweredType DEF QueryAndRelay
<1>5. LinesTrue(lines')
  <2>1. lines' = Written(s, p, query) \/ lines' = [lines EXCEPT ![s][p] = @ \o <<query, message>>]
      BY DEF QueryAndRelay
  <2>. QED
      BY <1>3, <2>1
<1>6. UNCHANGED <<hosts, ever, home, linked>>
    BY DEF QueryAndRelay
<1>. QED
    BY <1>4, <1>5, <1>6, QuietQueries DEF QueriesInv, QueryTypes

\* Whoever hosts a user had it.
LEMMA HandleLookupKeeps ==
    ASSUME QueriesInv, NEW s \in Servers, NEW p \in Servers, HandleLookup(s, p)
    PROVE  QueriesInv'
<1>. DEFINE u == Head(lines[p][s]).user
            answer == [type |-> "found", user |-> u, found |-> u \in hosts[s]]
<1>1. lines[p][s] # <<>> /\ Head(lines[p][s]).type = "lookup"
    BY DEF HandleLookup, NextLine
<1>2. u \in Users
    BY <1>1, ReadTrue DEF QueriesInv, TrueLines, QueryLines
<1>3. answer \in TrueLines(s)
  <2>1. (u \in hosts[s]) \in BOOLEAN
      OBVIOUS
  <2>2. u \in hosts[s] => u \in ever[s]
      BY DEF QueriesInv, HostsWereEver
  <2>3. answer \in QueryLines
      BY <1>2, <2>1 DEF QueryLines
  <2>. QED
      BY <2>2, <2>3 DEF TrueLines
<1>4. lines' = Replied(s, p, answer)
    BY DEF HandleLookup
<1>5. LinesTrue(lines')
    BY <1>1, <1>3, <1>4, RepliedTrue DEF QueriesInv
<1>6. /\ UNCHANGED <<hosts, ever, linked, relay>>
      /\ home' = IF u \in hosts[s] THEN [home EXCEPT ![s][u] = s] ELSE home
    BY DEF HandleLookup
<1>. HIDE DEF u, answer
<1>7. LinesTrue(lines)'
    BY <1>5, <1>6 DEF LinesTrue, TrueLines
<1>8. QueryTypes' /\ HostsWereEver'
    BY <1>2, <1>6 DEF QueriesInv, QueryTypes, HostsWereEver
<1>9. HomesWereTrue'
    BY <1>2, <1>6 DEF QueriesInv, QueryTypes, HostsWereEver, HomesWereTrue
<1>. QED
    BY <1>7, <1>8, <1>9 DEF QueriesInv

LEMMA HandleFoundKeeps ==
    ASSUME QueriesInv, NEW s \in Servers, NEW p \in Servers, HandleFound(s, p)
    PROVE  QueriesInv'
<1>. DEFINE first == Head(lines[p][s])
<1>1. lines[p][s] # <<>> /\ first.type = "found"
    BY DEF HandleFound, NextLine
<1>2. first \in TrueLines(p) /\ LinesTrue(Read(s, p))
    BY <1>1, ReadTrue DEF QueriesInv
<1>3. first.user \in Users /\ (first.found => first.user \in ever[p])
    BY <1>1, <1>2 DEF TrueLines, QueryLines
<1>4. /\ UNCHANGED <<hosts, ever, linked, relay>>
      /\ home' = IF first.found THEN [home EXCEPT ![s][first.user] = p] ELSE home
      /\ lines' = Read(s, p)
    BY DEF HandleFound
<1>5. LinesTrue(lines')
    BY <1>2, <1>4
<1>. HIDE DEF first
<1>6. LinesTrue(lines)'
    BY <1>5, <1>4 DEF LinesTrue, TrueLines
<1>7. QueryTypes' /\ HostsWereEver'
    BY <1>3, <1>4 DEF QueriesInv, QueryTypes, HostsWereEver
<1>8. HomesWereTrue'
    BY <1>3, <1>4 DEF QueriesInv, QueryTypes, HomesWereTrue
<1>. QED
    BY <1>6, <1>7, <1>8 DEF QueriesInv

\* The other lines tell nobody of a user's home.
LEMMA OtherLinesKeep ==
    ASSUME QueriesInv, NEW s \in Servers, NEW p \in Servers,
           \/ HandleRateQuery(s, p) \/ HandleRate(s, p) \/ ReadRejected(s, p)
           \/ \E admitted \in BOOLEAN : HandleRelay(s, p, admitted)
    PROVE  QueriesInv'
<1>1. lines[p][s] # <<>>
  <2>1. CASE HandleRateQuery(s, p) \/ HandleRate(s, p) \/ ReadRejected(s, p)
      BY <2>1 DEF HandleRateQuery, HandleRate, ReadRejected, NextLine
  <2>2. ASSUME NEW admitted \in BOOLEAN, HandleRelay(s, p, admitted) PROVE lines[p][s] # <<>>
      BY <2>2 DEF HandleRelay, NextLine
  <2>. QED
      BY <2>1, <2>2
<1>2. UNCHANGED <<hosts, ever, home, linked, relay>>
    BY DEF HandleRateQuery, HandleRate, ReadRejected, HandleRelay
<1>3. LinesTrue(lines')
  <2>1. CASE HandleRateQuery(s, p)
    <3>. DEFINE answer == [type |-> "rate", user |-> Head(lines[p][s]).user, rate |-> Rate[s]]
    <3>1. Head(lines[p][s]).user \in Users
        BY <1>1, <2>1, ReadTrue DEF QueriesInv, HandleRateQuery, NextLine, TrueLines, QueryLines
    <3>2. answer \in TrueLines(s)
        BY <3>1, QueryAssumption DEF TrueLines, QueryLines
    <3>3. lines' = Replied(s, p, answer)
        BY <2>1 DEF HandleRateQuery
    <3>. QED
        BY <1>1, <3>2, <3>3, RepliedTrue DEF QueriesInv
  <2>2. CASE HandleRate(s, p) \/ ReadRejected(s, p)
      BY <1>1, <2>2, ReadTrue DEF QueriesInv, HandleRate, ReadRejected
  <2>3. ASSUME NEW admitted \in BOOLEAN, HandleRelay(s, p, admitted) PROVE LinesTrue(lines')
    <3>1. [type |-> "rejected"] \in TrueLines(s)
        BY DEF TrueLines, QueryLines
    <3>2. lines' = Read(s, p) \/ lines' = Replied(s, p, [type |-> "rejected"])
        BY <2>3 DEF HandleRelay
    <3>. QED
        BY <1>1, <3>1, <3>2, ReadTrue, RepliedTrue DEF QueriesInv
  <2>. QED
      BY <2>1, <2>2, <2>3
<1>. QED
    BY <1>2, <1>3, QuietQueries DEF QueriesInv, QueryTypes

LEMMA RestartServerKeeps ==
    ASSUME QueriesInv, NEW s \in Servers, RestartServer(s)
    PROVE  QueriesInv'
<1>1. LinesTrue(lines)'
    BY DEF QueriesInv, LinesTrue, TrueLines, RestartServer
<1>2. relay' \in [Msgs -> Relays]
    BY DEF QueriesInv, QueryTypes, RestartServer, Relays
<1>3. home' \in [Servers -> [Users -> Servers \cup {NoServer}]] /\ HomesWereTrue'
    BY DEF QueriesInv, QueryTypes, HomesWereTrue, RestartServer
<1>4. HostsWereEver' /\ hosts' = hosts /\ ever' = ever /\ linked' \subseteq {l \in Servers \X Servers : l[1] # l[2]}
    BY DEF QueriesInv, QueryTypes, HostsWereEver, RestartServer
<1>. QED
    BY <1>1, <1>2, <1>3, <1>4 DEF QueriesInv, QueryTypes

LEMMA QueriesStepKeeps == QueriesInv /\ [QueriesNext]_queryVars => QueriesInv'
<1>. SUFFICES ASSUME QueriesInv, [QueriesNext]_queryVars PROVE QueriesInv'
    OBVIOUS
<1>1. CASE UNCHANGED queryVars
    BY <1>1, QuietQueries DEF queryVars, QueriesInv, QueryTypes
<1>2. ASSUME NEW s \in Servers, NEW p \in Servers,
             \/ Link(s, p) \/ Unlink(s, p)
             \/ HandleLookup(s, p) \/ HandleFound(s, p) \/ HandleRateQuery(s, p)
             \/ HandleRate(s, p) \/ ReadRejected(s, p)
             \/ \E admitted \in BOOLEAN : HandleRelay(s, p, admitted)
      PROVE  QueriesInv'
    BY <1>2, LinkKeeps, HandleLookupKeeps, HandleFoundKeeps, OtherLinesKeep
<1>3. ASSUME NEW s \in Servers,
             RestartServer(s) \/ \E u \in Users : RegisterUser(s, u) \/ ForgetUser(s, u)
      PROVE  QueriesInv'
    BY <1>3, RestartServerKeeps, UsersKeep
<1>4. ASSUME NEW m \in Msgs, NEW s \in Servers, NEW pair \in Traffic, Ask(m, s, pair[1], pair[2])
      PROVE  QueriesInv'
  <2>1. pair[1] \in Users /\ pair[2] \in Users
      BY QueryAssumption
  <2>. QED
      BY <1>4, <2>1, AskKeeps
<1>5. ASSUME NEW m \in Msgs,
             \/ NoRoute(m) \/ QueueRelay(m) \/ \E p \in Servers : Find(m, p)
             \/ \E limited \in BOOLEAN : QueryAndRelay(m, limited)
      PROVE  QueriesInv'
    BY <1>5, NoWayKeeps, FindKeeps, QueryAndRelayKeeps
<1>. QED
    BY <1>1, <1>2, <1>3, <1>4, <1>5 DEF QueriesNext

\* No server is remembered as the home of a user it never had
\* (_handle_user_lookup and the answers to it), with any number of servers,
\* questions and answers under way and restarts.
THEOREM HomesAreTrue == QueriesSpec => []HomesWereTrue
<1>1. QueriesInv => HomesWereTrue
    BY DEF QueriesInv
<1>. QED
    BY <1>1, QueriesBegin, QueriesStepKeeps, PTL DEF QueriesSpec

-----------------------------------------------------------------------------
(* Decoys: the traffic sent to look like talk. *)

\* A loop that sends has chosen where to.
AimInv == \A l \in Loops : loop[l] = "sending" => aim[l] \in Peers \X (1 .. MaxKeys)

\* What clears the stop goes on to switch on.
StopInv ==
    \/ stopping \/ last = "on"
    \/ \E c \in Callers : CallAt(c, "start")
    \/ \A l \in Loops : ~Alive(l)

DecoysInv == DecoysTypeOK /\ AimInv /\ StopInv

LEMMA DecoysBegin == DecoysInit => DecoysInv
<1>. SUFFICES ASSUME DecoysInit PROVE DecoysInv
    OBVIOUS
<1>1. DecoysTypeOK
  <2>1. /\ entry \in [Peers -> 0 .. MaxKeys] /\ theirs \in [Peers -> 0 .. MaxKeys]
        /\ agreed \in [Peers -> 0 .. MaxKeys]
      BY DecoyAssumption DEF DecoysInit
  <2>2. line \in [Peers -> SUBSET (1 .. MaxKeys)] /\ aim \in [Loops -> {<<>>} \cup (Peers \X (1 .. MaxKeys))]
      BY DEF DecoysInit
  <2>. QED
      BY <2>1, <2>2 DEF DecoysInit, DecoysTypeOK
<1>2. AimInv /\ StopInv
    BY DEF DecoysInit, AimInv, StopInv, Alive
<1>. QED
    BY <1>1, <1>2 DEF DecoysInv

LEMMA CallsKeep ==
    ASSUME DecoysInv, NEW c \in Callers,
           \/ \E on \in BOOLEAN : Switch(c, on)
           \/ Look(c) \/ ClearStop(c) \/ StopDecoys(c)
           \/ \E l \in Loops : StartDecoyLoop(c, l)
    PROVE  DecoysInv'
<1>. USE DecoyAssumption
<1>1. DecoysTypeOK'
  <2>1. ASSUME NEW on \in BOOLEAN, Switch(c, on) PROVE DecoysTypeOK'
      BY <2>1 DEF DecoysInv, DecoysTypeOK, Switch, packetVars
  <2>2. CASE Look(c) \/ ClearStop(c) \/ StopDecoys(c)
      BY <2>2 DEF DecoysInv, DecoysTypeOK, Look, ClearStop, StopDecoys, CallEnded, packetVars
  <2>3. ASSUME NEW l \in Loops, StartDecoyLoop(c, l) PROVE DecoysTypeOK'
      BY <2>3 DEF DecoysInv, DecoysTypeOK, StartDecoyLoop, CallEnded, packetVars
  <2>. QED
      BY <2>1, <2>2, <2>3
<1>2. AimInv'
    BY DEF DecoysInv, DecoysTypeOK, AimInv, Switch, Look, ClearStop, StopDecoys, StartDecoyLoop
<1>3. StopInv'
  <2>1. ASSUME NEW on \in BOOLEAN, Switch(c, on) PROVE StopInv'
      BY <2>1 DEF DecoysInv, DecoysTypeOK, StopInv, Switch, CallAt, Alive
  <2>2. CASE Look(c)
      BY <2>2 DEF DecoysInv, DecoysTypeOK, StopInv, Look, CallAt, CallEnded, Alive
  <2>3. CASE ClearStop(c)
      BY <2>3 DEF DecoysInv, DecoysTypeOK, StopInv, ClearStop, CallAt, Alive
  <2>4. CASE StopDecoys(c)
      BY <2>4 DEF StopInv, StopDecoys
  <2>5. ASSUME NEW l \in Loops, StartDecoyLoop(c, l) PROVE StopInv'
      BY <2>5 DEF StopInv, StartDecoyLoop, CallEnded
  <2>. QED
      BY <2>1, <2>2, <2>3, <2>4, <2>5
<1>. QED
    BY <1>1, <1>2, <1>3 DEF DecoysInv

LEMMA LoopsKeep ==
    ASSUME DecoysInv, NEW l \in Loops,
           FirstRound(l) \/ EndLoop(l) \/ SendDecoy(l) \/ \E p \in Peers : Choose(l, p)
    PROVE  DecoysInv'
<1>. USE DecoyAssumption
<1>1. DecoysTypeOK' /\ AimInv'
  <2>1. CASE FirstRound(l) \/ EndLoop(l)
      BY <2>1 DEF DecoysInv, DecoysTypeOK, AimInv, FirstRound, EndLoop, packetVars, switchVars
  <2>2. CASE SendDecoy(l)
    <3>1. aim[l][1] \in Peers /\ aim[l][2] \in 1 .. MaxKeys
        BY <2>2 DEF DecoysInv, AimInv, SendDecoy
    <3>. QED
        BY <2>2, <3>1 DEF DecoysInv, DecoysTypeOK, AimInv, SendDecoy, switchVars
  <2>3. ASSUME NEW p \in Peers, Choose(l, p) PROVE DecoysTypeOK' /\ AimInv'
    <3>1. entry[p] \in 1 .. MaxKeys
        BY <2>3 DEF DecoysInv, DecoysTypeOK, Choose
    <3>2. <<p, entry[p]>> \in Peers \X (1 .. MaxKeys)
        BY <3>1
    <3>. QED
        BY <2>3, <3>2 DEF DecoysInv, DecoysTypeOK, AimInv, Choose, packetVars, switchVars
  <2>. QED
      BY <2>1, <2>2, <2>3
<1>2. StopInv'
  <2>1. \A m \in Loops : Alive(m)' => Alive(m)
      BY DEF DecoysInv, DecoysTypeOK, FirstRound, EndLoop, SendDecoy, Choose, Alive
  <2>2. UNCHANGED <<stopping, call, last>>
      BY DEF FirstRound, EndLoop, SendDecoy, Choose, switchVars
  <2>. QED
      BY <2>1, <2>2 DEF DecoysInv, StopInv, CallAt
<1>. QED
    BY <1>1, <1>2 DEF DecoysInv

LEMMA PeersKeep ==
    ASSUME DecoysInv, NEW p \in Peers,
           \/ PeerEnters(p) \/ EntryGone(p)
           \/ \E key \in 1 .. MaxKeys : Handshake(p, key) \/ DecoyArrives(p, key)
    PROVE  DecoysInv'
<1>1. UNCHANGED <<enabled, stopping, thread, call, last, loop, aim>>
    BY DEF PeerEnters, EntryGone, Handshake, DecoyArrives, switchVars
<1>2. DecoysTypeOK'
  <2>1. entry' \in [Peers -> 0 .. MaxKeys] /\ theirs' \in [Peers -> 0 .. MaxKeys]
    <3>1. CASE EntryGone(p)
        BY <3>1, DecoyAssumption DEF DecoysInv, DecoysTypeOK, EntryGone
    <3>2. CASE PeerEnters(p)
        BY <3>2, DecoyAssumption DEF DecoysInv, DecoysTypeOK, PeerEnters
    <3>3. ASSUME NEW key \in 1 .. MaxKeys, Handshake(p, key) \/ DecoyArrives(p, key)
          PROVE  entry' \in [Peers -> 0 .. MaxKeys] /\ theirs' \in [Peers -> 0 .. MaxKeys]
        BY <3>3, DecoyAssumption DEF DecoysInv, DecoysTypeOK, Handshake, DecoyArrives
    <3>. QED
        BY <3>1, <3>2, <3>3
  <2>2. agreed' \in [Peers -> 0 .. MaxKeys]
      BY DecoyAssumption DEF DecoysInv, DecoysTypeOK, PeerEnters, EntryGone, Handshake, DecoyArrives
  <2>3. line' \in [Peers -> SUBSET (1 .. MaxKeys)]
      BY DEF DecoysInv, DecoysTypeOK, PeerEnters, EntryGone, Handshake, DecoyArrives
  <2>4. fate' \in [Peers -> {"none", "dropped", "kept"}]
      BY DEF DecoysInv, DecoysTypeOK, PeerEnters, EntryGone, Handshake, DecoyArrives
  <2>. QED
      BY <1>1, <2>1, <2>2, <2>3, <2>4 DEF DecoysInv, DecoysTypeOK
<1>3. AimInv' /\ StopInv'
    BY <1>1 DEF DecoysInv, AimInv, StopInv, CallAt, Alive
<1>. QED
    BY <1>2, <1>3 DEF DecoysInv

LEMMA DecoysStepKeeps == DecoysInv /\ [DecoysNext]_decoyVars => DecoysInv'
<1>. SUFFICES ASSUME DecoysInv, [DecoysNext]_decoyVars PROVE DecoysInv'
    OBVIOUS
<1>1. CASE UNCHANGED decoyVars
    BY <1>1 DEF decoyVars, switchVars, packetVars, DecoysInv, DecoysTypeOK, AimInv, StopInv, CallAt, Alive
<1>. QED
    BY <1>1, CallsKeep, LoopsKeep, PeersKeep DEF DecoysNext

\* Once the calls of set_decoy have all returned, and the last to return was to
\* switch off, no loop sends another packet of its own accord: the flag that
\* ends the loops is up, or none is alive.
THEOREM SwitchedOffIsSilent == DecoysSpec => []OffSilences
<1>1. DecoysInv => OffSilences
    BY DEF DecoysInv, StopInv, OffSilences, CallAt
<1>. QED
    BY <1>1, DecoysBegin, DecoysStepKeeps, PTL DEF DecoysSpec

-----------------------------------------------------------------------------
(* Forum: what votes and comments leave in the tables. *)

\* Handlers that vote on a row, and those that add a comment to a post or take
\* one from it.
Voter(t, x) == Busy(t) /\ req[t].op = "vote" /\ req[t].target = x
Discusses(t, p) ==
    /\ Busy(t)
    /\ \/ req[t].op = "comment" /\ req[t].on = p
       \/ req[t].op = "delete" /\ req[t].target \in Comments /\ db.place[req[t].target] = p

\* A request r can be at step s, with n as the number it has read.
Fits(r, s, n) ==
    /\ r \in Requests
    /\ r.op = "vote" => s \in {"lookup", "record", "tally", "adjust", "commit"}
    /\ r.op = "post" => s \in {"publish", "commit"}
    /\ r.op = "comment" => s \in {"check", "insert", "settle", "measure", "stats", "commit"}
    /\ r.op = "delete" => s \in {"check", "erase", "settle", "measure", "stats", "commit"}
    /\ r.op = "delete" /\ s \in {"settle", "measure", "stats"} => r.target \in Comments
    /\ r.op = "save" => s \in {"save", "commit"}
    /\ s = "adjust" => r.target \in Posts
    /\ s = "stats" => n \in Nat

AtItsStep == \A t \in Threads : Busy(t) => Fits(req[t], at[t], seen[t].number)

\* A comment has an author and a place or neither, and what is on disk of it
\* is also in the tables.
RowsInv ==
    \A c \in Comments :
        /\ db.author[c] = NoUser <=> db.place[c] = NoTarget
        /\ disk.author[c] = NoUser <=> disk.place[c] = NoTarget
        /\ disk.place[c] \in {NoTarget, db.place[c]}

\* The id of a comment still to be written is nobody else's.
NewIdInv ==
    \A t \in Threads : Busy(t) /\ req[t].op = "comment" /\ at[t] \in {"check", "insert"} =>
        /\ ~Exists(req[t].target)
        /\ \A u \in Threads \ {t} : Busy(u) /\ req[u].op # "save" => req[u].target # req[t].target

\* The votes of a fresh user were cast by a fresh user.
FreshInv ==
    /\ \A b \in Ballots : b[1] \in fresh /\ (db.vote[b] # NoVote \/ disk.vote[b] # NoVote) => b \in early
    /\ \A t \in Threads : at[t] = "record" /\ seen[t].counted => req[t].user \notin fresh

\* The vote on disk is the one in the tables and the one its user was told.
Kept(b) == db.vote[b] = disk.vote[b] /\ (told[b] # NoVote => told[b] = disk.vote[b])

\* Nobody votes on x, or not yet: all its votes are kept, and counted.
VotesSettled(x) ==
    /\ \A u \in Authors : Kept(<<u, x>>)
    /\ db.net[x] = disk.net[x]
    /\ db.net[x] = Score(db, x)

\* What the counter lacks of the score while t votes.
Missing(t) == IF at[t] # "commit" /\ seen[t].counted THEN Delta(t) ELSE 0

\* t votes on x.
VoteUnderWay(t, x) ==
    /\ Exists(x)
    /\ at[t] = "record" =>
          /\ seen[t].old = db.vote[Ballot(t)]
          /\ seen[t].counted => Ballot(t) \notin early
          /\ ~seen[t].counted /\ db.vote[Ballot(t)] # NoVote => Ballot(t) \in early
    /\ at[t] \in {"tally", "adjust", "commit"} =>
          /\ db.vote[Ballot(t)] = NewValue(t)
          /\ \A u \in Authors \ {req[t].user} : Kept(<<u, x>>)
          /\ Score(db, x) = db.net[x] + Missing(t)
    /\ at[t] = "adjust" => seen[t].number = db.net[x]

NetInv(x) ==
    /\ \A t, u \in Threads : Voter(t, x) /\ Voter(u, x) => t = u
    /\ (\A t \in Threads : Voter(t, x) => at[t] \in {"lookup", "record"}) => VotesSettled(x)
    /\ \A t \in Threads : Voter(t, x) => VoteUnderWay(t, x)

\* Nobody adds a comment to p or deletes one, or not yet.
AnswersSettled(p) ==
    /\ Answers(db, p) = Answers(disk, p)
    /\ db.count[p] = disk.count[p]
    /\ db.count[p] = Cardinality(Answers(db, p))

CountInv(p) ==
    /\ \A t, u \in Threads : Discusses(t, p) /\ Discusses(u, p) => t = u
    /\ (\A t \in Threads : Discusses(t, p) => at[t] \in {"check", "insert", "erase"}) => AnswersSettled(p)
    /\ \A t \in Threads : Discusses(t, p) =>
          /\ at[t] = "stats" => seen[t].number = Cardinality(Answers(db, p))
          /\ at[t] = "commit" => db.count[p] = Cardinality(Answers(db, p))

VotesInv == \A x \in Targets : <<"net", x>> \notin disturbed => NetInv(x)
CountsInv == \A p \in Posts : <<"count", p>> \notin disturbed => CountInv(p)

Handling == [Threads -> Requests \cup {NoRequest}]

LEMMA RequestKinds ==
    ASSUME NEW r \in Requests
    PROVE  /\ r.op \in {"vote", "post", "comment", "delete", "save"}
           /\ r.user \in Authors
           /\ r.op # "save" => r.target \in Targets
           /\ r.op = "vote" => r.value \in Values
           /\ r.op = "post" => r.target \in Posts
           /\ r.op = "comment" => r.target \in Comments /\ r.on \in Posts
                                  /\ r.parent \in Comments \cup {NoTarget}
BY DEF Requests, Targets

LEMMA NoRequestIsNone == NoRequest \notin Requests /\ NoRequest.op = "none"
BY DEF NoRequest, Requests

LEMMA NewValueType ==
    ASSUME ForumTypeOK, NEW t \in Threads, req[t] \in Requests, req[t].op = "vote"
    PROVE  /\ NewValue(t) \in Values
           /\ Delta(t) \in Int
           /\ Ballot(t) \in Ballots
<1>1. req[t].value \in Values /\ req[t].user \in Authors /\ req[t].target \in Targets
    BY RequestKinds
<1>2. seen[t].old \in Values \cup {NoVote}
    BY DEF ForumTypeOK, Reading
<1>. QED  BY <1>1, <1>2 DEF NewValue, Delta, Ballot, Ballots, Values

LEMMA CounterKnown ==
    ASSUME ForumTypeOK, NEW r \in Requests
    PROVE  Counter(r) \subseteq Counters
<1>1. r.op = "delete" /\ r.target \in Comments => db.place[r.target] \in Posts \cup {NoTarget}
    BY DEF ForumTypeOK, Tables
<1>. QED  BY <1>1, RequestKinds DEF Counter, Counters

LEMMA AnswersCount ==
    ASSUME NEW p, NEW tables
    PROVE  Cardinality(Answers(tables, p)) \in Nat
<1>1. IsFiniteSet(Answers(tables, p))
    BY FS_Subset, ForumAssumption DEF Answers
<1>. QED  BY <1>1, FS_CardinalityType

(* Types. *)

LEMMA InWorkKnown ==
    ASSUME ForumTypeOK, AtItsStep
    PROVE  InWork \subseteq Counters
<1>1. ASSUME NEW t \in Threads, Busy(t)
      PROVE  Counter(req[t]) \subseteq Counters
    BY <1>1, CounterKnown DEF AtItsStep, Fits
<1>. QED  BY <1>1 DEF InWork

LEMMA ForumBegins ==
    ASSUME ForumInit
    PROVE  ForumTypeOK /\ AtItsStep /\ RowsInv /\ NewIdInv /\ FreshInv
<1>1. db \in Tables
    BY DEF ForumInit, Tables, Targets, Ballots
<1>2. ForumTypeOK
  <2>1. seen \in [Threads -> Reading]
    BY DEF ForumInit, Reading, Nothing
  <2>. QED  BY <1>1, <2>1, ForumAssumption DEF ForumInit, ForumTypeOK, Ballots
<1>3. AtItsStep /\ NewIdInv
    BY DEF ForumInit, AtItsStep, NewIdInv, Busy
<1>4. RowsInv /\ FreshInv
    BY DEF ForumInit, RowsInv, FreshInv, Targets, Ballots
<1>. QED  BY <1>2, <1>3, <1>4

LEMMA ReturnTypes ==
    ASSUME ForumTypeOK, NEW t \in Threads, Return(t)
    PROVE  /\ at' \in [Threads -> {"idle"} \cup Steps]
           /\ req' \in Handling
           /\ seen' \in [Threads -> Reading]
           /\ at'[t] = "idle"
           /\ \A u \in Threads \ {t} : at'[u] = at[u] /\ req'[u] = req[u] /\ seen'[u] = seen[u]
BY DEF ForumTypeOK, Return, Goto, Handling, Reading, Nothing

LEMMA GotoType ==
    ASSUME ForumTypeOK, NEW t \in Threads, NEW s \in Steps, Goto(t, s)
    PROVE  /\ at' \in [Threads -> {"idle"} \cup Steps]
           /\ at'[t] = s
           /\ \A u \in Threads \ {t} : at'[u] = at[u]
BY DEF ForumTypeOK, Goto

LEMMA VoteWritten ==
    ASSUME NEW T \in Tables, NEW b \in Ballots, NEW v \in Values \cup {NoVote}, NEW N,
           N = [T EXCEPT !.vote[b] = v]
    PROVE  /\ N \in Tables
           /\ N.vote = [T.vote EXCEPT ![b] = v]
           /\ N.net = T.net /\ N.author = T.author /\ N.deleted = T.deleted
           /\ N.place = T.place /\ N.parent = T.parent /\ N.count = T.count
BY DEF Tables

LEMMA DeletedWritten ==
    ASSUME NEW T \in Tables, NEW x \in Targets, NEW N,
           N = [T EXCEPT !.deleted = T.deleted \cup {x}]
    PROVE  /\ N \in Tables
           /\ N.deleted = T.deleted \cup {x}
           /\ N.vote = T.vote /\ N.net = T.net /\ N.author = T.author
           /\ N.place = T.place /\ N.parent = T.parent /\ N.count = T.count
BY DEF Tables

BasicInv == ForumTypeOK /\ AtItsStep /\ RowsInv /\ NewIdInv /\ FreshInv

OthersStay(t) ==
    \A u \in Threads \ {t} : at'[u] = at[u] /\ req'[u] = req[u] /\ seen'[u] = seen[u]

LEMMA StepFits ==
    ASSUME AtItsStep, NEW t \in Threads, OthersStay(t),
           at'[t] = "idle" \/ Fits(req'[t], at'[t], seen'[t].number)
    PROVE  AtItsStep'
<1>1. ASSUME NEW u \in Threads, at'[u] # "idle"
      PROVE  Fits(req'[u], at'[u], seen'[u].number)
  <2>1. CASE u = t  BY <1>1, <2>1
  <2>2. CASE u # t  BY <1>1, <2>2 DEF AtItsStep, OthersStay, Busy
  <2>. QED  BY <2>1, <2>2
<1>2. AtItsStep' <=> \A u \in Threads : at'[u] # "idle" => Fits(req'[u], at'[u], seen'[u].number)
    BY DEF AtItsStep, Fits, Busy
<1>. QED  BY <1>1, <1>2

LEMMA IdsStayNew ==
    ASSUME NewIdInv, NEW t \in Threads, OthersStay(t),
           at'[t] # "idle" =>
              /\ Busy(t) /\ req'[t] = req[t]
              /\ at'[t] \in {"check", "insert"} => at[t] \in {"check", "insert"},
           \A c \in Comments : db.author[c] = NoUser =>
              \/ db'.author[c] = NoUser
              \/ Busy(t) /\ req[t].op = "comment" /\ req[t].target = c /\ at'[t] \notin {"check", "insert"},
           AtItsStep
    PROVE  NewIdInv'
<1>. SUFFICES ASSUME NEW u \in Threads, at'[u] # "idle", req'[u].op = "comment", at'[u] \in {"check", "insert"}
              PROVE  /\ db'.author[req'[u].target] = NoUser
                     /\ \A w \in Threads \ {u} : at'[w] # "idle" /\ req'[w].op # "save" =>
                            req'[w].target # req'[u].target
    BY DEF NewIdInv, Busy, Exists
<1>1. Busy(u) /\ req'[u] = req[u] /\ at[u] \in {"check", "insert"}
    BY DEF OthersStay, Busy
<1>2. req[u] \in Requests /\ req[u].target \in Comments
    BY <1>1, RequestKinds DEF AtItsStep, Fits
<1>3. /\ db.author[req[u].target] = NoUser
      /\ \A w \in Threads \ {u} : Busy(w) /\ req[w].op # "save" => req[w].target # req[u].target
    BY <1>1 DEF NewIdInv, Exists
<1>4. db'.author[req'[u].target] = NoUser
    BY <1>1, <1>2, <1>3
<1>5. ASSUME NEW w \in Threads \ {u}, at'[w] # "idle"
      PROVE  Busy(w) /\ req'[w] = req[w]
    BY <1>5 DEF OthersStay, Busy
<1>. QED  BY <1>1, <1>3, <1>4, <1>5

LEMMA RowsStay ==
    ASSUME RowsInv,
           \/ db'.author = db.author /\ db'.place = db.place
           \/ db'.author = disk.author /\ db'.place = disk.place,
           \/ disk'.author = disk.author /\ disk'.place = disk.place
           \/ disk'.author = db'.author /\ disk'.place = db'.place
    PROVE  RowsInv'
BY DEF RowsInv

LEMMA FreshStay ==
    ASSUME FreshInv, NEW t \in Threads, OthersStay(t), at'[t] # "record",
           db'.vote \in {db.vote, disk.vote}, disk'.vote \in {db.vote, disk.vote},
           early' = early, fresh' \subseteq fresh
    PROVE  FreshInv'
BY DEF FreshInv, OthersStay

(* The steps of a vote. *)

LEMMA VoteLookupBasics ==
    ASSUME BasicInv, NEW t \in Threads, VoteLookup(t)
    PROVE  BasicInv' /\ OthersStay(t)
<1>1. /\ at[t] = "lookup"
      /\ UNCHANGED <<db, disk, fresh, asked, told, early>>
      /\ \/ Return(t) /\ UNCHANGED disturbed
         \/ /\ seen' = [seen EXCEPT ![t].old = db.vote[Ballot(t)],
                                      ![t].counted = req[t].user \notin fresh]
            /\ Goto(t, "record")
            /\ disturbed' \in {disturbed, disturbed \cup Counter(req[t])}
            /\ UNCHANGED req
    BY Zenon DEF VoteLookup
<1>2. req[t] \in Requests /\ req[t].op = "vote" /\ Fits(req[t], at[t], seen[t].number)
    BY <1>1, RequestKinds DEF BasicInv, AtItsStep, Fits, Busy
<1>3. Ballot(t) \in Ballots
    BY <1>2, NewValueType DEF BasicInv
<1>4. CASE Return(t) /\ UNCHANGED disturbed
  <2>1. ForumTypeOK' /\ OthersStay(t) /\ at'[t] = "idle"
      BY <1>1, <1>4, ReturnTypes DEF BasicInv, ForumTypeOK, OthersStay, Handling
  <2>2. AtItsStep'
      BY <2>1, StepFits DEF BasicInv
  <2>3. RowsInv' /\ NewIdInv' /\ FreshInv'
      BY <1>1, <2>1, RowsStay, IdsStayNew, FreshStay DEF BasicInv
  <2>. QED  BY <2>1, <2>2, <2>3 DEF BasicInv
<1>5. CASE /\ seen' = [seen EXCEPT ![t].old = db.vote[Ballot(t)],
                                   ![t].counted = req[t].user \notin fresh]
           /\ Goto(t, "record")
           /\ disturbed' \in {disturbed, disturbed \cup Counter(req[t])}
           /\ UNCHANGED req
  <2>1. /\ at' \in [Threads -> {"idle"} \cup Steps] /\ at'[t] = "record"
        /\ \A u \in Threads \ {t} : at'[u] = at[u]
      BY <1>5, GotoType DEF BasicInv, Steps
  <2>2. seen' \in [Threads -> Reading]
    <3>1. db.vote[Ballot(t)] \in Values \cup {NoVote}
        BY <1>3 DEF BasicInv, ForumTypeOK, Tables
    <3>. QED  BY <1>5, <3>1 DEF BasicInv, ForumTypeOK, Reading
  <2>3. disturbed' \subseteq Counters
      BY <1>2, <1>5, CounterKnown DEF BasicInv, ForumTypeOK
  <2>4. ForumTypeOK' /\ OthersStay(t)
      BY <1>1, <1>5, <2>1, <2>2, <2>3 DEF BasicInv, ForumTypeOK, OthersStay
  <2>5. AtItsStep'
    <3>1. Fits(req'[t], at'[t], seen'[t].number)
        BY <1>2, <1>5, <2>1 DEF Fits
    <3>. QED  BY <3>1, <2>4, StepFits DEF BasicInv
  <2>6. RowsInv' /\ NewIdInv'
      BY <1>1, <1>2, <1>5, <2>1, <2>4, RowsStay, IdsStayNew DEF BasicInv, Busy
  <2>7. FreshInv'
    <3>1. seen'[t].counted => req'[t].user \notin fresh
        BY <1>5 DEF BasicInv, ForumTypeOK, Reading
    <3>. QED  BY <1>1, <2>4, <3>1 DEF BasicInv, FreshInv, OthersStay
  <2>. QED  BY <2>4, <2>5, <2>6, <2>7 DEF BasicInv
<1>. QED  BY <1>1, <1>4, <1>5

LEMMA VoteRecordBasics ==
    ASSUME BasicInv, NEW t \in Threads, VoteRecord(t)
    PROVE  BasicInv' /\ OthersStay(t)
<1>1. /\ at[t] = "record"
      /\ db' \in {db, [db EXCEPT !.vote[Ballot(t)] = NewValue(t)]}
      /\ early' = IF seen[t].counted THEN early ELSE early \cup {Ballot(t)}
      /\ Goto(t, "tally")
      /\ UNCHANGED <<disk, req, seen, fresh, asked, told, disturbed>>
    BY Zenon DEF VoteRecord
<1>2. req[t] \in Requests /\ req[t].op = "vote" /\ Fits(req[t], at[t], seen[t].number)
    BY <1>1, RequestKinds DEF BasicInv, AtItsStep, Fits, Busy
<1>3. Ballot(t) \in Ballots /\ NewValue(t) \in Values /\ Ballot(t)[1] = req[t].user
    BY <1>2, NewValueType DEF BasicInv, Ballot
<1>4. /\ at' \in [Threads -> {"idle"} \cup Steps] /\ at'[t] = "tally"
      /\ OthersStay(t)
    BY <1>1, GotoType DEF BasicInv, Steps, OthersStay
<1>5. /\ db' \in Tables /\ db'.author = db.author /\ db'.place = db.place
      /\ db'.vote = db.vote \/ db'.vote = [db.vote EXCEPT ![Ballot(t)] = NewValue(t)]
  <2>1. db \in Tables  BY DEF BasicInv, ForumTypeOK
  <2>. QED  BY <1>1, <1>3, <2>1, VoteWritten
<1>6. ForumTypeOK'
    BY <1>1, <1>3, <1>4, <1>5 DEF BasicInv, ForumTypeOK
<1>7. AtItsStep'
  <2>1. Fits(req'[t], at'[t], seen'[t].number)
      BY <1>1, <1>2, <1>4 DEF Fits
  <2>. QED  BY <2>1, <1>4, StepFits DEF BasicInv
<1>8. RowsInv' /\ NewIdInv'
    BY <1>1, <1>2, <1>4, <1>5, RowsStay, IdsStayNew DEF BasicInv, Busy
<1>9. FreshInv'
  <2>1. db.vote \in [Ballots -> Values \cup {NoVote}]
      BY DEF BasicInv, ForumTypeOK, Tables
  <2>2. seen[t].counted => req[t].user \notin fresh
      BY <1>1 DEF BasicInv, FreshInv
  <2>. QED  BY <1>1, <1>3, <1>4, <1>5, <2>1, <2>2 DEF BasicInv, FreshInv, OthersStay
<1>. QED  BY <1>4, <1>6, <1>7, <1>8, <1>9 DEF BasicInv

LEMMA RollbackBasics ==
    ASSUME BasicInv, NEW t \in Threads, VoteRollsBack(t)
    PROVE  BasicInv' /\ OthersStay(t)
<1>1. /\ db' = disk /\ Return(t) /\ disturbed' = disturbed \cup InWork
      /\ UNCHANGED <<disk, fresh, asked, told, early>>
    BY Zenon DEF VoteRollsBack
<1>2. /\ at' \in [Threads -> {"idle"} \cup Steps] /\ at'[t] = "idle" /\ OthersStay(t)
      /\ req' \in Handling /\ seen' \in [Threads -> Reading]
    BY <1>1, ReturnTypes DEF BasicInv, OthersStay
<1>3. ForumTypeOK'
    BY <1>1, <1>2, InWorkKnown DEF BasicInv, ForumTypeOK, Handling
<1>4. AtItsStep' /\ RowsInv' /\ FreshInv'
    BY <1>1, <1>2, StepFits, RowsStay, FreshStay DEF BasicInv
<1>5. \A c \in Comments : db.author[c] = NoUser => db'.author[c] = NoUser
    BY <1>1 DEF BasicInv, RowsInv
<1>6. NewIdInv'
    BY <1>2, <1>5, IdsStayNew DEF BasicInv
<1>. QED  BY <1>2, <1>3, <1>4, <1>6 DEF BasicInv

LEMMA VoteTallyBasics ==
    ASSUME BasicInv, NEW t \in Threads, VoteTally(t)
    PROVE  BasicInv' /\ OthersStay(t)
<1>1. /\ at[t] = "tally"
      /\ UNCHANGED <<disk, req, fresh, asked, told, early, disturbed>>
      /\ \/ /\ req[t].target \in Posts
            /\ seen' = [seen EXCEPT ![t].number = db.net[req[t].target]]
            /\ Goto(t, "adjust") \/ Goto(t, "commit")
            /\ UNCHANGED db
         \/ /\ req[t].target \notin Posts
            /\ db' \in {db, [db EXCEPT !.net[req[t].target] = db.net[req[t].target] + Delta(t)]}
            /\ Goto(t, "commit")
            /\ UNCHANGED seen
    BY Zenon DEF VoteTally
<1>2. req[t] \in Requests /\ req[t].op = "vote" /\ Fits(req[t], at[t], seen[t].number)
    BY <1>1, RequestKinds DEF BasicInv, AtItsStep, Fits, Busy
<1>3. req[t].target \in Targets /\ Delta(t) \in Int /\ db \in Tables /\ db.net[req[t].target] \in Int
    BY <1>2, RequestKinds, NewValueType DEF BasicInv, ForumTypeOK, Tables
<1>4. /\ at' \in [Threads -> {"idle"} \cup Steps] /\ at'[t] \in {"adjust", "commit"}
      /\ at'[t] = "adjust" => req[t].target \in Posts
      /\ \A u \in Threads \ {t} : at'[u] = at[u]
    BY <1>1, GotoType DEF BasicInv, Steps
<1>5. seen' \in [Threads -> Reading] /\ \A u \in Threads \ {t} : seen'[u] = seen[u]
    BY <1>1, <1>3 DEF BasicInv, ForumTypeOK, Reading
<1>6. OthersStay(t)
    BY <1>1, <1>4, <1>5 DEF OthersStay
<1>7. /\ db' \in Tables /\ db'.author = db.author /\ db'.place = db.place /\ db'.vote = db.vote
  <2>1. CASE db' = db  BY <1>3, <2>1
  <2>2. CASE db' = [db EXCEPT !.net[req[t].target] = db.net[req[t].target] + Delta(t)]
    <3>1. db.net[req[t].target] + Delta(t) \in Int  BY <1>3
    <3>. QED  BY <1>3, <2>2, <3>1 DEF Tables
  <2>. QED  BY <1>1, <2>1, <2>2
<1>8. ForumTypeOK'
    BY <1>1, <1>4, <1>5, <1>7 DEF BasicInv, ForumTypeOK
<1>9. AtItsStep'
  <2>1. Fits(req'[t], at'[t], seen'[t].number)
      BY <1>1, <1>2, <1>4 DEF Fits
  <2>. QED  BY <2>1, <1>6, StepFits DEF BasicInv
<1>10. RowsInv' /\ NewIdInv' /\ FreshInv'
    BY <1>1, <1>2, <1>4, <1>6, <1>7, RowsStay, IdsStayNew, FreshStay DEF BasicInv, Busy
<1>. QED  BY <1>6, <1>8, <1>9, <1>10 DEF BasicInv

LEMMA VoteAdjustBasics ==
    ASSUME BasicInv, NEW t \in Threads, VoteAdjust(t)
    PROVE  BasicInv' /\ OthersStay(t)
<1>. DEFINE n == seen[t].number + (IF seen[t].counted THEN Delta(t) ELSE 0)
<1>1. /\ at[t] = "adjust"
      /\ db' = [db EXCEPT !.net[req[t].target] = n]
      /\ Goto(t, "commit")
      /\ UNCHANGED <<disk, req, seen, fresh, asked, told, early, disturbed>>
    BY Zenon DEF VoteAdjust
<1>2. req[t] \in Requests /\ req[t].op = "vote" /\ Fits(req[t], at[t], seen[t].number)
    BY <1>1, RequestKinds DEF BasicInv, AtItsStep, Fits, Busy
<1>3. req[t].target \in Targets /\ n \in Int /\ db \in Tables
    BY <1>2, RequestKinds, NewValueType DEF BasicInv, ForumTypeOK, Reading
<1>. HIDE DEF n
<1>4. /\ at' \in [Threads -> {"idle"} \cup Steps] /\ at'[t] = "commit"
      /\ OthersStay(t)
    BY <1>1, GotoType DEF BasicInv, Steps, OthersStay
<1>5. /\ db' \in Tables /\ db'.author = db.author /\ db'.place = db.place /\ db'.vote = db.vote
    BY <1>1, <1>3 DEF Tables
<1>6. ForumTypeOK'
    BY <1>1, <1>4, <1>5 DEF BasicInv, ForumTypeOK
<1>7. AtItsStep'
  <2>1. Fits(req'[t], at'[t], seen'[t].number)
      BY <1>1, <1>2, <1>4 DEF Fits
  <2>. QED  BY <2>1, <1>4, StepFits DEF BasicInv
<1>8. RowsInv' /\ NewIdInv' /\ FreshInv'
    BY <1>1, <1>2, <1>4, <1>5, RowsStay, IdsStayNew, FreshStay DEF BasicInv, Busy
<1>. QED  BY <1>4, <1>6, <1>7, <1>8 DEF BasicInv

(* The steps of the other handlers. *)

LEMMA PublishBasics ==
    ASSUME BasicInv, NEW t \in Threads, Publish(t)
    PROVE  BasicInv' /\ OthersStay(t)
<1>1. /\ at[t] = "publish"
      /\ db' = [db EXCEPT !.author[req[t].target] = req[t].user]
      /\ Goto(t, "commit")
      /\ UNCHANGED <<disk, req, seen, fresh, asked, told, early, disturbed>>
    BY Zenon DEF Publish
<1>2. req[t] \in Requests /\ req[t].op = "post" /\ Fits(req[t], at[t], seen[t].number)
    BY <1>1, RequestKinds DEF BasicInv, AtItsStep, Fits, Busy
<1>3. req[t].target \in Targets \ Comments /\ req[t].user \in Authors /\ db \in Tables
    BY <1>2, RequestKinds, ForumAssumption DEF BasicInv, ForumTypeOK
<1>4. /\ at' \in [Threads -> {"idle"} \cup Steps] /\ at'[t] = "commit"
      /\ OthersStay(t)
    BY <1>1, GotoType DEF BasicInv, Steps, OthersStay
<1>5. /\ db' \in Tables /\ db'.place = db.place /\ db'.vote = db.vote
      /\ \A c \in Comments : db'.author[c] = db.author[c]
  <2>1. db.author \in [Targets -> Authors \cup {NoUser}]  BY <1>3 DEF Tables
  <2>. QED  BY <1>1, <1>3, <2>1 DEF Targets, Tables
<1>6. ForumTypeOK'
    BY <1>1, <1>4, <1>5 DEF BasicInv, ForumTypeOK
<1>7. AtItsStep'
  <2>1. Fits(req'[t], at'[t], seen'[t].number)
      BY <1>1, <1>2, <1>4 DEF Fits
  <2>. QED  BY <2>1, <1>4, StepFits DEF BasicInv
<1>8. RowsInv'
    BY <1>1, <1>5 DEF BasicInv, RowsInv
<1>9. NewIdInv' /\ FreshInv'
    BY <1>1, <1>2, <1>4, <1>5, IdsStayNew, FreshStay DEF BasicInv, Busy
<1>. QED  BY <1>4, <1>6, <1>7, <1>8, <1>9 DEF BasicInv

LEMMA RightsBasics ==
    ASSUME BasicInv, NEW t \in Threads, CheckRights(t)
    PROVE  BasicInv' /\ OthersStay(t)
<1>1. /\ at[t] = "check"
      /\ UNCHANGED <<db, disk, fresh, asked, told, early, disturbed>>
      /\ \/ Return(t)
         \/ Goto(t, IF req[t].op = "comment" THEN "insert" ELSE "erase") /\ UNCHANGED <<seen, req>>
    BY Zenon DEF CheckRights
<1>2. req[t] \in Requests /\ req[t].op \in {"comment", "delete"} /\ Fits(req[t], at[t], seen[t].number)
    BY <1>1, RequestKinds DEF BasicInv, AtItsStep, Fits, Busy
<1>3. /\ at' \in [Threads -> {"idle"} \cup Steps] /\ OthersStay(t)
      /\ req' \in Handling /\ seen' \in [Threads -> Reading]
      /\ \/ at'[t] = "idle"
         \/ req' = req /\ seen' = seen /\ at'[t] = "insert" /\ req[t].op = "comment"
         \/ req' = req /\ seen' = seen /\ at'[t] = "erase" /\ req[t].op = "delete"
  <2>1. CASE Return(t)  BY <2>1, ReturnTypes DEF BasicInv, OthersStay
  <2>2. CASE Goto(t, IF req[t].op = "comment" THEN "insert" ELSE "erase") /\ UNCHANGED <<seen, req>>
      BY <1>2, <2>2, GotoType DEF BasicInv, Steps, OthersStay, ForumTypeOK, Handling
  <2>. QED  BY <1>1, <2>1, <2>2
<1>4. ForumTypeOK'
    BY <1>1, <1>3 DEF BasicInv, ForumTypeOK, Handling
<1>5. AtItsStep'
  <2>1. at'[t] = "idle" \/ Fits(req'[t], at'[t], seen'[t].number)
      BY <1>2, <1>3 DEF Fits
  <2>. QED  BY <2>1, <1>3, StepFits DEF BasicInv
<1>6. RowsInv' /\ NewIdInv' /\ FreshInv'
    BY <1>1, <1>3, RowsStay, IdsStayNew, FreshStay DEF BasicInv, Busy
<1>. QED  BY <1>3, <1>4, <1>5, <1>6 DEF BasicInv

LEMMA InsertBasics ==
    ASSUME BasicInv, NEW t \in Threads, Insert(t)
    PROVE  BasicInv' /\ OthersStay(t)
<1>1. /\ at[t] = "insert"
      /\ UNCHANGED <<disk, fresh, asked, told, early, disturbed>>
      /\ \/ Return(t) /\ UNCHANGED db
         \/ /\ db' = [db EXCEPT !.author[req[t].target] = req[t].user,
                                !.place[req[t].target] = req[t].on,
                                !.parent[req[t].target] = req[t].parent]
            /\ Goto(t, "settle") /\ UNCHANGED <<seen, req>>
    BY Zenon DEF Insert
<1>2. req[t] \in Requests /\ req[t].op = "comment" /\ Fits(req[t], at[t], seen[t].number) /\ Busy(t)
    BY <1>1, RequestKinds DEF BasicInv, AtItsStep, Fits, Busy
<1>3. CASE Return(t) /\ UNCHANGED db
  <2>1. ForumTypeOK' /\ OthersStay(t) /\ at'[t] = "idle"
      BY <1>1, <1>3, ReturnTypes DEF BasicInv, ForumTypeOK, OthersStay, Handling
  <2>2. AtItsStep'
      BY <2>1, StepFits DEF BasicInv
  <2>3. RowsInv' /\ NewIdInv' /\ FreshInv'
      BY <1>1, <1>3, <2>1, RowsStay, IdsStayNew, FreshStay DEF BasicInv
  <2>. QED  BY <2>1, <2>2, <2>3 DEF BasicInv
<1>4. CASE /\ db' = [db EXCEPT !.author[req[t].target] = req[t].user,
                               !.place[req[t].target] = req[t].on,
                               !.parent[req[t].target] = req[t].parent]
           /\ Goto(t, "settle") /\ UNCHANGED <<seen, req>>
  <2>1. /\ at' \in [Threads -> {"idle"} \cup Steps] /\ at'[t] = "settle" /\ OthersStay(t)
      BY <1>4, GotoType DEF BasicInv, Steps, OthersStay
  <2>2. /\ db' \in Tables /\ db'.vote = db.vote
        /\ db'.author = [db.author EXCEPT ![req[t].target] = req[t].user]
        /\ db'.place = [db.place EXCEPT ![req[t].target] = req[t].on]
    <3>1. db \in Tables  BY DEF BasicInv, ForumTypeOK
    <3>2. /\ req[t].target \in Comments /\ req[t].user \in Authors /\ req[t].on \in Posts
          /\ req[t].parent \in Comments \cup {NoTarget}
        BY <1>2, RequestKinds
    <3>. QED  BY <1>4, <3>1, <3>2 DEF Tables, Targets
  <2>3. /\ req[t].target \in Comments /\ req[t].user \in Authors /\ req[t].on \in Posts
        /\ db.author[req[t].target] = NoUser
      BY <1>1, <1>2, RequestKinds DEF BasicInv, NewIdInv, Exists
  <2>4. db.author \in [Targets -> Authors \cup {NoUser}] /\ db.place \in [Comments -> Posts \cup {NoTarget}]
      BY DEF BasicInv, ForumTypeOK, Tables
  <2>5. ForumTypeOK'
      BY <1>1, <1>4, <2>1, <2>2 DEF BasicInv, ForumTypeOK
  <2>6. AtItsStep'
    <3>1. Fits(req'[t], at'[t], seen'[t].number)
        BY <1>2, <1>4, <2>1 DEF Fits
    <3>. QED  BY <3>1, <2>1, StepFits DEF BasicInv
  <2>7. RowsInv'
      BY <1>1, <2>2, <2>3, <2>4, ForumAssumption DEF BasicInv, RowsInv, Targets
  <2>8. \A c \in Comments : c # req[t].target => db'.author[c] = db.author[c]
      BY <2>2, <2>4 DEF Targets
  <2>9. NewIdInv'
      BY <1>2, <1>4, <2>1, <2>8, IdsStayNew DEF BasicInv
  <2>10. FreshInv'
      BY <1>1, <2>1, <2>2, FreshStay DEF BasicInv
  <2>. QED  BY <2>1, <2>5, <2>6, <2>7, <2>9, <2>10 DEF BasicInv
<1>. QED  BY <1>1, <1>3, <1>4

LEMMA EraseBasics ==
    ASSUME BasicInv, NEW t \in Threads, Erase(t)
    PROVE  BasicInv' /\ OthersStay(t)
<1>1. /\ at[t] = "erase"
      /\ db' \in {db, [db EXCEPT !.deleted = db.deleted \cup {req[t].target}]}
      /\ Goto(t, IF req[t].target \in Comments THEN "settle" ELSE "commit")
      /\ UNCHANGED <<disk, req, seen, fresh, asked, told, early, disturbed>>
    BY Zenon DEF Erase
<1>2. req[t] \in Requests /\ req[t].op = "delete" /\ Fits(req[t], at[t], seen[t].number) /\ Busy(t)
    BY <1>1, RequestKinds DEF BasicInv, AtItsStep, Fits, Busy
<1>3. db \in Tables /\ disk \in Tables
    BY DEF BasicInv, ForumTypeOK
<1>4. /\ at' \in [Threads -> {"idle"} \cup Steps] /\ at'[t] \in {"settle", "commit"}
      /\ OthersStay(t)
      /\ at'[t] = "settle" => req[t].target \in Comments
    BY <1>1, <1>2, <1>3, GotoType, AnswersCount DEF BasicInv, Steps, OthersStay, ForumTypeOK, Reading
<1>5. /\ db' \in Tables /\ db'.author = db.author /\ db'.place = db.place /\ db'.vote = db.vote
  <2>1. req[t].target \in Targets  BY <1>2, RequestKinds
  <2>. QED  BY <1>1, <1>3, <2>1, DeletedWritten
<1>6. ForumTypeOK'
    BY <1>1, <1>4, <1>5 DEF BasicInv, ForumTypeOK
<1>7. AtItsStep'
  <2>1. Fits(req'[t], at'[t], seen'[t].number)
      BY <1>1, <1>2, <1>4 DEF Fits
  <2>. QED  BY <2>1, <1>4, StepFits DEF BasicInv
<1>8. RowsInv' /\ NewIdInv' /\ FreshInv'
    BY <1>1, <1>2, <1>4, <1>5, RowsStay, IdsStayNew, FreshStay DEF BasicInv
<1>. QED  BY <1>4, <1>6, <1>7, <1>8 DEF BasicInv

LEMMA SettleBasics ==
    ASSUME BasicInv, NEW t \in Threads, Settle(t)
    PROVE  BasicInv' /\ OthersStay(t)
<1>1. /\ at[t] = "settle" /\ disk' = db /\ Goto(t, "measure")
      /\ UNCHANGED <<db, req, seen, fresh, asked, told, early, disturbed>>
    BY Zenon DEF Settle
<1>2. req[t] \in Requests /\ req[t].op \in {"comment", "delete"} /\ Fits(req[t], at[t], seen[t].number) /\ Busy(t)
    BY <1>1, RequestKinds DEF BasicInv, AtItsStep, Fits, Busy
<1>3. db \in Tables /\ disk \in Tables
    BY DEF BasicInv, ForumTypeOK
<1>4. /\ at' \in [Threads -> {"idle"} \cup Steps] /\ at'[t] = "measure"
      /\ OthersStay(t)
    BY <1>1, <1>2, <1>3, GotoType, AnswersCount DEF BasicInv, Steps, OthersStay, ForumTypeOK, Reading
<1>5. /\ db' \in Tables /\ db'.author = db.author /\ db'.place = db.place /\ db'.vote = db.vote
    BY <1>1, <1>3
<1>6. ForumTypeOK'
    BY <1>1, <1>4, <1>5 DEF BasicInv, ForumTypeOK
<1>7. AtItsStep'
  <2>1. Fits(req'[t], at'[t], seen'[t].number)
      BY <1>1, <1>2, <1>4 DEF Fits
  <2>. QED  BY <2>1, <1>4, StepFits DEF BasicInv
<1>8. RowsInv' /\ NewIdInv' /\ FreshInv'
    BY <1>1, <1>2, <1>4, <1>5, RowsStay, IdsStayNew, FreshStay DEF BasicInv
<1>. QED  BY <1>4, <1>6, <1>7, <1>8 DEF BasicInv

LEMMA MeasureBasics ==
    ASSUME BasicInv, NEW t \in Threads, Measure(t)
    PROVE  BasicInv' /\ OthersStay(t)
<1>1. /\ at[t] = "measure" /\ Goto(t, "stats")
      /\ seen' = [seen EXCEPT ![t].number = Cardinality(Answers(db, PostOf(t)))]
      /\ UNCHANGED <<db, disk, req, fresh, asked, told, early, disturbed>>
    BY Zenon DEF Measure
<1>2. req[t] \in Requests /\ req[t].op \in {"comment", "delete"} /\ Fits(req[t], at[t], seen[t].number) /\ Busy(t)
    BY <1>1, RequestKinds DEF BasicInv, AtItsStep, Fits, Busy
<1>3. db \in Tables /\ disk \in Tables
    BY DEF BasicInv, ForumTypeOK
<1>4. /\ at' \in [Threads -> {"idle"} \cup Steps] /\ at'[t] = "stats"
      /\ OthersStay(t)
      /\ seen' \in [Threads -> Reading] /\ seen'[t].number \in Nat
    BY <1>1, <1>2, <1>3, GotoType, AnswersCount DEF BasicInv, Steps, OthersStay, ForumTypeOK, Reading
<1>5. /\ db' \in Tables /\ db'.author = db.author /\ db'.place = db.place /\ db'.vote = db.vote
    BY <1>1, <1>3
<1>6. ForumTypeOK'
    BY <1>1, <1>4, <1>5 DEF BasicInv, ForumTypeOK
<1>7. AtItsStep'
  <2>1. Fits(req'[t], at'[t], seen'[t].number)
      BY <1>1, <1>2, <1>4 DEF Fits
  <2>. QED  BY <2>1, <1>4, StepFits DEF BasicInv
<1>8. RowsInv' /\ NewIdInv' /\ FreshInv'
    BY <1>1, <1>2, <1>4, <1>5, RowsStay, IdsStayNew, FreshStay DEF BasicInv
<1>. QED  BY <1>4, <1>6, <1>7, <1>8 DEF BasicInv

LEMMA StatsBasics ==
    ASSUME BasicInv, NEW t \in Threads, Stats(t)
    PROVE  BasicInv' /\ OthersStay(t)
<1>1. /\ at[t] = "stats" /\ Goto(t, "commit")
      /\ db' = [db EXCEPT !.count[PostOf(t)] = seen[t].number]
      /\ UNCHANGED <<disk, req, seen, fresh, asked, told, early, disturbed>>
    BY Zenon DEF Stats
<1>2. req[t] \in Requests /\ req[t].op \in {"comment", "delete"} /\ Fits(req[t], at[t], seen[t].number) /\ Busy(t)
    BY <1>1, RequestKinds DEF BasicInv, AtItsStep, Fits, Busy
<1>3. db \in Tables /\ disk \in Tables
    BY DEF BasicInv, ForumTypeOK
<1>4. /\ at' \in [Threads -> {"idle"} \cup Steps] /\ at'[t] = "commit"
      /\ OthersStay(t)
    BY <1>1, <1>2, <1>3, GotoType, AnswersCount DEF BasicInv, Steps, OthersStay, ForumTypeOK, Reading
<1>5. /\ db' \in Tables /\ db'.author = db.author /\ db'.place = db.place /\ db'.vote = db.vote
  <2>. DEFINE p == PostOf(t)
              n == seen[t].number
  <2>1. n \in Nat  BY <1>1, <1>2 DEF Fits
  <2>2. p \in Posts \cup {NoTarget}
      BY <1>1, <1>2, <1>3, RequestKinds DEF PostOf, Fits, Tables
  <2>3. db' = [db EXCEPT !.count[p] = n]  BY <1>1
  <2>. HIDE DEF p, n
  <2>4. [db.count EXCEPT ![p] = n] \in [Posts -> Nat]
      BY <1>3, <2>1, <2>2 DEF Tables
  <2>. QED  BY <1>3, <2>3, <2>4 DEF Tables
<1>6. ForumTypeOK'
    BY <1>1, <1>4, <1>5 DEF BasicInv, ForumTypeOK
<1>7. AtItsStep'
  <2>1. Fits(req'[t], at'[t], seen'[t].number)
      BY <1>1, <1>2, <1>4 DEF Fits
  <2>. QED  BY <2>1, <1>4, StepFits DEF BasicInv
<1>8. RowsInv' /\ NewIdInv' /\ FreshInv'
    BY <1>1, <1>2, <1>4, <1>5, RowsStay, IdsStayNew, FreshStay DEF BasicInv
<1>. QED  BY <1>4, <1>6, <1>7, <1>8 DEF BasicInv

LEMMA SaveBasics ==
    ASSUME BasicInv, NEW t \in Threads, Save(t)
    PROVE  BasicInv' /\ OthersStay(t)
<1>1. /\ at[t] = "save" /\ Goto(t, "commit")
      /\ UNCHANGED <<db, disk, req, seen, fresh, asked, told, early, disturbed>>
    BY Zenon DEF Save
<1>2. req[t] \in Requests /\ req[t].op = "save" /\ Fits(req[t], at[t], seen[t].number) /\ Busy(t)
    BY <1>1, RequestKinds DEF BasicInv, AtItsStep, Fits, Busy
<1>3. db \in Tables /\ disk \in Tables
    BY DEF BasicInv, ForumTypeOK
<1>4. /\ at' \in [Threads -> {"idle"} \cup Steps] /\ at'[t] = "commit"
      /\ OthersStay(t)
    BY <1>1, <1>2, <1>3, GotoType, AnswersCount DEF BasicInv, Steps, OthersStay, ForumTypeOK, Reading
<1>5. /\ db' \in Tables /\ db'.author = db.author /\ db'.place = db.place /\ db'.vote = db.vote
    BY <1>1, <1>3
<1>6. ForumTypeOK'
    BY <1>1, <1>4, <1>5 DEF BasicInv, ForumTypeOK
<1>7. AtItsStep'
  <2>1. Fits(req'[t], at'[t], seen'[t].number)
      BY <1>1, <1>2, <1>4 DEF Fits
  <2>. QED  BY <2>1, <1>4, StepFits DEF BasicInv
<1>8. RowsInv' /\ NewIdInv' /\ FreshInv'
    BY <1>1, <1>2, <1>4, <1>5, RowsStay, IdsStayNew, FreshStay DEF BasicInv
<1>. QED  BY <1>4, <1>6, <1>7, <1>8 DEF BasicInv

LEMMA CommitBasics ==
    ASSUME BasicInv, NEW t \in Threads, Commit(t)
    PROVE  BasicInv' /\ OthersStay(t)
<1>1. /\ at[t] = "commit" /\ disk' = db /\ Return(t)
      /\ told' = IF req[t].op = "vote" THEN [told EXCEPT ![Ballot(t)] = NewValue(t)] ELSE told
      /\ UNCHANGED <<db, fresh, asked, early, disturbed>>
    BY Zenon DEF Commit
<1>2. req[t] \in Requests
    BY <1>1 DEF BasicInv, AtItsStep, Fits, Busy
<1>3. told' \in [Ballots -> Values \cup {NoVote}]
  <2>1. CASE req[t].op = "vote"
      BY <1>1, <1>2, <2>1, NewValueType DEF BasicInv, ForumTypeOK
  <2>2. CASE req[t].op # "vote"
      BY <1>1, <2>2 DEF BasicInv, ForumTypeOK
  <2>. QED  BY <2>1, <2>2
<1>4. ForumTypeOK' /\ OthersStay(t) /\ at'[t] = "idle"
    BY <1>1, <1>3, ReturnTypes DEF BasicInv, ForumTypeOK, OthersStay, Handling
<1>5. AtItsStep'
    BY <1>4, StepFits DEF BasicInv
<1>6. RowsInv' /\ NewIdInv' /\ FreshInv'
    BY <1>1, <1>4, RowsStay, IdsStayNew, FreshStay DEF BasicInv
<1>. QED  BY <1>4, <1>5, <1>6 DEF BasicInv

(* The steps of no handler. *)

LEMMA BeginBasics ==
    ASSUME BasicInv, NEW t \in Threads, NEW r \in Requests, Begin(t, r)
    PROVE  /\ BasicInv' /\ OthersStay(t) /\ ~Busy(t)
           /\ req'[t] = r /\ at'[t] = FirstStep(r) /\ at'[t] # "idle"
<1>1. /\ ~Busy(t) /\ asked < MaxRequests /\ asked' = asked + 1
      /\ Sensible(r)
      /\ req' = [req EXCEPT ![t] = r] /\ Goto(t, FirstStep(r))
      /\ disturbed' = disturbed \cup (Counter(r) \cap InWork)
      /\ UNCHANGED <<db, disk, seen, fresh, told, early>>
    BY Zenon DEF Begin
<1>2. /\ FirstStep(r) \in Steps
      /\ r.op = "vote" => FirstStep(r) = "lookup"
      /\ r.op = "post" => FirstStep(r) = "publish"
      /\ r.op \in {"comment", "delete"} => FirstStep(r) = "check"
      /\ r.op = "save" => FirstStep(r) = "save"
    BY RequestKinds DEF FirstStep, Steps
<1>3. /\ at' \in [Threads -> {"idle"} \cup Steps] /\ at'[t] = FirstStep(r) /\ at'[t] # "idle"
      /\ req' \in Handling /\ req'[t] = r
      /\ OthersStay(t)
    BY <1>1, <1>2, GotoType DEF BasicInv, OthersStay, ForumTypeOK, Handling, Steps
<1>4. ForumTypeOK'
  <2>1. disturbed' \subseteq Counters
      BY <1>1, CounterKnown DEF BasicInv, ForumTypeOK
  <2>. QED  BY <1>1, <1>3, <2>1, ForumAssumption DEF BasicInv, ForumTypeOK, Handling
<1>5. AtItsStep'
  <2>1. Fits(req'[t], at'[t], seen'[t].number)
      BY <1>2, <1>3, RequestKinds DEF Fits
  <2>. QED  BY <2>1, <1>3, StepFits DEF BasicInv
<1>6. RowsInv'
    BY <1>1, RowsStay DEF BasicInv
<1>7. FreshInv'
    BY <1>1, <1>2, <1>3, RequestKinds, FreshStay DEF BasicInv
<1>8. NewIdInv'
  <2>. SUFFICES ASSUME NEW u \in Threads, at'[u] # "idle", req'[u].op = "comment",
                       at'[u] \in {"check", "insert"}
                PROVE  /\ db.author[req'[u].target] = NoUser
                       /\ \A w \in Threads \ {u} : at'[w] # "idle" /\ req'[w].op # "save" =>
                              req'[w].target # req'[u].target
      BY <1>1 DEF NewIdInv, Busy, Exists
  <2>1. CASE u = t
    <3>1. /\ db.author[r.target] = NoUser
          /\ \A w \in Threads : Busy(w) /\ req[w].op # "save" => req[w].target # r.target
        BY <1>1, <1>3, <2>1 DEF Sensible, Exists
    <3>. QED  BY <1>3, <2>1, <3>1 DEF OthersStay, Busy
  <2>2. CASE u # t
    <3>1. /\ Busy(u) /\ req'[u] = req[u] /\ req[u].op = "comment" /\ at[u] \in {"check", "insert"}
        BY <1>3, <2>2 DEF OthersStay, Busy
    <3>2. /\ db.author[req[u].target] = NoUser
          /\ \A w \in Threads \ {u} : Busy(w) /\ req[w].op # "save" => req[w].target # req[u].target
        BY <3>1 DEF BasicInv, NewIdInv, Exists
    <3>3. req[u].target \in Comments
        BY <3>1, RequestKinds DEF BasicInv, AtItsStep, Fits
    <3>4. r.op # "save" => r.target # req[u].target
      <4>1. CASE r.op \in {"vote", "delete"}
          BY <1>1, <3>2, <4>1 DEF Sensible, Exists
      <4>2. CASE r.op = "post"
          BY <3>3, <4>2, RequestKinds, ForumAssumption
      <4>3. CASE r.op = "comment"
          BY <1>1, <3>1, <4>3 DEF Sensible
      <4>. QED  BY <4>1, <4>2, <4>3, RequestKinds
    <3>. QED  BY <1>3, <3>1, <3>2, <3>4 DEF OthersStay, Busy
  <2>. QED  BY <2>1, <2>2
<1>. QED  BY <1>1, <1>3, <1>4, <1>5, <1>6, <1>7, <1>8 DEF BasicInv

LEMMA AgeBasics ==
    ASSUME BasicInv, NEW u \in Authors, Age(u)
    PROVE  BasicInv'
<1>1. /\ fresh' \subseteq fresh
      /\ UNCHANGED <<db, disk, at, req, seen, asked, told, early, disturbed>>
    BY DEF Age
<1>2. ForumTypeOK' /\ FreshInv'
    BY <1>1 DEF BasicInv, ForumTypeOK, FreshInv
<1>3. AtItsStep' /\ RowsInv' /\ NewIdInv'
    BY <1>1 DEF BasicInv, AtItsStep, Busy, RowsInv, NewIdInv, Exists
<1>. QED  BY <1>2, <1>3 DEF BasicInv

LEMMA RecalculateBasics ==
    ASSUME BasicInv, Recalculate
    PROVE  BasicInv'
<1>1. disk' = db /\ UNCHANGED <<db, at, req, seen, fresh, asked, told, early, disturbed>>
    BY DEF Recalculate
<1>2. ForumTypeOK' /\ FreshInv' /\ RowsInv'
    BY <1>1 DEF BasicInv, ForumTypeOK, FreshInv, RowsInv
<1>3. AtItsStep' /\ NewIdInv'
    BY <1>1 DEF BasicInv, AtItsStep, Busy, NewIdInv, Exists
<1>. QED  BY <1>2, <1>3 DEF BasicInv

LEMMA ForumRestartBasics ==
    ASSUME BasicInv, RestartForum
    PROVE  BasicInv' /\ \A t \in Threads : at'[t] = "idle"
<1>1. /\ db' = disk
      /\ at' = [t \in Threads |-> "idle"] /\ seen' = [t \in Threads |-> Nothing]
      /\ req' = [t \in Threads |-> NoRequest]
      /\ disturbed' = disturbed \cup InWork
      /\ UNCHANGED <<disk, fresh, asked, told, early>>
    BY DEF RestartForum
<1>2. seen' \in [Threads -> Reading]
    BY <1>1 DEF Reading, Nothing
<1>3. ForumTypeOK'
    BY <1>1, <1>2, InWorkKnown DEF BasicInv, ForumTypeOK
<1>4. AtItsStep' /\ NewIdInv' /\ \A t \in Threads : at'[t] = "idle"
    BY <1>1 DEF AtItsStep, NewIdInv, Busy
<1>5. RowsInv' /\ FreshInv'
    BY <1>1 DEF BasicInv, RowsInv, FreshInv
<1>. QED  BY <1>3, <1>4, <1>5 DEF BasicInv

(* Votes and their sum. *)

LEMMA OneMore ==
    ASSUME NEW S, IsFiniteSet(S), NEW u
    PROVE  /\ Cardinality(S \ {u}) \in Nat
           /\ Cardinality(S) = Cardinality(S \ {u}) + (IF u \in S THEN 1 ELSE 0)
<1>1. CASE u \in S
  <2>1. IsFiniteSet(S \ {u}) /\ Cardinality(S \ {u}) = Cardinality(S) - 1
      BY <1>1, FS_RemoveElement
  <2>2. Cardinality(S) \in Nat /\ Cardinality(S \ {u}) \in Nat
      BY <2>1, FS_CardinalityType
  <2>. QED  BY <1>1, <2>1, <2>2
<1>2. CASE u \notin S
  <2>1. S \ {u} = S  BY <1>2
  <2>2. Cardinality(S) \in Nat  BY FS_CardinalityType
  <2>. QED  BY <1>2, <2>1, <2>2
<1>. QED  BY <1>1, <1>2

LEMMA ScoreStays ==
    ASSUME NEW x,
           \A u \in Authors : /\ db'.vote[<<u, x>>] = db.vote[<<u, x>>]
                              /\ <<u, x>> \in early' <=> <<u, x>> \in early
    PROVE  Score(db, x)' = Score(db, x)
<1>1. ASSUME NEW v
      PROVE  {u \in Authors : db'.vote[<<u, x>>] = v /\ <<u, x>> \notin early'}
             = {u \in Authors : db.vote[<<u, x>>] = v /\ <<u, x>> \notin early}
    OBVIOUS
<1>2. Cast(db, x, 1)' = Cast(db, x, 1) /\ Cast(db, x, -1)' = Cast(db, x, -1)
    BY <1>1 DEF Cast
<1>. QED  BY <1>2 DEF Score

\* What the vote of a user adds to the score.
Worth(v) == IF v = NoVote THEN 0 ELSE v

LEMMA ScoreMoves ==
    ASSUME NEW x, NEW u \in Authors,
           \A w \in Authors \ {u} : /\ db'.vote[<<w, x>>] = db.vote[<<w, x>>]
                                    /\ <<w, x>> \in early' <=> <<w, x>> \in early,
           db.vote[<<u, x>>] \in Values \cup {NoVote},
           db'.vote[<<u, x>>] \in Values \cup {NoVote}
    PROVE  Score(db, x)' = Score(db, x)
                + (IF <<u, x>> \in early' THEN 0 ELSE Worth(db'.vote[<<u, x>>]))
                - (IF <<u, x>> \in early THEN 0 ELSE Worth(db.vote[<<u, x>>]))
<1>. DEFINE P1 == Cast(db, x, 1)
            M1 == Cast(db, x, -1)
            P2 == {w \in Authors : db'.vote[<<w, x>>] = 1 /\ <<w, x>> \notin early'}
            M2 == {w \in Authors : db'.vote[<<w, x>>] = -1 /\ <<w, x>> \notin early'}
<1>1. IsFiniteSet(P1) /\ IsFiniteSet(M1) /\ IsFiniteSet(P2) /\ IsFiniteSet(M2)
    BY ForumAssumption, FS_Subset DEF Cast
<1>2. P1 \ {u} = P2 \ {u} /\ M1 \ {u} = M2 \ {u}
  <2>1. ASSUME NEW v
        PROVE  {w \in Authors : db'.vote[<<w, x>>] = v /\ <<w, x>> \notin early'} \ {u}
               = {w \in Authors : db.vote[<<w, x>>] = v /\ <<w, x>> \notin early} \ {u}
      OBVIOUS
  <2>. QED  BY <2>1 DEF Cast
<1>3. /\ u \in P1 <=> db.vote[<<u, x>>] = 1 /\ <<u, x>> \notin early
      /\ u \in M1 <=> db.vote[<<u, x>>] = -1 /\ <<u, x>> \notin early
      /\ u \in P2 <=> db'.vote[<<u, x>>] = 1 /\ <<u, x>> \notin early'
      /\ u \in M2 <=> db'.vote[<<u, x>>] = -1 /\ <<u, x>> \notin early'
    BY DEF Cast
<1>4. Score(db, x) = Cardinality(P1) - Cardinality(M1) /\ Score(db, x)' = Cardinality(P2) - Cardinality(M2)
    BY DEF Score, Cast
<1>. HIDE DEF P1, M1, P2, M2
<1>5. /\ Cardinality(P1) = Cardinality(P1 \ {u}) + (IF u \in P1 THEN 1 ELSE 0)
      /\ Cardinality(M1) = Cardinality(M1 \ {u}) + (IF u \in M1 THEN 1 ELSE 0)
      /\ Cardinality(P2) = Cardinality(P1 \ {u}) + (IF u \in P2 THEN 1 ELSE 0)
      /\ Cardinality(M2) = Cardinality(M1 \ {u}) + (IF u \in M2 THEN 1 ELSE 0)
      /\ Cardinality(P1 \ {u}) \in Nat /\ Cardinality(M1 \ {u}) \in Nat
    BY <1>1, <1>2, OneMore
<1>. DEFINE a == db.vote[<<u, x>>]
            b == db'.vote[<<u, x>>]
<1>6. a \in Values \cup {NoVote} /\ b \in Values \cup {NoVote} /\ NoVote \notin Values
    BY ForumAssumption DEF Values
<1>. HIDE DEF a, b
<1>7. /\ (IF u \in P1 THEN 1 ELSE 0) - (IF u \in M1 THEN 1 ELSE 0) = IF <<u, x>> \in early THEN 0 ELSE Worth(a)
      /\ (IF u \in P2 THEN 1 ELSE 0) - (IF u \in M2 THEN 1 ELSE 0) = IF <<u, x>> \in early' THEN 0 ELSE Worth(b)
  <2>1. /\ u \in P1 <=> a = 1 /\ <<u, x>> \notin early
        /\ u \in M1 <=> a = -1 /\ <<u, x>> \notin early
        /\ u \in P2 <=> b = 1 /\ <<u, x>> \notin early'
        /\ u \in M2 <=> b = -1 /\ <<u, x>> \notin early'
      BY <1>3 DEF a, b
  <2>2. a \in {-1, 0, 1, NoVote} /\ b \in {-1, 0, 1, NoVote} /\ NoVote \notin {-1, 0, 1}
      BY <1>6 DEF Values
  <2>. QED  BY <2>1, <2>2 DEF Worth
<1>8. Worth(a) \in Int /\ Worth(b) \in Int
    BY <1>6 DEF Worth, Values
<1>. DEFINE wa == IF <<u, x>> \in early THEN 0 ELSE Worth(a)
            wb == IF <<u, x>> \in early' THEN 0 ELSE Worth(b)
<1>9. wa \in Int /\ wb \in Int
    BY <1>8
<1>10. Score(db, x)' = Score(db, x) + wb - wa
  <2>. HIDE DEF wa, wb
  <2>1. /\ (IF u \in P1 THEN 1 ELSE 0) - (IF u \in M1 THEN 1 ELSE 0) = wa
        /\ (IF u \in P2 THEN 1 ELSE 0) - (IF u \in M2 THEN 1 ELSE 0) = wb
      BY <1>7 DEF wa, wb
  <2>. QED  BY <1>4, <1>5, <1>9, <2>1
<1>. QED  BY <1>10 DEF a, b

(* Nothing that concerns the votes on x happens, but that others commit. *)
LEMMA NetStays ==
    ASSUME NEW x, NetInv(x),
           \A t \in Threads :
              Voter(t, x) => at'[t] = at[t] /\ req'[t] = req[t] /\ seen'[t] = seen[t]
                             /\ req[t].user \in Authors,
           \A t \in Threads : at'[t] # "idle" /\ req'[t].op = "vote" /\ req'[t].target = x => Voter(t, x),
           \A u \in Authors : /\ db'.vote[<<u, x>>] = db.vote[<<u, x>>]
                              /\ told'[<<u, x>>] = told[<<u, x>>]
                              /\ <<u, x>> \in early' <=> <<u, x>> \in early,
           db'.net[x] = db.net[x],
           \/ disk'.net[x] = disk.net[x] /\ \A u \in Authors : disk'.vote[<<u, x>>] = disk.vote[<<u, x>>]
           \/ disk'.net[x] = db.net[x] /\ \A u \in Authors : disk'.vote[<<u, x>>] = db.vote[<<u, x>>],
           db.author[x] # NoUser => db'.author[x] # NoUser
    PROVE  NetInv(x)'
<1>1. \A t \in Threads : Voter(t, x)' <=> Voter(t, x)
    BY DEF Voter, Busy
<1>2. \A u \in Authors : Kept(<<u, x>>) => Kept(<<u, x>>)'
    BY DEF Kept
<1>3. Score(db, x)' = Score(db, x)
    BY ScoreStays
<1>4. VotesSettled(x) => VotesSettled(x)'
    BY <1>2, <1>3 DEF VotesSettled
<1>5. ASSUME NEW t \in Threads, Voter(t, x), VoteUnderWay(t, x)
      PROVE  VoteUnderWay(t, x)'
  <2>1. /\ at'[t] = at[t] /\ req'[t] = req[t] /\ seen'[t] = seen[t]
        /\ req[t].user \in Authors /\ req[t].target = x
      BY <1>5 DEF Voter
  <2>2. Ballot(t)' = Ballot(t) /\ NewValue(t)' = NewValue(t) /\ Delta(t)' = Delta(t)
        /\ Missing(t)' = Missing(t) /\ Ballot(t) = <<req[t].user, x>>
      BY <2>1 DEF Ballot, NewValue, Delta, Missing
  <2>3. db'.vote[Ballot(t)] = db.vote[Ballot(t)] /\ (Ballot(t) \in early' <=> Ballot(t) \in early)
      BY <2>1, <2>2
  <2>4. \A u \in Authors \ {req[t].user} : Kept(<<u, x>>) => Kept(<<u, x>>)'
      BY <1>2
  <2>. QED  BY <1>5, <1>3, <2>1, <2>2, <2>3, <2>4 DEF VoteUnderWay, Exists
<1>6. (\A t \in Threads : Voter(t, x) => at[t] \in {"lookup", "record"}) <=>
      (\A t \in Threads : Voter(t, x)' => at'[t] \in {"lookup", "record"})
    BY <1>1
<1>. QED  BY <1>1, <1>4, <1>5, <1>6 DEF NetInv

(* The statements that were not committed are taken back, and nobody votes. *)
LEMMA NetTakenBack ==
    ASSUME NEW x, NetInv(x), \A t \in Threads : ~Voter(t, x),
           \A t \in Threads : ~(at'[t] # "idle" /\ req'[t].op = "vote" /\ req'[t].target = x),
           db' = disk, disk' = disk, told' = told, early' = early
    PROVE  NetInv(x)'
<1>1. \A t \in Threads : ~Voter(t, x)'
    BY DEF Voter, Busy
<1>2. VotesSettled(x)
    BY DEF NetInv
<1>3. \A u \in Authors : Kept(<<u, x>>)'
    BY <1>2 DEF VotesSettled, Kept
<1>4. Score(db, x)' = Score(db, x)
    BY <1>2, ScoreStays DEF VotesSettled, Kept
<1>5. VotesSettled(x)'
    BY <1>2, <1>3, <1>4 DEF VotesSettled
<1>. QED  BY <1>1, <1>5 DEF NetInv

LEMMA VoterInWork ==
    ASSUME NEW t \in Threads, NEW x, Voter(t, x)
    PROVE  <<"net", x>> \in InWork
<1>1. <<"net", x>> \in Counter(req[t])
    BY DEF Voter, Counter
<1>. QED  BY <1>1 DEF InWork, Voter

LEMMA VoterKnown ==
    ASSUME BasicInv, NEW t \in Threads, NEW x, Voter(t, x)
    PROVE  /\ req[t] \in Requests /\ req[t].user \in Authors /\ req[t].target = x
           /\ at[t] \in {"lookup", "record", "tally", "adjust", "commit"}
           /\ Fits(req[t], at[t], seen[t].number)
           /\ Ballot(t) = <<req[t].user, x>> /\ Ballot(t) \in Ballots
           /\ NewValue(t) \in Values /\ Delta(t) \in Int
<1>1. Fits(req[t], at[t], seen[t].number)
    BY DEF BasicInv, AtItsStep, Voter
<1>2. req[t] \in Requests /\ req[t].op = "vote" /\ req[t].target = x
    BY <1>1 DEF Fits, Voter
<1>. QED  BY <1>1, <1>2, RequestKinds, NewValueType DEF BasicInv, Fits, Ballot

LEMMA OtherVotes ==
    ASSUME BasicInv, NEW x \in Targets, NetInv(x), NEW t \in Threads, OthersStay(t),
           ~Voter(t, x), at'[t] = "idle" \/ (Busy(t) /\ req'[t] = req[t]),
           \A u \in Authors : /\ db'.vote[<<u, x>>] = db.vote[<<u, x>>]
                              /\ told'[<<u, x>>] = told[<<u, x>>]
                              /\ <<u, x>> \in early' <=> <<u, x>> \in early,
           db'.net[x] = db.net[x],
           disk' = disk \/ disk' = db,
           db.author[x] # NoUser => db'.author[x] # NoUser
    PROVE  NetInv(x)'
<1>1. \A u \in Threads : Voter(u, x) => at'[u] = at[u] /\ req'[u] = req[u] /\ seen'[u] = seen[u]
                                          /\ req[u].user \in Authors
    BY VoterKnown DEF OthersStay
<1>2. \A u \in Threads : at'[u] # "idle" /\ req'[u].op = "vote" /\ req'[u].target = x => Voter(u, x)
    BY DEF OthersStay, Voter, Busy
<1>. QED  BY <1>1, <1>2, NetStays

\* After the step the only vote on x there may be is that of t.
LEMMA SoleVoter ==
    ASSUME NEW x, NetInv(x), NEW t \in Threads, Voter(t, x), OthersStay(t)
    PROVE  /\ \A u \in Threads : Voter(u, x) => u = t
           /\ \A u \in Threads : Voter(u, x)' => u = t
<1>1. \A u \in Threads : Voter(u, x) => u = t
    BY DEF NetInv
<1>2. ASSUME NEW u \in Threads, u # t, Voter(u, x)'
      PROVE  Voter(u, x)
    BY <1>2 DEF OthersStay, Voter, Busy
<1>. QED  BY <1>1, <1>2

LEMMA VoteLookupCounts ==
    ASSUME BasicInv, VotesInv, NEW t \in Threads, VoteLookup(t)
    PROVE  VotesInv'
<1>1. /\ at[t] = "lookup"
      /\ UNCHANGED <<db, disk, fresh, asked, told, early>>
      /\ \/ Return(t) /\ UNCHANGED disturbed
         \/ /\ seen' = [seen EXCEPT ![t].old = db.vote[Ballot(t)],
                                      ![t].counted = req[t].user \notin fresh]
            /\ Goto(t, "record")
            /\ disturbed' = IF Ballot(t) \in early /\ seen'[t].counted
                            THEN disturbed \cup Counter(req[t]) ELSE disturbed
            /\ UNCHANGED req
    BY Zenon DEF VoteLookup
<1>2. BasicInv' /\ OthersStay(t)
    BY VoteLookupBasics
<1>. SUFFICES ASSUME NEW x \in Targets, <<"net", x>> \notin disturbed'
              PROVE  NetInv(x)'
    BY DEF VotesInv
<1>3. NetInv(x)
    BY <1>1 DEF VotesInv
<1>4. at'[t] = "idle" \/ (Busy(t) /\ req'[t] = req[t] /\ at'[t] = "record")
    BY <1>1 DEF BasicInv, ForumTypeOK, Return, Goto, Busy
<1>5. CASE ~Voter(t, x)
    BY <1>1, <1>2, <1>3, <1>4, <1>5, OtherVotes
<1>6. CASE Voter(t, x)
  <2>1. /\ \A u \in Threads : Voter(u, x) => u = t
        /\ \A u \in Threads : Voter(u, x)' => u = t
      BY <1>2, <1>3, <1>6, SoleVoter
  <2>2. VotesSettled(x) /\ Exists(x)
      BY <1>1, <1>3, <1>6, <2>1 DEF NetInv, VoteUnderWay
  <2>3. VotesSettled(x)' /\ Exists(x)'
    <3>1. Score(db, x)' = Score(db, x)
        BY <1>1, ScoreStays
    <3>. QED  BY <1>1, <2>2, <3>1 DEF VotesSettled, Kept, Exists
  <2>4. ASSUME Voter(t, x)'
        PROVE  VoteUnderWay(t, x)'
    <3>1. /\ at'[t] = "record" /\ req'[t] = req[t]
          /\ seen'[t].old = db.vote[Ballot(t)] /\ seen'[t].counted = (req[t].user \notin fresh)
          /\ seen'[t].counted => Ballot(t) \notin early
      <4>1. at'[t] = "record"  BY <1>4, <2>4 DEF Voter, Busy
      <4>2. ~Return(t)  BY <4>1 DEF Return, Goto, BasicInv, ForumTypeOK
      <4>3. <<"net", x>> \in Counter(req[t])  BY <1>6 DEF Voter, Counter
      <4>. QED  BY <1>1, <4>1, <4>2, <4>3 DEF BasicInv, ForumTypeOK, Reading
    <3>2. Ballot(t)' = Ballot(t) /\ Ballot(t) \in Ballots /\ Ballot(t)[1] = req[t].user
        BY <1>2, <1>6, <3>1, VoterKnown DEF Ballot
    <3>3. ~seen'[t].counted /\ db.vote[Ballot(t)] # NoVote => Ballot(t) \in early
        BY <3>1, <3>2 DEF BasicInv, FreshInv
    <3>. QED  BY <1>1, <2>3, <3>1, <3>2, <3>3 DEF VoteUnderWay
  <2>. QED  BY <2>1, <2>3, <2>4 DEF NetInv
<1>. QED  BY <1>5, <1>6

LEMMA VoteRecordCounts ==
    ASSUME BasicInv, VotesInv, NEW t \in Threads, VoteRecord(t)
    PROVE  VotesInv'
<1>1. /\ at[t] = "record"
      /\ db' = IF seen[t].old # NoVote /\ db.vote[Ballot(t)] = NoVote THEN db
               ELSE [db EXCEPT !.vote[Ballot(t)] = NewValue(t)]
      /\ early' = IF seen[t].counted THEN early ELSE early \cup {Ballot(t)}
      /\ Goto(t, "tally")
      /\ UNCHANGED <<disk, req, seen, fresh, asked, told, disturbed>>
    BY Zenon DEF VoteRecord
<1>2. BasicInv' /\ OthersStay(t)
    BY VoteRecordBasics
<1>. SUFFICES ASSUME NEW x \in Targets, <<"net", x>> \notin disturbed
              PROVE  NetInv(x)'
    BY <1>1 DEF VotesInv
<1>3. NetInv(x)
    BY DEF VotesInv
<1>4. Busy(t) /\ at'[t] = "tally" /\ Voter(t, req[t].target)
    BY <1>1, <1>2 DEF BasicInv, ForumTypeOK, Goto, Busy, Voter, AtItsStep, Fits, Steps, Requests
<1>5. /\ Ballot(t) \in Ballots /\ NewValue(t) \in Values /\ Ballot(t) = <<req[t].user, req[t].target>>
      /\ req[t].user \in Authors
    BY <1>4, VoterKnown
<1>6. /\ db'.author = db.author /\ db'.net = db.net
      /\ \A b \in Ballots : b # Ballot(t) => db'.vote[b] = db.vote[b]
      /\ db'.vote[Ballot(t)] = IF seen[t].old # NoVote /\ db.vote[Ballot(t)] = NoVote
                               THEN db.vote[Ballot(t)] ELSE NewValue(t)
    BY <1>1, <1>5 DEF BasicInv, ForumTypeOK, Tables
<1>7. CASE x # req[t].target
  <2>1. ~Voter(t, x)  BY <1>7 DEF Voter
  <2>2. \A u \in Authors : /\ db'.vote[<<u, x>>] = db.vote[<<u, x>>]
                           /\ told'[<<u, x>>] = told[<<u, x>>]
                           /\ <<u, x>> \in early' <=> <<u, x>> \in early
      BY <1>1, <1>5, <1>6, <1>7 DEF Ballots
  <2>. QED  BY <1>1, <1>2, <1>3, <1>4, <1>6, <2>1, <2>2, OtherVotes
<1>8. CASE x = req[t].target
  <2>1. /\ \A u \in Threads : Voter(u, x) => u = t
        /\ \A u \in Threads : Voter(u, x)' => u = t
      BY <1>2, <1>3, <1>4, <1>8, SoleVoter
  <2>2. VotesSettled(x) /\ VoteUnderWay(t, x)
      BY <1>1, <1>3, <1>4, <1>8, <2>1 DEF NetInv
  <2>3. /\ seen[t].old = db.vote[Ballot(t)] /\ db'.vote[Ballot(t)] = NewValue(t)
        /\ seen[t].counted => Ballot(t) \notin early
        /\ ~seen[t].counted /\ db.vote[Ballot(t)] # NoVote => Ballot(t) \in early
      BY <1>1, <1>6, <2>2 DEF VoteUnderWay
  <2>4. \A w \in Authors \ {req[t].user} : /\ db'.vote[<<w, x>>] = db.vote[<<w, x>>]
                                           /\ <<w, x>> \in early' <=> <<w, x>> \in early
      BY <1>1, <1>5, <1>6 DEF Ballots
  <2>5. db.vote[Ballot(t)] \in Values \cup {NoVote} /\ db'.vote[Ballot(t)] \in Values \cup {NoVote}
      BY <1>5, <2>3 DEF BasicInv, ForumTypeOK, Tables
  <2>6. Score(db, x)' = Score(db, x) + (IF Ballot(t) \in early' THEN 0 ELSE Worth(NewValue(t)))
                                     - (IF Ballot(t) \in early THEN 0 ELSE Worth(db.vote[Ballot(t)]))
      BY <1>5, <1>8, <2>3, <2>4, <2>5, ScoreMoves
  <2>7. Score(db, x)' = Score(db, x) + (IF seen[t].counted THEN Delta(t) ELSE 0)
    <3>1. Worth(NewValue(t)) = NewValue(t) /\ NewValue(t) \in Int
        BY <1>5, ForumAssumption DEF Worth, Values
    <3>2. Delta(t) = NewValue(t) - Worth(db.vote[Ballot(t)]) /\ Worth(db.vote[Ballot(t)]) \in Int
        BY <2>3, <2>5 DEF Delta, Worth, Values
    <3>3. Score(db, x) \in Int
        BY <2>2 DEF VotesSettled, BasicInv, ForumTypeOK, Tables
    <3>4. CASE seen[t].counted
      <4>1. Ballot(t) \notin early /\ early' = early  BY <1>1, <2>3, <3>4
      <4>. QED  BY <2>6, <3>1, <3>2, <3>3, <3>4, <4>1
    <3>5. CASE ~seen[t].counted
      <4>1. Ballot(t) \in early'  BY <1>1, <3>5
      <4>2. (IF Ballot(t) \in early THEN 0 ELSE Worth(db.vote[Ballot(t)])) = 0
          BY <2>3, <3>5 DEF Worth
      <4>. QED  BY <2>6, <3>3, <3>5, <4>1, <4>2
    <3>. QED  BY <3>4, <3>5
  <2>8. VoteUnderWay(t, x)'
    <3>1. /\ Ballot(t)' = Ballot(t) /\ NewValue(t)' = NewValue(t)
          /\ Missing(t)' = IF seen[t].counted THEN Delta(t) ELSE 0
        BY <1>1, <1>4 DEF Ballot, NewValue, Missing, Delta
    <3>2. \A u \in Authors \ {req[t].user} : Kept(<<u, x>>)'
        BY <1>1, <2>2, <2>4 DEF Kept, VotesSettled
    <3>3. Score(db, x)' = db'.net[x] + Missing(t)'
        BY <1>6, <2>2, <2>7, <3>1 DEF VotesSettled
    <3>. QED  BY <1>1, <1>4, <1>6, <2>2, <2>3, <3>1, <3>2, <3>3 DEF VoteUnderWay, Exists
  <2>9. Voter(t, x)' /\ at'[t] \notin {"lookup", "record"}
      BY <1>1, <1>4, <1>8 DEF Voter, Busy
  <2>. QED  BY <2>1, <2>8, <2>9 DEF NetInv
<1>. QED  BY <1>7, <1>8

LEMMA VoteTallyCounts ==
    ASSUME BasicInv, VotesInv, NEW t \in Threads, VoteTally(t)
    PROVE  VotesInv'
<1>1. /\ at[t] = "tally"
      /\ UNCHANGED <<disk, req, fresh, asked, told, early, disturbed>>
      /\ \/ /\ req[t].target \in Posts
            /\ seen' = [seen EXCEPT ![t].number = db.net[req[t].target]]
            /\ Goto(t, IF Exists(req[t].target) THEN "adjust" ELSE "commit")
            /\ UNCHANGED db
         \/ /\ req[t].target \notin Posts
            /\ db' = IF seen[t].counted /\ Exists(req[t].target)
                     THEN [db EXCEPT !.net[req[t].target] = db.net[req[t].target] + Delta(t)] ELSE db
            /\ Goto(t, "commit")
            /\ UNCHANGED seen
    BY Zenon DEF VoteTally
<1>2. BasicInv' /\ OthersStay(t)
    BY VoteTallyBasics
<1>. SUFFICES ASSUME NEW x \in Targets, <<"net", x>> \notin disturbed
              PROVE  NetInv(x)'
    BY <1>1 DEF VotesInv
<1>3. NetInv(x)
    BY DEF VotesInv
<1>4. Busy(t) /\ at'[t] \in {"adjust", "commit"} /\ Voter(t, req[t].target)
    BY <1>1, <1>2 DEF BasicInv, ForumTypeOK, Goto, Busy, Voter, AtItsStep, Fits, Steps, Requests
<1>5. /\ db'.author = db.author /\ db'.vote = db.vote
      /\ \A y \in Targets : y # req[t].target => db'.net[y] = db.net[y]
    BY <1>1 DEF BasicInv, ForumTypeOK, Tables
<1>6. CASE x # req[t].target
  <2>1. ~Voter(t, x)  BY <1>6 DEF Voter
  <2>. QED  BY <1>1, <1>2, <1>3, <1>4, <1>5, <1>6, <2>1, OtherVotes
<1>7. CASE x = req[t].target
  <2>1. /\ \A u \in Threads : Voter(u, x) => u = t
        /\ \A u \in Threads : Voter(u, x)' => u = t
      BY <1>2, <1>3, <1>4, <1>7, SoleVoter
  <2>2. VoteUnderWay(t, x)
      BY <1>3, <1>4, <1>7 DEF NetInv
  <2>3. /\ Ballot(t)' = Ballot(t) /\ NewValue(t)' = NewValue(t) /\ Delta(t)' = Delta(t)
        /\ seen'[t].counted = seen[t].counted
    <3>1. seen'[t].old = seen[t].old /\ seen'[t].counted = seen[t].counted
        BY <1>1 DEF BasicInv, ForumTypeOK, Reading
    <3>. QED  BY <1>1, <3>1 DEF Ballot, NewValue, Delta
  <2>4. Score(db, x)' = Score(db, x)
      BY <1>1, <1>5, ScoreStays
  <2>5. Delta(t) \in Int /\ db.net[x] \in Int
      BY <1>4, <1>7, VoterKnown DEF BasicInv, ForumTypeOK, Tables
  <2>6. Score(db, x) = db.net[x] + (IF seen[t].counted THEN Delta(t) ELSE 0)
      BY <1>1, <2>2 DEF VoteUnderWay, Missing
  <2>7. Score(db, x)' = db'.net[x] + Missing(t)' /\ (at'[t] = "adjust" => seen'[t].number = db'.net[x])
    <3>1. CASE req[t].target \in Posts
      <4>1. at'[t] = "adjust" /\ seen'[t].number = db.net[x] /\ db' = db
          BY <1>1, <1>2, <1>7, <2>2, <3>1 DEF VoteUnderWay, Goto, BasicInv, ForumTypeOK, Reading
      <4>. QED  BY <2>3, <2>4, <2>6, <4>1 DEF Missing
    <3>2. CASE req[t].target \notin Posts
      <4>1. at'[t] = "commit"
          BY <1>1, <1>2, <3>2 DEF Goto, BasicInv, ForumTypeOK
      <4>2. db'.net[x] = db.net[x] + (IF seen[t].counted THEN Delta(t) ELSE 0)
          BY <1>1, <1>7, <2>2, <2>5, <3>2 DEF VoteUnderWay, BasicInv, ForumTypeOK, Tables
      <4>3. Missing(t)' = 0  BY <4>1 DEF Missing
      <4>. QED  BY <2>4, <2>5, <2>6, <4>1, <4>2, <4>3
    <3>. QED  BY <3>1, <3>2
  <2>8. VoteUnderWay(t, x)'
    <3>1. \A u \in Authors \ {req[t].user} : Kept(<<u, x>>)'
        BY <1>1, <1>5, <2>2 DEF VoteUnderWay, Kept
    <3>. QED  BY <1>1, <1>4, <1>5, <2>2, <2>3, <2>7, <3>1 DEF VoteUnderWay, Exists
  <2>9. Voter(t, x)' /\ at'[t] \notin {"lookup", "record"}
      BY <1>1, <1>4, <1>7 DEF Voter, Busy
  <2>. QED  BY <2>1, <2>8, <2>9 DEF NetInv
<1>. QED  BY <1>6, <1>7

LEMMA VoteAdjustCounts ==
    ASSUME BasicInv, VotesInv, NEW t \in Threads, VoteAdjust(t)
    PROVE  VotesInv'
<1>1. /\ at[t] = "adjust"
      /\ db' = [db EXCEPT !.net[req[t].target] =
                   seen[t].number + (IF seen[t].counted THEN Delta(t) ELSE 0)]
      /\ Goto(t, "commit")
      /\ UNCHANGED <<disk, req, seen, fresh, asked, told, early, disturbed>>
    BY Zenon DEF VoteAdjust
<1>2. BasicInv' /\ OthersStay(t)
    BY VoteAdjustBasics
<1>. SUFFICES ASSUME NEW x \in Targets, <<"net", x>> \notin disturbed
              PROVE  NetInv(x)'
    BY <1>1 DEF VotesInv
<1>3. NetInv(x)
    BY DEF VotesInv
<1>4. Busy(t) /\ at'[t] = "commit" /\ Voter(t, req[t].target)
    BY <1>1, <1>2 DEF BasicInv, ForumTypeOK, Goto, Busy, Voter, AtItsStep, Fits, Steps, Requests
<1>5. /\ db'.author = db.author /\ db'.vote = db.vote
      /\ \A y \in Targets : y # req[t].target => db'.net[y] = db.net[y]
    BY <1>1 DEF BasicInv, ForumTypeOK, Tables
<1>6. CASE x # req[t].target
  <2>1. ~Voter(t, x)  BY <1>6 DEF Voter
  <2>. QED  BY <1>1, <1>2, <1>3, <1>4, <1>5, <1>6, <2>1, OtherVotes
<1>7. CASE x = req[t].target
  <2>1. /\ \A u \in Threads : Voter(u, x) => u = t
        /\ \A u \in Threads : Voter(u, x)' => u = t
      BY <1>2, <1>3, <1>4, <1>7, SoleVoter
  <2>2. VoteUnderWay(t, x)
      BY <1>3, <1>4, <1>7 DEF NetInv
  <2>3. /\ Ballot(t)' = Ballot(t) /\ NewValue(t)' = NewValue(t)
      BY <1>1 DEF Ballot, NewValue
  <2>4. Score(db, x)' = Score(db, x)
      BY <1>1, <1>5, ScoreStays
  <2>5. Delta(t) \in Int /\ db.net[x] \in Int
      BY <1>4, <1>7, VoterKnown DEF BasicInv, ForumTypeOK, Tables
  <2>6. Score(db, x) = db.net[x] + (IF seen[t].counted THEN Delta(t) ELSE 0) /\ seen[t].number = db.net[x]
      BY <1>1, <2>2 DEF VoteUnderWay, Missing
  <2>7. Score(db, x)' = db'.net[x] + Missing(t)'
    <3>1. db'.net[x] = seen[t].number + (IF seen[t].counted THEN Delta(t) ELSE 0)
        BY <1>1, <1>7 DEF BasicInv, ForumTypeOK, Tables
    <3>2. Missing(t)' = 0  BY <1>4 DEF Missing
    <3>. QED  BY <2>4, <2>5, <2>6, <3>1, <3>2
  <2>8. VoteUnderWay(t, x)'
    <3>1. \A u \in Authors \ {req[t].user} : Kept(<<u, x>>)'
        BY <1>1, <1>5, <2>2 DEF VoteUnderWay, Kept
    <3>. QED  BY <1>1, <1>4, <1>5, <2>2, <2>3, <2>7, <3>1 DEF VoteUnderWay, Exists
  <2>9. Voter(t, x)' /\ at'[t] \notin {"lookup", "record"}
      BY <1>1, <1>4, <1>7 DEF Voter, Busy
  <2>. QED  BY <2>1, <2>8, <2>9 DEF NetInv
<1>. QED  BY <1>6, <1>7

LEMMA CommitCounts ==
    ASSUME BasicInv, VotesInv, NEW t \in Threads, Commit(t)
    PROVE  VotesInv'
<1>1. /\ at[t] = "commit" /\ disk' = db /\ Return(t)
      /\ told' = IF req[t].op = "vote" THEN [told EXCEPT ![Ballot(t)] = NewValue(t)] ELSE told
      /\ UNCHANGED <<db, fresh, asked, early, disturbed>>
    BY Zenon DEF Commit
<1>2. OthersStay(t) /\ at'[t] = "idle" /\ Busy(t)
    BY <1>1, CommitBasics DEF Return, Goto, BasicInv, ForumTypeOK, Busy
<1>. SUFFICES ASSUME NEW x \in Targets, <<"net", x>> \notin disturbed
              PROVE  NetInv(x)'
    BY <1>1 DEF VotesInv
<1>3. NetInv(x)
    BY DEF VotesInv
<1>4. CASE ~Voter(t, x)
  <2>1. \A u \in Authors : told'[<<u, x>>] = told[<<u, x>>]
    <3>1. CASE req[t].op = "vote"
      <4>1. Voter(t, req[t].target) /\ req[t].target # x
          BY <1>2, <1>4, <3>1 DEF Voter
      <4>2. Ballot(t) = <<req[t].user, req[t].target>> /\ Ballot(t) \in Ballots
          BY <4>1, VoterKnown
      <4>3. \A u \in Authors : <<u, x>> \in Ballots /\ <<u, x>> # Ballot(t)
          BY <4>1, <4>2 DEF Ballots
      <4>. QED  BY <1>1, <3>1, <4>2, <4>3 DEF BasicInv, ForumTypeOK
    <3>2. CASE req[t].op # "vote"  BY <1>1, <3>2
    <3>. QED  BY <3>1, <3>2
  <2>. QED  BY <1>1, <1>2, <1>3, <1>4, <2>1, OtherVotes
<1>5. CASE Voter(t, x)
  <2>1. \A u \in Threads : ~Voter(u, x)'
    <3>1. \A u \in Threads : Voter(u, x)' => u = t
        BY <1>2, <1>3, <1>5, SoleVoter
    <3>. QED  BY <1>2, <3>1 DEF Voter, Busy
  <2>2. VoteUnderWay(t, x)
      BY <1>3, <1>5 DEF NetInv
  <2>3. /\ Ballot(t) = <<req[t].user, x>> /\ Ballot(t) \in Ballots /\ req[t].op = "vote"
        /\ NewValue(t) \in Values /\ req[t].user \in Authors
      BY <1>5, VoterKnown DEF Voter
  <2>4. told' = [told EXCEPT ![<<req[t].user, x>>] = NewValue(t)] /\ told \in [Ballots -> Values \cup {NoVote}]
      BY <1>1, <2>3 DEF BasicInv, ForumTypeOK
  <2>5. ASSUME NEW u \in Authors
        PROVE  Kept(<<u, x>>)'
    <3>1. <<u, x>> \in Ballots  BY DEF Ballots
    <3>2. CASE u = req[t].user
      <4>1. told'[<<u, x>>] = NewValue(t)  BY <2>4, <3>1, <3>2
      <4>2. db.vote[<<u, x>>] = NewValue(t)  BY <1>1, <2>2, <2>3, <3>2 DEF VoteUnderWay
      <4>. QED  BY <1>1, <4>1, <4>2 DEF Kept
    <3>3. CASE u # req[t].user
      <4>1. told'[<<u, x>>] = told[<<u, x>>]  BY <2>4, <3>1, <3>3
      <4>2. Kept(<<u, x>>)  BY <1>1, <2>2, <3>3 DEF VoteUnderWay
      <4>. QED  BY <1>1, <4>1, <4>2 DEF Kept
    <3>. QED  BY <3>2, <3>3
  <2>6. db.net[x] = Score(db, x)
    <3>1. Missing(t) = 0  BY <1>1 DEF Missing
    <3>2. db.net[x] \in Int  BY DEF BasicInv, ForumTypeOK, Tables
    <3>. QED  BY <1>1, <2>2, <3>1, <3>2 DEF VoteUnderWay
  <2>7. Score(db, x)' = Score(db, x)
      BY <1>1, ScoreStays
  <2>8. VotesSettled(x)'
      BY <1>1, <2>5, <2>6, <2>7 DEF VotesSettled
  <2>. QED  BY <2>1, <2>8 DEF NetInv
<1>. QED  BY <1>4, <1>5

LEMMA TakenBackCounts ==
    ASSUME VotesInv, db' = disk, disturbed' = disturbed \cup InWork, UNCHANGED <<disk, told, early>>,
           \A t \in Threads : at'[t] = "idle" \/ (Busy(t) /\ req'[t] = req[t])
    PROVE  VotesInv'
<1>. SUFFICES ASSUME NEW x \in Targets, <<"net", x>> \notin disturbed'
              PROVE  NetInv(x)'
    BY DEF VotesInv
<1>1. NetInv(x)
    BY DEF VotesInv
<1>2. \A t \in Threads : ~Voter(t, x)
    BY VoterInWork
<1>3. \A t \in Threads : ~(at'[t] # "idle" /\ req'[t].op = "vote" /\ req'[t].target = x)
    BY <1>2 DEF Voter
<1>. QED  BY <1>1, <1>2, <1>3, NetTakenBack

(* A handler that does not vote leaves the votes and their counters alone. *)
LEMMA NoVotingCounts ==
    ASSUME BasicInv, VotesInv, NEW t \in Threads, OthersStay(t),
           Busy(t), req[t].op # "vote", at'[t] = "idle" \/ req'[t] = req[t],
           db'.vote = db.vote, db'.net = db.net, UNCHANGED <<told, early, disturbed>>,
           disk' = disk \/ disk' = db,
           \A x \in Targets : db.author[x] # NoUser => db'.author[x] # NoUser
    PROVE  VotesInv'
<1>. SUFFICES ASSUME NEW x \in Targets, <<"net", x>> \notin disturbed
              PROVE  NetInv(x)'
    BY DEF VotesInv
<1>1. NetInv(x) /\ ~Voter(t, x)
    BY DEF VotesInv, Voter
<1>. QED  BY <1>1, OtherVotes

LEMMA HandlersKeepVotes ==
    ASSUME BasicInv, VotesInv, NEW t \in Threads, HandlerStep(t)
    PROVE  VotesInv'
<1>1. CASE VoteLookup(t)  BY <1>1, VoteLookupCounts
<1>2. CASE VoteRecord(t)  BY <1>2, VoteRecordCounts
<1>3. CASE VoteRollsBack(t)
  <2>1. /\ db' = disk /\ Return(t) /\ disturbed' = disturbed \cup InWork
        /\ UNCHANGED <<disk, fresh, asked, told, early>>
      BY <1>3, Zenon DEF VoteRollsBack
  <2>2. \A u \in Threads : at'[u] = "idle" \/ (Busy(u) /\ req'[u] = req[u])
      BY <2>1 DEF BasicInv, ForumTypeOK, Return, Goto, Busy
  <2>. QED  BY <2>1, <2>2, TakenBackCounts
<1>4. CASE VoteTally(t)  BY <1>4, VoteTallyCounts
<1>5. CASE VoteAdjust(t)  BY <1>5, VoteAdjustCounts
<1>6. CASE Publish(t)
  <2>1. /\ at[t] = "publish"
        /\ db' = [db EXCEPT !.author[req[t].target] = req[t].user]
        /\ UNCHANGED <<disk, req, told, early, disturbed>>
      BY <1>6, Zenon DEF Publish
  <2>2. Busy(t) /\ req[t].op = "post" /\ req[t].user \in Authors
      BY <2>1, RequestKinds DEF BasicInv, AtItsStep, Fits, Busy
  <2>3. /\ db'.vote = db.vote /\ db'.net = db.net
        /\ \A x \in Targets : db.author[x] # NoUser => db'.author[x] # NoUser
      BY <2>1, <2>2, ForumAssumption DEF BasicInv, ForumTypeOK, Tables
  <2>. QED  BY <1>6, <2>1, <2>2, <2>3, PublishBasics, NoVotingCounts
<1>7. CASE CheckRights(t)
  <2>1. /\ at[t] = "check" /\ UNCHANGED <<db, disk, told, early, disturbed>>
        /\ Return(t) \/ (UNCHANGED req)
      BY <1>7, Zenon DEF CheckRights
  <2>2. Busy(t) /\ req[t].op # "vote" /\ (at'[t] = "idle" \/ req'[t] = req[t])
      BY <2>1, RequestKinds DEF BasicInv, ForumTypeOK, AtItsStep, Fits, Busy, Return, Goto
  <2>. QED  BY <1>7, <2>1, <2>2, RightsBasics, NoVotingCounts
<1>8. CASE Insert(t)
  <2>1. /\ at[t] = "insert"
        /\ UNCHANGED <<disk, told, early, disturbed>>
        /\ \/ Return(t) /\ UNCHANGED db
           \/ /\ db' = [db EXCEPT !.author[req[t].target] = req[t].user,
                                  !.place[req[t].target] = req[t].on,
                                  !.parent[req[t].target] = req[t].parent]
              /\ UNCHANGED req
      BY <1>8, Zenon DEF Insert
  <2>2. Busy(t) /\ req[t].op = "comment" /\ req[t].user \in Authors
      BY <2>1, RequestKinds DEF BasicInv, AtItsStep, Fits, Busy
  <2>3. at'[t] = "idle" \/ req'[t] = req[t]
      BY <2>1 DEF BasicInv, ForumTypeOK, Return, Goto
  <2>4. /\ db'.vote = db.vote /\ db'.net = db.net
        /\ \/ db'.author = db.author
           \/ db'.author = [db.author EXCEPT ![req[t].target] = req[t].user]
      BY <2>1 DEF BasicInv, ForumTypeOK, Tables
  <2>5. \A x \in Targets : db.author[x] # NoUser => db'.author[x] # NoUser
    <3>1. db.author \in [Targets -> Authors \cup {NoUser}]  BY DEF BasicInv, ForumTypeOK, Tables
    <3>. QED  BY <2>2, <2>4, <3>1, ForumAssumption
  <2>. QED  BY <2>5, <1>8, <2>1, <2>2, <2>3, <2>4, InsertBasics, NoVotingCounts
<1>9. CASE Erase(t)
  <2>1. /\ at[t] = "erase"
        /\ db' \in {db, [db EXCEPT !.deleted = db.deleted \cup {req[t].target}]}
        /\ UNCHANGED <<disk, req, told, early, disturbed>>
      BY <1>9, Zenon DEF Erase
  <2>2. Busy(t) /\ req[t].op = "delete"
      BY <2>1, RequestKinds DEF BasicInv, AtItsStep, Fits, Busy
  <2>3. db'.vote = db.vote /\ db'.net = db.net /\ db'.author = db.author
      BY <2>1 DEF BasicInv, ForumTypeOK, Tables
  <2>. QED  BY <1>9, <2>1, <2>2, <2>3, EraseBasics, NoVotingCounts
<1>10. CASE Settle(t)
  <2>1. at[t] = "settle" /\ disk' = db /\ UNCHANGED <<db, req, told, early, disturbed>>
      BY <1>10, Zenon DEF Settle
  <2>2. Busy(t) /\ req[t].op # "vote"
      BY <2>1, RequestKinds DEF BasicInv, AtItsStep, Fits, Busy
  <2>. QED  BY <1>10, <2>1, <2>2, SettleBasics, NoVotingCounts
<1>11. CASE Measure(t)
  <2>1. at[t] = "measure" /\ UNCHANGED <<db, disk, req, told, early, disturbed>>
      BY <1>11, Zenon DEF Measure
  <2>2. Busy(t) /\ req[t].op # "vote"
      BY <2>1, RequestKinds DEF BasicInv, AtItsStep, Fits, Busy
  <2>. QED  BY <1>11, <2>1, <2>2, MeasureBasics, NoVotingCounts
<1>12. CASE Stats(t)
  <2>1. /\ at[t] = "stats" /\ db' = [db EXCEPT !.count[PostOf(t)] = seen[t].number]
        /\ UNCHANGED <<disk, req, told, early, disturbed>>
      BY <1>12, Zenon DEF Stats
  <2>2. Busy(t) /\ req[t].op # "vote"
      BY <2>1, RequestKinds DEF BasicInv, AtItsStep, Fits, Busy
  <2>3. db'.vote = db.vote /\ db'.net = db.net /\ db'.author = db.author
      BY <2>1 DEF BasicInv, ForumTypeOK, Tables
  <2>. QED  BY <1>12, <2>1, <2>2, <2>3, StatsBasics, NoVotingCounts
<1>13. CASE Save(t)
  <2>1. at[t] = "save" /\ UNCHANGED <<db, disk, req, told, early, disturbed>>
      BY <1>13, Zenon DEF Save
  <2>2. Busy(t) /\ req[t].op # "vote"
      BY <2>1, RequestKinds DEF BasicInv, AtItsStep, Fits, Busy
  <2>. QED  BY <1>13, <2>1, <2>2, SaveBasics, NoVotingCounts
<1>14. CASE Commit(t)  BY <1>14, CommitCounts
<1>. QED  BY <1>1, <1>2, <1>3, <1>4, <1>5, <1>6, <1>7, <1>8, <1>9, <1>10, <1>11, <1>12, <1>13, <1>14 DEF HandlerStep

LEMMA BeginKeepsVotes ==
    ASSUME BasicInv, VotesInv, NEW t \in Threads, NEW r \in Requests, Begin(t, r)
    PROVE  VotesInv'
<1>1. /\ Sensible(r)
      /\ disturbed' = disturbed \cup (Counter(r) \cap InWork)
      /\ UNCHANGED <<db, disk, seen, fresh, told, early>>
    BY Zenon DEF Begin
<1>2. OthersStay(t) /\ ~Busy(t) /\ req'[t] = r /\ at'[t] = FirstStep(r) /\ at'[t] # "idle"
    BY BeginBasics
<1>. SUFFICES ASSUME NEW x \in Targets, <<"net", x>> \notin disturbed'
              PROVE  NetInv(x)'
    BY DEF VotesInv
<1>3. NetInv(x)
    BY <1>1 DEF VotesInv
<1>4. \A u \in Threads : Voter(u, x) => at'[u] = at[u] /\ req'[u] = req[u] /\ seen'[u] = seen[u]
                                        /\ req[u].user \in Authors
    BY <1>2, VoterKnown DEF OthersStay, Voter
<1>5. CASE r.op = "vote" /\ r.target = x
  <2>1. <<"net", x>> \in Counter(r)
      BY <1>5 DEF Counter
  <2>2. \A u \in Threads : ~Voter(u, x)
      BY <1>1, <2>1, VoterInWork
  <2>3. \A u \in Threads : Voter(u, x)' => u = t
      BY <1>2, <2>2 DEF OthersStay, Voter, Busy
  <2>4. VotesSettled(x)
      BY <1>3, <2>2 DEF NetInv
  <2>5. VotesSettled(x)'
    <3>1. Score(db, x)' = Score(db, x)
        BY <1>1, ScoreStays
    <3>. QED  BY <1>1, <2>4, <3>1 DEF VotesSettled, Kept
  <2>6. VoteUnderWay(t, x)'
    <3>1. at'[t] = "lookup"  BY <1>2, <1>5 DEF FirstStep
    <3>2. Exists(x)'  BY <1>1, <1>5 DEF Sensible, Exists
    <3>. QED  BY <3>1, <3>2 DEF VoteUnderWay
  <2>. QED  BY <2>3, <2>5, <2>6 DEF NetInv
<1>6. CASE ~(r.op = "vote" /\ r.target = x)
  <2>1. \A u \in Threads : at'[u] # "idle" /\ req'[u].op = "vote" /\ req'[u].target = x => Voter(u, x)
      BY <1>2, <1>6 DEF OthersStay, Voter, Busy
  <2>. QED  BY <1>1, <1>3, <1>4, <2>1, NetStays
<1>. QED  BY <1>5, <1>6

LEMMA QuietStepsKeepVotes ==
    ASSUME BasicInv, VotesInv, UNCHANGED <<db, at, req, seen, told, early, disturbed>>,
           disk' = disk \/ disk' = db
    PROVE  VotesInv'
<1>. SUFFICES ASSUME NEW x \in Targets, <<"net", x>> \notin disturbed
              PROVE  NetInv(x)'
    BY DEF VotesInv
<1>1. NetInv(x)
    BY DEF VotesInv
<1>2. \A u \in Threads : Voter(u, x) => req[u].user \in Authors
    BY VoterKnown
<1>3. \A u \in Threads : at'[u] # "idle" /\ req'[u].op = "vote" /\ req'[u].target = x => Voter(u, x)
    BY DEF Voter, Busy
<1>. QED  BY <1>1, <1>2, <1>3, NetStays

(* Comments and their number. *)

LEMMA DiscussesInWork ==
    ASSUME NEW t \in Threads, NEW p, Discusses(t, p)
    PROVE  <<"count", p>> \in InWork
<1>1. <<"count", p>> \in Counter(req[t])
    BY DEF Discusses, Counter
<1>. QED  BY <1>1 DEF InWork, Discusses

(* Nothing that concerns the comments of p happens, but that others commit. *)
LEMMA CountStays ==
    ASSUME NEW p, CountInv(p),
           \A t \in Threads : Discusses(t, p) => at'[t] = at[t] /\ seen'[t] = seen[t],
           \A t \in Threads : Discusses(t, p)' <=> Discusses(t, p),
           Answers(db, p)' = Answers(db, p), db'.count[p] = db.count[p],
           \/ disk'.count[p] = disk.count[p] /\ Answers(disk, p)' = Answers(disk, p)
           \/ disk'.count[p] = db.count[p] /\ Answers(disk, p)' = Answers(db, p)
    PROVE  CountInv(p)'
<1>1. AnswersSettled(p) => AnswersSettled(p)'
    BY DEF AnswersSettled
<1>2. (\A t \in Threads : Discusses(t, p) => at[t] \in {"check", "insert", "erase"}) <=>
      (\A t \in Threads : Discusses(t, p)' => at'[t] \in {"check", "insert", "erase"})
    OBVIOUS
<1>. QED  BY <1>1, <1>2 DEF CountInv

LEMMA SameAnswers ==
    ASSUME NEW p, NEW S, NEW T,
           S.author = T.author, S.deleted = T.deleted, S.place = T.place
    PROVE  Answers(S, p) = Answers(T, p)
BY DEF Answers

(* A handler that is at work on no comment of p. *)
LEMMA OthersDiscuss ==
    ASSUME NEW p, CountInv(p), NEW t \in Threads, OthersStay(t), ~Discusses(t, p),
           at'[t] = "idle" \/ (Busy(t) /\ req'[t] = req[t] /\
                               (req[t].op = "delete" => db'.place = db.place)),
           \A u \in Threads \ {t} : Busy(u) /\ req[u].op = "delete" /\ req[u].target \in Comments =>
              db'.place[req[u].target] = db.place[req[u].target],
           Answers(db, p)' = Answers(db, p), db'.count[p] = db.count[p],
           disk' = disk \/ disk' = db
    PROVE  CountInv(p)'
<1>1. ~Discusses(t, p)'
    BY DEF Discusses, Busy
<1>2. ASSUME NEW u \in Threads \ {t}
      PROVE  Discusses(u, p)' <=> Discusses(u, p)
    BY DEF Discusses, Busy, OthersStay
<1>3. \A u \in Threads : Discusses(u, p)' <=> Discusses(u, p)
    BY <1>1, <1>2
<1>4. \A u \in Threads : Discusses(u, p) => at'[u] = at[u] /\ seen'[u] = seen[u]
    BY DEF OthersStay
<1>5. \/ disk'.count[p] = disk.count[p] /\ Answers(disk, p)' = Answers(disk, p)
      \/ disk'.count[p] = db.count[p] /\ Answers(disk, p)' = Answers(db, p)
    BY DEF Answers
<1>. QED  BY <1>3, <1>4, <1>5, CountStays

LEMMA SoleDiscusses ==
    ASSUME NEW p, CountInv(p), NEW t \in Threads, Discusses(t, p), OthersStay(t),
           db'.place = db.place
    PROVE  \A u \in Threads : Discusses(u, p)' => u = t
<1>1. ASSUME NEW u \in Threads, u # t, Discusses(u, p)'
      PROVE  Discusses(u, p)
    BY <1>1 DEF OthersStay, Discusses, Busy
<1>. QED  BY <1>1 DEF CountInv

(* A step of t while it is at work on p and has not counted yet. *)
LEMMA AtWork ==
    ASSUME NEW p, NEW t \in Threads,
           \A u \in Threads : Discusses(u, p)' => u = t,
           Discusses(t, p)', at'[t] \in {"settle", "measure"}
    PROVE  CountInv(p)'
BY DEF CountInv

LEMMA SettledAgain ==
    ASSUME NEW p, NEW t \in Threads, AnswersSettled(p)',
           \A u \in Threads : Discusses(u, p)' => u = t,
           at'[t] \in {"idle", "check", "insert", "erase"}
    PROVE  CountInv(p)'
BY DEF CountInv

LEMMA SettledSame ==
    ASSUME NEW p, AnswersSettled(p), UNCHANGED <<db, disk>>
    PROVE  AnswersSettled(p)'
BY DEF AnswersSettled, Answers

LEMMA StillSettled ==
    ASSUME NEW p, CountInv(p), NEW t \in Threads, Discusses(t, p), at[t] \in {"check", "insert", "erase"}
    PROVE  AnswersSettled(p)
BY DEF CountInv

LEMMA DiscussesKnown ==
    ASSUME BasicInv, NEW t \in Threads, NEW p, Discusses(t, p)
    PROVE  /\ req[t] \in Requests /\ req[t].op \in {"comment", "delete"} /\ req[t].target \in Comments
           /\ at[t] \in {"check", "insert", "erase", "settle", "measure", "stats", "commit"}
           /\ PostOf(t) = p
<1>1. Fits(req[t], at[t], seen[t].number)
    BY DEF BasicInv, AtItsStep, Discusses
<1>2. req[t] \in Requests
    BY <1>1 DEF Fits
<1>. QED  BY <1>1, <1>2, RequestKinds DEF Fits, Discusses, PostOf

LEMMA NoDiscussionCounts ==
    ASSUME CountsInv, NEW t \in Threads, OthersStay(t), Busy(t), req[t].op \notin {"comment", "delete"},
           at'[t] = "idle" \/ req'[t] = req[t],
           \A c \in Comments : db'.author[c] = db.author[c],
           db'.place = db.place, db'.deleted = db.deleted, db'.count = db.count,
           disk' = disk \/ disk' = db, disturbed \subseteq disturbed'
    PROVE  CountsInv'
<1>. SUFFICES ASSUME NEW p \in Posts, <<"count", p>> \notin disturbed'
              PROVE  CountInv(p)'
    BY DEF CountsInv
<1>1. CountInv(p) /\ ~Discusses(t, p)
    BY DEF CountsInv, Discusses
<1>2. Answers(db, p)' = Answers(db, p)
    BY DEF Answers
<1>. QED  BY <1>1, <1>2, OthersDiscuss

LEMMA RightsKeepCounts ==
    ASSUME BasicInv, CountsInv, NEW t \in Threads, CheckRights(t)
    PROVE  CountsInv'
<1>1. /\ at[t] = "check" /\ UNCHANGED <<db, disk, disturbed>>
      /\ \/ Return(t)
         \/ Goto(t, IF req[t].op = "comment" THEN "insert" ELSE "erase") /\ UNCHANGED <<seen, req>>
    BY Zenon DEF CheckRights
<1>2. /\ OthersStay(t) /\ Busy(t)
      /\ at'[t] = "idle" \/ (at'[t] \in {"insert", "erase"} /\ req'[t] = req[t])
    BY <1>1, RightsBasics DEF BasicInv, ForumTypeOK, Return, Goto, Busy
<1>. SUFFICES ASSUME NEW p \in Posts, <<"count", p>> \notin disturbed
              PROVE  CountInv(p)'
    BY <1>1 DEF CountsInv
<1>3. CountInv(p)
    BY DEF CountsInv
<1>4. CASE ~Discusses(t, p)
  <2>1. Answers(db, p)' = Answers(db, p)
      BY <1>1 DEF Answers
  <2>. QED  BY <1>1, <1>2, <1>3, <1>4, <2>1, OthersDiscuss
<1>5. CASE Discusses(t, p)
  <2>1. AnswersSettled(p)'
      BY <1>1, <1>3, <1>5, StillSettled, SettledSame
  <2>. QED  BY <1>1, <1>2, <1>3, <1>5, <2>1, SoleDiscusses, SettledAgain
<1>. QED  BY <1>4, <1>5

LEMMA InsertKeepsCounts ==
    ASSUME BasicInv, CountsInv, NEW t \in Threads, Insert(t)
    PROVE  CountsInv'
<1>1. /\ at[t] = "insert"
      /\ UNCHANGED <<disk, disturbed>>
      /\ \/ Return(t) /\ UNCHANGED db
         \/ /\ db' = [db EXCEPT !.author[req[t].target] = req[t].user,
                                !.place[req[t].target] = req[t].on,
                                !.parent[req[t].target] = req[t].parent]
            /\ Goto(t, "settle") /\ UNCHANGED <<seen, req>>
    BY Zenon DEF Insert
<1>2. /\ OthersStay(t) /\ Busy(t) /\ req[t].op = "comment" /\ req[t] \in Requests
    BY <1>1, InsertBasics, RequestKinds DEF BasicInv, AtItsStep, Fits, Busy
<1>3. /\ req[t].target \in Comments /\ req[t].on \in Posts
      /\ db.author[req[t].target] = NoUser /\ db.place[req[t].target] = NoTarget
      /\ \A u \in Threads \ {t} : Busy(u) /\ req[u].op # "save" => req[u].target # req[t].target
    BY <1>1, <1>2, RequestKinds DEF BasicInv, NewIdInv, RowsInv, Exists
<1>. SUFFICES ASSUME NEW p \in Posts, <<"count", p>> \notin disturbed
              PROVE  CountInv(p)'
    BY <1>1 DEF CountsInv
<1>4. CountInv(p)
    BY DEF CountsInv
<1>5. CASE Return(t) /\ UNCHANGED db
  <2>1. at'[t] = "idle"
      BY <1>5 DEF BasicInv, ForumTypeOK, Return, Goto
  <2>2. CASE ~Discusses(t, p)
    <3>1. Answers(db, p)' = Answers(db, p)
        BY <1>5 DEF Answers
    <3>. QED  BY <1>1, <1>2, <1>4, <1>5, <2>1, <2>2, <3>1, OthersDiscuss
  <2>3. CASE Discusses(t, p)
    <3>1. AnswersSettled(p)'
        BY <1>1, <1>4, <1>5, <2>3, StillSettled, SettledSame
    <3>. QED  BY <1>2, <1>4, <1>5, <2>1, <2>3, <3>1, SoleDiscusses, SettledAgain
  <2>. QED  BY <2>2, <2>3
<1>6. CASE /\ db' = [db EXCEPT !.author[req[t].target] = req[t].user,
                               !.place[req[t].target] = req[t].on,
                               !.parent[req[t].target] = req[t].parent]
           /\ Goto(t, "settle") /\ UNCHANGED <<seen, req>>
  <2>1. at'[t] = "settle" /\ req'[t] = req[t]
      BY <1>6 DEF BasicInv, ForumTypeOK, Goto
  <2>2. /\ db'.deleted = db.deleted /\ db'.count = db.count
        /\ db'.author = [db.author EXCEPT ![req[t].target] = req[t].user]
        /\ db'.place = [db.place EXCEPT ![req[t].target] = req[t].on]
      BY <1>6 DEF BasicInv, ForumTypeOK, Tables
  <2>3. \A c \in Comments : c # req[t].target => db'.author[c] = db.author[c] /\ db'.place[c] = db.place[c]
      BY <2>2 DEF BasicInv, ForumTypeOK, Tables, Targets
  <2>4. db'.place[req[t].target] = req[t].on
      BY <1>3, <2>2 DEF BasicInv, ForumTypeOK, Tables
  <2>5. \A u \in Threads \ {t} : Busy(u) /\ req[u].op = "delete" /\ req[u].target \in Comments =>
           db'.place[req[u].target] = db.place[req[u].target]
      BY <1>3, <2>3
  <2>6. CASE ~Discusses(t, p)
    <3>1. req[t].on # p
        BY <1>2, <2>6 DEF Discusses
    <3>2. Answers(db, p)' = Answers(db, p)
      <4>1. ASSUME NEW c \in Comments
            PROVE  (db'.author[c] # NoUser /\ c \notin db'.deleted /\ db'.place[c] = p) <=>
                   (db.author[c] # NoUser /\ c \notin db.deleted /\ db.place[c] = p)
          BY <1>3, <2>2, <2>3, <2>4, <3>1, ForumAssumption
      <4>. QED  BY <4>1 DEF Answers
    <3>. QED  BY <1>1, <1>2, <1>4, <2>1, <2>2, <2>5, <2>6, <3>2, OthersDiscuss
  <2>7. CASE Discusses(t, p)
    <3>1. ASSUME NEW u \in Threads, u # t, Discusses(u, p)'
          PROVE  Discusses(u, p)
        BY <1>2, <2>5, <3>1 DEF OthersStay, Discusses, Busy
    <3>2. \A u \in Threads : Discusses(u, p)' => u = t
        BY <1>4, <2>7, <3>1 DEF CountInv
    <3>3. Discusses(t, p)'
        BY <1>2, <2>1, <2>7 DEF Discusses, Busy
    <3>. QED  BY <2>1, <3>2, <3>3, AtWork
  <2>. QED  BY <2>6, <2>7
<1>. QED  BY <1>1, <1>5, <1>6

LEMMA EraseKeepsCounts ==
    ASSUME BasicInv, CountsInv, NEW t \in Threads, Erase(t)
    PROVE  CountsInv'
<1>1. /\ at[t] = "erase"
      /\ db' \in {db, [db EXCEPT !.deleted = db.deleted \cup {req[t].target}]}
      /\ Goto(t, IF req[t].target \in Comments THEN "settle" ELSE "commit")
      /\ UNCHANGED <<disk, req, seen, disturbed>>
    BY Zenon DEF Erase
<1>2. /\ OthersStay(t) /\ Busy(t) /\ req[t].op = "delete" /\ req[t] \in Requests
    BY <1>1, EraseBasics, RequestKinds DEF BasicInv, AtItsStep, Fits, Busy
<1>3. /\ db'.author = db.author /\ db'.place = db.place /\ db'.count = db.count
      /\ \A c : c # req[t].target => (c \in db'.deleted <=> c \in db.deleted)
    BY <1>1 DEF BasicInv, ForumTypeOK, Tables
<1>. SUFFICES ASSUME NEW p \in Posts, <<"count", p>> \notin disturbed
              PROVE  CountInv(p)'
    BY <1>1 DEF CountsInv
<1>4. CountInv(p)
    BY DEF CountsInv
<1>5. CASE ~Discusses(t, p)
  <2>1. \A c \in Comments : db.place[c] = p => c # req[t].target
      BY <1>2, <1>5 DEF Discusses
  <2>2. Answers(db, p)' = Answers(db, p)
      BY <1>3, <2>1 DEF Answers
  <2>. QED  BY <1>1, <1>2, <1>3, <1>4, <1>5, <2>2, OthersDiscuss
<1>6. CASE Discusses(t, p)
  <2>1. at'[t] = "settle"
      BY <1>1, <1>6, DiscussesKnown DEF BasicInv, ForumTypeOK, Goto
  <2>2. Discusses(t, p)'
      BY <1>1, <1>3, <1>6, <2>1 DEF Discusses, Busy
  <2>. QED  BY <1>2, <1>3, <1>4, <1>6, <2>1, <2>2, SoleDiscusses, AtWork
<1>. QED  BY <1>5, <1>6

LEMMA SettleKeepsCounts ==
    ASSUME BasicInv, CountsInv, NEW t \in Threads, Settle(t)
    PROVE  CountsInv'
<1>1. at[t] = "settle" /\ disk' = db /\ Goto(t, "measure") /\ UNCHANGED <<db, req, seen, disturbed>>
    BY Zenon DEF Settle
<1>2. OthersStay(t) /\ Busy(t) /\ at'[t] = "measure"
    BY <1>1, SettleBasics DEF BasicInv, ForumTypeOK, Busy, Goto
<1>. SUFFICES ASSUME NEW p \in Posts, <<"count", p>> \notin disturbed
              PROVE  CountInv(p)'
    BY <1>1 DEF CountsInv
<1>3. CountInv(p)
    BY DEF CountsInv
<1>4. CASE ~Discusses(t, p)
  <2>1. Answers(db, p)' = Answers(db, p)
      BY <1>1 DEF Answers
  <2>. QED  BY <1>1, <1>2, <1>3, <1>4, <2>1, OthersDiscuss
<1>5. CASE Discusses(t, p)
  <2>1. Discusses(t, p)'
      BY <1>1, <1>2, <1>5 DEF Discusses, Busy
  <2>. QED  BY <1>1, <1>2, <1>3, <1>5, <2>1, SoleDiscusses, AtWork
<1>. QED  BY <1>4, <1>5

LEMMA MeasureKeepsCounts ==
    ASSUME BasicInv, CountsInv, NEW t \in Threads, Measure(t)
    PROVE  CountsInv'
<1>1. /\ at[t] = "measure" /\ Goto(t, "stats")
      /\ seen' = [seen EXCEPT ![t].number = Cardinality(Answers(db, PostOf(t)))]
      /\ UNCHANGED <<db, disk, req, disturbed>>
    BY Zenon DEF Measure
<1>2. OthersStay(t) /\ Busy(t) /\ at'[t] = "stats"
    BY <1>1, MeasureBasics DEF BasicInv, ForumTypeOK, Busy, Goto
<1>. SUFFICES ASSUME NEW p \in Posts, <<"count", p>> \notin disturbed
              PROVE  CountInv(p)'
    BY <1>1 DEF CountsInv
<1>3. CountInv(p)
    BY DEF CountsInv
<1>4. Answers(db, p)' = Answers(db, p)
    BY <1>1 DEF Answers
<1>5. CASE ~Discusses(t, p)
    BY <1>1, <1>2, <1>3, <1>4, <1>5, OthersDiscuss
<1>6. CASE Discusses(t, p)
  <2>1. Discusses(t, p)' /\ \A u \in Threads : Discusses(u, p)' => u = t
      BY <1>1, <1>2, <1>3, <1>6, SoleDiscusses DEF Discusses, Busy
  <2>2. seen'[t].number = Cardinality(Answers(db, p))
    <3>1. PostOf(t) = p  BY <1>6, DiscussesKnown
    <3>2. seen[t] \in Reading  BY DEF BasicInv, ForumTypeOK
    <3>3. seen'[t].number = Cardinality(Answers(db, PostOf(t)))
        BY <1>1, <3>2 DEF BasicInv, ForumTypeOK, Reading
    <3>. QED  BY <3>1, <3>3
  <2>. QED  BY <1>2, <1>4, <2>1, <2>2 DEF CountInv
<1>. QED  BY <1>5, <1>6

LEMMA StatsKeepsCounts ==
    ASSUME BasicInv, CountsInv, NEW t \in Threads, Stats(t)
    PROVE  CountsInv'
<1>1. /\ at[t] = "stats" /\ Goto(t, "commit")
      /\ db' = [db EXCEPT !.count[PostOf(t)] = seen[t].number]
      /\ UNCHANGED <<disk, req, seen, disturbed>>
    BY Zenon DEF Stats
<1>2. OthersStay(t) /\ Busy(t) /\ at'[t] = "commit" /\ req'[t] = req[t]
    BY <1>1, StatsBasics DEF BasicInv, ForumTypeOK, Busy, Goto
<1>3. /\ db'.author = db.author /\ db'.place = db.place /\ db'.deleted = db.deleted
      /\ db'.count = [db.count EXCEPT ![PostOf(t)] = seen[t].number]
    BY <1>1 DEF BasicInv, ForumTypeOK, Tables
<1>. SUFFICES ASSUME NEW p \in Posts, <<"count", p>> \notin disturbed
              PROVE  CountInv(p)'
    BY <1>1 DEF CountsInv
<1>4. CountInv(p)
    BY DEF CountsInv
<1>5. Answers(db, p)' = Answers(db, p)
    BY <1>3 DEF Answers
<1>6. db.count \in [Posts -> Nat]
    BY DEF BasicInv, ForumTypeOK, Tables
<1>7. CASE ~Discusses(t, p)
  <2>1. PostOf(t) # p
    <3>1. req[t].op = "comment" \/ (req[t].op = "delete" /\ req[t].target \in Comments)
        BY <1>1, <1>2, RequestKinds DEF BasicInv, AtItsStep, Fits
    <3>. QED  BY <1>2, <1>7, <3>1 DEF Discusses, PostOf
  <2>2. db'.count[p] = db.count[p]
      BY <1>3, <1>6, <2>1
  <2>. QED  BY <1>1, <1>2, <1>3, <1>4, <1>5, <1>7, <2>2, OthersDiscuss
<1>8. CASE Discusses(t, p)
  <2>1. Discusses(t, p)' /\ \A u \in Threads : Discusses(u, p)' => u = t
      BY <1>2, <1>3, <1>4, <1>8, SoleDiscusses DEF Discusses, Busy
  <2>2. db'.count[p] = seen[t].number
      BY <1>3, <1>6, <1>8, DiscussesKnown
  <2>3. seen[t].number = Cardinality(Answers(db, p))
      BY <1>1, <1>4, <1>8 DEF CountInv
  <2>. QED  BY <1>2, <1>5, <2>1, <2>2, <2>3 DEF CountInv
<1>. QED  BY <1>7, <1>8

LEMMA CommitKeepsCounts ==
    ASSUME BasicInv, CountsInv, NEW t \in Threads, Commit(t)
    PROVE  CountsInv'
<1>1. at[t] = "commit" /\ disk' = db /\ Return(t) /\ UNCHANGED <<db, disturbed>>
    BY Zenon DEF Commit
<1>2. OthersStay(t) /\ Busy(t) /\ at'[t] = "idle"
    BY <1>1, CommitBasics DEF BasicInv, ForumTypeOK, Busy, Return, Goto
<1>. SUFFICES ASSUME NEW p \in Posts, <<"count", p>> \notin disturbed
              PROVE  CountInv(p)'
    BY <1>1 DEF CountsInv
<1>3. CountInv(p)
    BY DEF CountsInv
<1>4. CASE ~Discusses(t, p)
  <2>1. Answers(db, p)' = Answers(db, p)
      BY <1>1 DEF Answers
  <2>. QED  BY <1>1, <1>2, <1>3, <1>4, <2>1, OthersDiscuss
<1>5. CASE Discusses(t, p)
  <2>1. db.count[p] = Cardinality(Answers(db, p))
      BY <1>1, <1>3, <1>5 DEF CountInv
  <2>2. AnswersSettled(p)'
      BY <1>1, <2>1 DEF AnswersSettled, Answers
  <2>. QED  BY <1>1, <1>2, <1>3, <1>5, <2>2, SoleDiscusses, SettledAgain
<1>. QED  BY <1>4, <1>5

LEMMA TakenBackKeepsCounts ==
    ASSUME BasicInv, CountsInv, db' = disk, disturbed' = disturbed \cup InWork, UNCHANGED disk,
           \A t \in Threads : at'[t] = "idle" \/ (Busy(t) /\ req'[t] = req[t])
    PROVE  CountsInv'
<1>. SUFFICES ASSUME NEW p \in Posts, <<"count", p>> \notin disturbed'
              PROVE  CountInv(p)'
    BY DEF CountsInv
<1>1. CountInv(p)
    BY DEF CountsInv
<1>2. \A t \in Threads : ~Discusses(t, p)
    BY DiscussesInWork
<1>3. \A c \in Comments : disk.place[c] = p => db.place[c] = p
    BY ForumAssumption DEF BasicInv, RowsInv
<1>4. \A t \in Threads : ~Discusses(t, p)'
    BY <1>2, <1>3 DEF Discusses, Busy
<1>5. AnswersSettled(p)
    BY <1>1, <1>2 DEF CountInv
<1>6. AnswersSettled(p)'
    BY <1>5 DEF AnswersSettled, Answers
<1>. QED  BY <1>4, <1>6 DEF CountInv

LEMMA HandlersKeepCounts ==
    ASSUME BasicInv, CountsInv, NEW t \in Threads, HandlerStep(t)
    PROVE  CountsInv'
<1>. DEFINE Apart == Busy(t) /\ req[t].op \notin {"comment", "delete"}
            Same  == /\ \A c \in Comments : db'.author[c] = db.author[c]
                     /\ db'.place = db.place /\ db'.deleted = db.deleted /\ db'.count = db.count
<1>1. CASE VoteLookup(t)
  <2>1. /\ at[t] = "lookup" /\ UNCHANGED <<db, disk>>
        /\ disturbed' \in {disturbed, disturbed \cup Counter(req[t])}
        /\ Return(t) \/ UNCHANGED req
      BY <1>1, Zenon DEF VoteLookup
  <2>2. Apart
      BY <2>1, RequestKinds DEF BasicInv, AtItsStep, Fits, Busy
  <2>3. at'[t] = "idle" \/ req'[t] = req[t]
      BY <2>1 DEF BasicInv, ForumTypeOK, Return, Goto
  <2>4. OthersStay(t)
      BY <1>1, VoteLookupBasics
  <2>5. Same /\ disturbed \subseteq disturbed' /\ disk' = disk
      BY <2>1
  <2>. QED  BY <2>2, <2>3, <2>4, <2>5, NoDiscussionCounts
<1>2. CASE VoteRecord(t)
  <2>1. /\ at[t] = "record" /\ db' \in {db, [db EXCEPT !.vote[Ballot(t)] = NewValue(t)]}
        /\ UNCHANGED <<disk, req, disturbed>>
      BY <1>2, Zenon DEF VoteRecord
  <2>2. Apart /\ OthersStay(t)
      BY <1>2, <2>1, VoteRecordBasics, RequestKinds DEF BasicInv, AtItsStep, Fits, Busy
  <2>3. Same  BY <2>1 DEF BasicInv, ForumTypeOK, Tables
  <2>. QED  BY <2>1, <2>2, <2>3, NoDiscussionCounts
<1>3. CASE VoteRollsBack(t)
  <2>1. /\ db' = disk /\ Return(t) /\ disturbed' = disturbed \cup InWork /\ UNCHANGED disk
      BY <1>3, Zenon DEF VoteRollsBack
  <2>2. \A u \in Threads : at'[u] = "idle" \/ (Busy(u) /\ req'[u] = req[u])
      BY <2>1 DEF BasicInv, ForumTypeOK, Return, Goto, Busy
  <2>. QED  BY <2>1, <2>2, TakenBackKeepsCounts
<1>4. CASE VoteTally(t)
  <2>1. /\ at[t] = "tally"
        /\ db' \in {db, [db EXCEPT !.net[req[t].target] = db.net[req[t].target] + Delta(t)]}
        /\ UNCHANGED <<disk, req, disturbed>>
      BY <1>4, Zenon DEF VoteTally
  <2>2. Apart /\ OthersStay(t)
      BY <1>4, <2>1, VoteTallyBasics, RequestKinds DEF BasicInv, AtItsStep, Fits, Busy
  <2>3. Same  BY <2>1 DEF BasicInv, ForumTypeOK, Tables
  <2>. QED  BY <2>1, <2>2, <2>3, NoDiscussionCounts
<1>5. CASE VoteAdjust(t)
  <2>1. /\ at[t] = "adjust"
        /\ db' = [db EXCEPT !.net[req[t].target] =
                     seen[t].number + (IF seen[t].counted THEN Delta(t) ELSE 0)]
        /\ UNCHANGED <<disk, req, disturbed>>
      BY <1>5, Zenon DEF VoteAdjust
  <2>2. Apart /\ OthersStay(t)
      BY <1>5, <2>1, VoteAdjustBasics, RequestKinds DEF BasicInv, AtItsStep, Fits, Busy
  <2>3. Same  BY <2>1 DEF BasicInv, ForumTypeOK, Tables
  <2>. QED  BY <2>1, <2>2, <2>3, NoDiscussionCounts
<1>6. CASE Publish(t)
  <2>1. /\ at[t] = "publish" /\ db' = [db EXCEPT !.author[req[t].target] = req[t].user]
        /\ UNCHANGED <<disk, req, disturbed>>
      BY <1>6, Zenon DEF Publish
  <2>2. Apart /\ OthersStay(t) /\ req[t].target \notin Comments
      BY <1>6, <2>1, PublishBasics, RequestKinds, ForumAssumption DEF BasicInv, AtItsStep, Fits, Busy
  <2>3. Same  BY <2>1, <2>2 DEF BasicInv, ForumTypeOK, Tables, Targets
  <2>. QED  BY <2>1, <2>2, <2>3, NoDiscussionCounts
<1>7. CASE CheckRights(t)  BY <1>7, RightsKeepCounts
<1>8. CASE Insert(t)  BY <1>8, InsertKeepsCounts
<1>9. CASE Erase(t)  BY <1>9, EraseKeepsCounts
<1>10. CASE Settle(t)  BY <1>10, SettleKeepsCounts
<1>11. CASE Measure(t)  BY <1>11, MeasureKeepsCounts
<1>12. CASE Stats(t)  BY <1>12, StatsKeepsCounts
<1>13. CASE Save(t)
  <2>1. at[t] = "save" /\ UNCHANGED <<db, disk, req, disturbed>>
      BY <1>13, Zenon DEF Save
  <2>2. Apart /\ OthersStay(t)
      BY <1>13, <2>1, SaveBasics, RequestKinds DEF BasicInv, AtItsStep, Fits, Busy
  <2>. QED  BY <2>1, <2>2, NoDiscussionCounts
<1>14. CASE Commit(t)  BY <1>14, CommitKeepsCounts
<1>. QED  BY <1>1, <1>2, <1>3, <1>4, <1>5, <1>6, <1>7, <1>8, <1>9, <1>10, <1>11, <1>12, <1>13, <1>14 DEF HandlerStep

LEMMA BeginKeepsCounts ==
    ASSUME BasicInv, CountsInv, NEW t \in Threads, NEW r \in Requests, Begin(t, r)
    PROVE  CountsInv'
<1>1. /\ disturbed' = disturbed \cup (Counter(r) \cap InWork) /\ UNCHANGED <<db, disk, seen>>
    BY Zenon DEF Begin
<1>2. OthersStay(t) /\ ~Busy(t) /\ req'[t] = r /\ at'[t] = FirstStep(r) /\ at'[t] # "idle"
    BY BeginBasics
<1>. SUFFICES ASSUME NEW p \in Posts, <<"count", p>> \notin disturbed'
              PROVE  CountInv(p)'
    BY DEF CountsInv
<1>3. CountInv(p)
    BY <1>1 DEF CountsInv
<1>4. ASSUME NEW u \in Threads, u # t
      PROVE  Discusses(u, p)' <=> Discusses(u, p)
    BY <1>1, <1>2, <1>4 DEF OthersStay, Discusses, Busy
<1>5. ~Discusses(t, p)
    BY <1>2 DEF Discusses
<1>6. Answers(db, p)' = Answers(db, p) /\ Answers(disk, p)' = Answers(disk, p)
    BY <1>1 DEF Answers
<1>7. CASE Discusses(t, p)'
  <2>1. <<"count", p>> \in Counter(r)
      BY <1>1, <1>2, <1>7 DEF Discusses, Counter
  <2>2. \A u \in Threads : ~Discusses(u, p)
      BY <1>1, <2>1, DiscussesInWork
  <2>3. \A u \in Threads : Discusses(u, p)' => u = t
      BY <1>4, <2>2
  <2>4. AnswersSettled(p)'
      BY <1>1, <1>3, <2>2, SettledSame DEF CountInv
  <2>5. at'[t] = "check"
      BY <1>2, <1>7 DEF FirstStep, Discusses
  <2>. QED  BY <2>3, <2>4, <2>5, SettledAgain
<1>8. CASE ~Discusses(t, p)'
  <2>1. \A u \in Threads : Discusses(u, p)' <=> Discusses(u, p)
      BY <1>4, <1>5, <1>8
  <2>2. \A u \in Threads : Discusses(u, p) => at'[u] = at[u] /\ seen'[u] = seen[u]
      BY <1>2, <1>5 DEF OthersStay
  <2>. QED  BY <1>1, <1>3, <1>6, <2>1, <2>2, CountStays
<1>. QED  BY <1>7, <1>8

LEMMA QuietStepsKeepCounts ==
    ASSUME CountsInv, UNCHANGED <<db, at, req, seen, disturbed>>, disk' = disk \/ disk' = db
    PROVE  CountsInv'
<1>. SUFFICES ASSUME NEW p \in Posts, <<"count", p>> \notin disturbed
              PROVE  CountInv(p)'
    BY DEF CountsInv
<1>1. CountInv(p)
    BY DEF CountsInv
<1>2. \A u \in Threads : Discusses(u, p)' <=> Discusses(u, p)
    BY DEF Discusses, Busy
<1>3. /\ Answers(db, p)' = Answers(db, p)
      /\ \/ disk'.count[p] = disk.count[p] /\ Answers(disk, p)' = Answers(disk, p)
         \/ disk'.count[p] = db.count[p] /\ Answers(disk, p)' = Answers(db, p)
    BY DEF Answers
<1>. QED  BY <1>1, <1>2, <1>3, CountStays

ForumInv == BasicInv /\ VotesInv /\ CountsInv

LEMMA CountersStartAtZero ==
    ASSUME ForumInit
    PROVE  VotesInv /\ CountsInv
<1>1. ASSUME NEW x \in Targets
      PROVE  NetInv(x)
  <2>1. Cast(db, x, 1) = {} /\ Cast(db, x, -1) = {}
      BY ForumAssumption DEF ForumInit, Cast, Ballots
  <2>2. Score(db, x) = 0
      BY <2>1, FS_EmptySet DEF Score
  <2>3. VotesSettled(x)
      BY <2>2 DEF ForumInit, VotesSettled, Kept, Ballots
  <2>. QED  BY <2>3 DEF ForumInit, NetInv, Voter, Busy
<1>2. ASSUME NEW p \in Posts
      PROVE  CountInv(p)
  <2>1. Answers(db, p) = {} /\ Answers(disk, p) = {}
      BY DEF ForumInit, Answers, Targets
  <2>2. AnswersSettled(p)
      BY <2>1, FS_EmptySet DEF ForumInit, AnswersSettled
  <2>. QED  BY <2>2 DEF ForumInit, CountInv, Discusses, Busy
<1>. QED  BY <1>1, <1>2 DEF VotesInv, CountsInv

LEMMA ForumStepKeeps ==
    ASSUME ForumInv, [ForumNext]_forumVars
    PROVE  ForumInv'
<1>1. ASSUME NEW t \in Threads, HandlerStep(t)
      PROVE  ForumInv'
  <2>1. BasicInv'
      BY <1>1, VoteLookupBasics, VoteRecordBasics, RollbackBasics, VoteTallyBasics, VoteAdjustBasics,
         PublishBasics, RightsBasics, InsertBasics, EraseBasics, SettleBasics, MeasureBasics,
         StatsBasics, SaveBasics, CommitBasics DEF HandlerStep, ForumInv
  <2>. QED  BY <1>1, <2>1, HandlersKeepVotes, HandlersKeepCounts DEF ForumInv
<1>2. ASSUME NEW t \in Threads, NEW r \in Requests, Begin(t, r)
      PROVE  ForumInv'
    BY <1>2, BeginBasics, BeginKeepsVotes, BeginKeepsCounts DEF ForumInv
<1>3. ASSUME NEW u \in Authors, Age(u)
      PROVE  ForumInv'
  <2>1. UNCHANGED <<db, disk, at, req, seen, told, early, disturbed>>
      BY <1>3 DEF Age
  <2>. QED  BY <1>3, <2>1, AgeBasics, QuietStepsKeepVotes, QuietStepsKeepCounts DEF ForumInv
<1>4. CASE Recalculate
  <2>1. disk' = db /\ UNCHANGED <<db, at, req, seen, told, early, disturbed>>
      BY <1>4 DEF Recalculate
  <2>. QED  BY <1>4, <2>1, RecalculateBasics, QuietStepsKeepVotes, QuietStepsKeepCounts DEF ForumInv
<1>5. CASE RestartForum
  <2>1. /\ db' = disk /\ disturbed' = disturbed \cup InWork /\ UNCHANGED <<disk, told, early>>
      BY <1>5 DEF RestartForum
  <2>2. BasicInv' /\ \A t \in Threads : at'[t] = "idle"
      BY <1>5, ForumRestartBasics DEF ForumInv
  <2>. QED  BY <2>1, <2>2, TakenBackCounts, TakenBackKeepsCounts DEF ForumInv
<1>6. CASE UNCHANGED forumVars
  <2>1. UNCHANGED <<db, disk, at, req, seen, fresh, asked, told, early, disturbed>>
      BY <1>6 DEF forumVars
  <2>2. BasicInv'
    <3>1. ForumTypeOK' /\ FreshInv' /\ RowsInv'
        BY <2>1 DEF ForumInv, BasicInv, ForumTypeOK, FreshInv, RowsInv
    <3>2. AtItsStep' /\ NewIdInv'
        BY <2>1 DEF ForumInv, BasicInv, AtItsStep, NewIdInv, Busy, Exists
    <3>. QED  BY <3>1, <3>2 DEF BasicInv
  <2>. QED  BY <2>1, <2>2, QuietStepsKeepVotes, QuietStepsKeepCounts DEF ForumInv
<1>. QED  BY <1>1, <1>2, <1>3, <1>4, <1>5, <1>6 DEF ForumNext

LEMMA ForumInvariance == ForumSpec => []ForumInv
<1>1. ForumInit => ForumInv
    BY ForumBegins, CountersStartAtZero DEF ForumInv, BasicInv
<1>2. ForumInv /\ [ForumNext]_forumVars => ForumInv'
    BY ForumStepKeeps
<1>. QED  BY <1>1, <1>2, PTL DEF ForumSpec

(* The counters the handlers write, by read and write or in one statement,  *)
(* are what the rows say, unless the code itself lost count (votes.py,      *)
(* update_post_stats).                                                      *)
THEOREM CountersAreRight == ForumSpec => []CountersAgree
<1>1. ASSUME ForumInv
      PROVE  CountersAgree
  <2>1. ASSUME NEW x \in Targets, Quiet(<<"net", x>>)
        PROVE  db.net[x] = Score(db, x)
    <3>1. NetInv(x) /\ \A t \in Threads : ~Voter(t, x)
        BY <1>1, <2>1, VoterInWork DEF ForumInv, VotesInv, Quiet
    <3>. QED  BY <3>1 DEF NetInv, VotesSettled
  <2>2. ASSUME NEW p \in Posts, Quiet(<<"count", p>>)
        PROVE  db.count[p] = Cardinality(Answers(db, p))
    <3>1. CountInv(p) /\ \A t \in Threads : ~Discusses(t, p)
        BY <1>1, <2>2, DiscussesInWork DEF ForumInv, CountsInv, Quiet
    <3>. QED  BY <3>1 DEF CountInv, AnswersSettled
  <2>. QED  BY <2>1, <2>2 DEF CountersAgree
<1>. QED  BY <1>1, ForumInvariance, PTL

(* A vote that was confirmed is on disk until its user votes again, though  *)
(* every thread's rollback takes back what others have not committed, and   *)
(* a crash what nobody has (cast_vote, get_forum_db).                       *)
THEOREM ConfirmedVotesLast == ForumSpec => []AnsweredIsStored
<1>1. ASSUME ForumInv
      PROVE  AnsweredIsStored
  <2>1. ASSUME NEW b \in Ballots, told[b] # NoVote, Quiet(<<"net", b[2]>>)
        PROVE  disk.vote[b] = told[b]
    <3>. DEFINE u == b[1]
                x == b[2]
    <3>1. u \in Authors /\ x \in Targets /\ b = <<u, x>>
        BY DEF Ballots
    <3>2. NetInv(x) /\ \A t \in Threads : ~Voter(t, x)
        BY <1>1, <2>1, <3>1, VoterInWork DEF ForumInv, VotesInv, Quiet
    <3>3. Kept(<<u, x>>)
        BY <3>1, <3>2 DEF NetInv, VotesSettled
    <3>. QED  BY <2>1, <3>1, <3>3 DEF Kept
  <2>. QED  BY <2>1 DEF AnsweredIsStored
<1>. QED  BY <1>1, ForumInvariance, PTL

(* The tables and what the threads hold of them have their types.           *)
THEOREM ForumTypeCorrect == ForumSpec => []ForumTypeOK
<1>1. ForumInv => ForumTypeOK
    BY DEF ForumInv, BasicInv
<1>. QED  BY <1>1, ForumInvariance, PTL

=============================================================================
