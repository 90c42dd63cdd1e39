------------------------------ MODULE RadioMesh ------------------------------
(***************************************************************************)
(* The radio network's table of nodes, src/client/network/radio/dht.py:    *)
(* the stations' programs each keep a table, a thread sends its fresh      *)
(* entries every 30 seconds, and what is heard is merged entry by entry,   *)
(* looked up under the lock and stored under the lock, but not under one.  *)
(* A station enters itself and the peers it simulates when a link of its   *)
(* program is first used, all at one time: one name stands for them. Names *)
(* are drawn with a hash that every start of the program salts anew, so a  *)
(* restart makes a new one. Of an entry only last_seen is kept.            *)
(***************************************************************************)
EXTENDS Integers, FiniteSets

CONSTANTS Stations,       \* programs with a DHTTable
          Receivers,      \* threads that hand a station what it heard
          At,             \* Receivers -> Stations
          Keepers,        \* those that save it to a file
          EntryExpiry,    \* ENTRY_EXPIRY_S
          ClockSkew,      \* Stations -> what its clock is ahead
          MaxMesh,        \* bound of the clock
          MaxProcess,     \* Stations -> bound of the restarts of its program
          MaxAir,         \* bound of the snapshots under way
          NoEntry, NoPair

ASSUME MeshAssumption ==
    /\ At \in [Receivers -> Stations] /\ Keepers \subseteq Stations
    /\ EntryExpiry \in Nat /\ ClockSkew \in [Stations -> Int]
    /\ MaxMesh \in Nat /\ MaxProcess \in [Stations -> Nat]

VARIABLES
    meshNow,   \* time
    process,   \* which run of its program a station is in
    routes,    \* DHTTable._entries
    air,       \* snapshots sent; each may be heard late, often or never
    merging,   \* what a receiver still has to merge and what it looked up
    file,      \* what DHTTable.save wrote last
    born       \* when a name was last entered by the program that made it

meshVars == <<meshNow, process, routes, air, merging, file, born>>

Names == UNION {{s} \X (0 .. MaxProcess[s]) : s \in Stations}
Pairs == Names \X Int
Never == -1
Idle == [rest |-> {}, found |-> NoPair]
Empty == [i \in Names |-> NoEntry]

MeshInit ==
    /\ meshNow = 0
    /\ process = [s \in Stations |-> 0]
    /\ routes = [s \in Stations |-> Empty]
    /\ air = {}
    /\ merging = [r \in Receivers |-> Idle]
    /\ file = [s \in Stations |-> {}]
    /\ born = [i \in Names |-> Never]

Heard(s) == meshNow + ClockSkew[s]

Fresh(s, seen) == Heard(s) - seen <= EntryExpiry

\* The entries a lookup returns and a snapshot holds.
FreshOf(s) ==
    {<<i, routes[s][i]>> : i \in {n \in Names : routes[s][n] # NoEntry /\ Fresh(s, routes[s][n])}}

-----------------------------------------------------------------------------

MeshTick ==
    /\ meshNow < MaxMesh
    /\ meshNow' = meshNow + 1
    /\ UNCHANGED <<process, routes, air, merging, file, born>>

\* A link's first message enters the seed and the peers under the program's
\* name. A program may open several links.
Bootstrap(s) ==
    /\ routes' = [routes EXCEPT ![s][<<s, process[s]>>] = Heard(s)]
    /\ born' = [born EXCEPT ![<<s, process[s]>>] = meshNow]
    /\ UNCHANGED <<meshNow, process, air, merging, file>>

\* One round of the gossip thread: drop what has expired, send the rest.
Gossip(s) ==
    /\ Cardinality(air) < MaxAir
    /\ routes' = [routes EXCEPT ![s] =
                     [i \in Names |-> IF @[i] # NoEntry /\ Fresh(s, @[i]) THEN @[i] ELSE NoEntry]]
    /\ air' = air \cup {FreshOf(s)}
    /\ UNCHANGED <<meshNow, process, merging, file, born>>

Fade(snapshot) ==
    /\ air' = air \ {snapshot}
    /\ UNCHANGED <<meshNow, process, routes, merging, file, born>>

Hear(r, snapshot) ==
    /\ merging[r] = Idle
    /\ merging' = [merging EXCEPT ![r].rest = snapshot]
    /\ UNCHANGED <<meshNow, process, routes, air, file, born>>

\* An entry read from a snapshot without its last_seen.
ReadStamped(r, pair) == <<pair[1], Heard(At[r])>>

\* The entry as it was sent, last_seen included.
Read(r, pair) == pair

\* The first half of merge's loop body, under the lock.
Look(r, pair) ==
    LET heard == Read(r, pair)
        local == routes[At[r]][heard[1]]
        newer == local = NoEntry \/ heard[2] > local
    IN /\ merging[r].found = NoPair /\ pair \in merging[r].rest
       /\ merging' = [merging EXCEPT ![r] =
                         [rest |-> @.rest \ {pair}, found |-> IF newer THEN heard ELSE NoPair]]
       /\ UNCHANGED <<meshNow, process, routes, air, file, born>>

\* The second, under the lock again: what was looked up may have changed.
Put(r) ==
    /\ merging[r].found # NoPair
    /\ routes' = [routes EXCEPT ![At[r]][merging[r].found[1]] = merging[r].found[2]]
    /\ merging' = [merging EXCEPT ![r].found = NoPair]
    /\ UNCHANGED <<meshNow, process, air, file, born>>

SaveTable(s) ==
    /\ file' = [file EXCEPT ![s] = FreshOf(s)]
    /\ UNCHANGED <<meshNow, process, routes, air, merging, born>>

\* Unlike merge, load does not compare: the file's entry replaces the table's.
LoadTable(s) ==
    /\ routes' = [routes EXCEPT ![s] =
                     [i \in Names |-> IF \E pair \in file[s] : pair[1] = i
                                      THEN (CHOOSE pair \in file[s] : pair[1] = i)[2]
                                      ELSE @[i]]]
    /\ UNCHANGED <<meshNow, process, air, merging, file, born>>

MeshRestart(s) ==
    /\ process[s] < MaxProcess[s]
    /\ process' = [process EXCEPT ![s] = @ + 1]
    /\ routes' = [routes EXCEPT ![s] = Empty]
    /\ merging' = [r \in Receivers |-> IF At[r] = s THEN Idle ELSE merging[r]]
    /\ UNCHANGED <<meshNow, air, file, born>>

MeshNext ==
    \/ MeshTick
    \/ \E s \in Stations :
          \/ Bootstrap(s) \/ Gossip(s) \/ MeshRestart(s)
    \/ \E s \in Keepers : SaveTable(s) \/ LoadTable(s)
    \/ \E snapshot \in air : Fade(snapshot)
    \/ \E r \in Receivers :
          \/ \E snapshot \in air : Hear(r, snapshot)
          \/ \E pair \in merging[r].rest : Look(r, pair)
          \/ Put(r)

MeshSpec == MeshInit /\ [][MeshNext]_meshVars

-----------------------------------------------------------------------------

\* The variables have their types; every stored name has one entry.
MeshTypeOK ==
    /\ meshNow \in 0 .. MaxMesh
    /\ process \in [Stations -> Nat] /\ \A s \in Stations : process[s] <= MaxProcess[s]
    /\ routes \in [Stations -> [Names -> Int \cup {NoEntry}]]
    /\ air \subseteq SUBSET Pairs
    /\ merging \in [Receivers -> [rest : SUBSET Pairs, found : Pairs \cup {NoPair}]]
    /\ file \in [Stations -> SUBSET Pairs]
    /\ born \in [Names -> (0 .. MaxMesh) \cup {Never}]

\* A node that no longer shows itself is forgotten by all: whatever a table
\* calls fresh was entered by the program that made the name no longer ago
\* than the expiry and the difference of the two clocks, through any number of
\* stations, threads, files and restarts. Nothing on the way makes it younger.
HeardOfLately ==
    \A s \in Stations : \A pair \in FreshOf(s) :
        /\ born[pair[1]] # Never
        /\ meshNow - born[pair[1]] <= EntryExpiry + ClockSkew[pair[1][1]] - ClockSkew[s]

=============================================================================
