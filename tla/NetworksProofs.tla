--------------------------- MODULE NetworksProofs ---------------------------
(***************************************************************************)
(* Proofs about the networks beside the servers' own: the client's radio   *)
(* mesh and its link, and the distributed hash table.                      *)
(***************************************************************************)
EXTENDS RadioMesh, RadioLink, Dht, FiniteSetTheorems, WellFoundedInduction, TLAPS

-----------------------------------------------------------------------------
(* RadioMesh: no table calls a node fresh that has not shown itself lately. *)

\* What is said of a name is no younger than what its own program entered.
Told(i, heard) == born[i] # Never /\ heard <= born[i] + ClockSkew[i[1]]

AllTold(pairs) == \A pair \in pairs : Told(pair[1], pair[2])

BornInv == \A i \in Names : born[i] <= meshNow

RoutesInv ==
    \A s \in Stations, i \in Names : routes[s][i] # NoEntry => Told(i, routes[s][i])

AirInv == \A snapshot \in air : AllTold(snapshot)

MergeInv ==
    \A r \in Receivers :
        /\ AllTold(merging[r].rest)
        /\ merging[r].found # NoPair => Told(merging[r].found[1], merging[r].found[2])

FileInv == \A s \in Stations : AllTold(file[s])

MeshInv == MeshTypeOK /\ BornInv /\ RoutesInv /\ AirInv /\ MergeInv /\ FileInv

-----------------------------------------------------------------------------

LEMMA NamesOf ==
    /\ \A i \in Names : i[1] \in Stations /\ ClockSkew[i[1]] \in Int
    /\ \A s \in Stations : \A n \in 0 .. MaxProcess[s] : <<s, n>> \in Names
BY MeshAssumption DEF Names

LEMMA PairsOf ==
    /\ \A pair \in Pairs : pair[1] \in Names /\ pair[2] \in Int
    /\ \A i \in Names, heard \in Int :
          <<i, heard>> \in Pairs /\ <<i, heard>>[1] = i /\ <<i, heard>>[2] = heard
BY DEF Pairs

\* What is sent or saved is taken from the table.
LEMMA FreshTold ==
    ASSUME MeshTypeOK, RoutesInv, NEW s \in Stations
    PROVE  FreshOf(s) \subseteq Pairs /\ AllTold(FreshOf(s))
<1>1. \A i \in Names : routes[s][i] # NoEntry => routes[s][i] \in Int
    BY DEF MeshTypeOK
<1>. QED
    BY <1>1, PairsOf DEF FreshOf, RoutesInv, AllTold

\* A name entered anew makes no earlier word of it too young.
LEMMA ToldStays ==
    ASSUME MeshTypeOK, MeshTypeOK',
           \A i \in Names : born[i] # Never => born'[i] # Never /\ born[i] <= born'[i],
           NEW i \in Names, NEW heard \in Int, Told(i, heard)
    PROVE  Told(i, heard)'
<1>1. born[i] \in Int /\ born'[i] \in Int /\ ClockSkew[i[1]] \in Int
    BY NamesOf DEF MeshTypeOK, Never
<1>. QED
    BY <1>1 DEF Told

LEMMA MeshStarts == MeshInit => MeshInv
<1>. SUFFICES ASSUME MeshInit PROVE MeshInv
    OBVIOUS
<1>1. MeshTypeOK
    BY MeshAssumption DEF MeshInit, MeshTypeOK, Idle, Empty
<1>2. BornInv
    BY DEF MeshInit, BornInv, Never
<1>3. RoutesInv /\ AirInv /\ MergeInv /\ FileInv
    BY DEF MeshInit, RoutesInv, AirInv, MergeInv, FileInv, Empty, Idle, AllTold
<1>. QED
    BY <1>1, <1>2, <1>3 DEF MeshInv

-----------------------------------------------------------------------------

LEMMA MeshTickKeeps == ASSUME MeshInv, MeshTick PROVE MeshInv'
<1>1. MeshTypeOK'
    BY MeshAssumption DEF MeshTick, MeshInv, MeshTypeOK
<1>2. BornInv'
    BY DEF MeshTick, MeshInv, MeshTypeOK, BornInv, Never
<1>3. RoutesInv' /\ AirInv' /\ MergeInv' /\ FileInv'
    BY DEF MeshTick, MeshInv, RoutesInv, AirInv, MergeInv, FileInv, AllTold, Told
<1>. QED
    BY <1>1, <1>2, <1>3 DEF MeshInv

LEMMA BootstrapKeeps == ASSUME MeshInv, NEW s \in Stations, Bootstrap(s) PROVE MeshInv'
<1>. DEFINE me == <<s, process[s]>>
<1>1. me \in Names /\ me[1] = s /\ Heard(s) \in Int /\ ClockSkew[s] \in Int /\ meshNow \in 0 .. MaxMesh
    BY NamesOf, MeshAssumption DEF MeshInv, MeshTypeOK, Heard
<1>2. /\ routes' = [routes EXCEPT ![s][me] = Heard(s)]
      /\ born' = [born EXCEPT ![me] = meshNow]
      /\ UNCHANGED <<meshNow, process, air, merging, file>>
    BY DEF Bootstrap
<1>. HIDE DEF me
<1>3. MeshTypeOK'
    BY <1>1, <1>2 DEF MeshInv, MeshTypeOK
<1>4. \A i \in Names : born[i] # Never => born'[i] # Never /\ born[i] <= born'[i]
    BY <1>1, <1>2 DEF MeshInv, MeshTypeOK, BornInv, Never
<1>5. BornInv'
    BY <1>1, <1>2 DEF MeshInv, MeshTypeOK, BornInv, Never
<1>6. RoutesInv'
  <2>. SUFFICES ASSUME NEW t \in Stations, NEW i \in Names, routes'[t][i] # NoEntry
                PROVE  Told(i, routes[t][i])'
    BY DEF RoutesInv
  <2>1. CASE t = s /\ i = me
    BY <2>1, <1>1, <1>2 DEF MeshInv, MeshTypeOK, Told, Heard, Never
  <2>2. CASE ~(t = s /\ i = me)
    <3>1. routes'[t][i] = routes[t][i] /\ routes[t][i] \in Int
        BY <2>2, <1>2 DEF MeshInv, MeshTypeOK
    <3>2. Told(i, routes[t][i])
        BY <3>1 DEF MeshInv, RoutesInv
    <3>3. Told(i, routes[t][i]) => born[i] # Never /\ routes[t][i] <= born[i] + ClockSkew[i[1]]
        BY DEF Told
    <3>4. born[i] \in Int /\ born'[i] \in Int /\ ClockSkew[i[1]] \in Int
        BY <1>3, NamesOf DEF MeshInv, MeshTypeOK, Never
    <3>. QED
        BY <3>1, <3>2, <3>3, <3>4, <1>4 DEF Told
  <2>. QED
    BY <2>1, <2>2
<1>7. ASSUME NEW i \in Names, NEW heard \in Int, Told(i, heard) PROVE Told(i, heard)'
    BY <1>3, <1>4, <1>7, ToldStays DEF MeshInv
<1>8. AirInv' /\ FileInv'
    BY <1>2, <1>7, PairsOf DEF MeshInv, MeshTypeOK, AirInv, FileInv, AllTold
<1>9. MergeInv'
    BY <1>2, <1>7, PairsOf DEF MeshInv, MeshTypeOK, MergeInv, AllTold
<1>. QED
    BY <1>3, <1>5, <1>6, <1>8, <1>9 DEF MeshInv

LEMMA GossipKeeps == ASSUME MeshInv, NEW s \in Stations, Gossip(s) PROVE MeshInv'
<1>1. FreshOf(s) \subseteq Pairs /\ AllTold(FreshOf(s))
    BY FreshTold DEF MeshInv
<1>2. /\ air' = air \cup {FreshOf(s)}
      /\ \A t \in Stations, i \in Names : routes'[t][i] \in {routes[t][i], NoEntry}
      /\ UNCHANGED <<meshNow, process, merging, file, born>>
    BY DEF Gossip, MeshInv, MeshTypeOK
<1>3. routes' \in [Stations -> [Names -> Int \cup {NoEntry}]]
    BY DEF Gossip, MeshInv, MeshTypeOK
<1>4. MeshTypeOK'
    BY <1>1, <1>2, <1>3 DEF MeshInv, MeshTypeOK
<1>5. RoutesInv'
    BY <1>2 DEF MeshInv, RoutesInv, Told
<1>6. AirInv'
    BY <1>1, <1>2 DEF MeshInv, AirInv, AllTold, Told
<1>7. BornInv' /\ MergeInv' /\ FileInv'
    BY <1>2 DEF MeshInv, BornInv, MergeInv, FileInv, AllTold, Told
<1>. QED
    BY <1>4, <1>5, <1>6, <1>7 DEF MeshInv

LEMMA FadeKeeps == ASSUME MeshInv, NEW snapshot \in air, Fade(snapshot) PROVE MeshInv'
<1>1. MeshTypeOK'
    BY DEF Fade, MeshInv, MeshTypeOK
<1>2. AirInv'
    BY DEF Fade, MeshInv, AirInv, AllTold, Told
<1>3. BornInv' /\ RoutesInv' /\ MergeInv' /\ FileInv'
    BY DEF Fade, MeshInv, BornInv, RoutesInv, MergeInv, FileInv, AllTold, Told
<1>. QED
    BY <1>1, <1>2, <1>3 DEF MeshInv

LEMMA HearKeeps ==
    ASSUME MeshInv, NEW r \in Receivers, NEW snapshot \in air, Hear(r, snapshot) PROVE MeshInv'
<1>1. /\ merging' = [merging EXCEPT ![r].rest = snapshot]
      /\ snapshot \subseteq Pairs /\ AllTold(snapshot)
      /\ UNCHANGED <<meshNow, process, routes, air, file, born>>
    BY DEF Hear, MeshInv, MeshTypeOK, AirInv
<1>2. MeshTypeOK'
  <2>1. merging[r] \in [rest : SUBSET Pairs, found : Pairs \cup {NoPair}]
    BY DEF MeshInv, MeshTypeOK
  <2>2. [merging[r] EXCEPT !.rest = snapshot]
           \in [rest : SUBSET Pairs, found : Pairs \cup {NoPair}]
    BY <2>1, <1>1
  <2>. QED
    BY <1>1, <2>2 DEF MeshInv, MeshTypeOK
<1>3. MergeInv'
    BY <1>1 DEF MeshInv, MeshTypeOK, MergeInv, AllTold, Told
<1>4. BornInv' /\ RoutesInv' /\ AirInv' /\ FileInv'
    BY <1>1 DEF MeshInv, BornInv, RoutesInv, AirInv, FileInv, AllTold, Told
<1>. QED
    BY <1>2, <1>3, <1>4 DEF MeshInv

LEMMA LookKeeps ==
    ASSUME MeshInv, NEW r \in Receivers, NEW pair \in merging[r].rest, Look(r, pair) PROVE MeshInv'
<1>1. pair \in Pairs /\ Told(pair[1], pair[2])
    BY DEF MeshInv, MeshTypeOK, MergeInv, AllTold
<1>2. /\ \E kept \in {pair, NoPair} :
            merging' = [merging EXCEPT ![r] = [rest |-> merging[r].rest \ {pair}, found |-> kept]]
      /\ UNCHANGED <<meshNow, process, routes, air, file, born>>
    BY DEF Look, Read
<1>3. MeshTypeOK'
    BY <1>1, <1>2 DEF MeshInv, MeshTypeOK
<1>4. MergeInv'
    BY <1>1, <1>2 DEF MeshInv, MeshTypeOK, MergeInv, AllTold, Told
<1>5. BornInv' /\ RoutesInv' /\ AirInv' /\ FileInv'
    BY <1>2 DEF MeshInv, BornInv, RoutesInv, AirInv, FileInv, AllTold, Told
<1>. QED
    BY <1>3, <1>4, <1>5 DEF MeshInv

LEMMA PutKeeps == ASSUME MeshInv, NEW r \in Receivers, Put(r) PROVE MeshInv'
<1>. DEFINE i == merging[r].found[1]  heard == merging[r].found[2]
<1>1. i \in Names /\ heard \in Int /\ Told(i, heard) /\ At[r] \in Stations
    BY PairsOf, MeshAssumption DEF Put, MeshInv, MeshTypeOK, MergeInv
<1>2. /\ routes' = [routes EXCEPT ![At[r]][i] = heard]
      /\ merging' = [merging EXCEPT ![r].found = NoPair]
      /\ UNCHANGED <<meshNow, process, air, file, born>>
    BY DEF Put
<1>. HIDE DEF i, heard
<1>3. MeshTypeOK'
    BY <1>1, <1>2 DEF MeshInv, MeshTypeOK
<1>4. RoutesInv'
    BY <1>1, <1>2 DEF MeshInv, MeshTypeOK, RoutesInv, Told
<1>5. MergeInv'
    BY <1>2 DEF MeshInv, MeshTypeOK, MergeInv, AllTold, Told
<1>6. BornInv' /\ AirInv' /\ FileInv'
    BY <1>2 DEF MeshInv, BornInv, AirInv, FileInv, AllTold, Told
<1>. QED
    BY <1>3, <1>4, <1>5, <1>6 DEF MeshInv

LEMMA SaveKeeps == ASSUME MeshInv, NEW s \in Stations, SaveTable(s) PROVE MeshInv'
<1>1. FreshOf(s) \subseteq Pairs /\ AllTold(FreshOf(s))
    BY FreshTold DEF MeshInv
<1>2. /\ file' = [file EXCEPT ![s] = FreshOf(s)]
      /\ UNCHANGED <<meshNow, process, routes, air, merging, born>>
    BY DEF SaveTable
<1>3. MeshTypeOK'
    BY <1>1, <1>2 DEF MeshInv, MeshTypeOK
<1>4. FileInv'
    BY <1>1, <1>2 DEF MeshInv, MeshTypeOK, FileInv, AllTold, Told
<1>5. BornInv' /\ RoutesInv' /\ AirInv' /\ MergeInv'
    BY <1>2 DEF MeshInv, BornInv, RoutesInv, AirInv, MergeInv, AllTold, Told
<1>. QED
    BY <1>3, <1>4, <1>5 DEF MeshInv

LEMMA LoadKeeps == ASSUME MeshInv, NEW s \in Stations, LoadTable(s) PROVE MeshInv'
<1>. DEFINE Loaded(i) == CHOOSE pair \in file[s] : pair[1] = i
            loaded == [i \in Names |-> IF \E pair \in file[s] : pair[1] = i
                                       THEN Loaded(i)[2] ELSE routes[s][i]]
<1>1. /\ routes' = [routes EXCEPT ![s] = loaded]
      /\ UNCHANGED <<meshNow, process, air, merging, file, born>>
    BY DEF LoadTable
<1>2. ASSUME NEW i \in Names
      PROVE  /\ loaded[i] \in Int \cup {NoEntry}
             /\ loaded[i] # NoEntry => Told(i, loaded[i])
  <2>1. CASE \E pair \in file[s] : pair[1] = i
    <3>1. Loaded(i) \in file[s] /\ Loaded(i)[1] = i
        BY <2>1
    <3>2. Loaded(i) \in Pairs /\ Told(Loaded(i)[1], Loaded(i)[2])
        BY <3>1 DEF MeshInv, MeshTypeOK, FileInv, AllTold
    <3>3. loaded[i] = Loaded(i)[2]
        BY <2>1
    <3>. QED
        BY <3>1, <3>2, <3>3, PairsOf
  <2>2. CASE ~(\E pair \in file[s] : pair[1] = i)
    BY <2>2 DEF MeshInv, MeshTypeOK, RoutesInv
  <2>. QED
    BY <2>1, <2>2
<1>3. loaded \in [Names -> Int \cup {NoEntry}]
    BY <1>2
<1>. HIDE DEF loaded
<1>4. MeshTypeOK'
    BY <1>1, <1>3 DEF MeshInv, MeshTypeOK
<1>5. RoutesInv'
    BY <1>1, <1>2 DEF MeshInv, MeshTypeOK, RoutesInv, Told
<1>6. BornInv' /\ AirInv' /\ MergeInv' /\ FileInv'
    BY <1>1 DEF MeshInv, BornInv, AirInv, MergeInv, FileInv, AllTold, Told
<1>. QED
    BY <1>4, <1>5, <1>6 DEF MeshInv

LEMMA MeshRestartKeeps == ASSUME MeshInv, NEW s \in Stations, MeshRestart(s) PROVE MeshInv'
<1>1. MeshTypeOK'
  <2>1. process' \in [Stations -> Nat] /\ \A t \in Stations : process'[t] <= MaxProcess[t]
    <3>1. process[s] \in Nat /\ process[s] + 1 <= MaxProcess[s]
      <4>1. process[s] \in Nat /\ MaxProcess[s] \in Nat
        BY MeshAssumption DEF MeshInv, MeshTypeOK
      <4>2. process[s] < MaxProcess[s]
        BY DEF MeshRestart
      <4>. QED
        BY <4>1, <4>2
    <3>2. process' = [process EXCEPT ![s] = process[s] + 1]
        BY DEF MeshRestart
    <3>. QED
        BY <3>1, <3>2 DEF MeshInv, MeshTypeOK
  <2>2. routes' \in [Stations -> [Names -> Int \cup {NoEntry}]]
    BY DEF MeshRestart, MeshInv, MeshTypeOK, Empty
  <2>3. merging' \in [Receivers -> [rest : SUBSET Pairs, found : Pairs \cup {NoPair}]]
    BY DEF MeshRestart, MeshInv, MeshTypeOK, Idle
  <2>. QED
    BY <2>1, <2>2, <2>3 DEF MeshRestart, MeshInv, MeshTypeOK
<1>2. RoutesInv'
    BY DEF MeshRestart, MeshInv, MeshTypeOK, RoutesInv, Empty, Told
<1>3. MergeInv'
    BY DEF MeshRestart, MeshInv, MergeInv, Idle, AllTold, Told
<1>4. BornInv' /\ AirInv' /\ FileInv'
    BY DEF MeshRestart, MeshInv, BornInv, AirInv, FileInv, AllTold, Told
<1>. QED
    BY <1>1, <1>2, <1>3, <1>4 DEF MeshInv

-----------------------------------------------------------------------------

LEMMA MeshStepsKeep == MeshInv /\ [MeshNext]_meshVars => MeshInv'
<1>. SUFFICES ASSUME MeshInv, [MeshNext]_meshVars PROVE MeshInv'
    OBVIOUS
<1>1. ASSUME NEW s \in Stations,
             Bootstrap(s) \/ Gossip(s) \/ MeshRestart(s) \/ SaveTable(s) \/ LoadTable(s)
      PROVE  MeshInv'
    BY <1>1, BootstrapKeeps, GossipKeeps, MeshRestartKeeps, SaveKeeps, LoadKeeps
<1>2. ASSUME NEW snapshot \in air, Fade(snapshot) PROVE MeshInv'
    BY <1>2, FadeKeeps
<1>3. ASSUME NEW r \in Receivers, NEW snapshot \in air, Hear(r, snapshot) PROVE MeshInv'
    BY <1>3, HearKeeps
<1>4. ASSUME NEW r \in Receivers, NEW pair \in merging[r].rest, Look(r, pair) PROVE MeshInv'
    BY <1>4, LookKeeps
<1>5. ASSUME NEW r \in Receivers, Put(r) PROVE MeshInv'
    BY <1>5, PutKeeps
<1>6. CASE MeshTick
    BY <1>6, MeshTickKeeps
<1>7. CASE UNCHANGED meshVars
  <2>1. MeshTypeOK'
    BY <1>7 DEF meshVars, MeshInv, MeshTypeOK
  <2>2. BornInv' /\ RoutesInv' /\ AirInv' /\ MergeInv' /\ FileInv'
    BY <1>7 DEF meshVars, MeshInv, BornInv, RoutesInv, AirInv, MergeInv, FileInv, AllTold, Told
  <2>. QED
    BY <2>1, <2>2 DEF MeshInv
<1>. QED
    BY <1>1, <1>2, <1>3, <1>4, <1>5, <1>6, <1>7, MeshAssumption DEF MeshNext

LEMMA MeshInvAlways == MeshSpec => []MeshInv
    BY MeshStarts, MeshStepsKeep, PTL DEF MeshSpec

\* Every variable keeps its type, for any number of stations, receiving threads
\* and snapshots under way.
THEOREM MeshTypeCorrect == MeshSpec => []MeshTypeOK
<1>1. MeshInv => MeshTypeOK
    BY DEF MeshInv
<1>. QED
    BY <1>1, MeshInvAlways, PTL

\* Nothing on its way through other tables, snapshots, half merged entries,
\* files and restarts makes an entry of the radio's table younger: what is
\* fresh (dht.py:273) was entered by its own program within the expiry and the
\* difference of the two clocks, for any network and any clocks.
THEOREM NodesFade == MeshSpec => []HeardOfLately
<1>1. ASSUME MeshInv PROVE HeardOfLately
  <2>. SUFFICES ASSUME NEW s \in Stations, NEW pair \in FreshOf(s)
                PROVE  /\ born[pair[1]] # Never
                       /\ meshNow - born[pair[1]]
                             <= EntryExpiry + ClockSkew[pair[1][1]] - ClockSkew[s]
    BY DEF HeardOfLately
  <2>1. PICK i \in Names : pair = <<i, routes[s][i]>> /\ routes[s][i] # NoEntry
                           /\ Fresh(s, routes[s][i])
    BY DEF FreshOf
  <2>2. pair[1] = i /\ routes[s][i] \in Int
    BY <2>1, <1>1 DEF MeshInv, MeshTypeOK
  <2>3. born[i] # Never /\ routes[s][i] <= born[i] + ClockSkew[i[1]]
    BY <2>1, <1>1 DEF MeshInv, RoutesInv, Told
  <2>4. /\ born[i] \in Int /\ ClockSkew[i[1]] \in Int /\ ClockSkew[s] \in Int
        /\ meshNow \in Int /\ EntryExpiry \in Int
    BY <1>1, NamesOf, MeshAssumption DEF MeshInv, MeshTypeOK, Never
  <2>5. meshNow + ClockSkew[s] - routes[s][i] <= EntryExpiry
    BY <2>1, <2>2, <2>4 DEF Fresh, Heard
  <2>6. meshNow - born[i] <= EntryExpiry + ClockSkew[i[1]] - ClockSkew[s]
    BY <2>2, <2>3, <2>4, <2>5
  <2>. QED
    BY <2>2, <2>3, <2>6
<1>. QED
    BY <1>1, MeshInvAlways, PTL

-----------------------------------------------------------------------------
(* RadioLink: what the interface is told of the gateway. *)

ProbeSteps == {"public", "sdr", "end"} \X BOOLEAN
ProbesTyped == probe \in [Probes -> ProbeSteps \cup {NoProbe}]

(* Without an overlap one recompute runs at most, and the status it found   *)
(* when it began is the one the interface was told last.                    *)
OldStatusTold ==
    ~overlapped =>
        /\ Running = {} => told = IsGateway
        /\ \A t \in Running : Running = {t} /\ told = probe[t][2]

LinkInv ==
    /\ ProbesTyped /\ told \in BOOLEAN /\ overlapped \in BOOLEAN
    /\ OldStatusTold

(* A change of the mode or of the capabilities is announced, or a recompute *)
(* that runs beside it makes the overlap.                                   *)
LEMMA SettingKeeps ==
    ASSUME LinkInv, NEW new \in BOOLEAN,
           Announced(IsGateway, new), IsGateway' = new,
           overlapped' = (overlapped \/ Running # {}), probe' = probe
    PROVE  LinkInv'
<1>1. Running' = Running
  BY DEF Running
<1>2. IsGateway \in BOOLEAN
  BY DEF IsGateway, GatewayUnder
<1>3. told' \in BOOLEAN /\ (told = IsGateway => told' = new)
  BY <1>2 DEF Announced, LinkInv
<1>4. ~overlapped' => ~overlapped /\ Running = {}
  BY DEF LinkInv
<1>5. OldStatusTold'
  BY <1>1, <1>3, <1>4 DEF OldStatusTold, LinkInv
<1> QED BY <1>3, <1>5 DEF LinkInv, ProbesTyped

LEMMA StartingKeeps ==
    ASSUME LinkInv, NEW t \in Probes, StartProbe(t)
    PROVE  LinkInv'
<1>1. IsGateway \in BOOLEAN
  BY DEF IsGateway, GatewayUnder
<1>2. probe' = [probe EXCEPT ![t] = <<"public", IsGateway>>] /\ told' = told
  BY DEF StartProbe
<1>3. ProbesTyped'
  BY <1>1, <1>2 DEF LinkInv, ProbesTyped, ProbeSteps
<1>4. probe'[t] = <<"public", IsGateway>> /\ \A u \in Probes \ {t} : probe'[u] = probe[u]
  BY <1>2 DEF LinkInv, ProbesTyped
<1>5. probe'[t] # NoProbe
  BY <1>1, <1>4, LinkAssumption
<1>6. Running = {} => Running' = {t}
  BY <1>4, <1>5 DEF Running
<1>7. overlapped' = (overlapped \/ Running # {})
  BY DEF StartProbe
<1>8. ~overlapped' => ~overlapped /\ Running = {}
  BY <1>7 DEF LinkInv
<1>9. probe'[t][2] = IsGateway
  BY <1>4
<1>10. OldStatusTold'
  BY <1>2, <1>6, <1>8, <1>9 DEF LinkInv, OldStatusTold
<1> QED BY <1>2, <1>3, <1>7, <1>10 DEF LinkInv

LEMMA CheckingKeeps ==
    ASSUME LinkInv, NEW t \in Probes, NEW ability, NEW next \in {"sdr", "end"},
           Check(t, ability, next)
    PROVE  LinkInv'
<1>1. probe' = [probe EXCEPT ![t][1] = next] /\ told' = told /\ overlapped' = overlapped
  BY DEF Check
<1>2. probe[t] \in ProbeSteps
  BY DEF Check, LinkInv, ProbesTyped
<1>3. probe'[t] = <<next, probe[t][2]>> /\ \A u \in Probes \ {t} : probe'[u] = probe[u]
  BY <1>1, <1>2 DEF LinkInv, ProbesTyped, ProbeSteps
<1>4. probe'[t] \in ProbeSteps /\ probe'[t] # NoProbe /\ probe'[t][2] = probe[t][2]
  BY <1>2, <1>3, LinkAssumption DEF ProbeSteps
<1>5. Running' = Running /\ t \in Running
  BY <1>3, <1>4 DEF Running, Check
<1>6. ProbesTyped'
  BY <1>1, <1>3, <1>4 DEF LinkInv, ProbesTyped
<1>7. OldStatusTold'
  BY <1>1, <1>4, <1>5 DEF LinkInv, OldStatusTold
<1> QED BY <1>1, <1>6, <1>7 DEF LinkInv

LEMMA EndingKeeps ==
    ASSUME LinkInv, NEW t \in Probes, EndProbe(t)
    PROVE  LinkInv'
<1>1. probe' = [probe EXCEPT ![t] = NoProbe] /\ overlapped' = overlapped
      /\ gatewayMode' = gatewayMode /\ found' = found
  BY DEF EndProbe
<1>2. IsGateway' = IsGateway /\ IsGateway \in BOOLEAN
  BY <1>1 DEF IsGateway, GatewayUnder
<1>3. ProbesTyped' /\ probe'[t] = NoProbe /\ \A u \in Probes \ {t} : probe'[u] = probe[u]
  BY <1>1 DEF LinkInv, ProbesTyped
<1>4. t \in Running /\ Running' = Running \ {t}
  BY <1>3 DEF Running, EndProbe
<1>5. told' \in BOOLEAN /\ (told = probe[t][2] => told' = IsGateway)
  BY <1>2 DEF EndProbe, Announced, LinkInv
<1>6. OldStatusTold'
  BY <1>1, <1>2, <1>4, <1>5 DEF LinkInv, OldStatusTold
<1> QED BY <1>1, <1>3, <1>5, <1>6 DEF LinkInv

LEMMA SameManagerKeeps ==
    ASSUME LinkInv, UNCHANGED managerVars
    PROVE  LinkInv'
<1>1. IsGateway' = IsGateway /\ Running' = Running
  BY DEF managerVars, IsGateway, GatewayUnder, Running
<1> QED BY <1>1 DEF LinkInv, ProbesTyped, OldStatusTold, managerVars

LEMMA LinkStepsKeep ==
    ASSUME LinkInv, [LinkNext]_linkVars
    PROVE  LinkInv'
<1>1. ASSUME NEW mode \in Modes, SetGatewayMode(mode)
      PROVE  LinkInv'
  <2>1. IsGateway' = GatewayUnder(mode, found) /\ GatewayUnder(mode, found) \in BOOLEAN
    BY <1>1 DEF SetGatewayMode, IsGateway, GatewayUnder
  <2> QED BY <1>1, <2>1, SettingKeeps DEF SetGatewayMode
<1>2. ASSUME NEW abilities \in SUBSET Abilities, SetCapabilities(abilities)
      PROVE  LinkInv'
  <2>1. /\ IsGateway' = GatewayUnder(gatewayMode, abilities)
        /\ GatewayUnder(gatewayMode, abilities) \in BOOLEAN
    BY <1>2 DEF SetCapabilities, IsGateway, GatewayUnder
  <2> QED BY <1>2, <2>1, SettingKeeps DEF SetCapabilities
<1>3. ASSUME NEW t \in Probes,
             StartProbe(t) \/ Check(t, "public", "sdr") \/ Check(t, "sdr", "end") \/ EndProbe(t)
      PROVE  LinkInv'
  BY <1>3, StartingKeeps, CheckingKeeps, EndingKeeps
<1>4. ASSUME NEW x, WorldChanges(x) \/ Inject(x) \/ TypeFrequency(x) \/ Send \/ FirstSend
      PROVE  LinkInv'
  <2>1. UNCHANGED managerVars
    BY <1>4 DEF WorldChanges, Inject, TypeFrequency, Send, FirstSend
  <2> QED BY <2>1, SameManagerKeeps
<1>5. CASE UNCHANGED linkVars
  <2>1. UNCHANGED managerVars
    BY <1>5 DEF linkVars, managerVars
  <2> QED BY <2>1, SameManagerKeeps
<1> QED BY <1>1, <1>2, <1>3, <1>4, <1>5 DEF LinkNext

(* As long as no recompute has run beside another change, the interface     *)
(* knows whether the station is a gateway whenever none runs: the old       *)
(* status a recompute compares with is what the interface was told last,    *)
(* whatever was found meanwhile, for every number of threads.               *)
THEOREM InterfaceIsTold == LinkSpec => []ToldIsTrue
<1>1. LinkInit => LinkInv
  <2> SUFFICES ASSUME LinkInit PROVE LinkInv
    OBVIOUS
  <2>1. Running = {} /\ ProbesTyped
    BY DEF LinkInit, Running, ProbesTyped
  <2>2. told = IsGateway /\ told \in BOOLEAN /\ overlapped = FALSE
    BY DEF LinkInit, IsGateway, GatewayUnder, Modes, Abilities
  <2> QED BY <2>1, <2>2 DEF LinkInv, OldStatusTold
<1>2. LinkInv /\ [LinkNext]_linkVars => LinkInv'
  BY LinkStepsKeep
<1>3. LinkInv => ToldIsTrue
  BY DEF LinkInv, OldStatusTold, ToldIsTrue
<1> QED BY <1>1, <1>2, <1>3, PTL DEF LinkSpec

-----------------------------------------------------------------------------
(* Naturals are well founded: a set of them that is not empty has a least. *)
LEMMA LeastNat ==
    ASSUME NEW T, T \subseteq Nat, T # {}
    PROVE  \E n \in T : \A m \in T : n <= m
<1>. DEFINE R == {p \in Nat \X Nat : p[1] < p[2]}
<1>1. IsWellFoundedOn(OpToRel(<, Nat), Nat)
    BY NatLessThanWellFounded, Zenon
<1>2. OpToRel(<, Nat) = R
    BY DEF OpToRel
<1>. HIDE DEF R
<1>3. IsWellFoundedOn(R, Nat)
    BY <1>1, <1>2, Zenon
<1>4. PICK x \in T : \A y \in T : ~(<<y, x>> \in R)
    BY <1>3, WFMin, Zenon
<1>5. ASSUME NEW y \in T PROVE x <= y
  <2>1. <<y, x>> \notin R /\ x \in Nat /\ y \in Nat
      BY <1>4
  <2>2. ~(y < x)
      BY <2>1 DEF R
  <2>. QED
      BY <2>1, <2>2
<1>. QED
    BY <1>5

-----------------------------------------------------------------------------
(* Dht: what a node has seen, and what it keeps. *)

OnNodes(f) == f = [n \in Nodes |-> f[n]]

Entries == {e \in [id : Nodes, at : Nodes \cup {Here}] : e.at \in {e.id, Here}}
GoodTable(tab) == IsFiniteSet(tab) /\ tab \subseteq Entries
TablesGood == OnNodes(table) /\ \A n \in Nodes : GoodTable(table[n])

ClocksTyped == now \in Int /\ skew \in [Nodes -> Int]

(* A datagram names nodes; its host is its sender's own, if it gives one; a *)
(* STORE is as old as the value it carries by its sender's clock; what an   *)
(* answer lists leads home.                                                 *)
Sent(m) ==
    /\ m.from \in Nodes /\ m.to \in Nodes /\ m.ts \in Int
    /\ m.type \in {"PING", "PONG", "FIND_NODE", "STORE"} => m.host \in {m.from, Here}
    /\ m.type = "STORE" => m.born \in Int /\ m.ts = m.born + skew[m.from] /\ m.key \in Keys
    /\ m.type = "NODES" => m.nodes \in Seq(Entries)
AllSent == \A m \in net : Sent(m)

(* A message handled and not excused is remembered, or so old that it would *)
(* be refused for its age; and nothing remembered is ahead of its arrival   *)
(* by more than the window, so that it is not forgotten before.             *)
SeenInWindow ==
    \A n \in Nodes : \A s \in seen[n] :
        s.at \in Int /\ s.key[2] \in Int /\ s.key[2] <= s.at + DhtWindow
RememberedOrOld ==
    \A n \in Nodes : \A k \in handled[n] \ excused[n] :
        /\ k[2] \in Int
        /\ (\E s \in seen[n] : s.key = k) \/ k[2] + DhtWindow < Clock(n)
ReplaysRefused ==
    /\ OnNodes(seen) /\ OnNodes(handled) /\ OnNodes(excused) /\ OnNodes(again)
    /\ SeenInWindow /\ RememberedOrOld /\ HandledOnce

(* A copy's life ends at most the window after its time to live, counted by *)
(* its publisher's clock from when it was stored.                           *)
LifeBounded(c) ==
    /\ c.until \in Int /\ c.born \in Int /\ c.by \in Nodes
    /\ c.until <= c.born + skew[c.by] + Ttl + DhtWindow
StoresBounded ==
    /\ OnNodes(store) /\ \A n \in Nodes : store[n] = [k \in Keys |-> store[n][k]]
    /\ \A n \in Nodes, k \in Keys : \A c \in store[n][k] : LifeBounded(c)

DhtInv == ClocksTyped /\ TablesGood /\ AllSent /\ ReplaysRefused /\ StoresBounded

LEMMA DhtNats == DhtWindow \in Nat /\ Ttl \in Nat /\ K \in Nat /\ Alpha \in Nat
BY DhtAssumption

-----------------------------------------------------------------------------
(* The time window and the messages seen. *)

LEMMA AdmittedOnce ==
    ASSUME DhtInv, NEW m \in net, NEW n \in Nodes, Admit(n, m)
    PROVE  ReplaysRefused'
<1> DEFINE k == SeenKey(m)
           young == {s \in seen[n] : s.at >= Cutoff(n)} \cup {[key |-> k, at |-> Clock(n)]}
<1>1. now' = now /\ skew' = skew /\ m.ts \in Int /\ DhtWindow \in Nat
  BY DhtNats DEF Admit, DhtInv, AllSent, Sent
<1>2. \A p \in Nodes : Clock(p) \in Int /\ Clock(p)' = Clock(p)
  BY <1>1 DEF DhtInv, ClocksTyped, Clock
<1>3. /\ OnNodes(seen) /\ OnNodes(handled) /\ OnNodes(excused) /\ OnNodes(again)
      /\ SeenInWindow /\ RememberedOrOld /\ HandledOnce
  BY DEF DhtInv, ReplaysRefused
<1>4. k[2] = m.ts /\ Clock(n) - m.ts <= DhtWindow /\ m.ts - Clock(n) <= DhtWindow
  BY DEF Admit, InDhtWindow, SeenKey
<1>5. \A s \in seen[n] : s.key # k
  BY DEF Admit
<1>6. PICK Seen, Gone :
        /\ seen' = [seen EXCEPT ![n] = Seen]
        /\ excused' = [excused EXCEPT ![n] = @ \cup Gone]
        /\ Seen \subseteq young
        /\ \A s \in young \ Seen : s.key \in Gone
  <2>1. CASE Cardinality(young) > SeenMax
    <3>1. PICK s \in young : /\ seen' = [seen EXCEPT ![n] = young \ {s}]
                             /\ excused' = [excused EXCEPT ![n] = @ \cup {s.key}]
      BY <2>1, Zenon DEF Admit
    <3> HIDE DEF young
    <3>2. young \ {s} \subseteq young /\ \A r \in young \ (young \ {s}) : r.key \in {s.key}
      OBVIOUS
    <3> QED BY <3>1, <3>2
  <2>2. CASE ~(Cardinality(young) > SeenMax)
    <3>1. seen' = [seen EXCEPT ![n] = young] /\ excused' = excused
      BY <2>2, Zenon DEF Admit
    <3> HIDE DEF young
    <3>2. excused' = [excused EXCEPT ![n] = @ \cup {}]
      BY <3>1, <1>3 DEF OnNodes
    <3>3. young \subseteq young /\ \A r \in young \ young : r.key \in {}
      OBVIOUS
    <3> QED BY <3>1, <3>2, <3>3
  <2> QED BY <2>1, <2>2
<1>7. handled' = [handled EXCEPT ![n] = @ \cup {k}]
  BY DEF Admit
<1>8. again' = [again EXCEPT ![n] = @ \cup ({k} \cap (handled[n] \ excused[n]))]
  BY DEF Admit
<1>9. /\ OnNodes(seen)' /\ OnNodes(handled)' /\ OnNodes(excused)' /\ OnNodes(again)'
      /\ seen'[n] = Seen /\ excused'[n] = excused[n] \cup Gone
      /\ handled'[n] = handled[n] \cup {k}
      /\ again'[n] = again[n] \cup ({k} \cap (handled[n] \ excused[n]))
      /\ \A p \in Nodes \ {n} : /\ seen'[p] = seen[p] /\ excused'[p] = excused[p]
                                /\ handled'[p] = handled[p] /\ again'[p] = again[p]
  BY <1>3, <1>6, <1>7, <1>8 DEF OnNodes
<1>10. \A s \in young : s.at \in Int /\ s.key[2] \in Int /\ s.key[2] <= s.at + DhtWindow
  BY <1>1, <1>2, <1>3, <1>4 DEF SeenInWindow
<1>11. \A s \in seen[n] : s \in young \/ s.key[2] + DhtWindow < Clock(n)
  BY <1>1, <1>2, <1>3 DEF SeenInWindow, Cutoff
<1>12. [key |-> k, at |-> Clock(n)] \in young
  OBVIOUS
<1> HIDE DEF young
<1>13. SeenInWindow'
  BY <1>3, <1>6, <1>9, <1>10, <1>1 DEF SeenInWindow
<1>14. \A j \in handled'[n] \ excused'[n] :
         j[2] \in Int /\ ((\E s \in Seen : s.key = j) \/ j[2] + DhtWindow < Clock(n))
  <2> SUFFICES ASSUME NEW j \in handled'[n] \ excused'[n]
               PROVE  j[2] \in Int /\ ((\E s \in Seen : s.key = j) \/ j[2] + DhtWindow < Clock(n))
    OBVIOUS
  <2>1. j \notin Gone /\ j \notin excused[n] /\ (j = k \/ j \in handled[n])
    BY <1>9
  <2>2. CASE j = k
    BY <1>1, <1>4, <1>6, <1>12, <2>1, <2>2
  <2>3. CASE j \in handled[n]
    <3>1. j[2] \in Int /\ ((\E s \in seen[n] : s.key = j) \/ j[2] + DhtWindow < Clock(n))
      BY <1>3, <2>1, <2>3 DEF RememberedOrOld
    <3> QED BY <3>1, <1>6, <1>11, <2>1
  <2> QED BY <2>1, <2>2, <2>3
<1>15. RememberedOrOld'
  BY <1>1, <1>2, <1>3, <1>9, <1>14 DEF RememberedOrOld
<1>16. k \notin handled[n] \ excused[n]
  BY <1>1, <1>2, <1>3, <1>4, <1>5 DEF RememberedOrOld
<1>17. HandledOnce'
  BY <1>3, <1>9, <1>16 DEF HandledOnce
<1> QED BY <1>9, <1>13, <1>15, <1>17 DEF ReplaysRefused

-----------------------------------------------------------------------------
(* The routing tables. *)

LEMMA AddedGood ==
    ASSUME NEW n, NEW tab, GoodTable(tab), NEW e \in Entries
    PROVE  GoodTable(Added(n, tab, e))
<1>1. IsFiniteSet({d \in tab : d.id # e.id})
  BY FS_Subset DEF GoodTable
<1>2. IsFiniteSet({d \in tab : d.id # e.id} \cup {e})
  BY <1>1, FS_AddElement
<1> QED BY <1>2 DEF Added, GoodTable

LEMMA ListingGood ==
    ASSUME NEW tab, GoodTable(tab), NEW target, NEW count \in Nat,
           NEW list \in Closest(tab, target, count)
    PROVE  list \in Seq(Entries)
<1> DEFINE size == IF Cardinality(tab) < count THEN Cardinality(tab) ELSE count
<1>1. list \in [1..size -> tab]
  BY DEF Closest
<1>2. size \in Nat
  BY FS_CardinalityType DEF GoodTable
<1> HIDE DEF size
<1> QED BY <1>1, <1>2 DEF GoodTable

LEMMA ListedIsGood ==
    ASSUME NEW list \in Seq(Entries), NEW i \in DOMAIN list
    PROVE  list[i] \in Entries
OBVIOUS

(* The entries of an answer, taken one after the other, leave the table     *)
(* good: the function that says what it holds after each of them exists,    *)
(* and its values are good, both by the first number for which they are not.*)
LEMMA AddedInTurnGood ==
    ASSUME NEW n, NEW tab, GoodTable(tab), NEW list \in Seq(Entries)
    PROVE  GoodTable(AddedInTurn(n, tab, list))
<1> DEFINE Next(f, i) == IF i = 0 THEN tab ELSE Added(n, f[i-1], list[i])
           Steps(f, k) == f = [i \in 0..k |-> Next(f, i)]
           Bad == {k \in 0 .. Len(list) : ~ \E f : Steps(f, k)}
<1>1. Len(list) \in Nat /\ \A i \in 1 .. Len(list) : list[i] \in Entries
  OBVIOUS
<1>2. Bad = {}
  <2> SUFFICES ASSUME Bad # {} PROVE FALSE
    OBVIOUS
  <2>1. Bad \subseteq Nat
    BY <1>1
  <2>2. PICK k \in Bad : \A j \in Bad : k <= j
    BY <2>1, LeastNat
  <2>3. k # 0
    <3>1. Steps([i \in 0..0 |-> tab], 0)
      OBVIOUS
    <3> QED BY <3>1
  <2>4. k - 1 \in 0 .. Len(list) /\ k - 1 \notin Bad /\ k \in Nat \ {0}
    <3>1. k \in 0 .. Len(list)
      OBVIOUS
    <3> HIDE DEF Bad
    <3> QED BY <1>1, <2>2, <2>3, <3>1
  <2>5. PICK f : Steps(f, k - 1)
    BY <2>4
  <2> DEFINE g == [i \in 0..k |-> IF i < k THEN f[i] ELSE Added(n, f[k-1], list[k])]
  <2>6. \A i \in 0..k : g[i] = Next(g, i)
    <3> SUFFICES ASSUME NEW i \in 0..k PROVE g[i] = Next(g, i)
      OBVIOUS
    <3>1. CASE i = k
      BY <3>1, <2>4
    <3>2. CASE i # k
      <4>1. i \in 0 .. k-1 /\ g[i] = f[i] /\ (i # 0 => i-1 \in 0..k /\ g[i-1] = f[i-1])
        BY <3>2, <2>4
      <4>2. f[i] = Next(f, i)
        BY <2>5, <4>1
      <4> QED BY <4>1, <4>2
    <3> QED BY <3>1, <3>2
  <2>7. Steps(g, k)
    BY <2>6
  <2> QED BY <2>2, <2>7
<1>3. \E f : Steps(f, Len(list))
  BY <1>1, <1>2
<1> DEFINE T == CHOOSE f : Steps(f, Len(list))
<1>4. Steps(T, Len(list))
  BY <1>3
<1>5. AddedInTurn(n, tab, list) = T[Len(list)]
  BY DEF AddedInTurn
<1> HIDE DEF T
<1> DEFINE Worse == {i \in 0 .. Len(list) : ~GoodTable(T[i])}
<1>6. Worse = {}
  <2> SUFFICES ASSUME Worse # {} PROVE FALSE
    OBVIOUS
  <2>1. PICK k \in Worse : \A j \in Worse : k <= j
    <3>1. Worse \subseteq Nat
      BY <1>1
    <3> QED BY <3>1, LeastNat
  <2>2. T[k] = Next(T, k)
    BY <1>4
  <2>3. k # 0
    BY <2>1, <2>2
  <2>4. k - 1 \in 0 .. Len(list) /\ k - 1 \notin Worse /\ k \in 1 .. Len(list)
    BY <1>1, <2>1, <2>3
  <2>5. GoodTable(Added(n, T[k-1], list[k]))
    BY <1>1, <2>4, AddedGood
  <2> QED BY <2>1, <2>2, <2>3, <2>5
<1> QED BY <1>1, <1>5, <1>6

-----------------------------------------------------------------------------
(* What a step leaves alone, and what it sends. *)

LEMMA AddressIsNode ==
    ASSUME NEW n \in Nodes, NEW e \in Entries
    PROVE  Address(n, e) \in Nodes
BY DEF Address, Entries

LEMMA ClockTyped ==
    ASSUME ClocksTyped, NEW n \in Nodes
    PROVE  Clock(n) \in Int /\ Clock(n) = now + skew[n]
BY DEF ClocksTyped, Clock

LEMMA SameClocks ==
    ASSUME ClocksTyped, now' = now, skew' = skew
    PROVE  /\ ClocksTyped'
           /\ \A n \in Nodes : Clock(n)' = Clock(n)
           /\ \A m : Sent(m) => Sent(m)'
           /\ \A c : LifeBounded(c) => LifeBounded(c)'
BY DEF ClocksTyped, Clock, Sent, LifeBounded

LEMMA SameSeenKeeps ==
    ASSUME DhtInv, seen' = seen, handled' = handled, excused' = excused, again' = again,
           now' = now, skew' = skew
    PROVE  ReplaysRefused'
<1>1. \A n \in Nodes : Clock(n)' = Clock(n)
  BY SameClocks DEF DhtInv
<1> QED BY <1>1 DEF DhtInv, ReplaysRefused, OnNodes, SeenInWindow, RememberedOrOld, HandledOnce

LEMMA TableSetKeeps ==
    ASSUME DhtInv, NEW n \in Nodes, NEW tab, GoodTable(tab),
           table' = [table EXCEPT ![n] = tab]
    PROVE  TablesGood'
BY DEF DhtInv, TablesGood, OnNodes

LEMMA SentKeeps ==
    ASSUME DhtInv, now' = now, skew' = skew, NEW new, net' = net \cup new,
           \A m \in new : Sent(m)
    PROVE  AllSent'
BY SameClocks DEF DhtInv, AllSent

LEMMA SameNetKeeps ==
    ASSUME DhtInv, now' = now, skew' = skew, net' = net
    PROVE  AllSent'
BY SameClocks DEF DhtInv, AllSent

LEMMA SameStoreKeeps ==
    ASSUME DhtInv, now' = now, skew' = skew, store' = store
    PROVE  StoresBounded'
BY SameClocks DEF DhtInv, StoresBounded, OnNodes

LEMMA StoreSetKeeps ==
    ASSUME DhtInv, now' = now, skew' = skew, NEW n \in Nodes, NEW k \in Keys, NEW c,
           LifeBounded(c), store' = [store EXCEPT ![n][k] = {c}]
    PROVE  StoresBounded'
<1>1. OnNodes(store) /\ \A p \in Nodes : store[p] = [j \in Keys |-> store[p][j]]
  BY DEF DhtInv, StoresBounded
<1>2. /\ OnNodes(store')
      /\ \A p \in Nodes : store'[p] = [j \in Keys |-> store'[p][j]]
      /\ \A p \in Nodes, j \in Keys :
            store'[p][j] = IF p = n /\ j = k THEN {c} ELSE store[p][j]
  BY <1>1 DEF OnNodes
<1>3. \A p \in Nodes, j \in Keys : \A d \in store'[p][j] : LifeBounded(d)
  BY <1>2 DEF DhtInv, StoresBounded
<1> QED BY <1>2, <1>3, SameClocks DEF DhtInv, StoresBounded, OnNodes

LEMMA MetGood ==
    ASSUME DhtInv, NEW m \in net, m.type \in {"PING", "FIND_NODE", "STORE", "PONG"},
           NEW n \in Nodes
    PROVE  /\ GoodTable(Met(n, m))
           /\ GoodTable(Added(n, table[n], [id |-> m.from, at |-> m.host]))
<1>1. GoodTable(table[n]) /\ [id |-> m.from, at |-> m.host] \in Entries
  BY DEF DhtInv, TablesGood, AllSent, Sent, Entries
<1> QED BY <1>1, AddedGood DEF Met

-----------------------------------------------------------------------------
(* The steps of a node's own. *)

LEMMA AskSent ==
    ASSUME DhtInv, NEW n \in Nodes, NEW to \in Nodes
    PROVE  Sent(Ask(n, to))
BY ClockTyped, DhtAssumption DEF DhtInv, Sent, Ask

LEMMA FindSent ==
    ASSUME DhtInv, NEW n \in Nodes, NEW to \in Nodes, NEW target
    PROVE  /\ Sent(Find(n, to, target))
           /\ \A no : Sent([Find(n, to, target) EXCEPT !.no = no])
BY ClockTyped, DhtAssumption DEF DhtInv, Sent, Find

LEMMA PingKeeps ==
    ASSUME DhtInv, NEW n \in Nodes, NEW to \in Nodes, Ping(n, to)
    PROVE  DhtInv'
<1>1. /\ now' = now /\ skew' = skew /\ seen' = seen /\ handled' = handled
      /\ excused' = excused /\ again' = again /\ table' = table /\ store' = store
      /\ net' = net \cup {Ask(n, to)}
  BY DEF Ping, Silent
<1>2. AllSent'
  <2> DEFINE new == {Ask(n, to)}
  <2>1. net' = net \cup new /\ \A m \in new : Sent(m)
    BY <1>1, AskSent
  <2> HIDE DEF new
  <2> QED BY <1>1, <2>1, SentKeeps
<1>3. TablesGood'
  BY <1>1 DEF DhtInv, TablesGood, OnNodes
<1> QED BY <1>1, <1>2, <1>3, SameClocks, SameSeenKeeps, SameStoreKeeps DEF DhtInv

LEMMA JoinKeeps ==
    ASSUME DhtInv, NEW n \in Nodes, NEW to \in Nodes, Join(n, to)
    PROVE  DhtInv'
<1>1. /\ now' = now /\ skew' = skew /\ seen' = seen /\ handled' = handled
      /\ excused' = excused /\ again' = again /\ store' = store
      /\ net' = net \cup {Ask(n, to), [Find(n, to, n) EXCEPT !.no = <<n, signed[n] + 2>>]}
      /\ table' = [table EXCEPT ![n] = Added(n, table[n], [id |-> to, at |-> to])]
  BY DEF Join, Silent
<1>3. AllSent'
  <2> DEFINE new == {Ask(n, to), [Find(n, to, n) EXCEPT !.no = <<n, signed[n] + 2>>]}
  <2>1. net' = net \cup new /\ \A m \in new : Sent(m)
    BY <1>1, AskSent, FindSent
  <2> HIDE DEF new
  <2> QED BY <1>1, <2>1, SentKeeps
<1>4. GoodTable(table[n]) /\ [id |-> to, at |-> to] \in Entries
  BY DEF DhtInv, TablesGood, Entries
<1>5. TablesGood'
  BY <1>1, <1>4, AddedGood, TableSetKeeps
<1> QED BY <1>1, <1>3, <1>5, SameClocks, SameSeenKeeps, SameStoreKeeps DEF DhtInv

LEMMA QueryKeeps ==
    ASSUME DhtInv, NEW n \in Nodes, Query(n)
    PROVE  DhtInv'
<1>1. /\ now' = now /\ skew' = skew /\ seen' = seen /\ handled' = handled
      /\ excused' = excused /\ again' = again /\ store' = store /\ table' = table
  BY DEF Query, Silent
<1>2. PICK near \in Closest(table[n], n, Alpha) :
         IF near = <<>> THEN UNCHANGED <<signed, net>>
         ELSE /\ Sign(n)
              /\ net' = net \cup {Find(n, Address(n, near[i]), n) : i \in DOMAIN near}
  BY Zenon DEF Query
<1>3. near \in Seq(Entries)
  <2>1. GoodTable(table[n])
    BY DEF DhtInv, TablesGood
  <2> QED BY <2>1, ListingGood, DhtNats
<1>4. \A i \in DOMAIN near : Address(n, near[i]) \in Nodes
  BY <1>3, ListedIsGood, AddressIsNode
<1>5. AllSent'
  <2>1. CASE near = <<>>
    <3>1. net' = net
      BY <1>2, <2>1
    <3> QED BY <1>1, <3>1, SameNetKeeps
  <2>2. CASE near # <<>>
    <3> DEFINE new == {Find(n, Address(n, near[i]), n) : i \in DOMAIN near}
    <3>1. net' = net \cup new
      BY <1>2, <2>2
    <3>2. \A m \in new : Sent(m)
      BY <1>4, FindSent
    <3> HIDE DEF new
    <3> QED BY <1>1, <3>1, <3>2, SentKeeps
  <2> QED BY <2>1, <2>2
<1>6. TablesGood'
  BY <1>1 DEF DhtInv, TablesGood, OnNodes
<1> QED BY <1>1, <1>5, <1>6, SameClocks, SameSeenKeeps, SameStoreKeeps DEF DhtInv

LEMMA StoreKeeps ==
    ASSUME DhtInv, NEW n \in Nodes, NEW k \in Keys, NEW v, Store(n, k, v)
    PROVE  DhtInv'
<1> DEFINE copy == [value |-> v, until |-> Expiry(n), by |-> n, born |-> now]
           Message(to) == [type |-> "STORE", from |-> n, to |-> to, ts |-> Clock(n),
                           no |-> Nonce(n), host |-> Advertised[n], key |-> k,
                           value |-> v, born |-> now]
<1>1. /\ now' = now /\ skew' = skew /\ seen' = seen /\ handled' = handled
      /\ excused' = excused /\ again' = again /\ table' = table
      /\ store' = [store EXCEPT ![n][k] = {copy}]
  BY DEF Store, Silent
<1>2. Clock(n) \in Int /\ Clock(n) = now + skew[n] /\ now \in Int
  BY ClockTyped DEF DhtInv, ClocksTyped
<1>3. LifeBounded(copy)
  BY <1>2, DhtNats DEF LifeBounded, Expiry, DhtInv, ClocksTyped
<1>4. StoresBounded'
  BY <1>1, <1>3, StoreSetKeeps
<1>5. \A to \in Nodes : Sent(Message(to))
  BY <1>2, DhtAssumption DEF Sent
<1>6. AllSent'
  <2>1. CASE k \in HexKeys
    <3>1. PICK near \in Closest(table[n], n, K) :
            net' = net \cup {Message(Address(n, near[i])) : i \in DOMAIN near}
      BY <2>1, Zenon DEF Store
    <3>2. near \in Seq(Entries)
      <4>1. GoodTable(table[n])
        BY DEF DhtInv, TablesGood
      <4> QED BY <4>1, ListingGood, DhtNats
    <3>3. \A i \in DOMAIN near : Address(n, near[i]) \in Nodes
      BY <3>2, ListedIsGood, AddressIsNode
    <3> DEFINE new == {Message(Address(n, near[i])) : i \in DOMAIN near}
    <3> HIDE DEF Message
    <3>4. \A m \in new : Sent(m)
      BY <1>5, <3>3
    <3>5. net' = net \cup new
      BY <3>1
    <3> HIDE DEF new
    <3> QED BY <1>1, <3>4, <3>5, SentKeeps
  <2>2. CASE k \notin HexKeys
    <3>1. net' = net
      BY <2>2 DEF Store
    <3> QED BY <1>1, <3>1, SameNetKeeps
  <2> QED BY <2>1, <2>2
<1>7. TablesGood'
  BY <1>1 DEF DhtInv, TablesGood, OnNodes
<1> QED BY <1>1, <1>4, <1>6, <1>7, SameClocks, SameSeenKeeps DEF DhtInv

-----------------------------------------------------------------------------
(* The handlers. *)

LEMMA PingHandled ==
    ASSUME DhtInv, NEW m \in net, NEW n \in Nodes, HandlePing(n, m)
    PROVE  DhtInv'
<1> DEFINE pong == [type |-> "PONG", from |-> n, to |-> m.from, ts |-> Clock(n),
                    no |-> m.no, host |-> Advertised[n]]
<1>1. /\ Admit(n, m) /\ m.type = "PING" /\ table' = [table EXCEPT ![n] = Met(n, m)]
      /\ net' = net \cup {pong} /\ store' = store
  BY DEF HandlePing
<1>2. now' = now /\ skew' = skew /\ ReplaysRefused'
  BY <1>1, AdmittedOnce DEF Admit
<1>3. Sent(pong)
  BY ClockTyped, DhtAssumption DEF DhtInv, AllSent, Sent
<1>4. AllSent'
  <2> DEFINE new == {pong}
  <2>1. net' = net \cup new /\ \A p \in new : Sent(p)
    BY <1>1, <1>3
  <2> HIDE DEF new
  <2> QED BY <1>2, <2>1, SentKeeps
<1>5. TablesGood'
  BY <1>1, MetGood, TableSetKeeps
<1> QED BY <1>1, <1>2, <1>4, <1>5, SameClocks, SameStoreKeeps DEF DhtInv

LEMMA PongHandled ==
    ASSUME DhtInv, NEW m \in net, NEW n \in Nodes, HandlePong(n, m)
    PROVE  DhtInv'
<1>1. /\ Admit(n, m) /\ m.type = "PONG" /\ net' = net /\ store' = store
      /\ table' = [table EXCEPT ![n] = Added(n, table[n], [id |-> m.from, at |-> m.host])]
  BY DEF HandlePong
<1>2. now' = now /\ skew' = skew /\ ReplaysRefused'
  BY <1>1, AdmittedOnce DEF Admit
<1>3. TablesGood'
  BY <1>1, MetGood, TableSetKeeps
<1> QED BY <1>1, <1>2, <1>3, SameClocks, SameNetKeeps, SameStoreKeeps DEF DhtInv

LEMMA FindNodeHandled ==
    ASSUME DhtInv, NEW m \in net, NEW n \in Nodes, HandleFindNode(n, m)
    PROVE  DhtInv'
<1> DEFINE reply(nodes) == [type |-> "NODES", from |-> n, to |-> m.from,
                             ts |-> Clock(n), no |-> Nonce(n), nodes |-> nodes]
<1>1. /\ Admit(n, m) /\ m.type = "FIND_NODE" /\ table' = [table EXCEPT ![n] = Met(n, m)]
      /\ store' = store
  BY DEF HandleFindNode
<1>2. now' = now /\ skew' = skew /\ ReplaysRefused'
  BY <1>1, AdmittedOnce DEF Admit
<1>3. GoodTable(Met(n, m))
  BY <1>1, MetGood
<1>4. PICK nodes \in Closest(Met(n, m), m.target, K) :
         net' = net \/ net' = net \cup {reply(nodes)}
  BY Zenon DEF HandleFindNode
<1>5. nodes \in Seq(Entries)
  BY <1>3, ListingGood, DhtNats
<1>6. Sent(reply(nodes))
  BY <1>5, ClockTyped DEF DhtInv, AllSent, Sent
<1>7. AllSent'
  <2> DEFINE new == {reply(nodes)}
  <2>1. \A p \in new : Sent(p)
    BY <1>6
  <2>2. net' = net \/ net' = net \cup new
    BY <1>4
  <2> HIDE DEF new
  <2> QED BY <1>2, <2>1, <2>2, SentKeeps, SameNetKeeps
<1>8. TablesGood'
  BY <1>1, <1>3, TableSetKeeps
<1> QED BY <1>1, <1>2, <1>7, <1>8, SameClocks, SameStoreKeeps DEF DhtInv

LEMMA NodesHandled ==
    ASSUME DhtInv, NEW m \in net, NEW n \in Nodes, HandleNodes(n, m)
    PROVE  DhtInv'
<1> DEFINE sender == [id |-> m.from, at |-> Here]
           list == [i \in DOMAIN m.nodes |-> Learned(n, m, m.nodes[i])]
<1>1. /\ Admit(n, m) /\ m.type = "NODES" /\ net' = net /\ store' = store
      /\ table' = [table EXCEPT ![n] = AddedInTurn(n, Added(n, table[n], sender), list)]
  BY DEF HandleNodes
<1>2. now' = now /\ skew' = skew /\ ReplaysRefused'
  BY <1>1, AdmittedOnce DEF Admit
<1>3. m.nodes \in Seq(Entries) /\ sender \in Entries
  BY <1>1 DEF DhtInv, AllSent, Sent, Entries
<1>4. list \in Seq(Entries)
  BY <1>3 DEF Learned
<1>5. GoodTable(Added(n, table[n], sender))
  BY <1>3, AddedGood DEF DhtInv, TablesGood
<1> HIDE DEF list, sender
<1>6. TablesGood'
  BY <1>1, <1>4, <1>5, AddedInTurnGood, TableSetKeeps
<1> QED BY <1>1, <1>2, <1>6, SameClocks, SameNetKeeps, SameStoreKeeps DEF DhtInv

LEMMA StoreHandled ==
    ASSUME DhtInv, NEW m \in net, NEW n \in Nodes, HandleStore(n, m)
    PROVE  DhtInv'
<1> DEFINE copy == [value |-> m.value, until |-> Expiry(n), by |-> m.from, born |-> m.born]
           ack == [type |-> "STORE_ACK", from |-> n, to |-> m.from,
                   ts |-> Clock(n), no |-> Nonce(n), key |-> m.key]
<1>1. /\ Admit(n, m) /\ m.type = "STORE" /\ table' = [table EXCEPT ![n] = Met(n, m)]
      /\ \/ store' = [store EXCEPT ![n][m.key] = {copy}] /\ net' = net \cup {ack}
         \/ store' = store /\ net' = net
  BY DEF HandleStore
<1>2. now' = now /\ skew' = skew /\ ReplaysRefused' /\ InDhtWindow(n, m)
  BY <1>1, AdmittedOnce DEF Admit
<1>3. /\ m.from \in Nodes /\ m.born \in Int /\ m.ts = m.born + skew[m.from] /\ m.key \in Keys
      /\ Clock(n) \in Int /\ skew[m.from] \in Int
  BY <1>1, ClockTyped DEF DhtInv, AllSent, Sent, ClocksTyped
<1>4. LifeBounded(copy)
  BY <1>2, <1>3, DhtNats DEF LifeBounded, Expiry, InDhtWindow
<1>5. Sent(ack)
  BY <1>3 DEF Sent
<1>6. StoresBounded'
  <2> HIDE DEF copy
  <2> QED BY <1>1, <1>2, <1>3, <1>4, StoreSetKeeps, SameStoreKeeps
<1>7. AllSent'
  <2> DEFINE new == {ack}
  <2>1. \A p \in new : Sent(p)
    BY <1>5
  <2>2. net' = net \/ net' = net \cup new
    BY <1>1
  <2> HIDE DEF new
  <2> QED BY <1>2, <2>1, <2>2, SentKeeps, SameNetKeeps
<1>8. TablesGood'
  BY <1>1, MetGood, TableSetKeeps
<1> QED BY <1>2, <1>6, <1>7, <1>8, SameClocks DEF DhtInv

LEMMA StoreAckHandled ==
    ASSUME DhtInv, NEW m \in net, NEW n \in Nodes, HandleStoreAck(n, m)
    PROVE  DhtInv'
<1> DEFINE sender == [id |-> m.from, at |-> Here]
<1>1. /\ Admit(n, m) /\ net' = net /\ store' = store
      /\ table' = [table EXCEPT ![n] = Added(n, table[n], sender)]
  BY DEF HandleStoreAck
<1>2. now' = now /\ skew' = skew /\ ReplaysRefused'
  BY <1>1, AdmittedOnce DEF Admit
<1>3. sender \in Entries
  BY DEF DhtInv, AllSent, Sent, Entries
<1>4. GoodTable(Added(n, table[n], sender))
  BY <1>3, AddedGood DEF DhtInv, TablesGood
<1> HIDE DEF sender
<1>5. TablesGood'
  BY <1>1, <1>4, TableSetKeeps
<1> QED BY <1>1, <1>2, <1>5, SameClocks, SameNetKeeps, SameStoreKeeps DEF DhtInv

-----------------------------------------------------------------------------
(* The administrators, a restart and the clock. *)

LEMMA SameNodeKeeps ==
    ASSUME DhtInv,
           UNCHANGED <<table, store, seen, net, now, skew, handled, excused, again>>
    PROVE  DhtInv'
<1>1. TablesGood'
  BY DEF DhtInv, TablesGood, OnNodes
<1> QED BY <1>1, SameClocks, SameSeenKeeps, SameNetKeeps, SameStoreKeeps DEF DhtInv

LEMMA RemoveKeeps ==
    ASSUME DhtInv, NEW n \in Nodes, NEW m, RemoveNode(n, m)
    PROVE  DhtInv'
<1> DEFINE tab == {e \in table[n] : e.id # m}
<1>1. /\ now' = now /\ skew' = skew /\ seen' = seen /\ handled' = handled
      /\ excused' = excused /\ again' = again /\ store' = store /\ net' = net
      /\ table' = [table EXCEPT ![n] = tab]
  BY DEF RemoveNode, Silent
<1>2. GoodTable(tab)
  <2>1. GoodTable(table[n]) /\ tab \subseteq table[n]
    BY DEF DhtInv, TablesGood
  <2> QED BY <2>1, FS_Subset DEF GoodTable
<1> HIDE DEF tab
<1>3. TablesGood'
  BY <1>1, <1>2, TableSetKeeps
<1> QED BY <1>1, <1>3, SameClocks, SameSeenKeeps, SameNetKeeps, SameStoreKeeps DEF DhtInv

LEMMA RestartKeeps ==
    ASSUME DhtInv, NEW n \in Nodes, DhtRestart(n)
    PROVE  DhtInv'
<1>1. /\ now' = now /\ skew' = skew /\ net' = net /\ handled' = handled /\ again' = again
      /\ table' = [table EXCEPT ![n] = {}]
      /\ store' = [store EXCEPT ![n] = [k \in Keys |-> {}]]
      /\ seen' = [seen EXCEPT ![n] = {}]
      /\ excused' = [excused EXCEPT ![n] = @ \cup handled[n]]
  BY DEF DhtRestart
<1>2. TablesGood'
  <2>1. GoodTable({})
    BY FS_EmptySet DEF GoodTable
  <2> QED BY <1>1, <2>1, TableSetKeeps
<1>3. StoresBounded'
  <2>1. OnNodes(store) /\ \A p \in Nodes : store[p] = [j \in Keys |-> store[p][j]]
    BY DEF DhtInv, StoresBounded
  <2>2. /\ OnNodes(store')
        /\ \A p \in Nodes : store'[p] = IF p = n THEN [k \in Keys |-> {}] ELSE store[p]
    BY <1>1, <2>1 DEF OnNodes
  <2>3. \A p \in Nodes : store'[p] = [j \in Keys |-> store'[p][j]]
    BY <2>1, <2>2
  <2>4. \A p \in Nodes, j \in Keys : \A c \in store'[p][j] : LifeBounded(c)
    BY <2>2 DEF DhtInv, StoresBounded
  <2> QED BY <1>1, <2>2, <2>3, <2>4, SameClocks DEF DhtInv, StoresBounded, OnNodes
<1>4. ReplaysRefused'
  <2>1. /\ OnNodes(seen) /\ OnNodes(handled) /\ OnNodes(excused) /\ OnNodes(again)
        /\ SeenInWindow /\ RememberedOrOld /\ HandledOnce
    BY DEF DhtInv, ReplaysRefused
  <2>2. /\ OnNodes(seen)' /\ OnNodes(handled)' /\ OnNodes(excused)' /\ OnNodes(again)'
        /\ seen'[n] = {} /\ excused'[n] = excused[n] \cup handled[n]
        /\ \A p \in Nodes \ {n} : seen'[p] = seen[p] /\ excused'[p] = excused[p]
    BY <1>1, <2>1 DEF OnNodes
  <2>3. \A p \in Nodes : Clock(p)' = Clock(p)
    BY <1>1, SameClocks DEF DhtInv
  <2>4. SeenInWindow'
    BY <2>1, <2>2 DEF SeenInWindow
  <2>5. RememberedOrOld'
    BY <1>1, <2>1, <2>2, <2>3 DEF RememberedOrOld
  <2> QED BY <1>1, <2>1, <2>2, <2>4, <2>5 DEF ReplaysRefused, HandledOnce
<1> QED BY <1>1, <1>2, <1>3, <1>4, SameClocks, SameNetKeeps DEF DhtInv

LEMMA TickKeeps ==
    ASSUME DhtInv, DhtTick
    PROVE  DhtInv'
<1>1. /\ now' = now + 1 /\ skew' = skew /\ net' = net /\ table' = table /\ store' = store
      /\ seen' = seen /\ handled' = handled /\ excused' = excused /\ again' = again
  BY DEF DhtTick
<1>2. ClocksTyped' /\ \A n \in Nodes : /\ Clock(n) \in Int /\ Clock(n)' = Clock(n) + 1
  BY <1>1 DEF DhtInv, ClocksTyped, Clock
<1>3. TablesGood'
  BY <1>1 DEF DhtInv, TablesGood, OnNodes
<1>4. AllSent'
  BY <1>1 DEF DhtInv, AllSent, Sent
<1>5. StoresBounded'
  BY <1>1 DEF DhtInv, StoresBounded, OnNodes, LifeBounded
<1>6. ReplaysRefused'
  <2>1. SeenInWindow' /\ HandledOnce'
    BY <1>1 DEF DhtInv, ReplaysRefused, SeenInWindow, HandledOnce
  <2>2. RememberedOrOld'
    BY <1>1, <1>2, DhtNats DEF DhtInv, ReplaysRefused, RememberedOrOld
  <2> QED BY <1>1, <2>1, <2>2 DEF DhtInv, ReplaysRefused, OnNodes
<1> QED BY <1>2, <1>3, <1>4, <1>5, <1>6 DEF DhtInv

LEMMA DhtStepsKeep ==
    ASSUME DhtInv, [DhtNext]_dhtVars
    PROVE  DhtInv'
<1>1. ASSUME NEW n \in Nodes, NEW m \in Nodes, Join(n, m)
      PROVE  DhtInv'
  BY <1>1, JoinKeeps
<1>2. ASSUME NEW n \in Nodes, Query(n) \/ DhtRestart(n)
      PROVE  DhtInv'
  BY <1>2, QueryKeeps, RestartKeeps
<1>3. ASSUME NEW n \in Nodes, NEW k \in Keys, NEW v \in Values, Store(n, k, v)
      PROVE  DhtInv'
  BY <1>3, StoreKeeps
<1>4. ASSUME NEW n \in Commanded, NEW m, SetHidden(n) \/ SetWhitelist(n, m)
      PROVE  DhtInv'
  BY <1>4, SameNodeKeeps DEF SetHidden, SetWhitelist, Silent
<1>5. ASSUME NEW n \in Commanded, NEW m \in Nodes, Ping(n, m) \/ RemoveNode(n, m)
      PROVE  DhtInv'
  BY <1>5, PingKeeps, RemoveKeeps, DhtAssumption
<1>6. ASSUME NEW m \in net,
             \/ HandlePing(m.to, m) \/ HandlePong(m.to, m) \/ HandleFindNode(m.to, m)
             \/ HandleNodes(m.to, m) \/ HandleStore(m.to, m) \/ HandleStoreAck(m.to, m)
      PROVE  DhtInv'
  <2>1. m.to \in Nodes
    BY DEF DhtInv, AllSent, Sent
  <2> QED BY <1>6, <2>1, PingHandled, PongHandled, FindNodeHandled, NodesHandled, StoreHandled,
             StoreAckHandled
<1>7. CASE DhtTick
  BY <1>7, TickKeeps
<1>8. CASE UNCHANGED dhtVars
  BY <1>8, SameNodeKeeps DEF dhtVars
<1> QED BY <1>1, <1>2, <1>3, <1>4, <1>5, <1>6, <1>7, <1>8, Zenon DEF DhtNext

LEMMA DhtStarts == DhtInit => DhtInv
<1> SUFFICES ASSUME DhtInit PROVE DhtInv
  OBVIOUS
<1>1. now = 0 /\ skew \in [Nodes -> Int] /\ net = {}
  BY DhtAssumption DEF DhtInit
<1>2. /\ OnNodes(table) /\ OnNodes(store) /\ OnNodes(seen) /\ OnNodes(handled)
      /\ OnNodes(excused) /\ OnNodes(again)
  BY DEF DhtInit, OnNodes
<1>3. TablesGood
  BY <1>2, FS_EmptySet DEF DhtInit, TablesGood, GoodTable
<1>4. ReplaysRefused
  BY <1>2 DEF DhtInit, ReplaysRefused, SeenInWindow, RememberedOrOld, HandledOnce
<1>5. StoresBounded
  BY <1>2 DEF DhtInit, StoresBounded
<1> QED BY <1>1, <1>3, <1>4, <1>5 DEF DhtInv, ClocksTyped, AllSent

LEMMA DhtInvAlways == DhtSpec => []DhtInv
BY DhtStarts, DhtStepsKeep, PTL DEF DhtSpec

(* A datagram is handled once by each node, however often the network       *)
(* delivers it and however far its sender's clock is ahead, for every       *)
(* window, every size of the cache and every number of nodes: it is         *)
(* forgotten only when it would be refused for its age, or with an excuse.  *)
THEOREM DatagramsHandledOnce == DhtSpec => []HandledOnce
<1>1. DhtInv => HandledOnce
  BY DEF DhtInv, ReplaysRefused
<1> QED BY <1>1, DhtInvAlways, PTL

(* An entry of a table leads to the node it is about or back to the machine *)
(* that sends, through however many tables it was handed on.                *)
THEOREM EntriesLeadHome == DhtSpec => []EntryLeadsHome
<1>1. DhtInv => EntryLeadsHome
  BY DEF DhtInv, TablesGood, GoodTable, Entries, EntryLeadsHome
<1> QED BY <1>1, DhtInvAlways, PTL

(* What a node gives out is no older than its time to live and the delay    *)
(* the window tolerates between the publisher's clock and its own.          *)
THEOREM ValuesStayYoung == DhtSpec => []ValuesAreYoung
<1>1. DhtInv => ValuesAreYoung
  <2> SUFFICES ASSUME DhtInv, NEW n \in Nodes, NEW k \in Keys, NEW c \in store[n][k],
                      c.until > Clock(n)
               PROVE  now - c.born <= Ttl + DhtWindow + skew[c.by] - skew[n]
    BY DEF ValuesAreYoung
  <2>1. LifeBounded(c) /\ now \in Int /\ skew \in [Nodes -> Int]
    BY DEF DhtInv, StoresBounded, ClocksTyped
  <2> QED BY <2>1, DhtNats DEF LifeBounded, Clock
<1> QED BY <1>1, DhtInvAlways, PTL

=============================================================================
