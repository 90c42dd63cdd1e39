--------------------------- MODULE ReplayGuardProofs ---------------------------
(***************************************************************************)
(* The replay protection implements NonceRegister for any number of        *)
(* threads and nonces, any window, and any size of the cache.              *)
(***************************************************************************)
EXTENDS ReplayGuard, FiniteSetTheorems, TLAPS

LEMMA StepCases ==
    ASSUME Next
    PROVE  \/ Tick
           \/ \E t \in Threads, n \in Nonces : RefuseCached(t, n)
           \/ \E t \in Threads, n \in Nonces, s \in InWindow : Begin(t, n, s)
           \/ \E t \in Threads : Select(t)
           \/ \E t \in Threads : RefuseSeen(t)
           \/ \E t \in Threads : Insert(t)
           \/ \E t \in Threads : InsertFails(t)
           \/ \E t \in Threads : Remember(t)
           \/ ClearCache
           \/ Restart
BY DEF Next, Call

\* Trimming leaves a part of the cache.
LEMMA TrimmedPart ==
    ASSUME TypeOK, NEW S \in Trimmed
    PROVE  S \subseteq cache
BY DEF Trimmed, TypeOK

LEMMA TypeStep ==
    ASSUME TypeOK, Next
    PROVE  TypeOK'
<1> USE TimeAssumption, WindowAssumption DEF TypeOK, Times, Steps
<1>1. CASE Tick
    BY <1>1 DEF Tick
<1>2. CASE \E t \in Threads, n \in Nonces : RefuseCached(t, n)
    BY <1>2 DEF RefuseCached
<1>3. CASE \E t \in Threads, n \in Nonces, s \in InWindow : Begin(t, n, s)
    BY <1>3, TrimmedPart DEF Begin, InWindow
<1>4. CASE \E t \in Threads : Select(t)
    BY <1>4 DEF Select
<1>5. CASE \E t \in Threads : RefuseSeen(t)
    BY <1>5 DEF RefuseSeen, Returns
<1>6. CASE \E t \in Threads : Insert(t)
    <2>1. PICK t \in Threads : Insert(t)
        BY <1>6
    <2> DEFINE rows == [table EXCEPT ![req[t]] = clock[t]]
    <2>2. rows \in [Nonces -> Times \cup {NoTime}] /\ clock[t] \in Times
        OBVIOUS
    <2>3. Pruned(rows, clock[t]) \in [Nonces -> Times \cup {NoTime}]
        BY <2>2 DEF Pruned
    <2>4. table' \in {rows, Pruned(rows, clock[t])}
        BY <2>1 DEF Insert
    <2> HIDE DEF rows
    <2>5. table' \in [Nonces -> Times \cup {NoTime}]
        BY <2>2, <2>3, <2>4
    <2> QED
        BY <2>1, <2>5 DEF Insert
<1>7. CASE \E t \in Threads : InsertFails(t)
    BY <1>7 DEF InsertFails, Returns
<1>8. CASE \E t \in Threads : Remember(t)
    BY <1>8 DEF Remember, Returns
<1>9. CASE ClearCache
    BY <1>9 DEF ClearCache
<1>10. CASE Restart
    BY <1>10 DEF Restart, Pruned
<1> QED
    BY <1>1, <1>2, <1>3, <1>4, <1>5, <1>6, <1>7, <1>8, <1>9, <1>10,
       StepCases

\* The cache and the table only ever know used nonces.
LEMMA RecordStep ==
    ASSUME TypeOK, RecordInv, Next
    PROVE  RecordInv'
<1> USE TimeAssumption DEF TypeOK, RecordInv, Steps
<1>1. CASE Tick
    BY <1>1 DEF Tick
<1>2. CASE \E t \in Threads, n \in Nonces : RefuseCached(t, n)
    BY <1>2 DEF RefuseCached
<1>3. CASE \E t \in Threads, n \in Nonces, s \in InWindow : Begin(t, n, s)
    BY <1>3, TrimmedPart DEF Begin
<1>4. CASE \E t \in Threads : Select(t)
    BY <1>4 DEF Select
<1>5. CASE \E t \in Threads : RefuseSeen(t)
    BY <1>5 DEF RefuseSeen, Returns
<1>6. CASE \E t \in Threads : Insert(t)
    <2>1. PICK t \in Threads : Insert(t)
        BY <1>6
    <2>2. now # NoTime /\ ts[t] # NoTime /\ clock[t] # NoTime
        BY DEF Times
    <2>3. \A n \in Nonces : table'[n] # NoTime => n = req[t] \/ table[n] # NoTime
        BY <2>1 DEF Insert, Pruned
    <2>4. /\ granted' = [granted EXCEPT ![req[t]] = now]
          /\ stamp' = [stamp EXCEPT ![req[t]] = ts[t]]
        BY <2>1 DEF Insert
    <2> QED
        BY <2>1, <2>2, <2>3, <2>4 DEF Insert
<1>7. CASE \E t \in Threads : InsertFails(t)
    BY <1>7 DEF InsertFails, Returns
<1>8. CASE \E t \in Threads : Remember(t)
    BY <1>8 DEF Remember, Returns
<1>9. CASE ClearCache
    BY <1>9 DEF ClearCache
<1>10. CASE Restart
    BY <1>10 DEF Restart, Pruned
<1> QED
    BY <1>1, <1>2, <1>3, <1>4, <1>5, <1>6, <1>7, <1>8, <1>9, <1>10,
       StepCases

\* A running call began at most Slack ago, with a message in the window, and
\* a row is at most Slack older than its grant.
LEMMA TimeStep ==
    ASSUME TypeOK, TimeInv, Next
    PROVE  TimeInv'
<1> USE TimeAssumption, WindowAssumption
    DEF TypeOK, TimeInv, Steps, Running, Times
<1>1. CASE Tick
    BY <1>1 DEF Tick
<1>2. CASE \E t \in Threads, n \in Nonces : RefuseCached(t, n)
    BY <1>2 DEF RefuseCached
<1>3. CASE \E t \in Threads, n \in Nonces, s \in InWindow : Begin(t, n, s)
    BY <1>3 DEF Begin, InWindow
<1>4. CASE \E t \in Threads : Select(t)
    BY <1>4 DEF Select
<1>5. CASE \E t \in Threads : RefuseSeen(t)
    BY <1>5 DEF RefuseSeen, Returns
<1>6. CASE \E t \in Threads : Insert(t)
    <2>1. PICK t \in Threads : Insert(t)
        BY <1>6
    <2>2. clock[t] \in Times /\ now <= clock[t] + Slack /\ ts[t] <= clock[t] + Window
        BY <2>1 DEF Insert
    <2>3. \A n \in Nonces : table'[n] # NoTime =>
             /\ table'[n] <= now
             /\ granted'[n] <= table'[n] + Slack
             /\ stamp'[n] <= table'[n] + Window
        <3> SUFFICES ASSUME NEW n \in Nonces, table'[n] # NoTime
                     PROVE  /\ table'[n] <= now
                            /\ granted'[n] <= table'[n] + Slack
                            /\ stamp'[n] <= table'[n] + Window
            OBVIOUS
        <3>1. CASE n = req[t]
            <4>1. table'[n] = clock[t] /\ granted'[n] = now /\ stamp'[n] = ts[t]
                BY <2>1, <2>2, <3>1 DEF Insert, Pruned
            <4> QED
                BY <2>1, <2>2, <4>1 DEF Insert
        <3>2. CASE n # req[t]
            BY <2>1, <3>2 DEF Insert, Pruned
        <3> QED
            BY <3>1, <3>2
    <2> QED
        BY <2>1, <2>3 DEF Insert
<1>7. CASE \E t \in Threads : InsertFails(t)
    BY <1>7 DEF InsertFails, Returns
<1>8. CASE \E t \in Threads : Remember(t)
    BY <1>8 DEF Remember, Returns
<1>9. CASE ClearCache
    BY <1>9 DEF ClearCache
<1>10. CASE Restart
    BY <1>10 DEF Restart, Pruned
<1> QED
    BY <1>1, <1>2, <1>3, <1>4, <1>5, <1>6, <1>7, <1>8, <1>9, <1>10,
       StepCases

\* What the age of a row says of the nonce it stands for.
LEMMA Overdue ==
    ASSUME TypeOK, RecordInv, TimeInv, NEW n \in Nonces, table[n] # NoTime,
           NEW k \in Int, k <= now, table[n] < k - 2 * Window
    PROVE  /\ granted[n] + 2 * Window - Slack < now
           /\ stamp[n] + Window < now
<1>1. granted[n] # NoTime /\ stamp[n] # NoTime
    BY DEF RecordInv
<1>2. granted[n] \in Int /\ stamp[n] \in Int /\ table[n] \in Int /\ now \in Int
    BY <1>1, TimeAssumption DEF TypeOK, Times
<1>3. granted[n] <= table[n] + Slack /\ stamp[n] <= table[n] + Window
    BY DEF TimeInv
<1> QED
    BY <1>2, <1>3, WindowAssumption

\* A row is deleted only when its message has left the time window for good
\* and twice the window has passed since the time it bears.
LEMMA StaleStep ==
    ASSUME TypeOK, RecordInv, TimeInv, StaleInv, Next
    PROVE  StaleInv'
<1> USE TimeAssumption, WindowAssumption
    DEF TypeOK, StaleInv, Steps, Running, Times
<1>1. CASE Tick
    BY <1>1 DEF Tick, RecordInv
<1>2. CASE \E t \in Threads, n \in Nonces : RefuseCached(t, n)
    BY <1>2 DEF RefuseCached
<1>3. CASE \E t \in Threads, n \in Nonces, s \in InWindow : Begin(t, n, s)
    BY <1>3 DEF Begin
<1>4. CASE \E t \in Threads : Select(t)
    BY <1>4 DEF Select
<1>5. CASE \E t \in Threads : RefuseSeen(t)
    BY <1>5 DEF RefuseSeen, Returns
<1>6. CASE \E t \in Threads : Insert(t)
    <2>1. PICK t \in Threads : Insert(t)
        BY <1>6
    <2> SUFFICES ASSUME NEW n \in Nonces, granted'[n] # NoTime,
                        table'[n] = NoTime
                 PROVE  /\ granted'[n] + 2 * Window - Slack < now
                        /\ stamp'[n] + Window < now
        BY <2>1 DEF Insert
    <2>2. clock[t] \in Int /\ clock[t] <= now
        BY <2>1 DEF Insert, TimeInv
    <2>3. n # req[t]
        BY <2>1, <2>2 DEF Insert, Pruned
    <2>4. granted'[n] = granted[n] /\ stamp'[n] = stamp[n]
        BY <2>1, <2>3 DEF Insert
    <2>5. CASE table[n] = NoTime
        BY <2>4, <2>5
    <2>6. CASE table[n] # NoTime
        <3>1. table[n] \in Int /\ table[n] < clock[t] - 2 * Window
            BY <2>1, <2>3, <2>6 DEF Insert, Pruned
        <3> QED
            BY <2>2, <2>4, <2>6, <3>1, Overdue
    <2> QED
        BY <2>5, <2>6
<1>7. CASE \E t \in Threads : InsertFails(t)
    BY <1>7 DEF InsertFails, Returns
<1>8. CASE \E t \in Threads : Remember(t)
    BY <1>8 DEF Remember, Returns
<1>9. CASE ClearCache
    BY <1>9 DEF ClearCache
<1>10. CASE Restart
    <2> SUFFICES ASSUME NEW n \in Nonces, granted'[n] # NoTime,
                        table'[n] = NoTime
                 PROVE  /\ granted'[n] + 2 * Window - Slack < now
                        /\ stamp'[n] + Window < now
        BY <1>10 DEF Restart
    <2>1. granted'[n] = granted[n] /\ stamp'[n] = stamp[n]
        BY <1>10 DEF Restart
    <2>2. CASE table[n] = NoTime
        BY <2>1, <2>2
    <2>3. CASE table[n] # NoTime
        <3>1. table[n] \in Int /\ table[n] < now - 2 * Window
            BY <1>10, <2>3 DEF Restart, Pruned
        <3>2. now \in Int /\ now <= now
            OBVIOUS
        <3>3. /\ granted[n] + 2 * Window - Slack < now
              /\ stamp[n] + Window < now
            BY <2>3, <3>1, <3>2, Overdue
        <3> QED
            BY <2>1, <3>3
    <2> QED
        BY <2>2, <2>3
<1> QED
    BY <1>1, <1>2, <1>3, <1>4, <1>5, <1>6, <1>7, <1>8, <1>9, <1>10,
       StepCases

(***************************************************************************)
(* The calls in flight are those that passed the check of the size, so the *)
(* cache and they together stay below the limit.                           *)
(***************************************************************************)
LEMMA FlightFinite ==
    ASSUME NEW P \in SUBSET Threads
    PROVE  /\ IsFiniteSet(P)
           /\ Cardinality(P) \in Nat
           /\ Cardinality(P) <= Cardinality(Threads)
           /\ Cardinality(Threads) \in Nat
BY ThreadAssumption, FS_Subset, FS_CardinalityType

\* A call leaves: the cache grows by one entry at most.
LEMMA LeaveSpace ==
    ASSUME TypeOK, SpaceInv, NEW t \in Threads, Running(t),
           pc' = [pc EXCEPT ![t] = "idle"],
           cache' \in {cache, cache \cup {req[t]}}
    PROVE  SpaceInv'
<1>1. InFlight' = InFlight \ {t}
    BY DEF TypeOK, InFlight, Running, Steps
<1>2. InFlight \in SUBSET Threads /\ t \in InFlight /\ IsFiniteSet(cache)
    BY DEF InFlight, SpaceInv
<1>3. IsFiniteSet(InFlight) /\ Cardinality(InFlight') = Cardinality(InFlight) - 1
    BY <1>1, <1>2, FlightFinite, FS_RemoveElement
<1>4. IsFiniteSet(cache') /\ Cardinality(cache') <= Cardinality(cache) + 1
    <2>1. CASE cache' = cache
        BY <1>2, <2>1, FS_CardinalityType
    <2>2. CASE cache' = cache \cup {req[t]}
        <3>1. IsFiniteSet(cache \cup {req[t]})
            BY <1>2, FS_AddElement
        <3>2. Cardinality(cache \cup {req[t]}) =
                 IF req[t] \in cache THEN Cardinality(cache) ELSE Cardinality(cache) + 1
            BY <1>2, FS_AddElement
        <3>3. Cardinality(cache) \in Nat
            BY <1>2, FS_CardinalityType
        <3> QED
            BY <2>2, <3>1, <3>2, <3>3
    <2> QED
        BY <2>1, <2>2
<1>5. /\ Cardinality(cache) \in Nat
      /\ Cardinality(cache') \in Nat
      /\ Cardinality(InFlight) \in Nat
      /\ Cardinality(Threads) \in Nat
    BY <1>2, <1>4, FS_CardinalityType, FlightFinite
<1> QED
    BY <1>3, <1>4, <1>5, CacheAssumption DEF SpaceInv

\* A call enters: below the limit, or after the trim has made room.
LEMMA EnterSpace ==
    ASSUME TypeOK, SpaceInv, NEW t \in Threads, NEW n \in Nonces, NEW s \in InWindow, Begin(t, n, s)
    PROVE  SpaceInv'
<1>1. InFlight' = InFlight \cup {t} /\ t \notin InFlight
    BY DEF TypeOK, InFlight, Running, Steps, Begin
<1>2. InFlight \in SUBSET Threads /\ InFlight' \in SUBSET Threads
    BY <1>1 DEF InFlight
<1>3. /\ Cardinality(InFlight') = Cardinality(InFlight) + 1
      /\ Cardinality(InFlight) \in Nat
      /\ Cardinality(InFlight') <= Cardinality(Threads)
      /\ Cardinality(Threads) \in Nat
    BY <1>1, <1>2, FlightFinite, FS_AddElement
<1>4. Cardinality(cache) \in Nat /\ IsFiniteSet(cache)
    BY FS_CardinalityType DEF SpaceInv
<1>5. cache' \in Trimmed
    BY DEF Begin
<1>6. IsFiniteSet(cache')
    BY <1>4, <1>5, TrimmedPart, FS_Subset
<1>7. CASE Cardinality(cache) < CacheMax
    <2>1. cache' = cache
        BY <1>5, <1>7 DEF Trimmed
    <2> QED
        BY <1>3, <1>4, <1>7, <2>1, CacheAssumption DEF SpaceInv
<1>8. CASE ~(Cardinality(cache) < CacheMax)
    <2>1. Cardinality(cache') = Cardinality(cache) - Trim
        BY <1>5, <1>8 DEF Trimmed
    <2>2. Trim >= 1 /\ Trim \in Nat
        BY CacheAssumption
    <2>3. Cardinality(cache') \in Nat
        BY <1>6, FS_CardinalityType
    <2> HIDE DEF SpaceInv
    <2>4. Cardinality(cache) + Cardinality(InFlight) < CacheMax + Cardinality(Threads)
        BY DEF SpaceInv
    <2>5. Cardinality(cache') + Cardinality(InFlight') < CacheMax + Cardinality(Threads)
        BY <1>3, <1>4, <2>1, <2>2, <2>3, <2>4, CacheAssumption
    <2> QED
        BY <1>6, <2>5 DEF SpaceInv
<1> QED
    BY <1>7, <1>8

LEMMA SpaceStep ==
    ASSUME TypeOK, SpaceInv, Next
    PROVE  SpaceInv'
<1>1. CASE \E t \in Threads, n \in Nonces, s \in InWindow : Begin(t, n, s)
    BY <1>1, EnterSpace
<1>2. CASE \E t \in Threads : RefuseSeen(t) \/ InsertFails(t) \/ Remember(t)
    BY <1>2, LeaveSpace DEF RefuseSeen, InsertFails, Remember, Returns, Running,
        Steps
<1>3. CASE \E t \in Threads : Select(t) \/ Insert(t)
    <2>1. InFlight' = InFlight /\ cache' = cache
        BY <1>3 DEF Select, Insert, InFlight, Running, Steps, TypeOK
    <2> QED
        BY <2>1 DEF SpaceInv
<1>4. CASE \/ Tick
           \/ \E t \in Threads, n \in Nonces : RefuseCached(t, n)
    <2>1. InFlight' = InFlight /\ cache' = cache
        BY <1>4 DEF Tick, RefuseCached, InFlight, Running
    <2> QED
        BY <2>1 DEF SpaceInv
<1>5. CASE ClearCache \/ Restart
    <2>1. cache' = {} /\ InFlight' \subseteq InFlight /\ InFlight \in SUBSET Threads
        BY <1>5 DEF ClearCache, Restart, InFlight, Running, Steps
    <2>2. IsFiniteSet(cache') /\ Cardinality(cache') = 0
        BY <2>1, FS_EmptySet
    <2>3. InFlight' \in SUBSET Threads
        BY <2>1
    <2>4. /\ Cardinality(InFlight') \in Nat
          /\ Cardinality(InFlight') <= Cardinality(Threads)
          /\ Cardinality(Threads) \in Nat
        BY <2>3, FlightFinite
    <2> QED
        BY <2>2, <2>4, CacheAssumption DEF SpaceInv
<1> QED
    BY <1>1, <1>2, <1>3, <1>4, <1>5, StepCases

-----------------------------------------------------------------------------

THEOREM InductiveInvariant == Spec => []IndInv
<1>1. Init => IndInv
    <2> SUFFICES ASSUME Init
                 PROVE  IndInv
        OBVIOUS
    <2> USE TimeAssumption, WindowAssumption DEF Init
    <2>1. TypeOK
        BY DEF TypeOK, Times
    <2>2. RecordInv /\ TimeInv /\ StaleInv
        BY DEF RecordInv, TimeInv, StaleInv, Running, Steps
    <2>3. SpaceInv
        <3>1. InFlight = {}
            BY DEF InFlight, Running, Steps
        <3> QED
            BY <3>1, FS_EmptySet, FS_CardinalityType, ThreadAssumption,
               CacheAssumption
            DEF SpaceInv
    <2> QED
        BY <2>1, <2>2, <2>3 DEF IndInv
<1>2. IndInv /\ [Next]_vars => IndInv'
    <2> SUFFICES ASSUME IndInv, [Next]_vars
                 PROVE  IndInv'
        OBVIOUS
    <2>1. CASE Next
        BY <2>1, TypeStep, RecordStep, TimeStep, StaleStep, SpaceStep DEF IndInv
    <2>2. CASE UNCHANGED vars
        BY <2>2 DEF vars, IndInv, TypeOK, RecordInv, TimeInv, StaleInv,
                    SpaceInv, InFlight, Running
    <2> QED
        BY <2>1, <2>2
<1> QED
    BY <1>1, <1>2, PTL DEF Spec

(***************************************************************************)
(* A used nonce is on record as long as the time window would accept the   *)
(* message it was used with, even from a client whose clock is ahead.      *)
(***************************************************************************)
THEOREM UsedStaysKnown == Spec => []UsedIsKnownOrStale
<1>1. IndInv => UsedIsKnownOrStale
    BY WindowAssumption, TimeAssumption
    DEF IndInv, TypeOK, Times, StaleInv, UsedIsKnownOrStale
<1> QED
    BY <1>1, InductiveInvariant, PTL

(***************************************************************************)
(* The cache exceeds its limit by less than the number of threads.         *)
(***************************************************************************)
THEOREM CacheStaysBounded == Spec => []CacheBounded
<1>1. IndInv => CacheBounded
    <2> SUFFICES ASSUME IndInv
                 PROVE  CacheBounded
        OBVIOUS
    <2>1. InFlight \in SUBSET Threads
        BY DEF InFlight
    <2>2. /\ Cardinality(cache) \in Nat
          /\ Cardinality(InFlight) \in Nat
          /\ Cardinality(Threads) \in Nat
        BY <2>1, FlightFinite, FS_CardinalityType DEF IndInv, SpaceInv
    <2> QED
        BY <2>2, CacheAssumption DEF IndInv, SpaceInv, CacheBounded
<1> QED
    BY <1>1, InductiveInvariant, PTL

(***************************************************************************)
(* The threads, the cache and the table together implement NonceRegister   *)
(* with a retention of twice the window less the time a call takes.        *)
(***************************************************************************)
THEOREM Implementation == Spec => ImplementsRegister
<1>1. Init => Abstract!Init
    BY DEF Init, Abstract!Init
<1>2. IndInv /\ [Next]_vars => [Abstract!Next]_(Abstract!vars)
    <2> SUFFICES ASSUME IndInv, [Next]_vars
                 PROVE  [Abstract!Next]_(Abstract!vars)
        OBVIOUS
    <2> USE DEF IndInv, TypeOK, RecordInv
    <2>1. CASE \E t \in Threads, n \in Nonces : RefuseCached(t, n)
        BY <2>1 DEF RefuseCached, Abstract!Next, Abstract!Refuse
    <2>2. CASE \E t \in Threads, n \in Nonces, s \in InWindow : Begin(t, n, s)
        BY <2>2 DEF Begin, Abstract!Next, Abstract!Ask
    <2>3. CASE \E t \in Threads : RefuseSeen(t)
        BY <2>3 DEF RefuseSeen, Abstract!Next, Abstract!Refuse
    <2>4. CASE \E t \in Threads : Insert(t)
        <3>1. PICK t \in Threads : Insert(t)
            BY <2>4
        <3>2. req[t] \in Nonces /\ table[req[t]] = NoTime
            BY <3>1 DEF Insert
        <3>3. \/ granted[req[t]] = NoTime
              \/ granted[req[t]] + (2 * Window - Slack) < now
            BY <3>2, WindowAssumption, TimeAssumption DEF StaleInv, Times
        <3> QED
            BY <3>1, <3>2, <3>3 DEF Insert, Abstract!Next, Abstract!Grant
    <2>5. CASE Tick
        BY <2>5 DEF Tick, Abstract!Next, Abstract!Pass
    <2>6. CASE UNCHANGED <<now, granted, decision>>
        BY <2>6 DEF Abstract!vars
    <2> QED
        BY <2>1, <2>2, <2>3, <2>4, <2>5, <2>6, StepCases
        DEF vars, Select, InsertFails, Remember, ClearCache, Restart
<1> QED
    BY <1>1, <1>2, InductiveInvariant, PTL
    DEF Spec, ImplementsRegister, Abstract!Spec

=============================================================================
