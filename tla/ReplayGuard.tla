----------------------------- MODULE ReplayGuard -----------------------------
(***************************************************************************)
(* The replay protection of the logins (_check_and_store_nonce and the     *)
(* time window of _process_message, server/chat/server.py).                *)
(*                                                                         *)
(* Nonces are looked up in a cache in memory, under nonce_lock, and then   *)
(* in a table on disk, where the primary key decides between two threads   *)
(* that both found nothing.  Rows older than twice the time window are     *)
(* deleted now and then; the cache is trimmed, cleared, and lost when the  *)
(* server restarts.                                                        *)
(*                                                                         *)
(* The signature of a LOGIN covers its nonce and not its timestamp: a      *)
(* nonce may be presented any number of times, with any timestamp.  What   *)
(* never gets here is a LOGIN whose nonce is empty (448) and a REGISTER.   *)
(***************************************************************************)
EXTENDS Integers, FiniteSets

CONSTANTS
    Threads,    \* threads of the connections that log in
    Nonces,     \* nonces of the LOGIN messages
    Window,     \* REPLAY_WINDOW_SEC
    Slack,      \* longest time from the window's check to the INSERT
    CacheMax,   \* _NONCE_CACHE_MAX
    Trim,       \* the entries a full cache loses, a quarter of CacheMax
    MaxTime,    \* bound on the server's clock
    NoTime      \* no row, no timestamp

ASSUME WindowAssumption == Window \in Nat /\ Slack \in Nat
ASSUME CacheAssumption == CacheMax \in Nat /\ Trim \in 1 .. CacheMax
ASSUME TimeAssumption == MaxTime \in Nat /\ NoTime \notin Int
ASSUME ThreadAssumption == IsFiniteSet(Threads)

VARIABLES
    now,        \* int(time.time())
    pc,         \* where each thread is in _check_and_store_nonce
    req,        \* nonce_str of each running call
    ts,         \* "timestamp" of the message of each running call
    begun,      \* when the running call passed the time window
    clock,      \* local variable now of each running call
    table,      \* seen_nonces: timestamp of the row of each nonce
    cache,      \* keys of recent_nonces
    granted,    \* history: when each nonce was last answered True for
    stamp,      \* history: the timestamp of the message answered so
    decision    \* answer to the last call of each thread

vars == <<now, pc, req, ts, begun, clock, table, cache, granted, stamp, decision>>

Times == 0..MaxTime
Steps == {"select", "insert", "seen", "remember"}

TypeOK ==
    /\ now \in Times
    /\ pc \in [Threads -> {"idle"} \cup Steps]
    /\ req \in [Threads -> Nonces]
    /\ ts \in [Threads -> Int]
    /\ begun \in [Threads -> Times]
    /\ clock \in [Threads -> Times]
    /\ table \in [Nonces -> Times \cup {NoTime}]
    /\ cache \in SUBSET Nonces
    /\ granted \in [Nonces -> Times \cup {NoTime}]
    /\ stamp \in [Nonces -> Int \cup {NoTime}]
    /\ decision \in [Threads -> {"none", "yes", "no"}]

Init ==
    /\ now = 0
    /\ pc = [t \in Threads |-> "idle"]
    /\ req \in [Threads -> Nonces]
    /\ ts = [t \in Threads |-> 0]
    /\ begun = [t \in Threads |-> 0]
    /\ clock = [t \in Threads |-> 0]
    /\ table = [n \in Nonces |-> NoTime]
    /\ cache = {}
    /\ granted = [n \in Nonces |-> NoTime]
    /\ stamp = [n \in Nonces |-> NoTime]
    /\ decision = [t \in Threads |-> "none"]

Running(t) == pc[t] \in Steps

InFlight == {t \in Threads : Running(t)}

\* abs(time.time() - ts) <= REPLAY_WINDOW_SEC
InWindow == (now - Window) .. (now + Window)

-----------------------------------------------------------------------------
(* Time.                                                                   *)

\* The clock advances; no call runs for longer than Slack.
Tick ==
    /\ now < MaxTime
    /\ \A t \in Threads : Running(t) => now < begun[t] + Slack
    /\ now' = now + 1
    /\ UNCHANGED <<pc, req, ts, begun, clock, table, cache, granted, stamp,
                   decision>>

-----------------------------------------------------------------------------
(* _check_and_store_nonce.                                                 *)

\* The call is over and its local variables are gone.
Returns(t) ==
    /\ pc' = [pc EXCEPT ![t] = "idle"]
    /\ ts' = [ts EXCEPT ![t] = 0]
    /\ begun' = [begun EXCEPT ![t] = 0]
    /\ clock' = [clock EXCEPT ![t] = 0]
    /\ UNCHANGED req

\* The message is within the time window and its nonce is in the cache.
RefuseCached(t, n) ==
    /\ pc[t] = "idle"
    /\ n \in cache
    /\ decision' = [decision EXCEPT ![t] = "no"]
    /\ UNCHANGED <<now, pc, req, ts, begun, clock, table, cache, granted, stamp>>

\* The nonce is not in the cache.  A full cache loses its oldest entries; in
\* which order they came is left open.
Trimmed ==
    IF Cardinality(cache) < CacheMax THEN {cache}
    ELSE {S \in SUBSET cache :
             Cardinality(S) = Cardinality(cache) - Trim}

Begin(t, n, s) ==
    /\ pc[t] = "idle"
    /\ s \in InWindow
    /\ n \notin cache
    /\ cache' \in Trimmed
    /\ pc' = [pc EXCEPT ![t] = "select"]
    /\ req' = [req EXCEPT ![t] = n]
    /\ ts' = [ts EXCEPT ![t] = s]
    /\ begun' = [begun EXCEPT ![t] = now]
    /\ decision' = [decision EXCEPT ![t] = "none"]
    /\ UNCHANGED <<now, clock, table, granted, stamp>>

\* SELECT, with the lock released.
Select(t) ==
    /\ pc[t] = "select"
    /\ clock' = [clock EXCEPT ![t] = now]
    /\ pc' = [pc EXCEPT ![t] = IF table[req[t]] = NoTime
                               THEN "insert" ELSE "seen"]
    /\ UNCHANGED <<now, req, ts, begun, table, cache, granted, stamp, decision>>

\* The row was there: it is cached and the call answers False.
RefuseSeen(t) ==
    /\ pc[t] = "seen"
    /\ cache' = cache \cup {req[t]}
    /\ Returns(t)
    /\ decision' = [decision EXCEPT ![t] = "no"]
    /\ UNCHANGED <<now, table, granted, stamp>>

\* Mutant: rows are deleted after one window.
PrunedEarly(rows, time) ==
    [n \in Nonces |-> IF rows[n] # NoTime /\ rows[n] <= time - Window
                      THEN NoTime ELSE rows[n]]

\* DELETE ... WHERE timestamp < time - 2 * _REPLAY_WINDOW.
Pruned(rows, time) ==
    [n \in Nonces |-> IF rows[n] # NoTime /\ rows[n] < time - 2 * Window
                      THEN NoTime ELSE rows[n]]

\* Mutant: INSERT OR REPLACE.
InsertOrReplace(t) ==
    /\ pc[t] = "insert"
    /\ LET rows == [table EXCEPT ![req[t]] = clock[t]]
       IN  table' \in {rows, Pruned(rows, clock[t])}
    /\ granted' = [granted EXCEPT ![req[t]] = now]
    /\ stamp' = [stamp EXCEPT ![req[t]] = ts[t]]
    /\ decision' = [decision EXCEPT ![t] = "yes"]
    /\ pc' = [pc EXCEPT ![t] = "remember"]
    /\ UNCHANGED <<now, req, ts, begun, clock, cache>>

\* INSERT and commit; whether the seconds call for a deletion is left open.
Insert(t) ==
    /\ pc[t] = "insert"
    /\ table[req[t]] = NoTime
    /\ LET rows == [table EXCEPT ![req[t]] = clock[t]]
       IN  table' \in {rows, Pruned(rows, clock[t])}
    /\ granted' = [granted EXCEPT ![req[t]] = now]
    /\ stamp' = [stamp EXCEPT ![req[t]] = ts[t]]
    /\ decision' = [decision EXCEPT ![t] = "yes"]
    /\ pc' = [pc EXCEPT ![t] = "remember"]
    /\ UNCHANGED <<now, req, ts, begun, clock, cache>>

\* IntegrityError: another thread has inserted the nonce since the SELECT.
\* The exception ends the connection and nothing is answered.
InsertFails(t) ==
    /\ pc[t] = "insert"
    /\ table[req[t]] # NoTime
    /\ Returns(t)
    /\ UNCHANGED <<now, table, cache, granted, stamp, decision>>

\* The nonce is cached and the call answers True.
Remember(t) ==
    /\ pc[t] = "remember"
    /\ cache' = cache \cup {req[t]}
    /\ Returns(t)
    /\ UNCHANGED <<now, table, granted, stamp, decision>>

-----------------------------------------------------------------------------
(* The maintenance thread and the start of the server.                     *)

ClearCache ==
    /\ Cardinality(cache) > CacheMax
    /\ cache' = {}
    /\ UNCHANGED <<now, pc, req, ts, begun, clock, table, granted, stamp,
                   decision>>

Restart ==
    /\ cache' = {}
    /\ table' = Pruned(table, now)
    /\ pc' = [t \in Threads |-> "idle"]
    /\ ts' = [t \in Threads |-> 0]
    /\ begun' = [t \in Threads |-> 0]
    /\ clock' = [t \in Threads |-> 0]
    /\ UNCHANGED <<now, req, granted, stamp, decision>>

-----------------------------------------------------------------------------

Call(t) ==
    \/ \E n \in Nonces : RefuseCached(t, n)
    \/ \E n \in Nonces : \E s \in InWindow : Begin(t, n, s)
    \/ Select(t)
    \/ RefuseSeen(t)
    \/ Insert(t)
    \/ InsertFails(t)
    \/ Remember(t)

Next ==
    \/ Tick
    \/ \E t \in Threads : Call(t)
    \/ ClearCache
    \/ Restart

Spec == Init /\ [][Next]_vars

-----------------------------------------------------------------------------
(* Properties.                                                             *)

\* The row bears the time read before the SELECT, so the retention counted
\* from the grant falls short of twice the window by the time a call takes.
Abstract == INSTANCE NonceRegister WITH Retention <- 2 * Window - Slack,
                                        Never <- NoTime

\* Replay: however often a nonce is presented, on however many connections and
\* with whatever timestamps, it is answered True again only when its retention
\* is over, and False only when it has been used: across the race of two
\* threads, trims of the cache, deletions of old rows and restarts
\* (_check_and_store_nonce).
ImplementsRegister == Abstract!Spec

\* Replay: the check of the cache's size and the insertion are apart, so the
\* cache may pass its limit, but only by the calls in flight.
CacheBounded ==
    Cardinality(cache) < CacheMax + Cardinality(Threads)

\* Replay: while the message a nonce was used with would still pass the time
\* window as it stands, the nonce is on record, by however much the client's
\* clock was ahead; this is why twice the window is kept.
UsedIsKnownOrStale ==
    \A n \in Nonces :
        granted[n] # NoTime /\ table[n] = NoTime => stamp[n] + Window < now

-----------------------------------------------------------------------------
(* Strengthening that is inductive.                                        *)

\* Only used nonces are on record, and with them the message's timestamp.
RecordInv ==
    /\ \A n \in Nonces : table[n] # NoTime => granted[n] # NoTime
    /\ \A n \in cache : granted[n] # NoTime
    /\ \A n \in Nonces : granted[n] # NoTime => stamp[n] # NoTime
    /\ \A t \in Threads : pc[t] \in {"seen", "remember"} => granted[req[t]] # NoTime

\* The times of a running call, and of the rows.
TimeInv ==
    /\ \A t \in Threads : Running(t) =>
          /\ begun[t] <= now
          /\ now <= begun[t] + Slack
          /\ ts[t] <= begun[t] + Window
    /\ \A t \in Threads : Running(t) /\ pc[t] # "select" =>
          /\ begun[t] <= clock[t]
          /\ clock[t] <= now
    /\ \A n \in Nonces : table[n] # NoTime =>
          /\ table[n] <= now
          /\ granted[n] <= table[n] + Slack
          /\ stamp[n] <= table[n] + Window

\* A used nonce whose row is gone has been on record for its retention.
StaleInv ==
    \A n \in Nonces : granted[n] # NoTime /\ table[n] = NoTime =>
        /\ granted[n] + 2 * Window - Slack < now
        /\ stamp[n] + Window < now

SpaceInv ==
    /\ IsFiniteSet(cache)
    /\ Cardinality(cache) + Cardinality(InFlight) < CacheMax + Cardinality(Threads)

IndInv == TypeOK /\ RecordInv /\ TimeInv /\ StaleInv /\ SpaceInv

=============================================================================
