----------------------------- MODULE ForumLoad -----------------------------
(***************************************************************************)
(* How the forum sheds load (server/forum/online.py, rate_limit.py, and    *)
(* the gate every forum request passes in ForumHandler.handle).            *)
(*                                                                         *)
(* A request that passes the gate marks its user as online for a minute; a *)
(* background thread compares the number of users online with the maximum  *)
(* now and then and keeps a level, with hysteresis, by which the gate      *)
(* refuses and delays.  Ratios are kept as numbers of users, thresholds in *)
(* percent of the maximum.                                                 *)
(***************************************************************************)
EXTENDS Integers, FiniteSets

CONSTANTS
    Visitors,         \* users who send forum requests
    Admins,           \* those of them who are administrators
    MaxOnline,        \* max_online
    HeartbeatTimeout, \* HEARTBEAT_TIMEOUT, in ticks
    Hysteresis        \* FORUM_LOAD_HYSTERESIS, in percent

ASSUME LoadAssumption ==
    /\ Admins \subseteq Visitors
    /\ IsFiniteSet(Visitors)
    /\ MaxOnline \in Nat \ {0}
    /\ HeartbeatTimeout \in Nat
    /\ Hysteresis \in 0..100

VARIABLES
    idle,       \* ticks since each user was marked, Gone if not in the table
    level,      \* _current_level
    measured,   \* the ratio the background thread saw last
    counting,   \* the ratio it holds between counting and taking the lock
    gate        \* where the request of each user is

loadVars == <<idle, level, measured, counting, gate>>

Gone == HeartbeatTimeout + 2
Ratios == 0..MaxOnline
NotCounting == MaxOnline + 1

LoadTypeOK ==
    /\ idle \in [Visitors -> 0..Gone]
    /\ level \in Ratios
    /\ measured \in Ratios
    /\ counting \in Ratios \cup {NotCounting}
    /\ gate \in [Visitors -> {"none", "delayed"}]

LoadInit ==
    /\ idle = [u \in Visitors |-> Gone]
    /\ level = 0
    /\ measured = 0
    /\ counting = NotCounting
    /\ gate = [u \in Visitors |-> "none"]

-----------------------------------------------------------------------------

AtLeast(percent) == 100 * level >= percent * MaxOnline

\* LOAD_LEVELS, for the kinds of requests the handler tells apart.
Refused(kind) ==
    IF kind = "search" THEN AtLeast(70) ELSE AtLeast(100)

Delayed(kind) ==
    \/ kind = "message" /\ AtLeast(50)
    \/ kind = "post" /\ AtLeast(60)

Kinds == {"message", "post", "search"}

\* mark_online, which does not count administrators.
Marked(u) == IF u \in Admins THEN idle ELSE [idle EXCEPT ![u] = 0]

\* A request is let through at once; its user is marked as online.
Pass(u, kind) ==
    /\ gate[u] = "none"
    /\ u \notin Admins => ~Refused(kind) /\ ~Delayed(kind)
    /\ idle' = Marked(u)
    /\ UNCHANGED <<level, measured, counting, gate>>

\* The thread sleeps before it goes on.
Delay(u, kind) ==
    /\ gate[u] = "none"
    /\ u \notin Admins
    /\ ~Refused(kind) /\ Delayed(kind)
    /\ gate' = [gate EXCEPT ![u] = "delayed"]
    /\ UNCHANGED <<idle, level, measured, counting>>

Wake(u) ==
    /\ gate[u] = "delayed"
    /\ gate' = [gate EXCEPT ![u] = "none"]
    /\ idle' = Marked(u)
    /\ UNCHANGED <<level, measured, counting>>

\* RATE_LIMITED: the request ends before its user is marked.
Refuse(u, kind) ==
    /\ gate[u] = "none"
    /\ u \notin Admins
    /\ Refused(kind)
    /\ UNCHANGED <<idle, level, measured, counting, gate>>

\* Time passes for all users at once.
Tick ==
    /\ idle' = [u \in Visitors |->
                   IF idle[u] < Gone - 1 THEN idle[u] + 1 ELSE idle[u]]
    /\ UNCHANGED <<level, measured, counting, gate>>

-----------------------------------------------------------------------------
(* The background thread: get_load_ratio, then update_load under the lock. *)

Expired(u) == idle[u] > HeartbeatTimeout

\* _cleanup and the count.
Count ==
    /\ counting = NotCounting
    /\ LET present == {u \in Visitors : ~Expired(u)}
       IN  /\ idle' = [u \in Visitors |-> IF u \in present THEN idle[u] ELSE Gone]
           /\ counting' = IF Cardinality(present) < MaxOnline
                          THEN Cardinality(present) ELSE MaxOnline
    /\ UNCHANGED <<level, measured, gate>>

\* Mutant: the hysteresis holds for a rise as well.
LevelSlow(ratio) ==
    IF \/ 100 * ratio > 100 * level + Hysteresis * MaxOnline
       \/ 100 * ratio < 100 * level - Hysteresis * MaxOnline
    THEN ratio ELSE level

\* Up at once, down only by more than the hysteresis.
NewLevel(ratio) ==
    IF \/ ratio > level
       \/ 100 * ratio < 100 * level - Hysteresis * MaxOnline
    THEN ratio ELSE level

Update ==
    /\ counting # NotCounting
    /\ level' = NewLevel(counting)
    /\ measured' = counting
    /\ counting' = NotCounting
    /\ UNCHANGED <<idle, gate>>

LoadRestart ==
    /\ idle' = [u \in Visitors |-> Gone]
    /\ level' = 0 /\ measured' = 0
    /\ counting' = NotCounting
    /\ gate' = [u \in Visitors |-> "none"]

LoadNext ==
    \/ \E u \in Visitors : Wake(u)
    \/ \E u \in Visitors, kind \in Kinds :
          Pass(u, kind) \/ Delay(u, kind) \/ Refuse(u, kind)
    \/ Tick
    \/ Count
    \/ Update
    \/ LoadRestart

LoadSpec == LoadInit /\ [][LoadNext]_loadVars

-----------------------------------------------------------------------------
(* Properties.                                                             *)

\* Hysteresis: the level by which the gate decides is never below the load
\* that was measured last, and above it by no more than the hysteresis.
LevelTracksLoad ==
    /\ measured <= level
    /\ 100 * level <= 100 * measured + Hysteresis * MaxOnline

=============================================================================
