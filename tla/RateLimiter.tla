---------------------------- MODULE RateLimiter ----------------------------
(***************************************************************************)
(* Token buckets per user (server/rate_limit/token_bucket.py).             *)
(*                                                                         *)
(* Connections consume tokens while administrators change the rates.  The  *)
(* limiter's lock guards the table of buckets, a bucket's own lock its     *)
(* refilling and taking; the settings are written under neither, and       *)
(* set_burst changes tokens under the limiter's lock only.  Rates are in   *)
(* tokens per tick.  remove_user has no caller and is left out.            *)
(***************************************************************************)
EXTENDS Integers, FiniteSets

CONSTANTS
    Clients,   \* users with a bucket
    Setters,   \* threads that run an administrator's command
    Rates,     \* rates that can be set, or be asked for by another server
    Bursts,    \* capacities that can be set
    NoRate,    \* no override
    NoCommand

ASSUME LimiterAssumption ==
    /\ Rates \subseteq Nat \ {0} /\ IsFiniteSet(Rates) /\ Rates # {}
    /\ Bursts \subseteq Nat \ {0} /\ IsFiniteSet(Bursts) /\ Bursts # {}
    /\ NoRate \notin Rates

VARIABLES
    bucket,      \* _buckets, a sequence of at most one bucket per user
    override,    \* _overrides
    globalRate,  \* global_seconds_per_msg, as a rate
    burst,       \* burst_capacity
    taking,      \* users for whom a consume has refilled and not yet taken
    command,     \* the command of each setter, and what it has read
    \* What the properties need and no action reads:
    relayed,     \* users whose bucket has the rate of a relay
    overlap      \* what two setters have changed at a time: users or "global"

limiterVars == <<bucket, override, globalRate, burst, taking, command,
                 relayed, overlap>>

MaxBurst == CHOOSE b \in Bursts : \A c \in Bursts : c <= b

Bucket == [tokens : 0..MaxBurst, rate : Rates, capacity : Bursts,
           since : 0..MaxBurst]
Present(u) == bucket[u] # {}
Of(u) == CHOOSE b \in bucket[u] : TRUE

Commands ==
    [op : {"global"}, rate : Rates, step : {"apply"}]
    \cup [op : {"user"}, user : Clients, rate : Rates, step : {"apply"}]
    \cup [op : {"burst"}, capacity : Bursts, step : {"read", "write"},
          todo : SUBSET Clients, user : SUBSET Clients, tokens : 0..MaxBurst]

ASSUME CommandAssumption == NoCommand \notin Commands

LimiterTypeOK ==
    /\ \A u \in Clients : bucket[u] \subseteq Bucket /\ Cardinality(bucket[u]) <= 1
    /\ override \in [Clients -> Rates \cup {NoRate}]
    /\ globalRate \in Rates
    /\ burst \in Bursts
    /\ taking \subseteq Clients
    /\ command \in [Setters -> Commands \cup {NoCommand}]
    /\ relayed \subseteq Clients
    /\ overlap \subseteq Clients \cup {"global"}

LimiterInit ==
    /\ bucket = [u \in Clients |-> {}]
    /\ override = [u \in Clients |-> NoRate]
    /\ globalRate \in Rates
    /\ burst \in Bursts
    /\ taking = {}
    /\ command = [s \in Setters |-> NoCommand]
    /\ relayed = {} /\ overlap = {}

-----------------------------------------------------------------------------

LesserOf(a, b) == IF a < b THEN a ELSE b

Fresh(rate) == [tokens |-> burst, rate |-> rate, capacity |-> burst, since |-> 0]

Effective(u) == IF override[u] = NoRate THEN globalRate ELSE override[u]

Refilled(b) ==
    [b EXCEPT !.tokens = LesserOf(b.capacity, b.tokens + b.since * b.rate), !.since = 0]

\* allow and allow_with_rate: the bucket is looked up or made (with the rate
\* in force, or with that of the relay) and refilled.
Consume(u, rate, relay) ==
    /\ u \notin taking
    /\ relay \/ rate = Effective(u)
    /\ LET b == IF Present(u) THEN Of(u) ELSE Fresh(rate)
       IN  bucket' = [bucket EXCEPT ![u] = {Refilled(b)}]
    /\ relayed' = IF relay /\ ~Present(u) THEN relayed \cup {u} ELSE relayed
    /\ taking' = taking \cup {u}
    /\ UNCHANGED <<override, globalRate, burst, command, overlap>>

Take(u) ==
    /\ u \in taking
    /\ taking' = taking \ {u}
    /\ IF Of(u).tokens >= 1
       THEN bucket' = [bucket EXCEPT ![u] = {[Of(u) EXCEPT !.tokens = @ - 1]}]
       ELSE UNCHANGED bucket
    /\ UNCHANGED <<override, globalRate, burst, command, relayed, overlap>>

\* More than MaxBurst ticks fill every bucket.
LimiterTick ==
    /\ taking = {}
    /\ bucket' = [u \in Clients |->
                     {[b EXCEPT !.since = LesserOf(MaxBurst, @ + 1)] : b \in bucket[u]}]
    /\ UNCHANGED <<override, globalRate, burst, taking, command, relayed, overlap>>

-----------------------------------------------------------------------------
(* The settings: an attribute first, then the buckets under the lock.      *)

Scope(c) == CASE c = NoCommand -> {}
              [] c.op = "global" -> {"global"}
              [] c.op = "user" -> {c.user}
              [] OTHER -> {}

Running == UNION {Scope(command[s]) : s \in Setters}

\* The lock of the limiter is held while set_burst goes through the buckets.
Locked == \E s \in Setters :
              /\ command[s] # NoCommand /\ command[s].op = "burst"
              /\ command[s].step = "write"

Issue(s, c) ==
    /\ command[s] = NoCommand
    /\ command' = [command EXCEPT ![s] = c]
    /\ overlap' = overlap \cup (Scope(c) \cap Running)
    /\ UNCHANGED <<bucket, taking, relayed>>

SetGlobalRate(s, r) ==
    /\ Issue(s, [op |-> "global", rate |-> r, step |-> "apply"])
    /\ globalRate' = r
    /\ UNCHANGED <<override, burst>>

SetUserRate(s, u, r) ==
    /\ Issue(s, [op |-> "user", user |-> u, rate |-> r, step |-> "apply"])
    /\ override' = [override EXCEPT ![u] = r]
    /\ UNCHANGED <<globalRate, burst>>

SetBurst(s, n) ==
    /\ Issue(s, [op |-> "burst", capacity |-> n, step |-> "read",
                 todo |-> Clients, user |-> {}, tokens |-> 0])
    /\ burst' = n
    /\ UNCHANGED <<override, globalRate>>

\* Mutant: buckets of users with an override get the global rate, too.
AffectsAll(c, u) == Present(u) /\ (c.op = "user" => u = c.user)

\* The buckets whose rate a command changes.
Affects(c, u) ==
    IF c.op = "global" THEN Present(u) /\ override[u] = NoRate
    ELSE u = c.user

\* The rates change under the lock.  set_user_rate makes the bucket if need be.
ApplyRate(s) ==
    /\ command[s] # NoCommand
    /\ command[s].step = "apply"
    /\ ~Locked
    /\ LET c == command[s]
           Changed(u) == [(IF Present(u) THEN Of(u) ELSE Fresh(c.rate))
                             EXCEPT !.rate = c.rate]
       IN  /\ bucket' = [u \in Clients |->
                            IF Affects(c, u) THEN {Changed(u)} ELSE bucket[u]]
           /\ relayed' = {u \in relayed : ~Affects(c, u)}
    /\ command' = [command EXCEPT ![s] = NoCommand]
    /\ UNCHANGED <<override, globalRate, burst, taking, overlap>>

\* bucket.capacity is written and bucket.tokens read ...
BurstRead(s, u) ==
    /\ command[s] # NoCommand
    /\ command[s].step = "read"
    /\ ~Locked
    /\ u \in command[s].todo /\ Present(u)
    /\ bucket' = [bucket EXCEPT ![u] = {[Of(u) EXCEPT !.capacity = command[s].capacity]}]
    /\ command' = [command EXCEPT ![s].step = "write", ![s].user = {u},
                                  ![s].todo = @ \ {u}, ![s].tokens = Of(u).tokens]
    /\ UNCHANGED <<override, globalRate, burst, taking, relayed, overlap>>

\* ... and written back, whatever was taken meanwhile.
BurstWrite(s) ==
    /\ command[s] # NoCommand
    /\ command[s].step = "write"
    /\ LET u == CHOOSE x \in command[s].user : TRUE
       IN  bucket' = [bucket EXCEPT ![u] =
               {[Of(u) EXCEPT !.tokens = LesserOf(command[s].tokens, command[s].capacity)]}]
    /\ command' = [command EXCEPT ![s].step = "read", ![s].user = {}, ![s].tokens = 0]
    /\ UNCHANGED <<override, globalRate, burst, taking, relayed, overlap>>

BurstDone(s) ==
    /\ command[s] # NoCommand
    /\ command[s].step = "read"
    /\ ~Locked
    /\ \A u \in command[s].todo : ~Present(u)
    /\ command' = [command EXCEPT ![s] = NoCommand]
    /\ UNCHANGED <<bucket, override, globalRate, burst, taking, relayed, overlap>>

LimiterNext ==
    \/ \E u \in Clients : Take(u)
    \/ \E u \in Clients, r \in Rates, relay \in BOOLEAN : ~Locked /\ Consume(u, r, relay)
    \/ LimiterTick
    \/ \E s \in Setters :
          \/ \E r \in Rates : SetGlobalRate(s, r)
          \/ \E u \in Clients, r \in Rates : SetUserRate(s, u, r)
          \/ \E n \in Bursts : SetBurst(s, n)
          \/ ApplyRate(s)
          \/ \E u \in Clients : BurstRead(s, u)
          \/ BurstWrite(s)
          \/ BurstDone(s)

LimiterSpec == LimiterInit /\ [][LimiterNext]_limiterVars

-----------------------------------------------------------------------------
(* Properties.                                                             *)

\* When no command is at work, a bucket refills at the user's own rate if one
\* is set and at the global one otherwise, unless two commands set the same
\* thing at a time or the bucket was made by a relay (token_bucket.py:94) and
\* not set since.
RatesAgree ==
    \A u \in Clients :
        /\ Present(u)
        /\ u \notin relayed
        /\ overlap \cap {u, "global"} = {}
        /\ \A s \in Setters : command[s] = NoCommand \/ command[s].op = "burst"
        => Of(u).rate = Effective(u)

=============================================================================
