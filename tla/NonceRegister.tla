---------------------------- MODULE NonceRegister ----------------------------
(***************************************************************************)
(* What the replay protection of the logins promises: of all the calls     *)
(* that present one nonce at most one is answered yes within the time of   *)
(* retention, and a call is answered no only when the nonce has been used. *)
(***************************************************************************)
EXTENDS Integers

CONSTANTS
    Threads,    \* whoever asks
    Nonces,
    Retention,  \* how long a used nonce is remembered at least
    Never       \* no time

VARIABLES
    now,        \* the time
    granted,    \* when each nonce was last used
    decision    \* answer to the last call of each thread

vars == <<now, granted, decision>>

Init ==
    /\ now = 0
    /\ granted = [n \in Nonces |-> Never]
    /\ decision = [t \in Threads |-> "none"]

Pass ==
    /\ now' = now + 1
    /\ UNCHANGED <<granted, decision>>

\* A call begins; the previous answer of the thread is history.
Ask(t) ==
    /\ decision' = [decision EXCEPT ![t] = "none"]
    /\ UNCHANGED <<now, granted>>

Grant(t, n) ==
    /\ granted[n] = Never \/ granted[n] + Retention < now
    /\ granted' = [granted EXCEPT ![n] = now]
    /\ decision' = [decision EXCEPT ![t] = "yes"]
    /\ UNCHANGED now

Refuse(t, n) ==
    /\ granted[n] # Never
    /\ decision' = [decision EXCEPT ![t] = "no"]
    /\ UNCHANGED <<now, granted>>

Next ==
    \/ Pass
    \/ \E t \in Threads :
          \/ Ask(t)
          \/ \E n \in Nonces : Grant(t, n) \/ Refuse(t, n)

Spec == Init /\ [][Next]_vars

=============================================================================
