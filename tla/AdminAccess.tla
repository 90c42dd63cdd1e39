---------------------------- MODULE AdminAccess ----------------------------
(***************************************************************************)
(* The administrator's PIN and sessions (server/admin/auth.py, and the     *)
(* credentials of server/keyring_store/credentials.py).                    *)
(*                                                                         *)
(* Threads log in, validate and end sessions, and change the PIN, which is *)
(* kept as two entries of the keyring: a hash and the salt it was made     *)
(* with.  A PIN is the number of the change that set it; it verifies if    *)
(* hash and salt both stem from that change.  AdminAuth guards sessions    *)
(* and failures with a lock each and the keyring with none.                *)
(*                                                                         *)
(* ChatServer._handle_admin_auth does not reach these operations: it calls *)
(* create_session, which AdminAuth does not have (server.py:839), and the  *)
(* connection ends.  They are modelled as the class offers them.           *)
(***************************************************************************)
EXTENDS Integers, FiniteSets

CONSTANTS
    Logins,       \* threads
    Addresses,    \* addresses logins come from
    Tokens,       \* session tokens: random, so none is used twice
    MaxAttempts,  \* max_attempts
    MaxPins       \* bound on the changes of the PIN

ASSUME AdminAssumption ==
    /\ MaxAttempts \in Nat \ {0}
    /\ MaxPins \in Nat
    /\ IsFiniteSet(Logins)

VARIABLES
    hash, salt,   \* the change each entry of the keyring stems from
    sessions,     \* _sessions: the tokens in it
    expired,      \* tokens of sessions that are past expires_at
    failures,     \* _failures: the count of each address
    locked,       \* addresses whose last failure is less than lockout_sec ago
    job,          \* what each thread is doing
    changes,      \* number of changes of the PIN so far
    \* What the properties need and no action reads:
    pinOf,        \* the PIN each session was opened with, 0 if it was not
    raced,        \* tokens of logins that were under way when the PIN changed
    spoilt        \* two changes overlapped, or one was cut short

adminVars == <<hash, salt, sessions, expired, failures, locked, job, changes,
               pinOf, raced, spoilt>>

Idle == [op |-> "idle"]
Pins == 1..MaxPins + 1

Jobs ==
    {Idle}
    \cup [op : {"verify", "fail", "open", "forget"}, from : Addresses, pin : Pins,
          crossed : BOOLEAN]
    \cup [op : {"check", "hash", "salt", "clear"}, pin : Pins]

\* The lockout is looked at before the failure is counted, so that each thread
\* may add one beyond max_attempts.
Counts == 0..MaxAttempts + Cardinality(Logins) - 1

AdminTypeOK ==
    /\ hash \in Pins /\ salt \in Pins
    /\ sessions \subseteq Tokens /\ expired \subseteq Tokens
    /\ failures \in [Addresses -> Counts]
    /\ locked \subseteq Addresses
    /\ job \in [Logins -> Jobs]
    /\ changes \in 0..MaxPins
    /\ pinOf \in [Tokens -> 0..MaxPins + 1]
    /\ raced \subseteq Tokens
    /\ spoilt \in BOOLEAN

AdminInit ==
    /\ hash = 1 /\ salt = 1
    /\ sessions = {} /\ expired = {}
    /\ failures = [a \in Addresses |-> 0]
    /\ locked = {}
    /\ job = [t \in Logins |-> Idle]
    /\ changes = 0
    /\ pinOf = [x \in Tokens |-> 0]
    /\ raced = {}
    /\ spoilt = FALSE

-----------------------------------------------------------------------------

Do(t, j) == job' = [job EXCEPT ![t] = j]

\* verify_admin_pin, reading both entries at once: a torn read refuses the PIN
\* like a wrong one.
Verifies(pin) == hash = pin /\ salt = pin

\* authenticate: the lockout is looked at under the lock of the failures.
Authenticate(t, a, pin) ==
    /\ job[t] = Idle
    /\ pin <= changes + 1
    /\ failures[a] >= MaxAttempts => a \notin locked
    /\ failures' = IF failures[a] >= MaxAttempts
                   THEN [failures EXCEPT ![a] = 0] ELSE failures
    /\ Do(t, [op |-> "verify", from |-> a, pin |-> pin, crossed |-> FALSE])
    /\ UNCHANGED <<hash, salt, sessions, expired, locked, changes, pinOf, raced, spoilt>>

LockedOut(t, a) ==
    /\ job[t] = Idle
    /\ failures[a] >= MaxAttempts /\ a \in locked
    /\ UNCHANGED adminVars

\* The PIN is verified under no lock.
Verify(t) ==
    /\ job[t].op = "verify"
    /\ Do(t, [job[t] EXCEPT !.op = IF Verifies(job[t].pin) THEN "open" ELSE "fail"])
    /\ UNCHANGED <<hash, salt, sessions, expired, failures, locked, changes,
                   pinOf, raced, spoilt>>

Fail(t) ==
    /\ job[t].op = "fail"
    /\ failures' = [failures EXCEPT ![job[t].from] = @ + 1]
    /\ locked' = locked \cup {job[t].from}
    /\ Do(t, Idle)
    /\ UNCHANGED <<hash, salt, sessions, expired, changes, pinOf, raced, spoilt>>

OpenSession(t, x) ==
    /\ job[t].op = "open"
    /\ pinOf[x] = 0
    /\ sessions' = sessions \cup {x}
    /\ pinOf' = [pinOf EXCEPT ![x] = job[t].pin]
    /\ raced' = IF job[t].crossed THEN raced \cup {x} ELSE raced
    /\ Do(t, [job[t] EXCEPT !.op = "forget"])
    /\ UNCHANGED <<hash, salt, expired, failures, locked, changes, spoilt>>

\* The failures of the address are forgotten.
Forget(t) ==
    /\ job[t].op = "forget"
    /\ failures' = [failures EXCEPT ![job[t].from] = 0]
    /\ locked' = locked \ {job[t].from}
    /\ Do(t, Idle)
    /\ UNCHANGED <<hash, salt, sessions, expired, changes, pinOf, raced, spoilt>>

\* lockout_sec after the last failure.
Unlock(a) ==
    /\ a \in locked
    /\ locked' = locked \ {a}
    /\ UNCHANGED <<hash, salt, sessions, expired, failures, job, changes,
                   pinOf, raced, spoilt>>

\* session_timeout_min after a session was used last.
Expire(x) ==
    /\ x \in sessions \ expired
    /\ expired' = expired \cup {x}
    /\ UNCHANGED <<hash, salt, sessions, failures, locked, job, changes,
                   pinOf, raced, spoilt>>

\* validate_session of an expired one, destroy_session, cleanup_sessions.
DropSessions(xs) ==
    /\ xs # {} /\ xs \subseteq sessions
    /\ sessions' = sessions \ xs
    /\ expired' = expired \ xs
    /\ UNCHANGED <<hash, salt, failures, locked, job, changes, pinOf, raced, spoilt>>

-----------------------------------------------------------------------------
(* change_pin: verify the old PIN, write the hash, write the salt, end all  *)
(* sessions.                                                                *)

Changing == {t \in Logins : job[t].op \in {"hash", "salt", "clear"}}

ChangePin(t, old) ==
    /\ job[t] = Idle
    /\ old <= changes + 1
    /\ Do(t, [op |-> "check", pin |-> old])
    /\ UNCHANGED <<hash, salt, sessions, expired, failures, locked, changes,
                   pinOf, raced, spoilt>>

CheckOld(t) ==
    /\ job[t].op = "check"
    /\ IF Verifies(job[t].pin) /\ changes < MaxPins
       THEN /\ changes' = changes + 1
            /\ Do(t, [op |-> "hash", pin |-> changes' + 1])
            /\ spoilt' = (spoilt \/ Changing # {})
       ELSE Do(t, Idle) /\ UNCHANGED <<changes, spoilt>>
    /\ UNCHANGED <<hash, salt, sessions, expired, failures, locked, pinOf, raced>>

WriteHash(t) ==
    /\ job[t].op = "hash"
    /\ hash' = job[t].pin
    /\ Do(t, [job[t] EXCEPT !.op = "salt"])
    /\ UNCHANGED <<salt, sessions, expired, failures, locked, changes,
                   pinOf, raced, spoilt>>

WriteSalt(t) ==
    /\ job[t].op = "salt"
    /\ salt' = job[t].pin
    /\ Do(t, [job[t] EXCEPT !.op = "clear"])
    /\ UNCHANGED <<hash, sessions, expired, failures, locked, changes,
                   pinOf, raced, spoilt>>

\* The keyring raises: change_pin ends there, and so no session does. Once the
\* hash is written without its salt no PIN verifies any more.
WriteFails(t) ==
    /\ job[t].op \in {"hash", "salt"}
    /\ spoilt' = (spoilt \/ job[t].op = "salt")
    /\ Do(t, Idle)
    /\ UNCHANGED <<hash, salt, sessions, expired, failures, locked, changes, pinOf, raced>>

\* Logins that have verified the old PIN and not yet opened their session
\* cross the change.
Crossed(j) == IF j.op = "open" THEN [j EXCEPT !.crossed = TRUE] ELSE j

\* Mutant: only expired sessions end.
ClearExpired(t) ==
    /\ job[t].op = "clear"
    /\ sessions' = sessions \ expired
    /\ expired' = {}
    /\ job' = [s \in Logins |-> IF s = t THEN Idle ELSE Crossed(job[s])]
    /\ UNCHANGED <<hash, salt, failures, locked, changes, pinOf, raced, spoilt>>

Clear(t) ==
    /\ job[t].op = "clear"
    /\ sessions' = {} /\ expired' = {}
    /\ job' = [s \in Logins |-> IF s = t THEN Idle ELSE Crossed(job[s])]
    /\ UNCHANGED <<hash, salt, failures, locked, changes, pinOf, raced, spoilt>>

\* The keyring outlives the process, sessions and failures do not.
AdminRestart ==
    /\ sessions' = {} /\ expired' = {}
    /\ failures' = [a \in Addresses |-> 0]
    /\ locked' = {}
    /\ job' = [t \in Logins |-> Idle]
    /\ spoilt' = (spoilt \/ \E t \in Changing : job[t].op = "salt")
    /\ UNCHANGED <<hash, salt, changes, pinOf, raced>>

AdminStep(t) ==
    \/ Verify(t) \/ Fail(t) \/ Forget(t)
    \/ \E x \in Tokens : OpenSession(t, x)
    \/ CheckOld(t) \/ WriteHash(t) \/ WriteSalt(t) \/ WriteFails(t) \/ Clear(t)

AdminNext ==
    \/ \E t \in Logins, a \in Addresses, pin \in Pins : Authenticate(t, a, pin)
    \/ \E t \in Logins, a \in Addresses : LockedOut(t, a)
    \/ \E t \in Logins, pin \in Pins : ChangePin(t, pin)
    \/ \E t \in Logins : AdminStep(t)
    \/ \E a \in Addresses : Unlock(a)
    \/ \E x \in Tokens : Expire(x)
    \/ \E xs \in SUBSET sessions : DropSessions(xs)
    \/ AdminRestart

AdminSpec == AdminInit /\ [][AdminNext]_adminVars

-----------------------------------------------------------------------------
(* Properties.                                                             *)

\* A session opened with an old PIN does not outlive the change, unless its
\* login was under way when the sessions were ended, or a change broke off
\* between the two entries.
OldPinsEnd ==
    Changing = {} /\ ~spoilt => \A x \in sessions \ raced : pinOf[x] = hash

=============================================================================
