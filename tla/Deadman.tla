-------------------------------- MODULE Deadman --------------------------------
(***************************************************************************)
(* The dead man's switch of the server: a user stores a warning, logs in   *)
(* from time to time, and is warned of and banned when it has not done so  *)
(* for its grace period (server/chat/server.py, server/chat/offline.py,    *)
(* client/security/deadman.py).                                            *)
(*                                                                         *)
(* The maintenance thread selects the expired rows once per pass and then  *)
(* works through what it has selected, one statement at a time, while      *)
(* users go on logging in and storing warnings.  A statement may fail and  *)
(* end the pass, and the process may stop between any two of them.         *)
(***************************************************************************)
EXTENDS Naturals

CONSTANTS
    Users,      \* users of this server
    Grace,      \* grace_period_sec, the same for all rows
    MaxTime,    \* bound on the clock
    MaxFaults,  \* bound on failed passes and restarts
    NoRow,      \* the user has no row in deadman_messages
    NoUser      \* no row is being worked on

ASSUME BoundAssumption == Grace \in Nat /\ MaxTime \in Nat /\ MaxFaults \in Nat
ASSUME NoUserAssumption == NoUser \notin Users

VARIABLES
    now,        \* int(time.time())
    enabled,    \* deadman_enabled in the configuration of each client
    login,      \* where the thread of each user's connection is
    session,    \* the user's connection is in self.connections
    banned,     \* users with is_banned = 1
    row,        \* deadman_messages, per user
    pass,       \* what the maintenance thread does next
    cur,        \* entry the maintenance thread works on
    todo,       \* rest of the list it has selected
    scanned,    \* when it selected that list
    warned,     \* warnings sent since the user's timer was last reset
    faults      \* failed passes and restarts so far

vars == <<now, enabled, login, session, banned, row, pass, cur, todo, scanned,
          warned, faults>>

Times == 0..MaxTime

\* The recipient has an account on this server or on another.
Recipients == {"local", "foreign"}

Rows == [recipient : Recipients, last : Times, triggered : BOOLEAN]
Entries == [user : Users, recipient : Recipients]

ASSUME NoRowAssumption == NoRow \notin Rows

TypeOK ==
    /\ now \in Times
    /\ enabled \in [Users -> BOOLEAN]
    /\ login \in [Users -> {"none", "checked", "registered", "idle"}]
    /\ session \in [Users -> BOOLEAN]
    /\ banned \in SUBSET Users
    /\ row \in [Users -> Rows \cup {NoRow}]
    /\ pass \in {"sleep", "warn", "mark", "ban", "cut"}
    /\ cur \in Users \cup {NoUser}
    /\ todo \in SUBSET Entries
    /\ scanned \in Times
    /\ warned \in [Users -> Nat]
    /\ faults \in 0..MaxFaults

Init ==
    /\ now = 0
    /\ enabled = [u \in Users |-> FALSE]
    /\ login = [u \in Users |-> "none"]
    /\ session = [u \in Users |-> FALSE]
    /\ banned = {}
    /\ row = [u \in Users |-> NoRow]
    /\ pass = "sleep"
    /\ cur = NoUser
    /\ todo = {}
    /\ scanned = 0
    /\ warned = [u \in Users |-> 0]
    /\ faults = 0

Armed(u) == row[u] # NoRow /\ ~row[u].triggered

\* Mutant: >= in place of >.
ExpiredSoon(u) == Armed(u) /\ now >= row[u].last + Grace

\* triggered = 0 AND (now - last_checkin) > grace_period_sec
Expired(u) == Armed(u) /\ now > row[u].last + Grace

-----------------------------------------------------------------------------
(* The users.                                                              *)

\* The clock advances; a pass of the maintenance thread, which starts every
\* minute, does not outlast a grace period, which is an hour at least.
Tick ==
    /\ now < MaxTime
    /\ pass # "sleep" => now < scanned + Grace
    /\ now' = now + 1
    /\ UNCHANGED <<enabled, login, session, banned, row, pass, cur, todo,
                   scanned, warned, faults>>

\* _handle_login has checked the signature and the ban.
LoginCheck(u) ==
    /\ login[u] = "none"
    /\ u \notin banned
    /\ login' = [login EXCEPT ![u] = "checked"]
    /\ UNCHANGED <<now, enabled, session, banned, row, pass, cur, todo,
                   scanned, warned, faults>>

LoginRegister(u) ==
    /\ login[u] = "checked"
    /\ login' = [login EXCEPT ![u] = "registered"]
    /\ session' = [session EXCEPT ![u] = TRUE]
    /\ UNCHANGED <<now, enabled, banned, row, pass, cur, todo, scanned, warned,
                   faults>>

\* update_deadman_checkin
LoginCheckin(u) ==
    /\ login[u] = "registered"
    /\ login' = [login EXCEPT ![u] = "idle"]
    /\ row' = IF row[u] = NoRow THEN row
              ELSE [row EXCEPT ![u] = [recipient |-> @.recipient, last |-> now,
                                       triggered |-> FALSE]]
    /\ warned' = [warned EXCEPT ![u] = 0]
    /\ UNCHANGED <<now, enabled, session, banned, pass, cur, todo, scanned,
                   faults>>

\* update_deadman_checkin raises; the login goes on.
LoginCheckinFails(u) ==
    /\ login[u] = "registered"
    /\ login' = [login EXCEPT ![u] = "idle"]
    /\ UNCHANGED <<now, enabled, session, banned, row, pass, cur, todo,
                   scanned, warned, faults>>

Disconnect(u) ==
    /\ login[u] = "idle"
    /\ login' = [login EXCEPT ![u] = "none"]
    /\ session' = [session EXCEPT ![u] = FALSE]
    /\ UNCHANGED <<now, enabled, banned, row, pass, cur, todo, scanned, warned,
                   faults>>

\* STORE_DEADMAN_MSG. A client sends it for itself, when its switch is set or
\* when its login is through; the handler serves any connection, logged in or
\* not, and any name.
Store(u, where) ==
    /\ enabled' \in {enabled, [enabled EXCEPT ![u] = TRUE]}
    /\ row' = [row EXCEPT ![u] = [recipient |-> where, last |-> now,
                                  triggered |-> FALSE]]
    /\ warned' = [warned EXCEPT ![u] = 0]
    /\ UNCHANGED <<now, login, session, banned, pass, cur, todo, scanned,
                   faults>>

\* set_config with the switch off: sync_to_server is not called.
Disable(u) ==
    /\ enabled[u]
    /\ enabled' = [enabled EXCEPT ![u] = FALSE]
    /\ UNCHANGED <<now, login, session, banned, row, pass, cur, todo, scanned,
                   warned, faults>>

-----------------------------------------------------------------------------
(* The maintenance thread.                                                 *)

\* Mutant: the rows are marked when they are selected.
ScanMarks ==
    /\ pass = "sleep"
    /\ \E u \in Users : Expired(u)
    /\ todo' = {[user |-> u, recipient |-> row[u].recipient] :
                    u \in {v \in Users : Expired(v)}}
    /\ row' = [u \in Users |-> IF Expired(u)
                               THEN [row[u] EXCEPT !.triggered = TRUE]
                               ELSE row[u]]
    /\ scanned' = now
    /\ pass' = "warn"
    /\ UNCHANGED <<now, enabled, login, session, banned, cur, warned, faults>>

\* get_expired_deadman_messages
Scan ==
    /\ pass = "sleep"
    /\ \E u \in Users : Expired(u)
    /\ todo' = {[user |-> u, recipient |-> row[u].recipient] :
                    u \in {v \in Users : Expired(v)}}
    /\ scanned' = now
    /\ pass' = "warn"
    /\ UNCHANGED <<now, enabled, login, session, banned, row, cur, warned,
                   faults>>

\* _trigger_deadman: the warning is sent or queued.  A recipient that is not
\* a user of this server gets nothing.
Warn(e) ==
    /\ pass = "warn"
    /\ e \in todo
    /\ todo' = todo \ {e}
    /\ cur' = e.user
    /\ warned' = IF e.recipient = "local"
                 THEN [warned EXCEPT ![e.user] = @ + 1] ELSE warned
    /\ pass' = "mark"
    /\ UNCHANGED <<now, enabled, login, session, banned, row, scanned, faults>>

\* mark_deadman_triggered
Mark ==
    /\ pass = "mark"
    /\ row' = [row EXCEPT ![cur] = [recipient |-> @.recipient, last |-> @.last,
                                    triggered |-> TRUE]]
    /\ pass' = "ban"
    /\ UNCHANGED <<now, enabled, login, session, banned, cur, todo, scanned,
                   warned, faults>>

\* Mutant: mark_compromised does not match the user.
BanNobody ==
    /\ pass = "ban"
    /\ pass' = "cut"
    /\ UNCHANGED <<now, enabled, login, session, banned, row, cur, todo,
                   scanned, warned, faults>>

\* mark_compromised
Ban ==
    /\ pass = "ban"
    /\ banned' = banned \cup {cur}
    /\ pass' = "cut"
    /\ UNCHANGED <<now, enabled, login, session, row, cur, todo, scanned,
                   warned, faults>>

\* The user's connection is closed and forgotten; the next entry follows.
Cut ==
    /\ pass = "cut"
    /\ session' = [session EXCEPT ![cur] = FALSE]
    /\ cur' = NoUser
    /\ pass' = IF todo = {} THEN "sleep" ELSE "warn"
    /\ UNCHANGED <<now, enabled, login, banned, row, todo, scanned, warned,
                   faults>>

\* A statement on the database raises: the rest of the pass is given up.
PassFails ==
    /\ faults < MaxFaults
    /\ pass \in {"warn", "mark", "ban"}
    /\ faults' = faults + 1
    /\ pass' = "sleep"
    /\ cur' = NoUser
    /\ todo' = {}
    /\ UNCHANGED <<now, enabled, login, session, banned, row, scanned, warned>>

Restart ==
    /\ faults < MaxFaults
    /\ faults' = faults + 1
    /\ pass' = "sleep"
    /\ cur' = NoUser
    /\ todo' = {}
    /\ login' = [u \in Users |-> "none"]
    /\ session' = [u \in Users |-> FALSE]
    /\ UNCHANGED <<now, enabled, banned, row, scanned, warned>>

-----------------------------------------------------------------------------

UserStep(u) ==
    \/ LoginCheck(u)
    \/ LoginRegister(u)
    \/ LoginCheckin(u)
    \/ LoginCheckinFails(u)
    \/ Disconnect(u)
    \/ \E where \in Recipients : Store(u, where)
    \/ Disable(u)

Maintenance ==
    \/ Scan
    \/ \E e \in Entries : Warn(e)
    \/ Mark
    \/ Ban
    \/ Cut

Next ==
    \/ Tick
    \/ \E u \in Users : UserStep(u)
    \/ Maintenance
    \/ PassFails
    \/ Restart

Spec == Init /\ [][Next]_vars

\* The maintenance thread wakes up again and again and goes on.
FairSpec == Spec /\ WF_vars(Maintenance)

-----------------------------------------------------------------------------
(* Properties.                                                             *)

\* Users on whom the maintenance thread is at work.
Selected == {e.user : e \in todo} \cup ({cur} \ {NoUser})

\* Switch: a user is on the list only if it had been silent for more than its
\* grace period when the list was made; a check-in since then is the one
\* excuse (get_expired_deadman_messages, _trigger_deadman).
NoHastyTrigger ==
    \A u \in Selected :
        \/ row[u].last + Grace < scanned
        \/ scanned <= row[u].last

\* Switch: between two resets of its timer a user's warning is sent once, and
\* once more at most for each pass or process that broke off half way.
WarnedOncePerFault ==
    \A u \in Users : warned[u] <= 1 + faults

\* Switch: the ban follows the mark unless something failed in between; no
\* interleaved login or stored warning leaves a triggered user unbanned.
TriggeredThenBanned ==
    \A u \in Users :
        row[u] # NoRow /\ row[u].triggered /\ faults = 0 =>
            u \in banned \/ (pass = "ban" /\ cur = u)

\* Switch: the warning of a silent user is sent in the end, failed passes and
\* restarts notwithstanding, unless the user's timer is reset first
\* (_maintenance_loop, _check_and_trigger_deadman).
WarningComes ==
    \A u \in Users :
        Expired(u) /\ row[u].recipient = "local" ~>
            warned[u] > 0 \/ (row[u] # NoRow /\ now <= row[u].last + Grace)

-----------------------------------------------------------------------------
(* What the repository says of the switch and the code does not do.        *)

\* server.py:504: the check-in at login keeps the switch from going off on a
\* user who is online.
OnlineIsSafe ==
    pass = "mark" => ~session[cur]

\* CRYPTOGRAPHY_WHITEPAPER.md:392: the switch can be turned off.
DisabledStaysSilent ==
    pass = "mark" => enabled[cur]

-----------------------------------------------------------------------------
(* Strengthening that is inductive.                                        *)

\* The maintenance thread works on users that have a row.
WorkInv ==
    /\ \A u \in Selected : row[u] # NoRow
    /\ pass \in {"mark", "ban", "cut"} <=> cur # NoUser
    /\ pass = "sleep" => todo = {}
    /\ \A e \in todo : e.user # cur
    /\ \A d, e \in todo : d.user = e.user => d = e

ClockInv ==
    /\ scanned <= now
    /\ \A u \in Users : row[u] # NoRow => row[u].last <= now

\* Who will be warned again has been warned once per fault at most.
OnceInv ==
    \A u \in Users :
        /\ warned[u] <= 1 + faults
        /\ (\E e \in todo : e.user = u) => warned[u] <= faults
        /\ Armed(u) /\ ~(pass = "mark" /\ cur = u) => warned[u] <= faults

IndInv ==
    /\ TypeOK
    /\ WorkInv
    /\ ClockInv
    /\ NoHastyTrigger
    /\ OnceInv
    /\ TriggeredThenBanned

=============================================================================
