------------------------------- MODULE GroupKeys -------------------------------
(***************************************************************************)
(* The membership of the groups and the delivery of the group keys         *)
(* (server/chat/group.py and the handlers of server/chat/server.py that    *)
(* call it).                                                               *)
(*                                                                         *)
(* A group has one key, made with the group and never changed.  Whoever    *)
(* becomes a member is sent the key: at once if the connection table has   *)
(* an entry for it, else by a row that its next login pushes.  The table   *)
(* is read without its lock, so an entry found may be gone or replaced     *)
(* when it is used.  The database has one writer at a time; the push of    *)
(* the rows keeps it from its first UPDATE to its commit.                  *)
(*                                                                         *)
(* promote_admin, delete_group and unfederate_group have no caller: the    *)
(* only administrator of a group is its owner and no group goes away.      *)
(***************************************************************************)
EXTENDS Naturals

CONSTANTS
    Users,      \* users of this server
    Groups,     \* group_id's
    Threads,    \* threads of connections
    MaxLogins,  \* bound on the logins of all users together
    NoUser, NoGroup

ASSUME UserAssumption == NoUser \notin Users
ASSUME GroupAssumption == NoGroup \notin Groups
ASSUME LoginAssumption == MaxLogins \in Nat

VARIABLES
    owner,      \* groups.owner_uuid; NoUser where there is no group
    members,    \* group_members
    row,        \* group_key_deliveries: none, delivered = 0 or 1
    serial,     \* number of logins so far; a connection is known by the
                \* number of its login
    logins,     \* last login of each user with this process, or 0
    entries,    \* users in self.connections, by their last login
    open,       \* users whose last login still has its socket
    keys,       \* users whose client has received the key of the group
    lost,       \* users the key was written to in vain, or not written to
                \* because it could not be sealed or the handler broke off
    pc,         \* where each thread is
    group,      \* group_id of the running handler
    member,     \* member_uuid of the running deliver_group_key, or the user
                \* whose login pushes its rows
    todo,       \* members the running handler has still to deliver to
    target,     \* login that conn_obj belongs to
    fetched,    \* rows a login has selected and not yet worked on
    marked      \* rows it has updated and not yet committed

tables == <<owner, members, row>>
sessions == <<serial, logins, entries, open>>
clients == <<keys, lost>>
locals == <<pc, group, member, todo, target, fetched, marked>>
vars == <<tables, sessions, clients, locals>>

Flushing == {"select", "flush", "mark"}
Delivering == {"deliver", "stash", "index", "push"}

TypeOK ==
    /\ owner \in [Groups -> Users \cup {NoUser}]
    /\ members \in [Groups -> SUBSET Users]
    /\ row \in [Groups -> [Users -> {"none", "waiting", "delivered"}]]
    /\ serial \in 0..MaxLogins
    /\ logins \in [Users -> 0..MaxLogins]
    /\ entries \in SUBSET Users
    /\ open \in SUBSET entries
    /\ keys \in [Groups -> SUBSET Users]
    /\ lost \in [Groups -> SUBSET Users]
    /\ pc \in [Threads -> {"idle"} \cup Flushing \cup Delivering]
    /\ group \in [Threads -> Groups \cup {NoGroup}]
    /\ member \in [Threads -> Users \cup {NoUser}]
    /\ todo \in [Threads -> SUBSET Users]
    /\ target \in [Threads -> 0..MaxLogins]
    /\ fetched \in [Threads -> SUBSET Groups]
    /\ marked \in [Threads -> SUBSET Groups]

Init ==
    /\ owner = [g \in Groups |-> NoUser]
    /\ members = [g \in Groups |-> {}]
    /\ row = [g \in Groups |-> [u \in Users |-> "none"]]
    /\ serial = 0
    /\ logins = [u \in Users |-> 0]
    /\ entries = {}
    /\ open = {}
    /\ keys = [g \in Groups |-> {}]
    /\ lost = [g \in Groups |-> {}]
    /\ pc = [t \in Threads |-> "idle"]
    /\ group = [t \in Threads |-> NoGroup]
    /\ member = [t \in Threads |-> NoUser]
    /\ todo = [t \in Threads |-> {}]
    /\ target = [t \in Threads |-> 0]
    /\ fetched = [t \in Threads |-> {}]
    /\ marked = [t \in Threads |-> {}]

-----------------------------------------------------------------------------
(* Helpers.                                                                *)

\* No other thread is between its first UPDATE and its commit.
MayWrite(t) == \A s \in Threads \ {t} : marked[s] = {}

\* _send_raw to the connection of login n of user u.
Written(g, u, n) ==
    IF u \in open /\ n = logins[u]
    THEN /\ keys' = [keys EXCEPT ![g] = @ \cup {u}]
         /\ lost' = lost
    ELSE /\ lost' = [lost EXCEPT ![g] = @ \cup {u}]
         /\ keys' = keys

\* deliver_group_key is called for every user of us in turn.
StartDelivery(t, g, us) ==
    /\ pc' = [pc EXCEPT ![t] = "deliver"]
    /\ group' = [group EXCEPT ![t] = g]
    /\ todo' = [todo EXCEPT ![t] = us]
    /\ UNCHANGED <<member, target, fetched, marked>>

\* The next member's turn, or the end of the handler.
DeliveryDone(t) ==
    /\ pc' = [pc EXCEPT ![t] = IF todo[t] = {} THEN "idle" ELSE "deliver"]
    /\ group' = IF todo[t] = {} THEN [group EXCEPT ![t] = NoGroup] ELSE group
    /\ member' = [member EXCEPT ![t] = NoUser]
    /\ target' = [target EXCEPT ![t] = 0]
    /\ UNCHANGED <<todo, fetched, marked>>

\* The handler is over: its local variables are no more.
HandlerDone(t) ==
    /\ pc' = [pc EXCEPT ![t] = "idle"]
    /\ group' = [group EXCEPT ![t] = NoGroup]
    /\ member' = [member EXCEPT ![t] = NoUser]
    /\ todo' = [todo EXCEPT ![t] = {}]
    /\ fetched' = [fetched EXCEPT ![t] = {}]
    /\ marked' = [marked EXCEPT ![t] = {}]
    /\ UNCHANGED target

\* Members the running handler of t still owes the key.
Owed(t) ==
    IF pc[t] \notin Delivering THEN {}
    ELSE IF pc[t] = "deliver" THEN todo[t]
    ELSE todo[t] \cup {member[t]}

-----------------------------------------------------------------------------
(* The connections, as far as this component sees them.                    *)

\* _handle_login registers the connection, in place of an older one, and
\* goes on to flush_pending_group_keys.
Login(t, u) ==
    /\ pc[t] = "idle"
    /\ serial < MaxLogins
    /\ serial' = serial + 1
    /\ logins' = [logins EXCEPT ![u] = serial + 1]
    /\ entries' = entries \cup {u}
    /\ open' = open \cup {u}
    /\ pc' = [pc EXCEPT ![t] = "select"]
    /\ member' = [member EXCEPT ![t] = u]
    /\ UNCHANGED <<tables, clients, group, todo, target, fetched, marked>>

\* The client or the network goes away and the server has not noticed.
Vanish(u) ==
    /\ u \in open
    /\ open' = open \ {u}
    /\ UNCHANGED <<tables, serial, logins, entries, clients, locals>>

\* The end of the receive loop, a timeout or an eviction.
Disconnect(u) ==
    /\ u \in entries
    /\ entries' = entries \ {u}
    /\ open' = open \ {u}
    /\ UNCHANGED <<tables, serial, logins, clients, locals>>

-----------------------------------------------------------------------------
(* Membership.                                                             *)

\* create_group: the owner and the members it names.
Create(t, g, a, us) ==
    /\ pc[t] = "idle"
    /\ logins[a] > 0
    /\ owner[g] = NoUser
    /\ MayWrite(t)
    /\ owner' = [owner EXCEPT ![g] = a]
    /\ members' = [members EXCEPT ![g] = us \cup {a}]
    /\ StartDelivery(t, g, us \cup {a})
    /\ UNCHANGED <<row, sessions, clients>>

\* INSERT OR IGNORE INTO group_members; only a new member is sent the key.
Enrol(t, g, u) ==
    /\ pc[t] = "idle"
    /\ owner[g] # NoUser
    /\ u \notin members[g]
    /\ MayWrite(t)
    /\ members' = [members EXCEPT ![g] = @ \cup {u}]
    /\ StartDelivery(t, g, {u})
    /\ UNCHANGED <<owner, row, sessions, clients>>

\* join_group
Join(t, g, u) == logins[u] > 0 /\ Enrol(t, g, u)

\* add_member, by the owner; u need not be online.
Add(t, g, a, u) == logins[a] > 0 /\ owner[g] = a /\ Enrol(t, g, u)

\* leave_group, or remove_member by the owner or the member itself.  Neither
\* the key nor the row of the member is touched.
Leave(g, a, u) ==
    /\ logins[a] > 0
    /\ a = u \/ owner[g] = a
    /\ u \in members[g]
    /\ \A t \in Threads : marked[t] = {}
    /\ members' = [members EXCEPT ![g] = @ \ {u}]
    /\ UNCHANGED <<owner, row, sessions, clients, locals>>

-----------------------------------------------------------------------------
(* deliver_group_key.                                                      *)

\* seal_group_key_for_member returns None: the server has no key of its own,
\* the member is not registered here or its key on file is of no use, which
\* every REGISTER may change.  deliver_group_key returns False and no caller
\* looks: neither a message nor a row is made.
DeliverUnsealed(t, u) ==
    /\ pc[t] = "deliver"
    /\ u \in todo[t]
    /\ todo' = [todo EXCEPT ![t] = @ \ {u}]
    /\ lost' = [lost EXCEPT ![group[t]] = @ \cup {u}]
    /\ pc' = [pc EXCEPT ![t] = IF todo[t] = {u} THEN "idle" ELSE "deliver"]
    /\ group' = [group EXCEPT ![t] = IF todo[t] = {u} THEN NoGroup ELSE @]
    /\ UNCHANGED <<tables, sessions, keys, member, target, fetched, marked>>

\* The key is sealed and "member_uuid not in connections" decides.
DeliverCheck(t, u) ==
    /\ pc[t] = "deliver"
    /\ u \in todo[t]
    /\ todo' = [todo EXCEPT ![t] = @ \ {u}]
    /\ member' = [member EXCEPT ![t] = u]
    /\ pc' = [pc EXCEPT ![t] = IF u \in entries THEN "index" ELSE "stash"]
    /\ UNCHANGED <<tables, sessions, clients, group, target, fetched, marked>>

\* Offline: INSERT OR REPLACE with delivered = 0.
Stash(t) ==
    /\ pc[t] = "stash"
    /\ MayWrite(t)
    /\ row' = [row EXCEPT ![group[t]][member[t]] = "waiting"]
    /\ DeliveryDone(t)
    /\ UNCHANGED <<owner, members, sessions, clients>>

\* Online: connections[member_uuid].
Index(t) ==
    /\ pc[t] = "index"
    /\ member[t] \in entries
    /\ target' = [target EXCEPT ![t] = logins[member[t]]]
    /\ pc' = [pc EXCEPT ![t] = "push"]
    /\ UNCHANGED <<tables, sessions, clients, group, member, todo, fetched,
                   marked>>

\* GROUP_KEY_UPDATE to conn_obj.
Push(t) ==
    /\ pc[t] = "push"
    /\ Written(group[t], member[t], target[t])
    /\ DeliveryDone(t)
    /\ UNCHANGED <<tables, sessions>>

\* Some step raises: the entry is gone (KeyError), or the database stays
\* locked for too long.  The rest of the deliveries are not made, and the
\* connection the request came on is closed: the owner's, or the one of the
\* member that joins, which may have been replaced meanwhile.
DeliverFails(t) ==
    /\ \/ pc[t] \in {"deliver", "stash"}
       \/ pc[t] = "index" /\ member[t] \notin entries
    /\ lost' = [lost EXCEPT ![group[t]] = @ \cup Owed(t)]
    /\ HandlerDone(t)
    /\ \E cut \in {{}} \cup {{u} : u \in Owed(t) \cup {owner[group[t]]}} :
          /\ entries' = entries \ cut
          /\ open' = open \ cut
    /\ UNCHANGED <<tables, serial, logins, keys>>

-----------------------------------------------------------------------------
(* flush_pending_group_keys.                                               *)

\* Rows of u that count as not delivered.
Waiting(u) == {g \in Groups : row[g][u] = "waiting"}

FlushSelect(t) ==
    /\ pc[t] = "select"
    /\ Waiting(member[t]) # {}
    /\ fetched' = [fetched EXCEPT ![t] = Waiting(member[t])]
    /\ pc' = [pc EXCEPT ![t] = "flush"]
    /\ UNCHANGED <<tables, sessions, clients, group, member, todo, target, marked>>

FlushNothing(t) ==
    /\ pc[t] = "select"
    /\ Waiting(member[t]) = {}
    /\ HandlerDone(t)
    /\ UNCHANGED <<tables, sessions, clients>>

\* connections.get(uuid_str) finds the user's last login, whichever login
\* this thread belongs to.
FlushPush(t, g) ==
    /\ pc[t] = "flush"
    /\ g \in fetched[t]
    /\ member[t] \in entries
    /\ Written(g, member[t], logins[member[t]])
    /\ fetched' = [fetched EXCEPT ![t] = @ \ {g}]
    /\ group' = [group EXCEPT ![t] = g]
    /\ pc' = [pc EXCEPT ![t] = "mark"]
    /\ UNCHANGED <<tables, sessions, member, todo, target, marked>>

\* UPDATE ... SET delivered = 1, not yet committed.
FlushMark(t) ==
    /\ pc[t] = "mark"
    /\ MayWrite(t)
    /\ marked' = [marked EXCEPT ![t] = @ \cup {group[t]}]
    /\ pc' = [pc EXCEPT ![t] = "flush"]
    /\ group' = [group EXCEPT ![t] = NoGroup]
    /\ UNCHANGED <<tables, sessions, clients, member, todo, target, fetched>>

\* Mutant: all rows of the user are marked in one statement at the end.
FlushCommitAll(t) ==
    /\ pc[t] = "flush"
    /\ fetched[t] = {} \/ member[t] \notin entries
    /\ row' = [g \in Groups |-> [u \in Users |->
                  IF row[g][u] = "waiting" /\ u = member[t]
                  THEN "delivered" ELSE row[g][u]]]
    /\ HandlerDone(t)
    /\ UNCHANGED <<owner, members, sessions, clients>>

\* Mutant: the user has gone and the loop is left by a return, with the
\* transaction open.
FlushReturns(t) ==
    /\ pc[t] = "flush"
    /\ fetched[t] = {} \/ member[t] \notin entries
    /\ row' = IF fetched[t] # {} THEN row
              ELSE [g \in Groups |-> [u \in Users |->
                       IF g \in marked[t] /\ u = member[t]
                       THEN "delivered" ELSE row[g][u]]]
    /\ marked' = IF fetched[t] # {} THEN marked ELSE [marked EXCEPT ![t] = {}]
    /\ pc' = [pc EXCEPT ![t] = "idle"]
    /\ member' = [member EXCEPT ![t] = NoUser]
    /\ fetched' = [fetched EXCEPT ![t] = {}]
    /\ UNCHANGED <<owner, members, sessions, clients, group, todo, target>>

\* The rows are worked off, or the user has gone: commit.
FlushCommit(t) ==
    /\ pc[t] = "flush"
    /\ fetched[t] = {} \/ member[t] \notin entries
    /\ row' = [g \in Groups |-> [u \in Users |->
                  IF g \in marked[t] /\ u = member[t]
                  THEN "delivered" ELSE row[g][u]]]
    /\ HandlerDone(t)
    /\ UNCHANGED <<owner, members, sessions, clients>>

\* A statement raises: nothing is committed and the login goes on.
FlushFails(t) ==
    /\ pc[t] \in Flushing
    /\ HandlerDone(t)
    /\ UNCHANGED <<tables, sessions, clients>>

\* The process dies and is started again.
Restart ==
    /\ \E t \in Threads : pc[t] # "idle"
    /\ logins' = [u \in Users |-> 0]
    /\ entries' = {}
    /\ open' = {}
    /\ lost' = [g \in Groups |-> lost[g] \cup
                   UNION {Owed(t) : t \in {s \in Threads : group[s] = g}}]
    /\ pc' = [t \in Threads |-> "idle"]
    /\ group' = [t \in Threads |-> NoGroup]
    /\ member' = [t \in Threads |-> NoUser]
    /\ todo' = [t \in Threads |-> {}]
    /\ target' = [t \in Threads |-> 0]
    /\ fetched' = [t \in Threads |-> {}]
    /\ marked' = [t \in Threads |-> {}]
    /\ UNCHANGED <<tables, serial, keys>>

-----------------------------------------------------------------------------

\* One step of the handler that thread t is running.
HandlerStep(t) ==
    \/ \E u \in Users : DeliverUnsealed(t, u)
    \/ \E u \in Users : DeliverCheck(t, u)
    \/ Stash(t)
    \/ Index(t)
    \/ Push(t)
    \/ FlushSelect(t)
    \/ FlushNothing(t)
    \/ \E g \in Groups : FlushPush(t, g)
    \/ FlushMark(t)
    \/ FlushCommit(t)

Next ==
    \/ \E t \in Threads :
          \/ \E u \in Users : Login(t, u)
          \/ \E g \in Groups, a \in Users : \E us \in SUBSET Users :
                Create(t, g, a, us)
          \/ \E g \in Groups, u \in Users : Join(t, g, u)
          \/ \E g \in Groups, a \in Users, u \in Users : Add(t, g, a, u)
          \/ HandlerStep(t)
          \/ DeliverFails(t)
          \/ FlushFails(t)
    \/ \E g \in Groups, a \in Users, u \in Users : Leave(g, a, u)
    \/ \E u \in Users : Vanish(u) \/ Disconnect(u)
    \/ Restart

Spec == Init /\ [][Next]_vars

\* A running handler is not stopped for ever.
FairSpec == Spec /\ \A t \in Threads : WF_vars(HandlerStep(t))

-----------------------------------------------------------------------------
(* Properties.                                                             *)

\* Keys: a member has the key of its group, or a row will push it at its next
\* login, or a handler is about to deliver it; the exceptions are a key that
\* could not be sealed, a write to a dead socket and a handler that broke off
\* (deliver_group_key, flush_pending_group_keys).
NoForgottenMember ==
    \A g \in Groups : \A u \in members[g] :
        \/ u \in keys[g]
        \/ row[g][u] = "waiting"
        \/ u \in lost[g]
        \/ \E t \in Threads : group[t] = g /\ u \in Owed(t)

\* Keys: a login that pushes rows holds the database from its first UPDATE on,
\* while it writes the next rows to its client, and gives it back whether the
\* user stays or not: it is free again and again (flush_pending_group_keys).
DatabaseReleased ==
    []<>(\A t \in Threads : marked[t] = {})

-----------------------------------------------------------------------------
(* What the repository says of the code and the code does not do.          *)

\* CRYPTOGRAPHY_WHITEPAPER.md:510: the key is changed when a member is removed,
\* for forward secrecy: a login is pushed the keys of the user's groups only.
FormerMembersLearnNothing ==
    [][\A t \in Threads, g \in Groups :
          FlushPush(t, g) => member[t] \in members[g]]_vars
-----------------------------------------------------------------------------
(* Strengthening that is inductive.                                        *)

\* What a thread has in its local variables.
PlaceInv ==
    \A t \in Threads :
        /\ pc[t] \in Delivering \cup {"mark"} => group[t] \in Groups
        /\ pc[t] \in Flushing \cup {"stash", "index", "push"} =>
              member[t] \in Users

\* A row is marked after its key was written.
MarkInv ==
    \A t \in Threads :
        /\ \A g \in marked[t] : member[t] \in keys[g] \cup lost[g]
        /\ pc[t] = "mark" => member[t] \in keys[group[t]] \cup lost[group[t]]
        /\ marked[t] # {} => pc[t] \in {"flush", "mark"}

IndInv == TypeOK /\ PlaceInv /\ MarkInv /\ NoForgottenMember

=============================================================================
