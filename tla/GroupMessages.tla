---------------------------- MODULE GroupMessages ----------------------------
(***************************************************************************)
(* The messages of a group: send_message, distribute_group_message and the *)
(* federation links of server/chat/group.py, with the handlers of          *)
(* server/chat/server.py that call them.                                   *)
(*                                                                         *)
(* A message goes to the members that were listed once, one after the      *)
(* other, while users join, leave, come and go. The connection table is    *)
(* read without its lock, and a connection found may have lost its socket  *)
(* when it is written to. GroupKeys has the groups and their keys; here    *)
(* there is one group, and who joins or leaves it is a choice.             *)
(***************************************************************************)
EXTENDS Naturals

CONSTANTS Participants,       \* users of this server
          Texts,        \* messages
          Partners,     \* other servers
          MaxSessions,  \* bound of the logins
          NoSession, NoPerson

ASSUME GroupMessageAssumption ==
    /\ MaxSessions \in Nat /\ NoSession \notin 1 .. MaxSessions /\ NoPerson \notin Participants

VARIABLES
    member,     \* group_members
    session,    \* self.connections: the login that made each entry
    alive,      \* logins that have their socket
    made,       \* logins so far
    links,      \* group_federation
    federated,  \* groups.is_federated
    shelf,      \* group_messages
    send,       \* the thread of each message
    got,        \* who was sent it
    present,    \* who was a member at some time while it was sent
    steady      \* who has been one since, on one connection or on none

groupVars == <<member, session, alive, made, links, federated, shelf, send, got, present, steady>>

NoSend == [at |-> "new"]

MessagesInit ==
    /\ member = {} /\ session = [u \in Participants |-> NoSession] /\ alive = {} /\ made = 0
    /\ links = {} /\ federated \in BOOLEAN /\ shelf = {}
    /\ send = [t \in Texts |-> NoSend]
    /\ got = [t \in Texts |-> {}] /\ present = [t \in Texts |-> {}]
    /\ steady = [t \in Texts |-> {}]

SendAt(t, step) == send[t].at = step
UnderWay(t) == send[t].at \notin {"new", "sent", "refused"}

-----------------------------------------------------------------------------
(* What the others do meanwhile. *)

JoinGroup(u) ==
    /\ u \notin member /\ member' = member \cup {u}
    /\ present' = [t \in Texts |-> IF UnderWay(t) THEN present[t] \cup {u} ELSE present[t]]
    /\ UNCHANGED <<session, alive, made, links, federated, shelf, send, got, steady>>

Unsettled(u) == steady' = [t \in Texts |-> steady[t] \ {u}]

LeaveGroup(u) ==
    /\ u \in member /\ member' = member \ {u} /\ Unsettled(u)
    /\ UNCHANGED <<session, alive, made, links, federated, shelf, send, got, present>>

TakeSession(u) ==
    /\ made < MaxSessions /\ made' = made + 1
    /\ session' = [session EXCEPT ![u] = made + 1]
    /\ alive' = (alive \ {session[u]}) \cup {made + 1} /\ Unsettled(u)
    /\ UNCHANGED <<member, links, federated, shelf, send, got, present>>

\* The socket breaks before the entry is removed, or both at once.
BreakSocket(u) ==
    /\ session[u] \in alive /\ alive' = alive \ {session[u]} /\ Unsettled(u)
    /\ UNCHANGED <<member, session, made, links, federated, shelf, send, got, present>>

RemoveEntry(u) ==
    /\ session[u] # NoSession
    /\ session' = [session EXCEPT ![u] = NoSession]
    /\ alive' = alive \ {session[u]} /\ Unsettled(u)
    /\ UNCHANGED <<member, made, links, federated, shelf, send, got, present>>

\* federate_group asks for no right to the group.
FederateGroup(p) ==
    /\ links' = links \cup {p} /\ federated' = TRUE
    /\ UNCHANGED <<member, session, alive, made, shelf, send, got, present, steady>>

-----------------------------------------------------------------------------
(* send_message. *)

\* is_member; keyed: whether the text opens with the group's key.
CheckSender(t, u, keyed) ==
    /\ SendAt(t, "new") /\ session[u] \in alive
    /\ IF u \in member /\ keyed
       THEN /\ send' = [send EXCEPT ![t] =
                   [at |-> "list", from |-> u, todo |-> {}, next |-> NoPerson,
                    target |-> NoSession, relays |-> {}, local |-> 0, offline |-> {},
                    remote |-> {}]]
            /\ present' = [present EXCEPT ![t] = member]
            /\ steady' = [steady EXCEPT ![t] = member \ {u}]
       ELSE send' = [send EXCEPT ![t] = [at |-> "refused"]] /\ UNCHANGED <<present, steady>>
    /\ UNCHANGED <<member, session, alive, made, links, federated, shelf, got>>

ListMembers(t) ==
    /\ SendAt(t, "list")
    /\ send' = [send EXCEPT ![t].at = "links", ![t].todo = member \ {send[t].from}]
    /\ UNCHANGED <<member, session, alive, made, links, federated, shelf, got, present, steady>>

ListLinks(t) ==
    /\ SendAt(t, "links")
    /\ send' = [send EXCEPT ![t].at = "store", ![t].relays = links]
    /\ UNCHANGED <<member, session, alive, made, links, federated, shelf, got, present, steady>>

StoreText(t) ==
    /\ SendAt(t, "store")
    /\ shelf' = shelf \cup {t}
    /\ send' = [send EXCEPT ![t].at = "deliver"]
    /\ UNCHANGED <<member, session, alive, made, links, federated, got, present, steady>>

\* Mutant: the first member that is away ends the round.
LookUpBreaks(t, u) ==
    /\ SendAt(t, "deliver") /\ send[t].next = NoPerson /\ u \in send[t].todo
    /\ send' = IF session[u] = NoSession
               THEN [send EXCEPT ![t].todo = {}, ![t].offline = @ \cup {u}]
               ELSE [send EXCEPT ![t].todo = @ \ {u}, ![t].next = u, ![t].target = session[u]]
    /\ UNCHANGED <<member, session, alive, made, links, federated, shelf, got, present, steady>>

\* The entry of the next member is looked up; one that is away is counted.
LookUp(t, u) ==
    /\ SendAt(t, "deliver") /\ send[t].next = NoPerson /\ u \in send[t].todo
    /\ send' = IF session[u] = NoSession
               THEN [send EXCEPT ![t].todo = @ \ {u}, ![t].offline = @ \cup {u}]
               ELSE [send EXCEPT ![t].todo = @ \ {u}, ![t].next = u, ![t].target = session[u]]
    /\ UNCHANGED <<member, session, alive, made, links, federated, shelf, got, present, steady>>

\* _send_raw: a socket that is gone swallows the message, and it counts.
WriteText(t) ==
    LET u == send[t].next
    IN  /\ SendAt(t, "deliver") /\ u # NoPerson
        /\ got' = IF send[t].target \in alive THEN [got EXCEPT ![t] = @ \cup {u}] ELSE got
        /\ send' = [send EXCEPT ![t].next = NoPerson, ![t].target = NoSession, ![t].local = @ + 1]
        /\ UNCHANGED <<member, session, alive, made, links, federated, shelf, present, steady>>

\* Each partner counts as reached whatever send_to_server answers; a partner
\* that is reached has no handler for RELAY_GROUP_MSG.
RelayToPartner(t, p) ==
    /\ SendAt(t, "deliver") /\ send[t].todo = {} /\ send[t].next = NoPerson
    /\ p \in send[t].relays
    /\ send' = [send EXCEPT ![t].relays = @ \ {p}, ![t].remote = @ \cup {p}]
    /\ UNCHANGED <<member, session, alive, made, links, federated, shelf, got, present, steady>>

Sent(t) ==
    /\ SendAt(t, "deliver") /\ send[t].todo = {} /\ send[t].next = NoPerson
    /\ send[t].relays = {}
    /\ send' = [send EXCEPT ![t].at = "sent"]
    /\ UNCHANGED <<member, session, alive, made, links, federated, shelf, got, present, steady>>

MessagesNext ==
    \/ \E u \in Participants : JoinGroup(u) \/ LeaveGroup(u) \/ TakeSession(u) \/ BreakSocket(u) \/ RemoveEntry(u)
    \/ \E p \in Partners : FederateGroup(p)
    \/ \E t \in Texts :
          \/ ListMembers(t) \/ ListLinks(t) \/ StoreText(t) \/ WriteText(t) \/ Sent(t)
          \/ \E u \in Participants : LookUp(t, u) \/ \E keyed \in BOOLEAN : CheckSender(t, u, keyed)
          \/ \E p \in Partners : RelayToPartner(t, p)

MessagesSpec == MessagesInit /\ [][MessagesNext]_groupVars

-----------------------------------------------------------------------------

MessagesTypeOK ==
    /\ member \subseteq Participants /\ alive \subseteq 1 .. MaxSessions
    /\ session \in [Participants -> 1 .. MaxSessions \cup {NoSession}] /\ made \in 0 .. MaxSessions
    /\ links \subseteq Partners /\ federated \in BOOLEAN /\ shelf \subseteq Texts
    /\ \A t \in Texts :
          /\ send[t].at \in {"new", "refused", "list", "links", "store", "deliver", "sent"}
          /\ got[t] \subseteq Participants /\ present[t] \subseteq Participants /\ steady[t] \subseteq Participants

\* Who gets a message, once it is sent: everybody who was a member all the while
\* on one connection; those who were members without one are counted and the
\* message is on the shelf; and nobody who was never a member meanwhile.
RightAudience ==
    \A t \in Texts :
        /\ got[t] \subseteq present[t]
        /\ SendAt(t, "sent") =>
              \A u \in steady[t] : IF session[u] \in alive THEN u \in got[t]
                                   ELSE session[u] = NoSession =>
                                            u \in send[t].offline /\ t \in shelf

=============================================================================
