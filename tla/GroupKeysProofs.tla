---------------------------- MODULE GroupKeysProofs ----------------------------
(***************************************************************************)
(* No member of a group is forgotten by the delivery of the group keys, for *)
(* any number of users, groups, threads and logins.                        *)
(***************************************************************************)
EXTENDS GroupKeys, TLAPS

LEMMA StepCases ==
    ASSUME Next
    PROVE  \/ \E t \in Threads, u \in Users : Login(t, u)
           \/ \E t \in Threads, g \in Groups, a \in Users, us \in SUBSET Users : Create(t, g, a, us)
           \/ \E t \in Threads, g \in Groups, u \in Users : Enrol(t, g, u)
           \/ \E t \in Threads, u \in Users : DeliverCheck(t, u)
           \/ \E t \in Threads, u \in Users : DeliverUnsealed(t, u)
           \/ \E t \in Threads : Stash(t)
           \/ \E t \in Threads : Index(t)
           \/ \E t \in Threads : Push(t)
           \/ \E t \in Threads : FlushSelect(t)
           \/ \E t \in Threads : FlushNothing(t)
           \/ \E t \in Threads, g \in Groups : FlushPush(t, g)
           \/ \E t \in Threads : FlushMark(t)
           \/ \E t \in Threads : FlushCommit(t)
           \/ \E t \in Threads : DeliverFails(t)
           \/ \E t \in Threads : FlushFails(t)
           \/ \E g \in Groups, a \in Users, u \in Users : Leave(g, a, u)
           \/ \E u \in Users : Vanish(u)
           \/ \E u \in Users : Disconnect(u)
           \/ Restart
BY DEF Next, HandlerStep, Join, Add

\* A write to a client is recorded in keys or in lost.
LEMMA WrittenRecorded ==
    ASSUME TypeOK, NEW g \in Groups, NEW u \in Users, NEW n, Written(g, u, n)
    PROVE  /\ keys' \in [Groups -> SUBSET Users]
           /\ lost' \in [Groups -> SUBSET Users]
           /\ u \in keys'[g] \cup lost'[g]
           /\ \A h \in Groups : keys[h] \subseteq keys'[h] /\ lost[h] \subseteq lost'[h]
<1> DEFINE With(f) == [f EXCEPT ![g] = @ \cup {u}]
<1>1. \/ keys' = With(keys) /\ lost' = lost
      \/ lost' = With(lost) /\ keys' = keys
    BY DEF Written
<1>2. keys \in [Groups -> SUBSET Users] /\ lost \in [Groups -> SUBSET Users]
    BY DEF TypeOK
<1>3. CASE keys' = With(keys) /\ lost' = lost
    BY <1>2, <1>3
<1>4. CASE lost' = With(lost) /\ keys' = keys
    BY <1>2, <1>4
<1> QED
    BY <1>1, <1>3, <1>4

LEMMA OwedUsers ==
    ASSUME TypeOK, PlaceInv, NEW t \in Threads
    PROVE  Owed(t) \in SUBSET Users
BY DEF TypeOK, PlaceInv, Owed, Delivering, Flushing

\* What the failure of a delivery and a restart leave behind.
LEMMA BreakingOff ==
    ASSUME TypeOK, PlaceInv, \/ \E t \in Threads : DeliverFails(t)
                             \/ Restart
    PROVE  /\ lost' \in [Groups -> SUBSET Users]
           /\ \A g \in Groups : lost[g] \subseteq lost'[g]
           /\ entries' \in SUBSET Users
           /\ open' \in SUBSET entries'
<1>1. CASE \E t \in Threads : DeliverFails(t)
    <2>1. PICK t \in Threads : DeliverFails(t)
        BY <1>1
    <2>2. Owed(t) \in SUBSET Users
        BY OwedUsers
    <2>3. PICK cut : entries' = entries \ cut /\ open' = open \ cut
        BY <2>1 DEF DeliverFails
    <2> QED
        BY <2>1, <2>2, <2>3 DEF DeliverFails, TypeOK
<1>2. CASE Restart
    <2>1. \A t \in Threads : Owed(t) \in SUBSET Users
        BY OwedUsers
    <2> QED
        BY <1>2, <2>1 DEF Restart, TypeOK
<1> QED
    BY <1>1, <1>2

\* Nobody is forgotten if all that is promised stays promised.
LEMMA PromisesKept ==
    ASSUME TypeOK, NoForgottenMember,
           \A g \in Groups : keys[g] \subseteq keys'[g],
           \A g \in Groups : lost[g] \subseteq lost'[g],
           \A g \in Groups : members'[g] \subseteq members[g],
           \A g \in Groups, u \in Users : row[g][u] = "waiting" =>
               u \in keys'[g] \cup lost'[g] \/ row'[g][u] = "waiting",
           \A t \in Threads, g \in Groups, u \in Users :
               group[t] = g /\ u \in Owed(t) =>
                   \/ u \in keys'[g] \cup lost'[g]
                   \/ row'[g][u] = "waiting"
                   \/ group'[t] = g /\ u \in Owed(t)'
    PROVE  NoForgottenMember'
BY DEF NoForgottenMember, TypeOK

LEMMA TypeStep ==
    ASSUME TypeOK, PlaceInv, Next
    PROVE  TypeOK'
<1> USE UserAssumption, GroupAssumption, LoginAssumption
    DEF TypeOK, PlaceInv, tables, sessions, clients, locals, Flushing, Delivering
<1>1. CASE \E t \in Threads, u \in Users : Login(t, u)
    BY <1>1 DEF Login
<1>2. CASE \E t \in Threads, g \in Groups, a \in Users, us \in SUBSET Users : Create(t, g, a, us)
    BY <1>2 DEF Create, StartDelivery
<1>3. CASE \E t \in Threads, g \in Groups, u \in Users : Enrol(t, g, u)
    BY <1>3 DEF Enrol, StartDelivery
<1>4. CASE \E t \in Threads, u \in Users : DeliverCheck(t, u)
    BY <1>4 DEF DeliverCheck
<1>5. CASE \E t \in Threads : Stash(t)
    BY <1>5 DEF Stash, DeliveryDone
<1>6. CASE \E t \in Threads : Index(t)
    BY <1>6 DEF Index
<1>7. CASE \E t \in Threads : Push(t)
    <2>1. PICK t \in Threads : Push(t)
        BY <1>7
    <2>2. group[t] \in Groups /\ member[t] \in Users
        BY <2>1 DEF Push
    <2> QED
        BY <2>1, <2>2, WrittenRecorded DEF Push, DeliveryDone
<1>8. CASE \E t \in Threads : FlushSelect(t)
    BY <1>8 DEF FlushSelect, Waiting
<1>9. CASE \E t \in Threads : FlushNothing(t)
    BY <1>9 DEF FlushNothing, HandlerDone
<1>10. CASE \E t \in Threads, g \in Groups : FlushPush(t, g)
    <2>1. PICK t \in Threads, g \in Groups : FlushPush(t, g)
        BY <1>10
    <2>2. member[t] \in Users
        BY <2>1 DEF FlushPush
    <2> QED
        BY <2>1, <2>2, WrittenRecorded DEF FlushPush
<1>11. CASE \E t \in Threads : FlushMark(t)
    BY <1>11 DEF FlushMark
<1>12. CASE \E t \in Threads : FlushCommit(t)
    BY <1>12 DEF FlushCommit, HandlerDone
<1>13. CASE \E t \in Threads : DeliverFails(t)
    <2>1. PICK t \in Threads : DeliverFails(t)
        BY <1>13
    <2>2. /\ lost' \in [Groups -> SUBSET Users]
          /\ entries' \in SUBSET Users
          /\ open' \in SUBSET entries'
        BY <1>13, BreakingOff
    <2>3. HandlerDone(t) /\ UNCHANGED <<tables, serial, logins, keys>>
        BY <2>1 DEF DeliverFails
    <2> QED
        BY <2>2, <2>3 DEF HandlerDone
<1>14. CASE \E t \in Threads : FlushFails(t)
    BY <1>14 DEF FlushFails, HandlerDone
<1>15. CASE \E g \in Groups, a \in Users, u \in Users : Leave(g, a, u)
    BY <1>15 DEF Leave
<1>16. CASE \E u \in Users : Vanish(u)
    BY <1>16 DEF Vanish
<1>17. CASE \E u \in Users : Disconnect(u)
    BY <1>17 DEF Disconnect
<1>18. CASE Restart
    BY <1>18, BreakingOff DEF Restart
<1>19. CASE \E t \in Threads, u \in Users : DeliverUnsealed(t, u)
    BY <1>19 DEF DeliverUnsealed
<1> QED
    BY <1>1, <1>2, <1>3, <1>4, <1>5, <1>6, <1>7, <1>8, <1>9, <1>10,
       <1>11, <1>12, <1>13, <1>14, <1>15, <1>16, <1>17, <1>18, <1>19,
       StepCases

LEMMA PlaceStep ==
    ASSUME TypeOK, PlaceInv, Next
    PROVE  PlaceInv'
<1> USE UserAssumption, GroupAssumption
    DEF TypeOK, PlaceInv, tables, sessions, clients, locals, Flushing, Delivering
<1>1. CASE \E t \in Threads, u \in Users : Login(t, u)
    BY <1>1 DEF Login
<1>2. CASE \E t \in Threads, g \in Groups, a \in Users, us \in SUBSET Users : Create(t, g, a, us)
    BY <1>2 DEF Create, StartDelivery
<1>3. CASE \E t \in Threads, g \in Groups, u \in Users : Enrol(t, g, u)
    BY <1>3 DEF Enrol, StartDelivery
<1>4. CASE \E t \in Threads, u \in Users : DeliverCheck(t, u)
    BY <1>4 DEF DeliverCheck
<1>5. CASE \E t \in Threads : Stash(t)
    BY <1>5 DEF Stash, DeliveryDone
<1>6. CASE \E t \in Threads : Index(t)
    BY <1>6 DEF Index
<1>7. CASE \E t \in Threads : Push(t)
    BY <1>7 DEF Push, DeliveryDone, Written
<1>8. CASE \E t \in Threads : FlushSelect(t)
    BY <1>8 DEF FlushSelect, Waiting
<1>9. CASE \E t \in Threads : FlushNothing(t)
    BY <1>9 DEF FlushNothing, HandlerDone
<1>10. CASE \E t \in Threads, g \in Groups : FlushPush(t, g)
    BY <1>10 DEF FlushPush, Written
<1>11. CASE \E t \in Threads : FlushMark(t)
    BY <1>11 DEF FlushMark
<1>12. CASE \E t \in Threads : FlushCommit(t)
    BY <1>12 DEF FlushCommit, HandlerDone
<1>13. CASE \E t \in Threads : DeliverFails(t)
    BY <1>13 DEF DeliverFails, HandlerDone
<1>14. CASE \E t \in Threads : FlushFails(t)
    BY <1>14 DEF FlushFails, HandlerDone
<1>15. CASE \E g \in Groups, a \in Users, u \in Users : Leave(g, a, u)
    BY <1>15 DEF Leave
<1>16. CASE \E u \in Users : Vanish(u)
    BY <1>16 DEF Vanish
<1>17. CASE \E u \in Users : Disconnect(u)
    BY <1>17 DEF Disconnect
<1>18. CASE Restart
    BY <1>18 DEF Restart
<1>19. CASE \E t \in Threads, u \in Users : DeliverUnsealed(t, u)
    BY <1>19 DEF DeliverUnsealed
<1> QED
    BY <1>1, <1>2, <1>3, <1>4, <1>5, <1>6, <1>7, <1>8, <1>9, <1>10,
       <1>11, <1>12, <1>13, <1>14, <1>15, <1>16, <1>17, <1>18, <1>19,
       StepCases

LEMMA MarkStep ==
    ASSUME TypeOK, PlaceInv, MarkInv, Next
    PROVE  MarkInv'
<1> USE DEF TypeOK, PlaceInv, MarkInv, tables, sessions, clients, locals, Flushing,
    Delivering
<1>1. CASE \E t \in Threads, u \in Users : Login(t, u)
    BY <1>1 DEF Login
<1>2. CASE \E t \in Threads, g \in Groups, a \in Users, us \in SUBSET Users : Create(t, g, a, us)
    BY <1>2 DEF Create, StartDelivery
<1>3. CASE \E t \in Threads, g \in Groups, u \in Users : Enrol(t, g, u)
    BY <1>3 DEF Enrol, StartDelivery
<1>4. CASE \E t \in Threads, u \in Users : DeliverCheck(t, u)
    BY <1>4 DEF DeliverCheck
<1>5. CASE \E t \in Threads : Stash(t)
    BY <1>5 DEF Stash, DeliveryDone
<1>6. CASE \E t \in Threads : Index(t)
    BY <1>6 DEF Index
<1>7. CASE \E t \in Threads : Push(t)
    <2>1. PICK t \in Threads : Push(t)
        BY <1>7
    <2>2. group[t] \in Groups /\ member[t] \in Users
        BY <2>1 DEF Push
    <2> QED
        BY <2>1, <2>2, WrittenRecorded DEF Push, DeliveryDone
<1>8. CASE \E t \in Threads : FlushSelect(t)
    BY <1>8 DEF FlushSelect, Waiting
<1>9. CASE \E t \in Threads : FlushNothing(t)
    BY <1>9 DEF FlushNothing, HandlerDone
<1>10. CASE \E t \in Threads, g \in Groups : FlushPush(t, g)
    <2>1. PICK t \in Threads, g \in Groups : FlushPush(t, g)
        BY <1>10
    <2>2. member[t] \in Users
        BY <2>1 DEF FlushPush
    <2> QED
        BY <2>1, <2>2, WrittenRecorded DEF FlushPush
<1>11. CASE \E t \in Threads : FlushMark(t)
    BY <1>11 DEF FlushMark
<1>12. CASE \E t \in Threads : FlushCommit(t)
    BY <1>12 DEF FlushCommit, HandlerDone
<1>13. CASE \E t \in Threads : DeliverFails(t)
    BY <1>13, BreakingOff DEF DeliverFails, HandlerDone
<1>14. CASE \E t \in Threads : FlushFails(t)
    BY <1>14 DEF FlushFails, HandlerDone
<1>15. CASE \E g \in Groups, a \in Users, u \in Users : Leave(g, a, u)
    BY <1>15 DEF Leave
<1>16. CASE \E u \in Users : Vanish(u)
    BY <1>16 DEF Vanish
<1>17. CASE \E u \in Users : Disconnect(u)
    BY <1>17 DEF Disconnect
<1>18. CASE Restart
    BY <1>18, BreakingOff DEF Restart
<1>19. CASE \E t \in Threads, u \in Users : DeliverUnsealed(t, u)
    BY <1>19 DEF DeliverUnsealed
<1> QED
    BY <1>1, <1>2, <1>3, <1>4, <1>5, <1>6, <1>7, <1>8, <1>9, <1>10,
       <1>11, <1>12, <1>13, <1>14, <1>15, <1>16, <1>17, <1>18, <1>19,
       StepCases

\* A handler that starts to deliver owes the key to the users it starts with.
LEMMA DeliveryStarted ==
    ASSUME TypeOK, NEW t \in Threads, NEW g \in Groups, NEW us \in SUBSET Users,
           pc[t] = "idle", StartDelivery(t, g, us)
    PROVE  /\ Owed(t) = {}
           /\ group'[t] = g /\ Owed(t)' = us
           /\ \A s \in Threads \ {t} : group'[s] = group[s] /\ Owed(s)' = Owed(s)
BY DEF StartDelivery, Owed, Delivering, TypeOK

\* Who becomes a member is owed the key.
LEMMA NewMembersOwed ==
    ASSUME TypeOK, NoForgottenMember, NEW t \in Threads, NEW g \in Groups,
           NEW us \in SUBSET Users, pc[t] = "idle", StartDelivery(t, g, us),
           members' = [members EXCEPT ![g] = members'[g]],
           members'[g] \subseteq members[g] \cup us,
           UNCHANGED <<row, clients>>
    PROVE  NoForgottenMember'
<1> SUFFICES ASSUME NEW h \in Groups, NEW u \in members'[h]
             PROVE  \/ u \in keys'[h]
                    \/ row'[h][u] = "waiting"
                    \/ u \in lost'[h]
                    \/ \E s \in Threads : group'[s] = h /\ u \in Owed(s)'
    BY DEF NoForgottenMember
<1>1. CASE u \in members[h]
    BY <1>1, DeliveryStarted DEF NoForgottenMember, clients
<1>2. CASE u \notin members[h]
    <2>1. h = g /\ u \in us
        BY <1>2 DEF TypeOK
    <2> QED
        BY <2>1, DeliveryStarted
<1> QED
    BY <1>1, <1>2

LEMMA MemberStep ==
    ASSUME TypeOK, PlaceInv, MarkInv, NoForgottenMember, Next
    PROVE  NoForgottenMember'
<1> USE DEF tables, sessions, clients, locals, Delivering, Flushing
<1>1. CASE \E t \in Threads, u \in Users : Login(t, u)
    BY <1>1, PromisesKept DEF Login, TypeOK, Owed
<1>2. CASE \E t \in Threads, g \in Groups, a \in Users, us \in SUBSET Users : Create(t, g, a, us)
    <2>1. PICK t \in Threads, g \in Groups, a \in Users, us \in SUBSET Users :
              Create(t, g, a, us)
        BY <1>2
    <2>2. members' = [members EXCEPT ![g] = members'[g]] /\ members'[g] = us \cup {a}
        BY <2>1 DEF Create, TypeOK
    <2> QED
        BY <2>1, <2>2, NewMembersOwed DEF Create
<1>3. CASE \E t \in Threads, g \in Groups, u \in Users : Enrol(t, g, u)
    <2>1. PICK t \in Threads, g \in Groups, u \in Users : Enrol(t, g, u)
        BY <1>3
    <2>2. /\ members' = [members EXCEPT ![g] = members'[g]]
          /\ members'[g] = members[g] \cup {u}
        BY <2>1 DEF Enrol, TypeOK
    <2> QED
        BY <2>1, <2>2, NewMembersOwed DEF Enrol
<1>4. CASE \E t \in Threads, u \in Users : DeliverCheck(t, u)
    BY <1>4, PromisesKept DEF DeliverCheck, TypeOK, Owed
<1>5. CASE \E t \in Threads : Stash(t)
    BY <1>5, PromisesKept DEF Stash, DeliveryDone, TypeOK, Owed
<1>6. CASE \E t \in Threads : Index(t)
    BY <1>6, PromisesKept DEF Index, TypeOK, Owed
<1>7. CASE \E t \in Threads : Push(t)
    <2>1. PICK t \in Threads : Push(t)
        BY <1>7
    <2>2. group[t] \in Groups /\ member[t] \in Users
        BY <2>1 DEF Push, PlaceInv
    <2>3. /\ member[t] \in keys'[group[t]] \cup lost'[group[t]]
          /\ \A h \in Groups : keys[h] \subseteq keys'[h] /\ lost[h] \subseteq lost'[h]
        BY <2>1, <2>2, WrittenRecorded DEF Push
    <2> QED
        BY <2>1, <2>2, <2>3, PromisesKept DEF Push, DeliveryDone, TypeOK, Owed
<1>8. CASE \E t \in Threads : FlushSelect(t)
    BY <1>8, PromisesKept DEF FlushSelect, Waiting, TypeOK, Owed
<1>9. CASE \E t \in Threads : FlushNothing(t)
    BY <1>9, PromisesKept DEF FlushNothing, HandlerDone, TypeOK, Owed
<1>10. CASE \E t \in Threads, g \in Groups : FlushPush(t, g)
    <2>1. PICK t \in Threads, g \in Groups : FlushPush(t, g)
        BY <1>10
    <2>2. member[t] \in Users
        BY <2>1 DEF FlushPush, PlaceInv
    <2>3. \A h \in Groups : keys[h] \subseteq keys'[h] /\ lost[h] \subseteq lost'[h]
        BY <2>1, <2>2, WrittenRecorded DEF FlushPush
    <2> QED
        BY <2>1, <2>3, PromisesKept DEF FlushPush, TypeOK, Owed
<1>11. CASE \E t \in Threads : FlushMark(t)
    BY <1>11, PromisesKept DEF FlushMark, TypeOK, Owed
<1>12. CASE \E t \in Threads : FlushCommit(t)
    <2>1. PICK t \in Threads : FlushCommit(t)
        BY <1>12
    <2>2. \A g \in Groups, u \in Users : row[g][u] = "waiting" =>
              u \in keys[g] \cup lost[g] \/ row'[g][u] = "waiting"
        BY <2>1 DEF FlushCommit, MarkInv
    <2>3. \A s \in Threads :
              \/ group[s] = group'[s] /\ Owed(s)' = Owed(s)
              \/ Owed(s) = {}
        BY <2>1 DEF FlushCommit, HandlerDone, TypeOK, Owed
    <2>4. UNCHANGED <<members, clients>>
        BY <2>1 DEF FlushCommit
    <2> QED
        BY <2>2, <2>3, <2>4, PromisesKept
<1>13. CASE \E t \in Threads : DeliverFails(t)
    BY <1>13, PromisesKept DEF DeliverFails, HandlerDone, TypeOK, Owed
<1>14. CASE \E t \in Threads : FlushFails(t)
    BY <1>14, PromisesKept DEF FlushFails, HandlerDone, TypeOK, Owed
<1>15. CASE \E g \in Groups, a \in Users, u \in Users : Leave(g, a, u)
    BY <1>15, PromisesKept DEF Leave, TypeOK, Owed
<1>16. CASE \E u \in Users : Vanish(u)
    BY <1>16, PromisesKept DEF Vanish, TypeOK, Owed
<1>17. CASE \E u \in Users : Disconnect(u)
    BY <1>17, PromisesKept DEF Disconnect, TypeOK, Owed
<1>18. CASE Restart
    BY <1>18, PromisesKept DEF Restart, TypeOK, Owed
<1>19. CASE \E t \in Threads, u \in Users : DeliverUnsealed(t, u)
    BY <1>19, PromisesKept DEF DeliverUnsealed, TypeOK, Owed
<1> QED
    BY <1>1, <1>2, <1>3, <1>4, <1>5, <1>6, <1>7, <1>8, <1>9, <1>10,
       <1>11, <1>12, <1>13, <1>14, <1>15, <1>16, <1>17, <1>18, <1>19,
       StepCases

-----------------------------------------------------------------------------

THEOREM InductiveInvariant == Spec => []IndInv
<1>1. Init => IndInv
    BY LoginAssumption
    DEF Init, IndInv, TypeOK, PlaceInv, MarkInv, NoForgottenMember, Flushing,
        Delivering
<1>2. IndInv /\ [Next]_vars => IndInv'
    <2> SUFFICES ASSUME IndInv, [Next]_vars
                 PROVE  IndInv'
        OBVIOUS
    <2>1. CASE Next
        BY <2>1, TypeStep, PlaceStep, MarkStep, MemberStep DEF IndInv
    <2>2. CASE UNCHANGED vars
        BY <2>2
        DEF vars, tables, sessions, clients, locals, IndInv, TypeOK, PlaceInv,
            MarkInv, NoForgottenMember, Owed
    <2> QED
        BY <2>1, <2>2
<1> QED
    BY <1>1, <1>2, PTL DEF Spec

(***************************************************************************)
(* Type correctness of every reachable state.                              *)
(***************************************************************************)
THEOREM TypeCorrect == Spec => []TypeOK
BY InductiveInvariant, PTL DEF IndInv

(***************************************************************************)
(* Every member has the key, or a row or a running handler will send it,   *)
(* unless its sealing failed, a write was lost or a handler broke off.                       *)
(***************************************************************************)
THEOREM MembersAreServed == Spec => []NoForgottenMember
BY InductiveInvariant, PTL DEF IndInv

=============================================================================
