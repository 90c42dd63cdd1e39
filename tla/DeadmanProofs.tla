----------------------------- MODULE DeadmanProofs -----------------------------
(***************************************************************************)
(* The dead man's switch never goes off hastily, sends its warning once    *)
(* per fault, and bans whom it has marked, for every number of users and   *)
(* every grace period.                                                     *)
(***************************************************************************)
EXTENDS Deadman, TLAPS

LEMMA StepCases ==
    ASSUME Next
    PROVE  \/ Tick
           \/ \E u \in Users : LoginCheck(u)
           \/ \E u \in Users : LoginRegister(u)
           \/ \E u \in Users : LoginCheckin(u)
           \/ \E u \in Users : LoginCheckinFails(u)
           \/ \E u \in Users : Disconnect(u)
           \/ \E u \in Users, where \in Recipients : Store(u, where)
           \/ \E u \in Users : Disable(u)
           \/ Scan
           \/ \E e \in Entries : Warn(e)
           \/ Mark
           \/ Ban
           \/ Cut
           \/ PassFails
           \/ Restart
BY DEF Next, UserStep, Maintenance

\* What a check-in and a mark make of the rows.
LEMMA CheckinRows ==
    ASSUME TypeOK, NEW u \in Users, LoginCheckin(u)
    PROVE  /\ row' \in [Users -> Rows \cup {NoRow}]
           /\ \A v \in Users \ {u} : row'[v] = row[v]
           /\ row[u] = NoRow => row'[u] = NoRow
           /\ row[u] # NoRow => /\ row'[u] \in Rows
                               /\ row'[u].last = now
                               /\ ~row'[u].triggered
<1>1. CASE row[u] = NoRow
    BY <1>1 DEF LoginCheckin, TypeOK
<1>2. CASE row[u] # NoRow
    <2>1. row[u] \in Rows /\ now \in Times
        BY <1>2 DEF TypeOK
    <2> DEFINE new == [recipient |-> row[u].recipient, last |-> now,
                       triggered |-> FALSE]
    <2>2. new \in Rows /\ new.last = now /\ ~new.triggered
        BY <2>1 DEF Rows
    <2>3. row' = [row EXCEPT ![u] = new]
        BY <1>2 DEF LoginCheckin
    <2> HIDE DEF new
    <2> QED
        BY <1>2, <2>2, <2>3 DEF TypeOK
<1> QED
    BY <1>1, <1>2

LEMMA MarkRows ==
    ASSUME TypeOK, WorkInv, Mark
    PROVE  /\ cur \in Users
           /\ row' \in [Users -> Rows \cup {NoRow}]
           /\ \A v \in Users \ {cur} : row'[v] = row[v]
           /\ row[cur] \in Rows
           /\ row'[cur] \in Rows
           /\ row[cur] # NoRow
           /\ row'[cur].triggered
           /\ row'[cur].last = row[cur].last
<1>1. cur \in Users /\ row[cur] # NoRow
    BY NoUserAssumption DEF Mark, TypeOK, WorkInv, Selected
<1>2. row[cur] \in Rows
    BY <1>1 DEF TypeOK
<1> DEFINE new == [recipient |-> row[cur].recipient, last |-> row[cur].last,
                   triggered |-> TRUE]
<1>3. new \in Rows /\ new.last = row[cur].last /\ new.triggered
    BY <1>2 DEF Rows
<1>4. row' = [row EXCEPT ![cur] = new]
    BY DEF Mark
<1> HIDE DEF new
<1> QED
    BY <1>1, <1>2, <1>3, <1>4 DEF TypeOK

\* A row is only marked while the thread works on its user.
LEMMA TypeStep ==
    ASSUME TypeOK, WorkInv, Next
    PROVE  TypeOK'
<1> USE NoUserAssumption, NoRowAssumption, BoundAssumption
    DEF TypeOK, Times, Rows, Entries, Recipients, WorkInv, Selected
<1>1. CASE Tick
    BY <1>1 DEF Tick
<1>2. CASE \E u \in Users : LoginCheck(u)
    BY <1>2 DEF LoginCheck
<1>3. CASE \E u \in Users : LoginRegister(u)
    BY <1>3 DEF LoginRegister
<1>4. CASE \E u \in Users : LoginCheckin(u)
    BY <1>4, CheckinRows DEF LoginCheckin
<1>5. CASE \E u \in Users : LoginCheckinFails(u)
    BY <1>5 DEF LoginCheckinFails
<1>6. CASE \E u \in Users : Disconnect(u)
    BY <1>6 DEF Disconnect
<1>7. CASE \E u \in Users, where \in Recipients : Store(u, where)
  <2>1. PICK u \in Users, where \in Recipients : Store(u, where)
      BY <1>7
  <2>2. enabled' \in [Users -> BOOLEAN]
      BY <2>1 DEF Store
  <2>. QED
      BY <2>1, <2>2 DEF Store
<1>8. CASE \E u \in Users : Disable(u)
    BY <1>8 DEF Disable
<1>9. CASE Scan
    BY <1>9 DEF Scan, Expired, Armed
<1>10. CASE \E e \in Entries : Warn(e)
    BY <1>10 DEF Warn
<1>11. CASE Mark
    BY <1>11, MarkRows DEF Mark
<1>12. CASE Ban
    BY <1>12 DEF Ban
<1>13. CASE Cut
    BY <1>13 DEF Cut
<1>14. CASE PassFails
    BY <1>14 DEF PassFails
<1>15. CASE Restart
    BY <1>15 DEF Restart
<1> QED
    BY <1>1, <1>2, <1>3, <1>4, <1>5, <1>6, <1>7, <1>8,
       <1>9, <1>10, <1>11, <1>12, <1>13, <1>14, <1>15, StepCases

\* The list is as sound after a step that only changes rows.
LEMMA WorkKept ==
    ASSUME TypeOK, WorkInv, todo' = todo, cur' = cur,
           pass' = pass \/ (pass = "mark" /\ pass' = "ban"),
           \A u \in Users : row[u] # NoRow => row'[u] # NoRow
    PROVE  WorkInv'
<1>1. Selected' = Selected /\ Selected \subseteq Users
    BY DEF Selected, TypeOK, Entries
<1> QED
    BY <1>1 DEF WorkInv

\* What has been selected has a row, each user once.
LEMMA WorkStep ==
    ASSUME TypeOK, WorkInv, Next
    PROVE  WorkInv'
<1> USE NoUserAssumption, NoRowAssumption, BoundAssumption
    DEF TypeOK, Times, Rows, Entries, Recipients, WorkInv, Selected
<1>1. CASE Tick
    BY <1>1 DEF Tick
<1>2. CASE \E u \in Users : LoginCheck(u)
    BY <1>2 DEF LoginCheck
<1>3. CASE \E u \in Users : LoginRegister(u)
    BY <1>3 DEF LoginRegister
<1>4. CASE \E u \in Users : LoginCheckin(u)
    <2>1. PICK u \in Users : LoginCheckin(u)
        BY <1>4
    <2>2. \A v \in Users : row[v] # NoRow => row'[v] # NoRow
        BY <2>1, CheckinRows, NoRowAssumption
    <2> QED
        BY <2>1, <2>2, WorkKept DEF LoginCheckin
<1>5. CASE \E u \in Users : LoginCheckinFails(u)
    BY <1>5 DEF LoginCheckinFails
<1>6. CASE \E u \in Users : Disconnect(u)
    BY <1>6 DEF Disconnect
<1>7. CASE \E u \in Users, where \in Recipients : Store(u, where)
    <2>1. PICK u \in Users, where \in Recipients : Store(u, where)
        BY <1>7
    <2> DEFINE new == [recipient |-> where, last |-> now, triggered |-> FALSE]
    <2>2. new \in Rows /\ row' = [row EXCEPT ![u] = new]
        BY <2>1 DEF Store
    <2> HIDE DEF new, Rows
    <2>3. new # NoRow
        BY <2>2, NoRowAssumption
    <2>4. \A v \in Users : row[v] # NoRow => row'[v] # NoRow
        BY <2>2, <2>3
    <2> QED
        BY <2>1, <2>4, WorkKept DEF Store
<1>8. CASE \E u \in Users : Disable(u)
    BY <1>8 DEF Disable
<1>9. CASE Scan
    BY <1>9 DEF Scan, Expired, Armed
<1>10. CASE \E e \in Entries : Warn(e)
    BY <1>10 DEF Warn
<1>11. CASE Mark
    <2>1. \A v \in Users : row[v] # NoRow => row'[v] # NoRow
        BY <1>11, MarkRows, NoRowAssumption
    <2> QED
        BY <1>11, <2>1, WorkKept DEF Mark
<1>12. CASE Ban
    BY <1>12 DEF Ban
<1>13. CASE Cut
    BY <1>13 DEF Cut
<1>14. CASE PassFails
    BY <1>14 DEF PassFails
<1>15. CASE Restart
    BY <1>15 DEF Restart
<1> QED
    BY <1>1, <1>2, <1>3, <1>4, <1>5, <1>6, <1>7, <1>8,
       <1>9, <1>10, <1>11, <1>12, <1>13, <1>14, <1>15, StepCases

\* No time on record lies ahead of the clock.
LEMMA ClockStep ==
    ASSUME TypeOK, WorkInv, ClockInv, Next
    PROVE  ClockInv'
<1> USE NoUserAssumption, NoRowAssumption, BoundAssumption
    DEF TypeOK, Times, Rows, Entries, Recipients, WorkInv, Selected, ClockInv
<1>1. CASE Tick
    BY <1>1 DEF Tick
<1>2. CASE \E u \in Users : LoginCheck(u)
    BY <1>2 DEF LoginCheck
<1>3. CASE \E u \in Users : LoginRegister(u)
    BY <1>3 DEF LoginRegister
<1>4. CASE \E u \in Users : LoginCheckin(u)
    BY <1>4, CheckinRows DEF LoginCheckin
<1>5. CASE \E u \in Users : LoginCheckinFails(u)
    BY <1>5 DEF LoginCheckinFails
<1>6. CASE \E u \in Users : Disconnect(u)
    BY <1>6 DEF Disconnect
<1>7. CASE \E u \in Users, where \in Recipients : Store(u, where)
    BY <1>7 DEF Store
<1>8. CASE \E u \in Users : Disable(u)
    BY <1>8 DEF Disable
<1>9. CASE Scan
    BY <1>9 DEF Scan
<1>10. CASE \E e \in Entries : Warn(e)
    BY <1>10 DEF Warn
<1>11. CASE Mark
    BY <1>11, MarkRows DEF Mark
<1>12. CASE Ban
    BY <1>12 DEF Ban
<1>13. CASE Cut
    BY <1>13 DEF Cut
<1>14. CASE PassFails
    BY <1>14 DEF PassFails
<1>15. CASE Restart
    BY <1>15 DEF Restart
<1> QED
    BY <1>1, <1>2, <1>3, <1>4, <1>5, <1>6, <1>7, <1>8,
       <1>9, <1>10, <1>11, <1>12, <1>13, <1>14, <1>15, StepCases

\* A check-in after the selection moves the row's time past it.
LEMMA HasteStep ==
    ASSUME TypeOK, WorkInv, ClockInv, NoHastyTrigger, Next
    PROVE  NoHastyTrigger'
<1> USE NoUserAssumption, NoRowAssumption, BoundAssumption
    DEF TypeOK, Times, Rows, Entries, Recipients, WorkInv, Selected, ClockInv, NoHastyTrigger
<1>1. CASE Tick
    BY <1>1 DEF Tick
<1>2. CASE \E u \in Users : LoginCheck(u)
    BY <1>2 DEF LoginCheck
<1>3. CASE \E u \in Users : LoginRegister(u)
    BY <1>3 DEF LoginRegister
<1>4. CASE \E u \in Users : LoginCheckin(u)
    BY <1>4, CheckinRows DEF LoginCheckin
<1>5. CASE \E u \in Users : LoginCheckinFails(u)
    BY <1>5 DEF LoginCheckinFails
<1>6. CASE \E u \in Users : Disconnect(u)
    BY <1>6 DEF Disconnect
<1>7. CASE \E u \in Users, where \in Recipients : Store(u, where)
    BY <1>7 DEF Store
<1>8. CASE \E u \in Users : Disable(u)
    BY <1>8 DEF Disable
<1>9. CASE Scan
    BY <1>9 DEF Scan, Expired, Armed
<1>10. CASE \E e \in Entries : Warn(e)
    BY <1>10 DEF Warn
<1>11. CASE Mark
    BY <1>11, MarkRows DEF Mark
<1>12. CASE Ban
    BY <1>12 DEF Ban
<1>13. CASE Cut
    BY <1>13 DEF Cut
<1>14. CASE PassFails
    BY <1>14 DEF PassFails
<1>15. CASE Restart
    BY <1>15 DEF Restart
<1> QED
    BY <1>1, <1>2, <1>3, <1>4, <1>5, <1>6, <1>7, <1>8,
       <1>9, <1>10, <1>11, <1>12, <1>13, <1>14, <1>15, StepCases

\* A row leaves the list before it is warned of again.
LEMMA OnceStep ==
    ASSUME TypeOK, WorkInv, OnceInv, Next
    PROVE  OnceInv'
<1> USE NoUserAssumption, NoRowAssumption, BoundAssumption
    DEF TypeOK, Times, Rows, Entries, Recipients, WorkInv, Selected, OnceInv, Armed
<1>1. CASE Tick
    BY <1>1 DEF Tick
<1>2. CASE \E u \in Users : LoginCheck(u)
    BY <1>2 DEF LoginCheck
<1>3. CASE \E u \in Users : LoginRegister(u)
    BY <1>3 DEF LoginRegister
<1>4. CASE \E u \in Users : LoginCheckin(u)
    BY <1>4, CheckinRows DEF LoginCheckin
<1>5. CASE \E u \in Users : LoginCheckinFails(u)
    BY <1>5 DEF LoginCheckinFails
<1>6. CASE \E u \in Users : Disconnect(u)
    BY <1>6 DEF Disconnect
<1>7. CASE \E u \in Users, where \in Recipients : Store(u, where)
    BY <1>7 DEF Store
<1>8. CASE \E u \in Users : Disable(u)
    BY <1>8 DEF Disable
<1>9. CASE Scan
    BY <1>9 DEF Scan, Expired
<1>10. CASE \E e \in Entries : Warn(e)
    BY <1>10 DEF Warn
<1>11. CASE Mark
    BY <1>11, MarkRows DEF Mark
<1>12. CASE Ban
    BY <1>12 DEF Ban
<1>13. CASE Cut
    BY <1>13 DEF Cut
<1>14. CASE PassFails
    BY <1>14 DEF PassFails
<1>15. CASE Restart
    BY <1>15 DEF Restart
<1> QED
    BY <1>1, <1>2, <1>3, <1>4, <1>5, <1>6, <1>7, <1>8,
       <1>9, <1>10, <1>11, <1>12, <1>13, <1>14, <1>15, StepCases

\* The mark is followed by the ban unless there is a fault.
LEMMA BanStep ==
    ASSUME TypeOK, WorkInv, TriggeredThenBanned, Next
    PROVE  TriggeredThenBanned'
<1> USE NoUserAssumption, NoRowAssumption, BoundAssumption
    DEF TypeOK, Times, Rows, Entries, Recipients, WorkInv, Selected, TriggeredThenBanned
<1>1. CASE Tick
    BY <1>1 DEF Tick
<1>2. CASE \E u \in Users : LoginCheck(u)
    BY <1>2 DEF LoginCheck
<1>3. CASE \E u \in Users : LoginRegister(u)
    BY <1>3 DEF LoginRegister
<1>4. CASE \E u \in Users : LoginCheckin(u)
    BY <1>4, CheckinRows DEF LoginCheckin
<1>5. CASE \E u \in Users : LoginCheckinFails(u)
    BY <1>5 DEF LoginCheckinFails
<1>6. CASE \E u \in Users : Disconnect(u)
    BY <1>6 DEF Disconnect
<1>7. CASE \E u \in Users, where \in Recipients : Store(u, where)
    BY <1>7 DEF Store
<1>8. CASE \E u \in Users : Disable(u)
    BY <1>8 DEF Disable
<1>9. CASE Scan
    BY <1>9 DEF Scan
<1>10. CASE \E e \in Entries : Warn(e)
    BY <1>10 DEF Warn
<1>11. CASE Mark
    BY <1>11, MarkRows DEF Mark
<1>12. CASE Ban
    BY <1>12 DEF Ban
<1>13. CASE Cut
    BY <1>13 DEF Cut
<1>14. CASE PassFails
    BY <1>14 DEF PassFails
<1>15. CASE Restart
    BY <1>15 DEF Restart
<1> QED
    BY <1>1, <1>2, <1>3, <1>4, <1>5, <1>6, <1>7, <1>8,
       <1>9, <1>10, <1>11, <1>12, <1>13, <1>14, <1>15, StepCases

-----------------------------------------------------------------------------

THEOREM InductiveInvariant == Spec => []IndInv
<1>1. Init => IndInv
    BY BoundAssumption
    DEF Init, IndInv, TypeOK, Times, Rows, Entries, WorkInv, ClockInv,
        NoHastyTrigger, OnceInv, TriggeredThenBanned, Selected, Armed
<1>2. IndInv /\ [Next]_vars => IndInv'
    <2> SUFFICES ASSUME IndInv, [Next]_vars
                 PROVE  IndInv'
        OBVIOUS
    <2>1. CASE Next
        BY <2>1, TypeStep, WorkStep, ClockStep, HasteStep, OnceStep, BanStep
        DEF IndInv
    <2>2. CASE UNCHANGED vars
        BY <2>2
        DEF vars, IndInv, TypeOK, WorkInv, ClockInv, NoHastyTrigger, OnceInv,
            TriggeredThenBanned, Selected, Armed
    <2> QED
        BY <2>1, <2>2
<1> QED
    BY <1>1, <1>2, PTL DEF Spec

(***************************************************************************)
(* Type correctness of every reachable state.                              *)
(***************************************************************************)
THEOREM TypeCorrect == Spec => []TypeOK
BY InductiveInvariant, PTL DEF IndInv

(***************************************************************************)
(* Only users that were silent for longer than their grace period, or that *)
(* came back after the list was made, are on the list.                     *)
(***************************************************************************)
THEOREM HasteFree == Spec => []NoHastyTrigger
BY InductiveInvariant, PTL DEF IndInv

(***************************************************************************)
(* A warning is repeated only after a fault.                               *)
(***************************************************************************)
THEOREM WarnedOnce == Spec => []WarnedOncePerFault
<1>1. IndInv => WarnedOncePerFault
    BY DEF IndInv, OnceInv, WarnedOncePerFault
<1> QED
    BY <1>1, InductiveInvariant, PTL

(***************************************************************************)
(* Without faults a marked user is banned.                                 *)
(***************************************************************************)
THEOREM MarkThenBan == Spec => []TriggeredThenBanned
BY InductiveInvariant, PTL DEF IndInv

=============================================================================
