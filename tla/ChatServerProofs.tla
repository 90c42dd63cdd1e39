--------------------------- MODULE ChatServerProofs ---------------------------
(***************************************************************************)
(* The session and delivery invariants of ChatServer hold for every number *)
(* of users, connections and messages.                                     *)
(***************************************************************************)
EXTENDS ChatServer, TLAPS

(***************************************************************************)
(* The actions that do not depend on what the handlers hold are grouped    *)
(* with the handler steps into one list, which every lemma below follows.  *)
(***************************************************************************)
LEMMA StepCases ==
    ASSUME Next
    PROVE  \/ \E c \in Conns : Accept(c)
           \/ \E c \in Conns : Vanish(c)
           \/ \E c \in Conns, u \in Users : LoginCheck(c, u)
           \/ \E c \in Conns : LoginRegister(c)
           \/ \E c \in Conns : LoginFetch(c)
           \/ \E c \in Conns : LoginPush(c)
           \/ \E c \in Conns : LoginClear(c)
           \/ \E c \in Conns, m \in Msgs, u \in Users : SendLookup(c, m, u)
           \/ \E c \in Conns : SendDirect(c)
           \/ \E c \in Conns : SendStore(c)
           \/ \E c \in Conns : Disconnect(c)
           \/ \E c \in Conns : TimeoutDrop(c)
           \/ \E u \in Users : MarkCompromised(u)
           \/ \E u \in Users : Evict(u)
           \/ Restart
BY DEF Next, HandlerStep

(***************************************************************************)
(* Type correctness: no handler ever stores anything but connections,      *)
(* users and messages where it should.  A relay of a message needs the     *)
(* looked up target to be a connection, hence CargoInv.                    *)
(***************************************************************************)
LEMMA TypeStep ==
    ASSUME TypeOK, ThreadLifeInv, CargoInv, Next
    PROVE  TypeOK'
<1> USE DEF TypeOK, ThreadLifeInv, Locations, LoginSteps,
            SendSteps, SocketStates, Receipts, Live, Registered
<1>1. CASE \E c \in Conns : Accept(c)
    BY <1>1 DEF Accept
<1>2. CASE \E c \in Conns : Vanish(c)
    BY <1>2 DEF Vanish
<1>3. CASE \E c \in Conns, u \in Users : LoginCheck(c, u)
    BY <1>3 DEF LoginCheck
<1>4. CASE \E c \in Conns : LoginRegister(c)
    BY <1>4 DEF LoginRegister, CloseSocketOf
<1>5. CASE \E c \in Conns : LoginFetch(c)
    BY <1>5 DEF LoginFetch
<1>6. CASE \E c \in Conns : LoginPush(c)
    BY <1>6 DEF LoginPush, Written
<1>7. CASE \E c \in Conns : LoginClear(c)
    BY <1>7 DEF LoginClear
<1>8. CASE \E c \in Conns, m \in Msgs, u \in Users : SendLookup(c, m, u)
    BY <1>8 DEF SendLookup
<1>9. CASE \E c \in Conns : SendDirect(c)
    BY <1>9 DEF SendDirect, Written, Acknowledge, CargoInv
<1>10. CASE \E c \in Conns : SendStore(c)
    BY <1>10 DEF SendStore, Acknowledge
<1>11. CASE \E c \in Conns : Disconnect(c)
    BY <1>11 DEF Disconnect, MayEnd
<1>12. CASE \E c \in Conns : TimeoutDrop(c)
    BY <1>12 DEF TimeoutDrop
<1>13. CASE \E u \in Users : MarkCompromised(u)
    BY <1>13 DEF MarkCompromised
<1>14. CASE \E u \in Users : Evict(u)
    BY <1>14 DEF Evict, CloseSocketOf
<1>15. CASE Restart
    BY <1>15 DEF Restart
<1> QED
    BY <1>1, <1>2, <1>3, <1>4, <1>5, <1>6, <1>7, <1>8, <1>9, <1>10, <1>11,
       <1>12, <1>13, <1>14, <1>15, StepCases

(***************************************************************************)
(* The life of a connection object.  A socket is only closed of a          *)
(* connection that was accepted, because a table entry leads to one that   *)
(* was entered; hence the assumption that NoConn is no connection.         *)
(***************************************************************************)
LEMMA ThreadLifeStep ==
    ASSUME IndInv, Next
    PROVE  ThreadLifeInv'
<1> USE DEF IndInv, TypeOK, ThreadLifeInv, NoGhostSession, Live,
            LoginSteps, SendSteps
<1>1. CASE \E c \in Conns : Accept(c)
    BY <1>1 DEF Accept
<1>2. CASE \E c \in Conns : Vanish(c)
    BY <1>2 DEF Vanish
<1>3. CASE \E c \in Conns, u \in Users : LoginCheck(c, u)
    BY <1>3 DEF LoginCheck
<1>4. CASE \E c \in Conns : LoginRegister(c)
    BY <1>4, NoConnAssumption DEF LoginRegister, CloseSocketOf
<1>5. CASE \E c \in Conns : LoginFetch(c)
    BY <1>5 DEF LoginFetch
<1>6. CASE \E c \in Conns : LoginPush(c)
    BY <1>6 DEF LoginPush, Written
<1>7. CASE \E c \in Conns : LoginClear(c)
    BY <1>7 DEF LoginClear
<1>8. CASE \E c \in Conns, m \in Msgs, u \in Users : SendLookup(c, m, u)
    BY <1>8 DEF SendLookup
<1>9. CASE \E c \in Conns : SendDirect(c)
    BY <1>9 DEF SendDirect, Written, Acknowledge
<1>10. CASE \E c \in Conns : SendStore(c)
    BY <1>10 DEF SendStore, Acknowledge
<1>11. CASE \E c \in Conns : Disconnect(c)
    BY <1>11 DEF Disconnect, MayEnd
<1>12. CASE \E c \in Conns : TimeoutDrop(c)
    BY <1>12, NoConnAssumption DEF TimeoutDrop
<1>13. CASE \E u \in Users : MarkCompromised(u)
    BY <1>13 DEF MarkCompromised
<1>14. CASE \E u \in Users : Evict(u)
    BY <1>14, NoConnAssumption DEF Evict, CloseSocketOf
<1>15. CASE Restart
    BY <1>15 DEF Restart
<1> QED
    BY <1>1, <1>2, <1>3, <1>4, <1>5, <1>6, <1>7, <1>8, <1>9, <1>10, <1>11,
       <1>12, <1>13, <1>14, <1>15, StepCases

(***************************************************************************)
(* No step leaves an entry under its latest name for an ended thread.      *)
(* Disconnect is the step to look at: if another connection has taken      *)
(* over, the entry is not its own.                                         *)
(***************************************************************************)
LEMMA GhostStep ==
    ASSUME IndInv, Next
    PROVE  NoGhostSession'
<1> USE DEF IndInv, TypeOK, ThreadLifeInv, NoGhostSession, Live,
            LoginSteps, SendSteps, Registered
<1>1. CASE \E c \in Conns : Accept(c)
    BY <1>1 DEF Accept
<1>2. CASE \E c \in Conns : Vanish(c)
    BY <1>2 DEF Vanish
<1>3. CASE \E c \in Conns, u \in Users : LoginCheck(c, u)
    BY <1>3 DEF LoginCheck
<1>4. CASE \E c \in Conns : LoginRegister(c)
    BY <1>4 DEF LoginRegister, CloseSocketOf
<1>5. CASE \E c \in Conns : LoginFetch(c)
    BY <1>5 DEF LoginFetch
<1>6. CASE \E c \in Conns : LoginPush(c)
    BY <1>6 DEF LoginPush, Written
<1>7. CASE \E c \in Conns : LoginClear(c)
    BY <1>7 DEF LoginClear
<1>8. CASE \E c \in Conns, m \in Msgs, u \in Users : SendLookup(c, m, u)
    BY <1>8 DEF SendLookup
<1>9. CASE \E c \in Conns : SendDirect(c)
    BY <1>9 DEF SendDirect, Written, Acknowledge
<1>10. CASE \E c \in Conns : SendStore(c)
    BY <1>10 DEF SendStore, Acknowledge
<1>11. CASE \E c \in Conns : Disconnect(c)
    BY <1>11 DEF Disconnect, MayEnd
<1>12. CASE \E c \in Conns : TimeoutDrop(c)
    BY <1>12 DEF TimeoutDrop
<1>13. CASE \E u \in Users : MarkCompromised(u)
    BY <1>13 DEF MarkCompromised
<1>14. CASE \E u \in Users : Evict(u)
    BY <1>14 DEF Evict, CloseSocketOf
<1>15. CASE Restart
    BY <1>15 DEF Restart
<1> QED
    BY <1>1, <1>2, <1>3, <1>4, <1>5, <1>6, <1>7, <1>8, <1>9, <1>10, <1>11,
       <1>12, <1>13, <1>14, <1>15, StepCases

(***************************************************************************)
(* A client with an open socket keeps its entry: whoever takes the entry   *)
(* closes the socket of the connection that had it.                        *)
(***************************************************************************)
LEMMA OpenStep ==
    ASSUME IndInv, Next
    PROVE  OpenSessionIsReachable'
<1> USE DEF IndInv, TypeOK, ThreadLifeInv, NoGhostSession, Live,
            LoginSteps, SendSteps, Registered, OpenSessionIsReachable
<1>1. CASE \E c \in Conns : Accept(c)
    BY <1>1 DEF Accept
<1>2. CASE \E c \in Conns : Vanish(c)
    BY <1>2 DEF Vanish
<1>3. CASE \E c \in Conns, u \in Users : LoginCheck(c, u)
    BY <1>3 DEF LoginCheck
<1>4. CASE \E c \in Conns : LoginRegister(c)
    BY <1>4 DEF LoginRegister, CloseSocketOf
<1>5. CASE \E c \in Conns : LoginFetch(c)
    BY <1>5 DEF LoginFetch
<1>6. CASE \E c \in Conns : LoginPush(c)
    BY <1>6 DEF LoginPush, Written
<1>7. CASE \E c \in Conns : LoginClear(c)
    BY <1>7 DEF LoginClear
<1>8. CASE \E c \in Conns, m \in Msgs, u \in Users : SendLookup(c, m, u)
    BY <1>8 DEF SendLookup
<1>9. CASE \E c \in Conns : SendDirect(c)
    BY <1>9 DEF SendDirect, Written, Acknowledge
<1>10. CASE \E c \in Conns : SendStore(c)
    BY <1>10 DEF SendStore, Acknowledge
<1>11. CASE \E c \in Conns : Disconnect(c)
    BY <1>11 DEF Disconnect, MayEnd
<1>12. CASE \E c \in Conns : TimeoutDrop(c)
    BY <1>12 DEF TimeoutDrop
<1>13. CASE \E u \in Users : MarkCompromised(u)
    BY <1>13 DEF MarkCompromised
<1>14. CASE \E u \in Users : Evict(u)
    BY <1>14 DEF Evict, CloseSocketOf
<1>15. CASE Restart
    BY <1>15 DEF Restart
<1> QED
    BY <1>1, <1>2, <1>3, <1>4, <1>5, <1>6, <1>7, <1>8, <1>9, <1>10, <1>11,
       <1>12, <1>13, <1>14, <1>15, StepCases

(***************************************************************************)
(* What a handler holds stays deliverable: the queue fetched by a login is *)
(* the user's own, and a connection keeps every name it was entered with.  *)
(***************************************************************************)
LEMMA CargoStep ==
    ASSUME IndInv, Next
    PROVE  CargoInv'
<1> USE DEF IndInv, TypeOK, ThreadLifeInv, NoGhostSession, Live,
            LoginSteps, SendSteps, Registered, CargoInv, QueueInv
<1>1. CASE \E c \in Conns : Accept(c)
    BY <1>1 DEF Accept
<1>2. CASE \E c \in Conns : Vanish(c)
    BY <1>2 DEF Vanish
<1>3. CASE \E c \in Conns, u \in Users : LoginCheck(c, u)
    BY <1>3 DEF LoginCheck
<1>4. CASE \E c \in Conns : LoginRegister(c)
    BY <1>4 DEF LoginRegister, CloseSocketOf
<1>5. CASE \E c \in Conns : LoginFetch(c)
    BY <1>5, NoUserAssumption DEF LoginFetch
<1>6. CASE \E c \in Conns : LoginPush(c)
    BY <1>6 DEF LoginPush, Written
<1>7. CASE \E c \in Conns : LoginClear(c)
    BY <1>7 DEF LoginClear
<1>8. CASE \E c \in Conns, m \in Msgs, u \in Users : SendLookup(c, m, u)
    BY <1>8, NoUserAssumption DEF SendLookup
<1>9. CASE \E c \in Conns : SendDirect(c)
    BY <1>9 DEF SendDirect, Written, Acknowledge
<1>10. CASE \E c \in Conns : SendStore(c)
    BY <1>10 DEF SendStore, Acknowledge
<1>11. CASE \E c \in Conns : Disconnect(c)
    BY <1>11 DEF Disconnect, MayEnd
<1>12. CASE \E c \in Conns : TimeoutDrop(c)
    BY <1>12 DEF TimeoutDrop
<1>13. CASE \E u \in Users : MarkCompromised(u)
    BY <1>13 DEF MarkCompromised
<1>14. CASE \E u \in Users : Evict(u)
    BY <1>14 DEF Evict, CloseSocketOf
<1>15. CASE Restart
    BY <1>15 DEF Restart
<1> QED
    BY <1>1, <1>2, <1>3, <1>4, <1>5, <1>6, <1>7, <1>8, <1>9, <1>10, <1>11,
       <1>12, <1>13, <1>14, <1>15, StepCases

(***************************************************************************)
(* Rows of the offline queue and receipts belong to messages that were     *)
(* sent: a fresh server_msg_id appears in no queue.                        *)
(***************************************************************************)
LEMMA QueueStep ==
    ASSUME IndInv, Next
    PROVE  QueueInv'
<1> USE DEF IndInv, TypeOK, CargoInv, QueueInv, ThreadLifeInv, LoginSteps, SendSteps
<1>1. CASE \E c \in Conns : Accept(c)
    BY <1>1 DEF Accept
<1>2. CASE \E c \in Conns : Vanish(c)
    BY <1>2 DEF Vanish
<1>3. CASE \E c \in Conns, u \in Users : LoginCheck(c, u)
    BY <1>3 DEF LoginCheck
<1>4. CASE \E c \in Conns : LoginRegister(c)
    BY <1>4 DEF LoginRegister, CloseSocketOf
<1>5. CASE \E c \in Conns : LoginFetch(c)
    BY <1>5 DEF LoginFetch
<1>6. CASE \E c \in Conns : LoginPush(c)
    BY <1>6 DEF LoginPush, Written
<1>7. CASE \E c \in Conns : LoginClear(c)
    BY <1>7 DEF LoginClear
<1>8. CASE \E c \in Conns, m \in Msgs, u \in Users : SendLookup(c, m, u)
    BY <1>8, NoUserAssumption DEF SendLookup
<1>9. CASE \E c \in Conns : SendDirect(c)
    BY <1>9 DEF SendDirect, Written, Acknowledge
<1>10. CASE \E c \in Conns : SendStore(c)
    BY <1>10 DEF SendStore, Acknowledge
<1>11. CASE \E c \in Conns : Disconnect(c)
    BY <1>11 DEF Disconnect, MayEnd
<1>12. CASE \E c \in Conns : TimeoutDrop(c)
    BY <1>12 DEF TimeoutDrop
<1>13. CASE \E u \in Users : MarkCompromised(u)
    BY <1>13 DEF MarkCompromised
<1>14. CASE \E u \in Users : Evict(u)
    BY <1>14 DEF Evict, CloseSocketOf
<1>15. CASE Restart
    BY <1>15 DEF Restart
<1> QED
    BY <1>1, <1>2, <1>3, <1>4, <1>5, <1>6, <1>7, <1>8, <1>9, <1>10, <1>11,
       <1>12, <1>13, <1>14, <1>15, StepCases

(***************************************************************************)
(* Messages reach clients of their recipient only, by CargoInv for a relay *)
(* in flight and for the queue a login pushes.                             *)
(***************************************************************************)
LEMMA MisdeliveryStep ==
    ASSUME IndInv, Next
    PROVE  NoMisdelivery'
<1> USE DEF IndInv, TypeOK, ThreadLifeInv, CargoInv, QueueInv,
            NoMisdelivery, LoginSteps, SendSteps
<1>1. CASE \E c \in Conns : Accept(c)
    BY <1>1 DEF Accept
<1>2. CASE \E c \in Conns : Vanish(c)
    BY <1>2 DEF Vanish
<1>3. CASE \E c \in Conns, u \in Users : LoginCheck(c, u)
    BY <1>3 DEF LoginCheck
<1>4. CASE \E c \in Conns : LoginRegister(c)
    BY <1>4 DEF LoginRegister, CloseSocketOf
<1>5. CASE \E c \in Conns : LoginFetch(c)
    BY <1>5 DEF LoginFetch
<1>6. CASE \E c \in Conns : LoginPush(c)
    BY <1>6 DEF LoginPush, Written
<1>7. CASE \E c \in Conns : LoginClear(c)
    BY <1>7 DEF LoginClear
<1>8. CASE \E c \in Conns, m \in Msgs, u \in Users : SendLookup(c, m, u)
    BY <1>8, NoUserAssumption DEF SendLookup
<1>9. CASE \E c \in Conns : SendDirect(c)
    BY <1>9 DEF SendDirect, Written, Acknowledge
<1>10. CASE \E c \in Conns : SendStore(c)
    BY <1>10 DEF SendStore, Acknowledge
<1>11. CASE \E c \in Conns : Disconnect(c)
    BY <1>11 DEF Disconnect, MayEnd
<1>12. CASE \E c \in Conns : TimeoutDrop(c)
    BY <1>12 DEF TimeoutDrop
<1>13. CASE \E u \in Users : MarkCompromised(u)
    BY <1>13 DEF MarkCompromised
<1>14. CASE \E u \in Users : Evict(u)
    BY <1>14 DEF Evict, CloseSocketOf
<1>15. CASE Restart
    BY <1>15 DEF Restart
<1> QED
    BY <1>1, <1>2, <1>3, <1>4, <1>5, <1>6, <1>7, <1>8, <1>9, <1>10, <1>11,
       <1>12, <1>13, <1>14, <1>15, StepCases

(***************************************************************************)
(* The only excuse of a delivered receipt without arrival is a socket of   *)
(* the recipient that broke; sockets never open again.                     *)
(***************************************************************************)
LEMMA DeliveredStep ==
    ASSUME IndInv, Next
    PROVE  DeliveredOrSocketLost'
<1> USE DEF IndInv, TypeOK, ThreadLifeInv, CargoInv, QueueInv,
            NoGhostSession, DeliveredOrSocketLost, Arrived, Live, LoginSteps,
            SendSteps
<1>1. CASE \E c \in Conns : Accept(c)
    BY <1>1 DEF Accept
<1>2. CASE \E c \in Conns : Vanish(c)
    BY <1>2 DEF Vanish
<1>3. CASE \E c \in Conns, u \in Users : LoginCheck(c, u)
    BY <1>3 DEF LoginCheck
<1>4. CASE \E c \in Conns : LoginRegister(c)
    BY <1>4 DEF LoginRegister, CloseSocketOf
<1>5. CASE \E c \in Conns : LoginFetch(c)
    BY <1>5 DEF LoginFetch
<1>6. CASE \E c \in Conns : LoginPush(c)
    BY <1>6 DEF LoginPush, Written
<1>7. CASE \E c \in Conns : LoginClear(c)
    BY <1>7 DEF LoginClear
<1>8. CASE \E c \in Conns, m \in Msgs, u \in Users : SendLookup(c, m, u)
    BY <1>8 DEF SendLookup
<1>9. CASE \E c \in Conns : SendDirect(c)
    BY <1>9 DEF SendDirect, Written, Acknowledge
<1>10. CASE \E c \in Conns : SendStore(c)
    BY <1>10 DEF SendStore, Acknowledge
<1>11. CASE \E c \in Conns : Disconnect(c)
    BY <1>11 DEF Disconnect, MayEnd
<1>12. CASE \E c \in Conns : TimeoutDrop(c)
    BY <1>12 DEF TimeoutDrop
<1>13. CASE \E u \in Users : MarkCompromised(u)
    BY <1>13 DEF MarkCompromised
<1>14. CASE \E u \in Users : Evict(u)
    BY <1>14 DEF Evict, CloseSocketOf
<1>15. CASE Restart
    BY <1>15 DEF Restart
<1> QED
    BY <1>1, <1>2, <1>3, <1>4, <1>5, <1>6, <1>7, <1>8, <1>9, <1>10, <1>11,
       <1>12, <1>13, <1>14, <1>15, StepCases

(***************************************************************************)
(* The inductive invariant: Init establishes it, every step keeps it.      *)
(***************************************************************************)
THEOREM InductiveInvariant == Spec => []IndInv
<1>1. Init => IndInv
    BY NoUserAssumption, NoConnAssumption
    DEF Init, IndInv, TypeOK, ThreadLifeInv, CargoInv, QueueInv,
        NoGhostSession, OpenSessionIsReachable, NoMisdelivery,
        DeliveredOrSocketLost, Locations, LoginSteps, SendSteps, SocketStates,
        Receipts
<1>2. IndInv /\ [Next]_vars => IndInv'
    <2> SUFFICES ASSUME IndInv, [Next]_vars
                 PROVE  IndInv'
        OBVIOUS
    <2>1. CASE Next
        <3>1. TypeOK'
            BY <2>1, TypeStep DEF IndInv
        <3> QED
            BY <2>1, <3>1, ThreadLifeStep, GhostStep, OpenStep, CargoStep,
               QueueStep, MisdeliveryStep, DeliveredStep
            DEF IndInv
    <2>2. CASE UNCHANGED vars
        BY <2>2 DEF vars, IndInv, TypeOK, ThreadLifeInv, CargoInv,
                    QueueInv, NoGhostSession,
                    OpenSessionIsReachable, NoMisdelivery,
                    DeliveredOrSocketLost, Arrived, Live, Registered
    <2> QED
        BY <2>1, <2>2
<1> QED
    BY <1>1, <1>2, PTL DEF Spec

(***************************************************************************)
(* Type correctness of every reachable state.                              *)
(***************************************************************************)
THEOREM TypeCorrect == Spec => []TypeOK
BY InductiveInvariant, PTL DEF IndInv

(***************************************************************************)
(* _disconnect_client, the takeover in _handle_login, the maintenance      *)
(* thread and COMPROMISED together leave a table entry behind for an ended *)
(* thread only if its connection had logged in again under another name.   *)
(***************************************************************************)
THEOREM GhostFree == Spec => []NoGhostSession
BY InductiveInvariant, PTL DEF IndInv

(***************************************************************************)
(* A client whose socket is open is served under all names it logged in    *)
(* with, however many those are.                                           *)
(***************************************************************************)
THEOREM Reachability == Spec => []OpenSessionIsReachable
BY InductiveInvariant, PTL DEF IndInv

(***************************************************************************)
(* The unlocked lookup in _handle_send_message never misdelivers.          *)
(***************************************************************************)
THEOREM DeliverySafety == Spec => []NoMisdelivery
BY InductiveInvariant, PTL DEF IndInv

(***************************************************************************)
(* A receipt "delivered" is wrong only for a broken socket.                *)
(***************************************************************************)
THEOREM ReceiptSafety == Spec => []DeliveredOrSocketLost
BY InductiveInvariant, PTL DEF IndInv

(***************************************************************************)
(* Two clients that both received a message are never both connected.      *)
(***************************************************************************)
THEOREM SingleLiveCopy == Spec => []NoTwoLiveCopies
<1>1. IndInv => NoTwoLiveCopies
    BY NoUserAssumption
    DEF IndInv, TypeOK, NoMisdelivery, NoTwoLiveCopies, QueueInv,
        OpenSessionIsReachable
<1> QED
    BY <1>1, InductiveInvariant, PTL

(***************************************************************************)
(* clear_messages deletes nothing the same login fetched and has not yet   *)
(* written to its client.                                                  *)
(***************************************************************************)
THEOREM ClearSafety == Spec => ClearedOnlyAfterPush
<1> DEFINE Kept == \A u \in Users : \A m \in offline[u] \ offline'[u] :
                      \E c \in Conns :
                         /\ owner[c] = u
                         /\ pc[c] = "clearing"
                         /\ m \in cargo[c] => m \in inbox[c] \/ sock[c] # "open"
<1>1. IndInv /\ Next => Kept
    <2> SUFFICES ASSUME IndInv, Next
                 PROVE  Kept
        OBVIOUS
    <2> USE DEF IndInv, TypeOK
    <2>1. CASE \E c \in Conns : LoginClear(c)
        BY <2>1 DEF LoginClear, CargoInv
    <2>2. CASE \E c \in Conns : SendStore(c)
        BY <2>2 DEF SendStore
    <2>3. CASE offline' = offline
        BY <2>3
    <2> QED
        BY <2>1, <2>2, <2>3, StepCases
        DEF Accept, Vanish, LoginCheck, LoginRegister, LoginFetch, LoginPush,
            SendLookup, SendDirect, Disconnect, MayEnd, TimeoutDrop, MarkCompromised,
            Evict, Restart
<1>2. IndInv /\ [Next]_vars => [Kept]_vars
    BY <1>1
<1> QED
    BY <1>2, InductiveInvariant, PTL DEF Spec, ClearedOnlyAfterPush

=============================================================================
