------------------------------- MODULE Receipts -------------------------------
(***************************************************************************)
(* The names the chat server gives messages, and the receipts it passes    *)
(* back by them (src/server/chat/server.py, 132 and 561-740). A name is    *)
(* the second and a count that starts anew with the process; what is in    *)
(* the queue, or on a client, keeps its name over restarts of the server.  *)
(*                                                                         *)
(* A receipt may name the sender it is for; if not, the server looks the   *)
(* name of the message up in a table it keeps in memory and clears when a  *)
(* connection of the sender ends.                                          *)
(***************************************************************************)
EXTENDS Integers, FiniteSets

CONSTANTS Writers,   \* users of this server
          Wires,     \* connections, one per login, never used again
          MaxSent,   \* bound: messages sent to users of this server
          MaxSecond, \* bound: seconds
          NoWire, NoWriter

ASSUME ReceiptsAssumption ==
    NoWriter \notin Writers /\ NoWire \notin Wires /\ MaxSent \in Nat /\ MaxSecond \in Nat

VARIABLES
    second,    \* time.time(), in seconds
    count,     \* _msg_counter
    senderOf,  \* msg_sender_map: names -> their senders
    online,    \* connections: Writers -> Wires
    user,      \* conn.uuid of the connections that have logged in
    threads,   \* connections whose receive loop has not ended
    queue,     \* offline_messages, with their recipients
    held,      \* messages clients have received, with their recipients
    confirmed, \* receipts that reached a user: to whom, and whose message it was
    sent       \* messages sent so far

receiptVars == <<second, count, senderOf, online, user, threads, queue, held, confirmed, sent>>

MailNames == (0 .. MaxSecond) \X (1 .. MaxSent)
Mail == [name : MailNames, from : Writers, to : Writers]

ReceiptsInit ==
    /\ second = 0 /\ count = 0 /\ senderOf = [n \in MailNames |-> NoWriter]
    /\ online = [u \in Writers |-> NoWire] /\ user = [w \in Wires |-> NoWriter]
    /\ threads = {} /\ queue = {} /\ held = {} /\ confirmed = {} /\ sent = 0

\* The later of two logins is served; the queue goes with it.
LogIn(w, u) ==
    /\ user[w] = NoWriter
    /\ user' = [user EXCEPT ![w] = u] /\ threads' = threads \cup {w}
    /\ online' = [online EXCEPT ![u] = w]
    /\ held' = held \cup {m \in queue : m.to = u}
    /\ queue' = {m \in queue : m.to # u}
    /\ UNCHANGED <<second, count, senderOf, confirmed, sent>>

\* Mutant: the count alone.
CountAlone == <<0, count + 1>>

NewName == <<second, count + 1>>

\* A message for a user of this server arrives or is queued.
Send(w, to) ==
    /\ w \in threads /\ sent < MaxSent /\ sent' = sent + 1
    /\ count' = count + 1 /\ senderOf' = [senderOf EXCEPT ![NewName] = user[w]]
    /\ LET mail == [name |-> NewName, from |-> user[w], to |-> to]
       IN  IF online[to] # NoWire THEN held' = held \cup {mail} /\ queue' = queue
                                  ELSE queue' = queue \cup {mail} /\ held' = held
    /\ UNCHANGED <<second, online, user, threads, confirmed>>

\* What is relayed to another server goes without its name: whatever
\* relay_message answers, no receipt for it will come this way.
SendAway(w) ==
    /\ w \in threads /\ sent < MaxSent /\ sent' = sent + 1
    /\ count' = count + 1 /\ senderOf' = [senderOf EXCEPT ![NewName] = user[w]]
    /\ UNCHANGED <<second, online, user, threads, queue, held, confirmed>>

\* The three kinds of receipts are passed on alike. Whoever is not online, or
\* not in the table, gets none.
Receipt(w, m, named) ==
    /\ w \in threads /\ m \in held /\ m.to = user[w]
    /\ LET to == IF named THEN m.from ELSE senderOf[m.name]
       IN  /\ to # NoWriter /\ online[to] # NoWire
           /\ confirmed' = confirmed \cup {[to |-> to, from |-> m.from]}
    /\ UNCHANGED <<second, count, senderOf, online, user, threads, queue, held, sent>>

\* The end of a connection, also of one that has been replaced: what its user
\* has sent over another is forgotten as well.
Disconnect(w) ==
    /\ w \in threads /\ threads' = threads \ {w}
    /\ online' = IF online[user[w]] = w THEN [online EXCEPT ![user[w]] = NoWire] ELSE online
    /\ senderOf' = [n \in MailNames |-> IF senderOf[n] = user[w] THEN NoWriter ELSE senderOf[n]]
    /\ UNCHANGED <<second, count, user, queue, held, confirmed, sent>>

Second ==
    /\ second < MaxSecond /\ second' = second + 1
    /\ UNCHANGED <<count, senderOf, online, user, threads, queue, held, confirmed, sent>>

\* A start of the server takes more than a second, and its clock is not set
\* back meanwhile.
ServerRestart ==
    /\ second < MaxSecond /\ second' = second + 1 /\ count' = 0
    /\ senderOf' = [n \in MailNames |-> NoWriter]
    /\ online' = [u \in Writers |-> NoWire] /\ threads' = {}
    /\ UNCHANGED <<user, queue, held, confirmed, sent>>

ReceiptsNext ==
    \/ \E w \in Wires, u \in Writers : LogIn(w, u) \/ Send(w, u)
    \/ \E w \in Wires : SendAway(w) \/ Disconnect(w)
    \/ \E w \in Wires, m \in held, named \in BOOLEAN : Receipt(w, m, named)
    \/ Second \/ ServerRestart

ReceiptsSpec == ReceiptsInit /\ [][ReceiptsNext]_receiptVars

-----------------------------------------------------------------------------

ReceiptsTypeOK ==
    /\ second \in 0 .. MaxSecond /\ count \in 0 .. sent /\ sent \in 0 .. MaxSent
    /\ senderOf \in [MailNames -> Writers \cup {NoWriter}]
    /\ online \in [Writers -> Wires \cup {NoWire}] /\ user \in [Wires -> Writers \cup {NoWriter}]
    /\ threads \subseteq Wires /\ queue \subseteq Mail /\ held \subseteq Mail
    /\ confirmed \subseteq [to : Writers, from : Writers]

\* A receipt for a message, sent at whatever time and over however many
\* restarts and connections of either side, reaches the user who wrote that
\* message or nobody: no name is given twice while someone may still hold the
\* message that had it first (_gen_server_msg_id, server.py:132).
ReceiptToSender == \A receipt \in confirmed : receipt.to = receipt.from

=============================================================================
