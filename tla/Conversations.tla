---------------------------- MODULE Conversations ----------------------------
(***************************************************************************)
(* The conversations of the desktop client: the table of messages          *)
(* (src/client/storage/messages.py), the window that shows one of them and *)
(* sends read receipts (src/client/gui/main_window.py), and the deletion   *)
(* of what has been read (src/client/security/ephemeral.py).               *)
(*                                                                         *)
(* Messages arrive on the thread of the connection (src/client/network/    *)
(* tcp_client.py), which stores and displays them itself while the         *)
(* interface's thread works on the same window. What a message says, its   *)
(* keys and the layout of the window are left out.                         *)
(***************************************************************************)
EXTENDS Naturals, FiniteSets

CONSTANTS Contacts,
          MaxRows,      \* bound of the rows written
          MaxLoaded,    \* 200, the rows a window shows
          Burnt,        \* ephemeral_contact_uuids, or all for ephemeral_enabled
          Nothing

ASSUME ConversationsAssumption ==
    MaxRows \in Nat /\ MaxLoaded \in Nat \ {0} /\ Burnt \subseteq Contacts

VARIABLES
    secure,     \* ephemeral_secure_delete
    rows,       \* table messages, by the order of their arrival
    written,    \* rows written so far
    keys,       \* contact_pubkeys
    current,    \* current_contact
    window,     \* _message_widgets: the row, the id it goes by, what was visible
    arrival,    \* row the connection's thread has stored and not yet shown
    opening,    \* what _select_contact still has to do
    sentFor,    \* rows a read receipt was sent for under the server's id
    seen,       \* rows shown from head to tail, or marked read by the menu
    burnt,      \* rows deleted because they had been read
    raised      \* contacts for whom the last such deletion raised

tableVars == <<secure, rows, written, keys, sentFor, seen, burnt, raised>>
windowVars == <<current, window, arrival, opening>>
conversationVars == <<tableVars, windowVars>>

Ids == 1 .. MaxRows
Row == [contact : Contacts, sent : BOOLEAN,
        status : {"sending", "queued_offline", "delivered", "read"}]

ConversationsInit ==
    /\ secure \in BOOLEAN /\ rows = << >> /\ written = 0 /\ keys = {}
    /\ current = Nothing /\ window = {} /\ arrival = Nothing /\ opening = "no"
    /\ sentFor = {} /\ seen = {} /\ burnt = {} /\ raised = {}

Of(c) == {i \in DOMAIN rows : rows[i].contact = c}
Received(c) == {i \in Of(c) : ~rows[i].sent}
Keep(ids) == [i \in DOMAIN rows \cap ids |-> rows[i]]
Marked(ids, status) ==
    [i \in DOMAIN rows |-> IF i \in ids THEN [rows[i] EXCEPT !.status = status] ELSE rows[i]]
Written(c, sent, status) ==
    [i \in DOMAIN rows \cup {written + 1} |->
        IF i = written + 1 THEN [contact |-> c, sent |-> sent, status |-> status] ELSE rows[i]]

-----------------------------------------------------------------------------
(* The connection's thread. *)

\* A contact's key is asked for, which the server may or may not know.
Asked(c) == keys' \in {keys, keys \cup {c}}

\* A message whose sender's key is not known asks for the key and is dropped.
DropUnknown(c) ==
    /\ arrival = Nothing /\ c \notin keys /\ Asked(c)
    /\ UNCHANGED <<secure, rows, written, sentFor, seen, burnt, raised, windowVars>>

StoreArrival(c) ==
    /\ arrival = Nothing /\ c \in keys /\ written < MaxRows
    /\ rows' = Written(c, FALSE, "delivered") /\ written' = written + 1
    /\ arrival' = [row |-> written + 1, from |-> c, show |-> FALSE]
    /\ UNCHANGED <<secure, keys, sentFor, seen, burnt, raised, current, window, opening>>

\* The conversation is compared before the message is displayed.
CompareCurrent ==
    /\ arrival # Nothing /\ ~arrival.show
    /\ arrival' = IF arrival.from = current THEN [arrival EXCEPT !.show = TRUE] ELSE Nothing
    /\ UNCHANGED <<tableVars, current, window, opening>>

Item(i, by) == [row |-> i, by |-> by, head |-> FALSE, tail |-> FALSE, told |-> FALSE]

DisplayArrival ==
    /\ arrival # Nothing /\ arrival.show
    /\ window' = window \cup {Item(arrival.row, "server")} /\ arrival' = Nothing
    /\ UNCHANGED <<tableVars, current, opening>>

\* The answers to what was sent, in any order; the rows sent carry no id of
\* the server's, so a peer's read receipt finds none.
DeliveryReceipt(i, status) ==
    /\ arrival = Nothing /\ i \in DOMAIN rows /\ rows[i].sent
    /\ rows' = Marked({i}, status)
    /\ UNCHANGED <<secure, written, keys, sentFor, seen, burnt, raised, windowVars>>

-----------------------------------------------------------------------------
(* Deleting what has been read. *)

Burning(rs, who) == [gone |-> rs, raised |-> who]

\* Mutant: the conversation goes, as if that were the rule.
BurnAll(c, ids) == {Burning(IF c \notin Burnt \/ ids = {} THEN {} ELSE Of(c), {})}

\* What burn_if_matches may come to for the rows ids, found by their server ids.
\* The text of the message is not passed on, so no rule about it applies. A
\* deletion that raises, as the secure variant's always does, its statement not
\* being SQL, deletes the whole conversation of the contact asked for instead;
\* if that raises too, nothing goes.
Burns(c, ids) ==
    IF c \notin Burnt \/ ids = {} THEN {Burning({}, {})}
    ELSE {Burning(done \cup all, {c}) :
             done \in IF secure THEN {{}} ELSE SUBSET ids \ {ids}, all \in {{}, Of(c)}}
         \cup IF secure THEN {} ELSE {Burning(ids, {})}

\* _send_read_receipt. Under a row's local id nothing is found to delete.
Told(c, item) ==
    /\ sentFor' = IF item.by = "server" THEN sentFor \cup {item.row} ELSE sentFor
    /\ \E b \in Burns(c, IF item.by = "server" THEN {item.row} \cap DOMAIN rows ELSE {}) :
          /\ burnt' = burnt \cup b.gone /\ raised' = b.raised
          /\ rows' = Keep(DOMAIN rows \ b.gone)

-----------------------------------------------------------------------------
(* The interface's thread. *)

Choose(c) ==
    /\ opening = "no" /\ current' = c /\ opening' = "load" /\ Asked(c)
    /\ UNCHANGED <<secure, rows, written, sentFor, seen, burnt, raised, window, arrival>>

\* The oldest rows are shown, the received ones under their local ids.
Load ==
    /\ opening = "load" /\ opening' = "mark"
    /\ LET first == {i \in Of(current) : Cardinality({j \in Of(current) : j < i}) < MaxLoaded}
       IN  window' = {Item(i, "local") : i \in first \cap Received(current)}
    /\ UNCHANGED <<tableVars, current, arrival>>

MarkRead ==
    /\ opening = "mark" /\ opening' = "no"
    /\ rows' = Marked(Received(current), "read")
    /\ UNCHANGED <<secure, written, keys, sentFor, seen, burnt, raised, current, window, arrival>>

\* _check_visible_messages sees the head or the tail of an item and, once it
\* has seen both, tells the contact. A receipt that cannot be sent counts.
SeePart(item, part, reached) ==
    LET now == [item EXCEPT !.head = @ \/ part = "head", !.tail = @ \/ part = "tail"]
    IN  /\ opening = "no" /\ item \in window /\ ~item.told
        /\ seen' = IF now.head /\ now.tail THEN seen \cup {item.row} ELSE seen
        /\ window' = (window \ {item}) \cup
                     {IF now.head /\ now.tail THEN [Item(item.row, item.by) EXCEPT !.told = TRUE]
                                              ELSE now}
        /\ IF now.head /\ now.tail /\ reached THEN Told(current, item)
                                              ELSE UNCHANGED <<sentFor, burnt, raised, rows>>
        /\ UNCHANGED <<secure, written, keys, current, arrival, opening>>

\* The menu of a contact, which need not be the current one: what is sent and
\* deleted goes by the current one first.
MarkAllRead(c, reached) ==
    LET unread == {i \in Received(c) : rows[i].status # "read"}
        First == IF reached /\ current # Nothing THEN Burns(current, unread)
                 ELSE {Burning({}, {})}
    IN  /\ opening = "no" /\ unread # {}
        /\ sentFor' = IF reached THEN sentFor \cup unread ELSE sentFor
        /\ seen' = seen \cup unread
        /\ \E b \in First, d \in Burns(c, unread) :
              /\ burnt' = burnt \cup b.gone \cup d.gone /\ raised' = b.raised \cup d.raised
              /\ rows' = [i \in DOMAIN rows \ (b.gone \cup d.gone) |-> Marked(unread, "read")[i]]
        /\ window' = {IF item.row \in unread /\ item.by = "server"
                      THEN [item EXCEPT !.told = TRUE, !.head = TRUE, !.tail = TRUE] ELSE item :
                      item \in window}
        /\ UNCHANGED <<secure, written, keys, current, arrival, opening>>

\* _send_text stores the message before it sends it; if sending fails the row
\* stays as it is.
SendText ==
    /\ opening = "no" /\ current \in keys /\ written < MaxRows
    /\ rows' = Written(current, TRUE, "sending") /\ written' = written + 1
    /\ UNCHANGED <<secure, keys, sentFor, seen, burnt, raised, windowVars>>

DeleteChat(c) ==
    /\ opening = "no" /\ rows' = Keep(DOMAIN rows \ Of(c))
    /\ window' = IF c = current THEN {} ELSE window
    /\ UNCHANGED <<secure, written, keys, sentFor, seen, burnt, raised, current, arrival, opening>>

\* The contact's key is forgotten; the current conversation stays open.
DeleteContact(c) ==
    /\ opening = "no" /\ keys' = keys \ {c}
    /\ UNCHANGED <<secure, rows, written, sentFor, seen, burnt, raised, windowVars>>

\* The search of a conversation clears the window for its results.
ShowResults ==
    /\ opening = "no" /\ window' = {}
    /\ UNCHANGED <<tableVars, current, arrival, opening>>

ConversationsNext ==
    \/ \E c \in Contacts :
          \/ DropUnknown(c) \/ StoreArrival(c) \/ Choose(c) \/ DeleteChat(c) \/ DeleteContact(c)
          \/ \E reached \in BOOLEAN : MarkAllRead(c, reached)
    \/ \E i \in DOMAIN rows, status \in {"queued_offline", "delivered"} : DeliveryReceipt(i, status)
    \/ \E item \in window, part \in {"head", "tail"}, reached \in BOOLEAN :
          SeePart(item, part, reached)
    \/ CompareCurrent \/ DisplayArrival \/ Load \/ MarkRead \/ SendText \/ ShowResults

ConversationsSpec == ConversationsInit /\ [][ConversationsNext]_conversationVars

-----------------------------------------------------------------------------

ConversationsTypeOK ==
    /\ secure \in BOOLEAN /\ written \in 0 .. MaxRows
    /\ DOMAIN rows \subseteq 1 .. written /\ \A i \in DOMAIN rows : rows[i] \in Row
    /\ keys \subseteq Contacts /\ current \in Contacts \cup {Nothing}
    /\ \A item \in window : item.row \in 1 .. written
    /\ sentFor \cup seen \cup burnt \subseteq Ids /\ raised \subseteq Contacts /\ opening \in {"no", "load", "mark"}

\* A message is deleted for having been read only if all of it was shown or the
\* menu marked it, wherever the window was and whatever arrived meanwhile, or
\* else with the whole conversation of a contact for whom a deletion raised
\* (burn_if_matches).
OnlySeenIsBurnt ==
    [][burnt' \ burnt \subseteq seen' \cup UNION {Of(c) : c \in raised'}]_conversationVars

=============================================================================
