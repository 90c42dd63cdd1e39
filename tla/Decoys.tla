------------------------------- MODULE Decoys -------------------------------
(***************************************************************************)
(* The random packets a server sends to its peers (set_decoy, _decoy_loop  *)
(* and _is_decoy_relay of server/chat/cross_server.py), switched on and    *)
(* off by the threads of administrators' commands.                         *)
(*                                                                         *)
(* A packet looks like a relayed message. The receiver tells it by opening *)
(* it with the transport key in its entry of the sender; the keys of two   *)
(* servers change when one of them restarts.                               *)
(***************************************************************************)
EXTENDS Naturals

CONSTANTS Callers,      \* threads that call set_decoy
          Loops,        \* threads of _decoy_loop
          Peers,
          MaxKeys,      \* bound of the transport keys agreed on with each peer
          NoLoop

ASSUME DecoyAssumption == NoLoop \notin Loops /\ MaxKeys \in Nat

VARIABLES
    enabled,    \* _decoy_enabled
    stopping,   \* _decoy_stop_event
    thread,     \* _decoy_thread
    loop,       \* where each loop is
    aim,        \* the peer it has chosen, and the key it has sealed with
    call,       \* where each caller is
    last,       \* argument of the call that has ended last
    entry,      \* key in this server's entry of each peer, or 0
    theirs,     \* key in the peer's entry of this server, or 0
    agreed,     \* keys agreed on so far
    line,       \* packets on the way to each peer, by their key
    fate        \* what became of a packet at each peer

switchVars == <<enabled, stopping, thread, call, last>>
packetVars == <<entry, theirs, agreed, line, fate>>
decoyVars == <<switchVars, loop, aim, packetVars>>

DecoysInit ==
    /\ enabled = FALSE /\ stopping = FALSE /\ thread = NoLoop
    /\ loop = [l \in Loops |-> "new"] /\ aim = [l \in Loops |-> <<>>]
    /\ call = [c \in Callers |-> "idle"] /\ last = "off"
    /\ entry = [p \in Peers |-> 0] /\ theirs = [p \in Peers |-> 0]
    /\ agreed = [p \in Peers |-> 0] /\ line = [p \in Peers |-> {}]
    /\ fate = [p \in Peers |-> "none"]

Alive(l) == l # NoLoop /\ loop[l] \notin {"new", "ended"}

-----------------------------------------------------------------------------
(* set_decoy. *)

CallAt(c, step) == call[c] = step

\* The flag and the interval are set under the lock; the rest is not. An
\* interval that is none changes nothing.
Switch(c, on) ==
    /\ CallAt(c, "idle")
    /\ enabled' = on
    /\ call' = [call EXCEPT ![c] = IF on THEN "look" ELSE "stop"]
    /\ UNCHANGED <<stopping, thread, last, loop, aim, packetVars>>

CallEnded(c, arg) == call' = [call EXCEPT ![c] = "idle"] /\ last' = arg

\* A loop that is alive is left alone, also one that has been told to stop.
Look(c) ==
    /\ CallAt(c, "look")
    /\ IF Alive(thread) THEN CallEnded(c, "on")
                        ELSE call' = [call EXCEPT ![c] = "clear"] /\ UNCHANGED last
    /\ UNCHANGED <<enabled, stopping, thread, loop, aim, packetVars>>

ClearStop(c) ==
    /\ CallAt(c, "clear")
    /\ stopping' = FALSE
    /\ call' = [call EXCEPT ![c] = "start"]
    /\ UNCHANGED <<enabled, thread, last, loop, aim, packetVars>>

StartDecoyLoop(c, l) ==
    /\ CallAt(c, "start") /\ loop[l] = "new"
    /\ thread' = l /\ loop' = [loop EXCEPT ![l] = "started"]
    /\ CallEnded(c, "on")
    /\ UNCHANGED <<enabled, stopping, aim, packetVars>>

StopDecoys(c) ==
    /\ CallAt(c, "stop")
    /\ stopping' = TRUE
    /\ CallEnded(c, "off")
    /\ UNCHANGED <<enabled, thread, loop, aim, packetVars>>

-----------------------------------------------------------------------------
(* _decoy_loop. *)

\* Mutant: the loop starts by clearing what tells it to stop.
FirstRoundClears(l) ==
    /\ loop[l] = "started"
    /\ loop' = [loop EXCEPT ![l] = "waiting"]
    /\ stopping' = FALSE
    /\ UNCHANGED <<enabled, thread, call, last, aim, packetVars>>

FirstRound(l) ==
    /\ loop[l] = "started"
    /\ loop' = [loop EXCEPT ![l] = "waiting"]
    /\ UNCHANGED <<switchVars, aim, packetVars>>

EndLoop(l) ==
    /\ loop[l] = "waiting" /\ stopping
    /\ loop' = [loop EXCEPT ![l] = "ended"]
    /\ UNCHANGED <<switchVars, aim, packetVars>>

\* The wait is over: one of the peers that are connected is chosen and a packet
\* sealed with its key.
Choose(l, p) ==
    /\ loop[l] = "waiting" /\ ~stopping
    /\ entry[p] # 0
    /\ loop' = [loop EXCEPT ![l] = "sending"] /\ aim' = [aim EXCEPT ![l] = <<p, entry[p]>>]
    /\ UNCHANGED <<switchVars, packetVars>>

\* _send_to_peer looks the peer up again and does nothing if it is gone.
SendDecoy(l) ==
    /\ loop[l] = "sending"
    /\ loop' = [loop EXCEPT ![l] = "waiting"] /\ aim' = [aim EXCEPT ![l] = <<>>]
    /\ LET p == aim[l][1]
       IN  line' = IF entry[p] # 0 THEN [line EXCEPT ![p] = @ \cup {aim[l][2]}] ELSE line
    /\ UNCHANGED <<switchVars, entry, theirs, agreed, fate>>

-----------------------------------------------------------------------------
(* The peers. *)

\* A handshake after a restart of either side agrees on a new key, one without
\* on the same; both sides enter it one after the other. An end of a connection
\* removes an entry.
Handshake(p, key) ==
    /\ key \in {agreed[p], agreed[p] + 1} \ {0}
    /\ agreed' = [agreed EXCEPT ![p] = key] /\ entry' = [entry EXCEPT ![p] = key]
    /\ UNCHANGED <<switchVars, loop, aim, theirs, line, fate>>

PeerEnters(p) ==
    /\ theirs[p] # agreed[p] /\ entry[p] = agreed[p]
    /\ theirs' = [theirs EXCEPT ![p] = agreed[p]]
    /\ UNCHANGED <<switchVars, loop, aim, entry, agreed, line, fate>>

EntryGone(p) ==
    /\ \/ entry' = [entry EXCEPT ![p] = 0] /\ UNCHANGED theirs
       \/ theirs' = [theirs EXCEPT ![p] = 0] /\ UNCHANGED entry
    /\ UNCHANGED <<switchVars, loop, aim, agreed, line, fate>>

\* _is_decoy_relay: a packet that the key in the entry opens is dropped and
\* counted; any other goes the way of a message, to a user nobody knows.
DecoyArrives(p, key) ==
    /\ key \in line[p]
    /\ line' = [line EXCEPT ![p] = @ \ {key}]
    /\ fate' = [fate EXCEPT ![p] = IF theirs[p] = key THEN "dropped" ELSE "kept"]
    /\ UNCHANGED <<switchVars, loop, aim, entry, theirs, agreed>>

DecoysNext ==
    \/ \E c \in Callers :
          \/ \E on \in BOOLEAN : Switch(c, on)
          \/ Look(c) \/ ClearStop(c) \/ StopDecoys(c)
          \/ \E l \in Loops : StartDecoyLoop(c, l)
    \/ \E l \in Loops :
          FirstRound(l) \/ EndLoop(l) \/ SendDecoy(l) \/ \E p \in Peers : Choose(l, p)
    \/ \E p \in Peers :
          \/ PeerEnters(p) \/ EntryGone(p)
          \/ \E key \in 1 .. MaxKeys : Handshake(p, key) \/ DecoyArrives(p, key)

DecoysSpec == DecoysInit /\ [][DecoysNext]_decoyVars

-----------------------------------------------------------------------------

DecoysTypeOK ==
    /\ enabled \in BOOLEAN /\ stopping \in BOOLEAN
    /\ thread \in Loops \cup {NoLoop}
    /\ loop \in [Loops -> {"new", "started", "waiting", "sending", "ended"}]
    /\ aim \in [Loops -> {<<>>} \cup (Peers \X (1 .. MaxKeys))]
    /\ call \in [Callers -> {"idle", "look", "clear", "start", "stop"}]
    /\ last \in {"on", "off"}
    /\ entry \in [Peers -> 0 .. MaxKeys] /\ theirs \in [Peers -> 0 .. MaxKeys]
    /\ agreed \in [Peers -> 0 .. MaxKeys] /\ line \in [Peers -> SUBSET (1 .. MaxKeys)]
    /\ fate \in [Peers -> {"none", "dropped", "kept"}]

\* Once the calls of set_decoy have all returned, and the last to return was to
\* switch off, every loop that is still alive ends before its next packet,
\* however the calls overlapped and however many loops they started.
OffSilences ==
    (\A c \in Callers : CallAt(c, "idle")) /\ last = "off" =>
        stopping \/ \A l \in Loops : ~Alive(l)

=============================================================================
