--------------------------- MODULE PeerTransport ---------------------------
(***************************************************************************)
(* The encrypted connection of two peers: TransportEncryptor               *)
(* (shared/crypto_utils.py), the handshake and the framing around it       *)
(* (SecureTransport, server/p2p/transport.py), and what P2PNode            *)
(* (server/p2p/node.py) makes of it.  DirectConnectNode of the client has  *)
(* a handshake and a framing of its own that do the same.                  *)
(*                                                                         *)
(* Each end derives its key from both public keys and a label.  Packets    *)
(* carry no length: a receiver collects what has arrived until it can be   *)
(* decrypted as one packet.                                                *)
(***************************************************************************)
EXTENDS Integers, Sequences

CONSTANTS
    MaxKeys,      \* bound on the key pairs an end generates
    MaxPackets,   \* bound on the packets an end sends
    NoPub         \* no public key known

Ends == {"initiator", "responder"}
Other(e) == IF e = "initiator" THEN "responder" ELSE "initiator"

ASSUME TransportAssumption ==
    MaxKeys \in Nat \ {0} /\ MaxPackets \in Nat /\ NoPub \notin Nat

VARIABLES
    user,       \* who wraps the connection: "p2p" or "secure"
    phase,      \* of each end: "idle", "asked", "keyed" or "failed"
    pub,        \* _pub_b64: number of the own key pair
    peerPub,    \* _peer_pub_b64
    keyOf,      \* _current_key: the key pairs and the label it stems from
    keyId,      \* _key_id
    sent,       \* _send_counter
    hello,      \* keys in handshake lines on their way to each end
    stream,     \* packets on their way to each end
    unread      \* packets an end received alone, under its key's number, and
                \* could not decrypt: no action reads it

transportVars == <<user, phase, pub, peerPub, keyOf, keyId, sent, hello, stream, unread>>

TransportInit ==
    /\ user \in {"p2p", "secure"}
    /\ phase = [e \in Ends |-> "idle"]
    /\ pub = [e \in Ends |-> 1]
    /\ peerPub = [e \in Ends |-> NoPub]
    /\ keyOf = [e \in Ends |-> <<>>]
    /\ keyId = [e \in Ends |-> 0]
    /\ sent = [e \in Ends |-> 0]
    /\ hello = [e \in Ends |-> <<>>]
    /\ stream = [e \in Ends |-> <<>>]
    /\ unread = [e \in Ends |-> {}]

TransportTypeOK ==
    /\ user \in {"p2p", "secure"}
    /\ phase \in [Ends -> {"idle", "asked", "keyed", "failed"}]
    /\ pub \in [Ends -> 1..MaxKeys]
    /\ peerPub \in [Ends -> {NoPub} \cup 1..MaxKeys]
    /\ keyId \in [Ends -> 0..MaxKeys]
    /\ sent \in [Ends -> 0..MaxPackets]

-----------------------------------------------------------------------------

\* _derive_key: the label names the end that derives, not the connection.
Label(e) == e

\* ECDH of the own and the peer's key pair, and the label.
Derived(e, own, peer) ==
    [pair |-> IF e = "initiator" THEN <<own, peer>> ELSE <<peer, own>>, label |-> Label(e)]

SetPeerKey(e, key) ==
    /\ peerPub' = [peerPub EXCEPT ![e] = key]
    /\ keyOf' = [keyOf EXCEPT ![e] = Derived(e, pub[e], key)]
    /\ keyId' = [keyId EXCEPT ![e] = @ + 1]
    /\ sent' = [sent EXCEPT ![e] = 0]

\* do_handshake: ENC_HANDSHAKE with the initiator's public key ...
Request ==
    /\ phase["initiator"] = "idle"
    /\ phase' = [phase EXCEPT !["initiator"] = "asked"]
    /\ hello' = [hello EXCEPT !["responder"] = Append(@, pub["initiator"])]
    /\ UNCHANGED <<user, pub, peerPub, keyOf, keyId, sent, stream, unread>>

\* ... ENC_HANDSHAKE_OK with the responder's, which derives its key ...
Answer ==
    /\ phase["responder"] = "idle" /\ hello["responder"] # <<>>
    /\ phase' = [phase EXCEPT !["responder"] = "keyed"]
    /\ SetPeerKey("responder", Head(hello["responder"]))
    /\ hello' = [hello EXCEPT !["responder"] = Tail(@), !["initiator"] = Append(@, pub["responder"])]
    /\ UNCHANGED <<user, pub, stream, unread>>

\* ... and then the initiator.
Agree ==
    /\ phase["initiator"] = "asked" /\ hello["initiator"] # <<>>
    /\ phase' = [phase EXCEPT !["initiator"] = "keyed"]
    /\ SetPeerKey("initiator", Head(hello["initiator"]))
    /\ hello' = [hello EXCEPT !["initiator"] = Tail(@)]
    /\ UNCHANGED <<user, pub, stream, unread>>

\* connect_to of P2PNode: load_ed25519_private is not imported, so that signing
\* DC_HELLO raises and the call returns False.
Connect ==
    /\ user = "p2p" /\ phase["initiator"] = "keyed"
    /\ phase' = [phase EXCEPT !["initiator"] = "failed"]
    /\ UNCHANGED <<user, pub, peerPub, keyOf, keyId, sent, hello, stream, unread>>

\* _handle_incoming: the DC_HELLO it waits for does not come before the other
\* end's socket is closed, and nobody is entered as a peer.
HandleIncoming ==
    /\ user = "p2p" /\ phase = [initiator |-> "failed", responder |-> "keyed"]
    /\ phase' = [phase EXCEPT !["responder"] = "failed"]
    /\ UNCHANGED <<user, pub, peerPub, keyOf, keyId, sent, hello, stream, unread>>

\* encrypt_packet and sendall.
SendPacket(e) ==
    /\ user = "secure" /\ phase[e] = "keyed" /\ sent[e] < MaxPackets
    /\ sent' = [sent EXCEPT ![e] = @ + 1]
    /\ stream' = [stream EXCEPT ![Other(e)] =
                    Append(@, [key |-> keyOf[e], id |-> keyId[e], from |-> e, no |-> sent[e]])]
    /\ UNCHANGED <<user, phase, pub, peerPub, keyOf, keyId, hello, unread>>

\* decrypt_packet: the number of the key, the direction and the key have to fit.
Opens(e, packet) ==
    /\ packet.id = keyId[e]
    /\ packet.from = Other(e)
    /\ packet.key = keyOf[e]

\* _recv_full_packet: what has arrived is tried as one packet.  If it is more
\* than one, or cannot be decrypted, the call waits for more until its time is
\* over, and gives up.
Receive(e, count) ==
    /\ user = "secure" /\ phase[e] = "keyed"
    /\ count \in 1..Len(stream[e])
    /\ IF count = 1 /\ Opens(e, stream[e][1])
       THEN /\ stream' = [stream EXCEPT ![e] = Tail(@)]
            /\ UNCHANGED <<phase, unread>>
       ELSE /\ stream' = [stream EXCEPT ![e] = <<>>]
            /\ phase' = [phase EXCEPT ![e] = "failed"]
            /\ unread' = [unread EXCEPT ![e] =
                 @ \cup {p \in {stream[e][1]} : count = 1 /\ p.id = keyId[e]}]
    /\ UNCHANGED <<user, pub, peerPub, keyOf, keyId, sent, hello>>

\* rotate_key: a new own key pair and a new key; the peer is sent a line
\* (ENC_ROTATE) that nothing reads as such, and keeps its key.
RotateKey(e) ==
    /\ user = "secure" /\ phase[e] = "keyed" /\ pub[e] < MaxKeys
    /\ pub' = [pub EXCEPT ![e] = @ + 1]
    /\ keyOf' = [keyOf EXCEPT ![e] = Derived(e, pub[e] + 1, peerPub[e])]
    /\ keyId' = [keyId EXCEPT ![e] = @ + 1]
    /\ sent' = [sent EXCEPT ![e] = 0]
    /\ stream' = [stream EXCEPT ![Other(e)] =
                    Append(@, [key |-> <<>>, id |-> 0, from |-> e, no |-> 0])]
    /\ UNCHANGED <<user, phase, peerPub, hello, unread>>

TransportNext ==
    \/ Request \/ Answer \/ Agree \/ Connect \/ HandleIncoming
    \/ \E e \in Ends : \/ SendPacket(e) \/ RotateKey(e)
                       \/ \E count \in 1..MaxPackets : Receive(e, count)

TransportSpec == TransportInit /\ [][TransportNext]_transportVars

-----------------------------------------------------------------------------

\* After the handshake each end decrypts what the other encrypts, as
\* test_client_features.py:442-448 says: a packet received by itself, under the
\* number of the receiver's key and before any rotation, is read.
PacketsAreRead == \A e \in Ends : pub = [d \in Ends |-> 1] => unread[e] = {}

=============================================================================
