----------------------------- MODULE MCChatServer -----------------------------
(***************************************************************************)
(* Instances of ChatServer for TLC.                                        *)
(***************************************************************************)
EXTENDS ChatServer, TLC

\* Users, connections and messages are told apart by equality only.
Symmetry ==
    Permutations(Users) \cup Permutations(Conns) \cup Permutations(Msgs)

=============================================================================
