---------------------------- MODULE MCCrossServer ----------------------------
(***************************************************************************)
(* Instances of CrossServer for TLC.                                       *)
(***************************************************************************)
EXTENDS CrossServer, TLC

\* Servers, connections and messages are told apart by equality only.
Symmetry ==
    Permutations(Servers) \cup Permutations(Conns) \cup Permutations(Msgs)

=============================================================================
