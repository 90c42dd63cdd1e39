---------------------------- MODULE MCReplayGuard ----------------------------
(***************************************************************************)
(* Instances of ReplayGuard for TLC.                                       *)
(***************************************************************************)
EXTENDS ReplayGuard, TLC

\* Threads and nonces are told apart by equality only.
Symmetry == Permutations(Threads) \cup Permutations(Nonces)

=============================================================================
