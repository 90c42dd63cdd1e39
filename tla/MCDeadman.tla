------------------------------ MODULE MCDeadman ------------------------------
(***************************************************************************)
(* Instances of Deadman for TLC.                                           *)
(***************************************************************************)
EXTENDS Deadman, TLC

\* Users are told apart by equality only.
Symmetry == Permutations(Users)

=============================================================================
