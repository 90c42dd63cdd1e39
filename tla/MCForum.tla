------------------------------ MODULE MCForum ------------------------------
(***************************************************************************)
(* Instances of Forum for TLC.                                             *)
(***************************************************************************)
EXTENDS Forum, TLC

\* Authors, posts, comments and threads are told apart by equality only.
Symmetry == Permutations(Authors) \cup Permutations(Threads)
                \cup Permutations(Posts) \cup Permutations(Comments)

=============================================================================
