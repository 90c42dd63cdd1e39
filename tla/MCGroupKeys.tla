------------------------------ MODULE MCGroupKeys ------------------------------
(***************************************************************************)
(* An instance of GroupKeys for TLC: either one group of all the users, or *)
(* all the groups with one user.  The first is the case of a handler that  *)
(* delivers to several, the second that of a login that pushes several     *)
(* rows and holds the database while it writes.                            *)
(***************************************************************************)
EXTENDS GroupKeys

FirstGroup == CHOOSE g \in Groups : TRUE
FirstUser == CHOOSE u \in Users : TRUE

OneGroup == \A g \in Groups \ {FirstGroup} : owner[g] = NoUser

\* Nobody else has ever logged in, been a member or been sent a key.
OneUser ==
    \A u \in Users \ {FirstUser} :
        /\ logins[u] = 0
        /\ \A g \in Groups :
              /\ u \notin members[g] \cup keys[g] \cup lost[g]
              /\ row[g][u] = "none"

\* Users and groups differ in nothing: the first to log in is FirstUser, the
\* first to be created FirstGroup.
InOrder ==
    /\ serial = 1 => \A u \in Users \ {FirstUser} : logins[u] = 0
    /\ owner[FirstGroup] = NoUser => \A g \in Groups : owner[g] = NoUser

MCSpec ==
    /\ Init
    /\ [][Next /\ (InOrder /\ (OneGroup \/ OneUser))']_vars
    /\ \A t \in Threads : WF_vars(HandlerStep(t))

=============================================================================
