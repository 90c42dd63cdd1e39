------------------------------ MODULE MCClient ------------------------------
(***************************************************************************)
(* The parts of the desktop client that share no state, side by side: the  *)
(* initial state chooses which of them runs.                               *)
(***************************************************************************)
EXTENDS ClientSettings, ClientIdentity, Conversations, DirectConnect, LocalApi, TLC

VARIABLE part

ownVars == <<settingsVars, identityVars, conversationVars>>
clientVars == <<part, ownVars, directVars, apiVars>>

\* What a part that does not run starts with does not matter.
ClientInit ==
    /\ part \in {"settings", "identity", "conversations", "direct", "api"}
    /\ SettingsInit /\ IdentityInit /\ ConversationsInit
    /\ DirectInit /\ ApiInit
    /\ part # "conversations" => ~secure

ClientNext ==
    \/ /\ part = "settings" /\ SettingsNext
       /\ UNCHANGED <<part, identityVars, conversationVars, directVars, apiVars>>
    \/ /\ part = "identity" /\ IdentityNext
       /\ UNCHANGED <<part, settingsVars, conversationVars, directVars, apiVars>>
    \/ /\ part = "conversations" /\ ConversationsNext
       /\ UNCHANGED <<part, settingsVars, identityVars, directVars, apiVars>>
    \/ /\ part = "direct" /\ DirectNext
       /\ UNCHANGED <<part, ownVars, apiVars>>
    \/ /\ part = "api" /\ ApiNext
       /\ UNCHANGED <<part, ownVars, directVars>>

ClientSpec == ClientInit /\ [][ClientNext]_clientVars

\* Stations and threads of the direct connections are told apart by equality only.
DirectSymmetry == Permutations(Near) \cup Permutations(Callers)

=============================================================================
