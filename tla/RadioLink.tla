------------------------------ MODULE RadioLink ------------------------------
(***************************************************************************)
(* One client's link, src/client/network/link.py, with its gateway manager *)
(* (src/client/network/radio/dht.py): whether the station is a gateway     *)
(* follows from the mode and from what it found of the public network and  *)
(* of radio hardware; the interface is told when that changes; the first   *)
(* message enters the station into its own table of nodes.                 *)
(*                                                                         *)
(* recompute() takes seconds (it connects to a name server) and holds no   *)
(* lock: the mode and the capabilities may be set while it runs.           *)
(***************************************************************************)
EXTENDS FiniteSets

CONSTANTS Probes,      \* threads that call recompute
          LinkUsers,   \* frequencies the user may type in
          NoFrequency, NoProbe

ASSUME LinkAssumption == NoProbe \notin {"public", "sdr", "end"} \X BOOLEAN

VARIABLES
    gatewayMode,   \* GatewayManager.mode
    found,         \* _has_public and _has_sdr, those that are true
    world,         \* what is there to be found
    told,          \* what on_gateway_change said last
    probe,         \* Probes -> the step of a recompute and its old status
    overlapped,    \* some recompute ran beside another change
    linkMode,      \* Link.mode
    transports,    \* the transports injected
    frequency,     \* RadioConfig.frequency_hz
    locked,        \* _locked_frequency_hz
    ownRole,       \* the role in the station's own entry, "none" before it
    answer         \* how the last send ended

linkVars == <<gatewayMode, found, world, told, probe, overlapped, linkMode, transports,
              frequency, locked, ownRole, answer>>
managerVars == <<gatewayMode, found, told, probe, overlapped>>
sendingVars == <<linkMode, transports, frequency, locked, ownRole, answer>>

Modes == {"auto", "enabled", "disabled"}
Abilities == {"public", "sdr"}

LinkInit ==
    /\ gatewayMode \in Modes /\ found = {} /\ world \in SUBSET Abilities
    /\ told = (gatewayMode = "enabled")
    /\ probe = [t \in Probes |-> NoProbe] /\ overlapped = FALSE
    /\ linkMode \in {"public", "direct", "radio_mesh"} /\ transports = {}
    /\ frequency \in LinkUsers /\ locked = NoFrequency
    /\ ownRole = "none" /\ answer = "none"

GatewayUnder(mode, abilities) ==
    mode = "enabled" \/ (mode = "auto" /\ abilities = Abilities)

IsGateway == GatewayUnder(gatewayMode, found)

\* The interface is only told of the gateway it becomes.
AnnouncedGain(old, new) == told' = (told \/ (new /\ ~old))

\* The interface is called back exactly when the status changed.
Announced(old, new) == told' = IF old # new THEN new ELSE told

Running == {t \in Probes : probe[t] # NoProbe}

-----------------------------------------------------------------------------
(* The gateway manager. *)

SetGatewayMode(mode) ==
    /\ gatewayMode' = mode
    /\ Announced(IsGateway, GatewayUnder(mode, found))
    /\ overlapped' = (overlapped \/ Running # {})
    /\ UNCHANGED <<found, world, probe, sendingVars>>

SetCapabilities(abilities) ==
    /\ found' = abilities
    /\ Announced(IsGateway, GatewayUnder(gatewayMode, abilities))
    /\ overlapped' = (overlapped \/ Running # {})
    /\ UNCHANGED <<gatewayMode, world, probe, sendingVars>>

StartProbe(t) ==
    /\ probe[t] = NoProbe
    /\ probe' = [probe EXCEPT ![t] = <<"public", IsGateway>>]
    /\ overlapped' = (overlapped \/ Running # {})
    /\ UNCHANGED <<gatewayMode, found, world, told, sendingVars>>

\* One of the two checks: what it found replaces what was known of it.
Check(t, ability, next) ==
    /\ probe[t] # NoProbe /\ probe[t][1] = ability
    /\ found' = IF ability \in world THEN found \cup {ability} ELSE found \ {ability}
    /\ probe' = [probe EXCEPT ![t][1] = next]
    /\ UNCHANGED <<gatewayMode, world, told, overlapped, sendingVars>>

EndProbe(t) ==
    /\ probe[t] # NoProbe /\ probe[t][1] = "end"
    /\ Announced(probe[t][2], IsGateway)
    /\ probe' = [probe EXCEPT ![t] = NoProbe]
    /\ UNCHANGED <<gatewayMode, found, world, overlapped, sendingVars>>

WorldChanges(abilities) ==
    /\ world' = abilities
    /\ UNCHANGED <<managerVars, sendingVars>>

-----------------------------------------------------------------------------
(* The link. *)

Inject(transport) ==
    /\ transports' = transports \cup {transport}
    /\ UNCHANGED <<managerVars, world, linkMode, frequency, locked, ownRole, answer>>

TypeFrequency(f) ==
    /\ frequency' = f
    /\ UNCHANGED <<managerVars, world, linkMode, transports, locked, ownRole, answer>>

\* No transport: the caller gets a RuntimeError. Else what the transport
\* answers, and False if it raises.
Through(transport) ==
    answer' \in IF transport \in transports THEN {"sent", "failed"} ELSE {"raised"}

Send ==
    /\ \/ linkMode = "public" /\ Through("public")
       \/ linkMode = "direct" /\ Through("direct")
       \/ linkMode = "radio_mesh" /\ Through("public") /\ ownRole # "none"
    /\ UNCHANGED <<managerVars, world, linkMode, transports, frequency, locked, ownRole>>

\* The first message of a radio link locks the frequency and enters the
\* station, its role being what the manager says at that moment. Whether a
\* gateway is known makes no difference: the message leaves by the public
\* transport.
FirstSend ==
    /\ linkMode = "radio_mesh" /\ ownRole = "none"
    /\ \/ locked' = frequency       \* mode 'auto'
       \/ locked' = locked          \* mode 'manual'
    /\ ownRole' = IF IsGateway THEN "gateway" ELSE "server"
    /\ Through("public")
    /\ UNCHANGED <<managerVars, world, linkMode, transports, frequency>>

LinkNext ==
    \/ \E mode \in Modes : SetGatewayMode(mode)
    \/ \E abilities \in SUBSET Abilities : SetCapabilities(abilities) \/ WorldChanges(abilities)
    \/ \E t \in Probes :
          StartProbe(t) \/ Check(t, "public", "sdr") \/ Check(t, "sdr", "end") \/ EndProbe(t)
    \/ \E transport \in {"public", "direct"} : Inject(transport)
    \/ \E f \in LinkUsers : TypeFrequency(f)
    \/ Send \/ FirstSend

LinkSpec == LinkInit /\ [][LinkNext]_linkVars

-----------------------------------------------------------------------------

LinkTypeOK ==
    /\ gatewayMode \in Modes /\ found \subseteq Abilities /\ world \subseteq Abilities
    /\ told \in BOOLEAN /\ overlapped \in BOOLEAN
    /\ probe \in [Probes -> ({"public", "sdr", "end"} \X BOOLEAN) \cup {NoProbe}]
    /\ transports \subseteq {"public", "direct"}
    /\ frequency \in LinkUsers /\ locked \in LinkUsers \cup {NoFrequency}
    /\ ownRole \in {"none", "gateway", "server"}
    /\ answer \in {"none", "sent", "failed", "raised"}

\* While no recompute runs, the interface knows whether the station is a
\* gateway, as long as no recompute has overlapped another change of the mode
\* or of the capabilities: then its old status may be one the interface has
\* not been told last.
ToldIsTrue == Running = {} /\ ~overlapped => (told = IsGateway)

\* What link.py:510 says of a change of the status: it also updates the role
\* in the station's own entry, which others learn from. No code does.
OwnRoleIsCurrent ==
    Running = {} /\ ownRole # "none" => (ownRole = "gateway" <=> IsGateway)

=============================================================================
