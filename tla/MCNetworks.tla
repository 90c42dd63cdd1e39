----------------------------- MODULE MCNetworks -----------------------------
(***************************************************************************)
(* The networks beside the servers' own: the distributed hash table, the   *)
(* encrypted connections of the relay network, and the client's radio      *)
(* network. They share no state; the initial state chooses which runs.     *)
(***************************************************************************)
EXTENDS Dht, PeerTransport, RadioMesh, RadioLink, TLC

VARIABLE network

networksVars == <<network, dhtVars, transportVars, meshVars, linkVars>>

\* Node 1 advertises itself, 2 too, 3 listens on 0.0.0.0.
HostsUsed == <<1, 2, Here>>
DistanceUsed == << <<0, 3, 2>>, <<3, 0, 1>>, <<2, 1, 0>> >>
BucketUsed == << <<0, 1, 1>>, <<1, 0, 0>>, <<1, 0, 0>> >>
SkewsUsed == {<<0, 1, 0>>}
QuotasUsed == {<<2, 2, 0>>, <<3, 1, 0>>}

\* The clock of station 1 is ahead, and its program may be restarted.
AtUsed == <<1, 2>>
ClockSkewUsed == <<1, 0>>
ProcessesUsed == <<1, 0>>

\* What a network that does not run starts with does not matter.
NetworksInit ==
    /\ network \in {"dht", "transport", "mesh", "link"}
    /\ DhtInit /\ TransportInit /\ MeshInit /\ LinkInit
    /\ network # "dht" => quota = <<2, 2, 0>>
    /\ network # "transport" => user = "p2p"
    /\ network # "link" =>
          /\ gatewayMode = "auto" /\ world = {} /\ linkMode = "public"
          /\ frequency = CHOOSE f \in LinkUsers : TRUE

NetworksNext ==
    \/ /\ network = "dht" /\ DhtNext
       /\ UNCHANGED <<network, transportVars, meshVars, linkVars>>
    \/ /\ network = "transport" /\ TransportNext
       /\ UNCHANGED <<network, dhtVars, meshVars, linkVars>>
    \/ /\ network = "mesh" /\ MeshNext
       /\ UNCHANGED <<network, dhtVars, transportVars, linkVars>>
    \/ /\ network = "link" /\ LinkNext
       /\ UNCHANGED <<network, dhtVars, transportVars, meshVars>>

NetworksSpec == NetworksInit /\ [][NetworksNext]_networksVars

=============================================================================
