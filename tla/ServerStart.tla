---------------------------- MODULE ServerStart ----------------------------
(***************************************************************************)
(* How the server comes up: server/main.py, the credentials in the keyring *)
(* (server/keyring_store), the configuration (server/config/loader.py) and *)
(* the start of the components.                                            *)
(*                                                                         *)
(* The keyring and the files outlive the process; the process may die      *)
(* between any two writes.  main runs its steps in order and lets most     *)
(* exceptions end it, Announce's among them: chat_server.start, the step   *)
(* after it, is never reached.                                             *)
(***************************************************************************)
EXTENDS Naturals, Sequences, FiniteSets

CONSTANTS
    TcpPorts,     \* ports a configuration may give the relay and the P2P node
    MaxSetups     \* bound on the runs of initialize_server_credentials

ASSUME StartAssumption ==
    /\ MaxSetups \in Nat
    /\ \E p, q \in TcpPorts : p # q

VARIABLES
    keyring,   \* the setup that wrote each entry of the keyring, 0 if none did
    setup,     \* the entry a running setup writes next, 0 if none runs
    setups,    \* number of setups so far
    file,      \* server_config.json
    config,    \* config, as far as main's steps depend on it
    guide,     \* guide.txt: not there or without a node, or naming some
    stage,     \* the step of main that is next
    up,        \* components started
    bound,     \* TCP components that have their port
    reason     \* why main ended last

startVars == <<keyring, setup, setups, file, config, guide, stage, up, bound, reason>>

\* set_admin_pin_hash, set_server_keys, set_node_id, in this order.
Entries == <<"pin_hash", "pin_salt", "x_priv", "x_pub", "e_priv", "e_pub", "node_id">>
Keys == {"x_priv", "x_pub", "e_priv", "e_pub"}
Names == {Entries[i] : i \in 1..Len(Entries)}

Files == {"missing", "corrupt", "defaults", "own"}
Configs == [relay : TcpPorts, p2p : TcpPorts, logs : BOOLEAN]

Stages == {"down", "config", "identity", "logs", "dht", "bootstrap", "relay",
           "p2p", "broadcast", "announce"}
Reasons == {"none", "keyring", "identity", "logs", "bootstrap", "port", "announce", "killed"}

StartTypeOK ==
    /\ keyring \in [Names -> 0..MaxSetups]
    /\ setup \in 0..Len(Entries)
    /\ setups \in 0..MaxSetups
    /\ file \in Files
    /\ config \in Configs
    /\ guide \in {"absent", "names"}
    /\ stage \in Stages
    /\ up \subseteq {"dht", "relay", "p2p", "broadcast"}
    /\ bound \subseteq {"relay", "p2p"}
    /\ reason \in Reasons

\* DEFAULT_CONFIG: ports of their own, and no directory for the log.
IsDefault(c) == c.relay # c.p2p /\ ~c.logs

StartInit ==
    /\ keyring = [n \in Names |-> 0]
    /\ setup = 0 /\ setups = 0
    /\ file = "missing"
    /\ config = CHOOSE c \in Configs : IsDefault(c)
    /\ guide = "absent"
    /\ stage = "down"
    /\ up = {} /\ bound = {}
    /\ reason = "none"

-----------------------------------------------------------------------------
(* initialize_server_credentials, which nothing in the repository calls.   *)

Setup ==
    /\ setup = 0 /\ setups < MaxSetups /\ stage = "down"
    /\ setup' = 1
    /\ setups' = setups + 1
    /\ UNCHANGED <<keyring, file, config, guide, stage, up, bound, reason>>

\* Mutant: the node id is stored before the last of the keys.
EntrySwapped(i) == Entries[IF i = 6 THEN 7 ELSE IF i = 7 THEN 6 ELSE i]

\* The i-th entry that is written.
Entry(i) == Entries[i]

WriteEntry ==
    /\ setup > 0
    /\ keyring' = [keyring EXCEPT ![Entry(setup)] = setups]
    /\ setup' = IF setup = Len(Entries) THEN 0 ELSE setup + 1
    /\ UNCHANGED <<setups, file, config, guide, stage, up, bound, reason>>

SetupDies ==
    /\ setup > 0
    /\ setup' = 0
    /\ UNCHANGED <<keyring, setups, file, config, guide, stage, up, bound, reason>>

\* get_server_keys: all four or none.
ServerKeys == \A n \in Keys : keyring[n] # 0

-----------------------------------------------------------------------------
(* main.                                                                   *)

Proceed(s) == stage' = s /\ UNCHANGED <<up, bound, reason>>

\* An exception or the end of the process: the threads are daemons.
End(why) ==
    /\ stage' = "down"
    /\ up' = {} /\ bound' = {}
    /\ reason' = why

\* check_keyring_or_exit: a system keyring, else an encrypted file, which
\* needs a passphrase and its package.
Start(available) ==
    /\ stage = "down" /\ setup = 0
    /\ IF available THEN Proceed("config") ELSE End("keyring")
    /\ UNCHANGED <<keyring, setup, setups, file, config, guide>>

\* load_config: a missing file is written with the defaults, a corrupt one is
\* as good as none; the command line may still change the ports and not the
\* directory of the log.
LoadConfig(c) ==
    /\ stage = "config"
    /\ file # "own" => ~c.logs
    /\ config' = c
    /\ file' = IF file = "missing" THEN "defaults" ELSE file
    /\ Proceed("identity")
    /\ UNCHANGED <<keyring, setup, setups, guide>>

\* Without a node id there is nothing to slice.
Identify ==
    /\ stage = "identity"
    /\ IF keyring["node_id"] # 0 THEN Proceed("logs") ELSE End("identity")
    /\ UNCHANGED <<keyring, setup, setups, file, config, guide>>

\* A log directory that is the empty string cannot be made.
OpenLog ==
    /\ stage = "logs"
    /\ IF config.logs THEN Proceed("dht") ELSE End("logs")
    /\ UNCHANGED <<keyring, setup, setups, file, config, guide>>

\* DHTNode subscripts the keys; its UDP port can be shared.
StartDht ==
    /\ stage = "dht"
    /\ IF ServerKeys
       THEN stage' = "bootstrap" /\ up' = up \cup {"dht"} /\ UNCHANGED <<bound, reason>>
       ELSE End("identity")
    /\ UNCHANGED <<keyring, setup, setups, file, config, guide>>

\* ping says yes once a datagram could be sent, whether or not anything answers;
\* the node of guide.txt is then entered with an empty id, which is no number
\* (dht/node.py:463-466). Names that do not resolve are passed over.
Bootstrap(sent) ==
    /\ stage = "bootstrap"
    /\ IF guide = "names" /\ sent THEN End("bootstrap") ELSE Proceed("relay")
    /\ UNCHANGED <<keyring, setup, setups, file, config, guide>>

\* The relay lets an exception of bind end main.  Another program may hold the
\* port.
StartRelay(free) ==
    /\ stage = "relay"
    /\ IF free
       THEN /\ stage' = "p2p"
            /\ up' = up \cup {"relay"} /\ bound' = bound \cup {"relay"}
            /\ UNCHANGED reason
       ELSE End("port")
    /\ UNCHANGED <<keyring, setup, setups, file, config, guide>>

\* ChatServer is made; the P2P node swallows the exception and runs on.
StartP2P(free) ==
    /\ stage = "p2p"
    /\ up' = up \cup {"p2p"}
    /\ bound' = IF free /\ config.p2p # config.relay THEN bound \cup {"p2p"} ELSE bound
    /\ stage' = "broadcast"
    /\ UNCHANGED <<keyring, setup, setups, file, config, guide, reason>>

StartBroadcast ==
    /\ stage = "broadcast"
    /\ up' = up \cup {"broadcast"}
    /\ stage' = "announce"
    /\ UNCHANGED <<keyring, setup, setups, file, config, guide, bound, reason>>

\* dht_node.store("server:..."): get_closest cannot read the key as a number
\* (dht/routing.py:100), and main has no handler.
Announce ==
    /\ stage = "announce"
    /\ End("announce")
    /\ UNCHANGED <<keyring, setup, setups, file, config, guide>>

Kill ==
    /\ stage # "down"
    /\ End("killed")
    /\ UNCHANGED <<keyring, setup, setups, file, config, guide>>

\* The files are edited by hand; a process that dies in save_config leaves a
\* corrupt one.
Edit(f, g) ==
    /\ stage = "down" /\ setup = 0
    /\ file' = f /\ guide' = g
    /\ UNCHANGED <<keyring, setup, setups, config, stage, up, bound, reason>>

StartNext ==
    \/ Setup \/ WriteEntry \/ SetupDies
    \/ \E available \in BOOLEAN : Start(available)
    \/ \E c \in Configs : LoadConfig(c)
    \/ Identify \/ OpenLog \/ StartDht
    \/ \E sent \in BOOLEAN : Bootstrap(sent)
    \/ \E free \in BOOLEAN : StartRelay(free) \/ StartP2P(free)
    \/ StartBroadcast \/ Announce \/ Kill
    \/ \E f \in Files, g \in {"absent", "names"} : Edit(f, g)

StartSpec == StartInit /\ [][StartNext]_startVars

-----------------------------------------------------------------------------
(* Properties.                                                             *)

\* A node id is never in the keyring without the keys, whatever write a setup
\* was cut short at, so that main, which looks at the id first, does not get
\* past it and fail once the DHT node is made.
IdentityComplete == stage \in Stages \ {"down", "config", "identity"} => ServerKeys

\* main.py:4 says that all components of the server are started: a start that
\* got as far as the announcement does not fail there.
AllComponentsStart == reason # "announce"

=============================================================================
