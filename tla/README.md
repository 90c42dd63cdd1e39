# SpiderChat in TLA+

This directory holds a formal model of SpiderChat: TLA+ modules translated from
the source under `src/`, TLC configurations that check them on small instances,
and TLAPS proofs for instances of every size. Line numbers below are those of
the repository at the commit the model was made from.

- [1. The system](#1-the-system)
- [2. Plan](#2-plan)
- [3. What the modules model](#3-what-the-modules-model)
- [4. What the runs check](#4-what-the-runs-check)
- [5. Fairness](#5-fairness)
- [6. What is proved](#6-what-is-proved)
- [7. Where the code and its documents disagree](#7-where-the-code-and-its-documents-disagree)
- [8. What is not modelled](#8-what-is-not-modelled)

## 1. The system

SpiderChat is an end-to-end encrypted chat. A Python server keeps accounts,
relays sealed messages between the clients connected to it, queues them for
clients that are not, and talks to other servers over TCP with a handshake of its own. Clients exist in
Python (desktop), Java (a Minecraft mod) and Kotlin (Android); they speak one
line-based JSON protocol (`shared/protocol.py`).

The server runs one thread per accepted socket, one maintenance thread per
subsystem, and timers. The threads share dictionaries guarded, not always, by
a lock per object, and SQLite databases opened anew by every operation. All
that survives a restart is in those databases; everything else, the connection
table and the caches among it, is lost.

| Component | State | Operations | Interacts with | Hard part | What makes it correct |
|---|---|---|---|---|---|
| Chat sessions, relay, offline queue (`chat/server.py`, `chat/offline.py`) | `connections` (UUID to connection), `offline_messages`, per-connection flags, `msg_sender_map` | LOGIN, SEND_MSG, receipts, COMPROMISED, disconnect, 60-second maintenance | users, groups, cross-server, dead man's switch | only the writes of `connections` hold the lock: a lookup is stale when used; the queue is read, pushed and deleted in three steps; send errors are swallowed | an entry leads to a live session; a logged in client is reachable; a receipt is true unless a socket broke, and reaches the sender only |
| Login replay protection (`chat/server.py` 166-202, 310-336) | `recent_nonces`, table `seen_nonces` | `_check_and_store_nonce`, trimming, clearing | every LOGIN with a nonce | look-up, insertion and caching are three steps of concurrent threads; caches are lost; rows are deleted by age | a nonce is accepted again only when its retention is over, and refused only when it was used |
| Dead man's switch (`chat/server.py` 807-828, 1006-1063; `chat/offline.py` 119-226; `client/security/deadman.py`) | `deadman_messages`, the client's configuration | store, check-in at login, pass of the maintenance thread | sessions, bans | a list is made once and worked through while users check in; exceptions and crashes between warn, mark and ban | only silent users are triggered; a warning is sent; who is triggered is banned |
| Rate limiter (`rate_limit/token_bucket.py`) | a bucket per user, limits | `consume`, `allow_with_rate`, setters | SEND_MSG, cross-server relay, administrator | dictionary and buckets have separate locks, settings none; a bucket is created by whoever comes first | buckets refill at the rate that is set |
| Groups (`chat/group.py`) | groups, members, sealed keys to deliver, group messages, federation | create, join, leave, remove, send, federate, flush | sessions, cross-server | membership is checked on one connection and used on another; a key is pushed to whoever is connected and otherwise stored; the fan-out works through a list | nobody misses the key; a message reaches those who were members meanwhile |
| Cross-server relay (`chat/cross_server.py`) | `peers`, `known_peers`, `pending_messages`, certificate pins, homes and rates learnt, decoy switch | connect, accept, receive, queries, relay, retry timers, decoy loop | sessions, groups, forum, DHT | two connections to one peer, reconnect timers, the end of the old connection; pins and decoys without locks | a live connection stays in the table; relays arrive once; the first pin stays; homes are true when learnt |
| Users, bans (`user/manager.py`) | `users`, `blocks` | register, ban, unban, mark compromised, delete | sessions, administrator | a ban is a statement and an eviction; a login in between | who is banned is out; an entry ends with its connection |
| Forum (`forum/*.py`) | posts, comments, votes, online users, load level | 20 request types | cross-server | all threads share one connection to the database and so one transaction; load shedding with hysteresis | counters agree with votes; what was answered is stored; the level follows the load |
| DHT (`dht/*.py`) | routing table, store, seen messages | ping, find, store, refresh | cross-server look-ups | UDP: loss, repetition, reordering, clocks | a datagram is handled once; entries lead home; values age |
| P2P relay (`p2p/*.py`, `shared/crypto_utils.py`) | peers, keys of the transport | handshake, packets, rotation, relay | chat server | both ends derive keys on their own; one lock taken twice on a path | what one end encrypts the other reads |
| Administration (`admin/*.py`, `keyring_store`) | sessions, failed attempts, PIN | authenticate, change the PIN, commands | all managers | the PIN is two keyring entries; attempts run in parallel | no session outlives its PIN |
| Client network (`client/network/*.py`) | TCP connection, peers nearby, topology, gateways, modes of the link | connect, send, direct links, search for gateways, probes | server, other clients | several holds of one lock per search; probes take seconds and hold none | the gateways known are the ones there are; the interface is told the truth |
| Client security, keys, storage (`client/security`, `client/crypto`, `client/storage`, `client/experimental`) | identity with two PINs, settings, messages, experimental features | register, unlock, erase, save, burn | server | the program ends between two files; copies of the settings | erased data does not open; only what was seen is burnt |
| Radio (`client/network/radio`) | gossiped tables of stations, frames | gossip, merge, save, load; encode, decode | hardware | merges of other tables, files of older runs, different clocks | stations fade |
| Interfaces, local API (`client/gui`, `client/api`) | API keys, one request at a time | create and delete keys, requests, start and stop | every part of the client | the file of keys is written in place while requests read it | a revoked key opens nothing |
| Start-up, configuration (`main.py`, `config`, `keyring_store`) | keyring, configuration file, stage | set-up, start | all components | a set-up cut short; each step may end the start | no identity without keys |
| Minecraft and Android clients | as the Python client | | | ports of the same protocol | |

## 2. Plan

The chat server came first: its session table is what every other part reads,
and it is the part that threads share with the least protection. Then the two
protections built on it (nonces, dead man's switch), the groups, the network of
servers, the remaining services of the server, and the client.

| # | Module | Contents | Checked in | Proved in |
|---|---|---|---|---|
| 1 | `ChatServer` | sessions, relay, offline queue, eviction, restart | `MCChatServer` | `ChatServerProofs` |
| 2 | `ReplayGuard`, `NonceRegister` | nonces of the logins; `NonceRegister` is the abstract promise | `MCReplayGuard` | `ReplayGuardProofs` |
| 3 | `Deadman` | switch of server and client | `MCDeadman` | `DeadmanProofs` |
| 4 | `GroupKeys` | membership, delivery of the key | `MCGroupKeys` | `GroupKeysProofs` |
| 5 | `CrossServer` | peer table, handshake, relay between servers | `MCCrossServer` | `CrossServerProofs` |
| 6 | `Forum` | posts, comments, votes and their counters | `MCForum` | `ServicesProofs` |
| 7 | `Accounts`, `Receipts` | bans and the table of connections; names of messages and receipts | `MCServices` | `ServicesProofs` |
| 8 | `PeerPins`, `PeerQueries`, `Decoys` | pins, homes and rates, decoy traffic | `MCServices` | `ServicesProofs` |
| 9 | `ForumLoad`, `RateLimiter`, `AdminAccess`, `ServerStart`, `GroupMessages` | load shedding, buckets, PIN and sessions, start, fan-out of group messages | `MCServices` | `ServicesProofs` |
| 10 | `Dht`, `PeerTransport`, `RadioMesh`, `RadioLink` | routing and values over UDP, encrypted connection, stations' tables, a client's link | `MCNetworks` | `NetworksProofs` (all but `PeerTransport`) |
| 11 | `ClientSettings`, `ClientIdentity`, `Conversations`, `DirectConnect`, `LocalApi` | the desktop client | `MCClient` | `ClientProofs` |

What comes next: `ClientLink` (reconnects of the TCP client, composed with
`ChatServer` and `ReplayGuard` into a log-in seen from both sides), `PostFetch`
(posts fetched from other servers, `forum/cross_server.py`) and `Outband` (contacts
and the exchange of keys). Abstract
specifications worth stating beside `NonceRegister`: a mailbox (sent, held by the
server, received) for `ChatServer`, and the same between servers for
`CrossServer`.

Every module is written to be proved about as well as checked: parameters are
constants with named, weak assumptions, an action is one operation or one
stretch of a handler between two points where another thread can interfere,
the invariant is a conjunction of named parts, and none declares a recursive
operator. Bounds are part of a run, not of a module, except for those the
module names (`MaxTime`, `MaxFaults`, `MaxCalls` and their like), which bound a
clock or a counter and leave the proofs general.

## 3. What the modules model

Mutants - operators named after an action with what is wrong appended, such as
`DisconnectKeepsEntry` or `NameKeepsQueue` - are definitions no specification
uses. Each is a plausible mistake in the code; put in the place of the action
it is named after, it violates the property it was written for.

### ChatServer

State: the table `connections`, the rows of `offline_messages`, the flags of
each `ClientConnection` (`auth`, `owner`, the name of its latest login), and for
each thread its place (`pc`)
and the local variables that outlive an interleaving: the looked up
`target_conn` (`target`) and the messages in hand (`cargo`). A socket is open,
lost (the peer is gone, nobody knows), or closed by the server. `inbox` is what
clients have received; `names` records every name a connection was entered
under, `dest` and `receipt` what was sent and what its sender was told.

| Action | Code (`chat/server.py`) |
|---|---|
| `Accept`, `Vanish` | accept (214-225); a peer or network failure |
| `LoginCheck` | checks of `_handle_login` to the ban check, `conn.uuid` and `conn.authenticated` (438-491); a connection may log in again, under any name |
| `LoginRegister` | the takeover under the lock (493-500); the entry of an earlier name stays |
| `LoginFetch`, `LoginPush`, `LoginClear` | `get_messages`, the pushes, `clear_messages` (502-522) |
| `SendLookup` | `_handle_send_message` to the lookup of the recipient (526-570) |
| `SendDirect`, `SendStore` | write and receipt; or `add_message` and receipt (570-636) |
| `Disconnect` | `_disconnect_client` at the end of a thread (1065-1078): only the entry of the latest name is removed |
| `TimeoutDrop` | the maintenance thread drops a silent connection with all its entries (987-998) |
| `MarkCompromised`, `Evict` | `_handle_compromised`: mark, then close and remove (791-805) |
| `Restart` | the process dies and is started again |

A handler is cut where another thread can change what it has read: the lookups
outside the lock, and the three statements that empty the queue. Bodies,
signatures and the rate limit decide only whether a request is handled at all,
so a request that fails them is the one that never happens.

### ReplayGuard, NonceRegister

A message is a LOGIN with a nonce and a timestamp; both may arrive any number
of times, on any connection and in any combination, since the signature covers
the nonce and not the timestamp (463-466). `_check_and_store_nonce`
(166-202) is cut into the look-up in the cache with its trim (`RefuseCached`,
`Begin`), the SELECT (`Select`), the INSERT whose primary key decides, with the
deletion of old rows (`Insert`, `InsertFails`), and the insertion into the
cache (`Remember`, `RefuseSeen`). `Begin` is also the check of the timestamp
against the clock (319-323). `ClearCache` is the periodic clearing, `Restart`
loses cache and threads and prunes old rows, `Tick` is the clock. A full cache
loses `Trim` entries (a quarter of `CacheMax`, in the code): the oldest in the
code, any in the model, which keeps no order of them. `NonceRegister` knows only
when each nonce was last used and what each call was answered. What makes no
call is not in the model: a LOGIN whose nonce is empty (448) and a REGISTER
(385-436).

### Deadman

The rows of `deadman_messages` per user, the position of the maintenance thread
in its pass (`pass`, `cur`, `todo`, `scanned`), what the login thread of each
user has done, and the client's own `deadman_enabled`. `Scan` is the SELECT of
expired rows; `Warn`, `Mark`, `Ban`, `Cut` are the statements of
`_trigger_deadman` (1015-1063) in the code's order, interleaved with
`LoginCheck`, `LoginRegister`, `LoginCheckin`, `Store`, `Disable` and
`Disconnect`. `PassFails` and `Restart` break off between any two statements.
`Disable` changes the client only, as `set_config` does. `Store` asks for no login:
STORE_DEADMAN_MSG is served for any connection (807-828).

### GroupKeys

`owner`, `members` and `row` are the three tables; `entries`, `logins` and
`open` are the sessions, told apart by the number of the login; `keys` is what
clients have received. `Create`, `Join`, `Add`, `Leave` change the membership;
`DeliverCheck`, `Stash`, `Index` and `Push` are the steps of
`deliver_group_key` (169-231) with the gap between finding the member in the
table and reading its entry; in `DeliverUnsealed` the server cannot seal the key
for the member and makes neither message nor row (172-203). `FlushSelect`, `FlushPush`, `FlushMark`,
`FlushCommit` and `FlushNothing` are the push of the rows at a login (233-259),
which holds the database's write lock from its first UPDATE. `DeliverFails` and
`FlushFails` are exceptions; `lost` remembers who was written to in vain or was
still to be served when a handler broke off, and for whom no key was sealed.

### CrossServer

The servers of the model all run this code. A connection has two ends
(`from`, `to`), each with a thread whose position is `place`; `wire` is what
was written and not yet read by either end. `peers` is the table of each
server, one entry per peer. `known` and `table` are the addresses in memory and
on disk, `dials` the peers a thread or a timer may call, `pending` the waiting
messages.

| Action | Code (`chat/cross_server.py`) |
|---|---|
| `AddKnownPeer`, `Dial`, `Fetch` | an address becomes known (392-413); a call (449-473); `fetch_post`'s own connection (808-851) |
| `Answer` | `_handle_peer` checks HELLO and sends its own (570-649) |
| `Register`, `Name`, `NameFails`, `StartLoop` | the caller: entry, `add_known_peer`, flush, receive loop (475-568) |
| `Admit`, `AdmitFails` | the answering side after AUTH_OK (652-703) |
| `AskPost` | AUTH_OK and the request of `fetch_post` (853-888) |
| `HandshakeEnds` | timeouts, refused or unreadable lines, the end of a fetch |
| `Receive`, `LoopEnds` | the receive loop and its `finally` (705-760) |
| `Relay`, `Limit` | `relay_message` to its rate limit (1022-1064) |
| `Queue`, `Append`, `AppendTaken`, `AppendLost` | the list is looked up (1052), then appended to: before, during or after a `_flush_pending` that took it |
| `Pick`, `PickNothing`, `Write`, `WriteFails` | `_send_to_peer`: look-up, `sendall`, its failure (1149-1166) |
| `OtherSendFails` | the same failure for a query, a look-up, an announcement |
| `Restart` | memory is lost, `start` loads and calls the rows (201-219) |

A signature that does not verify, a clock that is off and a pin that does not
match all end a handshake and are one action. Calls to the stale address of an
incoming connection (692) never get through and are left out; the address
itself is in the model. What became of a message is told by `arrived`,
`answer` and `dropped`, which no action reads.


### Forum

`handler.py` answers each request on the thread of its connection, and all
threads share one SQLite connection (`get_forum_db`), hence one transaction.
`db` is what that connection shows, `disk` what is committed; `at`, `req` and
`seen` are each handler's place, request and locals. `told` (what a voter was
answered), `early` and `disturbed` are read by properties only.

`Begin` picks a request of a user; `VoteLookup`, `VoteRecord`, `VoteTally`,
`VoteAdjust` are `cast_vote` statement by statement
(votes.py 46-125), `VoteRollsBack` their `except`; `Publish`, `CheckRights`,
`Insert`, `Erase`, `Settle`, `Measure`, `Stats`, `Save` are the statements of
posts.py, comments.py and the user's lists; `Commit` writes what everybody has
changed, `Recalculate` is the recount of an answer, `Age` makes a user old
enough for votes to count, `RestartForum` leaves `disk`. Ids of posts and comments
are random, so that a request for a new one names an id no request under way has.

### ForumLoad

`idle` says how long ago each user was marked as online, `level` is the shedding
level of `rate_limit.py`, `gate` where each user's request is. `Pass`, `Delay`/`Wake` and `Refuse` are the gate of
`ForumHandler.handle` (85-124): it sleeps between reading the level and marking
the user. `Count` and `Update` are the background thread's count and new level,
with another request possibly in between.

### RateLimiter

`bucket`, `override`, `globalRate` and `burst` are the buckets and settings;
`taking` and `command` the threads. `Consume` and `Take` are a message's `allow` or
`allow_with_rate` up to the refill, and the taking of the token; `SetGlobalRate`, `SetUserRate` write the
setting, `ApplyRate` then walks the buckets one by one; `BurstRead`,
`BurstWrite`, `BurstDone` do the same for `set_burst`, which reads and writes
`tokens` without the bucket's lock. `Issue` is a command of `admin/commands.py`.

### AdminAccess

`hash` and `salt` are the two entries of the keyring, `sessions` and `failures`
the dictionaries of `AdminAuth`, `job` what each thread does. `LockedOut`, `Verify`, `Fail`, `OpenSession`
are the steps of `authenticate` (31-62); `CheckOld`, `WriteHash`, `WriteSalt`,
`Clear` those of `change_pin` (85-101), which the keyring may end at either write
(`WriteFails`); `AdminRestart` may come between any two.

### Accounts

`row` (the table of users), `table` (the server's `connections`), `located` (the
keys in the DHT store), `link` (each connection and its request) and `order`
(the operators' commands). A link may log in a second time as somebody else.
`Login`, `LoginCheck`, `Enter` are `_handle_login`
(439-502); `RegisterWrite`, `PublishKey`, `StorePubkey` what writes keys, with
the DHT's exception; `Compromised`, `MarkedRow`, `Evict` are
`_handle_compromised`; `BanUser`, `KickUser`, `CloseSocket`, `DeleteEntry`,
`UnbanUser`, `DeleteUser`, `CreateUser` the commands of an operator, statement
by statement. `slipped` marks a user whose login passed the check before the ban
was written.

### ServerStart

`keyring` and the files against the stage of `main()`: `Setup`, `Entry` and
`WriteEntry` write the credentials one by one, `Identify` reads the identity,
`LoadConfig`, `OpenLog`, `StartDht`, `Bootstrap`, `StartRelay`, `StartP2P`,
`StartBroadcast`, `Announce` are the steps of `main.py` 164-275. Each may end the
start (`End`, with its `reason`), and the process may die between any two writes.
`Bootstrap` ends it when guide.txt names a node and a datagram could be sent, for
`ping` then says yes whatever answers (dht/node.py:385-390).

### GroupMessages

One group (`member`), its sessions (`session`, `alive`), links to other servers
and the handler of each text (`send`). `CheckSender`,
`StoreText`, `ListMembers`, `LookUp`, `WriteText` are `send_message` and
`distribute_group_message` (467-678) with a step per member; `ListLinks` and
`RelayToPartner` the federated part; `JoinGroup`, `LeaveGroup`, `TakeSession`,
`BreakSocket`, `RemoveEntry` what others do meanwhile. `got`,
`present` and `steady` record who was sent it and who was a member meanwhile.

### PeerPins

`pinned` (memory) and `stored` (database) hold the key of each node. `BeginCheck`, `Remember`,
`WritePin`, `TouchPin`, `PinRefused`, `Trust` are `_check_pin` (163-197)
and its use in a handshake, `FetchAnyway` that of `fetch_post` (873), which goes on
whatever the check says; `ForgetPins`, `RemovePins`, `CreatePins` are
`reset_tofu_pins` (1265-1270), which drops the table while handshakes run.

### PeerQueries

What servers know of each other's users: `hosts` are the
users each server has, `home` and `rates` what it has heard of others', `lines`
what was written and not yet read, `relay` where the message is. `Ask`, `Find`, `QueryAndRelay`, `QueueRelay`,
`NoRoute` are the branches of `relay_message` and `_find_user_server`
(1022-1115); `HandleLookup`, `HandleFound`, `HandleRateQuery`, `HandleRate`,
`HandleRelay`, `ReadRejected` the receiving side (905-1014).

### Decoys

`enabled`, `stopping` and `thread` are the server's fields, `loop` and `call`
its threads, `entry` and `theirs` the keys both sides go by, `line` the packets. `Switch`, `Look`, `ClearStop`,
`StartDecoyLoop`, `StopDecoys` are `set_decoy` (245-263) of concurrent callers;
`FirstRound`, `Choose`, `SendDecoy`, `EndLoop` the loop (265-335);
`DecoyArrives` the receiver, which tells a decoy by the key in its entry of the
sender; `Handshake`, `PeerEnters`, `EntryGone` change that entry.

### Receipts

`senderOf` is the map from names to senders, `queue` and `held` are the messages
with server and clients, `confirmed` the receipts that reached somebody. A name is a second and a count. `Send`, `SendAway`,
`Receipt`, `LogIn`, `Disconnect`, `ServerRestart` translate 561-740 and
1066-1078. A client names the true sender or nobody.

### Dht

Each node has a `table`, a `store`, acknowledgements, `seen` keys and a clock
(`now` and its `skew`); `net` holds the datagrams, which stay there when read, so
that they can be lost, repeated and reordered. `Ask`, `Ping`, `Join`, `Query`, `Find`, `Store` send; `Admit` is
the checks all handlers share (`_check_replay`, `_verify_message`,
`_handle_packet`, 95-188), `HandlePing`
to `HandleStoreAck` the handlers; `SetHidden`, `SetWhitelist` the commands;
`DhtRestart` loses all. `Closest` is the set of a table's nearest listings, of which
a step takes one; `AddedInTurn` enters the nodes of an answer in its order
(279-287). An answer too large for a datagram is not sent (`PacketRoom`).

### PeerTransport

The two ends of one connection: `pub`, `peerPub`, the derived key with its label
(`keyOf`, `keyId`), and what is under way (`hello`, `stream`). `Request`, `Answer`, `Agree` are the handshake,
`Connect` and `HandleIncoming` what `p2p/node.py` does around it, `SendPacket`,
`Receive` framing and decryption, `RotateKey` the timer.

### RadioMesh, RadioLink

`RadioMesh` has the table of every station's program (`routes`), its `file`, and
the snapshots on the `air`:
`Bootstrap`, `Gossip`, `Hear`, then `Read`, `Look`, `Put` for each entry of what
was heard (`merge`, two holds of the lock), `SaveTable`, `LoadTable`,
`MeshRestart`. `Fade` is time. `RadioLink` is one client's link: modes,
what was `found`, and the running probes (`probe`); `SetGatewayMode`, `SetCapabilities` and
`StartProbe`/`Check`/`EndProbe` (`recompute`) overlap; `told` is what the
interface was told last. `Send`, `FirstSend`, `Through`, `Inject` route a
message, `TypeFrequency` sets a frequency.

### ClientSettings

`disk` is the file, `memory` the window's copy, `job` what each writer has read
and not yet written, `features` and the switch of the experimental dialog. The
writers are the window and the API's thread: `Fetch`, `Edit`, `Cut`, `Write`,
`Reload`, `Say` are the window's `save()` (1712-1736) with the file truncated between `Cut`
and `Write`; `ApiUpdate`, `ApiSwitch` the API's; `Verify`, `Cool`, `Slide`
switch the features on; `EnableFeature`, `DisableFeature`, `DisableAll` use
them; `SettingsRestart` starts a new process.

### ClientIdentity

`idFile` is the identity with its two pins, `files` the others, `screen` and
`chore` the window.
A pin is a sequence of digits; `Value` is the number a pin stands for, `Allowed`
the rule for a duress pin. `Register`, `WriteFile`, `ReplaceIdentity`,
`ConnectFirst` are the registration; `UnlockPin`, `WrongPin`, `DuressPin`,
`Notify`, `StartErasing`, `Overwrite`, `RemoveIdentity`, `EraseRest` the unlock
and the erasure file by file. The identity's own file may resist like any other
(`OverwriteFails`, `RemoveFails`), and the rest follows all the same; `resisted`
records whose did both. `CloseWindow` and `StartClient` may come between
any two.

### Conversations

`rows` is the table of messages, `current` the contact shown, `window` the items
displayed, `sentFor` the receipts sent. The connection's
thread does `StoreArrival`, `CompareCurrent`, `DisplayArrival` (1199-1271), each
interleaved with the window's `Choose`, `Load`, `SeePart`, `MarkAllRead`,
`SendText`, `DeleteChat`, `DeleteContact`. `Burns` is what `burn_if_matches` may come
to: the messages read go, or the deletion raises and the whole conversation does
(ephemeral.py:75-82), which `raised` records.

### DirectConnect

`peers`, `topology`, `gateways` are the three tables, `call` the callers. One
action is one hold of `_peers_lock`. A caller's search for a gateway is
`FindGateway`, `Snapshot`, `Visit`, `Publish`, `ReadKnown`, `LookAtGateway`,
`Finish`; announcements, capability changes and removals come in between.
`HandleBadCapability` is a peer's word with a list of neighbours that is none: the
entry is changed and no search follows (1155-1160). `unsettled` holds the peers
whose word came during the last search or without one.

### LocalApi

`keyFile` (with `torn` and `saving`) is the file of keys, `request` the one being
served, `apiServer` the state of the server: `Create`,
`Delete`, `Save` on the window's thread (the file is empty between the open in
`Create`/`Delete` and `Save`), `Receive`, `Authenticate`, `Handle`, `Answer` on
the server's, `StartServer`, `StopServer`, `Restart`. The window is modelled as it
works once it is open (section 7: the settings dialog cannot open it).

### The MC modules

`MCChatServer`, `MCReplayGuard`, `MCDeadman`, `MCGroupKeys`, `MCCrossServer` and
`MCForum` extend one module each and define its symmetry set, which runs with
liveness properties leave alone. `MCGroupKeys` keeps to one group of all the users or
all the groups with one user. `MCServices`,
`MCNetworks` and `MCClient` put parts that share no state side by side: a
variable (`service`, `network`, `part`), chosen by the initial state and never changed, says which of
them runs, and the others' variables stay as they began. The parts that do share
state are composed in a module of their own: sessions, queue and receipts in
`ChatServer`; bans and the table in `Accounts`; switch, ban and logins in
`Deadman`; two servers in `CrossServer`, `PeerQueries` and `Decoys`; server and
members in `GroupMessages`.

## 4. What the runs check

| Run | Instance | Properties |
|---|---|---|
| `chat_sessions` | 2 users, 3 connections, 1 message | `NoGhostSession`, `OpenSessionIsReachable`, `DeliveredOrSocketLost`, `ClearedOnlyAfterPush` |
| `chat_liveness` | 2 users, 2 connections, 1 message | `DeadSessionForgotten` |
| `chat_cleared_doc` | 2 users, 2 connections, 2 messages | violates `ClearedMeansArrived` |
| `replay_once` | 2 threads, 2 nonces, window 1, slack 1, time to 5, a cache of one | `UsedIsKnownOrStale`, `ImplementsRegister` |
| `deadman_switch` | 2 users, grace 1, time to 3, 1 fault | `NoHastyTrigger`, `TriggeredThenBanned`, `WarningComes` |
| `groups_keys` | 1 group of 2 users or 2 groups of one, 2 threads, 2 logins | `NoForgottenMember`, `DatabaseReleased` |
| `cross_relay` | 2 servers, 2 connections, 1 message, 1 fault | `RelayedOnce`, `AnswerHolds`, `EntryIsServed` |
| `forum_counters` | 2 users, 2 posts, 2 comments, 2 threads, 4 requests | `CountersAgree`, `AnsweredIsStored` |
| `services` | ten services of the server, see below | `LevelTracksLoad`, `RatesAgree`, `OldPinsEnd`, `BannedAreOut`, `EntriesEnd`, `IdentityComplete`, `RightAudience`, `HomesWereTrue`, `OffSilences`, `ReceiptToSender`, `FirstKeyStays` |
| `networks` | DHT of 3 nodes, one encrypted connection, 2 radio stations, one link | `HandledOnce`, `EntryLeadsHome`, `ValuesAreYoung`, `HeardOfLately`, `ToldIsTrue` |
| `client` | five parts of the desktop client | `SearchMeetsTrigger`, `OnlySeenIsBurnt`, `SwitchedOnInOrder`, `ErasedStaysShut`, `GatewaysAreCurrent`, `RevokedStaysOut` |
| `transport_doc` | one encrypted connection | violates `PacketsAreRead` |

Each property is stated, with the exceptions the code needs, in the comment
above its definition. What the runs show, in the order of the table:

- *Sessions.* No interleaving of takeovers, timeouts, evictions and restarts
  leaves an entry for a connection that has ended, but for the one a connection
  leaves by logging in under another name, and none takes an entry away from a
  client that is still open. "Delivered" is untrue only if a socket broke.
- *Dead sockets.* Every entry whose socket is dead goes in the end, the one left
  by a second login included.
- *Nonces.* Whatever the cache forgets, whatever rows are deleted and whatever
  timestamp comes with it, a nonce that was used is answered yes again only when
  its retention (twice the window less a call's time) is over, and no only if it
  was used; a message repeated as it was is never answered yes again.
- *Switch.* It goes off for the silent only, a user who was triggered is
  banned, and the warning does come.
- *Groups.* Every member has the key, or will be pushed it, or was written to
  on a dead socket, or the server could not seal the key for it. A login that
  pushes several keys gives the database back, however its sends end.
- *Servers.* A message is relayed once, the answer is true of where the message
  is, and an entry is served by a live thread.
- *Forum.* Counters equal votes and comments as long as no two handlers change
  one counter at a time; an answered vote is on disk.
- *Services.* The load level stays within the hysteresis; buckets refill at the
  rate set; sessions end with their PIN; a banned user is out of the table; an
  entry ends with its connection; no node id without keys; a group message
  reaches those who were members all the while and no stranger; no server is
  remembered as the home of a user it never had; decoys stop when switched off
  last; a pin made alone stays, and nothing but `fetch_post` goes on with another
  key; a receipt reaches the sender or nobody.
- *Networks.* A datagram is handled once; an entry leads to its node or
  nowhere; values and stations age out; the interface knows whether it is a
  gateway when no probe overlapped.
- *Client.* A search for the PIN meets the one that erases first; only what was
  seen is burnt, unless the deletion raised; features are switched on after the
  cooling only; erased data stays shut, unless the identity's file could be neither
  overwritten nor removed; between calls the gateways are the peers that said they
  share a network, but for those whose word came during the last search or without
  one; a revoked key opens nothing.

### Bounds and why they are enough

Three connections are a user's old session, its new one and a sender or a third
takeover; the properties relate two connections and one message, and messages
do not influence each other except by being cleared together
(`chat_cleared_doc` has two). One user is ever marked compromised (`MaxBanned`), as
an eviction touches one entry. Two threads race for a nonce; a second nonce
fills the cache of one (`CacheMax`, `Trim`), so that its trim forgets one that
is still of use. Time 5 with window 1 lets a nonce be used with a timestamp ahead
of the clock, be retained, lose its row and be used again. Grace 1 with time 3 has a check-in, a silence and a pass
after it; one fault breaks a pass anywhere. Two logins give a member that is
replaced between look-up and push. One group with two users has a handler that
serves several members; two groups with one user have a login that holds the
database while it writes the second of two keys. Two connections between two servers are an
old and a new entry in either direction; a caller's, an answerer's and a
fetch's connection occur in every pairing. Four forum requests are a vote that
counts, its change, a comment and a deletion, on two threads that share the
transaction.

In `services`: four visitors against a maximum of three cross every threshold
and come back through the hysteresis; two setters and two values each let two
commands overlap; two logins, two tokens and two PINs let a change race a
login; two links, two people and an operator allow a second login with another
UUID and a ban between check and entry, and with a DHT one person publishes
two keys (`KeysTried`); three participants are a sender, a steady member and one
who comes and goes; two handshakes with different keys race for one pin, with
two restarts; two servers with different rates and two users exchange one
message (`TrafficUsed`, `RateUsed`); two callers of `set_decoy` and two loops
overlap in every way; three wires are a sender's old and new connection and a
receiver's.

In `networks`: three DHT nodes are a sender, a receiver and a third they learn
of; buckets hold one entry, so that a full one occurs; the message memory holds
two; time runs to 2 with windows and lifetimes of 1, so that everything can
be used, delayed and become stale; one clock is ahead (`SkewsUsed`), and what
each execution may send is bounded (`QuotasUsed`: sending, storing or commands
in one execution). Two stations, two receivers and one restart pass an entry
on and back. Two probes overlap.

In `client`: all pins of two and three digits of base two, so that unequal
lengths and leading zeros occur; two identities; two contacts and two messages,
one loaded per page; two peers nearby and two callers with three calls; two API
keys.

The symmetric sets (`chat_sessions`, `replay_once`, `cross_relay`,
`forum_counters`, `services`: links; `client`: peers nearby and callers) are of
model values no definition tells apart, and no run with a liveness property
uses one. Deadlock is not checked: the connections, messages, clocks and calls
of an instance run out, and a server nobody talks to waits. Where TLC's
instances stop, the proofs of section 6 go on.

Every module states a type invariant. Where there are proofs it is part of the
inductive invariant; the others were checked on the instances of the runs
and are left out of them, as they say the least.

## 5. Fairness

Safety runs use none. The liveness properties assume what the code's scheduling
gives and nothing of the clients or the network:

- `chat_liveness`: a running handler is not stopped for ever (weak fairness of
  `HandlerStep`: its sends have a socket timeout and it waits for nobody). A
  thread returns to `recv` again and again, and `recv` fails on a socket the
  server closed (strong fairness of `ReceiveFails`: handling buffered lines
  disables it for a while). The maintenance thread, which passes every 60
  seconds, drops a connection whose client has been silent or whose thread has
  ended (weak fairness): neither sets `last_seen` any more. An eviction
  that has begun is completed. No fairness for `Accept`, `Vanish`, requests or
  restarts.
- `deadman_switch`: the maintenance thread wakes up again and again
  (`WF(Maintenance)`); time need not pass, and logins need not come.
- `groups_keys`: a running handler goes on (`WF(HandlerStep)` per thread).

## 6. What is proved

TLAPS proves the following for all values of the constants, from the
assumptions named in the modules: the model values standing for "none" are not
members of the sets they extend; bounds are natural numbers; what is counted
(threads, logins, visitors, authors, comments, stations nearby) is finite; in `ReplayGuard`
`Trim \in 1..CacheMax` (a quarter of the cache, in the code); in `CrossServer` the names of the handshake's
lines are not messages; in `RadioMesh` and `Dht` clocks are integers; in `Dht`
a node advertises its own host or none; in `ForumLoad` the hysteresis is a
percentage; in `LocalApi` a key grants something; in `ServerStart` there are two ports.


| Theorem | States |
|---|---|
| `ChatServerProofs`: `TypeCorrect`, `GhostFree`, `Reachability`, `DeliverySafety`, `ReceiptSafety`, `SingleLiveCopy`, `ClearSafety` | all properties of `chat_sessions`; further `NoMisdelivery` (a message reaches its recipient only) and `NoTwoLiveCopies` |
| `ReplayGuardProofs`: `UsedStaysKnown`, `CacheStaysBounded`, `Implementation` | all properties of `replay_once`; further `CacheBounded`: the cache exceeds its limit by the calls in flight only |
| `DeadmanProofs`: `HasteFree`, `WarnedOnce`, `MarkThenBan` | the safety properties of `deadman_switch`; further `WarnedOncePerFault` |
| `GroupKeysProofs`: `MembersAreServed` | `NoForgottenMember` |
| `CrossServerProofs`: `TypeCorrect`, `RelayOnce`, `AnswersHold`, `EntriesProved`, `EntriesServed` | all properties of `cross_relay`; further `EntryIsProved`: an entry's peer has shown its key |
| `ServicesProofs`: `BansHold`, `EntriesEndWithLinks` | `BannedAreOut`, `EntriesEnd` of `Accounts` |
| `ServicesProofs`: `ReceiptsReachSenders` | `ReceiptToSender` of `Receipts` |
| `ServicesProofs`: `FirstKeyKept`, `PinsTypeCorrect` | `FirstKeyStays` of `PeerPins` |
| `ServicesProofs`: `PinChangesEndSessions`, `AdminTypeCorrect` | `OldPinsEnd` of `AdminAccess` |
| `ServicesProofs`: `BucketsHaveTheirRate`, `LimiterTypeCorrect` | `RatesAgree` of `RateLimiter` |
| `ServicesProofs`: `LevelFollowsLoad` | `LevelTracksLoad` of `ForumLoad` |
| `ServicesProofs`: `IdentityIsWhole` | `IdentityComplete` of `ServerStart` |
| `ServicesProofs`: `AudienceIsRight`, `MessagesTypeCorrect` | `RightAudience` of `GroupMessages` |
| `ServicesProofs`: `HomesAreTrue` | `HomesWereTrue` of `PeerQueries` |
| `ServicesProofs`: `SwitchedOffIsSilent` | `OffSilences` of `Decoys` |
| `ServicesProofs`: `CountersAreRight`, `ConfirmedVotesLast`, `ForumTypeCorrect` | both properties of `forum_counters` |
| `NetworksProofs`: `DatagramsHandledOnce`, `EntriesLeadHome`, `ValuesStayYoung` | `HandledOnce`, `EntryLeadsHome`, `ValuesAreYoung` of `Dht` |
| `NetworksProofs`: `NodesFade`, `MeshTypeCorrect` | `HeardOfLately` of `RadioMesh` |
| `NetworksProofs`: `InterfaceIsTold` | `ToldIsTrue` of `RadioLink` |
| `ClientProofs`: `SwitchIsEarned` | the action property `SwitchedOnInOrder` of `ClientSettings` |
| `ClientProofs`: `ErasedIsShut`, `SearchIsMet` | the action property `ErasedStaysShut` and `SearchMeetsTrigger` of `ClientIdentity` |
| `ClientProofs`: `OnlySeenGoes` | `OnlySeenIsBurnt` of `Conversations` |
| `ClientProofs`: `GatewaysFollowPeers` | `GatewaysAreCurrent` of `DirectConnect` |
| `ClientProofs`: `LateKeysStayOut` | `RevokedStaysOut` of `LocalApi` |

So every safety property a passing run checks is also a theorem. The services
of the server share no state and no name, and neither do the parts of the
client and of the networks, so that one module extends several of them.

Each proof has the same shape: the inductive invariant of the module holds in
the beginning, every action keeps it (one step per action, and one lemma per
part where the parts are independent), and it implies the property. TLC checked
each invariant before it was proved. Why the properties alone are not
inductive:

- *ChatServer.* "A logged-in open client is the one in the table" survives a
  takeover only if the name a login is about is one its connection was entered
  under (`ThreadLifeInv`), and "messages reach their recipient only" only if what a
  handler has in hand is addressed to a name its target was entered under
  (`CargoInv`).
- *ReplayGuard.* A nonce whose row was deleted was used longer ago than its
  retention, and its message is stale: `StaleInv`, which needs the order of the
  check of the timestamp, the call's own reading of the clock and the row
  (`TimeInv`). This is where the factor two in the retention of rows is used: the
  timestamp may be ahead of the clock by the window. From the use itself the
  retention is twice the window less the time a call takes (`Slack`). The
  bound of the cache counts the calls in flight (`SpaceInv`).
- *Deadman.* A user on the list has not been warned in this silence
  (`OnceInv`), which needs each user to be on the list once (`WorkInv`).
- *GroupKeys.* A row is marked as delivered only after its key was written
  (`MarkInv`), so that the commit forgets nobody.
- *CrossServer.* HELLO and AUTH_OK on a wire say where their writer is
  (`LinkInv`), which makes an entry a proof of identity; and a message is in
  one place at a time (`PlaceInv`), which makes it arrive once.
- *PeerPins.* What a handshake that is alone for its node has pinned so far is
  what memory and table hold (`AloneInv`); a firm pin is in both, so that a
  restart reads it back, and no handshake under way has another key
  (`FirmInv`).
- *RadioMesh.* Not only tables but snapshots under way, files and half-merged
  entries must carry times no later than their name's last showing.
- *Accounts.* An entry of the table belongs to the link it names (`OwnEntryInv`);
  no login of a banned user is past the ban check unless it slipped
  (`NoneEnters`); a registration is somebody's, with a key (`RegisterInv`).
- *Receipts.* Two messages never have one name while either is under way, in
  the queue or with a client (`MailInv`); names are ordered by second and
  count, and a restart moves the second.
- *Forum.* While a vote counter is undisturbed, at most one thread votes on the
  target, and what the counter still lacks of the score is what that thread has
  read and not yet added (`NetInv`, `VoteUnderWay`, `Missing`); nobody else's
  vote on it differs between transaction and disk, so that neither another's
  commit nor another's rollback does harm (`Kept`). The same for comments
  (`CountInv`), which also needs that no request under way names the id of a
  comment still to be written (`NewIdInv`): else a rollback would free an id a
  deletion is about to use. With three threads TLC showed that the invariant
  needs this; in the code it holds because ids are random (`token_hex`,
  posts.py:30, comments.py:31), and `Sensible` says so. A comment on disk has the place it has in the tables
  (`RowsInv`), and only fresh users' votes are early (`FreshInv`).
- *AdminAccess.* Every login that may still fail was let in below the limit, so
  that the failures counted and those to come are bounded together (`LockoutInv`);
  while no hash is ahead of its change, sessions and the logins about to open
  one have the PIN that is stored (`CurrentInv`).
- *RateLimiter.* Between the setting and its walk over the buckets, the setting
  is already the one the walk will apply, and nobody else sets it
  (`UserSetInv`, `GlobalSetInv`); a bucket is right as soon as no walk under
  way will change it (`BucketRight`).
- *ForumLoad.* The property is inductive together with the types: the new level
  is the ratio counted, or stays where it is at most the hysteresis above it.
- *ServerStart.* The keys are written before the node id, at whichever of the
  seven writes a setup is cut short (`IdentityInv`).
- *GroupMessages.* Every login makes an entry of its own (`SessionInv`), so that
  a member who was listed and stayed is still to be looked up, is being written
  to on that entry, or has been dealt with (`TextInv`, `DealtWith`).
- *PeerQueries.* A "found" on any line was said by a server that has had the
  user (`LinesTrue`); whose answer is read on a line is known from the line, and who
  was once a user of a server stays one in `ever` (`HostsWereEver`).
- *Decoys.* Either the stop is set, or the last call switched on, or a call is
  about to start a loop, or no loop is left (`StopInv`).
- *Dht.* What was handled is remembered or too old to be admitted
  (`RememberedOrOld`), which needs that nothing remembered is further ahead
  of its arrival than the window (`SeenInWindow`); datagrams under way must lead home and be
  true to the clock of their sender (`AllSent`); a copy's life is bounded where
  it was entered (`LifeBounded`).
- *RadioLink.* The status a lone recompute found at its beginning is what the
  interface was told last (`OldStatusTold`).
- *ClientSettings, ClientIdentity.* What the dialog's view and the chores under
  way imply: a slider has cooled (`SliderCooled`), a registration's pins were
  compared, an erasure comes to the other files when the identity's own is
  unreadable or has resisted (`ChoreInOrder`, `FileWhole`). `SearchIsMet` rests on lemmas about `Value`:
  pins of one length with one value are one pin, and the order of two
  pins is that of their first different digits.
- *DirectConnect.* A search has found, of the peers it has looked at and no
  message has changed since, exactly the gateways (`SearchInv`); while none is
  under way or owed (`Pending`) the gateways are right of all but the unsettled
  peers (`Current`).
- *LocalApi.* No key has two entries and none that was deleted has one, in the
  file or in the write under way (`KeysOnce`).

The library's induction theorems take an operator as a parameter and are of no
use to the provers. Where a proof needs induction over numbers, sequences or
finite sets (the digits of a pin, the balls of the topology, the entries of an
answer in the DHT, the largest of finitely many rates), it uses `LeastNat`: a
set of naturals that is not empty has a least element, from `WFMin` of
`WellFoundedInduction`, whose parameters are sets. The set is that of the
counterexamples.

The refinement `ReplayGuard` => `NonceRegister` (`Abstract`, an INSTANCE with its
mapping written out) is proved step by step: `Insert` is the abstract grant, which
`StaleInv` allows, the refusals are the abstract ones, of nonces that were used by
`RecordInv`, `Begin` is the question, `Tick` the time, and all else stutters.

Only model-checked: the three liveness properties (`DeadSessionForgotten`,
`WarningComes`, `DatabaseReleased`), since the prover knows
neither fairness nor `ENABLED`, and the two violations. The type invariants of
the modules without a type theorem above are checked on instances only; what the
proofs need of them is part of their inductive invariants. No module declares a
recursive operator; `Value` and `Ball` are recursive functions.


## 7. Where the code and its documents disagree

Shown by a run, which ends in a behaviour of the model:

1. `chat_cleared_doc`: `clear_messages` deletes every row of the user, also
   those stored after `get_messages` (server.py:510-513; offline.py:82 says
   "after delivery").
2. `transport_doc`: both ends of a handshake derive their key from the same two
   public keys, but each with a label of its own, so that neither reads what
   the other encrypts (crypto_utils.py:469-480; test_client_features.py:442-448
   expects both ends to).

Stated in a module next to its properties, and refuted by TLC on the same
instances, in a behaviour of a few steps:

| Definition | What is said | What happens |
|---|---|---|
| `Deadman`: `OnlineIsSafe` | server.py:504: users online are safe | only LOGIN and a stored warning reset the timer |
| `Deadman`: `DisabledStaysSilent` | whitepaper:392: the switch can be turned off | the server's row stays armed (security/deadman.py:80) |
| `GroupKeys`: `FormerMembersLearnNothing` | whitepaper:510: the key is changed at a removal | neither is the stored key deleted nor the group's changed (group.py:374) |
| `Forum`: `WithdrawnVotesLeaveNothing` | votes.py:2: a changed vote takes back the old | whether a vote counts is asked at each vote: one cast as a new user and withdrawn later lowers `net_votes` (98) |
| `ServerStart`: `AllComponentsStart` | main.py:4: all components are started | with a DHT node, `int("server:...", 16)` raises before the chat server's start (main.py:274, dht/routing.py:100) |
| `RadioLink`: `OwnRoleIsCurrent` | link.py:510: the role in the table is updated | nothing updates it |
| `ClientSettings`: `SavedIsKept` | main_window.py:1734: the settings are saved | what was changed in memory is discarded by the reload (1732) |

Visible in the behaviours of the modules, and named in their properties as
exceptions:

- *Chat.* A receipt says "delivered" although every send error is swallowed
  (server.py:581, 1087-1092; shared/protocol.py:58). A message can be queued
  for a user who is online (568, 620) and then waits for that user's next
  login. A connection that logs in with a second UUID leaves its first entry
  behind (485, 1069: `NoGhostSession`, `EntriesEnd`); the entry outlives the thread
  until the maintenance thread finds it, ten minutes after the last line was read,
  and messages are written to its dead socket meanwhile.
- *Replay.* The signature of a LOGIN covers type, UUID, key and nonce (463-466) and
  not the timestamp (319-323), so that a nonce counts again with a new timestamp
  once its row is gone and no cache holds it, after two windows. A LOGIN whose
  nonce is empty (448) and a REGISTER (385-436) do not take part.
- *Groups.* Where the server cannot seal the key for a member, it makes neither a
  message nor a row, and nobody looks at the answer (group.py:172-203:
  `DeliverUnsealed`).
- *Dead man's switch.* STORE_DEADMAN_MSG is served without a login, for any name
  (807-828). A failure between warning and mark repeats the warning
  (1052); one between mark and ban leaves the user unbanned (1055); a check-in
  after the list was made does not stop the switch (1010); a recipient on
  another server gets nothing (1045-1049).
- *Bans.* A login past the ban check (478) enters after the ban, or after the
  eviction of a compromised user (493-500), although active connections are said
  to be cut (CRYPTOGRAPHY_WHITEPAPER.md:354-355; `slipped` in `BannedAreOut`).
- *Servers.* `relay_message` answers "queued" for a message whose send failed
  and that is in no queue (cross_server.py:1081), and appends to a list that a
  flush may have taken and finished (1052, 1169). A receive loop that ends, or
  a failed send, removes the peer's entry also when a newer connection is
  entered there (724, 1165). Each successful handshake calls the peer again
  (412-413, 555, 692), at the port the connection came from if it was incoming;
  only a caller flushes its queue (558). `_find_user_server` takes the first
  peer the question could be written to for the home (docstring:
  "查找托管某用户的服务器", find the server that hosts a user); RELAY_REJECTED is read
  by nobody; a peer's rate is known only to a server that relayed for that user
  itself (908).
- *Pins.* Two handshakes with different keys can leave memory and database
  different; a pin made while the pins are forgotten stays in memory only. `fetch_post` does not look at the answer of the check (873) and
  goes on with a peer whose key is not the pinned one (`FetchAnyway`).
- *Decoys.* Off and on in quick succession stops the running loop and starts
  none, while the status says enabled. A decoy whose receiver has no entry of
  the sender, or an older key, is stored as a message for an unknown UUID.
- *Rate limiter.* The stricter rate of a relay applies only if it makes the
  bucket (token_bucket.py:94).
- *Administration.* A crash, or an exception of the keyring, between the two writes
  of a new PIN leaves no PIN that verifies, and an exception leaves the old sessions
  too (auth.py:95-96); parallel guesses pass the count of failures
  (auth.py:46); a login that overlaps a change keeps its session.
- *Receipts.* The end of a replaced connection clears the map entries of the
  user's newer one, and a restart loses the map, so that receipts that name
  nobody are dropped. Names are unique only if a restart takes more than a
  second and the clock is not set back; the model assumes both.
- *DHT.* An answer of more than 1400 bytes is silently not sent (node.py:368);
  a full bucket never replaces an entry (routing.py:20); a STORE under a key that is not
  hexadecimal reaches the own store only.
- *Radio.* An older entry can replace a newer one, since look-up and store are
  two holds of the lock (dht.py:289-291, 345-348 say the newer wins); a file is
  loaded without comparing. An overlapping probe can leave the interface told
  the wrong status.
- *Settings.* The API's update writes the window's copy, older than the file,
  over the dead man's settings; turning the switch off never reaches the
  server. `disable_feature("http_api")` leaves the feature that requires it on.
- *Identity.* A second press of the button makes a new identity over the first;
  a program ended while the server is told of the erasure keeps everything.
  If the identity's file can be neither overwritten nor removed, nobody hears of
  it, the rest is erased, and the PIN still opens (399-409). The claim about the
  two PINs (identity.py:64-70) holds for pins of one length
  only.
- *Conversations.* The connection's thread compares the current contact and
  then displays, so a message can appear in another conversation (1258); the
  first message of an unknown sender is dropped (1217-1219); a late delivery
  receipt overwrites "read"; items loaded from the history carry local ids, so
  that their receipts name nothing the server knows; marking a contact's
  messages as read burns by the rule of the contact shown. An exception of
  the DELETE, a locked database for instance, makes `burn_if_matches` delete the
  whole conversation (ephemeral.py:75-82; docstring: 61); the secure variant always
  raises, as `ephemeral.py:109` is not valid SQL.
- *Direct connections.* A capability message whose `connected_peers` is no list
  changes the entry and starts no search (1155-1160), so that the gateways are old
  until the next one. `relay_to_network` takes a lock it holds (1085-1087)
  when the gateway is a direct neighbour; a gateway that withdrew may be handed
  out between the flag and the next search.

Read in the code, outside the models:

- The time window is 60 s (`shared/protocol.py:113`, imported last by
  server.py) where `crypto_utils.py:37` and AGENT_ONBOARDING.md:408 say 300 s;
  nonces are kept 120 s, not 3600 s (CRYPTOGRAPHY_WHITEPAPER.md:571).
- The Python client cannot log in: LOGIN, REGISTER and SEND_MSG lack the
  timestamp the server requires (319-322), the signature of LOGIN lacks the
  nonce, that of SEND_MSG differs. Registration calls `register` with one
  argument too many, after the identity was saved. It never answers PING and is
  dropped after ten idle minutes. The Android client does all of this right.
- `_handle_admin_auth` calls `AdminAuth.create_session`, which does not exist
  (839). The API's `_send_text_to`, `_send_file_to` and
  `msg_store.delete_message` do not exist either; settings.py:175 names a
  missing `LinkMode.TCP`. main_window.py:1706 uses `api_server`, which that file
  does not import: once `http_api` is enabled the settings dialog ends there with a
  NameError, before it has the button that opens the API's window and the one that
  saves, so that nothing starts the API's server. A request body that is not an object, or names
  `action`, raises.
- The handshakes of `DirectConnectManager` end at an import that is missing
  (312, 427), and only its self-test constructs it.
- A federated group message leaves as RELAY_GROUP_MSG, which the receiving
  server does not know (cross_server.py:738; GROUP_MSG_RELAY), and counts as
  sent. `federate_group` checks no right; a group created as federated has no
  links. `get_group_messages` compares whole seconds strictly.
- No client handles GROUP_KEY_UPDATE; the server itself decrypts group messages
  (README.md:59 says it cannot).
- Nothing but the handshakes calls `add_known_peer`, and
  `discover_peers_from_dht` returns an empty list (README.md:52): the first
  connection between two servers is one of `fetch_post`. The verification of a
  fetched post always fails (forum/cross_server.py:100-112).
- Callers are missing for `promote_admin`, `delete_group`, `unfederate_group`,
  `get_offline_group_messages`, `encrypt_for_group`, `relay_group_message`,
  `handle_remote_group_message`, `get_stricter_rate_limit`, `block_user`,
  `set_duress` and `clear_duress` (tests aside), DHT_GET, and the classes
  `FileManager`, `ServerStore`, `StatsCollector`, `BanList`, `DHTGossiper`,
  `Link`. `is_blocked` looks at the sender's own list; `mute_user` and the
  maintenance flag have no effect.
- `load_config` of another path writes the default one;
  `lockout_duration_sec` is read, `lockout_seconds` written; an empty
  `logging.directory` ends the start.
- The DHT's `ping` says yes for any datagram that could be sent, answered or not
  (dht/node.py:385-390, 463-466).
- `transport.py:273` calls `build_onion` with a wrong keyword, and
  `peel_onion_layer` rejects what it builds; `p2p/node.py:470` takes
  `_peers_lock`, which the path holds already (563), on code nothing reaches.
- `Fec` with interleaving over a short payload decodes to nothing
  (fec.py:170, 219 say otherwise). A post request's id repeats within a
  millisecond, and a late answer is dropped.
- The API's server handles one request at a time without a timeout: a client
  that connects and says nothing holds up all others, and the window in
  `stop()`. `read_receipts_enabled` has no column and is always true.

## 8. What is not modelled

- *Cryptography*: signatures and sealed payloads are taken to do what they are
  for; a request that fails a check does not happen. Key formats and the
  vault's file format are data. The exception is the derivation of the
  transport keys in `PeerTransport`, where both ends must agree.
- *Client link* (`tcp_client.py`): its reconnects and buffers are planned;
  what the server sees of them (connections that come, break and come again,
  repeated requests) is in `ChatServer` and `ReplayGuard`.
- *Radio signal processing* (`fec.py`, modulation, drivers, the C code):
  numerical code without state shared between threads, and hardware.
- *Post fetching* (`forum/cross_server.py`): planned; the connection it makes is
  in `CrossServer`. *Forum searches and statistics*: reads of the database.
- *Contacts, exchange of keys outside the network, import and export, GUI
  widgets, chat bubbles, styles*: files and layout. The list of contacts is
  changed by three threads without a lock, which `Outband` of the plan is for.
- *Blocks, mutes, files, statistics, ban lists of `admin/`*: not reachable, or
  single SQL statements, which are atomic.
- *Legacy relay* (`chat/relay.py`): constructed, never called. *Onion routing*
  of `shared/packet_obfuscation.py`: fails at its first call.
- *Minecraft and Android clients*: ports of the protocol in other languages,
  largely user interface.
- *Storage*: SQLite statements are atomic and durable; its failures appear only
  where the text above names an exception. The retention limit of the offline
  queue and clocks that go backwards are left out.
