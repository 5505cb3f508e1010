# A TLA+ model of the vnts2 server

vnts2 is the server of the VNT virtual network. It gives every VNT client
(*device*) and every WireGuard client (*peer*) an address in a virtual IPv4
network, keeps track of who is online, and relays packets between them. Several
servers may form a cluster. The Rust source is in
`src/vnts2.0服务端开发包/official-vnts-source-2.0.0/`; file names below are
relative to its `src/server/`. Two protocols are modelled on both sides, the
client list and forward error correction; the client's part is in
`src/VntcApp1.0/vendor/vnt-core-2.0.0/src/`, below `vnt-core`.

The project models how addresses are given out, confirmed, moved, revoked and
reclaimed while connections, background tasks, management requests, the
WireGuard runtime and the database interleave and the process crashes and
restarts; how the servers of a cluster share leases, routes and broadcasts; how
a network comes and goes; how clients learn who is in it; and how they repair
the loss of packets.

## The system and its parts

| Part | Source | Module | Status |
|---|---|---|---|
| Address book of a network | `network_state_provider.rs` (`NetworkStateInner`) | `LeaseTable` | modelled |
| Online endpoints | `network_state_provider.rs` (`sender_map`, `online_endpoints`) | `NetworkState` | changes modelled, `try_deliver` not |
| Control sessions, background tasks | `control_server/service.rs`, `control_server/handler.rs` | `ControlSessions` | modelled |
| Database | `control_server/db.rs`, `db/migrations.rs` | `Database`, `ClusterLease` | address tables and `cluster_leases` modelled |
| WireGuard management | `network_state_provider.rs`, `service.rs` | `WireGuardPeers` | modelled |
| WireGuard runtime | `wireguard_runtime.rs` | `WireGuardPeers` | tunnel life cycle modelled |
| The running server | all of these | `Server` | modelled, with crash and restart |
| Network life cycle | `service.rs` | `NetworkRegistry` | modelled without address ranges |
| Client list | `network_state_provider.rs`, `vnt-core` (`context`, `tunnel_core`) | `ClientList` | modelled |
| Cluster leases | `peer_server.rs`, `db.rs`, `service.rs` | `ClusterLease` | modelled |
| Cluster connections and routes | `peer_server.rs` | `PeerLinks`, `PeerLoop` | modelled without authentication and latency |
| Cluster broadcasts | `peer_server.rs` | `BroadcastFlood` | modelled |
| Forward error correction | `vnt-core` (`fec`) | `Fec` | modelled, Reed-Solomon external |

`PROJECT.json` lists every part with its sources and, for what is left out, the
reason; see also *Not modelled*.

How they interact. A connection registers through `ControlService::register`,
which finds or creates the state of its network, asks the cluster's authority
for a lease if there is a cluster, changes the address book and the endpoint
maps in one critical section and leaves the database write to a spawned task. A
pre-registration (`PendingConfirmation`) is confirmed by a later message that
writes to the database first. Dropping the `Session` takes the device offline,
or gives a pre-registered address back. The cleanup loop reclaims leases of
devices that have been offline too long. Management requests change database,
address book and runtime in turn, under an async lock per network. The runtime
is a single task: it reads peer records from the database at a handshake,
connects them in the address book, and takes revocations from a bounded
channel. Servers talk over connections with one loop each, which carries lease
requests, lists of clients and broadcasts.

## Modules

| Module | Models | Correspondence |
|---|---|---|
| `Addressing` | the address space of one network | an address is its offset: 0 network, 1 gateway, `2..LastHost` hosts, `LastHost+1` broadcast |
| `LeaseTable` | `NetworkStateInner` | variables are its three maps; an action is one critical section of `lease_state` |
| `AddressOwnership` | the promise of the address book and of the cluster, abstractly | an address is given back before someone else gets it |
| `Database` | the address tables | an action is one statement or transaction |
| `NetworkState` | `sender_map`, `online_endpoints` | operators called by both sides; who attaches an endpoint inserts its sender and its endpoint in two steps, holding `lease_state` (`attaching`) |
| `ControlSessions` | sessions, spawned writes, cleanup, `delete_device` | a step ends at an await or where a mutex is released and the code goes on |
| `WireGuardPeers` | management requests and the runtime | likewise; `update_lock` is `wireguard_ip_update_lock`, `commands` the runtime's channel |
| `Server` | all of it on one state, with `Restart` | and the properties of the whole |
| `NetworkRegistry` | the map of networks | registrations, management requests and the sweep step by step; of a `NetworkState` only who has an entry |
| `ClusterLease` | the lease protocol | `call` holds the requests under way, from the wait for room in the channel on, `cluster_leases` the authority's table, `sessions` the renewal tasks, `pass` the reconciliations |
| `PeerLinks` | connections to other servers | `info` holds the `PeerServerInfo` objects by identity, with task and loop; routes and WireGuard sources as in the code |
| `PeerLoop` | one loop and its channel | the channel is its length; a handler that sends into it, and a write that the connection has not taken, are states of the loop |
| `BroadcastFlood` | one broadcast | any topology; test and mark of `broadcast_seen` are two steps |
| `ClientList` | `data_version`, pings, RPC refresh, the client's list | server, client and the answers between them |
| `Fec` | encoder, worker, decoder | batches, the set of packets sent, the receiver's groups |
| `ServerProofs` | | lemmas and theorems about the address book, the tables and the endpoint maps; what each side of the server does to them; theorems about the whole server |
| `SafetyProofs`, `TunnelProofs` | | theorems that relate the parts of the server: endpoints, sessions, moves; reservations and tunnels |
| `ClusterLeaseProofs` | | the cluster's invariant, its steps, its theorems |
| `PartProofs`, `PeerProofs` | | registry, client list and peer loop; connections and broadcasts |
| `FecProofs`, `FecGroupProofs` | | what the FEC receiver passes on; which groups it completes |
| `MCParts`, `MCCluster`, `MCLiveParts` | | components on their own, for TLC |
| `MCServer`, `MCWhole`, `MCRestarts`, `MCLiveServer` | | the server, whole or in halves, for TLC |

Modules share variables through `EXTENDS`:
`Addressing` → `LeaseTable` → `NetworkState`, and `Addressing` → `Database`;
`ControlSessions` and `WireGuardPeers` extend both, `Server` extends the two.
The other components stand alone and meet the server in what they leave open:
`ClusterLease` lets every server refuse any address and reconcile any, since it
does not know their address books; `ClientList` lets any device change at any
time; `PeerLinks` lets every loop end at any time, `PeerLoop` says when it may
not.

The `MC` modules with a variable `focus` (or `half`, or `part`) run one of several
components, or one half of the server, and leave the others in one state. The
state spaces add up and do not multiply.

### Abstractions

The server:

- One network, one server. Names, latency and traffic counters are not part of
  an entry; version numbers are in `ClientList`.
- The `vnt_device` rows of `ip_allocations` are written by triggers inside the
  statement that changes `devices`, so they are not a second variable.
- `disconnect_time` is wall-clock time, so any set of offline devices may be
  expired.
- A connection that has been superseded is not closed by the server; it drops
  whenever its client goes. A `Session` cannot be dropped in the middle of
  `confirm_registration`: the read loop that owns it awaits the handler.
- `try_deliver` reads the endpoint maps without the mutex. So the two inserts
  that attach an owner are two steps, between which everything that does not
  need `lease_state` may happen. Two entries that are removed together under the
  mutex go in one step: without a sender an endpoint delivers nothing.
- `random_id` values are never drawn twice, also not after a restart.
- Rows loaded at start lie inside the network. Either table may fail to be read
  at a restart; the code then starts without its rows. `unread` is a history
  variable that remembers this. `TunnelsAreAuthorised` and
  `ReservationsMatchDatabase` make an exception for such peers, and need it: TLC
  shows a move that does not revoke the tunnel at the old address, because the
  address book no longer knows that address.
- `DropRequest` is the loss of an HTTP handler's future at an await. A
  statement that it had under way has been executed or not; that the
  connection pool executes it later, after the lock is free, is not modelled.
- `errored` is a history variable. It marks peers whose disabling request
  failed between the write and the revocation.
- The first grant of a cluster (`create_wireguard_peer_with_ip`) is an
  arbitrary address inside the network.

The registry of networks:

- A network is configured or not; its address range is left out, and with it
  the `networks` table, which is read at the start only. WireGuard peers, whose
  rows and reservations also protect a network, are left out too.
- The rows that `new_from_db` reads are any set of devices: the read is awaits
  away from the insertion, and may fail.
- Cleanup and `delete_device` may remove the entry of any device, since a device
  may come back after they have found it offline. `late` is a history variable
  that marks such a device, and one that enters a state about to be removed.

The cluster:

- Time is what is left of a lease, counted in renewal intervals and aged by
  `Tick`; the servers' clocks agree. A static reservation never ages.
- A request of a member waits for room in the connection's channel, without a
  timeout, is sent, and is then served whenever the authority gets to it, also
  after its caller has given up or its connection has broken (`stale`). The 5 s
  count from the moment it is in the channel. The authority asks itself.
- `granted` and `abandoned` are history variables: the last grant to a device,
  and the WireGuard sources that a task stopped in the middle has left behind.
- Channels between servers have a length in `PeerLoop` only, whose messages have
  no contents; in `ClusterLease` there is room at any time or never.
- A broadcast is over before `broadcast_seen` forgets it after 120 s.

Client list and forward error correction:

- Devices are told apart by address. The client allows WireGuard and is not
  itself in the list. It refreshes the list by RPC, or, configured with
  `no_punch`, has no task that does. `clean` and the `since` of an answer are history: the list
  is no older than the version it goes with, and the version that a partial list
  starts from.
- A packet is a number with a length. Reed-Solomon decoding recovers a group
  from as many equally long shards as it has originals, and yields bytes nobody
  has sent if the shards belong to different batches. A packet once sent may be
  received any number of times, or never.
- The flags byte is told apart from the rest of a packet. The encoder takes it
  before it sets the FEC bit and the decoder with that bit, so that the shards of
  the originals that arrive are not those that the parity was made of. What this
  does to the flags byte of a packet that is reconstructed depends on the matrix
  of the library, which is the constant operator `FlagsCancel`. Computed outside the model
  with that matrix over GF(256), of batches of up to ten packets: the differences
  always cancel out in batches of one and three, never in batches of two, four
  and eight, and for some of the shards in the others. TLC is given batches of
  two; the theorems hold for every `FlagsCancel`.

## Runs

| Run | Config | Shows |
|---|---|---|
| `parts` | `MCParts` | the address book under any caller: exclusive addresses, refinement of `AddressOwnership`; the client list: a client with the server's version knows who is online; FEC: no packet twice, none made up but for flags of reconstructed ones, uniform groups recovered; the registry: one state per network, and nobody is cut off who was there when a request or the sweep checked |
| `cluster` | `MCCluster` | leases: one holder of an address, sessions backed by the authority, refinement of `AddressOwnership`; connections: no task without registration, no stale route in use; broadcasts: bounded copies, everyone reached |
| `restarts` | `MCRestarts` | either half of the server with failing reads at the start: tables, address book and endpoint maps stay consistent; an online lease has an open connection; only registered endpoints are confirmed; reservations and tunnels follow the database |
| `wireguard` | `MCWireGuard` | without VNT devices, two requests on two peers against the runtime: moves, rollbacks, revocation, no direct handover |
| `server` | `MCServer` | a device and a peer compete for the same addresses; and what survives the loss of management requests |
| `live_server` | `MCLiveServer` | an offline lease is reclaimed; every management request returns, also when the revocations of dropped requests fill the channel |
| `live_parts` | `MCLiveParts` | a session whose cluster lease ran out stops, unless its renewal waits for room for ever; the client's list converges; a peer loop leaves a broken connection, and whoever asks for a lease finds room, unless the loop waits for itself or for a peer that does not read |

Deadlock is checked in the runs of `Server`. `Restart` is always possible in
`Spec`, so it means something only in `live_server`, where the process does not
restart. The runs of single components may stop: versions, packets and
broadcasts are bounded, and a jammed peer loop really does stop.

### Disagreements between text and code

Each of these runs checks one sentence of the repository and TLC finds an
interleaving in which the code does otherwise.

| Run | Sentence | What happens |
|---|---|---|
| `pre_release` | `network_state_provider.rs:669`: `random_id` avoids deleting what is another session's | the maps are cleaned after the mutex is released, by address only |
| `dropped_move` | `docs/wireguard-module-2-2-ip-management-api.md:27`: a listing never shows both addresses of a move | the request is dropped between prepare and commit |
| `fec` | `vnt-core` `fec/decoder.rs:202`: decoding recovers the lost packets | the encoder pads packets to equal length, the decoder does not, and reconstruction fails |
| `flags` | `vnt-core` `fec/decoder.rs:64`: receive FEC packets and try to recover the lost packets | the recovered packet has a flags byte that was not sent, since the FEC bit is in the shards of the originals that came and not in the parity |
| `client_list` | `docs/wireguard-module-5-1-data-bridge-routing-mtu.md:60`: a capable client gets the complete list of WireGuard nodes | the RPC refresh drops the nodes of other servers and keeps the version, so they do not come back |

Further windows of this kind are visible in the model and follow from the
actions as written:

- `RemoveExpired` does not look again at the devices that `CollectExpired`
  found offline, so a device that registers in between loses its lease; the
  same goes for `delete_device`.
- Changing address through the fallback scan leaves the old address occupied.
- `ConfirmRead` goes on without a write when the device has no entry, so the
  session is confirmed although nothing was saved.
- A device that enters a network between the checks and the removal of an edit,
  a deletion or the sweep is online in a state that the registry has dropped.
- A reconciliation overtaken by a newer connection sets `cluster_ready`.
- A peer loop whose channel is full waits for room that only it can make.
- After a restart of the server the first ping of a client gets a full list, but
  a second one, sent before that list arrives, still has the version of the
  former life. Once the new `data_version` has passed that version, the answer is
  a partial list that leaves out earlier changes, and the client takes over its
  version. The next RPC refresh repairs the list.

`SessionsAreReachable`, `LoopProgress`, `VersionCoversDevices` and the other
properties concerned name these cases as their exceptions.

### Bounds

Identifiers are model values, one or two of each kind, symmetric in the safety
runs where all of them start alike.

- `LastHost = 2` gives one host address for the scan plus the network and
  broadcast addresses, which a caller may ask for by name: exhaustion and
  competition for the last address happen at once. `LastHost = 3` gives a second
  host where a change of address matters.
- A session uses its `random_id` once, so `RandomId` bounds the number of
  registrations; two are enough for one session to supersede another and for
  both to end in either order.
- `MaxActivePeers = 1` lets two peers meet the limit. `CommandCapacity` is 64 in
  the code; 1 or 2 makes the channel full with two requests. Requests and
  restarts are not bounded; the dropping part of `live_server` runs one request
  at a time, whose dropped predecessors fill the channel. `ReadsMayFail` and
  `RequestsDroppable` are switched on in the runs that ask about them; the proofs
  cover both settings, but for the two theorems of `TunnelProofs`.
- `NetworkRegistry` has two devices, one management request at a time beside the
  sweep, and two `NetworkState` objects alive: the one in the registry and the
  one that a session or the sweep still holds.
- `ClusterLease` has a device and a peer that compete for one address on an
  authority and a member, two requests under way, and leases of two renewal
  intervals, so that a lease can be renewed, or run out, between sending and
  serving. Leases that move from one address to another do not occur with one
  address; there the theorems, which have no bounds, take over.
  In `live_parts` it has one device, and of two requests one is left to the
  renewals, so that a renewal and another request wait for room side by side.
- `PeerLinks` has two `PeerServerInfo` objects and two management requests on
  one address: an addition against an addition or a removal. `MaxRoutes = 1` is
  met at once.
- `BroadcastFlood` runs over every choice of three links among three servers,
  chains, cycles and double links included, with `HopLimit = 2`.
- `ClientList` has two listed devices in `parts`, so that a list may be right
  about one and wrong about the other; one device and a local and a remote
  WireGuard endpoint in `live_parts`; and versions up to 3 and 2, with a channel of
  one answer in both. `Fec` has four packets of two lengths in batches of two.
- `PeerLoop` has two tasks that ask and a channel of two messages, so that tasks
  and loop together overfill it.

### Fairness

`LiveSpec` is one life of the process. Weak fairness: a task that waits for the
database gets an answer; a `Drop` runs to its end; the runtime finishes a
handshake it has begun. Strong fairness: the runtime handles a command
although handshakes keep it busy from time to time, because its `select!` is
biased towards commands; a sender gets room in the channel because tokio's
`mpsc` serves waiting senders in order; a device that stays offline is in some
cleanup pass, because the loop goes round for ever and its age only grows; the
cleanup and the requests get `lease_state` although registrations and handshakes
take it again and again, because no critical section awaits and `parking_lot`'s
mutex is eventually fair. No
fairness is assumed of clients, administrators or tunnels expiring, nor that
the database succeeds. The lock's fairness is not needed: a request exists in
the model from the moment it has the lock.

In a cluster, a request in the channel is served or its caller gives up, after 5
s, and a caller with an answer returns (weak). No fairness is assumed of
`FindsRoom`: the channel of a loop that is jammed, or whose write the peer does
not read, has no room ever again, `peer.send` has no timeout, and a renewal that
waits there leaves its session valid. `ExpiredSessionStops` therefore excepts
sessions whose renewal waits for room for good, and no others. The renewal interval of a session comes round for ever, also when it
finds every request taken (strong). Connections need not come up. The client
pings for ever, refreshes for ever if it has the task, and an answer to the RPC is not lost each time
(strong); `ListConverges` speaks of clients that stay connected to a server
where nothing changes any more, and promises less to one with `no_punch`, which
only has the pushes. The peer loop's `select!` is random, so that a
branch that is ready again and again is taken (strong); that the peer reads what
the loop writes, or that somebody stops the loop, is not assumed.

## Proofs

TLAPS checks these for every set of devices, peers, sessions, requests and
servers and every size of network, from the named assumptions only
(`LeaseConstants`, `NoneIsNoEntry`, `SessionsAreNotPeers`, `WireGuardConstants`,
`ServerConstants`, `ClusterConstants`, `RegistryConstants`, `ListConstants`,
`PeerConstants`, `NoPeerIsNoRecord`, `FloodConstants`, `LoopConstants`,
`FecConstants`: the special values are distinct from identifiers and records, the
network has a host, capacities, versions, durations and lengths are numbers,
switches Boolean, and the links between servers finitely many).

| Theorem | Statement |
|---|---|
| `LeaseTypeCorrect` | `LeaseSpec => []LeaseTypeOK` |
| `LeaseExclusive` | `LeaseSpec => []AddressExclusive` |
| `LeaseImplementsOwnership` | `LeaseSpec => ImplementsOwnership` |
| `ServerTypeCorrect` | `Spec => []TypeOK` |
| `ServerExclusive` | `Spec => []AddressExclusive` |
| `TablesExclusive` | `Spec => []DatabaseExclusive` |
| `ServerNoHandover` | `Spec => NoHandover` |
| `EndpointsAgree` | `Spec => []EndpointMapsAgree` |
| `ConfirmedIsRegistered` | `Spec => []ConfirmedEndpointIsRegistered` |
| `EndpointsHaveTunnels` | `Spec => []PeerEndpointHasTunnel` |
| `OnlineLeasesAreLive` | `Spec => []OnlineLeaseHasSession` |
| `MovesHoldBothAddresses` | `Spec => []MoveHoldsBothAddresses` |
| `ReservationsSettle` | `Spec => []ReservationsMatchDatabase`, assuming `~RequestsDroppable` |
| `TunnelsAuthorised` | `Spec => []TunnelsAreAuthorised`, assuming `~RequestsDroppable` |
| `ClusterIsExclusive` | `ClusterSpec => []ClusterExclusive` |
| `SessionsAreBacked` | `ClusterSpec => []LeaseOutlivesSession` |
| `ClusterImplementsOwnership` | `ClusterSpec => ImplementsClusterOwnership` |
| `ReachableSessions` | `RegistrySpec => []SessionsAreReachable` |
| `StatesAreShared` | `RegistrySpec => StateNeverReplaced` |
| `VersionsTell` | `ListSpec => []VersionCoversDevices` |
| `TasksAreKnown` | `PeerSpec => []NoOrphanTask` |
| `RoutesAreCurrent` | `PeerSpec => []UsedRoutesAreCurrent` |
| `SourcesAreCurrent` | `PeerSpec => []WireGuardSourcesAreCurrent` |
| `BroadcastsAreBounded` | `FloodSpec => []RelayedOncePerLink` |
| `LoopTypeCorrect` | `LoopSpec => []LoopTypeOK` |
| `JamEndsByStop` | `LoopSpec => [][Jammed => Jammed' \/ LoopStop]_loopVars` |
| `PacketsDeliveredOnce` | `FecSpec => []AtMostOnce` |
| `NoPacketMadeUp` | `FecSpec => []NothingMadeUp` |
| `UniformGroupsComplete` | `FecSpec => []UniformGroupsRecover` |

**The address book.** `LeaseInv` is `LeaseTypeOK /\ AddressExclusive`. The
second conjunct of `AddressExclusive`, that the recorded owner of a device's
address is that device, is what makes it inductive: without it `RemoveDevices`
would free an address someone else leases. One lemma per critical section shows
that it keeps `LeaseInv`, one per critical section how it changes the owners;
the refinement follows from the latter. `FindAvailableIp` needs the least
element of a nonempty set of naturals, from well-founded induction.

**The server.** `ServerInv` is `TypeOK /\ AddressExclusive /\
DatabaseExclusive`. `RunningLeaseStep` shows that every step of the running
server is a step of `LeaseNext` or leaves the address book alone, so the first
proofs carry over; each statement keeps `DatabaseExclusive` by the lemmas about
tables. The two middle parts of `ServerProofs` hold these facts for the two
sides, one case per action. The conjuncts need each other at
`Restart`: the address book built from the tables is exclusive because the
tables are. `TypeOK` says more than shapes: an open session has a device and an
address, a request that reserves has an address, without which the actions would
not be well defined.

**Endpoints and sessions.** `EndpointInv` puts the three properties of the
endpoint maps together and adds `HandshakeIsFresh`: the runtime reads a record
only for a peer without a tunnel, and nobody else opens one, so that the tunnel
and the endpoint made at the end of the handshake belong together. It rests on
`AttachInv`, which says who is between its two inserts: at most one registration
or handshake, the one that `attaching` names, at its own address and with its own
sender there, unless that has been removed meanwhile. Most steps
only detach endpoints (`OnlyDetached`), and one lemma covers them.
`OnlineLeaseHasSession` is inductive on top of `ServerInv`, which supplies that
an open session has a device and an address.

**Management requests.** What connects the steps of a request is the lock.
`LockInv` says that whoever is past its first step and has not committed holds
it (`LockHeld`), that only a request that has reserved rolls back, that a
command in the channel has its request waiting for it (`CommandsFit`), and
`MoveHoldsBothAddresses`. It holds with dropped requests too.
`ReservationsMatchDatabase` speaks of the moments when nobody has the lock;
`ReservationInv` says what the address book and the tables have in common at
every step in between: after prepare the book has the new address and, of the
others, those in the table (`PreparedFits`); before commit the table has the new
address (`CommittingFits`); and all other peers are settled. `TunnelInv` extends
`TunnelsAreAuthorised` to handshakes that have read their record and not yet
opened the tunnel, and says which requests are still to revoke it
(`WillRevoke`). Both theorems assume `~RequestsDroppable`, as they must:
`dropped_move` shows what a dropped request leaves behind.

**The cluster.** `LeaseOutlivesSession` is not inductive: a session takes its
time from an answer that may have been under way for long. `ClusterInv` adds
that every grant under way is backed by the authority as a session is
(`GrantsBacked`, with `Backed` the common part), that a renewal its task still
waits for is about that session and its address (`RenewalsFit`), that requests
are made for owners of the right kind (`OwnersFit`), and that a reconciliation
waits for one request at a time (`PassesFit`). A step does one of four things to
a request under way: it is new, it is granted, it has grown older, or less is
known of it (its caller has gone, its connection has broken).
The first half of `ClusterLeaseProofs` proves once for each of the four what
becomes of the invariants about requests, and what a grant does to the
authority's table: nobody else's lease of the address can be unexpired. The
second takes the other actions in turn. The refinement follows from how each action changes
the holders of addresses: a grant goes to nobody's address or to its own
holder's, and all else only gives back.

**The registry.** `RegistryInv` adds to the types that whoever loads a state is
alone (`CreatorAlone`, which gives `StateNeverReplaced`), that nobody is about
to enter an idle state (`IdleIsUnused`: finding it has ended its idleness), and
that an edit or a sweep past its checks cuts off nobody who is served
(`EditsChecked`, `SweepChecked`).

**The client list.** `ListInv` says of every list, kept or under way, that it is
right about all devices that have not changed since its version (`Covers`), and
of a partial one that it is so together with any list that reaches the version
it starts from (`Completes`). The proof does not go through without the
condition that the client's own list reaches that far. It turned out that it
need not, after a restart, as described under *Disagreements*; the property names
that case, and `parts` has the two devices that show it.

**Connections and broadcasts.** `PeerInv` says that what is registered, or about
to be, is a live task, and each only once (`TaskInv`): otherwise a second
addition could stop the wrong one. `RoutesAnnounced` includes the routes of peers
that are not connected, which come into use when they are. `FloodInv` counts, at
each server, the loops between test and mark: what it has relayed and what these
are going to relay is no more than its connections. The one proof about
`PeerLoop` that is not about its type is that `Jammed` lasts: `LoopProgress`
excepts a loop that waits for room in its own full channel, and `JamEndsByStop`
shows that nothing brings such a loop back but the stop signal from outside.

**Forward error correction.** None of the three properties is inductive: they
speak of what has been passed on, which depends on what the receiver holds, which
depends on what the sender has done with a group number. `SenderInv` says that an
original carries its packet at its place in the batch, that a packet is sent as
one original only (`SentOnce`), that a parity packet or a batch on its way to the
worker covers packets that were sent in this order under its number and, until
the sender starts again, that nothing else was (`Batch`, `OpenBatch`).
`ReceiverInv` says that the shards of a group are packets sent under its number
(`Shards`), that a group that is done has given its shards up, and that a packet
that was passed on is among the shards of a group or belongs to one that is done
(`Noted`): that is why neither a duplicate nor a reconstruction passes it on a
second time, and why the history may forget the packet together with its group.
Both hold across restarts of the sender, which is where the first part of
`NothingMadeUp` ends, about types, lengths and payloads; the second says which
packets may get a wrong flags byte. The properties except no other packet, and
the run `flags` shows that they must except these:
`SoundUnlessRestarted` shows that what is decoded is what was sent if the number
was used once.

`UniformGroupsRecover` speaks of a batch that has its number for itself. Two
batches never begin with the same packet (`ClosedOnce`), so that all that was
sent under that number belongs to the batch (`SoleIs`), also after a restart.
`UniformInv` says of such a group that it is done and all its packets were passed
on, or that it waits: the originals that have come were passed on and counted,
and there are fewer shards than the batch has packets. Equal lengths are what
makes the decoder accept the shards (`IsDecodable`) the moment there are enough.
`FecGroupProofs` has the lemmas that count shards.

Only model-checked: liveness and what depends on fairness or `ENABLED`, which
TLAPS does not prove here (`OfflineLeaseReclaimed`, `RequestsReturn`,
`ExpiredSessionStops`, `ListConverges`, `LoopProgress`); `FloodReachesAll`, whose
proof for every topology is an induction over paths, out of the prover's reach;
and `PartsTypeOK` and `ServersTypeOK`, which put the types of several components
together (each inductive invariant contains the types its proof needs, that of
`Fec` without the upper limits on group numbers, lengths and counts). Recursive
operators are out of the prover's reach too; no module here needs them.

## Not modelled

- **Packet relay** (`try_deliver`, `wireguard_bridge.rs`): checks on the
  contents of packets and forwarding, without state of their own. The maps they
  read are in `NetworkState`.
- **Address ranges of networks**: editing a network changes its range.
  `NetworkRegistry` shows which devices can still be in the old state; what the
  addresses of the old range mean in the new one is a question about address
  arithmetic.
- **WireGuard P2P and the agent** (`wireguard_p2p.rs`, `src/wireguard-agent`):
  short-lived tokens for a direct path beside the relayed one. A path that is
  missing or late costs latency and no address.
- **Identity and profiles** (`wireguard_identity.rs`, `wireguard_profile.rs`):
  encryption of keys and rendering of text.
- **Peer authentication, latency and route expiry** in `peer_server.rs`: the
  exchange comes before the loop; latency only chooses among usable routes.
- **Transports, protocol messages, HTTP, start-up**: framing, encoding and I/O.
  That a connection ends by dropping its `Session`, and that a handler's future
  may be dropped, is in the models.
- **Client core beyond the list and FEC**, the user interfaces, the console, the
  Python panels, the scripts and the vendored libraries: the server sees them as
  registrations, requests and disconnections, which the models admit in any
  order.
