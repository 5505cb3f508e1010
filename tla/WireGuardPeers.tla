--------------------------- MODULE WireGuardPeers ---------------------------
(***************************************************************************)
(* The WireGuard side: the management requests that create, enable,        *)
(* disable, move, release and delete a peer, serialised per network by     *)
(* wireguard_ip_update_lock, and the runtime, the single task that owns    *)
(* every active tunnel and takes revocations from a command channel.       *)
(*                                                                         *)
(* A request changes three places in turn, the database, the address book  *)
(* and the runtime, and VNT registrations and handshakes run in between.   *)
(***************************************************************************)
EXTENDS NetworkState, Database, FiniteSets, Sequences

CONSTANTS
    Request,           \* management requests, each served by a task of its own
    MaxActivePeers,    \* wireguard_max_active_peers
    CommandCapacity,   \* the capacity of the runtime's command channel
    RequestsDroppable  \* may the HTTP server drop a handler at an await?

ASSUME WireGuardConstants ==
    /\ MaxActivePeers \in Nat
    /\ CommandCapacity \in Nat \ {0}
    /\ RequestsDroppable \in BOOLEAN
    /\ None \notin Request

VARIABLES
    request,      \* the progress of every management request
    update_lock,  \* wireguard_ip_update_lock: the request that holds it, or None
    commands,     \* the runtime's command channel: peers to revoke, with the asker
    handshake,    \* the peer record the runtime is activating, or None
    active,       \* the runtime's peers: peer -> reserved_ip of its tunnel, or None
    errored       \* history: peers disabled by a request that failed before it revoked

wireguardVars == <<request, update_lock, commands, handshake, active, errored>>

Operation == {"create", "create_auto", "create_with_ip", "enable", "disable",
              "delete", "reserve", "release"}

\* The operations that occupy an address before they go to the database.
Reserving == {"create_auto", "create_with_ip", "reserve"}

Step == {"idle",      \* no such request, or it has returned
         "persist",   \* awaits its database statement
         "load",      \* set_wireguard_peer_enabled awaits load_wireguard_peer
         "commit",    \* the database has accepted
         "rollback",  \* the database has refused
         "revoke",    \* about to send the revocation
         "await_ack"} \* waits for the runtime to acknowledge it

NoRequest == [step |-> "idle", op |-> "create", peer |-> None, ip |-> None,
              previous_ip |-> None, removed |-> FALSE]

RequestRecord ==
    [step : Step, op : Operation, peer : Peer \cup {None}, ip : Assignable \cup {None},
     previous_ip : Assignable \cup {None}, removed : BOOLEAN]

WireGuardTypeOK ==
    /\ request \in [Request -> RequestRecord]
    /\ \A q \in Request :
          request[q].step # "idle" =>
              /\ request[q].peer \in Peer
              /\ request[q].op \in Reserving => request[q].ip \in Assignable
    /\ update_lock \in Request \cup {None}
    /\ commands \in Seq([peer : Peer, by : Request \cup {None}])
    /\ handshake \in [peer : Peer, ip : Assignable] \cup {None}
    /\ active \in [Peer -> Assignable \cup {None}]
    /\ errored \subseteq Peer

RuntimeIdle ==
    /\ commands = <<>>
    /\ handshake = None
    /\ active = [p \in Peer |-> None]
    /\ errored = {}

WireGuardInit ==
    /\ request = [q \in Request |-> NoRequest]
    /\ update_lock = None
    /\ RuntimeIdle

-----------------------------------------------------------------------------
(* Management requests *)

runtimeVars == <<commands, handshake, active, errored>>

\* The lock is taken; what the operation does before its first await is in
\* Begin..., what it awaits first is the database.
Acquire(q, op, p, ip, previous_ip) ==
    /\ request[q].step = "idle"
    /\ update_lock = None
    /\ update_lock' = q
    /\ request' = [request EXCEPT ![q] =
                     [step |-> "persist", op |-> op, peer |-> p, ip |-> ip,
                      previous_ip |-> previous_ip, removed |-> FALSE]]
    /\ UNCHANGED <<endpointVars, dbVars, runtimeVars>>

\* create_wireguard_peer, set_wireguard_peer_enabled, delete_wireguard_peer
\* and release_wireguard_peer_ip go to the database first.
Begin(q, op, p) ==
    /\ op \in {"create", "enable", "disable", "delete", "release"}
    /\ Acquire(q, op, p, None, None)
    /\ UNCHANGED leaseVars

\* reserve_wireguard_peer_ip_with and create_wireguard_peer_with_ip occupy the
\* address first.  The latter gets it from a cluster grant, which
\* validate_cluster_candidate has kept inside the network.
BeginReserve(q, op, p, ip) ==
    /\ LeaseStateFree
    /\ op \in {"reserve", "create_with_ip"}
    /\ \E previous_ip \in PreviousIps(p) : Acquire(q, op, p, ip, previous_ip)
    /\ PrepareReservation(p, ip)

\* create_wireguard_peer_with_automatic_ip: first free host, and no previous_ip
\* whatever prepare returns.
BeginCreateAuto(q, p) ==
    /\ LeaseStateFree
    /\ FindAvailableIp # None
    /\ Acquire(q, "create_auto", p, FindAvailableIp, None)
    /\ PrepareReservation(p, FindAvailableIp)

Advance(q, step) == request' = [request EXCEPT ![q].step = step]

\* The request returns; its guard on the lock goes with it if it still has it.
Return(q) ==
    /\ request' = [request EXCEPT ![q] = NoRequest]
    /\ update_lock' = IF update_lock = q THEN None ELSE update_lock

\* The statement or transaction of the operation succeeds.
Persist(q) ==
    LET op == request[q].op
        p == request[q].peer
        ip == request[q].ip IN
    /\ request[q].step = "persist"
    /\ \/ /\ op = "create"
          /\ \E enabled \in BOOLEAN : InsertPeer(p, enabled)
          /\ Return(q)
       \/ /\ op \in {"create_auto", "create_with_ip"}
          /\ \E enabled \in BOOLEAN : InsertPeerWithIp(p, ip, enabled)
          /\ Advance(q, "commit") /\ UNCHANGED update_lock
       \/ /\ op = "reserve"
          /\ ReservePeerIpRow(p, ip)
          /\ Advance(q, "commit") /\ UNCHANGED update_lock
       \/ /\ op \in {"enable", "disable"}
          /\ SetPeerEnabled(p, op = "enable")
          /\ Advance(q, "load") /\ UNCHANGED update_lock
       \/ /\ op \in {"enable", "disable"}
          /\ wireguard_peers[p] = "absent"
          /\ UNCHANGED dbVars
          /\ Return(q)
       \/ /\ op = "release"
          /\ ReleasePeerIpRow(p)
          /\ request' = [request EXCEPT ![q].step = "commit",
                                        ![q].removed = ip_allocations[p] # None]
          /\ UNCHANGED update_lock
       \/ /\ op = "delete"
          /\ DeletePeer(p)
          /\ Advance(q, "commit") /\ UNCHANGED update_lock
    /\ UNCHANGED <<leaseVars, endpointVars, runtimeVars>>

\* The database refuses the statement, or fails: nothing is written.
PersistFails(q) ==
    /\ request[q].step = "persist"
    /\ IF request[q].op \in Reserving
       THEN Advance(q, "rollback") /\ UNCHANGED update_lock
       ELSE Return(q)
    /\ UNCHANGED <<leaseVars, endpointVars, dbVars, runtimeVars>>

\* load_wireguard_peer after the update; enabling needs no revocation.
LoadUpdated(q) ==
    /\ request[q].step = "load"
    /\ IF request[q].op = "disable"
       THEN Advance(q, "revoke") /\ UNCHANGED update_lock
       ELSE Return(q)
    /\ UNCHANGED <<leaseVars, endpointVars, dbVars, runtimeVars>>

\* ... and an error of that read returns before the revocation.
LoadFails(q) ==
    /\ request[q].step = "load"
    /\ errored' = IF request[q].op = "disable" THEN errored \cup {request[q].peer} ELSE errored
    /\ Return(q)
    /\ UNCHANGED <<leaseVars, endpointVars, dbVars, commands, handshake, active>>

Rollback(q) ==
    /\ LeaseStateFree
    /\ request[q].step = "rollback"
    /\ RollbackReservation(request[q].peer, request[q].ip, request[q].previous_ip)
    /\ Return(q)
    /\ UNCHANGED <<endpointVars, dbVars, runtimeVars>>

Unlock(q, step) ==
    /\ Advance(q, step)
    /\ update_lock' = None

\* The address book follows the database.  A move and a release give the lock
\* back before they revoke, a deletion keeps it until the runtime has answered.
Commit(q) ==
    LET op == request[q].op
        p == request[q].peer
        ip == request[q].ip
        previous_ip == request[q].previous_ip IN
    /\ LeaseStateFree
    /\ request[q].step = "commit"
    /\ \/ /\ op \in {"create_auto", "create_with_ip"}
          /\ CommitReservation(p, ip, previous_ip)
          /\ Return(q)
       \/ /\ op = "reserve"
          /\ CommitReservation(p, ip, previous_ip)
          /\ IF previous_ip \notin {None, ip} THEN Unlock(q, "revoke") ELSE Return(q)
       \/ /\ op = "release"
          /\ ReleaseReservation(p)
          /\ IF request[q].removed \/ ReservedIps(p) # {} THEN Unlock(q, "revoke") ELSE Return(q)
       \/ /\ op = "delete"
          /\ ReleaseReservation(p)
          /\ Advance(q, "revoke") /\ UNCHANGED update_lock
    /\ UNCHANGED <<endpointVars, dbVars, runtimeVars>>

\* WireGuardRuntimeHandle::revoke_peer: send the command, once the bounded
\* channel has room for it ...
SendRevoke(q) ==
    /\ request[q].step = "revoke"
    /\ Len(commands) < CommandCapacity
    /\ commands' = Append(commands, [peer |-> request[q].peer, by |-> q])
    /\ Advance(q, "await_ack")
    /\ UNCHANGED <<leaseVars, endpointVars, dbVars, update_lock, handshake, active, errored>>

\* The HTTP connection closes and the handler's future is dropped where it
\* awaits: nothing after the await runs, and the lock guard is released.  A
\* statement it awaited has been executed or not; a command it sent stays in
\* the channel, with nobody to acknowledge.
DropRequest(q) ==
    /\ RequestsDroppable
    /\ request[q].step # "idle"
    /\ Return(q)
    /\ commands' = [i \in DOMAIN commands |->
                      IF commands[i].by = q THEN [commands[i] EXCEPT !.by = None]
                      ELSE commands[i]]
    /\ UNCHANGED <<leaseVars, endpointVars, dbVars, handshake, active, errored>>

-----------------------------------------------------------------------------
(* The runtime task *)

Busy == handshake # None
HasRoom == Cardinality({p \in Peer : active[p] # None}) < MaxActivePeers

\* remove_peer: the tunnel goes, and its endpoint if it still is the peer's.
RemovePeer(p) ==
    /\ active' = [active EXCEPT ![p] = None]
    /\ IF active[p] = None THEN UNCHANGED endpointVars
       ELSE DisconnectWireGuardPeer(p, active[p])

\* The first command leaves the channel, its tunnel goes and its asker returns.
TakeRevoke ==
    LET command == Head(commands) IN
    /\ commands # <<>>
    /\ commands' = Tail(commands)
    /\ RemovePeer(command.peer)
    /\ errored' = errored \ {command.peer}
    /\ IF command.by # None THEN Return(command.by) ELSE UNCHANGED <<request, update_lock>>
    /\ UNCHANGED <<leaseVars, dbVars, handshake>>

\* Mutant of HandleRevoke: a task of its own, which does not wait for a handshake.
HandleRevokeMidHandshake == TakeRevoke

\* Mutant of HandleRevoke: a peer that is authorised again is skipped, and nobody
\* answers the request that asked.
HandleRevokeOrSkip ==
    /\ ~Busy
    /\ commands # <<>>
    /\ IF RuntimePeer(Head(commands).peer)
       THEN /\ commands' = Tail(commands)
            /\ UNCHANGED <<leaseVars, endpointVars, dbVars, request, update_lock, handshake,
                           active, errored>>
       ELSE TakeRevoke

\* ... and wait until the runtime has handled it and answered.  The select! is
\* biased: a command goes before a datagram, but never into the middle of one.
HandleRevoke == ~Busy /\ TakeRevoke

\* peer_for_handshake for a peer without a tunnel: the record is read from the
\* database before an await and used after it.
HandshakeLoad(p) ==
    /\ ~Busy
    /\ active[p] = None
    /\ HasRoom
    /\ RuntimePeer(p)
    /\ handshake' = [peer |-> p, ip |-> ip_allocations[p]]
    /\ UNCHANGED <<leaseVars, endpointVars, dbVars, request, update_lock, commands, active,
                   errored>>

\* activate_peer: the address book decides whether the record still counts ...
HandshakeRefused ==
    /\ Busy
    /\ LeaseStateFree
    /\ ~(HasRoom /\ CanConnectPeer(handshake.peer, handshake.ip))
    /\ handshake' = None
    /\ UNCHANGED <<leaseVars, endpointVars, dbVars, request, update_lock, commands, active, errored>>

\* ... and if it does, connect_wireguard_peer inserts the sender ...
HandshakeConnect ==
    /\ Busy
    /\ LeaseStateFree
    /\ HasRoom
    /\ CanConnectPeer(handshake.peer, handshake.ip)
    /\ AttachSender(handshake.ip, None, handshake.peer)
    /\ UNCHANGED <<leaseVars, dbVars, request, update_lock, commands, handshake, active, errored>>

\* ... then the endpoint, and the tunnel is there.
HandshakeFinish ==
    /\ Busy
    /\ attaching.owner = handshake.peer
    /\ AttachEndpoint(FALSE)
    /\ handshake' = None
    /\ active' = [active EXCEPT ![handshake.peer] = handshake.ip]
    /\ UNCHANGED <<leaseVars, dbVars, request, update_lock, commands, errored>>

HandshakeActivate == HandshakeRefused \/ HandshakeConnect \/ HandshakeFinish

\* update_timers: BoringTun reports ConnectionExpired.
ExpireTunnel(p) ==
    /\ ~Busy
    /\ active[p] # None
    /\ RemovePeer(p)
    /\ UNCHANGED <<leaseVars, dbVars, request, update_lock, commands, handshake, errored>>

-----------------------------------------------------------------------------
RequestStep(q) ==
    \/ Persist(q)
    \/ PersistFails(q)
    \/ LoadUpdated(q)
    \/ LoadFails(q)
    \/ Rollback(q)
    \/ Commit(q)
    \/ SendRevoke(q)

\* Requests that run to their end, and the runtime.
WireGuardRuns ==
    \/ \E q \in Request, p \in Peer :
          \/ \E op \in Operation : Begin(q, op, p)
          \/ \E op \in Operation, ip \in Assignable : BeginReserve(q, op, p, ip)
          \/ BeginCreateAuto(q, p)
    \/ \E q \in Request : RequestStep(q)
    \/ HandleRevoke
    \/ HandshakeActivate
    \/ \E p \in Peer : HandshakeLoad(p) \/ ExpireTunnel(p)

WireGuardNext == WireGuardRuns \/ \E q \in Request : DropRequest(q)

=============================================================================
