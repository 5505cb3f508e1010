------------------------------- MODULE Server -------------------------------
(***************************************************************************)
(* One network of the server: VNT sessions and their background tasks      *)
(* (ControlSessions) and WireGuard management and runtime (WireGuardPeers) *)
(* run concurrently on one NetworkState and one database, and the process  *)
(* may stop at any step and start again from the database.                 *)
(***************************************************************************)
EXTENDS ControlSessions, WireGuardPeers

CONSTANT ReadsMayFail   \* may a table be unreadable when the process starts?

ASSUME ServerConstants == ReadsMayFail \in BOOLEAN

VARIABLE unread   \* history: peers whose address this process failed to read at its start

vars == <<leaseVars, endpointVars, dbVars, sessionVars, wireguardVars, unread>>

Init ==
    /\ DatabaseInit
    /\ Loaded(devices, ip_allocations)
    /\ NoEndpoints
    /\ SessionsInit
    /\ WireGuardInit
    /\ unread = {}

\* What the server does by itself, a crash apart.
VntStep(A) == A /\ UNCHANGED <<wireguardVars, unread>>
WireGuardStep(A) == A /\ UNCHANGED <<sessionVars, unread>>

Running == VntStep(SessionsNext) \/ WireGuardStep(WireGuardNext)

\* build_initial_inner_state reads the two tables one after the other; an error
\* of either is logged, and the process goes on as if that table were empty.
ReadTables ==
    \E rows \in {devices, [d \in Device |-> NoRow]},
       allocations \in {ip_allocations, [p \in Peer |-> None]} :
          /\ ReadsMayFail \/ <<rows, allocations>> = <<devices, ip_allocations>>
          /\ Load(rows, allocations)
          /\ unread' = {p \in Peer : allocations[p] # ip_allocations[p]}

\* A crash or a stop, and a new process: the tables survive, everything in
\* memory is gone, spawned writes that had not run included, and the address
\* book is built from the tables again.
Restart ==
    /\ ReadTables
    /\ sender_map' = [a \in Assignable |-> None]
    /\ online_endpoints' = [a \in Assignable |-> NoEndpoint]
    /\ attaching' = NotAttaching
    /\ session' = [r \in RandomId |->
                     IF session[r].status = "unused" THEN UnusedSession
                                           ELSE ClosedSession]
    /\ saves' = {}
    /\ cleanup' = NoCleanup
    /\ deletion' = [d \in Device |-> "none"]
    /\ request' = [q \in Request |-> NoRequest]
    /\ update_lock' = None
    /\ commands' = <<>>
    /\ handshake' = None
    /\ active' = [p \in Peer |-> None]
    /\ errored' = {}
    /\ UNCHANGED dbVars

Next == Running \/ Restart

Spec == Init /\ [][Next]_vars

-----------------------------------------------------------------------------
(* Type and safety *)

TypeOK ==
    /\ LeaseTypeOK
    /\ EndpointTypeOK
    /\ DatabaseTypeOK
    /\ SessionsTypeOK
    /\ WireGuardTypeOK
    /\ unread \subseteq Peer

\* The tables never give one address to two owners, whatever order the spawned
\* writes, the confirmations and the management requests reach them in, so that
\* a restart builds an address book without conflicts.
DatabaseExclusive == UniqueAllocations(devices, ip_allocations)

Live == {"attaching", "pending", "saving", "saved", "confirmed"}

\* A device that counts as online belongs to a connection that is still open
\* and was given that very address: however sessions of one device supersede
\* each other, Drop for Session never leaves a lease that is online for ever,
\* which neither the cleanup task nor delete_device would touch.
OnlineLeaseHasSession ==
    \A d \in Online :
            \E r \in RandomId : /\ device_map[d].random_id = r
                                /\ session[r].status \in Live
                                /\ session[r].device = d
                                /\ session[r].ip = device_map[d].ip

\* sender_map and online_endpoints, the two maps that try_deliver reads without
\* the lease_state mutex, name different owners for one address only between the
\* two inserts of the owner that is being attached to it.  No order of
\* registrations, drops, revocations and handshakes, of which release_pre_registered_ip
\* changes the maps without the mutex, leaves them apart: the packets of an
\* address do not go on to one session by the endpoint of another.
EndpointMapsAgree ==
    \A a \in Assignable :
        sender_map[a] # None /\ online_endpoints[a].owner # None
            => sender_map[a] = online_endpoints[a].owner \/ a = attaching.ip

\* WireGuard traffic, which try_deliver gives to a VNT endpoint only if it is
\* confirmed, is not relayed to a pre-registered session before its confirmation
\* has passed the database: a confirmed endpoint never is one whose session is
\* still pending or waiting for the database.  (VNT traffic is delivered to
\* unconfirmed endpoints too.)
ConfirmedEndpointIsRegistered ==
    \A a \in Assignable :
        online_endpoints[a].confirmed =>
            \E r \in RandomId : /\ online_endpoints[a].owner = r
                                /\ session[r].status \in {"confirmed", "closed"}

\* While a reservation waits for its database answer the peer keeps both the new
\* address and the one it had, so neither can be leased to a VNT device before
\* the outcome is known.
MoveHoldsBothAddresses ==
    \A q \in Request :
        request[q].op \in Reserving
        /\ request[q].step \in {"persist", "commit", "rollback"} =>
            /\ wireguard_peer_ip_map[request[q].ip] = request[q].peer
            /\ request[q].previous_ip # None =>
                  wireguard_peer_ip_map[request[q].previous_ip] = request[q].peer

\* Whenever no management request holds the update lock, the reservations in the
\* address book are exactly the ones in the database: every commit, rollback,
\* failure and restart in between has brought the two together again.  A process
\* that failed to read the reservations when it started has only some of them.
ReservationsMatchDatabase ==
    update_lock = None =>
        \A a \in Assignable, p \in Peer :
            /\ wireguard_peer_ip_map[a] = p => ip_allocations[p] = a
            /\ ip_allocations[p] = a /\ p \notin unread => wireguard_peer_ip_map[a] = p

\* A tunnel that the database no longer authorises (peer disabled or deleted,
\* address moved or released) exists only while the request that did it has not
\* returned: revoke_peer's acknowledgement comes after the last handshake that
\* could have used the old record.  There are two exceptions, both after a
\* failed read: a disable whose re-read failed, and whose caller got an error;
\* and a peer unread at the start, whose old address a later move does not know.
TunnelsAreAuthorised ==
    \A p \in Peer :
        active[p] # None =>
            \/ wireguard_peers[p] = "enabled" /\ ip_allocations[p] = active[p]
            \/ \E q \in Request : /\ request[q].peer = p
                                  /\ request[q].step \in {"load", "commit", "revoke", "await_ack"}
            \/ p \in errored \cup unread

\* A WireGuard endpoint that the data path can see belongs to a tunnel of the
\* runtime: remove_peer leaves none behind even when the address has meanwhile
\* gone to another owner and back.
PeerEndpointHasTunnel ==
    \A a \in Assignable, p \in Peer : online_endpoints[a].owner = p => active[p] = a

\* While the process runs an address never changes hands directly: it is free
\* before a device or a peer gets it.
NoHandover ==
    [][(\A a \in Assignable : OwnerOf(a) # None => OwnerOf(a)' \in {OwnerOf(a), None}) \/ Restart]_vars

-----------------------------------------------------------------------------
(* Liveness, in one life of the process *)

\* The runtime picks what is ready in any order but commands first (the select!
\* is biased), tasks and requests that wait for the database get an answer, the
\* senders of a full command channel get its room in the order they came, a
\* handler that drops a Session runs its Drop to the end, and the cleanup loop
\* comes round for ever: a device that stays offline is expired at last and is
\* in some pass, hence the strong fairness.  Who holds lease_state goes on, as no
\* critical section awaits, and parking_lot's mutex is eventually fair: the
\* cleanup and the requests get it though handshakes take it again and again.
Fairness ==
    /\ \A r \in RandomId :
          /\ WF_vars(VntStep(\E normal \in BOOLEAN : FinishRegister(r, normal)))
          /\ WF_vars(VntStep(UnlinkSender(r))) /\ WF_vars(VntStep(UnlinkEndpoint(r)))
    /\ \A d \in Device :
          /\ SF_vars(VntStep(\E S \in SUBSET Offline : d \in S /\ CollectExpired(S)))
          /\ WF_vars(VntStep(ReleaseExpired(d)))
    /\ SF_vars(VntStep(RemoveExpired))
    /\ \A q \in Request : SF_vars(WireGuardStep(RequestStep(q)))
    /\ SF_vars(WireGuardStep(HandleRevoke))
    /\ WF_vars(WireGuardStep(HandshakeActivate))

LiveSpec == Init /\ [][Running]_vars /\ Fairness

\* Every management request returns: holding the update lock while waiting for
\* the runtime's acknowledgement never ends in requests, runtime and lock
\* waiting for each other.
RequestsReturn ==
    \A q \in Request : request[q].step # "idle" ~> request[q].step = "idle"

\* A device that goes offline loses its lease in the end unless it comes back,
\* also when the database write of an earlier cleanup pass has failed.
OfflineLeaseReclaimed ==
    \A d \in Device : d \in Offline ~> d \notin Offline

-----------------------------------------------------------------------------
(* What the repository says of itself and the interleavings refute *)

\* network_state_provider.rs:669 says release_pre_registered_ip checks random_id
\* so as not to delete what belongs to other sessions.
PreReleaseSparesOthers ==
    [][\A r \in RandomId :
          /\ UnlinkSender(r) => sender_map[session[r].ip] \in {r, None}
          /\ UnlinkEndpoint(r) => online_endpoints[session[r].ip].owner \in {r, None}]_vars

\* wireguard-module-2-2-ip-management-api.md:27 says a listing, which takes the
\* update lock, never shows a peer with the two addresses of an unfinished move.
ListingShowsOneAddress ==
    update_lock = None =>
        \A a, b \in Assignable :
            wireguard_peer_ip_map[a] # None /\ wireguard_peer_ip_map[a] = wireguard_peer_ip_map[b]
                => a = b

=============================================================================
