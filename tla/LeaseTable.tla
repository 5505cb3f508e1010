----------------------------- MODULE LeaseTable -----------------------------
(***************************************************************************)
(* NetworkStateInner: the address book of one virtual network, the state   *)
(* behind the lease_state mutex of NetworkState.  It says which address    *)
(* every VNT device leases and which address every WireGuard peer has      *)
(* reserved.  Every action below is one critical section of that mutex and *)
(* is atomic because the code never awaits while it holds it.              *)
(*                                                                         *)
(* LeaseSpec is one life of the table with arbitrary callers: it is loaded *)
(* from a database without conflicts, then any critical section runs with  *)
(* any argument, in any order.  What is proved of it holds whatever the    *)
(* callers in ControlSessions and WireGuardPeers do.                       *)
(***************************************************************************)
EXTENDS Addressing

VARIABLES
    device_map,             \* device -> its DeviceEntry, or None
    device_ip_map,          \* address -> the device that leases it, or None
    wireguard_peer_ip_map   \* address -> the peer it is reserved for, or None

leaseVars == <<device_map, device_ip_map, wireguard_peer_ip_map>>

Entry == [ip : Assignable \cup {None},
          random_id : RandomId \cup {NoId},
          is_connected : BOOLEAN]

ASSUME NoneIsNoEntry == None \notin Entry

\* The type invariant: NetworkStateInner holds entries of these shapes.
LeaseTypeOK ==
    /\ device_map \in [Device -> Entry \cup {None}]
    /\ device_ip_map \in [Assignable -> Device \cup {None}]
    /\ wireguard_peer_ip_map \in [Assignable -> Peer \cup {None}]

-----------------------------------------------------------------------------
(* Loading: build_initial_inner_state *)

LoadedDevices(rows) ==
    [d \in Device |-> IF rows[d] = NoRow THEN None
                      ELSE [ip |-> rows[d], random_id |-> NoId, is_connected |-> FALSE]]

LoadedOwners(rows, Owner) ==
    [a \in Assignable |-> IF \E o \in Owner : rows[o] = a
                          THEN CHOOSE o \in Owner : rows[o] = a
                          ELSE None]

\* rows is the devices table, allocations the wireguard_peer rows of
\* ip_allocations; both map an owner to its address, to None or to NoRow.
Loaded(rows, allocations) ==
    /\ device_map = LoadedDevices(rows)
    /\ device_ip_map = LoadedOwners(rows, Device)
    /\ wireguard_peer_ip_map = LoadedOwners(allocations, Peer)

Load(rows, allocations) ==
    /\ device_map' = LoadedDevices(rows)
    /\ device_ip_map' = LoadedOwners(rows, Device)
    /\ wireguard_peer_ip_map' = LoadedOwners(allocations, Peer)

-----------------------------------------------------------------------------
(* Device leases *)

\* Mutant of FreeHosts: the scan forgets the reservations of WireGuard peers.
FreeHostsIgnoringPeers == {a \in Host : device_ip_map[a] = None}

FreeHosts ==
    {a \in Host : device_ip_map[a] = None /\ wireguard_peer_ip_map[a] = None}

\* find_available_ip: the lowest free host, None for "IP exhaustion".
FindAvailableIp ==
    IF FreeHosts = {} THEN None
    ELSE CHOOSE a \in FreeHosts : \A b \in FreeHosts : a <= b

\* The device is known and asks for nothing or for what it has.
Reuses(d, expect) ==
    device_map[d] # None /\ expect \in {None, device_map[d].ip}

\* Mutant of Grantable: the gateway is not refused.
GrantableGateway(expect) ==
    /\ expect \in Net
    /\ \A a \in Assignable :
          a = expect => wireguard_peer_ip_map[a] = None /\ device_ip_map[a] = None

\* The address asked for passes all four refusals of allocate_ip.
Grantable(expect) ==
    /\ expect \in Assignable
    /\ wireguard_peer_ip_map[expect] = None
    /\ device_ip_map[expect] = None

OldIp(d) == IF device_map[d] = None THEN None ELSE device_map[d].ip

\* The address allocate_ip returns, None when it returns an error.
AllocatedIp(d, expect, ip_variable) ==
    IF Reuses(d, expect)
    THEN IF device_map[d].ip # None THEN device_map[d].ip ELSE FindAvailableIp
    ELSE IF Grantable(expect) THEN expect
    ELSE IF expect = None \/ ip_variable THEN FindAvailableIp
    ELSE None

\* The second component of allocate_ip's result: the address given up.
ReplacedIp(d, expect) == IF Reuses(d, expect) THEN None ELSE OldIp(d)

\* Only the branch that grants the requested address takes the device's old
\* address out of device_ip_map; the scan at the end of allocate_ip does not.
LeasedOwners(d, expect, ip) ==
    [a \in Assignable |->
        IF a = ip /\ ~(Reuses(d, expect) /\ device_map[d].ip # None) THEN d
        ELSE IF a = ReplacedIp(d, expect) /\ Grantable(expect) THEN None
        ELSE device_ip_map[a]]

\* Mutant of AllocateIp: a known device keeps the random_id of its first session.
AllocateIpKeepsRandomId(d, random_id, expect, ip_variable) ==
    LET ip == AllocatedIp(d, expect, ip_variable) IN
    /\ ip # None
    /\ device_map' = [device_map EXCEPT ![d] =
                        [ip |-> ip,
                         random_id |-> IF @ = None THEN random_id ELSE @.random_id,
                         is_connected |-> TRUE]]
    /\ device_ip_map' = LeasedOwners(d, expect, ip)
    /\ UNCHANGED wireguard_peer_ip_map

AllocateIp(d, random_id, expect, ip_variable) ==
    LET ip == AllocatedIp(d, expect, ip_variable) IN
    /\ ip # None
    /\ device_map' = [device_map EXCEPT ![d] =
                        [ip |-> ip, random_id |-> random_id, is_connected |-> TRUE]]
    /\ device_ip_map' = LeasedOwners(d, expect, ip)
    /\ UNCHANGED wireguard_peer_ip_map

\* The test that offline_ip and release_pre_registered_ip share: the device's
\* entry still belongs to the session (random_id) that calls.
IsCurrent(d, ip, random_id) ==
    /\ device_map[d] # None
    /\ device_map[d].random_id = random_id
    /\ device_map[d].ip = ip

OfflineIp(d, ip, random_id) ==
    /\ IsCurrent(d, ip, random_id)
    /\ device_map' = [device_map EXCEPT ![d].is_connected = FALSE]
    /\ UNCHANGED <<device_ip_map, wireguard_peer_ip_map>>

\* remove_devices, and with a singleton remove_device_from_memory.
RemoveDevices(S) ==
    /\ device_map' = [d \in Device |-> IF d \in S THEN None ELSE device_map[d]]
    /\ device_ip_map' =
          [a \in Assignable |-> IF \E d \in S : OldIp(d) = a THEN None ELSE device_ip_map[a]]
    /\ UNCHANGED wireguard_peer_ip_map

ReleasePreRegisteredIp(d, ip, random_id) ==
    /\ IsCurrent(d, ip, random_id)
    /\ RemoveDevices({d})

-----------------------------------------------------------------------------
(* WireGuard reservations *)

ReservedIps(p) == {a \in Assignable : wireguard_peer_ip_map[a] = p}

\* What prepare_wireguard_peer_ip_reservation may return as previous_ip: some
\* address of the peer, in the order of a hash map.
PreviousIps(p) == IF ReservedIps(p) = {} THEN {None} ELSE ReservedIps(p)

\* Mutant of CanPrepare: the leases of devices are not looked at.
CanPrepareOverDevices(p, ip) == wireguard_peer_ip_map[ip] \in {None, p}

\* Mutant of CanPrepare: the reservations of other peers are not looked at.
CanPrepareOverPeers(p, ip) == device_ip_map[ip] = None

CanPrepare(p, ip) ==
    /\ device_ip_map[ip] = None
    /\ wireguard_peer_ip_map[ip] \in {None, p}

\* Mutant of PrepareReservation: the old address goes before the outcome is known.
PrepareReservationMoves(p, ip) ==
    /\ CanPrepare(p, ip)
    /\ wireguard_peer_ip_map' =
          [a \in Assignable |-> IF a = ip THEN p
                                ELSE IF wireguard_peer_ip_map[a] = p THEN None
                                ELSE wireguard_peer_ip_map[a]]
    /\ UNCHANGED <<device_map, device_ip_map>>

PrepareReservation(p, ip) ==
    /\ CanPrepare(p, ip)
    /\ wireguard_peer_ip_map' = [wireguard_peer_ip_map EXCEPT ![ip] = p]
    /\ UNCHANGED <<device_map, device_ip_map>>

\* The peer gives up one address, if that is the address of the peer.
DropReservation(p, ip) ==
    /\ wireguard_peer_ip_map' =
          [a \in Assignable |-> IF a = ip /\ wireguard_peer_ip_map[a] = p THEN None
                                ELSE wireguard_peer_ip_map[a]]
    /\ UNCHANGED <<device_map, device_ip_map>>

CommitReservation(p, ip, previous_ip) ==
    IF previous_ip # ip THEN DropReservation(p, previous_ip) ELSE UNCHANGED leaseVars

\* Mutant of RollbackReservation: only a move is undone, not a first reservation.
RollbackMovesOnly(p, ip, previous_ip) ==
    IF previous_ip \notin {None, ip} THEN DropReservation(p, ip) ELSE UNCHANGED leaseVars

RollbackReservation(p, ip, previous_ip) ==
    IF previous_ip # ip THEN DropReservation(p, ip) ELSE UNCHANGED leaseVars

ReleaseReservation(p) ==
    /\ wireguard_peer_ip_map' =
          [a \in Assignable |-> IF wireguard_peer_ip_map[a] = p THEN None
                                ELSE wireguard_peer_ip_map[a]]
    /\ UNCHANGED <<device_map, device_ip_map>>

-----------------------------------------------------------------------------
(* Any caller, any argument, any order *)

LeaseInit ==
    \E rows \in DeviceRows, allocations \in PeerRows :
        UniqueAllocations(rows, allocations) /\ Loaded(rows, allocations)

DeviceStep(d) ==
    \/ \E r \in RandomId, expect \in Requested, v \in BOOLEAN : AllocateIp(d, r, expect, v)
    \/ \E r \in RandomId \cup {NoId}, ip \in Assignable :
          OfflineIp(d, ip, r) \/ ReleasePreRegisteredIp(d, ip, r)

PeerStep(p) ==
    \/ \E ip \in Assignable : PrepareReservation(p, ip)
    \/ \E ip \in Assignable : DropReservation(p, ip)
    \/ ReleaseReservation(p)

LeaseNext ==
    \/ \E d \in Device : DeviceStep(d)
    \/ \E S \in SUBSET Device : RemoveDevices(S)
    \/ \E p \in Peer : PeerStep(p)

LeaseSpec == LeaseInit /\ [][LeaseNext]_leaseVars

-----------------------------------------------------------------------------
(* Properties *)

\* No address is leased to a device and reserved for a WireGuard peer at once,
\* and every device that holds a lease is the recorded owner of its address, so
\* no two devices lease the same one: what allocate_ip and
\* prepare_wireguard_peer_ip_reservation check before they hand out an address.
AddressExclusive ==
    /\ \A a \in Assignable : device_ip_map[a] = None \/ wireguard_peer_ip_map[a] = None
    /\ \A d \in Device : OldIp(d) # None => device_ip_map[OldIp(d)] = d

\* The owner of an address, of either kind.
OwnerOf(a) ==
    IF device_ip_map[a] # None THEN device_ip_map[a] ELSE wireguard_peer_ip_map[a]

Ownership == INSTANCE AddressOwnership
    WITH Address <- Assignable, Owner <- Device \cup Peer, Nobody <- None,
         owner <- [a \in Assignable |-> OwnerOf(a)]

\* The table implements AddressOwnership: no critical section hands an address
\* of one device or peer to another one without giving it back in between.
ImplementsOwnership == Ownership!Spec

=============================================================================
