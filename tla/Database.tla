------------------------------ MODULE Database ------------------------------
(***************************************************************************)
(* The SQLite tables of one network that decide who owns an address.       *)
(*                                                                         *)
(* ip_allocations holds the addresses of both kinds of owner under         *)
(* UNIQUE(network_code, ip).  Its vnt_device rows are written by triggers  *)
(* inside the statement that changes devices, so they are devices.ip and   *)
(* are not a second variable; ip_allocations below is its wireguard_peer   *)
(* part.  Every action is one statement or one transaction: it happens as  *)
(* a whole or, on a constraint violation or an I/O error, not at all.      *)
(***************************************************************************)
EXTENDS Addressing

VARIABLES
    devices,          \* device -> devices.ip, None for NULL, or NoRow
    wireguard_peers,  \* peer -> "absent", "enabled" or "disabled"
    ip_allocations    \* peer -> its address in ip_allocations, or None

dbVars == <<devices, wireguard_peers, ip_allocations>>

PeerRow == {"absent", "enabled", "disabled"}

DatabaseTypeOK ==
    /\ devices \in DeviceRows
    /\ wireguard_peers \in [Peer -> PeerRow]
    /\ ip_allocations \in PeerRows

DatabaseInit ==
    /\ devices = [d \in Device |-> NoRow]
    /\ wireguard_peers = [p \in Peer |-> "absent"]
    /\ ip_allocations = [p \in Peer |-> None]

-----------------------------------------------------------------------------
(* Devices *)

\* Mutant of CanStoreDevice: unique among the peers only.
CanStoreDeviceOverDevices(d, ip) == ip = None \/ \A p \in Peer : ip_allocations[p] # ip

\* Mutant of CanStoreDevice: unique among the devices only, as before the table
\* ip_allocations.
CanStoreDeviceOverPeers(d, ip) == ip = None \/ \A e \in Device \ {d} : devices[e] # ip

\* The insert in the triggers on devices passes UNIQUE(network_code, ip).
CanStoreDevice(d, ip) ==
    \/ ip = None
    \/ /\ \A e \in Device \ {d} : devices[e] # ip
       /\ \A p \in Peer : ip_allocations[p] # ip

SaveOrUpdateDevice(d, ip) ==
    /\ CanStoreDevice(d, ip)
    /\ devices' = [devices EXCEPT ![d] = ip]
    /\ UNCHANGED <<wireguard_peers, ip_allocations>>

\* UPDATE devices SET ip = NULL: the row stays, a missing row is no error.
ReleaseDeviceIp(d) ==
    /\ devices' = [devices EXCEPT ![d] = IF @ = NoRow THEN NoRow ELSE None]
    /\ UNCHANGED <<wireguard_peers, ip_allocations>>

DeleteDeviceRow(d) ==
    /\ devices' = [devices EXCEPT ![d] = NoRow]
    /\ UNCHANGED <<wireguard_peers, ip_allocations>>

-----------------------------------------------------------------------------
(* WireGuard peers *)

CanStorePeerIp(p, ip) ==
    /\ \A d \in Device : devices[d] # ip
    /\ \A q \in Peer \ {p} : ip_allocations[q] # ip

ReservePeerIpRow(p, ip) ==
    /\ CanStorePeerIp(p, ip)
    /\ ip_allocations' = [ip_allocations EXCEPT ![p] = ip]
    /\ UNCHANGED <<devices, wireguard_peers>>

ReleasePeerIpRow(p) ==
    /\ ip_allocations' = [ip_allocations EXCEPT ![p] = None]
    /\ UNCHANGED <<devices, wireguard_peers>>

InsertPeer(p, enabled) ==
    /\ wireguard_peers[p] = "absent"
    /\ wireguard_peers' = [wireguard_peers EXCEPT ![p] = IF enabled THEN "enabled" ELSE "disabled"]
    /\ UNCHANGED <<devices, ip_allocations>>

\* One transaction: the peer row and its address, a plain INSERT that an
\* address the peer already has makes fail on the primary key.
InsertPeerWithIp(p, ip, enabled) ==
    /\ wireguard_peers[p] = "absent"
    /\ ip_allocations[p] = None
    /\ CanStorePeerIp(p, ip)
    /\ wireguard_peers' = [wireguard_peers EXCEPT ![p] = IF enabled THEN "enabled" ELSE "disabled"]
    /\ ip_allocations' = [ip_allocations EXCEPT ![p] = ip]
    /\ UNCHANGED devices

SetPeerEnabled(p, enabled) ==
    /\ wireguard_peers[p] # "absent"
    /\ wireguard_peers' = [wireguard_peers EXCEPT ![p] = IF enabled THEN "enabled" ELSE "disabled"]
    /\ UNCHANGED <<devices, ip_allocations>>

DeletePeer(p) ==
    /\ wireguard_peers' = [wireguard_peers EXCEPT ![p] = "absent"]
    /\ ip_allocations' = [ip_allocations EXCEPT ![p] = None]
    /\ UNCHANGED devices

\* load_wireguard_runtime_peer_by_public_key: the peer is enabled and has an
\* address.
RuntimePeer(p) == wireguard_peers[p] = "enabled" /\ ip_allocations[p] # None

=============================================================================
