----------------------------- MODULE Addressing -----------------------------
(***************************************************************************)
(* The constants of one virtual network and its address space, shared by   *)
(* the in-memory address book (LeaseTable) and the tables (Database).      *)
(*                                                                         *)
(* An address is its offset in the network: 0 is the network address, 1    *)
(* the gateway (new_from_db), 2..LastHost the hosts that the scan may hand *)
(* out and LastHost + 1 the broadcast address.                             *)
(***************************************************************************)
EXTENDS Naturals

CONSTANTS
    Device,     \* device_id values
    Peer,       \* WireGuard peer_id values
    RandomId,   \* the random_id values drawn by register, one per session
    NoId,       \* the random_id of an entry loaded from the database
    None,       \* Option::None
    NoRow,      \* no row in the devices table
    LastHost    \* the last host address of the network

Network == 0
Gateway == 1
Broadcast == LastHost + 1
Net == Network .. Broadcast
Host == (Network + 1 .. LastHost) \ {Gateway}

\* What a caller may ask for and get: net.contains(ip) and ip # gateway.
Assignable == Net \ {Gateway}

\* Anything a registration may carry in reg_req.ip; LastHost + 2 stands for
\* every address outside the network.
Outside == LastHost + 2
Requested == Net \cup {Outside, None}

ASSUME LeaseConstants ==
    /\ LastHost \in Nat
    /\ LastHost >= 2
    /\ None \notin Nat \cup Device \cup Peer \cup RandomId \cup {NoRow}
    /\ NoRow \notin Nat
    /\ NoId \notin RandomId

\* UNIQUE(network_code, ip) on ip_allocations: no address has two owners.
UniqueAllocations(rows, allocations) ==
    /\ \A d, e \in Device : rows[d] = rows[e] /\ rows[d] \in Assignable => d = e
    /\ \A p, q \in Peer :
          allocations[p] = allocations[q] /\ allocations[p] \in Assignable => p = q
    /\ \A d \in Device, p \in Peer : rows[d] = allocations[p] => rows[d] \notin Assignable

DeviceRows == [Device -> Assignable \cup {None, NoRow}]
PeerRows == [Peer -> Assignable \cup {None}]

=============================================================================
