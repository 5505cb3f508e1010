---------------------------- MODULE NetworkState ----------------------------
(***************************************************************************)
(* NetworkState: the address book of a network (LeaseTable) and the two    *)
(* concurrent maps beside it that the data path reads without its mutex,   *)
(* sender_map (where a packet for an address is sent) and online_endpoints *)
(* (what kind of endpoint has the address, and whether it is confirmed).   *)
(* The operators below are the ones that change the two maps.              *)
(*                                                                         *)
(* An owner gets its entries one by one, first the sender and then the     *)
(* endpoint, and the data path may look between the two; attaching says    *)
(* who is there, and holds the lease_state mutex meanwhile.  The other     *)
(* critical sections run when nobody does.  Two entries that are removed   *)
(* under the mutex go in one step: an address with an endpoint and without *)
(* a sender is to a reader what an address without both is.                *)
(***************************************************************************)
EXTENDS LeaseTable

VARIABLES
    sender_map,        \* address -> the session or peer that receives, or None
    online_endpoints,  \* address -> its OnlineEndpoint
    attaching          \* who has inserted its sender and not yet its endpoint

endpointVars == <<sender_map, online_endpoints, attaching>>

\* The owner of a channel: a VNT session, by its random_id, or a peer.
Owner == RandomId \cup Peer \cup {None}
Endpoint == [owner : Owner, confirmed : BOOLEAN]

ASSUME SessionsAreNotPeers == RandomId \cap Peer = {}

NoEndpoint == [owner |-> None, confirmed |-> FALSE]
NotAttaching == [owner |-> None, ip |-> None]

EndpointTypeOK ==
    /\ sender_map \in [Assignable -> Owner]
    /\ online_endpoints \in [Assignable -> Endpoint]
    /\ attaching \in [owner : RandomId \cup Peer, ip : Assignable] \cup {NotAttaching}

NoEndpoints ==
    /\ sender_map = [a \in Assignable |-> None]
    /\ online_endpoints = [a \in Assignable |-> NoEndpoint]
    /\ attaching = NotAttaching

\* Nobody keeps the lease_state mutex between two steps.
LeaseStateFree == attaching = NotAttaching

\* sender_map.remove(ip) and online_endpoints.remove(ip); None removes nothing.
Detach(ip) ==
    /\ sender_map' = [a \in Assignable |-> IF a = ip THEN None ELSE sender_map[a]]
    /\ online_endpoints' =
          [a \in Assignable |-> IF a = ip THEN NoEndpoint ELSE online_endpoints[a]]
    /\ UNCHANGED attaching

\* Mutant of AttachSender: a sender that is there already is kept.
AttachSenderIfNone(ip, old_ip, owner) ==
    /\ attaching' = [owner |-> owner, ip |-> ip]
    /\ sender_map' = [a \in Assignable |->
                        IF a = ip /\ sender_map[a] = None THEN owner
                        ELSE IF a = old_ip THEN None ELSE sender_map[a]]
    /\ online_endpoints' =
          [a \in Assignable |-> IF a = old_ip THEN NoEndpoint ELSE online_endpoints[a]]

\* Detach the address given up, then sender_map.insert(ip).
AttachSender(ip, old_ip, owner) ==
    /\ attaching' = [owner |-> owner, ip |-> ip]
    /\ sender_map' = [a \in Assignable |-> IF a = ip THEN owner
                                           ELSE IF a = old_ip THEN None ELSE sender_map[a]]
    /\ online_endpoints' =
          [a \in Assignable |-> IF a = old_ip THEN NoEndpoint ELSE online_endpoints[a]]

\* online_endpoints.insert(ip), at the end of the critical section.
AttachEndpoint(confirmed) ==
    /\ online_endpoints' = [online_endpoints EXCEPT ![attaching.ip] =
                              [owner |-> attaching.owner, confirmed |-> confirmed]]
    /\ attaching' = NotAttaching
    /\ UNCHANGED sender_map

\* Mutant of ConfirmEndpoint: whoever has the address is confirmed.
ConfirmAnyEndpoint(ip, random_id) ==
    /\ online_endpoints' =
          [online_endpoints EXCEPT ![ip].confirmed = online_endpoints[ip].owner # None]
    /\ UNCHANGED <<sender_map, attaching>>

\* The end of confirm_registration: only the endpoint of this very session.
ConfirmEndpoint(ip, random_id) ==
    /\ online_endpoints' =
          [online_endpoints EXCEPT ![ip].confirmed = @ \/ online_endpoints[ip].owner = random_id]
    /\ UNCHANGED <<sender_map, attaching>>

\* The test of connect_wireguard_peer.
CanConnectPeer(p, ip) ==
    /\ wireguard_peer_ip_map[ip] = p
    /\ sender_map[ip] = None
    /\ online_endpoints[ip] = NoEndpoint

\* Mutant of DisconnectWireGuardPeer: it asks the address book whose address it is.
DisconnectReserved(p, ip) ==
    /\ LeaseStateFree
    /\ IF wireguard_peer_ip_map[ip] = p THEN Detach(ip) ELSE UNCHANGED endpointVars

\* disconnect_wireguard_peer: only if the endpoint still is this peer's.
DisconnectWireGuardPeer(p, ip) ==
    /\ LeaseStateFree
    /\ IF online_endpoints[ip].owner = p THEN Detach(ip) ELSE UNCHANGED endpointVars

=============================================================================
