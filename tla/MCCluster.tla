----------------------------- MODULE MCCluster -----------------------------
(***************************************************************************)
(* What the servers of a cluster do with each other: the leases they share *)
(* (an authority and one member), the connections of one server to its     *)
(* peers, and a broadcast that is flooded over three servers.  The three   *)
(* models share no state; focus says which of them runs, and the others    *)
(* rest in one initial state.                                              *)
(***************************************************************************)
EXTENDS ClusterLease, PeerLinks, BroadcastFlood, TLC

VARIABLE focus

Rests(part, state) == focus = part \/ state

ServersInit ==
    /\ focus \in {"leases", "peers", "flood"}
    /\ ClusterInit
    /\ PeerInit
    /\ Rests("peers", peer_table = {})
    /\ FloodInit
    /\ Rests("flood", /\ origin = CHOOSE r \in Relay : TRUE
                      /\ \A l \in LinkId : ends[l] = Relay \ {origin})

LeasesAct == focus = "leases" /\ ClusterNext /\ UNCHANGED <<focus, peerVars, floodVars>>

PeersAct == focus = "peers" /\ PeerNext /\ UNCHANGED <<focus, clusterVars, floodVars>>

FloodActs == focus = "flood" /\ FloodNext /\ UNCHANGED <<focus, clusterVars, peerVars>>

ServersNext == LeasesAct \/ PeersAct \/ FloodActs

ServersSpec == ServersInit /\ [][ServersNext]_<<focus, clusterVars, peerVars, floodVars>>

\* Every part keeps its types, among them that an address has at most
\* MAX_ROUTES_PER_IP routes and that no lease ages below zero.
ServersTypeOK == ClusterTypeOK /\ PeerTypeOK /\ FloodTypeOK

Symmetry == Permutations(RequestId) \cup Permutations(InfoId)

=============================================================================
