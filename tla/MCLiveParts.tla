---------------------------- MODULE MCLiveParts ----------------------------
(***************************************************************************)
(* What must happen in the end: the cluster leases, the client's list and  *)
(* the loop of a peer connection run one at a time, as focus says; the     *)
(* others rest in their initial states, where no action is enabled that    *)
(* their fairness is about.                                                *)
(***************************************************************************)
EXTENDS ClusterLease, ClientList, PeerLoop, TLC

VARIABLE focus

LivePartsInit ==
    /\ focus \in {"cluster", "list", "loop"}
    /\ ClusterInit
    /\ ListInit
    /\ focus # "list" => rpc = NoRpc
    /\ LoopInit

\* Registrations and reconciliations leave a request to the renewals.
SparesOne ==
    (\E i \in RequestId : call[i] = Null /\ call'[i] # Null /\ call'[i].op # "renew")
        => \E i \in RequestId : call'[i] = Null

ClusterActs ==
    /\ focus = "cluster"
    /\ ClusterNext
    /\ SparesOne
    /\ UNCHANGED <<focus, listVars, loopVars>>

ListActs == focus = "list" /\ ListNext /\ UNCHANGED <<focus, clusterVars, loopVars>>

LoopActs == focus = "loop" /\ LoopNext /\ UNCHANGED <<focus, clusterVars, listVars>>

LivePartsSpec ==
    /\ LivePartsInit
    /\ [][ClusterActs \/ ListActs \/ LoopActs]_<<focus, clusterVars, listVars, loopVars>>
    /\ ClusterFairness
    /\ ListFairness
    /\ LoopFairness

=============================================================================
