------------------------------ MODULE MCServer ------------------------------
EXTENDS Server, TLC

\* The server without VNT devices, where no session can take a step.
WireGuardSpec == Init /\ [][WireGuardStep(WireGuardNext) \/ Restart]_vars

Symmetry ==
    Permutations(Device) \cup Permutations(Peer) \cup Permutations(RandomId)
        \cup Permutations(Request)

=============================================================================
