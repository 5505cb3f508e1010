----------------------------- MODULE MCRestarts -----------------------------
(***************************************************************************)
(* Either half of the server by itself, with a process that may restart    *)
(* and fail to read its tables: the VNT sessions without WireGuard peers,  *)
(* or the management of WireGuard peers without VNT devices.  half says    *)
(* which.                                                                  *)
(***************************************************************************)
EXTENDS Server, TLC

VARIABLE half

HalfInit == half \in {"vnt", "wireguard"} /\ Init

HalfNext ==
    /\ \/ half = "vnt" /\ VntStep(SessionsNext)
       \/ half = "wireguard" /\ WireGuardStep(WireGuardNext)
       \/ Restart
    /\ UNCHANGED half

HalfSpec == HalfInit /\ [][HalfNext]_<<vars, half>>

Symmetry ==
    Permutations(Device) \cup Permutations(RandomId) \cup Permutations(Request)

=============================================================================
