------------------------------ MODULE MCWhole -------------------------------
(***************************************************************************)
(* The whole server with requests that run to their end, or WireGuard      *)
(* management by itself with requests that may be dropped at any await.    *)
(* part says which.                                                        *)
(***************************************************************************)
EXTENDS Server, TLC

VARIABLE part

PartInit == part \in {"whole", "dropping"} /\ Init

PartNext ==
    /\ \/ part = "whole" /\ (VntStep(SessionsNext) \/ WireGuardStep(WireGuardRuns))
       \/ part = "dropping" /\ WireGuardStep(WireGuardNext)
       \/ Restart
    /\ UNCHANGED part

PartSpec == PartInit /\ [][PartNext]_<<vars, part>>

=============================================================================
