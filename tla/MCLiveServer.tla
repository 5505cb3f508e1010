---------------------------- MODULE MCLiveServer ----------------------------
(***************************************************************************)
(* What must happen in the end: in the VNT sessions, in the management of  *)
(* WireGuard peers with requests that run to their end, and in the         *)
(* management with requests that may be dropped and leave revocations in   *)
(* the command channel.  half says which.                                  *)
(***************************************************************************)
EXTENDS Server, TLC

VARIABLE half

\* Bounds: which operations there are (create_with_ip is create_auto with an
\* address of the caller's choice), and one request at a time.
Only(Ops) == \A q \in Request : request'[q].op \in Ops
OneByOne == \E q \in Request : \A o \in Request \ {q} : request'[o] = NoRequest

HalfLiveSpec ==
    /\ half \in {"vnt", "wireguard", "dropping"}
    /\ Init
    /\ [][/\ \/ half = "vnt" /\ VntStep(SessionsNext)
             \/ /\ half = "wireguard"
                /\ WireGuardStep(WireGuardRuns)
                /\ Only(Operation \ {"create_with_ip"})
             \/ /\ half = "dropping"
                /\ WireGuardStep(WireGuardNext)
                /\ OneByOne
                /\ Only(Operation \ {"create_with_ip", "reserve"})
          /\ UNCHANGED half]_<<vars, half>>
    /\ Fairness

=============================================================================
