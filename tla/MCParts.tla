------------------------------ MODULE MCParts ------------------------------
(***************************************************************************)
(* The parts of the system that are modelled on their own.  They share no  *)
(* state, so each is explored by itself: focus says which one runs, and    *)
(* the others rest in one initial state.                                   *)
(***************************************************************************)
EXTENDS LeaseTable, ClientList, Fec, NetworkRegistry, TLC

VARIABLE focus

\* The library's Vandermonde matrix over GF(2^8), for batches of at most three.
FlagsCancelUpToThree(n, present, i) == n \in {1, 3}

Rests(part, state) == focus = part \/ state

PartsInit ==
    /\ focus \in {"lease", "list", "fec", "registry"}
    /\ LeaseInit
    /\ Rests("lease", /\ device_map = [d \in Device |-> None]
                      /\ wireguard_peer_ip_map = [a \in Assignable |-> None])
    /\ ListInit
    /\ Rests("list", rpc = NoRpc)
    /\ FecInit
    /\ Rests("fec", \A p \in Packet : size[p] = Max(Size))
    /\ RegistryInit
    /\ Rests("registry", ~db_nets /\ device_rows = {})

LeaseActs == focus = "lease" /\ LeaseNext /\ UNCHANGED <<focus, listVars, fecVars, registryVars>>

ListActs == focus = "list" /\ ListNext /\ UNCHANGED <<focus, leaseVars, fecVars, registryVars>>

FecActs == focus = "fec" /\ FecNext /\ UNCHANGED <<focus, leaseVars, listVars, registryVars>>

RegistryActs ==
    focus = "registry" /\ RegistryNext /\ UNCHANGED <<focus, leaseVars, listVars, fecVars>>

PartsNext == LeaseActs \/ ListActs \/ FecActs \/ RegistryActs

PartsSpec == PartsInit /\ [][PartsNext]_<<focus, leaseVars, listVars, fecVars, registryVars>>

\* Nothing tells the addresses in the list, the registering devices or the states apart.
PartsSymmetry == Permutations(ListedIp) \cup Permutations(Client) \cup Permutations(StateId)

-----------------------------------------------------------------------------
\* Every part keeps its types: what it stores fits the bounds that the code sets,
\* the grantable addresses, the channels, the version counter and the batch, and
\* a registration that runs has the state that it has found.
PartsTypeOK == LeaseTypeOK /\ ListTypeOK /\ FecTypeOK /\ RegistryTypeOK

=============================================================================
