---------------------------- MODULE ServerProofs ----------------------------
(***************************************************************************)
(* Proofs about the address book and about the whole server, for every     *)
(* network size and every number of devices, peers, sessions and requests. *)
(*                                                                         *)
(* The address book by itself comes first.  AddressExclusive together with *)
(* the type invariant is inductive: each critical section of               *)
(* NetworkStateInner keeps it by itself (the ...Keeps lemmas), so that it  *)
(* holds whatever the callers do between their critical sections.  The two *)
(* other stores follow: every statement on the tables of the database      *)
(* keeps ip_allocations free of conflicts, one lemma per statement that    *)
(* db.rs issues, and the maps of the data path keep their type, one lemma  *)
(* per operation that both sides use.                                      *)
(*                                                                         *)
(* In the server every step of a running process does to the address book  *)
(* what one critical section of LeaseTable does, or nothing, and to the    *)
(* tables what one statement does, or nothing, so that the first part      *)
(* applies; a restart builds the address book from tables without          *)
(* conflicts.  The lemmas about the WireGuard side (WireGuardPeers) come   *)
(* before those about the VNT side (ControlSessions), and the last part    *)
(* puts the two together.                                                  *)
(***************************************************************************)
EXTENDS Server, WellFoundedInduction, TLAPS

-----------------------------------------------------------------------------
(* Addresses *)

\* Hosts are addresses a caller may get, and neither None nor NoRow is one.
LEMMA AddressFacts ==
    /\ Assignable \subseteq Nat
    /\ Host \subseteq Assignable
    /\ None \notin Assignable
    /\ NoRow \notin Assignable
BY LeaseConstants DEF Assignable, Net, Host, Network, Broadcast, Gateway

\* The scan of find_available_ip has a first hit whenever it has one at all.
LEMMA LeastElement ==
    ASSUME NEW S, S \subseteq Nat, S # {}
    PROVE  \E a \in S : \A b \in S : a <= b
<1> DEFINE R == OpToRel(<, Nat)
<1>1. IsWellFoundedOn(R, Nat)
  BY NatLessThanWellFounded, Zenon
<1>2. \A x, y \in Nat : y < x => <<y, x>> \in R
  BY DEF OpToRel
<1> HIDE DEF R
<1>3. PICK x \in S : \A y \in S : <<y, x>> \notin R
  BY <1>1, WFMin, Zenon
<1>4. \A y \in S : x <= y
  <2> TAKE y \in S
  <2>1. x \in Nat /\ y \in Nat
    OBVIOUS
  <2>2. ~(y < x)
    BY <1>2, <1>3, <2>1, Zenon
  <2>3. QED
    BY <2>1, <2>2
<1>5. QED
  BY <1>4

\* find_available_ip fails or returns an address that nobody has.
LEMMA FindAvailableIpIsFree ==
    ASSUME FindAvailableIp # None
    PROVE  FindAvailableIp \in FreeHosts
<1>1. FreeHosts \subseteq Nat
  BY AddressFacts, Zenon DEF FreeHosts
<1>2. FreeHosts # {}
  BY DEF FindAvailableIp
<1>3. \E a \in FreeHosts : \A b \in FreeHosts : a <= b
  BY <1>1, <1>2, LeastElement, Zenon
<1>4. QED
  BY <1>2, <1>3 DEF FindAvailableIp

-----------------------------------------------------------------------------
(* The inductive invariant *)

LeaseInv == LeaseTypeOK /\ AddressExclusive

\* build_initial_inner_state: tables without a conflict give each row's owner
\* its address, and nobody else.
LEMMA LoadedFacts ==
    ASSUME NEW rows \in DeviceRows, NEW allocations \in PeerRows,
           UniqueAllocations(rows, allocations)
    PROVE  /\ LoadedDevices(rows) \in [Device -> Entry \cup {None}]
           /\ LoadedOwners(rows, Device) \in [Assignable -> Device \cup {None}]
           /\ LoadedOwners(allocations, Peer) \in [Assignable -> Peer \cup {None}]
           /\ \A a \in Assignable : \/ LoadedOwners(rows, Device)[a] = None
                                    \/ LoadedOwners(allocations, Peer)[a] = None
           /\ \A d \in Device :
                 rows[d] \in Assignable => LoadedOwners(rows, Device)[rows[d]] = d
           /\ \A d \in Device :
                 LoadedDevices(rows)[d] # None => /\ LoadedDevices(rows)[d].ip = rows[d]
                                                  /\ rows[d] \in Assignable \cup {None}
<1> USE LeaseConstants, NoneIsNoEntry, AddressFacts
<1>1. LoadedDevices(rows) \in [Device -> Entry \cup {None}]
  BY DEF LoadedDevices, DeviceRows, Entry
<1>2. \A d \in Device : rows[d] = NoRow => LoadedDevices(rows)[d] = None
  BY DEF LoadedDevices
<1>3. \A d \in Device : LoadedDevices(rows)[d] # None =>
            LoadedDevices(rows)[d].ip = rows[d] /\ rows[d] \in Assignable \cup {None}
  BY <1>2 DEF LoadedDevices, DeviceRows
<1>4. LoadedOwners(rows, Device) \in [Assignable -> Device \cup {None}]
  BY Zenon DEF LoadedOwners
<1>5. LoadedOwners(allocations, Peer) \in [Assignable -> Peer \cup {None}]
  BY DEF LoadedOwners
<1>6. \A a \in Assignable : LoadedOwners(rows, Device)[a] # None =>
            \E d \in Device : rows[d] = a
  BY DEF LoadedOwners
<1>7. \A a \in Assignable : LoadedOwners(allocations, Peer)[a] # None =>
            \E p \in Peer : allocations[p] = a
  BY DEF LoadedOwners
<1>8. \A a \in Assignable : \/ LoadedOwners(rows, Device)[a] = None
                            \/ LoadedOwners(allocations, Peer)[a] = None
  BY <1>6, <1>7 DEF UniqueAllocations
<1>9. ASSUME NEW d \in Device, rows[d] \in Assignable
      PROVE  LoadedOwners(rows, Device)[rows[d]] = d
  <2> DEFINE o == CHOOSE e \in Device : rows[e] = rows[d]
  <2>1. o \in Device /\ rows[o] = rows[d]
    OBVIOUS
  <2>2. o = d
    BY <1>9, <2>1 DEF UniqueAllocations
  <2>3. LoadedOwners(rows, Device)[rows[d]] = o
    BY <1>9 DEF LoadedOwners
  <2>4. QED
    BY <2>2, <2>3
<1>10. QED
  BY <1>1, <1>3, <1>4, <1>5, <1>8, <1>9

\* The address book of a process that has just started is free of conflicts.
LEMMA LoadedIsExclusive ==
    ASSUME NEW rows \in DeviceRows, NEW allocations \in PeerRows,
           UniqueAllocations(rows, allocations), Loaded(rows, allocations)
    PROVE  LeaseInv
BY LoadedFacts, LeaseConstants, AddressFacts
   DEF LeaseInv, LeaseTypeOK, AddressExclusive, Loaded, OldIp

LEMMA LoadGivesExclusive ==
    ASSUME NEW rows \in DeviceRows, NEW allocations \in PeerRows,
           UniqueAllocations(rows, allocations), Load(rows, allocations)
    PROVE  LeaseInv'
BY LoadedFacts, LeaseConstants, AddressFacts
   DEF LeaseInv, LeaseTypeOK, AddressExclusive, Load, OldIp

-----------------------------------------------------------------------------
(* One lemma per critical section *)

\* What allocate_ip hands out is an address the network may assign, and it is
\* either the device's own or one that nobody has.
LEMMA AllocatedIpIsOwnOrFree ==
    ASSUME LeaseInv, NEW d \in Device, NEW expect, NEW v \in BOOLEAN,
           AllocatedIp(d, expect, v) # None
    PROVE  /\ AllocatedIp(d, expect, v) \in Assignable
           /\ \/ /\ Reuses(d, expect)
                 /\ device_map[d].ip # None
                 /\ AllocatedIp(d, expect, v) = device_map[d].ip
              \/ /\ ~(Reuses(d, expect) /\ device_map[d].ip # None)
                 /\ device_ip_map[AllocatedIp(d, expect, v)] = None
                 /\ wireguard_peer_ip_map[AllocatedIp(d, expect, v)] = None
<1> USE AddressFacts DEF AllocatedIp
<1>1. CASE Reuses(d, expect) /\ device_map[d].ip # None
  BY <1>1 DEF Reuses, LeaseInv, LeaseTypeOK, Entry
<1>2. CASE ~Reuses(d, expect) /\ Grantable(expect)
  BY <1>2 DEF Grantable
<1>3. CASE /\ ~(Reuses(d, expect) /\ device_map[d].ip # None)
           /\ ~(~Reuses(d, expect) /\ Grantable(expect))
  <2>1. AllocatedIp(d, expect, v) = FindAvailableIp
    BY <1>3
  <2>2. FindAvailableIp \in FreeHosts
    BY <2>1, FindAvailableIpIsFree
  <2>3. QED
    BY <1>3, <2>1, <2>2 DEF FreeHosts
<1>4. QED
  BY <1>1, <1>2, <1>3, Zenon

LEMMA AllocateIpKeeps ==
    ASSUME LeaseInv, NEW d \in Device, NEW r \in RandomId, NEW expect, NEW v \in BOOLEAN,
           AllocateIp(d, r, expect, v)
    PROVE  LeaseInv'
<1> DEFINE ip == AllocatedIp(d, expect, v)
           own == Reuses(d, expect) /\ device_map[d].ip # None
           given == ReplacedIp(d, expect)
<1>1. /\ ip \in Assignable
      /\ \/ own /\ ip = device_map[d].ip
         \/ ~own /\ device_ip_map[ip] = None /\ wireguard_peer_ip_map[ip] = None
  BY AllocatedIpIsOwnOrFree DEF AllocateIp
<1>2. given = None \/ given = OldIp(d)
  BY DEF ReplacedIp
<1>3. /\ device_map' = [device_map EXCEPT ![d] =
                          [ip |-> ip, random_id |-> r, is_connected |-> TRUE]]
      /\ device_ip_map' = [a \in Assignable |->
                             IF a = ip /\ ~own THEN d
                             ELSE IF a = given /\ Grantable(expect) THEN None
                             ELSE device_ip_map[a]]
      /\ wireguard_peer_ip_map' = wireguard_peer_ip_map
  BY DEF AllocateIp, LeasedOwners
<1>4. own => given = None
  BY DEF ReplacedIp
<1>5. /\ device_map \in [Device -> Entry \cup {None}]
      /\ device_ip_map \in [Assignable -> Device \cup {None}]
      /\ wireguard_peer_ip_map \in [Assignable -> Peer \cup {None}]
  BY DEF LeaseInv, LeaseTypeOK
<1>6. /\ \A a \in Assignable : device_ip_map[a] = None \/ wireguard_peer_ip_map[a] = None
      /\ \A e \in Device : OldIp(e) # None => device_ip_map[OldIp(e)] = e
  BY DEF LeaseInv, AddressExclusive
<1> HIDE DEF ip, own, given
<1>7. LeaseTypeOK'
  BY <1>1, <1>3, <1>5 DEF LeaseTypeOK, Entry
<1>8. \A a \in Assignable : device_ip_map'[a] = None \/ wireguard_peer_ip_map'[a] = None
  BY <1>1, <1>3, <1>6
<1>9. ASSUME NEW e \in Device, OldIp(e)' # None
      PROVE  device_ip_map'[OldIp(e)'] = e
  <2>1. CASE e = d
    <3>1. OldIp(e)' = ip
      <4> DEFINE entry == [ip |-> ip, random_id |-> r, is_connected |-> TRUE]
      <4>1. device_map'[d] = entry
        BY <1>3, <1>5
      <4>2. entry \in Entry
        BY <1>1 DEF Entry
      <4>3. entry.ip = ip /\ entry # None
        BY <4>2, NoneIsNoEntry, Zenon
      <4> HIDE DEF entry
      <4>4. QED
        BY <2>1, <4>1, <4>3 DEF OldIp
    <3>2. CASE own
      <4>1. OldIp(d) = ip
        BY <1>1, <3>2 DEF OldIp, own, Reuses
      <4>2. device_ip_map'[ip] = device_ip_map[ip]
        BY <1>1, <1>3, <1>4, <3>2, AddressFacts
      <4>3. QED
        BY <1>1, <1>6, <2>1, <3>1, <4>1, <4>2, AddressFacts
    <3>3. CASE ~own
      BY <1>1, <1>3, <2>1, <3>1, <3>3
    <3>4. QED
      BY <3>2, <3>3
  <2>2. CASE e # d
    <3>1. OldIp(e)' = OldIp(e)
      BY <1>3, <1>5, <2>2 DEF OldIp
    <3>2. device_ip_map[OldIp(e)] = e /\ OldIp(e) \in Assignable
      BY <1>5, <1>6, <1>9, <3>1 DEF OldIp, Entry
    <3>3. OldIp(e) # given
      BY <1>2, <1>6, <2>2, <3>2, AddressFacts
    <3>4. ~own => OldIp(e) # ip
      BY <1>1, <3>2, LeaseConstants
    <3>5. QED
      BY <1>3, <3>1, <3>2, <3>3, <3>4
  <2>3. QED
    BY <2>1, <2>2
<1>10. QED
  BY <1>7, <1>8, <1>9 DEF LeaseInv, AddressExclusive

LEMMA OfflineIpKeeps ==
    ASSUME LeaseInv, NEW d \in Device, NEW r, NEW ip, OfflineIp(d, ip, r)
    PROVE  LeaseInv'
<1>1. device_map[d] \in Entry
  BY DEF LeaseInv, LeaseTypeOK, OfflineIp, IsCurrent
<1>2. LeaseTypeOK'
  BY <1>1, Zenon DEF LeaseInv, LeaseTypeOK, OfflineIp, Entry
<1>3. \A e \in Device : OldIp(e)' = OldIp(e)
  BY <1>1, NoneIsNoEntry, Zenon DEF LeaseInv, LeaseTypeOK, OfflineIp, OldIp, Entry
<1>4. QED
  BY <1>2, <1>3 DEF LeaseInv, AddressExclusive, OfflineIp

LEMMA RemoveDevicesKeeps ==
    ASSUME LeaseInv, NEW S \in SUBSET Device, RemoveDevices(S)
    PROVE  LeaseInv'
<1> USE LeaseConstants, AddressFacts
<1>1. LeaseTypeOK'
  BY DEF LeaseInv, LeaseTypeOK, RemoveDevices
<1>2. \A a \in Assignable : device_ip_map'[a] = None \/ wireguard_peer_ip_map'[a] = None
  BY DEF LeaseInv, AddressExclusive, RemoveDevices
<1>3. ASSUME NEW e \in Device, OldIp(e)' # None
      PROVE  device_ip_map'[OldIp(e)'] = e
  <2>1. e \notin S /\ OldIp(e)' = OldIp(e)
    BY <1>3 DEF RemoveDevices, OldIp
  <2>2. OldIp(e) \in Assignable /\ device_ip_map[OldIp(e)] = e
    BY <1>3, <2>1 DEF LeaseInv, LeaseTypeOK, AddressExclusive, OldIp, Entry
  <2>3. \A d \in S : OldIp(d) # OldIp(e)
    BY <2>1, <2>2 DEF LeaseInv, AddressExclusive
  <2>4. QED
    BY <2>1, <2>2, <2>3 DEF RemoveDevices
<1>4. QED
  BY <1>1, <1>2, <1>3 DEF LeaseInv, AddressExclusive

LEMMA PrepareReservationKeeps ==
    ASSUME LeaseInv, NEW p \in Peer, NEW ip \in Assignable, PrepareReservation(p, ip)
    PROVE  LeaseInv'
BY DEF LeaseInv, LeaseTypeOK, AddressExclusive, OldIp, PrepareReservation, CanPrepare

LEMMA DropReservationKeeps ==
    ASSUME LeaseInv, NEW p, NEW ip, DropReservation(p, ip)
    PROVE  LeaseInv'
BY DEF LeaseInv, LeaseTypeOK, AddressExclusive, OldIp, DropReservation

LEMMA ReleaseReservationKeeps ==
    ASSUME LeaseInv, NEW p, ReleaseReservation(p)
    PROVE  LeaseInv'
BY DEF LeaseInv, LeaseTypeOK, AddressExclusive, OldIp, ReleaseReservation

-----------------------------------------------------------------------------
(* Theorems *)

LEMMA LeaseInitInv == LeaseInit => LeaseInv
BY LoadedIsExclusive DEF LeaseInit

LEMMA LeaseNextKeeps == LeaseInv /\ [LeaseNext]_leaseVars => LeaseInv'
<1> SUFFICES ASSUME LeaseInv, [LeaseNext]_leaseVars
             PROVE  LeaseInv'
  OBVIOUS
<1>1. ASSUME NEW d \in Device, NEW r \in RandomId, NEW expect \in Requested,
             NEW v \in BOOLEAN, AllocateIp(d, r, expect, v)
      PROVE  LeaseInv'
  BY <1>1, AllocateIpKeeps
<1>2. ASSUME NEW d \in Device, NEW r \in RandomId \cup {NoId}, NEW ip \in Assignable,
             OfflineIp(d, ip, r)
      PROVE  LeaseInv'
  BY <1>2, OfflineIpKeeps
<1>3. ASSUME NEW S \in SUBSET Device, RemoveDevices(S)
      PROVE  LeaseInv'
  BY <1>3, RemoveDevicesKeeps
<1>4. ASSUME NEW d \in Device, NEW r \in RandomId \cup {NoId}, NEW ip \in Assignable,
             ReleasePreRegisteredIp(d, ip, r)
      PROVE  LeaseInv'
  BY <1>3, <1>4 DEF ReleasePreRegisteredIp
<1>5. ASSUME NEW p \in Peer, PeerStep(p)
      PROVE  LeaseInv'
  BY <1>5, PrepareReservationKeeps, DropReservationKeeps, ReleaseReservationKeeps DEF PeerStep
<1>6. CASE UNCHANGED leaseVars
  BY <1>6 DEF leaseVars, LeaseInv, LeaseTypeOK, AddressExclusive, OldIp
<1>7. QED
  BY <1>1, <1>2, <1>3, <1>4, <1>5, <1>6 DEF LeaseNext, DeviceStep

LEMMA LeaseInvHolds == LeaseSpec => []LeaseInv
BY LeaseInitInv, LeaseNextKeeps, PTL DEF LeaseSpec

\* NetworkStateInner keeps its shape whatever its callers do.
THEOREM LeaseTypeCorrect == LeaseSpec => []LeaseTypeOK
<1>1. LeaseInv => LeaseTypeOK
  BY DEF LeaseInv
<1>2. QED
  BY LeaseInvHolds, <1>1, PTL

\* No sequence of critical sections on lease_state gives one address to a device
\* and a WireGuard peer, or to two devices.
THEOREM LeaseExclusive == LeaseSpec => []AddressExclusive
<1>1. LeaseInv => AddressExclusive
  BY DEF LeaseInv
<1>2. QED
  BY LeaseInvHolds, <1>1, PTL

-----------------------------------------------------------------------------
(* Refinement: a critical section gives addresses back, and at most one     *)
(* address that was free gets an owner.                                     *)

GivesBack(a) == OwnerOf(a)' \in {OwnerOf(a), None}

OwnersStep ==
    \/ \A a \in Assignable : GivesBack(a)
    \/ \E c \in Assignable : /\ OwnerOf(c) = None
                             /\ OwnerOf(c)' \in Device \cup Peer
                             /\ \A a \in Assignable \ {c} : GivesBack(a)

LEMMA AllocateIpOwners ==
    ASSUME LeaseInv, NEW d \in Device, NEW r, NEW expect, NEW v \in BOOLEAN,
           AllocateIp(d, r, expect, v)
    PROVE  OwnersStep
<1> DEFINE ip == AllocatedIp(d, expect, v)
           own == Reuses(d, expect) /\ device_map[d].ip # None
           given == ReplacedIp(d, expect)
<1>1. /\ ip \in Assignable
      /\ ~own => device_ip_map[ip] = None /\ wireguard_peer_ip_map[ip] = None
  BY AllocatedIpIsOwnOrFree, Zenon DEF AllocateIp
<1>2. /\ device_ip_map' = [a \in Assignable |->
                             IF a = ip /\ ~own THEN d
                             ELSE IF a = given /\ Grantable(expect) THEN None
                             ELSE device_ip_map[a]]
      /\ wireguard_peer_ip_map' = wireguard_peer_ip_map
  BY Zenon DEF AllocateIp, LeasedOwners
<1>3. given \in Assignable => wireguard_peer_ip_map[given] = None
  BY AddressFacts, LeaseConstants, Zenon DEF ReplacedIp, LeaseInv, AddressExclusive
<1>4. d # None
  BY LeaseConstants
<1> HIDE DEF ip, own, given
<1>5. PICK c \in Assignable : c = ip
  BY <1>1
<1>6. \A a \in Assignable : a # c \/ own => GivesBack(a)
  BY <1>2, <1>3, <1>5 DEF GivesBack, OwnerOf
<1>7. ~own => OwnerOf(c) = None /\ OwnerOf(c)' = d
  BY <1>1, <1>2, <1>4, <1>5 DEF OwnerOf
<1>8. QED
  BY <1>6, <1>7 DEF OwnersStep

LEMMA RemoveDevicesOwners ==
    ASSUME LeaseInv, NEW S \in SUBSET Device, RemoveDevices(S)
    PROVE  OwnersStep
BY DEF LeaseInv, AddressExclusive, RemoveDevices, OwnersStep, GivesBack, OwnerOf

LEMMA PrepareReservationOwners ==
    ASSUME LeaseInv, NEW p \in Peer, NEW ip \in Assignable, PrepareReservation(p, ip)
    PROVE  OwnersStep
<1>1. \A a \in Assignable \ {ip} : GivesBack(a)
  BY DEF LeaseInv, LeaseTypeOK, PrepareReservation, GivesBack, OwnerOf
<1>2. OwnerOf(ip)' = p /\ OwnerOf(ip) \in {None, p}
  BY DEF LeaseInv, LeaseTypeOK, PrepareReservation, CanPrepare, OwnerOf
<1>3. QED
  BY <1>1, <1>2 DEF OwnersStep, GivesBack

LEMMA DropReservationOwners ==
    ASSUME LeaseInv, NEW p, NEW ip, DropReservation(p, ip)
    PROVE  OwnersStep
BY DEF LeaseInv, LeaseTypeOK, DropReservation, OwnersStep, GivesBack, OwnerOf

LEMMA ReleaseReservationOwners ==
    ASSUME LeaseInv, NEW p, ReleaseReservation(p)
    PROVE  OwnersStep
BY DEF LeaseInv, LeaseTypeOK, ReleaseReservation, OwnersStep, GivesBack, OwnerOf

\* The owners did not move, or some were given back, or one address was claimed:
\* a step that AddressOwnership allows.
LEMMA OwnersStepMaps == OwnersStep => Ownership!Next
<1> DEFINE bar == [a \in Assignable |-> OwnerOf(a)]
           A == {a \in Assignable : OwnerOf(a)' = None}
<1>1. CASE \A a \in Assignable : GivesBack(a)
  <2>1. bar' = Ownership!GiveBack(A)
    BY <1>1 DEF GivesBack, Ownership!GiveBack
  <2>2. QED
    BY <2>1 DEF Ownership!Next, Ownership!Release
<1>2. ASSUME NEW c \in Assignable, OwnerOf(c) = None, OwnerOf(c)' \in Device \cup Peer,
             \A a \in Assignable \ {c} : GivesBack(a)
      PROVE  Ownership!Next
  <2>1. bar' = [Ownership!GiveBack(A) EXCEPT ![c] = OwnerOf(c)']
    BY <1>2, Zenon DEF GivesBack, Ownership!GiveBack
  <2>2. Ownership!Claim(c, OwnerOf(c)')
    BY <1>2, <2>1 DEF Ownership!Claim
  <2>3. QED
    BY <1>2, <2>2 DEF Ownership!Next
<1>3. QED
  BY <1>1, <1>2 DEF OwnersStep

LEMMA LeaseNextOwners == LeaseInv /\ LeaseNext => OwnersStep
<1> SUFFICES ASSUME LeaseInv, LeaseNext
             PROVE  OwnersStep
  OBVIOUS
<1>1. ASSUME NEW d \in Device, NEW r \in RandomId, NEW expect \in Requested,
             NEW v \in BOOLEAN, AllocateIp(d, r, expect, v)
      PROVE  OwnersStep
  BY <1>1, AllocateIpOwners
<1>2. ASSUME NEW d \in Device, NEW r \in RandomId \cup {NoId}, NEW ip \in Assignable,
             OfflineIp(d, ip, r)
      PROVE  OwnersStep
  BY <1>2 DEF OfflineIp, OwnersStep, GivesBack, OwnerOf
<1>3. ASSUME NEW S \in SUBSET Device, RemoveDevices(S)
      PROVE  OwnersStep
  BY <1>3, RemoveDevicesOwners
<1>4. ASSUME NEW d \in Device, NEW r \in RandomId \cup {NoId}, NEW ip \in Assignable,
             ReleasePreRegisteredIp(d, ip, r)
      PROVE  OwnersStep
  BY <1>3, <1>4 DEF ReleasePreRegisteredIp
<1>5. ASSUME NEW p \in Peer, PeerStep(p)
      PROVE  OwnersStep
  BY <1>5, PrepareReservationOwners, DropReservationOwners, ReleaseReservationOwners
     DEF PeerStep
<1>6. QED
  BY <1>1, <1>2, <1>3, <1>4, <1>5 DEF LeaseNext, DeviceStep

\* The address book implements AddressOwnership: between two owners of an address
\* there is always a moment at which nobody has it.
THEOREM LeaseImplementsOwnership == LeaseSpec => ImplementsOwnership
<1> DEFINE bar == [a \in Assignable |-> OwnerOf(a)]
<1>1. LeaseInv => Ownership!Init
  BY DEF LeaseInv, LeaseTypeOK, OwnerOf, Ownership!Init
<1>2. LeaseInv /\ [LeaseNext]_leaseVars => [Ownership!Next]_bar
  <2>1. UNCHANGED leaseVars => UNCHANGED bar
    BY DEF leaseVars, OwnerOf
  <2>2. QED
    BY <2>1, LeaseNextOwners, OwnersStepMaps
<1>3. QED
  BY <1>1, <1>2, LeaseInitInv, LeaseInvHolds, PTL
     DEF LeaseSpec, ImplementsOwnership, Ownership!Spec

-----------------------------------------------------------------------------
(* The tables *)

DatabaseInv == DatabaseTypeOK /\ UniqueAllocations(devices, ip_allocations)

\* None and NoRow are not addresses.
LEMMA RowFacts == None \notin Assignable /\ NoRow \notin Assignable
BY LeaseConstants DEF Assignable, Net, Network, Broadcast, Gateway

LEMMA DatabaseInitInv == DatabaseInit => DatabaseInv
BY RowFacts
   DEF DatabaseInit, DatabaseInv, DatabaseTypeOK, UniqueAllocations, DeviceRows, PeerRows, PeerRow

LEMMA SaveOrUpdateDeviceKeeps ==
    ASSUME DatabaseInv, NEW d \in Device, NEW ip \in Assignable \cup {None},
           SaveOrUpdateDevice(d, ip)
    PROVE  DatabaseInv'
BY RowFacts
   DEF DatabaseInv, DatabaseTypeOK, UniqueAllocations, DeviceRows, PeerRows,
       SaveOrUpdateDevice, CanStoreDevice

LEMMA ReleaseDeviceIpKeeps ==
    ASSUME DatabaseInv, NEW d \in Device, ReleaseDeviceIp(d)
    PROVE  DatabaseInv'
BY RowFacts
   DEF DatabaseInv, DatabaseTypeOK, UniqueAllocations, DeviceRows, PeerRows, ReleaseDeviceIp

LEMMA DeleteDeviceRowKeeps ==
    ASSUME DatabaseInv, NEW d \in Device, DeleteDeviceRow(d)
    PROVE  DatabaseInv'
BY RowFacts
   DEF DatabaseInv, DatabaseTypeOK, UniqueAllocations, DeviceRows, PeerRows, DeleteDeviceRow

\* A peer's address is stored after the check for other owners of it.
LEMMA StorePeerIpKeeps ==
    ASSUME DatabaseInv, NEW p \in Peer, NEW ip \in Assignable, CanStorePeerIp(p, ip),
           ip_allocations' = [ip_allocations EXCEPT ![p] = ip], UNCHANGED devices
    PROVE  /\ ip_allocations' \in PeerRows
           /\ UniqueAllocations(devices, ip_allocations)'
BY RowFacts DEF DatabaseInv, DatabaseTypeOK, UniqueAllocations, DeviceRows, PeerRows,
                CanStorePeerIp

\* ... and its removal can only remove conflicts.
LEMMA DropPeerIpKeeps ==
    ASSUME DatabaseInv, NEW p \in Peer,
           ip_allocations' = [ip_allocations EXCEPT ![p] = None], UNCHANGED devices
    PROVE  /\ ip_allocations' \in PeerRows
           /\ UniqueAllocations(devices, ip_allocations)'
BY RowFacts DEF DatabaseInv, DatabaseTypeOK, UniqueAllocations, DeviceRows, PeerRows

LEMMA PeerRowUpdate ==
    ASSUME DatabaseInv, NEW p \in Peer, NEW row \in PeerRow,
           wireguard_peers' = [wireguard_peers EXCEPT ![p] = row]
    PROVE  wireguard_peers' \in [Peer -> PeerRow]
BY DEF DatabaseInv, DatabaseTypeOK

LEMMA ReservePeerIpRowKeeps ==
    ASSUME DatabaseInv, NEW p \in Peer, NEW ip \in Assignable, ReservePeerIpRow(p, ip)
    PROVE  DatabaseInv'
BY StorePeerIpKeeps, Zenon DEF DatabaseInv, DatabaseTypeOK, ReservePeerIpRow

LEMMA ReleasePeerIpRowKeeps ==
    ASSUME DatabaseInv, NEW p \in Peer, ReleasePeerIpRow(p)
    PROVE  DatabaseInv'
BY DropPeerIpKeeps, Zenon DEF DatabaseInv, DatabaseTypeOK, ReleasePeerIpRow

LEMMA InsertPeerKeeps ==
    ASSUME DatabaseInv, NEW p \in Peer, NEW enabled \in BOOLEAN, InsertPeer(p, enabled)
    PROVE  DatabaseInv'
BY DEF DatabaseInv, DatabaseTypeOK, InsertPeer, PeerRow

LEMMA InsertPeerWithIpKeeps ==
    ASSUME DatabaseInv, NEW p \in Peer, NEW ip \in Assignable, NEW enabled \in BOOLEAN,
           InsertPeerWithIp(p, ip, enabled)
    PROVE  DatabaseInv'
<1>1. wireguard_peers' \in [Peer -> PeerRow]
  BY PeerRowUpdate, Zenon DEF InsertPeerWithIp, PeerRow
<1>2. QED
  BY <1>1, StorePeerIpKeeps, Zenon DEF DatabaseInv, DatabaseTypeOK, InsertPeerWithIp

LEMMA SetPeerEnabledKeeps ==
    ASSUME DatabaseInv, NEW p \in Peer, NEW enabled \in BOOLEAN, SetPeerEnabled(p, enabled)
    PROVE  DatabaseInv'
BY DEF DatabaseInv, DatabaseTypeOK, SetPeerEnabled, PeerRow

LEMMA DeletePeerKeeps ==
    ASSUME DatabaseInv, NEW p \in Peer, DeletePeer(p)
    PROVE  DatabaseInv'
<1>1. wireguard_peers' \in [Peer -> PeerRow]
  BY PeerRowUpdate, Zenon DEF DeletePeer, PeerRow
<1>2. QED
  BY <1>1, DropPeerIpKeeps, Zenon DEF DatabaseInv, DatabaseTypeOK, DeletePeer

LEMMA UnchangedDatabase ==
    ASSUME DatabaseInv, UNCHANGED dbVars
    PROVE  DatabaseInv'
BY DEF DatabaseInv, DatabaseTypeOK, UniqueAllocations, dbVars

-----------------------------------------------------------------------------
(* The maps of the data path *)

LEMMA DetachType ==
    ASSUME EndpointTypeOK, NEW ip, Detach(ip)
    PROVE  EndpointTypeOK'
BY DEF EndpointTypeOK, Detach, NoEndpoint, Endpoint, Owner

LEMMA DisconnectType ==
    ASSUME EndpointTypeOK, NEW p, NEW ip, DisconnectWireGuardPeer(p, ip)
    PROVE  EndpointTypeOK'
BY DetachType DEF DisconnectWireGuardPeer, EndpointTypeOK, endpointVars

LEMMA AttachSenderType ==
    ASSUME EndpointTypeOK, NEW owner \in RandomId \cup Peer, NEW ip \in Assignable, NEW old_ip,
           AttachSender(ip, old_ip, owner)
    PROVE  EndpointTypeOK'
BY Zenon DEF AttachSender, EndpointTypeOK, NoEndpoint, Endpoint, Owner

LEMMA AttachEndpointType ==
    ASSUME EndpointTypeOK, NEW confirmed \in BOOLEAN, AttachEndpoint(confirmed)
    PROVE  EndpointTypeOK'
<1>1. [owner |-> attaching.owner, confirmed |-> confirmed] \in Endpoint
  BY DEF EndpointTypeOK, NotAttaching, Endpoint, Owner
<1>2. QED
  BY <1>1, Zenon DEF AttachEndpoint, EndpointTypeOK

-----------------------------------------------------------------------------
(* The WireGuard side: the address book *)

LEMMA DropReservationIsLeaseStep ==
    ASSUME LeaseTypeOK, NEW p \in Peer, NEW ip \in Assignable \cup {None},
           DropReservation(p, ip)
    PROVE  [LeaseNext]_leaseVars
<1>1. CASE ip \in Assignable
  BY <1>1 DEF LeaseNext, PeerStep
<1>2. CASE ip = None
  BY <1>2, AddressFacts DEF LeaseTypeOK, DropReservation, leaseVars
<1>3. QED
  BY <1>1, <1>2

\* So do the management requests and the runtime.
LEMMA WireGuardLeaseStep ==
    ASSUME TypeOK, WireGuardNext
    PROVE  [LeaseNext]_leaseVars
<1>1. ASSUME NEW q \in Request, NEW p \in Peer, NEW op \in Operation, Begin(q, op, p)
      PROVE  UNCHANGED leaseVars
  BY <1>1 DEF Begin
<1>2. ASSUME NEW q \in Request, NEW p \in Peer, NEW op \in Operation, NEW ip \in Assignable,
             BeginReserve(q, op, p, ip)
      PROVE  LeaseNext
  BY <1>2 DEF BeginReserve, LeaseNext, PeerStep
<1>3. ASSUME NEW q \in Request, NEW p \in Peer, BeginCreateAuto(q, p)
      PROVE  LeaseNext
  <2>1. FindAvailableIp \in Assignable
    BY <1>3, FindAvailableIpIsFree, AddressFacts, Zenon DEF BeginCreateAuto, FreeHosts
  <2>2. QED
    BY <1>3, <2>1 DEF BeginCreateAuto, LeaseNext, PeerStep
<1>4. ASSUME NEW q \in Request, RequestStep(q)
      PROVE  [LeaseNext]_leaseVars
  <2> DEFINE p == request[q].peer
             ip == request[q].ip
             previous_ip == request[q].previous_ip
  <2>1. ip \in Assignable \cup {None} /\ previous_ip \in Assignable \cup {None}
    BY DEF TypeOK, WireGuardTypeOK, RequestRecord
  <2>2. LeaseTypeOK
    BY DEF TypeOK
  <2>3. CASE Rollback(q)
    <3>1. p \in Peer
      BY <2>3, Zenon DEF TypeOK, WireGuardTypeOK, Rollback
    <3>2. DropReservation(p, ip) \/ UNCHANGED leaseVars
      BY <2>3 DEF Rollback, RollbackReservation
    <3>3. QED
      BY <2>1, <2>2, <3>1, <3>2, DropReservationIsLeaseStep
  <2>4. CASE Commit(q)
    <3>1. p \in Peer
      BY <2>4, Zenon DEF TypeOK, WireGuardTypeOK, Commit
    <3>2. \/ DropReservation(p, previous_ip) \/ UNCHANGED leaseVars
          \/ ReleaseReservation(p)
      BY <2>4, Zenon DEF Commit, CommitReservation
    <3>3. CASE ReleaseReservation(p)
      BY <3>1, <3>3 DEF LeaseNext, PeerStep
    <3>4. QED
      BY <2>1, <2>2, <3>1, <3>2, <3>3, DropReservationIsLeaseStep
  <2>5. CASE \/ Persist(q) \/ PersistFails(q) \/ LoadUpdated(q) \/ LoadFails(q)
             \/ SendRevoke(q)
    BY <2>5 DEF Persist, PersistFails, LoadUpdated, LoadFails, SendRevoke
  <2>6. QED
    BY <1>4, <2>3, <2>4, <2>5 DEF RequestStep
<1>5. ASSUME NEW q \in Request, DropRequest(q)
      PROVE  UNCHANGED leaseVars
  BY <1>5 DEF DropRequest
<1>6. ASSUME HandleRevoke
      PROVE  UNCHANGED leaseVars
  BY <1>6 DEF HandleRevoke, TakeRevoke
<1>7. ASSUME HandshakeActivate
      PROVE  UNCHANGED leaseVars
  BY <1>7 DEF HandshakeActivate, HandshakeRefused, HandshakeConnect, HandshakeFinish
<1>8. ASSUME NEW p \in Peer, HandshakeLoad(p) \/ ExpireTunnel(p)
      PROVE  UNCHANGED leaseVars
  BY <1>8 DEF HandshakeLoad, ExpireTunnel
<1>9. QED
  BY <1>1, <1>2, <1>3, <1>4, <1>5, <1>6, <1>7, <1>8 DEF WireGuardNext, WireGuardRuns

-----------------------------------------------------------------------------
(* The WireGuard side: the tables *)

LEMMA PersistDatabaseStep ==
    ASSUME TypeOK, DatabaseInv, NEW q \in Request, Persist(q)
    PROVE  DatabaseInv'
<1> DEFINE op == request[q].op
           p == request[q].peer
           ip == request[q].ip
<1>1. p \in Peer /\ (op \in Reserving => ip \in Assignable)
  BY DEF TypeOK, WireGuardTypeOK, Persist
<1>2. \/ \E enabled \in BOOLEAN : InsertPeer(p, enabled)
      \/ /\ op \in Reserving
         /\ \E enabled \in BOOLEAN : InsertPeerWithIp(p, ip, enabled)
      \/ op \in Reserving /\ ReservePeerIpRow(p, ip)
      \/ SetPeerEnabled(p, op = "enable")
      \/ UNCHANGED dbVars
      \/ ReleasePeerIpRow(p)
      \/ DeletePeer(p)
  BY DEF Persist, Reserving
<1> HIDE DEF op, p, ip
<1>3. QED
  BY <1>1, <1>2, InsertPeerKeeps, InsertPeerWithIpKeeps, ReservePeerIpRowKeeps,
     SetPeerEnabledKeeps, UnchangedDatabase, ReleasePeerIpRowKeeps, DeletePeerKeeps, Zenon

LEMMA WireGuardDatabaseStep ==
    ASSUME TypeOK, DatabaseInv, WireGuardNext
    PROVE  DatabaseInv'
<1>1. ASSUME NEW q \in Request, NEW p \in Peer,
             \/ \E op \in Operation : Begin(q, op, p)
             \/ \E op \in Operation, ip \in Assignable : BeginReserve(q, op, p, ip)
             \/ BeginCreateAuto(q, p)
      PROVE  UNCHANGED dbVars
  BY <1>1, Zenon DEF Begin, BeginReserve, BeginCreateAuto, Acquire
<1>2. ASSUME NEW q \in Request, RequestStep(q), ~Persist(q)
      PROVE  UNCHANGED dbVars
  BY <1>2, Zenon DEF RequestStep, PersistFails, LoadUpdated, LoadFails, Rollback, Commit, SendRevoke
<1>3. ASSUME NEW q \in Request, DropRequest(q)
      PROVE  UNCHANGED dbVars
  BY <1>3 DEF DropRequest
<1>4. ASSUME HandleRevoke \/ HandshakeActivate
      PROVE  UNCHANGED dbVars
  BY <1>4 DEF HandleRevoke, TakeRevoke, HandshakeActivate, HandshakeRefused, HandshakeConnect,
              HandshakeFinish
<1>5. ASSUME NEW p \in Peer, HandshakeLoad(p) \/ ExpireTunnel(p)
      PROVE  UNCHANGED dbVars
  BY <1>5 DEF HandshakeLoad, ExpireTunnel
<1>6. QED
  BY <1>1, <1>2, <1>3, <1>4, <1>5, PersistDatabaseStep, UnchangedDatabase
     DEF WireGuardNext, WireGuardRuns

-----------------------------------------------------------------------------
(* The WireGuard side: the maps of the data path *)

LEMMA WireGuardEndpointStep ==
    ASSUME TypeOK, WireGuardNext
    PROVE  EndpointTypeOK'
<1>1. EndpointTypeOK
  BY DEF TypeOK
<1>2. UNCHANGED endpointVars => EndpointTypeOK'
  BY <1>1 DEF EndpointTypeOK, endpointVars
<1>3. ASSUME NEW q \in Request, NEW p \in Peer,
             \/ \E op \in Operation : Begin(q, op, p)
             \/ \E op \in Operation, ip \in Assignable : BeginReserve(q, op, p, ip)
             \/ BeginCreateAuto(q, p)
      PROVE  UNCHANGED endpointVars
  BY <1>3, Zenon DEF Begin, BeginReserve, BeginCreateAuto, Acquire
<1>4. ASSUME NEW q \in Request, RequestStep(q) \/ DropRequest(q)
      PROVE  UNCHANGED endpointVars
  BY <1>4, Zenon DEF RequestStep, Persist, PersistFails, LoadUpdated, LoadFails, Rollback, Commit,
              SendRevoke, DropRequest
<1>5. ASSUME NEW p, RemovePeer(p)
      PROVE  EndpointTypeOK'
  BY <1>1, <1>2, <1>5, DisconnectType DEF RemovePeer
<1>6. ASSUME HandleRevoke
      PROVE  EndpointTypeOK'
  BY <1>5, <1>6 DEF HandleRevoke, TakeRevoke
<1>7. ASSUME HandshakeActivate
      PROVE  EndpointTypeOK'
  <2>1. handshake # None
    BY <1>7, Zenon DEF HandshakeActivate, HandshakeRefused, HandshakeConnect, HandshakeFinish, Busy
  <2>2. handshake.peer \in Peer /\ handshake.ip \in Assignable
    BY <2>1 DEF TypeOK, WireGuardTypeOK
  <2>3. CASE HandshakeConnect
    BY <1>1, <2>2, <2>3, AttachSenderType, Zenon DEF HandshakeConnect
  <2>4. CASE HandshakeFinish
    BY <1>1, <2>4, AttachEndpointType, Zenon DEF HandshakeFinish
  <2>5. QED
    BY <1>2, <1>7, <2>3, <2>4, Zenon DEF HandshakeActivate, HandshakeRefused
<1>8. ASSUME NEW p \in Peer, HandshakeLoad(p) \/ ExpireTunnel(p)
      PROVE  EndpointTypeOK'
  BY <1>2, <1>5, <1>8, Zenon DEF HandshakeLoad, ExpireTunnel
<1>9. QED
  BY <1>2, <1>3, <1>4, <1>6, <1>7, <1>8 DEF WireGuardNext, WireGuardRuns

-----------------------------------------------------------------------------
(* Requests and the runtime *)

\* The part of WireGuardTypeOK about one request, and about all of them.
RequestOK(s) ==
    /\ s \in RequestRecord
    /\ s.step # "idle" => s.peer \in Peer /\ (s.op \in Reserving => s.ip \in Assignable)

RequestsOK ==
    /\ request \in [Request -> RequestRecord]
    /\ \A q \in Request : RequestOK(request[q])
    /\ update_lock \in Request \cup {None}

Command == [peer : Peer, by : Request \cup {None}]

RuntimeOK ==
    /\ commands \in Seq(Command)
    /\ handshake \in [peer : Peer, ip : Assignable] \cup {None}
    /\ active \in [Peer -> Assignable \cup {None}]
    /\ errored \subseteq Peer

LEMMA WireGuardTypeIs == WireGuardTypeOK <=> RequestsOK /\ RuntimeOK
BY DEF WireGuardTypeOK, RequestsOK, RequestOK, RuntimeOK, Command

LEMMA FirstCommand ==
    ASSUME WireGuardTypeOK, commands # <<>>
    PROVE  Head(commands).peer \in Peer /\ Head(commands).by \in Request \cup {None}
<1>1. Head(commands) \in Command
  BY WireGuardTypeIs DEF RuntimeOK
<1>2. QED
  BY <1>1 DEF Command

LEMMA RequestUpdate ==
    ASSUME RequestsOK, NEW q \in Request, NEW s, RequestOK(s),
           request' = [request EXCEPT ![q] = s], update_lock' \in Request \cup {None}
    PROVE  RequestsOK'
BY DEF RequestsOK, RequestOK

LEMMA ReturnType ==
    ASSUME RequestsOK, NEW q \in Request, Return(q)
    PROVE  RequestsOK'
<1>1. RequestOK(NoRequest)
  BY Zenon DEF RequestOK, NoRequest, RequestRecord, Step, Operation
<1>2. update_lock' \in Request \cup {None}
  BY DEF Return, RequestsOK
<1>3. QED
  BY <1>1, <1>2, RequestUpdate, Zenon DEF Return

LEMMA AdvanceType ==
    ASSUME RequestsOK, NEW q \in Request, request[q].step # "idle", NEW step \in Step,
           Advance(q, step), update_lock' \in Request \cup {None}
    PROVE  RequestsOK'
<1> DEFINE s == [request[q] EXCEPT !.step = step]
<1>1. RequestOK(s)
  BY DEF RequestsOK, RequestOK, RequestRecord
<1>2. request' = [request EXCEPT ![q] = s]
  BY DEF RequestsOK, Advance
<1>3. QED
  BY <1>1, <1>2, RequestUpdate, Zenon

LEMMA AcquireType ==
    ASSUME RequestsOK, NEW q \in Request, NEW op \in Operation, NEW p \in Peer,
           NEW ip \in Assignable \cup {None}, NEW previous_ip \in Assignable \cup {None},
           op \in Reserving => ip \in Assignable, Acquire(q, op, p, ip, previous_ip)
    PROVE  RequestsOK'
<1> DEFINE s == [step |-> "persist", op |-> op, peer |-> p, ip |-> ip,
                 previous_ip |-> previous_ip, removed |-> FALSE]
<1>1. RequestOK(s)
  BY Zenon DEF RequestOK, RequestRecord, Step
<1>2. request' = [request EXCEPT ![q] = s] /\ update_lock' = q
  BY Zenon DEF Acquire
<1>3. QED
  BY <1>1, <1>2, RequestUpdate, Zenon

LEMMA PersistType ==
    ASSUME RequestsOK, NEW q \in Request, Persist(q)
    PROVE  RequestsOK'
<1> USE DEF Step
<1>1. request[q].step # "idle" /\ update_lock \in Request \cup {None}
  BY DEF Persist, RequestsOK
<1>2. CASE Return(q)
  BY <1>2, ReturnType
<1>3. CASE UNCHANGED update_lock /\ (Advance(q, "commit") \/ Advance(q, "load"))
  BY <1>1, <1>3, AdvanceType
<1>4. CASE /\ UNCHANGED update_lock
           /\ request' = [request EXCEPT ![q].step = "commit",
                                         ![q].removed = ip_allocations[request[q].peer] # None]
  <2> DEFINE s == [request[q] EXCEPT !.step = "commit",
                                     !.removed = ip_allocations[request[q].peer] # None]
  <2>1. RequestOK(s)
    BY <1>1, Zenon DEF RequestsOK, RequestOK, RequestRecord
  <2>2. request' = [request EXCEPT ![q] = s]
    BY <1>4, Zenon DEF RequestsOK
  <2>3. QED
    BY <1>1, <1>4, <2>1, <2>2, RequestUpdate, Zenon
<1>5. QED
  BY <1>2, <1>3, <1>4 DEF Persist

LEMMA RequestStepType ==
    ASSUME RequestsOK, NEW q \in Request, RequestStep(q)
    PROVE  RequestsOK'
<1> USE DEF Step
<1>1. update_lock \in Request \cup {None}
  BY DEF RequestsOK
<1>2. CASE Persist(q)
  BY <1>2, PersistType
<1>3. CASE PersistFails(q) \/ LoadUpdated(q) \/ SendRevoke(q)
  BY <1>1, <1>3, ReturnType, AdvanceType, Zenon DEF PersistFails, LoadUpdated, SendRevoke
<1>4. CASE LoadFails(q) \/ Rollback(q)
  BY <1>4, ReturnType, Zenon DEF LoadFails, Rollback
<1>5. CASE Commit(q)
  BY <1>1, <1>5, ReturnType, AdvanceType, Zenon DEF Commit, Unlock
<1>6. QED
  BY <1>2, <1>3, <1>4, <1>5 DEF RequestStep

LEMMA RequestStepRuntimeType ==
    ASSUME RequestsOK, RuntimeOK, NEW q \in Request, RequestStep(q)
    PROVE  RuntimeOK'
<1>1. CASE SendRevoke(q)
  <2>1. [peer |-> request[q].peer, by |-> q] \in Command
    BY <1>1, Zenon DEF SendRevoke, RequestsOK, RequestOK, Command
  <2>2. QED
    BY <1>1, <2>1 DEF SendRevoke, RuntimeOK
<1>2. CASE LoadFails(q)
  <2>1. request[q].peer \in Peer
    BY <1>2 DEF LoadFails, RequestsOK, RequestOK
  <2>2. QED
    BY <1>2, <2>1, Zenon DEF LoadFails, RuntimeOK
<1>3. CASE ~SendRevoke(q) /\ ~LoadFails(q)
  <2>1. UNCHANGED runtimeVars
    BY <1>3, Zenon DEF RequestStep, Persist, PersistFails, LoadUpdated, Rollback, Commit
  <2>2. QED
    BY <2>1 DEF runtimeVars, RuntimeOK
<1>4. QED
  BY <1>1, <1>2, <1>3

LEMMA DropRequestType ==
    ASSUME RequestsOK, RuntimeOK, NEW q \in Request, DropRequest(q)
    PROVE  RequestsOK' /\ RuntimeOK'
<1>1. RequestsOK'
  BY ReturnType DEF DropRequest
<1>2. commands' \in Seq(Command)
  <2>1. \A i \in DOMAIN commands : commands[i] \in Command /\ DOMAIN commands = 1 .. Len(commands)
    BY DEF RuntimeOK
  <2>2. \A c \in Command : [c EXCEPT !.by = None] \in Command
    BY DEF Command
  <2>3. \A i \in DOMAIN commands : commands'[i] \in Command
    BY <2>1, <2>2 DEF DropRequest
  <2>4. DOMAIN commands' = 1 .. Len(commands) /\ Len(commands) \in Nat
    BY DEF DropRequest, RuntimeOK
  <2>5. commands' = [i \in 1 .. Len(commands) |-> commands'[i]]
    BY <2>4 DEF DropRequest
  <2>6. QED
    BY <2>3, <2>4, <2>5 DEF RuntimeOK
<1>3. QED
  BY <1>1, <1>2 DEF DropRequest, RuntimeOK

LEMMA RuntimeStepType ==
    ASSUME RequestsOK, RuntimeOK, DatabaseTypeOK,
           \/ HandleRevoke
           \/ HandshakeActivate
           \/ \E p \in Peer : HandshakeLoad(p) \/ ExpireTunnel(p)
    PROVE  RequestsOK' /\ RuntimeOK'
<1>1. CASE HandleRevoke
  <2>1. commands # <<>> /\ Head(commands) \in Command /\ Tail(commands) \in Seq(Command)
    BY <1>1 DEF HandleRevoke, TakeRevoke, RuntimeOK
  <2>2. RuntimeOK'
    BY <1>1, <2>1, Zenon DEF HandleRevoke, TakeRevoke, RemovePeer, RuntimeOK
  <2>3. Head(commands).by \in Request \cup {None}
    BY <2>1 DEF Command
  <2>4. RequestsOK'
    BY <1>1, <2>3, ReturnType, Zenon DEF HandleRevoke, TakeRevoke, RequestsOK
  <2>5. QED
    BY <2>2, <2>4
<1>2. CASE HandshakeActivate
  <2>1. handshake.ip \in Assignable
    BY <1>2, Zenon DEF HandshakeActivate, HandshakeRefused, HandshakeConnect, HandshakeFinish, Busy,
                       RuntimeOK
  <2>2. RequestsOK'
    BY <1>2, Zenon DEF HandshakeActivate, HandshakeRefused, HandshakeConnect, HandshakeFinish,
                       RequestsOK
  <2>3. RuntimeOK'
    BY <1>2, <2>1, Zenon DEF HandshakeActivate, HandshakeRefused, HandshakeConnect, HandshakeFinish,
                             RuntimeOK
  <2>4. QED
    BY <2>2, <2>3
<1>3. ASSUME NEW p \in Peer, HandshakeLoad(p)
      PROVE  RequestsOK' /\ RuntimeOK'
  <2>1. ip_allocations[p] \in Assignable
    BY <1>3, Zenon DEF HandshakeLoad, RuntimePeer, DatabaseTypeOK, PeerRows
  <2>2. QED
    BY <1>3, <2>1, Zenon DEF HandshakeLoad, RuntimeOK, RequestsOK
<1>4. ASSUME NEW p \in Peer, ExpireTunnel(p)
      PROVE  RequestsOK' /\ RuntimeOK'
  BY <1>4, Zenon DEF ExpireTunnel, RemovePeer, RuntimeOK, RequestsOK
<1>5. QED
  BY <1>1, <1>2, <1>3, <1>4

LEMMA WireGuardTypeStep ==
    ASSUME TypeOK, WireGuardNext
    PROVE  WireGuardTypeOK'
<1>1. RequestsOK /\ RuntimeOK /\ DatabaseTypeOK /\ LeaseTypeOK
  BY WireGuardTypeIs DEF TypeOK
<1>2. UNCHANGED runtimeVars => RuntimeOK'
  BY <1>1 DEF runtimeVars, RuntimeOK
<1>3. ASSUME NEW q \in Request, NEW p \in Peer, NEW op \in Operation, Begin(q, op, p)
      PROVE  RequestsOK' /\ RuntimeOK'
  BY <1>1, <1>2, <1>3, AcquireType, Zenon DEF Begin, Acquire, Reserving
<1>4. ASSUME NEW q \in Request, NEW p \in Peer, NEW op \in Operation, NEW ip \in Assignable,
             BeginReserve(q, op, p, ip)
      PROVE  RequestsOK' /\ RuntimeOK'
  <2>1. PICK previous_ip \in PreviousIps(p) : Acquire(q, op, p, ip, previous_ip)
    BY <1>4 DEF BeginReserve
  <2>2. previous_ip \in Assignable \cup {None}
    BY DEF PreviousIps, ReservedIps
  <2>3. QED
    BY <1>1, <1>2, <2>1, <2>2, AcquireType, Zenon DEF Acquire
<1>5. ASSUME NEW q \in Request, NEW p \in Peer, BeginCreateAuto(q, p)
      PROVE  RequestsOK' /\ RuntimeOK'
  <2>1. FindAvailableIp \in Assignable
    BY <1>5, FindAvailableIpIsFree, AddressFacts, Zenon DEF BeginCreateAuto, FreeHosts
  <2>2. Acquire(q, "create_auto", p, FindAvailableIp, None)
    BY <1>5 DEF BeginCreateAuto
  <2>3. QED
    BY <1>1, <1>2, <2>1, <2>2, AcquireType, Zenon DEF Acquire, Operation
<1>6. ASSUME NEW q \in Request, RequestStep(q) \/ DropRequest(q)
      PROVE  RequestsOK' /\ RuntimeOK'
  BY <1>1, <1>6, RequestStepType, RequestStepRuntimeType, DropRequestType
<1>7. ASSUME \/ HandleRevoke
             \/ HandshakeActivate
             \/ \E p \in Peer : HandshakeLoad(p) \/ ExpireTunnel(p)
      PROVE  RequestsOK' /\ RuntimeOK'
  BY <1>1, <1>7, RuntimeStepType
<1>8. RequestsOK' /\ RuntimeOK'
  BY <1>3, <1>4, <1>5, <1>6, <1>7, Zenon DEF WireGuardNext, WireGuardRuns
<1>9. QED
  BY <1>8, Zenon DEF WireGuardTypeOK, RequestsOK, RequestOK, RuntimeOK, Command

-----------------------------------------------------------------------------
(* The VNT side: the address book *)

\* A session, a background task or a device deletion runs critical sections of
\* the address book with arguments in their ranges.
LEMMA SessionsLeaseStep ==
    ASSUME TypeOK, SessionsNext
    PROVE  [LeaseNext]_leaseVars
<1>1. ASSUME NEW r \in RandomId, SessionStep(r)
      PROVE  [LeaseNext]_leaseVars
  <2> DEFINE d == session[r].device
             ip == session[r].ip
  <2>1. ASSUME NEW e \in Device, NEW expect \in Requested, NEW v \in BOOLEAN,
               Register(r, e, expect, v)
        PROVE  [LeaseNext]_leaseVars
    BY <2>1, Zenon DEF Register, LeaseNext, DeviceStep
  <2>2. CASE DropConfirmed(r)
    <3>1. d \in Device /\ ip \in Assignable
      BY <2>2, Zenon DEF TypeOK, SessionsTypeOK, DropConfirmed
    <3>2. OfflineIp(d, ip, r) \/ UNCHANGED leaseVars
      BY <2>2, Zenon DEF DropConfirmed
    <3>3. QED
      BY <3>1, <3>2 DEF LeaseNext, DeviceStep
  <2>3. CASE DropPending(r)
    <3>1. d \in Device /\ ip \in Assignable
      BY <2>3 DEF TypeOK, SessionsTypeOK, DropPending
    <3>2. ReleasePreRegisteredIp(d, ip, r) \/ UNCHANGED leaseVars
      BY <2>3 DEF DropPending
    <3>3. QED
      BY <3>1, <3>2, Zenon DEF LeaseNext, DeviceStep
  <2>4. CASE \/ ConfirmRead(r) \/ ConfirmSave(r) \/ ConfirmFinish(r)
             \/ UnlinkSender(r) \/ UnlinkEndpoint(r)
             \/ \E normal \in BOOLEAN : FinishRegister(r, normal)
    BY <2>4, Zenon DEF FinishRegister, ConfirmRead, ConfirmSave, ConfirmFinish, UnlinkSender, UnlinkEndpoint
  <2>5. QED
    BY <1>1, <2>1, <2>2, <2>3, <2>4 DEF SessionStep
<1>2. ASSUME NEW w \in saves, FinishSave(w)
      PROVE  UNCHANGED leaseVars
  BY <1>2 DEF FinishSave
<1>3. CASE CleanupStep
  <2>1. ASSUME RemoveExpired
        PROVE  LeaseNext
    BY <2>1 DEF RemoveExpired, LeaseNext, TypeOK, SessionsTypeOK
  <2>2. ASSUME NEW S \in SUBSET Offline, CollectExpired(S)
        PROVE  UNCHANGED leaseVars
    BY <2>2, Zenon DEF CollectExpired
  <2>3. ASSUME NEW d \in cleanup.expired, ReleaseExpired(d)
        PROVE  UNCHANGED leaseVars
    BY <2>3 DEF ReleaseExpired
  <2>4. QED
    BY <1>3, <2>1, <2>2, <2>3 DEF CleanupStep
<1>4. ASSUME NEW d \in Device, DeleteStep(d)
      PROVE  [LeaseNext]_leaseVars
  <2>1. ASSUME DeleteFromMemory(d)
        PROVE  LeaseNext
    BY <2>1 DEF DeleteFromMemory, LeaseNext
  <2>2. QED
    BY <1>4, <2>1 DEF DeleteStep, DeleteCheck, DeleteFromDatabase
<1>5. QED
  BY <1>1, <1>2, <1>3, <1>4 DEF SessionsNext

-----------------------------------------------------------------------------
(* The VNT side: the tables *)

LEMMA SessionsDatabaseStep ==
    ASSUME TypeOK, DatabaseInv, SessionsNext
    PROVE  DatabaseInv'
<1>1. ASSUME NEW r \in RandomId, SessionStep(r)
      PROVE  DatabaseInv'
  <2>1. CASE ConfirmSave(r)
    <3>1. /\ session[r].device \in Device
          /\ session[r].record \in Assignable \cup {None}
      BY <2>1 DEF TypeOK, SessionsTypeOK, SessionRecord, ConfirmSave
    <3>2. QED
      BY <2>1, <3>1, SaveOrUpdateDeviceKeeps, UnchangedDatabase DEF ConfirmSave
  <2>2. CASE ~ConfirmSave(r)
    <3>1. UNCHANGED dbVars
      BY <1>1, <2>2, Zenon DEF SessionStep, Register, FinishRegister, ConfirmRead,
                        ConfirmFinish, DropConfirmed, DropPending, UnlinkSender, UnlinkEndpoint
    <3>2. QED
      BY <3>1, UnchangedDatabase
  <2>3. QED
    BY <2>1, <2>2
<1>2. ASSUME NEW w \in saves, FinishSave(w)
      PROVE  DatabaseInv'
  <2>1. w.device \in Device /\ w.ip \in Assignable
    BY DEF TypeOK, SessionsTypeOK, SaveRequest
  <2>2. QED
    BY <1>2, <2>1, SaveOrUpdateDeviceKeeps, UnchangedDatabase DEF FinishSave
<1>3. CASE CleanupStep
  <2>1. ASSUME NEW d \in cleanup.expired, ReleaseExpired(d)
        PROVE  DatabaseInv'
    BY <2>1, ReleaseDeviceIpKeeps, UnchangedDatabase DEF ReleaseExpired, TypeOK, SessionsTypeOK
  <2>2. ASSUME NEW S \in SUBSET Offline, CollectExpired(S)
        PROVE  UNCHANGED dbVars
    BY <2>2 DEF CollectExpired
  <2>3. ASSUME RemoveExpired
        PROVE  UNCHANGED dbVars
    BY <2>3 DEF RemoveExpired
  <2>4. QED
    BY <1>3, <2>1, <2>2, <2>3, UnchangedDatabase DEF CleanupStep
<1>4. ASSUME NEW d \in Device, DeleteStep(d)
      PROVE  DatabaseInv'
  <2>1. CASE DeleteFromDatabase(d)
    BY <2>1, DeleteDeviceRowKeeps, UnchangedDatabase DEF DeleteFromDatabase
  <2>2. CASE DeleteCheck(d) \/ DeleteFromMemory(d)
    BY <2>2, UnchangedDatabase DEF DeleteCheck, DeleteFromMemory
  <2>3. QED
    BY <1>4, <2>1, <2>2 DEF DeleteStep
<1>5. QED
  BY <1>1, <1>2, <1>3, <1>4 DEF SessionsNext

-----------------------------------------------------------------------------
(* The VNT side: the maps of the data path *)

LEMMA SessionsEndpointStep ==
    ASSUME TypeOK, AddressExclusive, SessionsNext
    PROVE  EndpointTypeOK'
<1>1. EndpointTypeOK
  BY DEF TypeOK
<1>2. UNCHANGED endpointVars => EndpointTypeOK'
  BY <1>1 DEF EndpointTypeOK, endpointVars
<1>3. ASSUME NEW r \in RandomId, SessionStep(r)
      PROVE  EndpointTypeOK'
  <2>1. ASSUME NEW d \in Device, NEW expect \in Requested, NEW v \in BOOLEAN,
               Register(r, d, expect, v)
        PROVE  EndpointTypeOK'
    <3> DEFINE ip == AllocatedIp(d, expect, v)
               old == ReplacedIp(d, expect)
    <3>1. AttachSender(ip, old, r)
      BY <2>1, Zenon DEF Register
    <3>2. ip \in Assignable
      BY <2>1, AllocatedIpIsOwnOrFree, Zenon DEF Register, AllocateIp, LeaseInv, TypeOK
    <3> HIDE DEF ip, old
    <3>3. QED
      BY <1>1, <3>1, <3>2, AttachSenderType, Zenon
  <2>2. CASE ConfirmFinish(r)
    <3>1. session[r].ip \in Assignable
      BY <2>2 DEF ConfirmFinish, TypeOK, SessionsTypeOK
    <3>2. QED
      BY <1>1, <2>2, <3>1, Zenon DEF ConfirmFinish, ConfirmEndpoint, EndpointTypeOK, Endpoint
  <2>3. CASE DropConfirmed(r)
    BY <1>1, <1>2, <2>3, DetachType, Zenon DEF DropConfirmed
  <2>4. CASE UnlinkSender(r)
    BY <1>1, <2>4, Zenon DEF UnlinkSender, EndpointTypeOK, Owner
  <2>5. CASE UnlinkEndpoint(r)
    BY <1>1, <2>5, Zenon DEF UnlinkEndpoint, EndpointTypeOK, NoEndpoint, Endpoint, Owner
  <2>6. CASE ConfirmRead(r) \/ ConfirmSave(r) \/ DropPending(r)
    BY <1>2, <2>6 DEF ConfirmRead, ConfirmSave, DropPending
  <2>7. ASSUME NEW normal \in BOOLEAN, FinishRegister(r, normal)
        PROVE  EndpointTypeOK'
    BY <1>1, <2>7, AttachEndpointType, Zenon DEF FinishRegister
  <2>8. QED
    BY <1>3, <2>1, <2>2, <2>3, <2>4, <2>5, <2>6, <2>7, Zenon DEF SessionStep
<1>4. ASSUME NEW w \in saves, FinishSave(w)
      PROVE  UNCHANGED endpointVars
  BY <1>4 DEF FinishSave
<1>5. ASSUME CleanupStep
      PROVE  UNCHANGED endpointVars
  BY <1>5 DEF CleanupStep, CollectExpired, RemoveExpired, ReleaseExpired
<1>6. ASSUME NEW d \in Device, DeleteStep(d)
      PROVE  EndpointTypeOK'
  BY <1>1, <1>2, <1>6, DetachType, Zenon DEF DeleteStep, DeleteCheck, DeleteFromMemory,
                                      DeleteFromDatabase
<1>7. QED
  BY <1>2, <1>3, <1>4, <1>5, <1>6 DEF SessionsNext

-----------------------------------------------------------------------------
(* Sessions, background tasks and deletions *)

\* The part of SessionsTypeOK about one session.
SessionOK(s) ==
    /\ s \in SessionRecord
    /\ s.status \notin {"unused", "closed"} =>
          /\ s.device \in Device
          /\ s.ip \in Assignable
          /\ s.status = "saving" => s.record # NoRow

SessionsOK == session \in [RandomId -> SessionRecord] /\ \A r \in RandomId : SessionOK(session[r])

LEMMA SessionUpdate ==
    ASSUME SessionsOK, NEW r \in RandomId, NEW s, SessionOK(s),
           session' = [session EXCEPT ![r] = s]
    PROVE  SessionsOK'
BY Zenon DEF SessionsOK, SessionOK

LEMMA ClosedSessionOK == SessionOK(ClosedSession) /\ SessionOK(UnusedSession)
BY DEF SessionOK, ClosedSession, UnusedSession, SessionRecord, Status

LEMMA SessionStepType ==
    ASSUME TypeOK, AddressExclusive, NEW r \in RandomId, SessionStep(r)
    PROVE  SessionsOK' /\ saves' \subseteq SaveRequest /\ UNCHANGED <<cleanup, deletion>>
<1> USE DEF SessionRecord, Status
<1>1. SessionsOK /\ SessionOK(session[r]) /\ saves \subseteq SaveRequest
  BY Zenon DEF TypeOK, SessionsTypeOK, SessionsOK, SessionOK
<1>2. ASSUME NEW d \in Device, NEW expect \in Requested, NEW v \in BOOLEAN,
             Register(r, d, expect, v)
      PROVE  SessionsOK' /\ saves' \subseteq SaveRequest /\ UNCHANGED <<cleanup, deletion>>
  <2> DEFINE ip == AllocatedIp(d, expect, v)
             s == [status |-> "attaching", device |-> d, ip |-> ip, record |-> None]
  <2>1. ip \in Assignable
    BY <1>2, AllocatedIpIsOwnOrFree, Zenon DEF Register, AllocateIp, LeaseInv, TypeOK
  <2>2. session' = [session EXCEPT ![r] = s]
    BY <1>2, Zenon DEF Register
  <2> HIDE DEF ip
  <2>3. SessionOK(s)
    BY <2>1, Zenon DEF SessionOK
  <2> HIDE DEF s
  <2>4. SessionsOK'
    BY <1>1, <2>2, <2>3, SessionUpdate, Zenon
  <2>5. QED
    BY <1>1, <1>2, <2>4, Zenon DEF Register
<1>3. CASE ConfirmRead(r)
  <2> DEFINE entry == device_map[session[r].device]
             s == [session[r] EXCEPT !.status = IF entry = None THEN "saved" ELSE "saving",
                                     !.record = IF entry = None THEN NoRow ELSE entry.ip]
  <2>1. session[r].device \in Device
    BY <1>1, <1>3 DEF SessionOK, ConfirmRead
  <2>2. entry # None => entry.ip \in Assignable \cup {None}
    BY <2>1, Zenon DEF TypeOK, LeaseTypeOK, Entry
  <2>3. session' = [session EXCEPT ![r] = s]
    BY <1>1, <1>3, Zenon DEF ConfirmRead, SessionsOK
  <2>4. SessionOK(s)
    BY <1>1, <1>3, <2>2, AddressFacts, LeaseConstants, Zenon DEF SessionOK, ConfirmRead
  <2>5. QED
    BY <1>1, <1>3, <2>3, <2>4, SessionUpdate, Zenon DEF ConfirmRead
<1>4. CASE ConfirmSave(r)
  <2> DEFINE s1 == [session[r] EXCEPT !.status = "saved"]
             s2 == [session[r] EXCEPT !.status = "pending", !.record = None]
  <2>1. SessionOK(s1) /\ SessionOK(s2)
    BY <1>1, <1>4, Zenon DEF SessionOK, ConfirmSave
  <2>2. session' = [session EXCEPT ![r] = s1] \/ session' = [session EXCEPT ![r] = s2]
    BY <1>1, <1>4, Zenon DEF ConfirmSave, SessionsOK
  <2>3. QED
    BY <1>1, <1>4, <2>1, <2>2, SessionUpdate DEF ConfirmSave
<1>5. CASE ConfirmFinish(r)
  <2> DEFINE s == [session[r] EXCEPT !.status = "confirmed", !.record = None]
  <2>1. SessionOK(s)
    BY <1>1, <1>5, Zenon DEF SessionOK, ConfirmFinish
  <2>2. session' = [session EXCEPT ![r] = s]
    BY <1>1, <1>5, Zenon DEF ConfirmFinish, SessionsOK
  <2>3. QED
    BY <1>1, <1>5, <2>1, <2>2, SessionUpdate, Zenon DEF ConfirmFinish
<1>6. CASE DropConfirmed(r)
  <2> DEFINE w == [device |-> session[r].device, ip |-> session[r].ip, by |-> r,
                   at |-> "offline"]
  <2>1. w \in SaveRequest
    BY <1>1, <1>6, Zenon DEF SessionOK, DropConfirmed, SaveRequest
  <2>2. saves' \subseteq saves \cup {w}
    BY <1>6, Zenon DEF DropConfirmed
  <2>3. QED
    BY <1>1, <1>6, <2>1, <2>2, ClosedSessionOK, SessionUpdate, Zenon DEF DropConfirmed
<1>7. CASE DropPending(r)
  <2> DEFINE s == [session[r] EXCEPT !.status = "unlink_sender"]
  <2>1. SessionOK(s)
    BY <1>1, <1>7 DEF SessionOK, DropPending
  <2>2. \/ session' = [session EXCEPT ![r] = s]
        \/ session' = [session EXCEPT ![r] = ClosedSession]
    BY <1>1, <1>7 DEF DropPending, SessionsOK
  <2>3. QED
    BY <1>1, <1>7, <2>1, <2>2, ClosedSessionOK, SessionUpdate DEF DropPending
<1>8. CASE UnlinkSender(r)
  <2> DEFINE s == [session[r] EXCEPT !.status = "unlink_endpoint"]
  <2>1. SessionOK(s)
    BY <1>1, <1>8 DEF SessionOK, UnlinkSender
  <2>2. session' = [session EXCEPT ![r] = s]
    BY <1>1, <1>8 DEF UnlinkSender, SessionsOK
  <2>3. QED
    BY <1>1, <1>8, <2>1, <2>2, SessionUpdate, Zenon DEF UnlinkSender
<1>9. CASE UnlinkEndpoint(r)
  BY <1>1, <1>9, ClosedSessionOK, SessionUpdate, Zenon DEF UnlinkEndpoint
<1>10. ASSUME NEW normal \in BOOLEAN, FinishRegister(r, normal)
       PROVE  SessionsOK' /\ saves' \subseteq SaveRequest /\ UNCHANGED <<cleanup, deletion>>
  <2> DEFINE w == [device |-> session[r].device, ip |-> session[r].ip, by |-> r,
                   at |-> "register"]
             s == [session[r] EXCEPT !.status = IF normal THEN "confirmed" ELSE "pending"]
  <2>1. SessionOK(s) /\ w \in SaveRequest
    BY <1>1, <1>10, Zenon DEF SessionOK, FinishRegister, SaveRequest
  <2>2. session' = [session EXCEPT ![r] = s] /\ saves' \subseteq saves \cup {w}
    BY <1>1, <1>10, Zenon DEF FinishRegister, SessionsOK
  <2>3. QED
    BY <1>1, <1>10, <2>1, <2>2, SessionUpdate, Zenon DEF FinishRegister
<1>11. QED
  BY <1>2, <1>3, <1>4, <1>5, <1>6, <1>7, <1>8, <1>9, <1>10, Zenon DEF SessionStep

LEMMA SessionsTypeStep ==
    ASSUME TypeOK, AddressExclusive, SessionsNext
    PROVE  SessionsTypeOK'
<1>1. SessionsTypeOK /\ SessionsOK
  BY Zenon DEF TypeOK, SessionsTypeOK, SessionsOK, SessionOK
<1>2. SessionsOK' /\ saves' \subseteq SaveRequest /\ UNCHANGED <<cleanup, deletion>>
      => SessionsTypeOK'
  BY <1>1, Zenon DEF SessionsTypeOK, SessionsOK, SessionOK
<1>3. ASSUME NEW r \in RandomId, SessionStep(r)
      PROVE  SessionsTypeOK'
  BY <1>2, <1>3, SessionStepType
<1>4. ASSUME NEW w \in saves, FinishSave(w)
      PROVE  SessionsTypeOK'
  BY <1>1, <1>4, Zenon DEF SessionsTypeOK, FinishSave
<1>5. CASE CleanupStep
  <2>1. /\ UNCHANGED <<session, saves, deletion>>
        /\ cleanup' \in [step : {"idle", "collected", "releasing"}, expired : SUBSET Device]
    BY <1>1, <1>5 DEF CleanupStep, CollectExpired, RemoveExpired, ReleaseExpired, NoCleanup,
                      Offline, SessionsTypeOK
  <2>2. QED
    BY <1>1, <2>1, Zenon DEF SessionsTypeOK
<1>6. ASSUME NEW d \in Device, DeleteStep(d)
      PROVE  SessionsTypeOK'
  BY <1>1, <1>6, Zenon DEF SessionsTypeOK, DeleteStep, DeleteCheck, DeleteFromMemory,
                    DeleteFromDatabase
<1>7. QED
  BY <1>3, <1>4, <1>5, <1>6 DEF SessionsNext

-----------------------------------------------------------------------------
(* The inductive invariant of the server *)

ServerInv == TypeOK /\ AddressExclusive /\ DatabaseExclusive

LEMMA RunningLeaseStep ==
    ASSUME TypeOK, Running
    PROVE  [LeaseNext]_leaseVars
BY SessionsLeaseStep, WireGuardLeaseStep DEF Running, VntStep, WireGuardStep

\* A request that has not begun.
LEMMA NoRequestFacts == NoRequest \in RequestRecord /\ NoRequest.step = "idle"
BY Zenon DEF NoRequest, RequestRecord, Step, Operation

LEMMA InitInv == Init => ServerInv
<1> SUFFICES ASSUME Init
             PROVE  ServerInv
  OBVIOUS
<1>1. DatabaseInv
  BY DatabaseInitInv DEF Init
<1>2. LeaseInv
  BY <1>1, LoadedIsExclusive DEF Init, DatabaseInv, DatabaseTypeOK
<1>3. EndpointTypeOK
  BY Zenon DEF Init, NoEndpoints, EndpointTypeOK, NoEndpoint, Endpoint, Owner
<1>4. SessionsTypeOK
  BY Zenon DEF Init, SessionsInit, SessionsTypeOK, UnusedSession, SessionRecord, Status, NoCleanup
<1>5. WireGuardTypeOK /\ unread \subseteq Peer
  <2>1. /\ request \in [Request -> RequestRecord]
        /\ \A q \in Request : request[q].step = "idle"
    BY NoRequestFacts DEF Init, WireGuardInit
  <2>2. commands \in Seq([peer : Peer, by : Request \cup {None}])
    BY DEF Init, WireGuardInit, RuntimeIdle
  <2>3. /\ update_lock \in Request \cup {None} /\ unread \subseteq Peer
        /\ handshake \in [peer : Peer, ip : Assignable] \cup {None}
        /\ active \in [Peer -> Assignable \cup {None}] /\ errored \subseteq Peer
    BY Zenon DEF Init, WireGuardInit, RuntimeIdle
  <2>4. QED
    BY <2>1, <2>2, <2>3, Zenon DEF WireGuardTypeOK
<1>6. QED
  BY <1>1, <1>2, <1>3, <1>4, <1>5
     DEF ServerInv, TypeOK, DatabaseInv, DatabaseExclusive, LeaseInv

LEMMA RunningKeeps ==
    ASSUME ServerInv, Running
    PROVE  ServerInv'
<1>1. TypeOK /\ AddressExclusive /\ LeaseInv /\ DatabaseInv
  BY DEF ServerInv, TypeOK, LeaseInv, DatabaseInv, DatabaseExclusive
<1>2. LeaseInv'
  BY <1>1, RunningLeaseStep, LeaseNextKeeps
<1>3. CASE SessionsNext /\ UNCHANGED <<wireguardVars, unread>>
  <2>1. WireGuardTypeOK' /\ unread' \subseteq Peer
    BY <1>1, <1>3, Zenon DEF TypeOK, WireGuardTypeOK, wireguardVars
  <2>2. DatabaseInv' /\ EndpointTypeOK' /\ SessionsTypeOK'
    BY <1>1, <1>3, SessionsDatabaseStep, SessionsEndpointStep, SessionsTypeStep, Zenon
  <2>3. QED
    BY <1>2, <2>1, <2>2 DEF ServerInv, TypeOK, LeaseInv, DatabaseInv, DatabaseExclusive
<1>4. CASE WireGuardNext /\ UNCHANGED <<sessionVars, unread>>
  <2>1. SessionsTypeOK' /\ unread' \subseteq Peer
    BY <1>1, <1>4, Zenon DEF TypeOK, SessionsTypeOK, sessionVars
  <2>2. DatabaseInv' /\ EndpointTypeOK' /\ WireGuardTypeOK'
    BY <1>1, <1>4, WireGuardDatabaseStep, WireGuardEndpointStep, WireGuardTypeStep
  <2>3. QED
    BY <1>2, <2>1, <2>2, Zenon DEF ServerInv, TypeOK, LeaseInv, DatabaseInv, DatabaseExclusive
<1>5. QED
  BY <1>3, <1>4 DEF Running, VntStep, WireGuardStep

LEMMA RestartKeeps ==
    ASSUME ServerInv, Restart
    PROVE  ServerInv'
<1>1. DatabaseInv /\ DatabaseInv'
  BY UnchangedDatabase, Zenon DEF ServerInv, TypeOK, DatabaseInv, DatabaseExclusive, Restart
<1>2. LeaseInv'
  <2>1. PICK rows \in {devices, [d \in Device |-> NoRow]},
             allocations \in {ip_allocations, [p \in Peer |-> None]} : Load(rows, allocations)
    BY Zenon DEF Restart, ReadTables
  <2>2. rows \in DeviceRows /\ allocations \in PeerRows
    BY <1>1, Zenon DEF DatabaseInv, DatabaseTypeOK, DeviceRows, PeerRows
  <2>3. UniqueAllocations(rows, allocations)
    <3>1. /\ \A d \in Device : rows[d] \in Assignable => rows[d] = devices[d]
          /\ \A p \in Peer : allocations[p] \in Assignable => allocations[p] = ip_allocations[p]
      BY RowFacts
    <3>2. /\ \A d, e \in Device : devices[d] = devices[e] /\ devices[d] \in Assignable => d = e
          /\ \A p, q \in Peer :
                ip_allocations[p] = ip_allocations[q] /\ ip_allocations[p] \in Assignable => p = q
          /\ \A d \in Device, p \in Peer :
                devices[d] = ip_allocations[p] => devices[d] \notin Assignable
      BY <1>1, Zenon DEF DatabaseInv, UniqueAllocations
    <3>3. \A d, e \in Device : rows[d] = rows[e] /\ rows[d] \in Assignable => d = e
      BY <3>1, <3>2, Zenon
    <3>4. \A p, q \in Peer :
             allocations[p] = allocations[q] /\ allocations[p] \in Assignable => p = q
      BY <3>1, <3>2, Zenon
    <3>5. \A d \in Device, p \in Peer : rows[d] = allocations[p] => rows[d] \notin Assignable
      BY <3>1, <3>2, Zenon
    <3>6. QED
      BY <3>3, <3>4, <3>5, Zenon DEF UniqueAllocations
  <2>4. QED
    BY <2>1, <2>2, <2>3, LoadGivesExclusive
<1>3. EndpointTypeOK'
  BY Zenon DEF Restart, EndpointTypeOK, NoEndpoint, Endpoint, Owner
<1>4. SessionsTypeOK'
  BY DEF Restart, SessionsTypeOK, UnusedSession, ClosedSession, SessionRecord, Status, NoCleanup
<1>5. WireGuardTypeOK' /\ unread' \subseteq Peer
  <2>1. /\ request' \in [Request -> RequestRecord]
        /\ \A q \in Request : request'[q].step = "idle"
    BY NoRequestFacts, Zenon DEF Restart
  <2>2. commands' \in Seq([peer : Peer, by : Request \cup {None}])
    BY DEF Restart
  <2>3. /\ update_lock' \in Request \cup {None}
        /\ handshake' \in [peer : Peer, ip : Assignable] \cup {None}
        /\ active' \in [Peer -> Assignable \cup {None}] /\ errored' \subseteq Peer
    BY Zenon DEF Restart
  <2>4. unread' \subseteq Peer
    BY Zenon DEF Restart, ReadTables
  <2>5. QED
    BY <2>1, <2>2, <2>3, <2>4, Zenon DEF WireGuardTypeOK
<1>6. QED
  BY <1>1, <1>2, <1>3, <1>4, <1>5, Zenon
     DEF ServerInv, TypeOK, DatabaseInv, DatabaseExclusive, LeaseInv

LEMMA NextKeeps == ServerInv /\ [Next]_vars => ServerInv'
<1> SUFFICES ASSUME ServerInv, [Next]_vars
             PROVE  ServerInv'
  OBVIOUS
<1>1. CASE UNCHANGED vars
  <2>1. /\ UNCHANGED leaseVars /\ UNCHANGED endpointVars /\ UNCHANGED dbVars
        /\ UNCHANGED sessionVars /\ UNCHANGED wireguardVars /\ UNCHANGED unread
    BY <1>1 DEF vars
  <2>2. LeaseInv'
    BY <2>1, LeaseNextKeeps DEF ServerInv, TypeOK, LeaseInv
  <2>3. DatabaseInv'
    BY <2>1, UnchangedDatabase DEF ServerInv, TypeOK, DatabaseInv, DatabaseExclusive
  <2>4. EndpointTypeOK' /\ SessionsTypeOK' /\ WireGuardTypeOK' /\ unread' \subseteq Peer
    BY <2>1, Zenon DEF ServerInv, TypeOK, EndpointTypeOK, SessionsTypeOK, WireGuardTypeOK,
                endpointVars, sessionVars, wireguardVars
  <2>5. QED
    BY <2>2, <2>3, <2>4, Zenon DEF ServerInv, TypeOK, LeaseInv, DatabaseInv, DatabaseExclusive
<1>2. QED
  BY <1>1, RunningKeeps, RestartKeeps DEF Next

LEMMA ServerInvHolds == Spec => []ServerInv
BY InitInv, NextKeeps, PTL DEF Spec

-----------------------------------------------------------------------------
(* Theorems *)

\* Every variable of the server keeps its type, sessions and requests under way
\* have the owner and the address their next step uses.
THEOREM ServerTypeCorrect == Spec => []TypeOK
<1>1. ServerInv => TypeOK
  BY DEF ServerInv
<1>2. QED
  BY ServerInvHolds, <1>1, PTL

\* However sessions, background tasks, deletions, management requests, dropped
\* requests and crashes interleave, the address book never has two owners for an
\* address.
THEOREM ServerExclusive == Spec => []AddressExclusive
<1>1. ServerInv => AddressExclusive
  BY DEF ServerInv
<1>2. QED
  BY ServerInvHolds, <1>1, PTL

\* ... and neither have the tables, from which the next process starts.
THEOREM TablesExclusive == Spec => []DatabaseExclusive
<1>1. ServerInv => DatabaseExclusive
  BY DEF ServerInv
<1>2. QED
  BY ServerInvHolds, <1>1, PTL

\* While the process runs, an address is free between two owners.
THEOREM ServerNoHandover == Spec => NoHandover
<1> DEFINE Free(a) == OwnerOf(a) # None => OwnerOf(a)' \in {OwnerOf(a), None}
<1>1. OwnersStep => \A a \in Assignable : Free(a)
  BY Zenon DEF OwnersStep, GivesBack
<1>2. UNCHANGED leaseVars => \A a \in Assignable : Free(a)
  BY Zenon DEF leaseVars, OwnerOf
<1>3. ServerInv /\ Running => \A a \in Assignable : Free(a)
  BY <1>1, <1>2, RunningLeaseStep, LeaseNextOwners DEF ServerInv, TypeOK, LeaseInv
<1>4. ServerInv /\ [Next]_vars => [(\A a \in Assignable : Free(a)) \/ Restart]_vars
  BY <1>3 DEF Next
<1>5. QED
  BY ServerInvHolds, <1>4, PTL DEF Spec, NoHandover

=============================================================================
