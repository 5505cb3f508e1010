---------------------------- MODULE TunnelProofs ----------------------------
(***************************************************************************)
(* Proofs that a management request brings the database, the address book  *)
(* and the runtime together again.  Both theorems are about a server whose *)
(* handlers run to their end (~RequestsDroppable): a request dropped at an *)
(* await leaves the three apart, which is what MCDropped shows.            *)
(* ReservationInv relates the address book and the tables at every step of *)
(* a request, TunnelInv says why every tunnel still is, or is about to be, *)
(* what the tables say.                                                    *)
(***************************************************************************)
EXTENDS SafetyProofs

-----------------------------------------------------------------------------
(* Reservations in the address book and in the tables *)

\* The two agree about the peer; a peer unread at the start may be missing in
\* the address book.
Settled(p) ==
    \A a \in Assignable :
        /\ wireguard_peer_ip_map[a] = p => ip_allocations[p] = a
        /\ ip_allocations[p] = a /\ p \notin unread => wireguard_peer_ip_map[a] = p

\* A request has occupied an address and has not heard of the database ...
Prepared(q) == request[q].op \in Reserving /\ request[q].step \in {"persist", "rollback"}

\* ... or has, and has yet to bring the address book after it.
Committing(q) == request[q].step = "commit"

\* The address book has the address in addition to the one in the table, and
\* previous_ip is the latter wherever the request knows of it.
PreparedFits(q) ==
    LET p == request[q].peer
        ip == request[q].ip
        previous_ip == request[q].previous_ip IN
    /\ \A a \in Assignable :
          /\ wireguard_peer_ip_map[a] = p => a = ip \/ ip_allocations[p] = a
          /\ ip_allocations[p] = a /\ p \notin unread => wireguard_peer_ip_map[a] = p
          /\ request[q].op # "create_auto" /\ wireguard_peer_ip_map[a] = p => a \in {ip, previous_ip}
    /\ previous_ip # None => ip_allocations[p] = previous_ip
    /\ p \notin unread /\ ip_allocations[p] = ip => previous_ip = ip

\* The table has the new address, the address book perhaps the old one too; after
\* a release or a deletion the table has none.
CommittingFits(q) ==
    LET p == request[q].peer IN
    IF request[q].op \in Reserving
    THEN /\ ip_allocations[p] = request[q].ip
         /\ \A a \in Assignable :
               wireguard_peer_ip_map[a] = p => a \in {request[q].ip, request[q].previous_ip}
    ELSE ip_allocations[p] = None

Fits(q) == (Prepared(q) => PreparedFits(q)) /\ (Committing(q) => CommittingFits(q))

ReservationInv ==
    /\ \A p \in Peer :
          Settled(p) \/ \E q \in Request : request[q].peer = p /\ (Prepared(q) \/ Committing(q))
    /\ \A q \in Request : Fits(q)

\* While q has the lock, or nobody, no other request has one under way ...
LEMMA OthersNotUnderWay ==
    ASSUME LockHeld, NEW q \in Request, update_lock \in {q, None}
    PROVE  \A o \in Request : o # q => ~Prepared(o) /\ ~Committing(o)
BY WireGuardConstants DEF LockHeld, LockSteps, Prepared, Committing

\* ... so that the peers of other requests are settled.
LEMMA OthersSettled ==
    ASSUME LockHeld, ReservationInv, NEW q \in Request, update_lock \in {q, None}
    PROVE  \A x \in Peer : x # request[q].peer \/ ~(Prepared(q) \/ Committing(q)) => Settled(x)
BY OthersNotUnderWay DEF ReservationInv

\* A peer stays settled when its row and its addresses stay the same.
LEMMA StaysSettled ==
    ASSUME NEW x, Settled(x), UNCHANGED unread, ip_allocations'[x] = ip_allocations[x],
           \A a \in Assignable : wireguard_peer_ip_map'[a] = x <=> wireguard_peer_ip_map[a] = x
    PROVE  Settled(x)'
BY DEF Settled

\* Nothing that the invariant speaks of changes.
LEMMA SameReservation ==
    ASSUME ReservationInv, UNCHANGED <<wireguard_peer_ip_map, ip_allocations, unread>>,
           \A o \in Request :
              \/ request'[o] = request[o]
              \/ /\ \/ request[o].step \in {"load", "revoke", "await_ack"}
                    \/ request[o].step = "persist" /\ request[o].op \notin Reserving
                 /\ request'[o].step \in {"idle", "load", "revoke", "await_ack"}
    PROVE  ReservationInv'
<1>1. \A x \in Peer : Settled(x) => Settled(x)'
  BY DEF Settled
<1>2. \A o \in Request :
         \/ request'[o] = request[o]
         \/ ~Prepared(o) /\ ~Committing(o) /\ ~Prepared(o)' /\ ~Committing(o)'
  BY DEF Prepared, Committing
<1>3. \A o \in Request : Fits(o)'
  BY <1>2 DEF ReservationInv, Fits, Prepared, Committing, PreparedFits, CommittingFits
<1>4. QED
  BY <1>1, <1>2, <1>3 DEF ReservationInv, Prepared, Committing

-----------------------------------------------------------------------------
(* One step at a time *)

\* A request without a reservation takes the lock.
LEMMA BeginReservation ==
    ASSUME TypeOK, LockInv, ReservationInv, NEW q \in Request, NEW p \in Peer, NEW op \in Operation,
           Begin(q, op, p), UNCHANGED unread
    PROVE  ReservationInv'
<1>1. RequestsOK
  BY WireGuardTypeIs DEF TypeOK
<1>2. /\ request'[q].step = "persist" /\ request'[q].op = op /\ op \notin Reserving
      /\ \A o \in Request : o # q => request'[o] = request[o]
      /\ update_lock = None /\ request[q].step = "idle"
  BY <1>1, AcquireShape DEF Begin, Reserving
<1>3. UNCHANGED <<wireguard_peer_ip_map, ip_allocations>>
  BY DEF Begin, Acquire, leaseVars, dbVars
<1>4. \A x \in Peer : Settled(x)
  BY <1>2, OthersSettled DEF LockInv, Prepared, Committing
<1>5. \A x \in Peer : Settled(x)'
  BY <1>3, <1>4 DEF Settled
<1>6. \A o \in Request : ~Prepared(o)' /\ ~Committing(o)'
  BY <1>2, OthersNotUnderWay DEF LockInv, Prepared, Committing
<1>7. QED
  BY <1>5, <1>6 DEF ReservationInv, Fits

\* A request occupies an address: previous_ip is the one the table has.
LEMMA PrepareReservationFits ==
    ASSUME TypeOK, LockInv, ReservationInv, NEW q \in Request, NEW p \in Peer, NEW op \in Reserving,
           NEW ip \in Assignable, NEW previous_ip \in Assignable \cup {None},
           Acquire(q, op, p, ip, previous_ip), PrepareReservation(p, ip), UNCHANGED unread,
           IF op = "create_auto"
           THEN previous_ip = None /\ wireguard_peer_ip_map[ip] = None
           ELSE previous_ip \in PreviousIps(p)
    PROVE  ReservationInv'
<1>1. RequestsOK /\ wireguard_peer_ip_map \in [Assignable -> Peer \cup {None}]
  BY WireGuardTypeIs DEF TypeOK, LeaseTypeOK
<1>2. /\ request'[q].step = "persist" /\ request'[q].op = op /\ request'[q].peer = p
      /\ request'[q].ip = ip /\ request'[q].previous_ip = previous_ip
      /\ \A o \in Request : o # q => request'[o] = request[o]
      /\ update_lock = None /\ request[q].step = "idle"
  BY <1>1, AcquireShape
<1>3. \A x \in Peer : Settled(x)
  BY <1>2, OthersSettled DEF LockInv, Prepared, Committing
<1>4. /\ UNCHANGED ip_allocations /\ wireguard_peer_ip_map[ip] \in {None, p}
      /\ \A a \in Assignable :
            wireguard_peer_ip_map'[a] = IF a = ip THEN p ELSE wireguard_peer_ip_map[a]
  BY <1>1 DEF Acquire, dbVars, PrepareReservation, CanPrepare
<1>5. \A x \in Peer : x # p => Settled(x)'
  BY <1>3, <1>4, StaysSettled, LeaseConstants
<1>6. /\ \A a \in Assignable : wireguard_peer_ip_map[a] = p => ip_allocations[p] = a
      /\ \A a \in Assignable :
            ip_allocations[p] = a /\ p \notin unread => wireguard_peer_ip_map[a] = p
  BY <1>3 DEF Settled
<1>7. op # "create_auto" =>
         /\ previous_ip # None => wireguard_peer_ip_map[previous_ip] = p
         /\ \A a \in Assignable : wireguard_peer_ip_map[a] = p => previous_ip = a
  BY <1>6, AddressFacts DEF PreviousIps, ReservedIps
<1>8. PreparedFits(q)'
  <2>1. \A a \in Assignable :
           /\ wireguard_peer_ip_map'[a] = p => a = ip \/ ip_allocations[p] = a
           /\ ip_allocations[p] = a /\ p \notin unread => wireguard_peer_ip_map'[a] = p
           /\ op # "create_auto" /\ wireguard_peer_ip_map'[a] = p => a \in {ip, previous_ip}
    BY <1>4, <1>6, <1>7
  <2>2. previous_ip # None => ip_allocations[p] = previous_ip
    BY <1>6, <1>7
  <2>3. p \notin unread /\ ip_allocations[p] = ip => previous_ip = ip
    BY <1>6, <1>7, LeaseConstants
  <2>4. QED
    BY <1>2, <1>4, <2>1, <2>2, <2>3 DEF PreparedFits
<1>9. \A o \in Request : o # q => ~Prepared(o)' /\ ~Committing(o)'
  BY <1>2, OthersNotUnderWay DEF LockInv, Prepared, Committing
<1>10. Fits(q)' /\ Prepared(q)'
  BY <1>2, <1>8 DEF Fits, Prepared, Committing
<1>11. QED
  BY <1>2, <1>5, <1>9, <1>10 DEF ReservationInv, Fits

\* The request that holds the lock changes its own peer only, and goes on to
\* commit: the other peers stay settled.
LEMMA GoesToCommit ==
    ASSUME LockInv, ReservationInv, NEW q \in Request, update_lock = q, UNCHANGED unread,
           UNCHANGED wireguard_peer_ip_map, ip_allocations \in PeerRows,
           NEW row, ip_allocations' = [ip_allocations EXCEPT ![request[q].peer] = row],
           request'[q].step = "commit", request'[q].peer = request[q].peer,
           \A o \in Request : o # q => request'[o] = request[o], CommittingFits(q)'
    PROVE  ReservationInv'
<1>1. \A x \in Peer : x # request[q].peer => Settled(x)
  BY OthersSettled DEF LockInv
<1>2. \A x \in Peer : x # request[q].peer => Settled(x)'
  BY <1>1, StaysSettled DEF PeerRows
<1>3. \A o \in Request : o # q => ~Prepared(o)' /\ ~Committing(o)'
  BY OthersNotUnderWay DEF LockInv, Prepared, Committing
<1>4. Committing(q)' /\ ~Prepared(q)'
  BY DEF Committing, Prepared
<1>5. QED
  BY <1>2, <1>3, <1>4 DEF ReservationInv, Fits

LEMMA PersistReservation ==
    ASSUME TypeOK, LockInv, ReservationInv, NEW q \in Request, Persist(q), UNCHANGED unread
    PROVE  ReservationInv'
<1>1. RequestsOK /\ ip_allocations \in PeerRows
  BY WireGuardTypeIs DEF TypeOK, DatabaseTypeOK
<1>2. PICK op, p, ip, previous_ip :
         /\ op = request[q].op /\ p = request[q].peer /\ ip = request[q].ip
         /\ previous_ip = request[q].previous_ip /\ p \in Peer
  BY <1>1 DEF Persist, RequestsOK, RequestOK
<1>3. request[q].step = "persist" /\ update_lock = q /\ UNCHANGED wireguard_peer_ip_map
  BY Zenon DEF Persist, LockInv, LockHeld, LockSteps, leaseVars
<1>4. CASE op \in {"create", "enable", "disable"}
  <2>1. UNCHANGED ip_allocations
    BY <1>2, <1>4, Zenon DEF Persist, InsertPeer, SetPeerEnabled, dbVars
  <2>2. request'[q].step \in {"idle", "load"} /\ \A o \in Request : o # q => request'[o] = request[o]
    BY <1>1, <1>2, <1>4, ReturnShape, AdvanceShape, Zenon DEF Persist
  <2>3. QED
    BY <1>2, <1>3, <1>4, <2>1, <2>2, SameReservation DEF Reserving
<1>5. CASE op \in Reserving
  <2>1. Advance(q, "commit")
    BY <1>2, <1>5, Zenon DEF Persist, Reserving
  <2>2. /\ request'[q].step = "commit" /\ request'[q].op = op /\ request'[q].peer = p
        /\ request'[q].ip = ip /\ request'[q].previous_ip = previous_ip
        /\ \A o \in Request : o # q => request'[o] = request[o]
    BY <1>1, <1>2, <2>1, AdvanceShape
  <2>3. /\ ip_allocations' = [ip_allocations EXCEPT ![p] = ip]
        /\ op = "create_auto" => ip_allocations[p] = None
    BY <1>2, <1>5, Zenon DEF Persist, Reserving, InsertPeerWithIp, ReservePeerIpRow
  <2>4. PreparedFits(q)
    BY <1>2, <1>3, <1>5 DEF ReservationInv, Fits, Prepared
  <2>5. \A a \in Assignable : wireguard_peer_ip_map[a] = p => a \in {ip, previous_ip}
    BY <1>2, <2>3, <2>4, AddressFacts, Zenon DEF PreparedFits
  <2>6. CommittingFits(q)'
    BY <1>1, <1>2, <1>3, <1>5, <2>2, <2>3, <2>5, Zenon DEF CommittingFits, PeerRows
  <2>7. QED
    BY <1>1, <1>2, <1>3, <2>2, <2>3, <2>6, GoesToCommit, Zenon
<1>6. CASE op \in {"release", "delete"}
  <2>1. ip_allocations' = [ip_allocations EXCEPT ![p] = None]
    BY <1>2, <1>6 DEF Persist, ReleasePeerIpRow, DeletePeer
  <2>2. /\ request'[q].step = "commit" /\ request'[q].op = op /\ request'[q].peer = p
        /\ \A o \in Request : o # q => request'[o] = request[o]
    BY <1>1, <1>2, <1>6, AdvanceShape, ReleaseShape, ZenonT(40) DEF Persist
  <2>3. CommittingFits(q)'
    BY <1>1, <1>2, <1>6, <2>1, <2>2 DEF CommittingFits, Reserving, PeerRows
  <2>4. QED
    BY <1>1, <1>2, <1>3, <2>1, <2>2, <2>3, GoesToCommit, Zenon
<1>7. QED
  BY <1>2, <1>4, <1>5, <1>6 DEF Persist, Reserving

\* A rollback or a commit: the request is done with the address book, and what it
\* leaves there for its peer is what the table says.
LEMMA EndsSettled ==
    ASSUME LockInv, ReservationInv, NEW q \in Request, update_lock = q,
           UNCHANGED <<ip_allocations, unread>>,
           request'[q].step \notin MoveSteps,
           \A o \in Request : o # q => request'[o] = request[o],
           NEW p \in Peer, p = request[q].peer, Settled(p)',
           \A x \in Peer, a \in Assignable :
              x # p => (wireguard_peer_ip_map'[a] = x <=> wireguard_peer_ip_map[a] = x)
    PROVE  ReservationInv'
<1>1. \A x \in Peer : x # p => Settled(x)
  BY OthersSettled DEF LockInv
<1>2. \A x \in Peer : Settled(x)'
  BY <1>1, StaysSettled
<1>3. \A o \in Request : ~Prepared(o)' /\ ~Committing(o)'
  BY OthersNotUnderWay DEF LockInv, Prepared, Committing, MoveSteps
<1>4. QED
  BY <1>2, <1>3, Zenon DEF ReservationInv, Fits

LEMMA RollbackReservationFits ==
    ASSUME TypeOK, LockInv, ReservationInv, NEW q \in Request, Rollback(q), UNCHANGED unread
    PROVE  ReservationInv'
<1>1. RequestsOK /\ wireguard_peer_ip_map \in [Assignable -> Peer \cup {None}]
  BY WireGuardTypeIs DEF TypeOK, LeaseTypeOK
<1>2. PICK p, ip, previous_ip :
         /\ p = request[q].peer /\ ip = request[q].ip /\ previous_ip = request[q].previous_ip
         /\ p \in Peer /\ ip \in Assignable
  BY <1>1 DEF Rollback, RequestsOK, RequestOK, LockInv, RollsBackReservation
<1>3. /\ update_lock = q /\ UNCHANGED ip_allocations /\ request'[q].step \notin MoveSteps
      /\ \A o \in Request : o # q => request'[o] = request[o]
  BY <1>1, ReturnShape DEF Rollback, LockInv, LockHeld, LockSteps, MoveSteps, dbVars
<1>4. PreparedFits(q)
  BY DEF Rollback, LockInv, RollsBackReservation, ReservationInv, Fits, Prepared
<1>5. \A a \in Assignable :
         wireguard_peer_ip_map'[a] = IF a = ip /\ previous_ip # ip /\ wireguard_peer_ip_map[a] = p
                                     THEN None ELSE wireguard_peer_ip_map[a]
  BY <1>1, <1>2 DEF Rollback, RollbackReservation, DropReservation, leaseVars
<1>6. Settled(p)'
  BY <1>2, <1>3, <1>4, <1>5, LeaseConstants, AddressFacts, ZenonT(40) DEF Settled, PreparedFits
<1>7. \A x \in Peer, a \in Assignable :
         x # p => (wireguard_peer_ip_map'[a] = x <=> wireguard_peer_ip_map[a] = x)
  BY <1>5, LeaseConstants
<1>8. QED
  BY <1>2, <1>3, <1>6, <1>7, EndsSettled

LEMMA CommitReservationFits ==
    ASSUME TypeOK, LockInv, ReservationInv, NEW q \in Request, Commit(q), UNCHANGED unread
    PROVE  ReservationInv'
<1>1. RequestsOK /\ wireguard_peer_ip_map \in [Assignable -> Peer \cup {None}]
  BY WireGuardTypeIs DEF TypeOK, LeaseTypeOK
<1>2. PICK p, ip, previous_ip :
         /\ p = request[q].peer /\ ip = request[q].ip /\ previous_ip = request[q].previous_ip
         /\ p \in Peer
  BY <1>1, Zenon DEF Commit, RequestsOK, RequestOK
<1>3. /\ update_lock = q /\ UNCHANGED ip_allocations /\ request'[q].step \notin MoveSteps
      /\ \A o \in Request : o # q => request'[o] = request[o]
  <2>1. request[q].step = "commit" /\ (Return(q) \/ Advance(q, "revoke"))
    BY CommitControl, Zenon
  <2>2. update_lock = q /\ UNCHANGED ip_allocations
    BY <2>1, Zenon DEF Commit, LockInv, LockHeld, LockSteps, dbVars
  <2>3. /\ request'[q].step \in {"idle", "revoke"}
        /\ \A o \in Request : o # q => request'[o] = request[o]
    BY <1>1, <2>1, ReturnShape, AdvanceShape, Zenon
  <2>4. QED
    BY <2>2, <2>3, Zenon DEF MoveSteps
<1>4. CommittingFits(q)
  BY Zenon DEF Commit, ReservationInv, Fits, Committing
<1>5. CASE request[q].op \in Reserving
  <2>1. \A a \in Assignable :
           wireguard_peer_ip_map'[a] =
              IF a = previous_ip /\ previous_ip # ip /\ wireguard_peer_ip_map[a] = p
              THEN None ELSE wireguard_peer_ip_map[a]
    BY <1>1, <1>2, <1>5, Zenon DEF Commit, Reserving, CommitReservation, DropReservation, leaseVars
  <2>2. wireguard_peer_ip_map[ip] = p
    BY <1>2, <1>5, Zenon DEF Commit, LockInv, MoveHoldsBothAddresses
  <2>3. Settled(p)'
    BY <1>2, <1>3, <1>4, <1>5, <2>1, <2>2, LeaseConstants DEF Settled, CommittingFits
  <2>4. \A x \in Peer, a \in Assignable :
           x # p => (wireguard_peer_ip_map'[a] = x <=> wireguard_peer_ip_map[a] = x)
    BY <2>1, LeaseConstants, Zenon
  <2>5. QED
    BY <1>2, <1>3, <2>3, <2>4, EndsSettled, Zenon
<1>6. CASE request[q].op \notin Reserving
  <2>1. ReleaseReservation(p)
    BY <1>2, <1>6, Zenon DEF Commit, Reserving
  <2>2. Settled(p)'
    BY <1>2, <1>3, <1>4, <1>6, <2>1, LeaseConstants, AddressFacts, Zenon
       DEF Settled, CommittingFits, ReleaseReservation
  <2>3. \A x \in Peer, a \in Assignable :
           x # p => (wireguard_peer_ip_map'[a] = x <=> wireguard_peer_ip_map[a] = x)
    BY <2>1, LeaseConstants DEF ReleaseReservation
  <2>4. QED
    BY <1>2, <1>3, <2>2, <2>3, EndsSettled
<1>7. QED
  BY <1>5, <1>6

LEMMA RequestReservation ==
    ASSUME TypeOK, LockInv, ReservationInv, NEW q \in Request, RequestStep(q), UNCHANGED unread
    PROVE  ReservationInv'
<1>1. RequestsOK
  BY WireGuardTypeIs DEF TypeOK
<1>2. CASE PersistFails(q) /\ request[q].op \in Reserving
  <2>1. /\ request'[q].step = "rollback" /\ request'[q].op = request[q].op
        /\ request'[q].peer = request[q].peer /\ request'[q].ip = request[q].ip
        /\ request'[q].previous_ip = request[q].previous_ip
        /\ \A o \in Request : o # q => request'[o] = request[o]
    BY <1>1, <1>2, AdvanceShape, Zenon DEF PersistFails
  <2>2. UNCHANGED <<wireguard_peer_ip_map, ip_allocations>>
    BY <1>2 DEF PersistFails, leaseVars, dbVars
  <2>3. \A x \in Peer : Settled(x) => Settled(x)'
    BY <2>2, StaysSettled
  <2>4. Prepared(q) /\ Prepared(q)' /\ ~Committing(q)'
    BY <1>2, <2>1, Zenon DEF PersistFails, Prepared, Committing
  <2>5. PreparedFits(q)'
    BY <2>1, <2>2, <2>4 DEF ReservationInv, Fits, PreparedFits
  <2>6. update_lock = q
    BY <1>2 DEF PersistFails, LockInv, LockHeld, LockSteps
  <2>7. \A o \in Request : o # q => /\ ~Prepared(o) /\ ~Committing(o)
                                    /\ ~Prepared(o)' /\ ~Committing(o)'
    BY <2>1, <2>6, OthersNotUnderWay DEF LockInv, Prepared, Committing
  <2>8. QED
    BY <2>1, <2>3, <2>4, <2>5, <2>7, Zenon DEF ReservationInv, Fits
<1>3. CASE PersistFails(q) /\ request[q].op \notin Reserving
  <2>1. UNCHANGED <<wireguard_peer_ip_map, ip_allocations>> /\ request[q].step = "persist"
    BY <1>3 DEF PersistFails, leaseVars, dbVars
  <2>2. request'[q].step = "idle" /\ \A o \in Request : o # q => request'[o] = request[o]
    BY <1>1, <1>3, ReturnShape, Zenon DEF PersistFails
  <2>3. QED
    BY <1>3, <2>1, <2>2, SameReservation
<1>4. CASE LoadUpdated(q) \/ LoadFails(q)
  <2>1. UNCHANGED <<wireguard_peer_ip_map, ip_allocations>> /\ request[q].step = "load"
    BY <1>4 DEF LoadUpdated, LoadFails, leaseVars, dbVars
  <2>2. /\ request'[q].step \in {"idle", "revoke"}
        /\ \A o \in Request : o # q => request'[o] = request[o]
    BY <1>1, <1>4, ReturnShape, AdvanceShape, Zenon DEF LoadUpdated, LoadFails
  <2>3. QED
    BY <2>1, <2>2, SameReservation
<1>5. CASE SendRevoke(q)
  <2>1. UNCHANGED <<wireguard_peer_ip_map, ip_allocations>> /\ request[q].step = "revoke"
    BY <1>5 DEF SendRevoke, leaseVars, dbVars
  <2>2. request'[q].step = "await_ack" /\ \A o \in Request : o # q => request'[o] = request[o]
    BY <1>1, <1>5, AdvanceShape, Zenon DEF SendRevoke
  <2>3. QED
    BY <2>1, <2>2, SameReservation
<1>6. QED
  BY <1>2, <1>3, <1>4, <1>5, PersistReservation, RollbackReservationFits, CommitReservationFits
     DEF RequestStep

LEMMA WireGuardReservation ==
    ASSUME ~RequestsDroppable, TypeOK, AddressExclusive, LockInv, ReservationInv, WireGuardNext,
           UNCHANGED unread
    PROVE  ReservationInv'
<1>1. RequestsOK /\ RuntimeOK
  BY WireGuardTypeIs DEF TypeOK
<1>2. ASSUME NEW q \in Request, NEW p \in Peer, NEW op \in Operation, NEW ip \in Assignable,
             BeginReserve(q, op, p, ip)
      PROVE  ReservationInv'
  <2>1. PICK previous_ip \in PreviousIps(p) : Acquire(q, op, p, ip, previous_ip)
    BY <1>2 DEF BeginReserve
  <2>2. previous_ip \in Assignable \cup {None}
    BY <2>1 DEF PreviousIps, ReservedIps
  <2>3. op \in Reserving /\ op # "create_auto" /\ PrepareReservation(p, ip)
    BY <1>2 DEF BeginReserve, Reserving
  <2>4. QED
    BY <2>1, <2>2, <2>3, PrepareReservationFits, Zenon
<1>3. ASSUME NEW q \in Request, NEW p \in Peer, BeginCreateAuto(q, p)
      PROVE  ReservationInv'
  <2>1. PICK ip \in Assignable : ip = FindAvailableIp /\ wireguard_peer_ip_map[ip] = None
    BY <1>3, FindAvailableIpIsFree, AddressFacts, Zenon DEF BeginCreateAuto, FreeHosts, OwnerOf
  <2>2. Acquire(q, "create_auto", p, ip, None) /\ PrepareReservation(p, ip)
    BY <1>3, <2>1, Zenon DEF BeginCreateAuto
  <2>3. "create_auto" \in Reserving /\ None \in Assignable \cup {None}
    BY DEF Reserving
  <2>4. QED
    BY <2>1, <2>2, <2>3, PrepareReservationFits, Zenon
<1>4. ASSUME HandleRevoke
      PROVE  ReservationInv'
  <2>1. UNCHANGED <<wireguard_peer_ip_map, ip_allocations>>
    BY <1>4 DEF HandleRevoke, TakeRevoke, leaseVars, dbVars
  <2>2. CASE Head(commands).by # None
    <3>1. /\ Head(commands).by \in Request /\ Return(Head(commands).by)
          /\ 1 \in 1 .. Len(commands) /\ Head(commands) = commands[1]
      BY <1>1, <1>4, <2>2, FirstCommand DEF HandleRevoke, TakeRevoke, TypeOK, RuntimeOK
    <3>2. request[Head(commands).by].step = "await_ack"
      BY <2>2, <3>1, Zenon DEF LockInv, CommandsFit
    <3>3. QED
      BY <1>1, <2>1, <3>1, <3>2, ReturnShape, SameReservation, Zenon
  <2>3. CASE Head(commands).by = None
    BY <1>4, <2>1, <2>3, SameReservation DEF HandleRevoke, TakeRevoke
  <2>4. QED
    BY <2>2, <2>3
<1>5. ASSUME HandshakeActivate \/ \E p \in Peer : HandshakeLoad(p) \/ ExpireTunnel(p)
      PROVE  ReservationInv'
  BY <1>5, SameReservation, Zenon DEF HandshakeActivate, HandshakeRefused, HandshakeConnect,
                                      HandshakeFinish, HandshakeLoad, ExpireTunnel, leaseVars, dbVars
<1>6. QED
  BY <1>2, <1>3, <1>4, <1>5, BeginReservation, RequestReservation DEF WireGuardNext, WireGuardRuns, DropRequest

\* The address book that starts from the tables.
LEMMA LoadedPeers ==
    ASSUME NEW allocations \in PeerRows,
           \A p, q \in Peer :
              allocations[p] = allocations[q] /\ allocations[p] \in Assignable => p = q
    PROVE  \A a \in Assignable, p \in Peer :
              LoadedOwners(allocations, Peer)[a] = p <=> allocations[p] = a
<1> SUFFICES ASSUME NEW a \in Assignable, NEW p \in Peer
             PROVE  LoadedOwners(allocations, Peer)[a] = p <=> allocations[p] = a
  OBVIOUS
<1>1. CASE \E o \in Peer : allocations[o] = a
  <2>1. /\ LoadedOwners(allocations, Peer)[a] \in Peer
        /\ allocations[LoadedOwners(allocations, Peer)[a]] = a
    BY <1>1 DEF LoadedOwners
  <2>2. QED
    BY <2>1
<1>2. CASE ~\E o \in Peer : allocations[o] = a
  BY <1>2, LeaseConstants DEF LoadedOwners
<1>3. QED
  BY <1>1, <1>2

LEMMA IdleReservation ==
    AllIdle /\ (\A p \in Peer : Settled(p)) => ReservationInv
BY Zenon DEF AllIdle, ReservationInv, Fits, Prepared, Committing

LEMMA RestartReservation ==
    ASSUME ServerInv, Restart
    PROVE  ReservationInv'
<1>1. /\ ip_allocations \in PeerRows
      /\ \A p, q \in Peer :
            ip_allocations[p] = ip_allocations[q] /\ ip_allocations[p] \in Assignable => p = q
  BY Zenon DEF ServerInv, TypeOK, DatabaseTypeOK, DatabaseExclusive, UniqueAllocations
<1>2. PICK allocations \in {ip_allocations, [p \in Peer |-> None]} :
         /\ wireguard_peer_ip_map' = LoadedOwners(allocations, Peer)
         /\ unread' = {p \in Peer : allocations[p] # ip_allocations[p]}
  BY Zenon DEF Restart, ReadTables, Load
<1>3. /\ allocations \in PeerRows
      /\ \A p, q \in Peer :
            allocations[p] = allocations[q] /\ allocations[p] \in Assignable => p = q
  BY <1>1, <1>2, AddressFacts DEF PeerRows
<1>4. \A a \in Assignable, p \in Peer :
         wireguard_peer_ip_map'[a] = p <=> allocations[p] = a
  BY <1>2, <1>3, LoadedPeers
<1>5. UNCHANGED ip_allocations
  BY Zenon DEF Restart, dbVars
<1>6. \A p \in Peer : Settled(p)'
  <2>1. CASE allocations = ip_allocations
    BY <1>4, <1>5, <2>1 DEF Settled
  <2>2. CASE allocations = [p \in Peer |-> None]
    <3>1. \A p \in Peer : p \notin unread' => ip_allocations[p] = None
      BY <1>2, <2>2
    <3>2. \A a \in Assignable, p \in Peer : wireguard_peer_ip_map'[a] # p
      BY <1>4, <2>2, AddressFacts
    <3>3. QED
      BY <1>5, <3>1, <3>2, AddressFacts, Zenon DEF Settled
  <2>3. QED
    BY <1>2, <2>1, <2>2
<1>7. AllIdle'
  BY NoRequestFacts, Zenon DEF Restart, AllIdle
<1>8. (AllIdle /\ (\A p \in Peer : Settled(p)) => ReservationInv)'
  BY IdleReservation, PTL
<1>9. QED
  BY <1>6, <1>7, <1>8

LEMMA ReservationInvHolds ==
    ASSUME ~RequestsDroppable
    PROVE  Spec => []ReservationInv
<1>1. Init => ReservationInv
  <2> SUFFICES ASSUME Init
               PROVE  ReservationInv
    OBVIOUS
  <2>1. \A p \in Peer : ip_allocations[p] = None
    BY DEF Init, DatabaseInit
  <2>2. \A a \in Assignable, p \in Peer : wireguard_peer_ip_map[a] # p
    BY <2>1, LeaseConstants, AddressFacts, Zenon DEF Init, Loaded, LoadedOwners
  <2>3. \A p \in Peer : Settled(p)
    BY <2>1, <2>2, AddressFacts DEF Settled
  <2>4. QED
    BY <2>3, IdleReservation, NoRequestFacts DEF Init, WireGuardInit, RuntimeIdle, AllIdle
<1>2. ServerInv /\ LockInv /\ ReservationInv /\ [Next]_vars => ReservationInv'
  <2> SUFFICES ASSUME ServerInv, LockInv, ReservationInv, [Next]_vars
               PROVE  ReservationInv'
    OBVIOUS
  <2>1. TypeOK /\ AddressExclusive
    BY DEF ServerInv
  <2>2. CASE VntStep(SessionsNext)
    BY <2>1, <2>2, SessionsKeepPeers, SameReservation DEF VntStep, wireguardVars
  <2>3. CASE WireGuardStep(WireGuardNext)
    BY <2>1, <2>3, WireGuardReservation DEF WireGuardStep
  <2>4. CASE UNCHANGED vars
    BY <2>4, SameReservation, Zenon DEF vars, wireguardVars, leaseVars, dbVars
  <2>5. QED
    BY <2>2, <2>3, <2>4, RestartReservation DEF Next, Running
<1>3. QED
  BY <1>1, <1>2, ServerInvHolds, LockInvHolds, PTL DEF Spec

\* Whenever nobody holds the update lock the reservations of the address book are
\* the ones in the tables, for every number of requests and addresses: each way
\* through reserve, release, create and delete, the failing ones included, and
\* each restart ends there.
THEOREM ReservationsSettle ==
    ASSUME ~RequestsDroppable
    PROVE  Spec => []ReservationsMatchDatabase
<1>1. LockInv /\ ReservationInv => ReservationsMatchDatabase
  <2> SUFFICES ASSUME LockInv, ReservationInv, update_lock = None
               PROVE  ReservationsMatchDatabase
    BY DEF ReservationsMatchDatabase
  <2>1. \A q \in Request : ~Prepared(q) /\ ~Committing(q)
    BY WireGuardConstants DEF LockInv, LockHeld, LockSteps, Prepared, Committing
  <2>2. \A p \in Peer : Settled(p)
    BY <2>1 DEF ReservationInv
  <2>3. QED
    BY <2>2 DEF ReservationsMatchDatabase, Settled
<1>2. QED
  BY LockInvHolds, ReservationInvHolds, <1>1, PTL

-----------------------------------------------------------------------------
(* Tunnels and their authorisation *)

\* A request that has taken an authorisation away and has the runtime's answer
\* still to come.
WillRevoke(q) ==
    LET op == request[q].op
        step == request[q].step IN
    \/ step \in {"revoke", "await_ack"}
    \/ step = "load" /\ op = "disable"
    \/ step = "commit" /\ \/ op = "delete"
                          \/ op = "release" /\ request[q].removed = TRUE
                          \/ op = "reserve" /\ request[q].previous_ip \notin {None, request[q].ip}

Authorised(p, a) == wireguard_peers[p] = "enabled" /\ ip_allocations[p] = a

Revoked(p) == \E q \in Request : request[q].peer = p /\ WillRevoke(q)

Covered(p, a) == Authorised(p, a) \/ Revoked(p) \/ p \in errored \cup unread

\* A tunnel, or the handshake that is about to become one.
Tunnel(p, a) == active[p] = a \/ (handshake # None /\ handshake.peer = p /\ handshake.ip = a)

TunnelInv == \A p \in Peer, a \in Assignable : Tunnel(p, a) => Covered(p, a)

\* A step that opens no tunnel and takes no cover away.
LEMMA TunnelsStayCovered ==
    ASSUME TunnelInv,
           \A p \in Peer, a \in Assignable : Tunnel(p, a)' => Tunnel(p, a),
           \A p \in Peer, a \in Assignable : Covered(p, a) => Covered(p, a)'
    PROVE  TunnelInv'
BY DEF TunnelInv

LEMMA SameTunnels ==
    ASSUME UNCHANGED <<active, handshake>>
    PROVE  \A p \in Peer, a \in Assignable : Tunnel(p, a)' => Tunnel(p, a)
BY DEF Tunnel

\* A request that is not the one that moves covers as before.
LEMMA OthersRevoke ==
    ASSUME NEW o \in Request, request'[o] = request[o], WillRevoke(o)
    PROVE  WillRevoke(o)'
BY Zenon DEF WillRevoke

LEMMA SameCover ==
    ASSUME UNCHANGED <<wireguard_peers, ip_allocations, unread>>, errored \subseteq errored',
           \A o \in Request : WillRevoke(o) => request'[o] = request[o]
    PROVE  \A p \in Peer, a \in Assignable : Covered(p, a) => Covered(p, a)'
<1>1. \A o \in Request : WillRevoke(o) => WillRevoke(o)' /\ request'[o] = request[o]
  BY OthersRevoke, Zenon
<1>2. \A p \in Peer : Revoked(p) => Revoked(p)'
  BY <1>1 DEF Revoked
<1>3. QED
  BY <1>2, Zenon DEF Covered, Authorised

\* A request that will revoke goes on until it has its answer, or its caller has
\* an error.
LEMMA RevokesOn ==
    ASSUME TypeOK, NEW q \in Request, RequestStep(q), WillRevoke(q)
    PROVE  \/ request'[q].peer = request[q].peer /\ WillRevoke(q)'
           \/ request[q].peer \in errored'
<1>1. RequestsOK
  BY WireGuardTypeIs DEF TypeOK
<1>2. CASE LoadUpdated(q) \/ LoadFails(q)
  BY <1>1, <1>2, AdvanceShape, Zenon DEF LoadUpdated, LoadFails, WillRevoke
<1>3. CASE SendRevoke(q)
  BY <1>1, <1>3, AdvanceShape, Zenon DEF SendRevoke, WillRevoke
<1>4. CASE Commit(q)
  <2>1. request[q].op = "release" => request[q].removed = TRUE
    BY <1>4, Zenon DEF Commit, WillRevoke
  <2>2. Advance(q, "revoke")
    BY <1>4, <2>1, Zenon DEF Commit, WillRevoke, Unlock
  <2>3. request'[q].step = "revoke" /\ request'[q].peer = request[q].peer
    BY <1>1, <2>2, AdvanceShape, Zenon
  <2>4. QED
    BY <2>3, Zenon DEF WillRevoke
<1>5. CASE Persist(q) \/ PersistFails(q) \/ Rollback(q)
  BY <1>5, Zenon DEF Persist, PersistFails, Rollback, WillRevoke
<1>6. QED
  BY <1>2, <1>3, <1>4, <1>5, Zenon DEF RequestStep

\* The statement that takes an authorisation away makes its request one that
\* will revoke: it knows the address the peer loses.
LEMMA PersistCovers ==
    ASSUME TypeOK, LockInv, ReservationInv, NEW q \in Request, Persist(q),
           NEW p \in Peer, NEW a \in Assignable, Authorised(p, a), p \notin unread
    PROVE  Authorised(p, a)' \/ (request'[q].peer = p /\ WillRevoke(q)')
<1>1. /\ RequestsOK /\ ip_allocations \in PeerRows /\ wireguard_peers \in [Peer -> PeerRow]
      /\ request[q].step = "persist" /\ request[q].peer \in Peer
  BY WireGuardTypeIs DEF TypeOK, DatabaseTypeOK, Persist, RequestsOK, RequestOK
<1>2. wireguard_peers[p] = "enabled" /\ ip_allocations[p] = a /\ a # None
  BY AddressFacts DEF Authorised
<1>3. CASE request[q].peer # p
  <2>1. wireguard_peers'[p] = wireguard_peers[p] /\ ip_allocations'[p] = ip_allocations[p]
    BY <1>1, <1>3, Zenon DEF Persist, InsertPeer, InsertPeerWithIp, ReservePeerIpRow, SetPeerEnabled,
                      ReleasePeerIpRow, DeletePeer, PeerRows, dbVars
  <2>2. QED
    BY <1>2, <2>1, Zenon DEF Authorised
<1>4. CASE request[q].peer = p
  <2>1. request[q].op \notin {"create", "create_auto", "create_with_ip"}
    BY <1>2, <1>4, Zenon DEF Persist, InsertPeer, InsertPeerWithIp
  <2>2. CASE request[q].op = "reserve"
    <3>1. /\ ip_allocations' = [ip_allocations EXCEPT ![p] = request[q].ip]
          /\ UNCHANGED wireguard_peers /\ Advance(q, "commit")
      BY <1>4, <2>2 DEF Persist, ReservePeerIpRow
    <3>2. PreparedFits(q)
      BY <1>1, <2>2, Zenon DEF ReservationInv, Fits, Prepared, Reserving
    <3>3. a \in {request[q].ip, request[q].previous_ip}
      BY <1>2, <1>4, <2>2, <3>2, Zenon DEF PreparedFits
    <3>4. /\ request'[q].step = "commit" /\ request'[q].op = "reserve" /\ request'[q].peer = p
          /\ request'[q].ip = request[q].ip /\ request'[q].previous_ip = request[q].previous_ip
      BY <1>1, <1>4, <2>2, <3>1, AdvanceShape, Zenon
    <3>5. CASE a = request[q].ip
      BY <1>1, <1>2, <3>1, <3>5, Zenon DEF Authorised, PeerRows
    <3>6. CASE a # request[q].ip
      BY <1>2, <3>3, <3>4, <3>6, Zenon DEF WillRevoke
    <3>7. QED
      BY <3>5, <3>6, Zenon
  <2>3. CASE request[q].op = "enable"
    BY <1>1, <1>2, <1>4, <2>3 DEF Persist, SetPeerEnabled, Authorised
  <2>4. CASE request[q].op = "disable"
    <3>1. Advance(q, "load")
      BY <1>2, <1>4, <2>4 DEF Persist
    <3>2. QED
      BY <1>1, <1>4, <2>4, <3>1, AdvanceShape, Zenon DEF WillRevoke
  <2>5. CASE request[q].op = "release"
    <3>1. request' = [request EXCEPT ![q].step = "commit", ![q].removed = ip_allocations[p] # None]
      BY <1>4, <2>5, Zenon DEF Persist
    <3>2. /\ request'[q].step = "commit" /\ request'[q].op = "release" /\ request'[q].peer = p
          /\ request'[q].removed = (ip_allocations[p] # None)
      BY <1>1, <1>4, <2>5, <3>1, ReleaseShape, Zenon
    <3>3. request'[q].removed = TRUE
      BY <1>2, <3>2, Zenon
    <3>4. QED
      BY <3>2, <3>3, Zenon DEF WillRevoke
  <2>6. CASE request[q].op = "delete"
    <3>1. Advance(q, "commit")
      BY <2>6 DEF Persist
    <3>2. QED
      BY <1>1, <1>4, <2>6, <3>1, AdvanceShape, Zenon DEF WillRevoke
  <2>7. QED
    BY <2>1, <2>2, <2>3, <2>4, <2>5, <2>6, Zenon DEF Persist
<1>5. QED
  BY <1>3, <1>4, Zenon

LEMMA RequestCovers ==
    ASSUME TypeOK, LockInv, ReservationInv, NEW q \in Request, RequestStep(q), UNCHANGED unread
    PROVE  \A p \in Peer, a \in Assignable : Covered(p, a) => Covered(p, a)'
<1> SUFFICES ASSUME NEW p \in Peer, NEW a \in Assignable, Covered(p, a)
             PROVE  Covered(p, a)'
  OBVIOUS
<1>1. RequestsOK
  BY WireGuardTypeIs DEF TypeOK
<1>2. \A o \in Request : o # q => request'[o] = request[o]
  BY <1>1, RequestStepShape, Zenon
<1>3. errored \subseteq errored'
  BY Zenon DEF RequestStep, Persist, PersistFails, LoadUpdated, LoadFails, Rollback, Commit, SendRevoke,
         runtimeVars
<1>4. CASE p \in errored \cup unread
  BY <1>3, <1>4 DEF Covered
<1>5. CASE Revoked(p)
  <2>1. PICK o \in Request : request[o].peer = p /\ WillRevoke(o)
    BY <1>5 DEF Revoked
  <2>2. CASE o = q
    BY <2>1, <2>2, RevokesOn, Zenon DEF Covered, Revoked
  <2>3. CASE o # q
    BY <1>2, <2>1, <2>3, OthersRevoke, Zenon DEF Covered, Revoked
  <2>4. QED
    BY <2>2, <2>3
<1>6. CASE Authorised(p, a) /\ p \notin unread
  <2>1. CASE Persist(q)
    BY <1>6, <2>1, PersistCovers, Zenon DEF Covered, Revoked
  <2>2. CASE ~Persist(q)
    <3>1. UNCHANGED dbVars
      BY <2>2, Zenon
      DEF RequestStep, PersistFails, LoadUpdated, LoadFails, Rollback, Commit, SendRevoke
    <3>2. QED
      BY <1>6, <3>1, Zenon DEF Covered, Authorised, dbVars
  <2>3. QED
    BY <2>1, <2>2
<1>7. QED
  BY <1>4, <1>5, <1>6 DEF Covered

LEMMA BeginCovers ==
    ASSUME TypeOK, TunnelInv, UNCHANGED unread, NEW q \in Request, NEW op, NEW p, NEW ip,
           NEW previous_ip, Acquire(q, op, p, ip, previous_ip)
    PROVE  TunnelInv'
<1>1. RequestsOK
  BY WireGuardTypeIs DEF TypeOK
<1>2. \A o \in Request : WillRevoke(o) => request'[o] = request[o]
  BY <1>1, AcquireShape, Zenon DEF WillRevoke
<1>3. UNCHANGED <<wireguard_peers, ip_allocations, active, handshake, errored>>
  BY Zenon DEF Acquire, dbVars, runtimeVars
<1>4. QED
  BY <1>2, <1>3, SameCover, SameTunnels, TunnelsStayCovered, Zenon

\* The acknowledged peer has neither a tunnel nor a handshake any more: the
\* request that asked may return.
LEMMA RevokeCovers ==
    ASSUME TypeOK, LockInv, TunnelInv, HandleRevoke, UNCHANGED unread
    PROVE  TunnelInv'
<1>1. RequestsOK /\ RuntimeOK
  BY WireGuardTypeIs DEF TypeOK
<1>2. PICK cp, by : cp = Head(commands).peer /\ by = Head(commands).by
  OBVIOUS
<1>3. cp \in Peer /\ by \in Request \cup {None} /\ commands # <<>>
  BY <1>2, FirstCommand, Zenon DEF HandleRevoke, TakeRevoke, TypeOK
<1>4. /\ handshake = None /\ handshake' = None
      /\ UNCHANGED <<wireguard_peers, ip_allocations>>
      /\ errored' = errored \ {cp}
      /\ active' = [active EXCEPT ![cp] = None]
  BY <1>2, Zenon DEF HandleRevoke, TakeRevoke, RemovePeer, Busy, dbVars
<1>5. \A o \in Request : request[o].peer # cp => request'[o] = request[o]
  <2>1. CASE by # None
    <3>1. 1 \in 1 .. Len(commands) /\ Head(commands) = commands[1]
      BY <1>1, <1>3 DEF RuntimeOK
    <3>2. request[by].peer = cp
      BY <1>2, <2>1, <3>1, Zenon DEF LockInv, CommandsFit
    <3>3. Return(by)
      BY <1>2, <2>1 DEF HandleRevoke, TakeRevoke
    <3>4. QED
      BY <1>1, <1>3, <2>1, <3>2, <3>3, ReturnShape
  <2>2. CASE by = None
    BY <1>2, <2>2 DEF HandleRevoke, TakeRevoke
  <2>3. QED
    BY <2>1, <2>2
<1> SUFFICES ASSUME NEW p \in Peer, NEW a \in Assignable, Tunnel(p, a)'
             PROVE  Covered(p, a)'
  BY DEF TunnelInv
<1>6. active'[p] = a
  BY <1>4 DEF Tunnel
<1>7. p # cp /\ active[p] = a
  BY <1>1, <1>3, <1>4, <1>6, AddressFacts, Zenon DEF RuntimeOK
<1>8. Covered(p, a)
  BY <1>7, Zenon DEF TunnelInv, Tunnel
<1>9. Revoked(p) => Revoked(p)'
  BY <1>5, <1>7, OthersRevoke, Zenon DEF Revoked
<1>10. QED
  BY <1>4, <1>7, <1>8, <1>9, Zenon DEF Covered, Authorised

LEMMA RuntimeCovers ==
    ASSUME TypeOK, TunnelInv, UNCHANGED unread,
           HandshakeActivate \/ \E p \in Peer : HandshakeLoad(p) \/ ExpireTunnel(p)
    PROVE  TunnelInv'
<1>1. RuntimeOK
  BY WireGuardTypeIs DEF TypeOK
<1>2. UNCHANGED <<wireguard_peers, ip_allocations, request, errored>>
  BY Zenon DEF HandshakeActivate, HandshakeRefused, HandshakeConnect, HandshakeFinish,
               HandshakeLoad, ExpireTunnel, dbVars
<1>3. \A p \in Peer, a \in Assignable : Covered(p, a) => Covered(p, a)'
  BY <1>2, SameCover
<1>4. CASE HandshakeActivate
  <2>1. PICK p, ip : p = handshake.peer /\ ip = handshake.ip
    OBVIOUS
  <2>2. handshake # None /\ (handshake' = None \/ UNCHANGED <<handshake, active>>)
    BY <1>4 DEF HandshakeActivate, HandshakeRefused, HandshakeConnect, HandshakeFinish, Busy
  <2>3. UNCHANGED active \/ active' = [active EXCEPT ![p] = ip]
    BY <1>4, <2>1, Zenon
       DEF HandshakeActivate, HandshakeRefused, HandshakeConnect, HandshakeFinish
  <2>4. \A x \in Peer, a \in Assignable : Tunnel(x, a)' => Tunnel(x, a)
    BY <1>1, <2>1, <2>2, <2>3, Zenon DEF Tunnel, RuntimeOK
  <2>5. QED
    BY <1>3, <2>4, TunnelsStayCovered, Zenon
<1>5. ASSUME NEW p \in Peer, HandshakeLoad(p)
      PROVE  TunnelInv'
  <2>1. /\ handshake' = [peer |-> p, ip |-> ip_allocations[p]] /\ UNCHANGED active
        /\ wireguard_peers[p] = "enabled"
    BY <1>5, Zenon DEF HandshakeLoad, RuntimePeer
  <2>2. handshake'.peer = p /\ handshake'.ip = ip_allocations[p]
    BY <2>1, Zenon
  <2>3. \A a \in Assignable : ip_allocations[p] = a => Covered(p, a)
    BY <2>1, Zenon DEF Covered, Authorised
  <2>4. \A x \in Peer, a \in Assignable : Tunnel(x, a)' => Covered(x, a)
    BY <2>1, <2>2, <2>3, Zenon DEF Tunnel, TunnelInv
  <2>5. QED
    BY <1>3, <2>4 DEF TunnelInv
<1>6. ASSUME NEW p \in Peer, ExpireTunnel(p)
      PROVE  TunnelInv'
  <2>1. active' = [active EXCEPT ![p] = None] /\ UNCHANGED handshake
    BY <1>6 DEF ExpireTunnel, RemovePeer
  <2>2. \A x \in Peer, a \in Assignable : Tunnel(x, a)' => Tunnel(x, a)
    BY <1>1, <2>1, AddressFacts, Zenon DEF Tunnel, RuntimeOK
  <2>3. QED
    BY <1>3, <2>2, TunnelsStayCovered
<1>7. QED
  BY <1>4, <1>5, <1>6

LEMMA WireGuardCovers ==
    ASSUME ~RequestsDroppable, TypeOK, LockInv, ReservationInv, TunnelInv, WireGuardNext,
           UNCHANGED unread
    PROVE  TunnelInv'
<1>1. ASSUME NEW q \in Request, RequestStep(q)
      PROVE  TunnelInv'
  <2>1. UNCHANGED <<active, handshake>>
    BY <1>1, Zenon DEF RequestStep, Persist, PersistFails, LoadUpdated, LoadFails, Rollback, Commit,
                SendRevoke, runtimeVars
  <2>2. QED
    BY <1>1, <2>1, RequestCovers, SameTunnels, TunnelsStayCovered
<1>2. ASSUME NEW q \in Request, NEW p \in Peer, NEW op \in Operation, Begin(q, op, p)
      PROVE  TunnelInv'
  BY <1>2, BeginCovers DEF Begin
<1>3. ASSUME NEW q \in Request, NEW p \in Peer, NEW op \in Operation, NEW ip \in Assignable,
             BeginReserve(q, op, p, ip)
      PROVE  TunnelInv'
  BY <1>3, BeginCovers DEF BeginReserve
<1>4. ASSUME NEW q \in Request, NEW p \in Peer, BeginCreateAuto(q, p)
      PROVE  TunnelInv'
  BY <1>4, BeginCovers DEF BeginCreateAuto
<1>5. QED
  BY <1>1, <1>2, <1>3, <1>4, RevokeCovers, RuntimeCovers DEF WireGuardNext, WireGuardRuns, DropRequest

LEMMA TunnelInvHolds ==
    ASSUME ~RequestsDroppable
    PROVE  Spec => []TunnelInv
<1>1. Init => TunnelInv
  BY AddressFacts, Zenon DEF Init, WireGuardInit, RuntimeIdle, TunnelInv, Tunnel
<1>2. ServerInv /\ LockInv /\ ReservationInv /\ TunnelInv /\ [Next]_vars => TunnelInv'
  <2> SUFFICES ASSUME ServerInv, LockInv, ReservationInv, TunnelInv, [Next]_vars
               PROVE  TunnelInv'
    OBVIOUS
  <2>1. TypeOK
    BY DEF ServerInv
  <2>2. CASE VntStep(SessionsNext)
    <3>1. UNCHANGED <<wireguard_peers, ip_allocations, unread, request, errored, active, handshake>>
      BY <2>1, <2>2, SessionsKeepPeers DEF VntStep, wireguardVars
    <3>2. QED
      BY <3>1, SameCover, SameTunnels, TunnelsStayCovered
  <2>3. CASE WireGuardStep(WireGuardNext)
    BY <2>1, <2>3, WireGuardCovers DEF WireGuardStep
  <2>4. CASE Restart
    BY <2>4, AddressFacts, Zenon DEF Restart, TunnelInv, Tunnel
  <2>5. CASE UNCHANGED vars
    <3>1. UNCHANGED <<wireguard_peers, ip_allocations, unread, request, errored, active, handshake>>
      BY <2>5, Zenon DEF vars, wireguardVars, dbVars
    <3>2. QED
      BY <3>1, SameCover, SameTunnels, TunnelsStayCovered
  <2>6. QED
    BY <2>2, <2>3, <2>4, <2>5 DEF Next, Running
<1>3. QED
  BY <1>1, <1>2, ServerInvHolds, LockInvHolds, ReservationInvHolds, PTL DEF Spec

\* The runtime never keeps a tunnel that the database has stopped authorising
\* beyond the return of the request that stopped it, for every number of
\* requests, peers and places in the command channel: what the acknowledgement
\* of revoke_peer is for.
THEOREM TunnelsAuthorised ==
    ASSUME ~RequestsDroppable
    PROVE  Spec => []TunnelsAreAuthorised
<1>1. TypeOK /\ TunnelInv => TunnelsAreAuthorised
  <2> SUFFICES ASSUME TypeOK, TunnelInv, NEW p \in Peer, active[p] # None
               PROVE  \/ Authorised(p, active[p])
                      \/ \E q \in Request :
                            /\ request[q].peer = p
                            /\ request[q].step \in {"load", "commit", "revoke", "await_ack"}
                      \/ p \in errored \cup unread
    BY Zenon DEF TunnelsAreAuthorised, Authorised
  <2>1. active[p] \in Assignable
    BY WireGuardTypeIs DEF TypeOK, RuntimeOK
  <2>2. Covered(p, active[p])
    BY <2>1 DEF TunnelInv, Tunnel
  <2>3. QED
    BY <2>2, Zenon DEF Covered, Revoked, WillRevoke
<1>2. QED
  BY ServerTypeCorrect, TunnelInvHolds, <1>1, PTL

=============================================================================
