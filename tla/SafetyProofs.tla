---------------------------- MODULE SafetyProofs ----------------------------
(***************************************************************************)
(* Proofs of the invariants of the server that relate its parts: the two   *)
(* maps of the data path, and the sessions and the tunnels behind them.    *)
(* ServerInv of ServerProofs holds in every state and is used here as a    *)
(* fact; each group of invariants below is inductive on top of it.         *)
(*                                                                         *)
(* A management request changes the database, the address book and the     *)
(* runtime in turn, and other requests, handshakes and VNT sessions run in *)
(* between.  What connects its steps is the update lock and the command it *)
(* has sent: LockInv in the second half, on which TunnelProofs builds too. *)
(***************************************************************************)
EXTENDS ServerProofs

-----------------------------------------------------------------------------
(* Who holds lease_state between two inserts *)

\* The sender the holder has inserted is there, unless a release without the
\* mutex has removed it, and the holder is a registration or the handshake.
AttachInv ==
    /\ attaching # NotAttaching => sender_map[attaching.ip] \in {attaching.owner, None}
    /\ \A r \in RandomId :
          session[r].status = "attaching" => attaching = [owner |-> r, ip |-> session[r].ip]
    /\ attaching.owner \in Peer => /\ handshake # None
                                   /\ handshake.peer = attaching.owner
                                   /\ handshake.ip = attaching.ip

\* Every address keeps what the maps say of it, or loses it in one or both.
OnlyDetached ==
    /\ \A a \in Assignable :
          /\ sender_map'[a] \in {sender_map[a], None}
          /\ online_endpoints'[a] \in {online_endpoints[a], NoEndpoint}
    /\ attaching' = attaching

\* No session begins to attach, and one that does waits.
KeepsAttaching ==
    \A r \in RandomId : session'[r].status = "attaching" => session'[r] = session[r]

LEMMA NoEndpointFacts == NoEndpoint.owner = None /\ NoEndpoint.confirmed = FALSE
BY DEF NoEndpoint

LEMMA NotAttachingFacts ==
    /\ NotAttaching.owner = None /\ NotAttaching.ip = None
    /\ NotAttaching.owner \notin RandomId \cup Peer
    /\ \A a \in Assignable : a # NotAttaching.ip
BY LeaseConstants, AddressFacts DEF NotAttaching

LEMMA AttachingType ==
    ASSUME TypeOK, attaching # NotAttaching
    PROVE  attaching.ip \in Assignable /\ attaching.owner \in RandomId \cup Peer
BY DEF TypeOK, EndpointTypeOK

LEMMA FreeMeansNobody ==
    ASSUME AttachInv, LeaseStateFree
    PROVE  \A r \in RandomId : session[r].status # "attaching"
BY NotAttachingFacts DEF AttachInv, LeaseStateFree

LEMMA DetachOnlyDetaches ==
    ASSUME NEW ip, Detach(ip)
    PROVE  OnlyDetached
BY DEF Detach, OnlyDetached

LEMMA SameEndpointsOnlyDetached == UNCHANGED endpointVars => OnlyDetached
BY DEF endpointVars, OnlyDetached

LEMMA AttachKept ==
    ASSUME TypeOK, AttachInv, OnlyDetached, KeepsAttaching,
           attaching.owner \in Peer => UNCHANGED handshake
    PROVE  AttachInv'
<1>1. attaching' # NotAttaching => sender_map'[attaching'.ip] \in {attaching'.owner, None}
  BY AttachingType DEF AttachInv, OnlyDetached
<1>2. \A r \in RandomId :
         session'[r].status = "attaching" => attaching' = [owner |-> r, ip |-> session'[r].ip]
  BY DEF AttachInv, OnlyDetached, KeepsAttaching
<1>3. attaching'.owner \in Peer => /\ handshake' # None
                                   /\ handshake'.peer = attaching'.owner
                                   /\ handshake'.ip = attaching'.ip
  BY DEF AttachInv, OnlyDetached
<1>4. QED
  BY <1>1, <1>2, <1>3 DEF AttachInv

LEMMA SessionOnlyDetaches ==
    ASSUME TypeOK, NEW r \in RandomId,
           \/ ConfirmRead(r) \/ ConfirmSave(r) \/ DropConfirmed(r) \/ DropPending(r)
           \/ UnlinkSender(r) \/ UnlinkEndpoint(r)
    PROVE  OnlyDetached
<1>1. CASE UnlinkSender(r)
  BY <1>1 DEF UnlinkSender, OnlyDetached, TypeOK, EndpointTypeOK
<1>2. CASE UnlinkEndpoint(r)
  BY <1>2 DEF UnlinkEndpoint, OnlyDetached, TypeOK, EndpointTypeOK
<1>3. CASE \/ ConfirmRead(r) \/ ConfirmSave(r) \/ DropConfirmed(r) \/ DropPending(r)
  BY <1>3, DetachOnlyDetaches, SameEndpointsOnlyDetached, Zenon
     DEF ConfirmRead, ConfirmSave, DropConfirmed, DropPending
<1>4. QED
  BY <1>1, <1>2, <1>3

\* The background steps of the VNT side leave the sessions alone.
LEMMA BackgroundOnlyDetaches ==
    ASSUME SessionsNext, \A r \in RandomId : ~SessionStep(r)
    PROVE  OnlyDetached /\ UNCHANGED session
<1>1. ASSUME NEW w \in saves, FinishSave(w)
      PROVE  OnlyDetached /\ UNCHANGED session
  BY <1>1, SameEndpointsOnlyDetached DEF FinishSave
<1>2. CASE CleanupStep
  BY <1>2, SameEndpointsOnlyDetached
     DEF CleanupStep, CollectExpired, RemoveExpired, ReleaseExpired
<1>3. ASSUME NEW d \in Device, DeleteStep(d)
      PROVE  OnlyDetached /\ UNCHANGED session
  BY <1>3, SameEndpointsOnlyDetached, DetachOnlyDetaches
     DEF DeleteStep, DeleteCheck, DeleteFromMemory, DeleteFromDatabase
<1>4. QED
  BY <1>1, <1>2, <1>3 DEF SessionsNext

LEMMA SessionKeepsAttaching ==
    ASSUME TypeOK, NEW r \in RandomId,
           \/ ConfirmRead(r) \/ ConfirmSave(r) \/ ConfirmFinish(r) \/ DropConfirmed(r)
           \/ DropPending(r) \/ UnlinkSender(r) \/ UnlinkEndpoint(r)
    PROVE  KeepsAttaching
<1>1. \A o \in RandomId : o # r => session'[o] = session[o]
  BY ZenonT(40) DEF ConfirmRead, ConfirmSave, ConfirmFinish, DropConfirmed, DropPending,
         UnlinkSender, UnlinkEndpoint, TypeOK, SessionsTypeOK
<1>2. session'[r].status # "attaching"
  BY ZenonT(40) DEF ConfirmRead, ConfirmSave, ConfirmFinish, DropConfirmed, DropPending,
         UnlinkSender, UnlinkEndpoint, TypeOK, SessionsTypeOK, SessionRecord, ClosedSession,
         UnusedSession
<1>3. QED
  BY <1>1, <1>2 DEF KeepsAttaching

LEMMA RegisterAttach ==
    ASSUME TypeOK, TypeOK', AttachInv, NEW r \in RandomId, NEW d \in Device,
           NEW expect \in Requested, NEW v \in BOOLEAN, Register(r, d, expect, v)
    PROVE  AttachInv'
<1>1. PICK ip, old :
         /\ AttachSender(ip, old, r)
         /\ session' = [session EXCEPT ![r] =
                           [status |-> "attaching", device |-> d, ip |-> ip, record |-> None]]
  BY Zenon DEF Register
<1>2. session'[r].ip = ip /\ session'[r].status = "attaching"
  BY <1>1, Zenon DEF TypeOK, SessionsTypeOK
<1>3. ip \in Assignable
  BY <1>2, Zenon DEF TypeOK, SessionsTypeOK
<1>4. \A o \in RandomId : o # r => session'[o].status # "attaching"
  BY <1>1, FreeMeansNobody, Zenon DEF Register, TypeOK, SessionsTypeOK
<1>5. attaching' = [owner |-> r, ip |-> ip] /\ sender_map'[ip] = r
  BY <1>1, <1>3, Zenon DEF AttachSender
<1>6. attaching'.owner = r /\ attaching'.ip = ip /\ r \notin Peer
  BY <1>5, SessionsAreNotPeers
<1>7. QED
  BY <1>2, <1>4, <1>5, <1>6, Zenon DEF AttachInv

LEMMA FinishRegisterAttach ==
    ASSUME TypeOK, AttachInv, NEW r \in RandomId, NEW n \in BOOLEAN, FinishRegister(r, n)
    PROVE  AttachInv'
<1>1. attaching = [owner |-> r, ip |-> session[r].ip] /\ attaching' = NotAttaching
  BY Zenon DEF FinishRegister, AttachEndpoint, AttachInv
<1>2. \A o \in RandomId : o # r => session'[o] = session[o]
  BY DEF FinishRegister, TypeOK, SessionsTypeOK
<1>3. session'[r].status # "attaching"
  BY DEF FinishRegister, TypeOK, SessionsTypeOK, SessionRecord
<1>4. \A o \in RandomId : o # r => session[o].status # "attaching"
  BY <1>1 DEF AttachInv
<1>5. QED
  BY <1>1, <1>2, <1>3, <1>4, NotAttachingFacts, Zenon DEF AttachInv

LEMMA SessionsAttach ==
    ASSUME TypeOK, TypeOK', AttachInv, SessionsNext, UNCHANGED handshake
    PROVE  AttachInv'
<1>1. ASSUME NEW r \in RandomId, SessionStep(r)
      PROVE  AttachInv'
  <2>1. CASE ConfirmFinish(r)
    <3>1. UNCHANGED <<sender_map, attaching>>
      BY <2>1 DEF ConfirmFinish, ConfirmEndpoint
    <3>2. KeepsAttaching
      BY <2>1, SessionKeepsAttaching
    <3>3. QED
      BY <3>1, <3>2, Zenon DEF AttachInv, KeepsAttaching
  <2>2. CASE \/ ConfirmRead(r) \/ ConfirmSave(r) \/ DropConfirmed(r) \/ DropPending(r)
             \/ UnlinkSender(r) \/ UnlinkEndpoint(r)
    BY <2>2, SessionOnlyDetaches, SessionKeepsAttaching, AttachKept
  <2>3. QED
    BY <1>1, <2>1, <2>2, RegisterAttach, FinishRegisterAttach DEF SessionStep
<1>2. CASE \A r \in RandomId : ~SessionStep(r)
  <2>1. OnlyDetached /\ KeepsAttaching
    BY <1>2, BackgroundOnlyDetaches DEF KeepsAttaching
  <2>2. QED
    BY <2>1, AttachKept
<1>3. QED
  BY <1>1, <1>2

\* The runtime and the requests, apart from a handshake that attaches.
LEMMA RemovePeerOnlyDetaches ==
    ASSUME NEW p, RemovePeer(p)
    PROVE  OnlyDetached
BY DetachOnlyDetaches, SameEndpointsOnlyDetached DEF RemovePeer, DisconnectWireGuardPeer

LEMMA RequestsKeepEndpoints ==
    ASSUME NEW q \in Request, RequestStep(q) \/ DropRequest(q)
    PROVE  UNCHANGED <<endpointVars, active, handshake>>
BY Zenon DEF RequestStep, Persist, PersistFails, LoadUpdated, LoadFails, Rollback, Commit,
       SendRevoke, DropRequest, runtimeVars

LEMMA WireGuardAttach ==
    ASSUME TypeOK, AttachInv, WireGuardNext, UNCHANGED session
    PROVE  AttachInv'
<1>1. KeepsAttaching
  BY DEF KeepsAttaching
<1>2. UNCHANGED <<endpointVars, handshake>> => AttachInv'
  BY <1>1, SameEndpointsOnlyDetached, AttachKept
<1>3. ASSUME NEW q \in Request, NEW p \in Peer,
             \/ \E op \in Operation : Begin(q, op, p)
             \/ \E op \in Operation, ip \in Assignable : BeginReserve(q, op, p, ip)
             \/ BeginCreateAuto(q, p)
      PROVE  AttachInv'
  BY <1>2, <1>3, Zenon DEF Begin, BeginReserve, BeginCreateAuto, Acquire, runtimeVars
<1>4. ASSUME NEW q \in Request, RequestStep(q) \/ DropRequest(q)
      PROVE  AttachInv'
  BY <1>2, <1>4, RequestsKeepEndpoints
<1>5. ASSUME HandleRevoke \/ \E p \in Peer : ExpireTunnel(p)
      PROVE  AttachInv'
  <2>1. OnlyDetached /\ UNCHANGED handshake
    BY <1>5, RemovePeerOnlyDetaches, Zenon DEF HandleRevoke, TakeRevoke, ExpireTunnel
  <2>2. QED
    BY <1>1, <2>1, AttachKept
<1>6. ASSUME NEW p \in Peer, HandshakeLoad(p)
      PROVE  AttachInv'
  <2>1. OnlyDetached /\ attaching.owner \notin Peer
    BY <1>6, SameEndpointsOnlyDetached DEF HandshakeLoad, Busy, AttachInv
  <2>2. QED
    BY <1>1, <2>1, AttachKept
<1>7. CASE HandshakeRefused
  <2>1. OnlyDetached /\ attaching.owner \notin Peer
    BY <1>7, SameEndpointsOnlyDetached, NotAttachingFacts, Zenon
       DEF HandshakeRefused, LeaseStateFree
  <2>2. QED
    BY <1>1, <2>1, AttachKept
<1>8. CASE HandshakeConnect
  <2>1. handshake.ip \in Assignable /\ handshake # None
    BY <1>8 DEF HandshakeConnect, Busy, TypeOK, WireGuardTypeOK
  <2>2. /\ attaching' = [owner |-> handshake.peer, ip |-> handshake.ip]
        /\ sender_map'[handshake.ip] = handshake.peer
        /\ UNCHANGED handshake
    BY <1>8, <2>1, Zenon DEF HandshakeConnect, AttachSender
  <2>3. attaching'.owner = handshake.peer /\ attaching'.ip = handshake.ip
    BY <2>2
  <2>4. \A r \in RandomId : session[r].status # "attaching"
    BY <1>8, FreeMeansNobody DEF HandshakeConnect
  <2>5. QED
    BY <2>1, <2>2, <2>3, <2>4, Zenon DEF AttachInv
<1>9. CASE HandshakeFinish
  <2>1. attaching.owner \in Peer /\ attaching' = NotAttaching
    BY <1>9 DEF HandshakeFinish, AttachEndpoint, Busy, TypeOK, WireGuardTypeOK
  <2>2. \A r \in RandomId : session[r].status # "attaching"
    BY <2>1, SessionsAreNotPeers DEF AttachInv
  <2>3. QED
    BY <2>1, <2>2, NotAttachingFacts, Zenon DEF AttachInv
<1>10. QED
  BY <1>3, <1>4, <1>5, <1>6, <1>7, <1>8, <1>9, Zenon
     DEF WireGuardNext, WireGuardRuns, HandshakeActivate

LEMMA AttachInvHolds == Spec => []AttachInv
<1>1. Init => AttachInv
  BY NotAttachingFacts DEF Init, NoEndpoints, SessionsInit, UnusedSession, AttachInv
<1>2. TypeOK /\ TypeOK' /\ AttachInv /\ [Next]_vars => AttachInv'
  <2> SUFFICES ASSUME TypeOK, TypeOK', AttachInv, [Next]_vars
               PROVE  AttachInv'
    OBVIOUS
  <2>1. CASE VntStep(SessionsNext)
    BY <2>1, SessionsAttach DEF VntStep, wireguardVars
  <2>2. CASE WireGuardStep(WireGuardNext)
    BY <2>2, WireGuardAttach DEF WireGuardStep, sessionVars
  <2>3. CASE Restart
    BY <2>3, NotAttachingFacts, Zenon DEF Restart, UnusedSession, ClosedSession, AttachInv
  <2>4. CASE UNCHANGED vars
    <3>1. UNCHANGED <<endpointVars, session, handshake>>
      BY <2>4 DEF vars, sessionVars, wireguardVars
    <3>2. QED
      BY <3>1, SameEndpointsOnlyDetached, AttachKept DEF KeepsAttaching
  <2>5. QED
    BY <2>1, <2>2, <2>3, <2>4 DEF Next, Running
<1>3. QED
  BY <1>1, <1>2, ServerTypeCorrect, PTL DEF Spec

-----------------------------------------------------------------------------
(* The maps of the data path *)

Registered == {"confirmed", "closed"}

\* The runtime reads a record for a handshake only for a peer without a tunnel,
\* and is then the only one that could open one.
HandshakeIsFresh == handshake # None => active[handshake.peer] = None

EndpointInv ==
    /\ EndpointMapsAgree
    /\ ConfirmedEndpointIsRegistered
    /\ PeerEndpointHasTunnel
    /\ HandshakeIsFresh

\* A session that is confirmed may only be closed.
StaysRegistered ==
    \A r \in RandomId : session[r].status \in Registered => session'[r].status \in Registered

LEMMA OnlyDetachedKeeps ==
    ASSUME EndpointInv, OnlyDetached, StaysRegistered
    PROVE  EndpointMapsAgree' /\ ConfirmedEndpointIsRegistered'
<1>1. EndpointMapsAgree'
  BY NoEndpointFacts DEF EndpointInv, EndpointMapsAgree, OnlyDetached
<1>2. ConfirmedEndpointIsRegistered'
  BY NoEndpointFacts
     DEF EndpointInv, ConfirmedEndpointIsRegistered, OnlyDetached, StaysRegistered, Registered
<1>3. QED
  BY <1>1, <1>2

LEMMA OnlyDetachedTunnels ==
    ASSUME EndpointInv, OnlyDetached, UNCHANGED active
    PROVE  PeerEndpointHasTunnel'
BY NoEndpointFacts, LeaseConstants DEF EndpointInv, PeerEndpointHasTunnel, OnlyDetached

LEMMA SessionStaysRegistered ==
    ASSUME TypeOK, NEW r \in RandomId, SessionStep(r)
    PROVE  StaysRegistered
<1>1. \A o \in RandomId : o # r => session'[o] = session[o]
  BY ZenonT(40) DEF SessionStep, Register, FinishRegister, ConfirmRead, ConfirmSave, ConfirmFinish,
         DropConfirmed, DropPending, UnlinkSender, UnlinkEndpoint, TypeOK, SessionsTypeOK
<1>2. session[r].status \in Registered => session'[r].status \in Registered
  BY ZenonT(40) DEF SessionStep, Register, FinishRegister, ConfirmRead, ConfirmSave, ConfirmFinish,
         DropConfirmed, DropPending, UnlinkSender, UnlinkEndpoint, TypeOK, SessionsTypeOK,
         Registered, ClosedSession, UnusedSession
<1>3. QED
  BY <1>1, <1>2 DEF StaysRegistered

\* A registration puts its sender at the address it attaches, where the maps may
\* differ.
LEMMA AttachSenderEndpoints ==
    ASSUME TypeOK, EndpointInv, LeaseStateFree, StaysRegistered, UNCHANGED active,
           NEW ip, NEW old, NEW owner, AttachSender(ip, old, owner)
    PROVE  EndpointMapsAgree' /\ ConfirmedEndpointIsRegistered' /\ PeerEndpointHasTunnel'
<1>1. attaching'.ip = ip
  BY Zenon DEF AttachSender
<1>2. \A a \in Assignable :
         /\ online_endpoints'[a] \in {online_endpoints[a], NoEndpoint}
         /\ a # ip => sender_map'[a] \in {sender_map[a], None}
         /\ a # attaching.ip
  BY NotAttachingFacts DEF AttachSender, LeaseStateFree
<1>3. EndpointMapsAgree'
  BY <1>1, <1>2, NoEndpointFacts DEF EndpointInv, EndpointMapsAgree
<1>4. ConfirmedEndpointIsRegistered'
  BY <1>2, NoEndpointFacts
     DEF EndpointInv, ConfirmedEndpointIsRegistered, StaysRegistered, Registered
<1>5. PeerEndpointHasTunnel'
  BY <1>2, NoEndpointFacts, LeaseConstants DEF EndpointInv, PeerEndpointHasTunnel
<1>6. QED
  BY <1>3, <1>4, <1>5

\* The endpoint goes where the sender is, or was.
LEMMA AttachEndpointAgrees ==
    ASSUME TypeOK, AttachInv, EndpointInv, attaching # NotAttaching,
           NEW n \in BOOLEAN, AttachEndpoint(n)
    PROVE  /\ EndpointMapsAgree'
           /\ \A a \in Assignable :
                 IF a = attaching.ip
                 THEN /\ online_endpoints'[a].owner = attaching.owner
                      /\ online_endpoints'[a].confirmed = n
                 ELSE online_endpoints'[a] = online_endpoints[a]
<1>1. PICK ip, owner : ip = attaching.ip /\ owner = attaching.owner
  OBVIOUS
<1>2. ip \in Assignable /\ sender_map[ip] \in {owner, None}
  BY <1>1, AttachingType DEF AttachInv
<1>3. \A a \in Assignable :
         IF a = ip THEN online_endpoints'[a] = [owner |-> owner, confirmed |-> n]
         ELSE online_endpoints'[a] = online_endpoints[a]
  BY <1>1, <1>2 DEF AttachEndpoint, TypeOK, EndpointTypeOK
<1>4. \A a \in Assignable :
         IF a = ip THEN online_endpoints'[a].owner = owner /\ online_endpoints'[a].confirmed = n
         ELSE online_endpoints'[a] = online_endpoints[a]
  BY <1>3
<1>5. UNCHANGED sender_map /\ \A a \in Assignable : a # attaching'.ip
  BY NotAttachingFacts DEF AttachEndpoint
<1>6. EndpointMapsAgree'
  BY <1>1, <1>2, <1>4, <1>5 DEF EndpointInv, EndpointMapsAgree
<1>7. QED
  BY <1>1, <1>4, <1>6

\* A registration that finishes confirms the endpoint and the session together.
LEMMA FinishRegisterEndpoints ==
    ASSUME TypeOK, AttachInv, EndpointInv, NEW r \in RandomId, NEW n \in BOOLEAN,
           FinishRegister(r, n), UNCHANGED active
    PROVE  EndpointMapsAgree' /\ ConfirmedEndpointIsRegistered' /\ PeerEndpointHasTunnel'
<1>1. attaching.owner = r /\ attaching # NotAttaching
  BY NotAttachingFacts DEF FinishRegister, AttachInv
<1>2. /\ EndpointMapsAgree'
      /\ \A a \in Assignable :
            IF a = attaching.ip
            THEN online_endpoints'[a].owner = r /\ online_endpoints'[a].confirmed = n
            ELSE online_endpoints'[a] = online_endpoints[a]
  BY <1>1, AttachEndpointAgrees DEF FinishRegister
<1>3. n => session'[r].status \in Registered
  BY DEF FinishRegister, TypeOK, SessionsTypeOK, SessionRecord, Registered
<1>4. StaysRegistered
  BY SessionStaysRegistered DEF SessionStep
<1>5. ConfirmedEndpointIsRegistered'
  BY <1>2, <1>3, <1>4
     DEF EndpointInv, ConfirmedEndpointIsRegistered, StaysRegistered, Registered
<1>6. PeerEndpointHasTunnel'
  BY <1>2, SessionsAreNotPeers DEF EndpointInv, PeerEndpointHasTunnel
<1>7. QED
  BY <1>2, <1>5, <1>6

\* A confirmation marks the endpoint of its own session only.
LEMMA ConfirmEndpoints ==
    ASSUME TypeOK, EndpointInv, NEW r \in RandomId, ConfirmFinish(r), UNCHANGED active
    PROVE  EndpointMapsAgree' /\ ConfirmedEndpointIsRegistered' /\ PeerEndpointHasTunnel'
<1>1. \A a \in Assignable :
         /\ sender_map'[a] = sender_map[a] /\ attaching' = attaching
         /\ online_endpoints'[a].owner = online_endpoints[a].owner
         /\ online_endpoints'[a].confirmed
            => online_endpoints[a].confirmed \/ online_endpoints[a].owner = r
  <2>1. PICK ip \in Assignable : ip = session[r].ip
    BY DEF ConfirmFinish, TypeOK, SessionsTypeOK
  <2> DEFINE e == online_endpoints[ip]
  <2>2. e \in Endpoint /\ e.confirmed \in BOOLEAN
    BY DEF TypeOK, EndpointTypeOK, Endpoint
  <2>3. /\ UNCHANGED <<sender_map, attaching>>
        /\ online_endpoints' =
              [online_endpoints EXCEPT ![ip] = [e EXCEPT !.confirmed = @ \/ e.owner = r]]
    BY <2>1, Zenon DEF ConfirmFinish, ConfirmEndpoint
  <2>4. \A a \in Assignable : a # ip => online_endpoints'[a] = online_endpoints[a]
    BY <2>3 DEF TypeOK, EndpointTypeOK
  <2>5. online_endpoints'[ip] = [e EXCEPT !.confirmed = @ \/ e.owner = r]
    BY <2>3 DEF TypeOK, EndpointTypeOK
  <2>6. /\ online_endpoints'[ip].owner = e.owner
        /\ online_endpoints'[ip].confirmed => e.confirmed \/ e.owner = r
    <3> HIDE DEF e
    <3>1. QED
      BY <2>2, <2>5, Zenon DEF Endpoint
  <2>7. QED
    BY <2>3, <2>4, <2>6
<1>2. session'[r].status \in Registered /\ StaysRegistered
  <2>1. session'[r].status \in Registered
    BY DEF ConfirmFinish, TypeOK, SessionsTypeOK, SessionRecord, Registered
  <2>2. QED
    BY <2>1, SessionStaysRegistered DEF SessionStep
<1>3. QED
  BY <1>1, <1>2 DEF EndpointInv, EndpointMapsAgree, ConfirmedEndpointIsRegistered,
                    PeerEndpointHasTunnel, StaysRegistered, Registered

LEMMA SessionsEndpoints ==
    ASSUME TypeOK, AttachInv, EndpointInv, SessionsNext, UNCHANGED <<active, handshake>>
    PROVE  EndpointInv'
<1>1. HandshakeIsFresh'
  BY DEF EndpointInv, HandshakeIsFresh
<1>2. OnlyDetached /\ StaysRegistered => EndpointInv'
  BY <1>1, OnlyDetachedKeeps, OnlyDetachedTunnels DEF EndpointInv
<1>3. ASSUME NEW r \in RandomId, SessionStep(r)
      PROVE  EndpointInv'
  <2>1. CASE \E d \in Device, expect \in Requested, v \in BOOLEAN : Register(r, d, expect, v)
    <3>1. LeaseStateFree /\ \E ip, old : AttachSender(ip, old, r)
      BY <2>1, Zenon DEF Register
    <3>2. QED
      BY <1>1, <1>3, <3>1, SessionStaysRegistered, AttachSenderEndpoints DEF EndpointInv
  <2>2. CASE \E n \in BOOLEAN : FinishRegister(r, n)
    BY <1>1, <2>2, FinishRegisterEndpoints DEF EndpointInv
  <2>3. CASE ConfirmFinish(r)
    BY <1>1, <2>3, ConfirmEndpoints DEF EndpointInv
  <2>4. CASE \/ ConfirmRead(r) \/ ConfirmSave(r) \/ DropConfirmed(r) \/ DropPending(r)
             \/ UnlinkSender(r) \/ UnlinkEndpoint(r)
    BY <1>2, <1>3, <2>4, SessionOnlyDetaches, SessionStaysRegistered
  <2>5. QED
    BY <1>3, <2>1, <2>2, <2>3, <2>4 DEF SessionStep
<1>4. CASE \A r \in RandomId : ~SessionStep(r)
  BY <1>2, <1>4, BackgroundOnlyDetaches DEF StaysRegistered
<1>5. QED
  BY <1>3, <1>4

\* remove_peer takes the tunnel and, with it, the only endpoint the peer has.
LEMMA RemovePeerEndpoints ==
    ASSUME TypeOK, EndpointInv, NEW p \in Peer, RemovePeer(p), UNCHANGED <<session, handshake>>
    PROVE  EndpointInv'
<1>1. OnlyDetached /\ StaysRegistered
  BY RemovePeerOnlyDetaches DEF StaysRegistered
<1>2. active' = [active EXCEPT ![p] = None] /\ active \in [Peer -> Assignable \cup {None}]
  BY DEF RemovePeer, TypeOK, WireGuardTypeOK
<1>3. \A a \in Assignable : active[p] = a => online_endpoints'[a].owner # p
  <2> SUFFICES ASSUME NEW a \in Assignable, active[p] = a
               PROVE  online_endpoints'[a].owner # p
    OBVIOUS
  <2>1. DisconnectWireGuardPeer(p, a)
    BY AddressFacts DEF RemovePeer
  <2>2. QED
    BY <2>1, NoEndpointFacts, LeaseConstants DEF DisconnectWireGuardPeer, Detach, endpointVars
<1>4. PeerEndpointHasTunnel'
  BY <1>1, <1>2, <1>3, NoEndpointFacts, LeaseConstants
     DEF EndpointInv, PeerEndpointHasTunnel, OnlyDetached
<1>5. HandshakeIsFresh'
  BY <1>2 DEF EndpointInv, HandshakeIsFresh, TypeOK, WireGuardTypeOK
<1>6. QED
  BY <1>1, <1>4, <1>5, OnlyDetachedKeeps DEF EndpointInv

\* activate_peer: the peer had no tunnel, hence no endpoint elsewhere.
LEMMA ActivateEndpoints ==
    ASSUME TypeOK, AttachInv, EndpointInv, HandshakeActivate, UNCHANGED session
    PROVE  EndpointInv'
<1>1. HandshakeIsFresh'
  BY Zenon DEF HandshakeActivate, HandshakeRefused, HandshakeConnect, HandshakeFinish,
               EndpointInv, HandshakeIsFresh
<1>2. StaysRegistered
  BY DEF StaysRegistered
<1>3. CASE HandshakeRefused
  <2>1. OnlyDetached /\ UNCHANGED active
    BY <1>3, SameEndpointsOnlyDetached DEF HandshakeRefused
  <2>2. QED
    BY <1>1, <1>2, <2>1, OnlyDetachedKeeps, OnlyDetachedTunnels DEF EndpointInv
<1>4. CASE HandshakeConnect
  <2>1. /\ LeaseStateFree /\ UNCHANGED active
        /\ AttachSender(handshake.ip, None, handshake.peer)
    BY <1>4, Zenon DEF HandshakeConnect
  <2>2. QED
    BY <1>1, <1>2, <2>1, AttachSenderEndpoints DEF EndpointInv
<1>5. CASE HandshakeFinish
  <2>1. PICK p, ip : p = handshake.peer /\ ip = handshake.ip
    OBVIOUS
  <2>2. p \in Peer /\ active[p] = None
    BY <1>5, <2>1 DEF HandshakeFinish, Busy, TypeOK, WireGuardTypeOK, EndpointInv, HandshakeIsFresh
  <2>3. attaching.owner = p /\ attaching.ip = ip
    BY <1>5, <2>1, <2>2 DEF HandshakeFinish, AttachInv
  <2>4. attaching # NotAttaching
    BY <2>2, <2>3, NotAttachingFacts
  <2>5. /\ EndpointMapsAgree'
        /\ \A a \in Assignable :
              IF a = ip
              THEN online_endpoints'[a].owner = p /\ online_endpoints'[a].confirmed = FALSE
              ELSE online_endpoints'[a] = online_endpoints[a]
    BY <1>5, <2>3, <2>4, AttachEndpointAgrees DEF HandshakeFinish
  <2>6. ConfirmedEndpointIsRegistered'
    BY <2>5 DEF EndpointInv, ConfirmedEndpointIsRegistered
  <2>7. \A o \in Peer : active'[o] = IF o = p THEN ip ELSE active[o]
    BY <1>5, <2>1, <2>2 DEF HandshakeFinish, TypeOK, WireGuardTypeOK
  <2>8. PeerEndpointHasTunnel'
    BY <2>2, <2>5, <2>7, AddressFacts DEF EndpointInv, PeerEndpointHasTunnel
  <2>9. QED
    BY <1>1, <2>5, <2>6, <2>8 DEF EndpointInv
<1>6. QED
  BY <1>3, <1>4, <1>5 DEF HandshakeActivate

LEMMA WireGuardEndpoints ==
    ASSUME TypeOK, AttachInv, EndpointInv, WireGuardNext, UNCHANGED session
    PROVE  EndpointInv'
<1>1. ASSUME UNCHANGED <<endpointVars, active>>, HandshakeIsFresh'
      PROVE  EndpointInv'
  <2>1. OnlyDetached /\ StaysRegistered /\ UNCHANGED active
    BY <1>1, SameEndpointsOnlyDetached DEF StaysRegistered
  <2>2. QED
    BY <1>1, <2>1, OnlyDetachedKeeps, OnlyDetachedTunnels DEF EndpointInv
<1>2. ASSUME UNCHANGED <<endpointVars, active, handshake>>
      PROVE  EndpointInv'
  BY <1>1, <1>2 DEF EndpointInv, HandshakeIsFresh
<1>3. ASSUME NEW q \in Request, NEW p \in Peer,
             \/ \E op \in Operation : Begin(q, op, p)
             \/ \E op \in Operation, ip \in Assignable : BeginReserve(q, op, p, ip)
             \/ BeginCreateAuto(q, p)
      PROVE  EndpointInv'
  BY <1>2, <1>3, Zenon DEF Begin, BeginReserve, BeginCreateAuto, Acquire, runtimeVars
<1>4. ASSUME NEW q \in Request, RequestStep(q) \/ DropRequest(q)
      PROVE  EndpointInv'
  BY <1>2, <1>4, RequestsKeepEndpoints
<1>5. ASSUME HandleRevoke
      PROVE  EndpointInv'
  <2>1. Head(commands).peer \in Peer
    BY <1>5, FirstCommand DEF HandleRevoke, TakeRevoke, TypeOK
  <2>2. QED
    BY <1>5, <2>1, RemovePeerEndpoints DEF HandleRevoke, TakeRevoke
<1>6. ASSUME NEW p \in Peer, HandshakeLoad(p)
      PROVE  EndpointInv'
  <2>1. HandshakeIsFresh'
    BY <1>6 DEF HandshakeLoad, HandshakeIsFresh
  <2>2. QED
    BY <1>1, <1>6, <2>1 DEF HandshakeLoad
<1>7. ASSUME NEW p \in Peer, ExpireTunnel(p)
      PROVE  EndpointInv'
  BY <1>7, RemovePeerEndpoints DEF ExpireTunnel
<1>8. QED
  BY <1>3, <1>4, <1>5, <1>6, <1>7, ActivateEndpoints DEF WireGuardNext, WireGuardRuns

LEMMA RestartEndpoints == Restart => EndpointInv'
BY NoEndpointFacts, LeaseConstants, Zenon
   DEF Restart, EndpointInv, EndpointMapsAgree, ConfirmedEndpointIsRegistered,
       PeerEndpointHasTunnel, HandshakeIsFresh

-----------------------------------------------------------------------------
(* Leases that are online and their sessions *)

\* Every entry that is online afterwards was there before, and the session behind
\* it stays open with its device and address.
LEMMA OnlineKept ==
    ASSUME OnlineLeaseHasSession,
           \A d \in Device :
              device_map'[d] # None /\ device_map'[d].is_connected =>
                  /\ device_map'[d] = device_map[d]
                  /\ \A r \in RandomId :
                        /\ device_map[d].random_id = r
                        /\ session[r].status \in Live
                        /\ session[r].device = d
                        /\ session[r].ip = device_map[d].ip
                        => /\ session'[r].status \in Live
                           /\ session'[r].device = session[r].device
                           /\ session'[r].ip = session[r].ip
    PROVE  OnlineLeaseHasSession'
BY DEF OnlineLeaseHasSession, Online

LEMMA RegisterOnline ==
    ASSUME TypeOK, OnlineLeaseHasSession, NEW r \in RandomId, NEW e \in Device,
           NEW expect \in Requested, NEW v \in BOOLEAN, Register(r, e, expect, v)
    PROVE  OnlineLeaseHasSession'
<1>1. PICK ip : /\ ip = AllocatedIp(e, expect, v)
                /\ device_map' = [device_map EXCEPT ![e] =
                                    [ip |-> ip, random_id |-> r, is_connected |-> TRUE]]
                /\ session' = [session EXCEPT ![r] =
                                 [status |-> "attaching", device |-> e, ip |-> ip,
                                  record |-> None]]
  BY Zenon DEF Register, AllocateIp
<1>2. /\ device_map'[e].random_id = r /\ device_map'[e].ip = ip
      /\ session'[r].status \in Live /\ session'[r].device = e /\ session'[r].ip = ip
  BY <1>1, Zenon DEF TypeOK, LeaseTypeOK, SessionsTypeOK, Live
<1>3. \A d \in Device : d # e => device_map'[d] = device_map[d]
  BY <1>1 DEF TypeOK, LeaseTypeOK
<1>4. \A o \in RandomId : session[o].status \in Live => session'[o] = session[o]
  BY <1>1, Zenon DEF Register, TypeOK, SessionsTypeOK, Live
<1>5. QED
  BY <1>2, <1>3, <1>4 DEF OnlineLeaseHasSession, Online

\* Drop for Session: an entry that still is online as this session's would pass
\* the test of offline_ip or release_pre_registered_ip.
LEMMA DropOnline ==
    ASSUME TypeOK, OnlineLeaseHasSession, NEW r \in RandomId, DropConfirmed(r) \/ DropPending(r)
    PROVE  OnlineLeaseHasSession'
<1>1. PICK e, ip : /\ e = session[r].device /\ ip = session[r].ip
                   /\ e \in Device /\ ip \in Assignable
  BY DEF DropConfirmed, DropPending, TypeOK, SessionsTypeOK
<1>2. \A o \in RandomId : o # r => session'[o] = session[o]
  BY DEF DropConfirmed, DropPending, TypeOK, SessionsTypeOK
<1>3. \A d \in Device :
         device_map'[d] # None /\ device_map'[d].is_connected =>
             /\ device_map'[d] = device_map[d]
             /\ d = e => ~IsCurrent(e, ip, r)
  <2>1. CASE IsCurrent(e, ip, r)
    <3>1. OfflineIp(e, ip, r) \/ RemoveDevices({e})
      BY <1>1, <2>1 DEF DropConfirmed, DropPending, ReleasePreRegisteredIp
    <3>2. \A d \in Device : d # e => device_map'[d] = device_map[d]
      BY <3>1 DEF OfflineIp, RemoveDevices, TypeOK, LeaseTypeOK
    <3>3. device_map'[e] = None \/ ~device_map'[e].is_connected
      BY <1>1, <2>1, <3>1
         DEF OfflineIp, RemoveDevices, IsCurrent, TypeOK, LeaseTypeOK, Entry
    <3>4. QED
      BY <3>2, <3>3
  <2>2. CASE ~IsCurrent(e, ip, r)
    BY <1>1, <2>2 DEF DropConfirmed, DropPending, leaseVars
  <2>3. QED
    BY <2>1, <2>2, Zenon
<1>4. QED
  BY <1>1, <1>2, <1>3, OnlineKept, Zenon DEF IsCurrent

LEMMA SessionsOnline ==
    ASSUME TypeOK, OnlineLeaseHasSession, SessionsNext
    PROVE  OnlineLeaseHasSession'
<1>1. ASSUME NEW r \in RandomId, SessionStep(r)
      PROVE  OnlineLeaseHasSession'
  <2>1. CASE \/ ConfirmRead(r) \/ ConfirmSave(r) \/ ConfirmFinish(r)
             \/ UnlinkSender(r) \/ UnlinkEndpoint(r)
             \/ \E n \in BOOLEAN : FinishRegister(r, n)
    <3>1. UNCHANGED device_map
      BY <2>1, Zenon DEF ConfirmRead, ConfirmSave, ConfirmFinish, UnlinkSender, UnlinkEndpoint,
                         FinishRegister, leaseVars
    <3>2. \A o \in RandomId :
             session[o].status \in Live => /\ session'[o].status \in Live
                                           /\ session'[o].device = session[o].device
                                           /\ session'[o].ip = session[o].ip
      BY <2>1 DEF ConfirmRead, ConfirmSave, ConfirmFinish, UnlinkSender, UnlinkEndpoint,
                  FinishRegister, TypeOK, SessionsTypeOK, SessionRecord, Live
    <3>3. QED
      BY <3>1, <3>2, OnlineKept
  <2>2. QED
    BY <1>1, <2>1, RegisterOnline, DropOnline DEF SessionStep
<1>2. ASSUME UNCHANGED session, UNCHANGED device_map \/ \E S \in SUBSET Device : RemoveDevices(S)
      PROVE  OnlineLeaseHasSession'
  BY <1>2, OnlineKept DEF RemoveDevices
<1>3. ASSUME NEW w \in saves, FinishSave(w)
      PROVE  OnlineLeaseHasSession'
  BY <1>2, <1>3 DEF FinishSave, leaseVars
<1>4. ASSUME CleanupStep
      PROVE  OnlineLeaseHasSession'
  BY <1>2, <1>4 DEF CleanupStep, CollectExpired, RemoveExpired, ReleaseExpired, leaseVars,
                    TypeOK, SessionsTypeOK
<1>5. ASSUME NEW d \in Device, DeleteStep(d)
      PROVE  OnlineLeaseHasSession'
  BY <1>2, <1>5 DEF DeleteStep, DeleteCheck, DeleteFromMemory, DeleteFromDatabase, leaseVars
<1>6. QED
  BY <1>1, <1>3, <1>4, <1>5 DEF SessionsNext

LEMMA RequestStepKeepsDevices ==
    ASSUME NEW q \in Request, RequestStep(q)
    PROVE  UNCHANGED device_map
BY Zenon DEF RequestStep, Persist, PersistFails, LoadUpdated, LoadFails, Rollback, Commit, SendRevoke,
       RollbackReservation, CommitReservation, DropReservation, ReleaseReservation, leaseVars

LEMMA WireGuardOnline ==
    ASSUME OnlineLeaseHasSession, WireGuardNext, UNCHANGED session
    PROVE  OnlineLeaseHasSession'
<1>1. UNCHANGED device_map
  BY RequestStepKeepsDevices
     DEF WireGuardNext, WireGuardRuns, Begin, BeginReserve, BeginCreateAuto, PrepareReservation, DropRequest,
         HandleRevoke, TakeRevoke, HandshakeActivate, HandshakeRefused, HandshakeConnect,
         HandshakeFinish, HandshakeLoad, ExpireTunnel, leaseVars
<1>2. QED
  BY <1>1, OnlineKept

LEMMA RestartOnline == Restart => OnlineLeaseHasSession'
BY DEF Restart, ReadTables, Load, LoadedDevices, OnlineLeaseHasSession, Online

-----------------------------------------------------------------------------
(* Theorems *)

LEMMA EndpointInvHolds == Spec => []EndpointInv
<1>1. Init => EndpointInv
  BY NoEndpointFacts, LeaseConstants
     DEF Init, NoEndpoints, WireGuardInit, RuntimeIdle, EndpointInv, EndpointMapsAgree,
         ConfirmedEndpointIsRegistered, PeerEndpointHasTunnel, HandshakeIsFresh
<1>2. TypeOK /\ AttachInv /\ EndpointInv /\ [Next]_vars => EndpointInv'
  <2> SUFFICES ASSUME TypeOK, AttachInv, EndpointInv, [Next]_vars
               PROVE  EndpointInv'
    OBVIOUS
  <2>1. CASE VntStep(SessionsNext)
    BY <2>1, SessionsEndpoints DEF VntStep, wireguardVars
  <2>2. CASE WireGuardStep(WireGuardNext)
    BY <2>2, WireGuardEndpoints DEF WireGuardStep, sessionVars
  <2>3. CASE UNCHANGED vars
    <3>1. UNCHANGED <<sender_map, online_endpoints, attaching, session, active, handshake>>
      BY <2>3 DEF vars, endpointVars, sessionVars, wireguardVars
    <3>2. QED
      BY <3>1 DEF EndpointInv, EndpointMapsAgree, ConfirmedEndpointIsRegistered,
                  PeerEndpointHasTunnel, HandshakeIsFresh
  <2>4. QED
    BY <2>1, <2>2, <2>3, RestartEndpoints DEF Next, Running
<1>3. QED
  BY <1>1, <1>2, ServerTypeCorrect, AttachInvHolds, PTL DEF Spec

\* sender_map and online_endpoints name two owners for one address only between
\* the two inserts that attach the second, for every number of sessions and
\* peers: try_deliver, which reads the maps without the mutex, cannot go on
\* sending by one endpoint to the channel of another.
THEOREM EndpointsAgree == Spec => []EndpointMapsAgree
<1>1. EndpointInv => EndpointMapsAgree
  BY DEF EndpointInv
<1>2. QED
  BY EndpointInvHolds, <1>1, PTL

\* A confirmed endpoint is one whose session has passed the database, however
\* many sessions register and confirm at once.
THEOREM ConfirmedIsRegistered == Spec => []ConfirmedEndpointIsRegistered
<1>1. EndpointInv => ConfirmedEndpointIsRegistered
  BY DEF EndpointInv
<1>2. QED
  BY EndpointInvHolds, <1>1, PTL

\* A WireGuard endpoint that the data path can see has its tunnel in the runtime:
\* revocations, expiries and reconnections leave none behind.
THEOREM EndpointsHaveTunnels == Spec => []PeerEndpointHasTunnel
<1>1. EndpointInv => PeerEndpointHasTunnel
  BY DEF EndpointInv
<1>2. QED
  BY EndpointInvHolds, <1>1, PTL

\* A device that counts as online has an open session with that very address, in
\* every interleaving of registrations, drops, cleanups and deletions: no lease
\* stays online for ever.
THEOREM OnlineLeasesAreLive == Spec => []OnlineLeaseHasSession
<1>1. Init => OnlineLeaseHasSession
  BY Zenon DEF Init, DatabaseInit, Loaded, LoadedDevices, OnlineLeaseHasSession, Online
<1>2. TypeOK /\ OnlineLeaseHasSession /\ [Next]_vars => OnlineLeaseHasSession'
  <2> SUFFICES ASSUME TypeOK, OnlineLeaseHasSession, [Next]_vars
               PROVE  OnlineLeaseHasSession'
    OBVIOUS
  <2>1. CASE VntStep(SessionsNext)
    BY <2>1, SessionsOnline DEF VntStep
  <2>2. CASE WireGuardStep(WireGuardNext)
    BY <2>2, WireGuardOnline DEF WireGuardStep, sessionVars
  <2>3. CASE UNCHANGED vars
    BY <2>3, OnlineKept DEF vars, leaseVars, sessionVars
  <2>4. QED
    BY <2>1, <2>2, <2>3, RestartOnline DEF Next, Running
<1>3. QED
  BY <1>1, <1>2, ServerTypeCorrect, PTL DEF Spec

-----------------------------------------------------------------------------
(* The update lock and the command channel *)

LockSteps == {"persist", "load", "commit", "rollback"}
MoveSteps == {"persist", "commit", "rollback"}

\* A request keeps wireguard_ip_update_lock until it has committed.
LockHeld == \A q \in Request : request[q].step \in LockSteps => update_lock = q

\* Only a request that has occupied an address rolls back.
RollsBackReservation ==
    \A q \in Request : request[q].step = "rollback" => request[q].op \in Reserving

\* A command in the channel is of a request that waits for its acknowledgement,
\* unless that request was dropped, and no request has two there.
CommandsFit ==
    /\ \A i \in 1 .. Len(commands) :
          commands[i].by # None => /\ request[commands[i].by].step = "await_ack"
                                   /\ request[commands[i].by].peer = commands[i].peer
    /\ \A i, j \in 1 .. Len(commands) :
          commands[i].by # None /\ commands[i].by = commands[j].by => i = j

LockInv == LockHeld /\ RollsBackReservation /\ CommandsFit /\ MoveHoldsBothAddresses

LEMMA ReturnShape ==
    ASSUME RequestsOK, NEW q \in Request, Return(q)
    PROVE  /\ request'[q].step = "idle" /\ request'[q].peer = None
           /\ \A o \in Request : o # q => request'[o] = request[o]
BY DEF RequestsOK, Return, NoRequest

LEMMA AdvanceShape ==
    ASSUME RequestsOK, NEW q \in Request, NEW step, Advance(q, step)
    PROVE  /\ request'[q].step = step
           /\ request'[q].op = request[q].op
           /\ request'[q].peer = request[q].peer
           /\ request'[q].ip = request[q].ip
           /\ request'[q].previous_ip = request[q].previous_ip
           /\ request'[q].removed = request[q].removed
           /\ \A o \in Request : o # q => request'[o] = request[o]
BY DEF RequestsOK, RequestRecord, Advance

\* The one step that records something else than how far the request is.
LEMMA ReleaseShape ==
    ASSUME RequestsOK, NEW q \in Request, NEW removed,
           request' = [request EXCEPT ![q].step = "commit", ![q].removed = removed]
    PROVE  /\ request'[q].step = "commit"
           /\ request'[q].op = request[q].op
           /\ request'[q].peer = request[q].peer
           /\ request'[q].removed = removed
           /\ \A o \in Request : o # q => request'[o] = request[o]
BY DEF RequestsOK, RequestRecord

LEMMA AcquireShape ==
    ASSUME RequestsOK, NEW q \in Request, NEW op, NEW p, NEW ip, NEW previous_ip,
           Acquire(q, op, p, ip, previous_ip)
    PROVE  /\ request'[q].step = "persist" /\ request'[q].op = op /\ request'[q].peer = p
           /\ request'[q].ip = ip /\ request'[q].previous_ip = previous_ip
           /\ \A o \in Request : o # q => request'[o] = request[o]
           /\ update_lock' = q /\ update_lock = None /\ request[q].step = "idle"
BY DEF RequestsOK, Acquire

\* Where the steps with a branch for each operation lead.
LEMMA PersistControl ==
    ASSUME RequestsOK, NEW q \in Request, Persist(q)
    PROVE  /\ request[q].step = "persist"
           /\ \/ Return(q)
              \/ Advance(q, "commit") /\ UNCHANGED update_lock
              \/ Advance(q, "load") /\ UNCHANGED update_lock
              \/ /\ request[q].op = "release" /\ UNCHANGED update_lock
                 /\ request'[q].step = "commit"
                 /\ request'[q].op = request[q].op /\ request'[q].peer = request[q].peer
                 /\ \A o \in Request : o # q => request'[o] = request[o]
<1>1. /\ request[q].step = "persist"
      /\ \/ Return(q)
         \/ Advance(q, "commit") /\ UNCHANGED update_lock
         \/ Advance(q, "load") /\ UNCHANGED update_lock
         \/ /\ request[q].op = "release" /\ UNCHANGED update_lock
            /\ \E removed : request' = [request EXCEPT ![q].step = "commit",
                                                     ![q].removed = removed]
  BY Zenon DEF Persist
<1>2. QED
  BY <1>1, ReleaseShape, Zenon

LEMMA CommitControl ==
    ASSUME NEW q \in Request, Commit(q)
    PROVE  /\ request[q].step = "commit"
           /\ \/ Return(q)
              \/ Advance(q, "revoke") /\ (UNCHANGED update_lock \/ update_lock' = None)
BY Zenon DEF Commit, Unlock

\* What one step of a request does to its own record and to the lock.
LEMMA RequestStepShape ==
    ASSUME RequestsOK, NEW q \in Request, RequestStep(q)
    PROVE  /\ \A o \in Request : o # q => request'[o] = request[o]
           /\ request[q].step \in LockSteps \cup {"revoke"}
           /\ \/ request'[q].step = "idle" /\ request'[q].peer = None
              \/ request'[q].op = request[q].op /\ request'[q].peer = request[q].peer
           /\ request'[q].step \in LockSteps =>
                 request[q].step \in LockSteps /\ UNCHANGED update_lock
           /\ \/ UNCHANGED update_lock
              \/ update_lock' = None /\ (update_lock = q \/ request[q].step = "commit")
<1> USE DEF LockSteps
<1>1. CASE Persist(q)
  BY <1>1, PersistControl, ReturnShape, AdvanceShape, Zenon DEF Return
<1>2. CASE PersistFails(q)
  BY <1>2, ReturnShape, AdvanceShape, Zenon DEF PersistFails, Return
<1>3. CASE LoadUpdated(q)
  BY <1>3, ReturnShape, AdvanceShape, Zenon DEF LoadUpdated, Return
<1>4. CASE LoadFails(q) \/ Rollback(q)
  BY <1>4, ReturnShape, Zenon DEF LoadFails, Rollback, Return
<1>5. CASE Commit(q)
  BY <1>5, CommitControl, ReturnShape, AdvanceShape DEF Return
<1>6. CASE SendRevoke(q)
  <2>1. request[q].step = "revoke" /\ Advance(q, "await_ack") /\ UNCHANGED update_lock
    BY <1>6, Zenon DEF SendRevoke
  <2>2. QED
    BY <2>1, AdvanceShape
<1>7. QED
  BY <1>1, <1>2, <1>3, <1>4, <1>5, <1>6, Zenon DEF RequestStep

LEMMA RequestLockHeld ==
    ASSUME RequestsOK, LockHeld, NEW q \in Request, RequestStep(q)
    PROVE  LockHeld'
BY RequestStepShape DEF LockHeld, LockSteps

LEMMA ReturnLockHeld ==
    ASSUME RequestsOK, LockHeld, NEW q \in Request, Return(q)
    PROVE  LockHeld'
BY ReturnShape, Zenon DEF LockHeld, LockSteps, Return

LEMMA RequestRollsBack ==
    ASSUME RequestsOK, RollsBackReservation, NEW q \in Request, RequestStep(q)
    PROVE  RollsBackReservation'
<1>1. CASE PersistFails(q)
  <2>1. \/ Return(q)
        \/ Advance(q, "rollback") /\ request[q].op \in Reserving
    BY <1>1, Zenon DEF PersistFails
  <2>2. /\ \A o \in Request : o # q => request'[o] = request[o]
        /\ request'[q].step = "rollback" => request'[q].op \in Reserving
    BY <2>1, ReturnShape, AdvanceShape, Zenon
  <2>3. QED
    BY <2>2, Zenon DEF RollsBackReservation
<1>2. CASE ~PersistFails(q)
  <2>1. request'[q].step # "rollback"
    <3>1. /\ Return(q) => request'[q].step = "idle"
          /\ \A step : Advance(q, step) => request'[q].step = step
      BY ReturnShape, AdvanceShape, Zenon
    <3>2. Persist(q) => Return(q) \/ Advance(q, "commit") \/ Advance(q, "load")
                        \/ request'[q].step = "commit"
      BY PersistControl, Zenon
    <3>3. Commit(q) => Return(q) \/ Advance(q, "revoke")
      BY CommitControl, Zenon
    <3>4. LoadUpdated(q) \/ LoadFails(q) \/ Rollback(q) \/ SendRevoke(q) =>
              Return(q) \/ Advance(q, "revoke") \/ Advance(q, "await_ack")
      BY Zenon DEF LoadUpdated, LoadFails, Rollback, SendRevoke
    <3>5. request'[q].step \in {"idle", "commit", "load", "revoke", "await_ack"}
      BY <1>2, <3>1, <3>2, <3>3, <3>4, Zenon DEF RequestStep
    <3>6. QED
      BY <3>5, Zenon
  <2>2. QED
    BY <2>1, RequestStepShape, Zenon DEF RollsBackReservation
<1>3. QED
  BY <1>1, <1>2, Zenon

-----------------------------------------------------------------------------
(* Commands *)

LEMMA CommandFacts ==
    ASSUME RuntimeOK
    PROVE  \A i \in 1 .. Len(commands) : commands[i].by \in Request \cup {None}
<1>1. \A i \in 1 .. Len(commands) : commands[i] \in Command
  BY DEF RuntimeOK
<1>2. QED
  BY <1>1 DEF Command

\* As long as the channel does not change, the request that moves must not be
\* one that waits for its acknowledgement.
LEMMA CommandsStay ==
    ASSUME RuntimeOK, CommandsFit, UNCHANGED commands, NEW q \in Request,
           request[q].step # "await_ack", \A o \in Request : o # q => request'[o] = request[o]
    PROVE  CommandsFit'
<1>1. \A i \in 1 .. Len(commands) : commands[i].by \in Request \cup {None}
  BY CommandFacts, Zenon
<1>2. QED
  BY <1>1, Zenon DEF CommandsFit

LEMMA SendCommands ==
    ASSUME RequestsOK, RuntimeOK, CommandsFit, NEW q \in Request, SendRevoke(q)
    PROVE  CommandsFit'
<1> DEFINE c == [peer |-> request[q].peer, by |-> q]
           n == Len(commands)
<1>1. /\ n \in Nat /\ Len(commands') = n + 1 /\ commands'[n + 1] = c
      /\ \A i \in 1 .. n : commands'[i] = commands[i]
  BY DEF SendRevoke, RuntimeOK
<1>2. \A i \in 1 .. n : commands[i].by \in Request \cup {None}
  BY CommandFacts
<1>3. /\ request[q].step = "revoke" /\ request'[q].step = "await_ack"
      /\ request'[q].peer = request[q].peer
      /\ \A o \in Request : o # q => request'[o] = request[o]
  BY AdvanceShape, Zenon DEF SendRevoke
<1>4. \A i \in 1 .. n : commands[i].by # q
  BY <1>3, WireGuardConstants, Zenon DEF CommandsFit
<1>5. c.by = q /\ c.peer = request[q].peer
  OBVIOUS
<1> HIDE DEF c, n
<1>6. \A i \in 1 .. Len(commands') :
         \/ i \in 1 .. n /\ commands'[i] = commands[i]
         \/ i = n + 1 /\ commands'[i] = c
  BY <1>1
<1>7. \A i \in 1 .. Len(commands') :
         commands'[i].by # None => /\ request'[commands'[i].by].step = "await_ack"
                                   /\ request'[commands'[i].by].peer = commands'[i].peer
  BY <1>2, <1>3, <1>4, <1>5, <1>6 DEF CommandsFit, n
<1>8. \A i, j \in 1 .. Len(commands') :
         commands'[i].by # None /\ commands'[i].by = commands'[j].by => i = j
  BY <1>4, <1>5, <1>6, Zenon DEF CommandsFit, n
<1>9. QED
  BY <1>7, <1>8, Zenon DEF CommandsFit

LEMMA TakeCommands ==
    ASSUME RequestsOK, RuntimeOK, CommandsFit, TakeRevoke
    PROVE  CommandsFit'
<1> DEFINE n == Len(commands)
           by == Head(commands).by
<1>1. /\ n \in Nat /\ n >= 1 /\ Len(commands') = n - 1 /\ commands[1] = Head(commands)
      /\ \A i \in 1 .. n - 1 : commands'[i] = commands[i + 1]
  BY DEF TakeRevoke, RuntimeOK
<1>2. \A i \in 1 .. n : commands[i].by \in Request \cup {None}
  BY CommandFacts
<1>3. by # None => by \in Request /\ \A o \in Request : o # by => request'[o] = request[o]
  BY <1>1, <1>2, ReturnShape DEF TakeRevoke
<1>4. by = None => UNCHANGED request
  BY DEF TakeRevoke
<1>5. \A i \in 1 .. n - 1 : commands[i + 1].by # None => commands[i + 1].by # by
  <2>1. \A i \in 1 .. n - 1 : i + 1 \in 1 .. n /\ 1 \in 1 .. n /\ i + 1 # 1
    BY <1>1
  <2>2. QED
    BY <1>1, <2>1 DEF CommandsFit
<1>6. \A i \in 1 .. n - 1 : i + 1 \in 1 .. n
  BY <1>1
<1> HIDE DEF n, by
<1>7. \A i \in 1 .. Len(commands') :
         commands'[i].by # None => /\ request'[commands'[i].by].step = "await_ack"
                                   /\ request'[commands'[i].by].peer = commands'[i].peer
  BY <1>1, <1>2, <1>3, <1>4, <1>5, <1>6 DEF CommandsFit, n
<1>8. \A i, j \in 1 .. Len(commands') :
         commands'[i].by # None /\ commands'[i].by = commands'[j].by => i = j
  <2> SUFFICES ASSUME NEW i \in 1 .. Len(commands'), NEW j \in 1 .. Len(commands'),
                      commands'[i].by # None, commands'[i].by = commands'[j].by
               PROVE  i = j
    OBVIOUS
  <2>1. i + 1 \in 1 .. n /\ j + 1 \in 1 .. n /\ i \in Int /\ j \in Int
    BY <1>1, <1>6
  <2>2. commands[i + 1].by # None /\ commands[i + 1].by = commands[j + 1].by
    BY <1>1
  <2>3. i + 1 = j + 1
    BY <2>1, <2>2, Zenon DEF CommandsFit, n
  <2>4. QED
    BY <2>1, <2>3
<1>9. QED
  BY <1>7, <1>8, Zenon DEF CommandsFit

LEMMA DropCommands ==
    ASSUME RequestsOK, RuntimeOK, CommandsFit, NEW q \in Request, DropRequest(q)
    PROVE  CommandsFit'
<1>1. /\ Len(commands') = Len(commands) /\ DOMAIN commands = 1 .. Len(commands)
      /\ \A i \in 1 .. Len(commands) :
            commands'[i] = IF commands[i].by = q THEN [commands[i] EXCEPT !.by = None]
                           ELSE commands[i]
  <2>1. DOMAIN commands = 1 .. Len(commands) /\ Len(commands) \in Nat
    BY DEF RuntimeOK
  <2>2. DOMAIN commands' = 1 .. Len(commands) /\ commands' \in Seq(Command)
    BY <2>1, DropRequestType DEF DropRequest, RuntimeOK
  <2>3. Len(commands') = Len(commands)
    BY <2>1, <2>2
  <2>4. QED
    BY <2>1, <2>3 DEF DropRequest
<1>2. \A i \in 1 .. Len(commands) : commands[i] \in Command
  BY DEF RuntimeOK
<1>3. \A i \in 1 .. Len(commands) :
         /\ commands'[i].peer = commands[i].peer
         /\ commands'[i].by = IF commands[i].by = q THEN None ELSE commands[i].by
  BY <1>1, <1>2, Zenon DEF Command
<1>4. \A o \in Request : o # q => request'[o] = request[o]
  BY ReturnShape DEF DropRequest
<1>5. \A i \in 1 .. Len(commands) : commands[i].by \in Request \cup {None}
  BY <1>2 DEF Command
<1>6. QED
  BY <1>1, <1>3, <1>4, <1>5 DEF CommandsFit

-----------------------------------------------------------------------------
(* The two addresses of a move *)

MoveHolds(q) ==
    request[q].op \in Reserving /\ request[q].step \in MoveSteps =>
        /\ wireguard_peer_ip_map[request[q].ip] = request[q].peer
        /\ request[q].previous_ip # None =>
              wireguard_peer_ip_map[request[q].previous_ip] = request[q].peer

LEMMA MoveHoldsIs == MoveHoldsBothAddresses <=> \A q \in Request : MoveHolds(q)
BY DEF MoveHoldsBothAddresses, MoveHolds, MoveSteps

\* Requests other than q that have no move under way do not get one.
LEMMA OthersMoveHolds ==
    ASSUME LockHeld, NEW q \in Request, update_lock \in {q, None},
           \A o \in Request : o # q => request'[o] = request[o], MoveHolds(q)'
    PROVE  MoveHoldsBothAddresses'
<1>1. \A o \in Request : o # q => request'[o].step \notin MoveSteps
  BY WireGuardConstants DEF LockHeld, LockSteps, MoveSteps
<1>2. \A o \in Request : MoveHolds(o)'
  BY <1>1, Zenon DEF MoveHolds
<1>3. QED
  BY <1>2, Zenon DEF MoveHoldsBothAddresses, MoveHolds, MoveSteps

LEMMA RequestMoveHolds ==
    ASSUME TypeOK, LockInv, NEW q \in Request, RequestStep(q)
    PROVE  MoveHoldsBothAddresses'
<1> USE DEF LockInv
<1>1. RequestsOK /\ \A o \in Request : MoveHolds(o)
  BY WireGuardTypeIs, MoveHoldsIs DEF TypeOK
<1>2. \A o \in Request : o # q => request'[o] = request[o]
  BY <1>1, RequestStepShape, Zenon
<1>3. CASE Rollback(q) \/ Commit(q)
  <2>1. request'[q].step \notin MoveSteps
    BY <1>1, <1>3, CommitControl, ReturnShape, AdvanceShape DEF Rollback, MoveSteps
  <2>2. update_lock = q
    BY <1>3, CommitControl, Zenon DEF Rollback, LockHeld, LockSteps
  <2>3. QED
    BY <1>2, <2>1, <2>2, OthersMoveHolds DEF MoveHolds
<1>4. CASE ~Rollback(q) /\ ~Commit(q)
  <2>1. UNCHANGED wireguard_peer_ip_map
    BY <1>4, Zenon DEF RequestStep, Persist, PersistFails, LoadUpdated, LoadFails, SendRevoke, leaseVars
  <2>2. MoveHolds(q)'
    <3>1. CASE request'[q].step \notin MoveSteps
      BY <3>1 DEF MoveHolds
    <3>2. CASE request'[q].step \in MoveSteps
      <4>1. Persist(q) \/ PersistFails(q)
        <5>1. CASE LoadUpdated(q)
          BY <1>1, <3>2, <5>1, ReturnShape, AdvanceShape DEF LoadUpdated, MoveSteps
        <5>2. CASE LoadFails(q)
          BY <1>1, <3>2, <5>2, ReturnShape, Zenon DEF LoadFails, MoveSteps
        <5>3. CASE SendRevoke(q)
          BY <1>1, <3>2, <5>3, AdvanceShape DEF SendRevoke, MoveSteps
        <5>4. QED
          BY <1>4, <5>1, <5>2, <5>3, Zenon DEF RequestStep
      <4>2. /\ request[q].step = "persist"
            /\ request'[q].op = request[q].op /\ request'[q].peer = request[q].peer
            /\ request[q].op \in Reserving => /\ request'[q].ip = request[q].ip
                                              /\ request'[q].previous_ip = request[q].previous_ip
        BY <1>1, <3>2, <4>1, ReturnShape, AdvanceShape, ReleaseShape, Zenon
           DEF Persist, PersistFails, MoveSteps, Reserving
      <4>3. QED
        BY <1>1, <2>1, <4>2, Zenon DEF MoveHolds, MoveSteps
    <3>3. QED
      BY <3>1, <3>2
  <2>3. \A o \in Request : o # q => MoveHolds(o)'
    BY <1>1, <1>2, <2>1, Zenon DEF MoveHolds
  <2>4. QED
    BY <2>2, <2>3, Zenon DEF MoveHoldsBothAddresses, MoveHolds, MoveSteps
<1>5. QED
  BY <1>3, <1>4

\* A request that takes the lock.
LEMMA AcquireLockInv ==
    ASSUME TypeOK, LockInv, NEW q \in Request, NEW op, NEW p, NEW ip, NEW previous_ip,
           Acquire(q, op, p, ip, previous_ip),
           op \in Reserving => /\ wireguard_peer_ip_map'[ip] = p
                               /\ previous_ip # None => wireguard_peer_ip_map'[previous_ip] = p
    PROVE  LockInv'
<1>1. RequestsOK /\ RuntimeOK
  BY WireGuardTypeIs DEF TypeOK
<1>2. /\ request'[q].step = "persist" /\ request'[q].op = op /\ request'[q].peer = p
      /\ request'[q].ip = ip /\ request'[q].previous_ip = previous_ip
      /\ \A o \in Request : o # q => request'[o] = request[o]
      /\ update_lock' = q /\ update_lock = None /\ request[q].step = "idle"
  BY <1>1, AcquireShape, Zenon
<1>3. LockHeld'
  BY <1>2, WireGuardConstants, Zenon DEF LockInv, LockHeld
<1>4. RollsBackReservation'
  BY <1>2, Zenon DEF LockInv, RollsBackReservation
<1>5. CommandsFit'
  BY <1>1, <1>2, CommandsStay, Zenon DEF LockInv, Acquire, runtimeVars
<1>6. MoveHolds(q)'
  BY <1>2, Zenon DEF MoveHolds
<1>7. MoveHoldsBothAddresses'
  BY <1>2, <1>6, OthersMoveHolds, Zenon DEF LockInv
<1>8. QED
  BY <1>3, <1>4, <1>5, <1>7 DEF LockInv

LEMMA BeginLockInv ==
    ASSUME TypeOK, LockInv, NEW q \in Request, NEW p \in Peer,
           \/ \E op \in Operation : Begin(q, op, p)
           \/ \E op \in Operation, ip \in Assignable : BeginReserve(q, op, p, ip)
           \/ BeginCreateAuto(q, p)
    PROVE  LockInv'
<1>1. wireguard_peer_ip_map \in [Assignable -> Peer \cup {None}]
  BY DEF TypeOK, LeaseTypeOK
<1>2. ASSUME NEW op \in Operation, Begin(q, op, p)
      PROVE  LockInv'
  BY <1>2, AcquireLockInv, Zenon DEF Begin, Reserving
<1>3. ASSUME NEW op \in Operation, NEW ip \in Assignable, BeginReserve(q, op, p, ip)
      PROVE  LockInv'
  <2>1. PICK previous_ip \in PreviousIps(p) : Acquire(q, op, p, ip, previous_ip)
    BY <1>3 DEF BeginReserve
  <2>2. /\ wireguard_peer_ip_map'[ip] = p
        /\ previous_ip # None => wireguard_peer_ip_map'[previous_ip] = p
    BY <1>1, <1>3, Zenon DEF BeginReserve, PrepareReservation, PreviousIps, ReservedIps
  <2>3. QED
    BY <2>1, <2>2, AcquireLockInv
<1>4. ASSUME BeginCreateAuto(q, p)
      PROVE  LockInv'
  <2>1. PICK ip \in Assignable : ip = FindAvailableIp
    BY <1>4, FindAvailableIpIsFree, AddressFacts, Zenon DEF BeginCreateAuto, FreeHosts
  <2>2. Acquire(q, "create_auto", p, ip, None) /\ PrepareReservation(p, ip)
    BY <1>4, <2>1, Zenon DEF BeginCreateAuto
  <2>3. wireguard_peer_ip_map'[ip] = p
    BY <1>1, <2>2, Zenon DEF PrepareReservation
  <2>4. QED
    BY <2>2, <2>3, AcquireLockInv
<1>5. QED
  BY <1>2, <1>3, <1>4

\* A request returns from outside its own steps: it is acknowledged or dropped.
LEMMA ReturnLockInv ==
    ASSUME TypeOK, LockInv, NEW q \in Request, Return(q), CommandsFit', UNCHANGED leaseVars
    PROVE  LockInv'
<1>1. RequestsOK /\ \A o \in Request : MoveHolds(o)
  BY WireGuardTypeIs, MoveHoldsIs DEF TypeOK, LockInv
<1>2. request'[q].step = "idle" /\ \A o \in Request : o # q => request'[o] = request[o]
  BY <1>1, ReturnShape
<1>3. RollsBackReservation'
  BY <1>2, Zenon DEF LockInv, RollsBackReservation
<1>4. \A o \in Request : MoveHolds(o)'
  BY <1>1, <1>2, Zenon DEF MoveHolds, MoveSteps, leaseVars
<1>5. QED
  BY <1>1, <1>3, <1>4, ReturnLockHeld, Zenon
     DEF LockInv, MoveHoldsBothAddresses, MoveHolds, MoveSteps

LEMMA SameLockInv ==
    ASSUME LockInv, UNCHANGED <<request, update_lock, commands, wireguard_peer_ip_map>>
    PROVE  LockInv'
BY Zenon DEF LockInv, LockHeld, RollsBackReservation, CommandsFit, MoveHoldsBothAddresses

LEMMA WireGuardLockInv ==
    ASSUME TypeOK, LockInv, WireGuardNext
    PROVE  LockInv'
<1>1. RequestsOK /\ RuntimeOK
  BY WireGuardTypeIs DEF TypeOK
<1>2. ASSUME NEW q \in Request, RequestStep(q)
      PROVE  LockInv'
  <2>1. CommandsFit'
    <3>1. CASE SendRevoke(q)
      BY <1>1, <3>1, SendCommands DEF LockInv
    <3>2. CASE ~SendRevoke(q)
      <4>1. UNCHANGED commands
        BY <1>2, <3>2, Zenon DEF RequestStep, Persist, PersistFails, LoadUpdated, LoadFails, Rollback,
                          Commit, runtimeVars
      <4>2. /\ request[q].step # "await_ack"
            /\ \A o \in Request : o # q => request'[o] = request[o]
        BY <1>1, <1>2, RequestStepShape, Zenon DEF LockSteps
      <4>3. QED
        BY <1>1, <4>1, <4>2, CommandsStay DEF LockInv
    <3>3. QED
      BY <3>1, <3>2
  <2>2. QED
    BY <1>1, <1>2, <2>1, RequestLockHeld, RequestRollsBack, RequestMoveHolds DEF LockInv
<1>3. ASSUME NEW q \in Request, DropRequest(q)
      PROVE  LockInv'
  <2>1. CommandsFit'
    BY <1>1, <1>3, DropCommands DEF LockInv
  <2>2. QED
    BY <1>3, <2>1, ReturnLockInv DEF DropRequest
<1>4. ASSUME HandleRevoke
      PROVE  LockInv'
  <2>1. CommandsFit' /\ UNCHANGED leaseVars
    BY <1>1, <1>4, TakeCommands, Zenon DEF LockInv, HandleRevoke, TakeRevoke
  <2>2. CASE Head(commands).by # None
    <3>1. Head(commands).by \in Request /\ Return(Head(commands).by)
      BY <1>4, <2>2, FirstCommand, Zenon DEF HandleRevoke, TakeRevoke, TypeOK
    <3>2. QED
      BY <2>1, <3>1, ReturnLockInv
  <2>3. CASE Head(commands).by = None
    <3>1. UNCHANGED <<request, update_lock, wireguard_peer_ip_map>>
      BY <1>4, <2>3 DEF HandleRevoke, TakeRevoke, leaseVars
    <3>2. QED
      BY <2>1, <3>1, Zenon DEF LockInv, LockHeld, RollsBackReservation, MoveHoldsBothAddresses
  <2>4. QED
    BY <2>2, <2>3
<1>5. ASSUME HandshakeActivate \/ \E p \in Peer : HandshakeLoad(p) \/ ExpireTunnel(p)
      PROVE  LockInv'
  BY <1>5, SameLockInv, Zenon DEF HandshakeActivate, HandshakeRefused, HandshakeConnect,
                                  HandshakeFinish, HandshakeLoad, ExpireTunnel, leaseVars
<1>6. QED
  BY <1>2, <1>3, <1>4, <1>5, BeginLockInv DEF WireGuardNext, WireGuardRuns

\* Nothing on the VNT side touches what the requests work on.
LEMMA SessionsKeepPeers ==
    ASSUME TypeOK, SessionsNext
    PROVE  UNCHANGED <<wireguard_peer_ip_map, wireguard_peers, ip_allocations>>
<1> DEFINE Kept == UNCHANGED <<wireguard_peer_ip_map, wireguard_peers, ip_allocations>>
<1> USE DEF leaseVars, dbVars
<1>1. ASSUME NEW r \in RandomId, SessionStep(r)
      PROVE  Kept
  <2>1. ASSUME NEW d \in Device, NEW expect \in Requested, NEW v \in BOOLEAN,
               Register(r, d, expect, v)
        PROVE  Kept
    BY <2>1, Zenon DEF Register, AllocateIp
  <2>2. CASE \/ ConfirmRead(r) \/ ConfirmFinish(r) \/ UnlinkSender(r) \/ UnlinkEndpoint(r)
             \/ \E n \in BOOLEAN : FinishRegister(r, n)
    BY <2>2, Zenon DEF ConfirmRead, ConfirmFinish, UnlinkSender, UnlinkEndpoint, FinishRegister
  <2>3. CASE ConfirmSave(r)
    BY <2>3 DEF ConfirmSave, SaveOrUpdateDevice
  <2>4. CASE DropConfirmed(r) \/ DropPending(r)
    BY <2>4 DEF DropConfirmed, OfflineIp, DropPending, ReleasePreRegisteredIp, RemoveDevices
  <2>5. QED
    BY <1>1, <2>1, <2>2, <2>3, <2>4 DEF SessionStep
<1>2. QED
  BY <1>1, Zenon DEF SessionsNext, FinishSave, SaveOrUpdateDevice, CleanupStep, CollectExpired,
              RemoveExpired, ReleaseExpired, ReleaseDeviceIp, RemoveDevices, DeleteStep,
              DeleteCheck, DeleteFromMemory, DeleteFromDatabase, DeleteDeviceRow

\* No request is under way, at the start and after a restart.
AllIdle == (\A q \in Request : request[q].step = "idle") /\ commands = <<>>

LEMMA IdleLockInv == AllIdle => LockInv
BY DEF AllIdle, LockInv, LockHeld, LockSteps, RollsBackReservation, CommandsFit,
       MoveHoldsBothAddresses

LEMMA LockInvHolds == Spec => []LockInv
<1>1. Init => LockInv
  BY IdleLockInv, NoRequestFacts DEF Init, WireGuardInit, RuntimeIdle, AllIdle
<1>2. ServerInv /\ LockInv /\ [Next]_vars => LockInv'
  <2> SUFFICES ASSUME ServerInv, LockInv, [Next]_vars
               PROVE  LockInv'
    OBVIOUS
  <2>1. TypeOK
    BY DEF ServerInv
  <2>2. CASE VntStep(SessionsNext)
    BY <2>1, <2>2, SessionsKeepPeers, SameLockInv DEF VntStep, wireguardVars
  <2>3. CASE WireGuardStep(WireGuardNext)
    BY <2>1, <2>3, WireGuardLockInv DEF WireGuardStep
  <2>4. CASE Restart
    <3>1. AllIdle'
      BY <2>4, NoRequestFacts, Zenon DEF Restart, AllIdle
    <3>2. (AllIdle => LockInv)'
      BY IdleLockInv, PTL
    <3>3. QED
      BY <3>1, <3>2
  <2>5. CASE UNCHANGED vars
    BY <2>5, SameLockInv, Zenon DEF vars, wireguardVars, leaseVars
  <2>6. QED
    BY <2>2, <2>3, <2>4, <2>5, Zenon DEF Next, Running
<1>3. QED
  BY <1>1, <1>2, ServerInvHolds, PTL DEF Spec

\* While a reservation, a move or the creation of a peer waits for its database
\* answer the peer keeps both addresses, for every number of requests, also when
\* the HTTP server drops requests half-way.
THEOREM MovesHoldBothAddresses == Spec => []MoveHoldsBothAddresses
<1>1. LockInv => MoveHoldsBothAddresses
  BY DEF LockInv
<1>2. QED
  BY LockInvHolds, <1>1, PTL

=============================================================================
