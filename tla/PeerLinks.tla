----------------------------- MODULE PeerLinks -----------------------------
(***************************************************************************)
(* The connections of one server to its peer servers.  An outbound peer is *)
(* a task that connects to an address again and again until it is told to  *)
(* stop; an inbound peer lasts as long as its connection.  While connected *)
(* a loop keeps the routes to the clients of the peer; how it works, and   *)
(* how it may fail to notice that the connection is gone, is the subject   *)
(* of PeerLoop.  The administrator adds and removes outbound peers at any  *)
(* time.                                                                   *)
(***************************************************************************)
EXTENDS Naturals, FiniteSets

CONSTANTS
    PeerAddr,     \* addresses of outbound peers
    InfoId,       \* PeerServerInfo objects, by identity; bounds those alive
    NetworkCode,
    ClientIp,
    Admin,        \* management requests, each served by a task of its own
    MaxRoutes,    \* MAX_ROUTES_PER_IP
    NoPeer        \* Option::None

ASSUME PeerConstants ==
    /\ MaxRoutes \in Nat \ {0}
    /\ NoPeer \notin PeerAddr \cup InfoId
    /\ PeerAddr \cap InfoId = {}

VARIABLES
    info,            \* InfoId -> the peer, its task and its loop, or NoPeer
    peer_servers,    \* the peers that the server lists
    outbound_tasks,  \* address -> the peer whose task is registered, or NoPeer
    peer_table,      \* the addresses stored in the database
    admin,           \* the progress of every management request
    ip_to_routes,    \* network -> address -> the peers that have a route to it
    remote_wireguard_sources,  \* <<network, source>>: source has WireGuard endpoints there
    abandoned        \* history: the sources that a stopped task has left behind

routeVars == <<ip_to_routes, remote_wireguard_sources, abandoned>>
taskVars == <<outbound_tasks, peer_table, admin>>
peerVars == <<info, peer_servers, taskVars, routeVars>>

\* An inbound peer has no address of ours: its source is its own socket address.
Info == [addr : PeerAddr \cup {NoPeer},
         stop : BOOLEAN,          \* stop_tx was used or dropped
         running : BOOLEAN,       \* in run_peer_communication_loop
         connected : BOOLEAN,     \* is there a sender?
         networks : SUBSET NetworkCode]  \* network_codes of the loop

\* How far a management request is, with its address and the peer that it has started.
Progress == [at : {"save", "start", "insert", "wait", "delete"},
             addr : PeerAddr, info : InfoId \cup {NoPeer}]

ASSUME NoPeerIsNoRecord == NoPeer \notin Info /\ NoPeer \notin Progress

Source(i) == IF info[i].addr = NoPeer THEN i ELSE info[i].addr

PeerTypeOK ==
    /\ info \in [InfoId -> Info \cup {NoPeer}]
    /\ peer_servers \subseteq InfoId
    /\ outbound_tasks \in [PeerAddr -> InfoId \cup {NoPeer}]
    /\ peer_table \subseteq PeerAddr
    /\ admin \in [Admin -> Progress \cup {NoPeer}]
    /\ ip_to_routes \in [NetworkCode -> [ClientIp -> SUBSET InfoId]]
    /\ \A n \in NetworkCode, ip \in ClientIp : Cardinality(ip_to_routes[n][ip]) <= MaxRoutes
    /\ abandoned \subseteq remote_wireguard_sources
    /\ remote_wireguard_sources \subseteq NetworkCode \X (PeerAddr \cup InfoId)

NewTask(a) ==
    [addr |-> a, stop |-> FALSE, running |-> FALSE, connected |-> FALSE, networks |-> {}]

Running(peer) == [peer EXCEPT !.running = TRUE, !.connected = TRUE]

\* load_and_start_outbound_peers: a task for every row of peer_servers.
PeerInit ==
    \E rows \in SUBSET PeerAddr, task \in [PeerAddr -> InfoId] :
        /\ \A a, b \in PeerAddr : task[a] = task[b] => a = b
        /\ peer_table = rows
        /\ info = [i \in InfoId |-> IF \E a \in rows : task[a] = i
                                    THEN NewTask(CHOOSE a \in rows : task[a] = i) ELSE NoPeer]
        /\ peer_servers = {task[a] : a \in rows}
        /\ outbound_tasks = [a \in PeerAddr |-> IF a \in rows THEN task[a] ELSE NoPeer]
        /\ admin = [q \in Admin |-> NoPeer]
        /\ ip_to_routes = [n \in NetworkCode |-> [ip \in ClientIp |-> {}]]
        /\ remote_wireguard_sources = {}
        /\ abandoned = {}

\* A new PeerServerInfo is none that a route still refers to.
Fresh(i) ==
    info[i] = NoPeer /\ \A n \in NetworkCode, ip \in ClientIp : i \notin ip_to_routes[n][ip]

-----------------------------------------------------------------------------
(* Management: add_outbound_peer, remove_outbound_peer *)

Idle(q) == admin[q] = NoPeer
Step(q, at, a, i) == admin' = [admin EXCEPT ![q] = [at |-> at, addr |-> a, info |-> i]]
Finish(q) == admin' = [admin EXCEPT ![q] = NoPeer]
At(q, at) == admin[q] # NoPeer /\ admin[q].at = at

\* Dropping or using stop_tx ends the task.
Stopped(i) == IF i = NoPeer \/ info[i] = NoPeer THEN info ELSE [info EXCEPT ![i].stop = TRUE]

AddCheck(q, a) ==
    /\ Idle(q)
    /\ outbound_tasks[a] = NoPeer
    /\ Step(q, "save", a, NoPeer)
    /\ UNCHANGED <<info, peer_servers, outbound_tasks, peer_table, routeVars>>

AddSave(q) ==
    /\ At(q, "save")
    /\ \/ /\ peer_table' = peer_table \cup {admin[q].addr}
          /\ Step(q, "start", admin[q].addr, NoPeer)
       \/ Finish(q) /\ UNCHANGED peer_table
    /\ UNCHANGED <<info, peer_servers, outbound_tasks, routeVars>>

\* connect_to_peer
AddStart(q, i) ==
    /\ At(q, "start")
    /\ Fresh(i)
    /\ info' = [info EXCEPT ![i] = NewTask(admin[q].addr)]
    /\ peer_servers' = peer_servers \cup {i}
    /\ Step(q, "insert", admin[q].addr, i)
    /\ UNCHANGED <<outbound_tasks, peer_table, routeVars>>

\* Mutant of AddInsert: the task that was registered goes on.
AddInsertKeepsOld(q) ==
    /\ At(q, "insert")
    /\ outbound_tasks' = [outbound_tasks EXCEPT ![admin[q].addr] = admin[q].info]
    /\ Finish(q)
    /\ UNCHANGED <<info, peer_servers, peer_table, routeVars>>

\* The insertion drops the stop_tx of a task registered since the check.
AddInsert(q) ==
    /\ At(q, "insert")
    /\ info' = Stopped(outbound_tasks[admin[q].addr])
    /\ outbound_tasks' = [outbound_tasks EXCEPT ![admin[q].addr] = admin[q].info]
    /\ Finish(q)
    /\ UNCHANGED <<peer_servers, peer_table, routeVars>>

RemoveTake(q, a) ==
    /\ Idle(q)
    /\ info' = Stopped(outbound_tasks[a])
    /\ outbound_tasks' = [outbound_tasks EXCEPT ![a] = NoPeer]
    /\ Step(q, "wait", a, NoPeer)
    /\ UNCHANGED <<peer_servers, peer_table, routeVars>>

\* The task has ended, or 5 s are over: no peer of this address stays listed.
RemoveScan(q) ==
    LET gone == {i \in peer_servers : info[i].addr = admin[q].addr} IN
    /\ At(q, "wait")
    /\ info' = [i \in InfoId |-> IF i \in gone THEN [info[i] EXCEPT !.connected = FALSE]
                                 ELSE info[i]]
    /\ peer_servers' = peer_servers \ gone
    /\ Step(q, "delete", admin[q].addr, NoPeer)
    /\ UNCHANGED <<outbound_tasks, peer_table, routeVars>>

RemoveDelete(q) ==
    /\ At(q, "delete")
    /\ peer_table' \in {peer_table, peer_table \ {admin[q].addr}}
    /\ Finish(q)
    /\ UNCHANGED <<info, peer_servers, outbound_tasks, routeVars>>

\* The HTTP connection closes while the handler awaits.
AdminDropped(q) ==
    /\ ~Idle(q)
    /\ admin[q].at # "insert"
    /\ Finish(q)
    /\ UNCHANGED <<info, peer_servers, outbound_tasks, peer_table, routeVars>>

-----------------------------------------------------------------------------
(* The task: connect_to_peer, handle_peer_connection *)

\* Wherever the task is, also in the loop, which is dropped: its routes stay.
TaskStops(i) ==
    /\ info[i] # NoPeer
    /\ info[i].stop
    /\ info' = [info EXCEPT ![i] = NoPeer]
    /\ peer_servers' = peer_servers \ {i}
    /\ abandoned' = abandoned \cup
          {p \in remote_wireguard_sources : p[1] \in info[i].networks /\ p[2] = Source(i)}
    /\ UNCHANGED <<taskVars, ip_to_routes, remote_wireguard_sources>>

ConnectOnce(i) ==
    /\ info[i] # NoPeer
    /\ ~info[i].running
    /\ info' = [info EXCEPT ![i] = Running(@)]
    /\ UNCHANGED <<peer_servers, taskVars, routeVars>>

Accept(i) ==
    /\ Fresh(i)
    /\ info' = [info EXCEPT ![i] = Running(NewTask(NoPeer))]
    /\ peer_servers' = peer_servers \cup {i}
    /\ UNCHANGED <<taskVars, routeVars>>

-----------------------------------------------------------------------------
(* The loop: run_peer_communication_loop *)

InLoop(i) == info[i] # NoPeer /\ info[i].running

Kept(routes) ==
    IF Cardinality(routes) <= MaxRoutes THEN {routes}
    ELSE {R \in SUBSET routes : Cardinality(R) = MaxRoutes}

\* Mutant of ClientInfoResponse: a network without a state here is not recorded.
ClientInfoResponseUnrecorded(i, n, ips, endpoints, known) ==
    /\ InLoop(i)
    /\ info' = [info EXCEPT ![i].networks = IF known THEN @ \cup {n} ELSE @]
    /\ \E routes \in [ClientIp -> SUBSET InfoId] :
          /\ \A ip \in ClientIp :
                routes[ip] \in IF ip \in ips THEN Kept(ip_to_routes[n][ip] \cup {i})
                               ELSE {ip_to_routes[n][ip] \ {i}}
          /\ ip_to_routes' = [ip_to_routes EXCEPT ![n] = routes]
    /\ UNCHANGED <<peer_servers, taskVars, remote_wireguard_sources, abandoned>>

\* handle_client_info_response: the peer has the clients ips in network n, some
\* of them WireGuard endpoints or none; the server has a state of the network
\* or not.  Latencies decide which routes are kept.
ClientInfoResponse(i, n, ips, endpoints, known) ==
    /\ InLoop(i)
    /\ info' = [info EXCEPT ![i].networks = @ \cup {n}]
    /\ \E routes \in [ClientIp -> SUBSET InfoId] :
          /\ \A ip \in ClientIp :
                routes[ip] \in IF ip \in ips THEN Kept(ip_to_routes[n][ip] \cup {i})
                               ELSE {ip_to_routes[n][ip] \ {i}}
          /\ ip_to_routes' = [ip_to_routes EXCEPT ![n] = routes]
    /\ LET own == {<<n, Source(i)>>} IN
       /\ remote_wireguard_sources' =
             IF ~known THEN remote_wireguard_sources
             ELSE IF endpoints THEN remote_wireguard_sources \cup own
             ELSE remote_wireguard_sources \ own
       /\ abandoned' = IF known THEN abandoned \ own ELSE abandoned
    /\ UNCHANGED <<peer_servers, taskVars>>

\* The server drops its state of a network.
NetworkDropped(n) ==
    /\ remote_wireguard_sources' = {p \in remote_wireguard_sources : p[1] # n}
    /\ abandoned' = {p \in abandoned : p[1] # n}
    /\ UNCHANGED <<info, peer_servers, taskVars, ip_to_routes>>

\* cleanup_routes
CleanupRoutes(i) ==
    LET own == {<<n, Source(i)>> : n \in info[i].networks} IN
    /\ ip_to_routes' = [n \in NetworkCode |-> [ip \in ClientIp |->
                           IF n \in info[i].networks THEN ip_to_routes[n][ip] \ {i}
                           ELSE ip_to_routes[n][ip]]]
    /\ remote_wireguard_sources' = remote_wireguard_sources \ own
    /\ abandoned' = abandoned \ own

\* Mutant of LoopEnd: the routes are left to the next connection.
LoopEndKeepsRoutes(i) ==
    /\ InLoop(i)
    /\ info' = [info EXCEPT ![i] = IF @.addr = NoPeer THEN NoPeer
                                   ELSE [NewTask(@.addr) EXCEPT !.stop = info[i].stop]]
    /\ peer_servers' = IF info[i].addr = NoPeer THEN peer_servers \ {i} ELSE peer_servers
    /\ UNCHANGED <<taskVars, routeVars>>

\* Reading or writing fails: the loop cleans up after itself; an outbound task
\* tries again, an inbound peer is gone.
LoopEnd(i) ==
    /\ InLoop(i)
    /\ CleanupRoutes(i)
    /\ info' = [info EXCEPT ![i] = IF @.addr = NoPeer THEN NoPeer
                                   ELSE [NewTask(@.addr) EXCEPT !.stop = info[i].stop]]
    /\ peer_servers' = IF info[i].addr = NoPeer THEN peer_servers \ {i} ELSE peer_servers
    /\ UNCHANGED taskVars

-----------------------------------------------------------------------------
PeerNext ==
    \/ \E q \in Admin :
          \/ \E a \in PeerAddr : AddCheck(q, a) \/ RemoveTake(q, a)
          \/ AddSave(q)
          \/ \E i \in InfoId : AddStart(q, i)
          \/ AddInsert(q)
          \/ RemoveScan(q)
          \/ RemoveDelete(q)
          \/ AdminDropped(q)
    \/ \E i \in InfoId :
          \/ TaskStops(i)
          \/ ConnectOnce(i)
          \/ Accept(i)
          \/ \E n \in NetworkCode, ips \in SUBSET ClientIp, endpoints, known \in BOOLEAN :
                (endpoints => ips # {}) /\ ClientInfoResponse(i, n, ips, endpoints, known)
          \/ LoopEnd(i)
    \/ \E n \in NetworkCode : NetworkDropped(n)

PeerSpec == PeerInit /\ [][PeerNext]_peerVars

-----------------------------------------------------------------------------
(* Safety *)

\* However additions and removals of an address overlap and are dropped: a task
\* that has not been told to stop is registered, so that it can still be
\* removed, or its addition is about to register it.  In particular no address
\* keeps two tasks.
NoOrphanTask ==
    \A i \in InfoId :
        info[i] # NoPeer /\ info[i].addr # NoPeer /\ ~info[i].stop =>
            \/ outbound_tasks[info[i].addr] = i
            \/ \E q \in Admin : At(q, "insert") /\ admin[q].info = i

\* find_best_route: the peers that a packet for ip may be forwarded to.
Usable(n, ip) == {i \in ip_to_routes[n][ip] : info[i] # NoPeer /\ info[i].connected}

\* A packet is forwarded only to a peer that has announced the network on its
\* present connection: neither a broken connection nor a removed peer leaves a
\* route behind that comes into use again later.
UsedRoutesAreCurrent ==
    \A n \in NetworkCode, ip \in ClientIp : \A i \in Usable(n, ip) : n \in info[i].networks

\* The WireGuard endpoints of another server are those that a peer has announced
\* on its present connection, or that a peer had announced when it was removed.
WireGuardSourcesAreCurrent ==
    \A p \in remote_wireguard_sources \ abandoned :
        \E i \in InfoId : /\ info[i] # NoPeer
                          /\ p[2] = Source(i)
                          /\ p[1] \in info[i].networks

=============================================================================
