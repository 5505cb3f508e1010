----------------------------- MODULE PeerProofs -----------------------------
(***************************************************************************)
(* Proofs about the links between the servers of a cluster, for every number*)
(* of peers, administrators and connections, and about the broadcasts that *)
(* travel over them, for every topology.                                   *)
(***************************************************************************)
EXTENDS PeerLinks, BroadcastFlood, FiniteSetTheorems, TLAPS

-----------------------------------------------------------------------------
(* PeerLinks *)

\* What the other invariants need of the types, and that a listed peer exists.
PeerTypes ==
    /\ info \in [InfoId -> Info \cup {NoPeer}]
    /\ peer_servers \subseteq {i \in InfoId : info[i] # NoPeer}
    /\ outbound_tasks \in [PeerAddr -> InfoId \cup {NoPeer}]
    /\ admin \in [Admin -> Progress \cup {NoPeer}]
    /\ ip_to_routes \in [NetworkCode -> [ClientIp -> SUBSET InfoId]]
    /\ remote_wireguard_sources \subseteq NetworkCode \X (PeerAddr \cup InfoId)

\* The task of an outbound peer that nobody has told to stop.
Live(i, a) == i \in InfoId /\ info[i] # NoPeer /\ info[i].addr = a /\ info[i].stop = FALSE

Inserting(q) == At(q, "insert")

\* What is registered, or about to be, is a live task, and each is so once.
TaskInv ==
    /\ \A a \in PeerAddr : outbound_tasks[a] # NoPeer => Live(outbound_tasks[a], a)
    /\ \A q \in Admin : Inserting(q) => /\ Live(admin[q].info, admin[q].addr)
                                        /\ outbound_tasks[admin[q].addr] # admin[q].info
    /\ \A q, r \in Admin :
          Inserting(q) /\ Inserting(r) /\ admin[q].info = admin[r].info => q = r
    /\ \A i \in InfoId, a \in PeerAddr :
          Live(i, a) => outbound_tasks[a] = i \/ \E q \in Admin : Inserting(q) /\ admin[q].info = i

\* Also a route that is not used at present, as its peer is not connected, is one
\* that the peer has announced on its present connection.
RoutesAnnounced ==
    \A n \in NetworkCode, ip \in ClientIp : \A i \in ip_to_routes[n][ip] :
        info[i] # NoPeer => n \in info[i].networks

PeerInv == PeerTypes /\ TaskInv /\ RoutesAnnounced /\ WireGuardSourcesAreCurrent

\* A step that neither starts, stops nor ends a task.
SamePeers ==
    \A j \in InfoId : /\ info'[j] = NoPeer <=> info[j] = NoPeer
                      /\ info[j] # NoPeer => /\ info'[j].addr = info[j].addr
                                             /\ info[j].networks \subseteq info'[j].networks
SameTasks ==
    \A j \in InfoId, a \in PeerAddr : Live(j, a)' <=> Live(j, a)

SameInsertions ==
    \A q \in Admin : /\ Inserting(q)' <=> Inserting(q)
                     /\ Inserting(q) => admin'[q] = admin[q]

LEMMA TasksKept ==
    ASSUME PeerTypes, TaskInv, SameTasks, SameInsertions, UNCHANGED outbound_tasks
    PROVE  TaskInv'
<1>1. \A q \in Admin : Inserting(q) => admin[q].addr \in PeerAddr /\ admin[q].info \in InfoId
  BY DEF PeerTypes, Inserting, At, Progress, TaskInv, Live
<1>2. \A a \in PeerAddr : outbound_tasks[a] # NoPeer => outbound_tasks[a] \in InfoId
  BY DEF PeerTypes
<1>3. \A a \in PeerAddr : outbound_tasks'[a] # NoPeer => Live(outbound_tasks[a], a)'
  BY <1>2 DEF TaskInv, SameTasks, Live
<1>4. ASSUME NEW q \in Admin, Inserting(q)'
      PROVE  Live(admin[q].info, admin[q].addr)' /\ outbound_tasks'[admin'[q].addr] # admin'[q].info
  <2>1. PICK i \in InfoId, a \in PeerAddr : i = admin[q].info /\ a = admin[q].addr
    BY <1>1, <1>4 DEF SameInsertions
  <2>2. /\ admin'[q].info = i /\ admin'[q].addr = a
        /\ Live(i, a) /\ outbound_tasks[a] # i
    BY <1>4, <2>1 DEF TaskInv, SameInsertions
  <2>3. Live(i, a)'
    BY <2>2 DEF SameTasks
  <2>4. QED
    BY <2>2, <2>3 DEF Live
<1>5. \A q, r \in Admin :
          Inserting(q)' /\ Inserting(r)' /\ admin'[q].info = admin'[r].info => q = r
  BY DEF TaskInv, SameInsertions
<1>6. ASSUME NEW i \in InfoId, NEW a \in PeerAddr, Live(i, a)'
      PROVE  outbound_tasks'[a] = i \/ \E q \in Admin : Inserting(q)' /\ admin'[q].info = i
  BY <1>6 DEF TaskInv, SameTasks, SameInsertions
<1>7. QED
  BY <1>3, <1>4, <1>5, <1>6 DEF TaskInv

LEMMA RoutesKept ==
    ASSUME PeerTypes, RoutesAnnounced, WireGuardSourcesAreCurrent, SamePeers, UNCHANGED routeVars
    PROVE  RoutesAnnounced' /\ WireGuardSourcesAreCurrent'
<1>1. RoutesAnnounced'
  BY DEF PeerTypes, RoutesAnnounced, SamePeers, routeVars
<1>2. ASSUME NEW p \in (remote_wireguard_sources \ abandoned)'
      PROVE  \E i \in InfoId : info'[i] # NoPeer /\ p[2] = Source(i)' /\ p[1] \in info'[i].networks
  <2>1. PICK i \in InfoId : info[i] # NoPeer /\ p[2] = Source(i) /\ p[1] \in info[i].networks
    BY <1>2 DEF WireGuardSourcesAreCurrent, routeVars
  <2>2. info'[i] # NoPeer /\ p[2] = Source(i)' /\ p[1] \in info'[i].networks
    BY <2>1 DEF SamePeers, Source
  <2>3. QED
    BY <2>2
<1>3. WireGuardSourcesAreCurrent'
  BY <1>2 DEF WireGuardSourcesAreCurrent
<1>4. QED
  BY <1>1, <1>3

\* stop_tx is used or dropped: only that task is no longer live.
LEMMA StoppedShape ==
    ASSUME PeerTypes, NEW i \in InfoId \cup {NoPeer}, info' = Stopped(i)
    PROVE  /\ info' \in [InfoId -> Info \cup {NoPeer}] /\ SamePeers
           /\ \A j \in InfoId : j # i => info'[j] = info[j]
           /\ i # NoPeer /\ info[i] # NoPeer => info'[i].stop = TRUE
<1> USE NoPeerIsNoRecord
<1>1. CASE i = NoPeer \/ info[i] = NoPeer
  BY <1>1, PeerConstants DEF Stopped, PeerTypes, SamePeers
<1>2. CASE ~(i = NoPeer \/ info[i] = NoPeer)
  <2>1. info[i] \in Info /\ i \in InfoId /\ info' = [info EXCEPT ![i].stop = TRUE]
    BY <1>2 DEF Stopped, PeerTypes
  <2>2. [info[i] EXCEPT !.stop = TRUE] \in Info
    BY <2>1, Zenon DEF Info
  <2>3. /\ info' = [info EXCEPT ![i] = [info[i] EXCEPT !.stop = TRUE]]
        /\ info'[i] = [info[i] EXCEPT !.stop = TRUE]
        /\ \A j \in InfoId : j # i => info'[j] = info[j]
    BY <2>1 DEF PeerTypes
  <2>4. /\ info'[i].addr = info[i].addr /\ info'[i].networks = info[i].networks
        /\ info'[i].stop = TRUE /\ info'[i] # NoPeer
    BY <2>1, <2>2, <2>3, Zenon DEF Info
  <2>5. QED
    BY <2>1, <2>2, <2>3, <2>4 DEF PeerTypes, SamePeers
<1>3. QED
  BY <1>1, <1>2, Zenon

LEMMA SameInfo ==
    ASSUME UNCHANGED info
    PROVE  SameTasks /\ SamePeers
BY DEF SameTasks, SamePeers, Live

LEMMA AdminShape ==
    ASSUME PeerTypes, NEW q \in Admin, NEW r \in Progress \cup {NoPeer},
           admin' = [admin EXCEPT ![q] = r]
    PROVE  /\ admin' \in [Admin -> Progress \cup {NoPeer}] /\ admin'[q] = r
           /\ \A x \in Admin : x # q => admin'[x] = admin[x]
           /\ ~Inserting(q) /\ (r = NoPeer \/ r.at # "insert") => SameInsertions
BY DEF PeerTypes, SameInsertions, Inserting, At

\* What a request in progress has noted.
LEMMA NotedAddress ==
    ASSUME PeerTypes, NEW q \in Admin, ~Idle(q)
    PROVE  admin[q] \in Progress /\ admin[q].addr \in PeerAddr
BY DEF PeerTypes, Idle, Progress

\* The steps of a request that leave the tasks alone.
LEMMA QuietRequestKeeps ==
    ASSUME PeerInv, NEW q \in Admin,
           \/ \E a \in PeerAddr : AddCheck(q, a)
           \/ AddSave(q) \/ RemoveDelete(q) \/ AdminDropped(q)
    PROVE  PeerInv'
<1>1. UNCHANGED <<info, peer_servers, outbound_tasks>> /\ UNCHANGED routeVars
  BY DEF AddCheck, AddSave, RemoveDelete, AdminDropped
<1> DEFINE Quiet == \E r \in Progress \cup {NoPeer} : /\ admin' = [admin EXCEPT ![q] = r]
                                                     /\ (r = NoPeer \/ r.at # "insert")
<1>2. Quiet
  <2>1. ASSUME NEW a \in PeerAddr, AddCheck(q, a)
        PROVE  Quiet
    <3>1. /\ [at |-> "save", addr |-> a, info |-> NoPeer] \in Progress
          /\ [at |-> "save", addr |-> a, info |-> NoPeer].at = "save"
      BY DEF Progress
    <3>2. admin' = [admin EXCEPT ![q] = [at |-> "save", addr |-> a, info |-> NoPeer]]
      BY <2>1 DEF AddCheck, Step
    <3>3. QED
      BY <3>1, <3>2, Zenon
  <2>2. CASE AddSave(q)
    <3>1. [at |-> "start", addr |-> admin[q].addr, info |-> NoPeer] \in Progress
      BY <2>2, NotedAddress DEF PeerInv, AddSave, At, Idle, Progress
    <3>2. QED
      BY <2>2, <3>1 DEF AddSave, Step, Finish
  <2>3. CASE RemoveDelete(q) \/ AdminDropped(q)
    BY <2>3 DEF RemoveDelete, AdminDropped, Finish
  <2>4. QED
    BY <2>1, <2>2, <2>3
<1>3. ~Inserting(q)
  BY DEF AddCheck, AddSave, RemoveDelete, AdminDropped, Inserting, At, Idle
<1>4. SameInsertions /\ admin' \in [Admin -> Progress \cup {NoPeer}]
  BY <1>2, <1>3, AdminShape, Zenon DEF PeerInv
<1>5. PeerTypes'
  BY <1>1, <1>4 DEF PeerInv, PeerTypes, routeVars
<1>6. QED
  BY <1>1, <1>4, <1>5, SameInfo, TasksKept, RoutesKept DEF PeerInv

\* A new task or an accepted connection is a peer that no route refers to.
LEMMA NewPeerKeeps ==
    ASSUME PeerInv, NEW i \in InfoId, Fresh(i), NEW r \in Info, r.networks = {},
           info' = [info EXCEPT ![i] = r], UNCHANGED routeVars
    PROVE  RoutesAnnounced' /\ WireGuardSourcesAreCurrent'
<1> USE NoPeerIsNoRecord
<1>1. info[i] = NoPeer /\ info'[i] = r /\ \A j \in InfoId : j # i => info'[j] = info[j]
  BY DEF PeerInv, PeerTypes, Fresh
<1>2. RoutesAnnounced'
  BY <1>1 DEF PeerInv, PeerTypes, RoutesAnnounced, Fresh, routeVars
<1>3. ASSUME NEW p \in (remote_wireguard_sources \ abandoned)'
      PROVE  \E j \in InfoId : info'[j] # NoPeer /\ p[2] = Source(j)' /\ p[1] \in info'[j].networks
  <2>1. PICK j \in InfoId : info[j] # NoPeer /\ p[2] = Source(j) /\ p[1] \in info[j].networks
    BY <1>3 DEF PeerInv, WireGuardSourcesAreCurrent, routeVars
  <2>2. info'[j] # NoPeer /\ p[2] = Source(j)' /\ p[1] \in info'[j].networks
    BY <1>1, <2>1 DEF Source
  <2>3. QED
    BY <2>2
<1>4. QED
  BY <1>2, <1>3 DEF WireGuardSourcesAreCurrent

LEMMA AddStartKeeps ==
    ASSUME PeerInv, NEW q \in Admin, NEW i \in InfoId, AddStart(q, i)
    PROVE  PeerInv'
<1> USE NoPeerIsNoRecord, PeerConstants
<1>1. PICK a \in PeerAddr : a = admin[q].addr
  BY NotedAddress DEF PeerInv, AddStart, At, Idle
<1>2. /\ NewTask(a) \in Info /\ NewTask(a).networks = {} /\ NewTask(a).addr = a
      /\ NewTask(a).stop = FALSE
      /\ [at |-> "insert", addr |-> a, info |-> i] \in Progress
  BY DEF NewTask, Info, Progress
<1>3. /\ ~Inserting(q) /\ info[i] = NoPeer /\ Fresh(i)
      /\ info' = [info EXCEPT ![i] = NewTask(a)]
      /\ admin' = [admin EXCEPT ![q] = [at |-> "insert", addr |-> a, info |-> i]]
      /\ peer_servers' = peer_servers \cup {i}
      /\ UNCHANGED outbound_tasks /\ UNCHANGED routeVars
  BY <1>1 DEF AddStart, Step, At, Inserting, Fresh
<1>4. /\ admin' \in [Admin -> Progress \cup {NoPeer}]
      /\ admin'[q] = [at |-> "insert", addr |-> a, info |-> i]
      /\ \A x \in Admin : x # q => admin'[x] = admin[x]
  BY <1>2, <1>3, AdminShape, Zenon DEF PeerInv
<1>5. /\ info' \in [InfoId -> Info \cup {NoPeer}] /\ info'[i] = NewTask(a)
      /\ \A j \in InfoId : j # i => info'[j] = info[j]
  BY <1>2, <1>3 DEF PeerInv, PeerTypes
<1>6. PeerTypes'
  BY <1>2, <1>3, <1>4, <1>5, ZenonT(40) DEF PeerInv, PeerTypes, routeVars
<1>7. RoutesAnnounced' /\ WireGuardSourcesAreCurrent'
  BY <1>2, <1>3, NewPeerKeeps, Zenon
<1>8. /\ \A j \in InfoId, b \in PeerAddr : j # i => (Live(j, b)' <=> Live(j, b))
      /\ \A b \in PeerAddr : ~Live(i, b) /\ (Live(i, b)' <=> b = a)
  BY <1>2, <1>3, <1>5, Zenon DEF Live
<1>9. /\ \A x \in Admin : x # q => (Inserting(x)' <=> Inserting(x))
      /\ Inserting(q)'
  BY <1>2, <1>4 DEF Inserting, At
<1>10. TaskInv'
  <2>1. \A b \in PeerAddr : outbound_tasks[b] # i
    BY <1>8 DEF PeerInv, PeerTypes, TaskInv
  <2>2. \A x \in Admin : Inserting(x) => /\ admin[x].info # i /\ admin[x].info \in InfoId
                                         /\ admin[x].addr \in PeerAddr
    BY <1>3, NotedAddress, Zenon DEF PeerInv, TaskInv, Live, Inserting, At, Idle
  <2>3. \A b \in PeerAddr : outbound_tasks'[b] # NoPeer => Live(outbound_tasks[b], b)'
    BY <1>3, <1>5, <2>1, Zenon DEF PeerInv, PeerTypes, TaskInv, Live
  <2>4. ASSUME NEW x \in Admin, Inserting(x)'
        PROVE  Live(admin[x].info, admin[x].addr)' /\ outbound_tasks'[admin'[x].addr] # admin'[x].info
    <3>1. CASE x = q
      BY <1>2, <1>3, <1>4, <1>5, <2>1, <3>1 DEF Live
    <3>2. CASE x # q
      BY <1>3, <1>4, <1>5, <1>9, <2>2, <2>4, <3>2 DEF PeerInv, TaskInv, Live
    <3>3. QED
      BY <3>1, <3>2
  <2>5. \A x, y \in Admin :
           Inserting(x)' /\ Inserting(y)' /\ admin'[x].info = admin'[y].info => x = y
    BY <1>4, <1>9, <2>2 DEF PeerInv, TaskInv
  <2>6. ASSUME NEW j \in InfoId, NEW b \in PeerAddr, Live(j, b)'
        PROVE  outbound_tasks'[b] = j \/ \E x \in Admin : Inserting(x)' /\ admin'[x].info = j
    BY <1>3, <1>4, <1>8, <1>9, <2>6 DEF PeerInv, TaskInv
  <2>7. QED
    BY <2>3, <2>4, <2>5, <2>6 DEF TaskInv
<1>11. QED
  BY <1>6, <1>7, <1>10 DEF PeerInv

\* A task that is taken out of outbound_tasks is told to stop, and a new one takes its
\* place or none; the others are as before.
LEMMA TaskReplaced ==
    ASSUME PeerInv, NEW a \in PeerAddr, NEW i \in InfoId \cup {NoPeer},
           info' = Stopped(outbound_tasks[a]), outbound_tasks' = [outbound_tasks EXCEPT ![a] = i],
           i # NoPeer => Live(i, a) /\ outbound_tasks[a] # i,
           \A q \in Admin : Inserting(q)' <=> Inserting(q) /\ admin[q].info # i,
           \A q \in Admin : Inserting(q)' => admin'[q] = admin[q]
    PROVE  TaskInv' /\ SamePeers /\ info' \in [InfoId -> Info \cup {NoPeer}]
<1> USE PeerConstants
<1>1. PICK old \in InfoId \cup {NoPeer} : old = outbound_tasks[a]
  BY DEF PeerInv, PeerTypes
<1>2. /\ SamePeers /\ info' \in [InfoId -> Info \cup {NoPeer}]
      /\ \A j \in InfoId : j # old => info'[j] = info[j]
      /\ old # NoPeer => info'[old].stop = TRUE
      /\ old # NoPeer => Live(old, a)
  BY <1>1, StoppedShape, ZenonT(40) DEF PeerInv, TaskInv, Live
<1>3. \A j \in InfoId, b \in PeerAddr : Live(j, b)' <=> Live(j, b) /\ j # old
  BY <1>2 DEF Live
<1>4. /\ outbound_tasks'[a] = i
      /\ \A b \in PeerAddr : b # a => outbound_tasks'[b] = outbound_tasks[b]
  BY DEF PeerInv, PeerTypes
<1>5. \A j \in InfoId, b \in PeerAddr : Live(j, a) /\ Live(j, b) => b = a
  BY DEF Live
<1>6. ASSUME NEW b \in PeerAddr, NEW j \in InfoId, outbound_tasks'[b] = j
      PROVE  Live(j, b)'
  <2>1. CASE b = a
    BY <1>1, <1>3, <1>4, <1>6, <2>1
  <2>2. CASE b # a
    <3>1. Live(j, b)
      BY <1>4, <1>6, <2>2 DEF PeerInv, TaskInv
    <3>2. j # old
      BY <1>2, <1>5, <2>2, <3>1
    <3>3. QED
      BY <1>3, <3>1, <3>2
  <2>3. QED
    BY <2>1, <2>2
<1>7. ASSUME NEW b \in PeerAddr, outbound_tasks'[b] # NoPeer
      PROVE  Live(outbound_tasks[b], b)'
  <2>1. PICK j \in InfoId : outbound_tasks'[b] = j
    BY <1>4, <1>7 DEF PeerInv, PeerTypes
  <2>2. Live(j, b)'
    BY <1>6, <2>1
  <2>3. QED
    BY <2>1, <2>2 DEF Live
<1>8. ASSUME NEW q \in Admin, Inserting(q)'
      PROVE  Live(admin[q].info, admin[q].addr)' /\ outbound_tasks'[admin'[q].addr] # admin'[q].info
  <2>1. PICK j \in InfoId, b \in PeerAddr : j = admin[q].info /\ b = admin[q].addr
    BY <1>8, NotedAddress, Zenon DEF PeerInv, TaskInv, Live, Inserting, At, Idle
  <2>2. /\ Live(j, b) /\ outbound_tasks[b] # j /\ j # i
        /\ admin'[q].info = j /\ admin'[q].addr = b
    BY <1>8, <2>1, Zenon DEF PeerInv, TaskInv
  <2>3. j # old
    BY <1>1, <1>2, <1>5, <2>2
  <2>4. Live(j, b)' /\ outbound_tasks'[b] # j
    BY <1>3, <1>4, <2>2, <2>3
  <2>5. QED
    BY <2>2, <2>4 DEF Live
<1>9. \A q, r \in Admin :
         Inserting(q)' /\ Inserting(r)' /\ admin'[q].info = admin'[r].info => q = r
  BY DEF PeerInv, TaskInv
<1>10. ASSUME NEW j \in InfoId, NEW b \in PeerAddr, Live(j, b)'
       PROVE  outbound_tasks'[b] = j \/ \E q \in Admin : Inserting(q)' /\ admin'[q].info = j
  <2>1. Live(j, b) /\ j # old
    BY <1>3, <1>10
  <2>2. CASE outbound_tasks[b] = j
    BY <1>1, <1>4, <2>1, <2>2
  <2>3. ASSUME NEW q \in Admin, Inserting(q), admin[q].info = j
        PROVE  outbound_tasks'[b] = j \/ (Inserting(q)' /\ admin'[q].info = j)
    BY <1>4, <1>5, <2>1, <2>3
  <2>4. QED
    BY <2>1, <2>2, <2>3 DEF PeerInv, TaskInv
<1>11. QED
  BY <1>2, <1>7, <1>8, <1>9, <1>10, Zenon DEF TaskInv

LEMMA AddInsertKeeps ==
    ASSUME PeerInv, NEW q \in Admin, AddInsert(q)
    PROVE  PeerInv'
<1>1. PICK a \in PeerAddr, i \in InfoId : a = admin[q].addr /\ i = admin[q].info
  BY NotedAddress, Zenon DEF PeerInv, TaskInv, Live, AddInsert, Inserting, At, Idle
<1>2. /\ Inserting(q) /\ info' = Stopped(outbound_tasks[a])
      /\ outbound_tasks' = [outbound_tasks EXCEPT ![a] = i]
      /\ admin' = [admin EXCEPT ![q] = NoPeer]
      /\ UNCHANGED peer_servers /\ UNCHANGED routeVars
  BY <1>1 DEF AddInsert, Finish, Inserting
<1>3. /\ admin' \in [Admin -> Progress \cup {NoPeer}] /\ admin'[q] = NoPeer
      /\ \A x \in Admin : x # q => admin'[x] = admin[x]
  BY <1>2, AdminShape, Zenon DEF PeerInv
<1>4. \A x \in Admin : /\ Inserting(x)' <=> Inserting(x) /\ admin[x].info # i
                       /\ Inserting(x)' => admin'[x] = admin[x]
  BY <1>1, <1>2, <1>3, Zenon DEF PeerInv, TaskInv, Inserting, At
<1>5. Live(i, a) /\ outbound_tasks[a] # i
  BY <1>1, <1>2, Zenon DEF PeerInv, TaskInv
<1>6. TaskInv' /\ SamePeers /\ info' \in [InfoId -> Info \cup {NoPeer}]
  BY <1>2, <1>4, <1>5, TaskReplaced, Zenon
<1>7. PeerTypes'
  BY <1>2, <1>3, <1>6, Zenon DEF PeerInv, PeerTypes, SamePeers, routeVars
<1>8. QED
  BY <1>2, <1>6, <1>7, RoutesKept DEF PeerInv

LEMMA RemoveTakeKeeps ==
    ASSUME PeerInv, NEW q \in Admin, NEW a \in PeerAddr, RemoveTake(q, a)
    PROVE  PeerInv'
<1>1. /\ Idle(q) /\ info' = Stopped(outbound_tasks[a])
      /\ outbound_tasks' = [outbound_tasks EXCEPT ![a] = NoPeer]
      /\ admin' = [admin EXCEPT ![q] = [at |-> "wait", addr |-> a, info |-> NoPeer]]
      /\ UNCHANGED peer_servers /\ UNCHANGED routeVars
  BY DEF RemoveTake, Step
<1>2. [at |-> "wait", addr |-> a, info |-> NoPeer] \in Progress
  BY DEF Progress
<1>3. SameInsertions /\ admin' \in [Admin -> Progress \cup {NoPeer}]
  BY <1>1, <1>2, AdminShape, Zenon DEF PeerInv, Inserting, At, Idle
<1>4. \A x \in Admin : /\ Inserting(x)' <=> Inserting(x) /\ admin[x].info # NoPeer
                       /\ Inserting(x)' => admin'[x] = admin[x]
  BY <1>3, PeerConstants DEF SameInsertions, PeerInv, TaskInv, Live
<1>5. TaskInv' /\ SamePeers /\ info' \in [InfoId -> Info \cup {NoPeer}]
  BY <1>1, <1>4, TaskReplaced, Zenon
<1>6. PeerTypes'
  BY <1>1, <1>3, <1>5, Zenon DEF PeerInv, PeerTypes, SamePeers, routeVars
<1>7. QED
  BY <1>1, <1>5, <1>6, RoutesKept DEF PeerInv

LEMMA RemoveScanKeeps ==
    ASSUME PeerInv, NEW q \in Admin, RemoveScan(q)
    PROVE  PeerInv'
<1> USE NoPeerIsNoRecord
<1>1. PICK gone \in SUBSET peer_servers :
         /\ info' = [i \in InfoId |-> IF i \in gone THEN [info[i] EXCEPT !.connected = FALSE]
                                      ELSE info[i]]
         /\ peer_servers' = peer_servers \ gone
  BY Zenon DEF RemoveScan
<1>2. \A i \in InfoId : i \in gone => info[i] \in Info
  BY <1>1 DEF PeerInv, PeerTypes
<1>3. \A r \in Info : /\ [r EXCEPT !.connected = FALSE] \in Info
                      /\ [r EXCEPT !.connected = FALSE].addr = r.addr
                      /\ [r EXCEPT !.connected = FALSE].networks = r.networks
                      /\ [r EXCEPT !.connected = FALSE].stop = r.stop
  BY Zenon DEF Info
<1>4. info' \in [InfoId -> Info \cup {NoPeer}]
  BY <1>1, <1>2, <1>3 DEF PeerInv, PeerTypes
<1>5. SamePeers /\ SameTasks
  BY <1>1, <1>2, <1>3 DEF SamePeers, SameTasks, Live
<1>6. SameInsertions /\ admin' \in [Admin -> Progress \cup {NoPeer}]
  <2>1. /\ ~Inserting(q) /\ admin[q].addr \in PeerAddr
        /\ admin' = [admin EXCEPT ![q] = [at |-> "delete", addr |-> admin[q].addr, info |-> NoPeer]]
    BY NotedAddress DEF PeerInv, RemoveScan, Step, Inserting, At, Idle
  <2>2. [at |-> "delete", addr |-> admin[q].addr, info |-> NoPeer] \in Progress
    BY <2>1 DEF Progress
  <2>3. QED
    BY <2>1, <2>2, AdminShape, ZenonT(40) DEF PeerInv
<1>7. UNCHANGED outbound_tasks /\ UNCHANGED routeVars
  BY DEF RemoveScan
<1>8. PeerTypes'
  BY <1>1, <1>4, <1>5, <1>6, <1>7 DEF PeerInv, PeerTypes, SamePeers, routeVars
<1>9. QED
  BY <1>5, <1>6, <1>7, <1>8, TasksKept, RoutesKept DEF PeerInv

\* The end of a peer that is no live task.
LEMMA TaskStopsKeeps ==
    ASSUME PeerInv, NEW i \in InfoId, TaskStops(i)
    PROVE  PeerInv'
<1> USE NoPeerIsNoRecord
<1>1. /\ info' \in [InfoId -> Info \cup {NoPeer}] /\ info'[i] = NoPeer
      /\ \A j \in InfoId : j # i => info'[j] = info[j]
  BY DEF PeerInv, PeerTypes, TaskStops
<1>2. /\ UNCHANGED <<outbound_tasks, admin, ip_to_routes, remote_wireguard_sources>>
      /\ peer_servers' = peer_servers \ {i} /\ info[i] \in Info
      /\ abandoned' = abandoned \cup
            {p \in remote_wireguard_sources : p[1] \in info[i].networks /\ p[2] = Source(i)}
  BY DEF TaskStops, taskVars, PeerInv, PeerTypes
<1>3. PeerTypes'
  BY <1>1, <1>2 DEF PeerInv, PeerTypes
<1>4. SameInsertions
  BY <1>2 DEF SameInsertions, Inserting, At
<1>5. \A a \in PeerAddr : ~Live(i, a)
  BY Zenon DEF TaskStops, Live
<1>6. SameTasks
  <2>1. \A a \in PeerAddr : ~Live(i, a)'
    BY <1>1, Zenon DEF Live
  <2>2. ASSUME NEW j \in InfoId, NEW a \in PeerAddr, j # i
        PROVE  Live(j, a)' <=> Live(j, a)
    BY <1>1, <2>2 DEF Live
  <2>3. QED
    BY <1>5, <2>1, <2>2 DEF SameTasks
<1>7. RoutesAnnounced'
  BY <1>1, <1>2 DEF PeerInv, PeerTypes, RoutesAnnounced
<1>8. ASSUME NEW p \in (remote_wireguard_sources \ abandoned)'
      PROVE  \E j \in InfoId : info'[j] # NoPeer /\ p[2] = Source(j)' /\ p[1] \in info'[j].networks
  <2>1. p \in remote_wireguard_sources /\ p \notin abandoned
        /\ ~(p[1] \in info[i].networks /\ p[2] = Source(i))
    BY <1>2
  <2>2. PICK j \in InfoId : info[j] # NoPeer /\ p[2] = Source(j) /\ p[1] \in info[j].networks
    BY <2>1 DEF PeerInv, WireGuardSourcesAreCurrent
  <2>3. info'[j] # NoPeer /\ p[2] = Source(j)' /\ p[1] \in info'[j].networks
    BY <1>1, <2>1, <2>2 DEF Source
  <2>4. QED
    BY <2>3
<1>9. WireGuardSourcesAreCurrent'
  BY <1>8 DEF WireGuardSourcesAreCurrent
<1>10. QED
  BY <1>2, <1>3, <1>4, <1>6, <1>7, <1>9, TasksKept DEF PeerInv

LEMMA ConnectOnceKeeps ==
    ASSUME PeerInv, NEW i \in InfoId, ConnectOnce(i)
    PROVE  PeerInv'
<1> USE NoPeerIsNoRecord
<1>1. PICK r : r = Running(info[i])
  OBVIOUS
<1>2. r \in Info /\ r.addr = info[i].addr /\ r.stop = info[i].stop /\ r.networks = info[i].networks
  BY <1>1, Zenon DEF PeerInv, PeerTypes, ConnectOnce, Running, Info
<1>3. /\ info' \in [InfoId -> Info \cup {NoPeer}] /\ info'[i] = r /\ info[i] # NoPeer
      /\ \A j \in InfoId : j # i => info'[j] = info[j]
  BY <1>1, <1>2 DEF PeerInv, PeerTypes, ConnectOnce
<1>4. SameTasks /\ SamePeers
  BY <1>2, <1>3 DEF SameTasks, SamePeers, Live
<1>5. UNCHANGED <<peer_servers, outbound_tasks, admin>> /\ UNCHANGED routeVars
  BY DEF ConnectOnce, taskVars
<1>6. PeerTypes' /\ SameInsertions
  BY <1>3, <1>4, <1>5, Zenon DEF PeerInv, PeerTypes, SamePeers, SameInsertions, Inserting, At, routeVars
<1>7. QED
  BY <1>4, <1>5, <1>6, TasksKept, RoutesKept DEF PeerInv

LEMMA AcceptKeeps ==
    ASSUME PeerInv, NEW i \in InfoId, Accept(i)
    PROVE  PeerInv'
<1> USE NoPeerIsNoRecord, PeerConstants
<1>1. PICK r : r = Running(NewTask(NoPeer))
  OBVIOUS
<1>2. r \in Info /\ r.addr = NoPeer /\ r.networks = {}
  BY <1>1, Zenon DEF Running, NewTask, Info
<1>3. /\ info' = [info EXCEPT ![i] = r] /\ Fresh(i) /\ peer_servers' = peer_servers \cup {i}
      /\ UNCHANGED <<outbound_tasks, admin>> /\ UNCHANGED routeVars
  BY <1>1 DEF Accept, taskVars
<1>4. /\ info' \in [InfoId -> Info \cup {NoPeer}] /\ info'[i] = r /\ info[i] = NoPeer
      /\ \A j \in InfoId : j # i => info'[j] = info[j]
  BY <1>2, <1>3, Zenon DEF PeerInv, PeerTypes, Fresh
<1>5. SameTasks
  BY <1>2, <1>4 DEF SameTasks, Live
<1>6. PeerTypes' /\ SameInsertions
  BY <1>2, <1>3, <1>4, Zenon DEF PeerInv, PeerTypes, SameInsertions, Inserting, At, routeVars
<1>7. RoutesAnnounced' /\ WireGuardSourcesAreCurrent'
  BY <1>2, <1>3, NewPeerKeeps, Zenon
<1>8. QED
  BY <1>3, <1>5, <1>6, <1>7, TasksKept DEF PeerInv

LEMMA ClientInfoKeeps ==
    ASSUME PeerInv, NEW i \in InfoId, NEW n \in NetworkCode, NEW ips \in SUBSET ClientIp,
           NEW endpoints \in BOOLEAN, NEW known \in BOOLEAN,
           ClientInfoResponse(i, n, ips, endpoints, known)
    PROVE  PeerInv'
<1> USE NoPeerIsNoRecord, PeerConstants
<1>1. PICK r : r = [info[i] EXCEPT !.networks = @ \cup {n}]
  BY Zenon
<1>2. /\ info[i] \in Info /\ r \in Info /\ r.addr = info[i].addr /\ r.stop = info[i].stop
      /\ r.networks = info[i].networks \cup {n}
  <2>1. info[i] \in Info
    BY DEF PeerInv, PeerTypes, ClientInfoResponse, InLoop
  <2>2. QED
    BY <1>1, <2>1 DEF Info
<1>3. /\ info' \in [InfoId -> Info \cup {NoPeer}] /\ info'[i] = r
      /\ \A j \in InfoId : j # i => info'[j] = info[j]
  BY <1>1, <1>2 DEF PeerInv, PeerTypes, ClientInfoResponse
<1>4. UNCHANGED <<peer_servers, outbound_tasks, admin>>
  BY DEF ClientInfoResponse, taskVars
<1>5. PICK routes \in [ClientIp -> SUBSET InfoId] :
         /\ \A ip \in ClientIp : routes[ip] \subseteq ip_to_routes[n][ip] \cup {i}
         /\ ip_to_routes' = [ip_to_routes EXCEPT ![n] = routes]
  BY Zenon DEF ClientInfoResponse, Kept
<1>6. /\ ip_to_routes' \in [NetworkCode -> [ClientIp -> SUBSET InfoId]]
      /\ ip_to_routes'[n] = routes
      /\ \A m \in NetworkCode : m # n => ip_to_routes'[m] = ip_to_routes[m]
  BY <1>5 DEF PeerInv, PeerTypes
<1>7. SameTasks /\ SamePeers
  BY <1>2, <1>3, Zenon DEF SameTasks, SamePeers, Live
<1>8. PICK s : s = Source(i)
  OBVIOUS
<1>9. s \in PeerAddr \cup InfoId
  BY <1>2, <1>8 DEF Source, Info
<1>10. /\ remote_wireguard_sources' \subseteq remote_wireguard_sources \cup {<<n, s>>}
       /\ \A p \in (remote_wireguard_sources \ abandoned)' :
             p \in remote_wireguard_sources \ abandoned \/ p = <<n, s>>
  BY <1>8 DEF ClientInfoResponse
<1>11. PeerTypes' /\ SameInsertions
  BY <1>3, <1>4, <1>6, <1>7, <1>9, <1>10
     DEF PeerInv, PeerTypes, SamePeers, SameInsertions, Inserting, At
<1>12. RoutesAnnounced'
  BY <1>2, <1>3, <1>5, <1>6 DEF PeerInv, PeerTypes, RoutesAnnounced
<1>13. ASSUME NEW p \in (remote_wireguard_sources \ abandoned)'
       PROVE  \E j \in InfoId : info'[j] # NoPeer /\ p[2] = Source(j)' /\ p[1] \in info'[j].networks
  <2>1. CASE p = <<n, s>>
    BY <1>2, <1>3, <1>8, <2>1, Zenon DEF Source
  <2>2. CASE p \in remote_wireguard_sources \ abandoned
    <3>1. PICK j \in InfoId : info[j] # NoPeer /\ p[2] = Source(j) /\ p[1] \in info[j].networks
      BY <2>2, Zenon DEF PeerInv, WireGuardSourcesAreCurrent
    <3>2. info'[j] # NoPeer /\ p[2] = Source(j)' /\ p[1] \in info'[j].networks
      BY <1>7, <3>1, Zenon DEF SamePeers, Source
    <3>3. QED
      BY <3>2, Zenon
  <2>3. QED
    BY <1>10, <1>13, <2>1, <2>2, Zenon
<1>14. QED
  BY <1>4, <1>7, <1>11, <1>12, <1>13, TasksKept, Zenon DEF PeerInv, WireGuardSourcesAreCurrent

\* The routes of the loop that ends are all in the networks that it has recorded, so
\* that cleanup_routes leaves none behind.
LEMMA LoopEndKeeps ==
    ASSUME PeerInv, NEW i \in InfoId, LoopEnd(i)
    PROVE  PeerInv'
<1> USE NoPeerIsNoRecord, PeerConstants
<1>1. info[i] \in Info
  BY DEF PeerInv, PeerTypes, LoopEnd, InLoop
<1>2. PICK r : r = IF info[i].addr = NoPeer THEN NoPeer
                   ELSE [NewTask(info[i].addr) EXCEPT !.stop = info[i].stop]
  BY Zenon
<1>3. /\ info[i].addr = NoPeer => r = NoPeer
      /\ info[i].addr # NoPeer =>
            r \in Info /\ r.addr = info[i].addr /\ r.stop = info[i].stop /\ r.networks = {}
  BY <1>1, <1>2, Zenon DEF Info, NewTask
<1>4. /\ info' \in [InfoId -> Info \cup {NoPeer}] /\ info'[i] = r
      /\ \A j \in InfoId : j # i => info'[j] = info[j]
  BY <1>2, <1>3 DEF PeerInv, PeerTypes, LoopEnd
<1>5. /\ UNCHANGED <<outbound_tasks, admin>> /\ CleanupRoutes(i)
      /\ peer_servers' = IF info[i].addr = NoPeer THEN peer_servers \ {i} ELSE peer_servers
  BY DEF LoopEnd, taskVars
<1>6. SameTasks
  BY <1>1, <1>3, <1>4, Zenon DEF SameTasks, Live, Info
<1>7. SameInsertions
  BY <1>5 DEF SameInsertions, Inserting, At
<1>8. /\ ip_to_routes' \in [NetworkCode -> [ClientIp -> SUBSET InfoId]]
      /\ \A n \in NetworkCode, ip \in ClientIp :
            /\ ip_to_routes'[n][ip] \subseteq ip_to_routes[n][ip]
            /\ n \in info[i].networks => i \notin ip_to_routes'[n][ip]
  BY <1>5, ZenonT(40) DEF PeerInv, PeerTypes, CleanupRoutes
<1>9. RoutesAnnounced'
  BY <1>1, <1>4, <1>8 DEF PeerInv, PeerTypes, RoutesAnnounced
<1>10. PICK s : s = Source(i)
  OBVIOUS
<1>11. /\ remote_wireguard_sources' =
             remote_wireguard_sources \ {<<n, s>> : n \in info[i].networks}
       /\ abandoned' = abandoned \ {<<n, s>> : n \in info[i].networks}
  BY <1>5, <1>10, Zenon DEF CleanupRoutes
<1>12. PeerTypes'
  <2>1. peer_servers' \subseteq {j \in InfoId : info'[j] # NoPeer}
    BY <1>3, <1>4, <1>5, Zenon DEF PeerInv, PeerTypes
  <2>2. QED
    BY <1>4, <1>5, <1>8, <1>11, <2>1, Zenon DEF PeerInv, PeerTypes
<1>13. ASSUME NEW p \in (remote_wireguard_sources \ abandoned)'
       PROVE  \E j \in InfoId : info'[j] # NoPeer /\ p[2] = Source(j)' /\ p[1] \in info'[j].networks
  <2>1. p \in remote_wireguard_sources \ abandoned /\ p = <<p[1], p[2]>>
    BY <1>11, <1>13 DEF PeerInv, PeerTypes
  <2>2. PICK j \in InfoId : info[j] # NoPeer /\ p[2] = Source(j) /\ p[1] \in info[j].networks
    BY <2>1 DEF PeerInv, WireGuardSourcesAreCurrent
  <2>3. j # i
    <3>1. p \notin {<<n, s>> : n \in info[i].networks}
      BY <1>11, <1>13
    <3>2. QED
      BY <1>10, <2>1, <2>2, <3>1
  <2>4. info'[j] # NoPeer /\ p[2] = Source(j)' /\ p[1] \in info'[j].networks
    BY <1>4, <2>2, <2>3 DEF Source
  <2>5. QED
    BY <2>4
<1>14. QED
  BY <1>5, <1>6, <1>7, <1>9, <1>12, <1>13, TasksKept, Zenon DEF PeerInv, WireGuardSourcesAreCurrent

LEMMA NetworkDroppedKeeps ==
    ASSUME PeerInv, NEW n \in NetworkCode, NetworkDropped(n)
    PROVE  PeerInv'
<1>1. /\ UNCHANGED <<info, peer_servers, outbound_tasks, admin, ip_to_routes>>
      /\ (remote_wireguard_sources \ abandoned)' \subseteq remote_wireguard_sources \ abandoned
      /\ remote_wireguard_sources' \subseteq remote_wireguard_sources
  BY DEF NetworkDropped, taskVars
<1>2. PeerTypes' /\ RoutesAnnounced'
  BY <1>1, Zenon DEF PeerInv, PeerTypes, RoutesAnnounced
<1>3. SameInsertions
  BY <1>1 DEF SameInsertions, Inserting, At
<1>4. WireGuardSourcesAreCurrent'
  BY <1>1 DEF PeerInv, WireGuardSourcesAreCurrent, Source
<1>5. QED
  BY <1>1, <1>2, <1>3, <1>4, SameInfo, TasksKept DEF PeerInv

LEMMA PeersStart == PeerInit => PeerInv
<1> USE NoPeerIsNoRecord, PeerConstants
<1> SUFFICES ASSUME PeerInit PROVE PeerInv
  OBVIOUS
<1>1. PICK rows \in SUBSET PeerAddr, task \in [PeerAddr -> InfoId] :
         /\ \A a, b \in PeerAddr : task[a] = task[b] => a = b
         /\ info = [i \in InfoId |-> IF \E a \in rows : task[a] = i
                                     THEN NewTask(CHOOSE a \in rows : task[a] = i) ELSE NoPeer]
         /\ peer_servers = {task[a] : a \in rows}
         /\ outbound_tasks = [a \in PeerAddr |-> IF a \in rows THEN task[a] ELSE NoPeer]
         /\ admin = [q \in Admin |-> NoPeer]
         /\ ip_to_routes = [n \in NetworkCode |-> [ip \in ClientIp |-> {}]]
         /\ remote_wireguard_sources = {}
  BY Zenon DEF PeerInit
<1>2. \A a \in PeerAddr : NewTask(a) \in Info /\ NewTask(a).addr = a /\ NewTask(a).stop = FALSE
  BY Zenon DEF NewTask, Info
<1>3. \A a \in rows : (CHOOSE b \in rows : task[b] = task[a]) = a
  BY <1>1
<1>4. /\ \A a \in rows : info[task[a]] = NewTask(a)
      /\ \A i \in InfoId : info[i] # NoPeer => \E a \in rows : task[a] = i
  BY <1>1, <1>3
<1>5. PeerTypes
  <2>1. info \in [InfoId -> Info \cup {NoPeer}]
    <3>1. \A i \in InfoId : info[i] \in Info \cup {NoPeer}
      BY <1>2, <1>4
    <3>2. QED
      BY <1>1, <3>1
  <2>2. peer_servers \subseteq {i \in InfoId : info[i] # NoPeer}
    BY <1>1, <1>2, <1>4
  <2>3. QED
    BY <1>1, <2>1, <2>2, Zenon DEF PeerTypes
<1>6. TaskInv
  <2>1. \A q \in Admin : ~Inserting(q)
    BY <1>1 DEF Inserting, At
  <2>2. \A a \in PeerAddr : outbound_tasks[a] # NoPeer => Live(outbound_tasks[a], a)
    BY <1>1, <1>2, <1>4 DEF Live
  <2>3. \A i \in InfoId, a \in PeerAddr : Live(i, a) => outbound_tasks[a] = i
    BY <1>1, <1>2, <1>4 DEF Live
  <2>4. QED
    BY <2>1, <2>2, <2>3, Zenon DEF TaskInv
<1>7. RoutesAnnounced /\ WireGuardSourcesAreCurrent
  BY <1>1, Zenon DEF RoutesAnnounced, WireGuardSourcesAreCurrent
<1>8. QED
  BY <1>5, <1>6, <1>7 DEF PeerInv

LEMMA PeersAlways == PeerSpec => []PeerInv
<1>1. PeerInv /\ [PeerNext]_peerVars => PeerInv'
  <2>1. CASE UNCHANGED peerVars
    BY <2>1, ZenonT(40) DEF peerVars, taskVars, routeVars, PeerInv, PeerTypes, TaskInv, RoutesAnnounced,
                WireGuardSourcesAreCurrent, Source, Live, Inserting, At
  <2>2. QED
    BY <2>1, QuietRequestKeeps, AddStartKeeps, AddInsertKeeps, RemoveTakeKeeps, RemoveScanKeeps,
       TaskStopsKeeps, ConnectOnceKeeps, AcceptKeeps, ClientInfoKeeps, LoopEndKeeps,
       NetworkDroppedKeeps, Zenon DEF PeerNext
<1>2. QED
  BY <1>1, PeersStart, PTL DEF PeerSpec

\* However many management requests add and remove the same addresses at the same
\* time, and wherever they are dropped, no task of connect_to_peer goes on that
\* outbound_tasks does not know or is not about to know.
THEOREM TasksAreKnown == PeerSpec => []NoOrphanTask
<1>1. PeerInv => NoOrphanTask
  <2>1. ASSUME PeerInv, NEW i \in InfoId, info[i] # NoPeer, info[i].addr # NoPeer, ~info[i].stop
        PROVE  Live(i, info[i].addr) /\ info[i].addr \in PeerAddr
    <3>1. info[i].stop \in BOOLEAN /\ info[i].addr \in PeerAddr
      BY <2>1, Zenon DEF PeerInv, PeerTypes, Info
    <3>2. info[i].stop = FALSE
      BY <2>1, <3>1, Zenon
    <3>3. QED
      BY <2>1, <3>1, <3>2, Zenon DEF Live
  <2>2. QED
    BY <2>1, Zenon DEF PeerInv, TaskInv, NoOrphanTask, Inserting
<1>2. QED
  BY <1>1, PeersAlways, PTL

\* find_best_route uses only what a peer has announced on its present connection:
\* network_codes of the loop covers every route, so that cleanup_routes and the new
\* identity of a new peer suffice for any number of peers, networks and clients.
THEOREM RoutesAreCurrent == PeerSpec => []UsedRoutesAreCurrent
<1>1. PeerInv => UsedRoutesAreCurrent
  BY Zenon DEF PeerInv, RoutesAnnounced, UsedRoutesAreCurrent, Usable
<1>2. QED
  BY <1>1, PeersAlways, PTL

\* The sources of remote WireGuard endpoints are those of present connections, up to
\* those that a stopped task has left behind.
THEOREM SourcesAreCurrent == PeerSpec => []WireGuardSourcesAreCurrent
BY PeersAlways, PTL DEF PeerInv

-----------------------------------------------------------------------------
(* BroadcastFlood *)

\* The connections of s whose loops are about to mark the broadcast.
BusyLinks(s) == {l \in LinkId : \E m \in marking : m.to = s /\ m.link = l}

\* A loop handles one datagram at a time, from a connection of its server; until the
\* broadcast is marked nothing is relayed, and each loop in between relays it once.
FloodInv ==
    /\ ends \in [LinkId -> SUBSET Relay]
    /\ origin \in Relay /\ origin \in broadcast_seen
    /\ relayed \in [Relay -> Nat]
    /\ datagrams \subseteq Datagram /\ marking \subseteq Datagram
    /\ \A d \in datagrams \cup marking : d.to \in ends[d.link]
    /\ \A d, m \in marking : d.to = m.to /\ d.link = m.link => d = m
    /\ BusyLinks(origin) = {} /\ relayed[origin] = 0
    /\ \A s \in Relay : s \notin broadcast_seen => relayed[s] = 0
    /\ \A s \in Relay : relayed[s] + Cardinality(BusyLinks(s)) <= Cardinality(LinksOf(s))

LEMMA LinkCounts ==
    ASSUME FloodInv, NEW s
    PROVE  /\ IsFiniteSet(BusyLinks(s)) /\ IsFiniteSet(LinksOf(s))
           /\ Cardinality(BusyLinks(s)) \in Nat /\ Cardinality(LinksOf(s)) \in Nat
<1>1. BusyLinks(s) \subseteq LinkId /\ LinksOf(s) \subseteq LinkId
  BY DEF BusyLinks, LinksOf
<1>2. QED
  BY <1>1, FloodConstants, FS_Subset, FS_CardinalityType

LEMMA ForwardsFit ==
    ASSUME NEW s \in Relay, NEW incoming, NEW hops \in 1 .. HopLimit,
           NEW D \in Forwards(s, incoming, hops)
    PROVE  D \subseteq Datagram /\ \A d \in D : d.to \in ends[d.link]
<1>1. PICK L \in SUBSET LinkId :
         D = {d \in [to : Relay, link : L, hops : {hops}] : d.to \in ends[d.link] \ {s}}
  BY Zenon DEF Forwards, LinksOf
<1>2. [to : Relay, link : L, hops : {hops}] \subseteq Datagram
  BY DEF Datagram
<1>3. QED
  BY <1>1, <1>2

LEMMA CheckSeenKeeps ==
    ASSUME FloodInv, NEW d \in Datagram, CheckSeen(d)
    PROVE  FloodInv'
<1> USE FloodConstants
<1>1. /\ d \in datagrams /\ datagrams' = datagrams \ {d} /\ d.to \in Relay /\ d.link \in LinkId
      /\ UNCHANGED <<ends, origin, broadcast_seen, relayed>>
  BY DEF CheckSeen, Datagram
<1>2. \A s : (LinksOf(s))' = LinksOf(s)
  BY <1>1 DEF LinksOf
<1>3. CASE d.to \in broadcast_seen
  <2>1. UNCHANGED marking
    BY <1>3 DEF CheckSeen
  <2>2. \A s : (BusyLinks(s))' = BusyLinks(s)
    BY <2>1 DEF BusyLinks
  <2>3. QED
    BY <1>1, <1>2, <2>1, <2>2, Zenon DEF FloodInv
<1>4. CASE d.to \notin broadcast_seen
  <2>1. marking' = marking \cup {d}
    BY <1>4 DEF CheckSeen
  <2>2. \A m \in marking : ~(m.to = d.to /\ m.link = d.link)
    BY DEF CheckSeen, BusyLoop
  <2>3. /\ (BusyLinks(d.to))' = BusyLinks(d.to) \cup {d.link}
        /\ \A s \in Relay : s # d.to => (BusyLinks(s))' = BusyLinks(s)
    BY <1>1, <2>1 DEF BusyLinks
  <2>4. BusyLinks(d.to) \cup {d.link} \subseteq LinksOf(d.to)
    BY <1>1, Zenon DEF FloodInv, BusyLinks, LinksOf
  <2>5. /\ Cardinality(BusyLinks(d.to) \cup {d.link}) <= Cardinality(LinksOf(d.to))
        /\ Cardinality(BusyLinks(d.to) \cup {d.link}) \in Nat
    <3>1. IsFiniteSet(LinksOf(d.to))
      BY LinkCounts
    <3>2. QED
      BY <2>4, <3>1, FS_Subset, FS_CardinalityType
  <2>6. origin # d.to /\ origin \in Relay
    BY <1>4 DEF FloodInv
  <2>7. ASSUME NEW s \in Relay
        PROVE  relayed'[s] + Cardinality((BusyLinks(s))') <= Cardinality((LinksOf(s))')
    <3>1. CASE s = d.to
      <4>1. relayed'[s] = 0
        BY <1>1, <1>4, <3>1 DEF FloodInv
      <4>2. (BusyLinks(s))' = BusyLinks(d.to) \cup {d.link} /\ (LinksOf(s))' = LinksOf(d.to)
        BY <1>2, <2>3, <3>1
      <4>3. QED
        BY <2>5, <4>1, <4>2
    <3>2. CASE s # d.to
      BY <1>1, <1>2, <2>3, <3>2, Zenon DEF FloodInv
    <3>3. QED
      BY <3>1, <3>2
  <2>8. /\ \A x \in datagrams' \cup marking' : x.to \in ends'[x.link]
        /\ \A x, m \in marking' : x.to = m.to /\ x.link = m.link => x = m
        /\ datagrams' \subseteq Datagram /\ marking' \subseteq Datagram
    BY <1>1, <2>1, <2>2 DEF FloodInv
  <2>9. QED
    BY <1>1, <2>3, <2>6, <2>7, <2>8, Zenon DEF FloodInv
<1>5. QED
  BY <1>3, <1>4

LEMMA MarkSeenKeeps ==
    ASSUME FloodInv, NEW d \in Datagram, MarkSeen(d)
    PROVE  FloodInv'
<1> USE FloodConstants
<1>1. /\ d \in marking /\ marking' = marking \ {d} /\ d.to \in Relay /\ d.link \in LinkId
      /\ d.hops \in 1 .. HopLimit
      /\ broadcast_seen' = broadcast_seen \cup {d.to}
      /\ relayed' = [relayed EXCEPT ![d.to] = @ + 1]
      /\ UNCHANGED <<ends, origin>>
  BY DEF MarkSeen, Datagram
<1>2. \A s : (LinksOf(s))' = LinksOf(s)
  BY <1>1 DEF LinksOf
<1>3. PICK D \in Onward(d) : datagrams' = datagrams \cup D
  BY DEF MarkSeen
<1>4. D \subseteq Datagram /\ \A x \in D : x.to \in ends[x.link]
  BY <1>1, <1>3, ForwardsFit DEF Onward
<1>5. /\ (BusyLinks(d.to))' = BusyLinks(d.to) \ {d.link} /\ d.link \in BusyLinks(d.to)
      /\ \A s \in Relay : s # d.to => (BusyLinks(s))' = BusyLinks(s)
  BY <1>1, Zenon DEF BusyLinks, FloodInv
<1>6. Cardinality(BusyLinks(d.to) \ {d.link}) = Cardinality(BusyLinks(d.to)) - 1
  BY <1>5, LinkCounts, FS_RemoveElement, Zenon
<1>7. origin # d.to /\ origin \in Relay
  BY <1>5, Zenon DEF FloodInv
<1>8. /\ relayed' \in [Relay -> Nat] /\ relayed'[d.to] = relayed[d.to] + 1
      /\ \A s \in Relay : s # d.to => relayed'[s] = relayed[s]
  BY <1>1 DEF FloodInv
<1>9. ASSUME NEW s \in Relay
      PROVE  relayed'[s] + Cardinality((BusyLinks(s))') <= Cardinality((LinksOf(s))')
  <2>1. /\ relayed[s] + Cardinality(BusyLinks(s)) <= Cardinality(LinksOf(s)) /\ relayed[s] \in Nat
        /\ Cardinality(BusyLinks(s)) \in Nat /\ Cardinality(LinksOf(s)) \in Nat
    BY LinkCounts, Zenon DEF FloodInv
  <2>2. QED
    BY <1>2, <1>5, <1>6, <1>8, <2>1
<1>10. /\ \A x \in datagrams' \cup marking' : x.to \in ends'[x.link]
       /\ \A x, m \in marking' : x.to = m.to /\ x.link = m.link => x = m
       /\ datagrams' \subseteq Datagram /\ marking' \subseteq Datagram
  BY <1>1, <1>3, <1>4, Zenon DEF FloodInv
<1>11. /\ \A s \in Relay : s \notin broadcast_seen' => relayed'[s] = 0
       /\ origin' \in broadcast_seen' /\ relayed'[origin'] = 0 /\ (BusyLinks(origin))' = {}
  BY <1>1, <1>5, <1>7, <1>8, Zenon DEF FloodInv
<1>12. QED
  BY <1>1, <1>8, <1>9, <1>10, <1>11, Zenon DEF FloodInv

LEMMA FloodStarts == FloodInit => FloodInv
<1> USE FloodConstants
<1> SUFFICES ASSUME FloodInit PROVE FloodInv
  OBVIOUS
<1>1. /\ ends \in [LinkId -> SUBSET Relay] /\ origin \in Relay /\ broadcast_seen = {origin}
      /\ marking = {} /\ relayed = [s \in Relay |-> 0]
  BY DEF FloodInit
<1>2. datagrams \subseteq Datagram /\ \A d \in datagrams : d.to \in ends[d.link]
  BY <1>1, ForwardsFit DEF FloodInit
<1>3. \A s : BusyLinks(s) = {}
  BY <1>1 DEF BusyLinks
<1>4. \A s : LinksOf(s) \subseteq LinkId
  BY DEF LinksOf
<1>5. \A s : Cardinality(LinksOf(s)) \in Nat
  BY <1>4, FS_Subset, FS_CardinalityType
<1>6. \A s : Cardinality(BusyLinks(s)) = 0
  BY <1>3, FS_EmptySet
<1>7. QED
  BY <1>1, <1>2, <1>3, <1>5, <1>6 DEF FloodInv

\* For every number of servers and connections, and whatever the loops of a server do
\* between get_mut and insert in mark_broadcast_seen: each hands a broadcast on at
\* most once, so that a server does so at most once per connection, and the origin
\* never.
THEOREM BroadcastsAreBounded == FloodSpec => []RelayedOncePerLink
<1>1. FloodInv /\ [FloodNext]_floodVars => FloodInv'
  <2>1. ASSUME FloodInv, NEW d \in Datagram, LoseDatagram(d)
        PROVE  FloodInv'
    BY <2>1, Zenon DEF FloodInv, LoseDatagram, BusyLinks, LinksOf
  <2>2. CASE UNCHANGED floodVars
    BY <2>2, Zenon DEF FloodInv, floodVars, BusyLinks, LinksOf
  <2>3. QED
    BY <2>1, <2>2, CheckSeenKeeps, MarkSeenKeeps DEF FloodNext
<1>2. FloodInv => RelayedOncePerLink
  <2>1. ASSUME FloodInv, NEW s \in Relay
        PROVE  relayed[s] <= Cardinality(LinksOf(s))
    <3>1. /\ relayed[s] + Cardinality(BusyLinks(s)) <= Cardinality(LinksOf(s)) /\ relayed[s] \in Nat
          /\ Cardinality(BusyLinks(s)) \in Nat /\ Cardinality(LinksOf(s)) \in Nat
      BY <2>1, LinkCounts, Zenon DEF FloodInv
    <3>2. QED
      BY <3>1
  <2>2. QED
    BY <2>1 DEF FloodInv, RelayedOncePerLink
<1>3. QED
  BY <1>1, <1>2, FloodStarts, PTL DEF FloodSpec

=============================================================================
