---------------------------- MODULE ClusterLease ----------------------------
(***************************************************************************)
(* Address leases in a cluster of servers.  One server, the authority,     *)
(* keeps the table cluster_leases; every server asks it before it gives an *)
(* address to a device or a WireGuard peer.  The other servers, the        *)
(* members, ask over a connection that may break at any moment.  A caller  *)
(* waits for room in the connection's channel for as long as it takes, and *)
(* from then on 5 s for an answer: a request may be served, and an answer  *)
(* may come, when nobody waits for it any more.                            *)
(*                                                                         *)
(* Time is what is left of a lease, counted in renewal intervals and aged  *)
(* by Tick, so that it needs no bound; the servers' clocks agree.          *)
(*                                                                         *)
(* What every server holds in its own address book and tables is the       *)
(* subject of Server.  Here it is unknown: an address may be occupied      *)
(* there, so that the server refuses it, or allocated there, so that       *)
(* reconciliation asks for it.                                             *)
(***************************************************************************)
EXTENDS Naturals, FiniteSets

CONSTANTS
    Authority,   \* the server whose id is lease_authority
    Member,      \* the other servers
    LeaseDevice, \* device_id values
    LeasePeer,   \* WireGuard peer_id values
    LeaseIp,     \* the addresses that pass validate_cluster_candidate
    Duration,    \* lease_duration
    SessionId,   \* bounds the sessions open at a time
    RequestId,   \* bounds the lease requests under way at a time
    PassId,      \* bounds the reconciliations under way at a time
    Null         \* Option::None

Server == Member \cup {Authority}
LeaseOwner == LeaseDevice \cup LeasePeer

\* expires_at = 0 with static_reservation: the lease never ages.
Forever == Duration + 1
Left == 0 .. Forever

Lease == [ip : LeaseIp, left : Left]

Op == {"register", "renew", "reserve", "release", "reconcile"}

Call == [op : Op, server : Server, owner : LeaseOwner, by : SessionId \cup PassId \cup {Null},
         step : {"room",      \* waits for room in the channel of the connection
                 "sent",      \* on its way to the authority, or being served there
                 "stale",     \* sent on a connection that the member has lost
                 "granted",   \* the answer is on its way back
                 "refused",   \* likewise
                 "lost"},     \* there will be no answer
         waiting : BOOLEAN,   \* the caller still waits
         requested : LeaseIp \cup {Null},
         grant : Lease \cup {Null}]

Session == [server : Server, device : LeaseDevice, ip : LeaseIp, left : Left,
            valid : BOOLEAN]   \* cluster_lease_valid; the renewal task ends with it

Pass == [server : Member, asking : BOOLEAN, conflicts : BOOLEAN]

ASSUME ClusterConstants ==
    /\ Authority \notin Member
    /\ LeaseDevice \cap LeasePeer = {}
    /\ Duration \in Nat \ {0}
    /\ Null \notin LeaseOwner \cup LeaseIp \cup Lease \cup Call \cup Session \cup Pass
    /\ Null \notin SessionId \cup PassId
    /\ SessionId \cap PassId = {}

VARIABLES
    cluster_leases,  \* the authority's table: owner -> its lease, or Null
    link,            \* member -> has it a connection to the authority?
    cluster_ready,   \* member -> may it acquire leases?
    call,            \* the lease requests under way
    sessions,        \* the sessions open on any server, with their renewal tasks
    pass,            \* the reconciliations under way
    granted          \* history: the address last granted to a device

memberVars == <<link, cluster_ready, pass>>
clusterVars == <<cluster_leases, memberVars, call, sessions, granted>>

ClusterTypeOK ==
    /\ cluster_leases \in [LeaseOwner -> Lease \cup {Null}]
    /\ link \in [Member -> BOOLEAN]
    /\ cluster_ready \in [Member -> BOOLEAN]
    /\ call \in [RequestId -> Call \cup {Null}]
    /\ sessions \in [SessionId -> Session \cup {Null}]
    /\ pass \in [PassId -> Pass \cup {Null}]
    /\ granted \in [LeaseDevice -> LeaseIp \cup {Null}]

ClusterInit ==
    /\ cluster_leases = [o \in LeaseOwner |-> Null]
    /\ link = [m \in Member |-> FALSE]
    /\ cluster_ready = [m \in Member |-> FALSE]
    /\ call = [i \in RequestId |-> Null]
    /\ sessions = [s \in SessionId |-> Null]
    /\ pass = [k \in PassId |-> Null]
    /\ granted = [d \in LeaseDevice |-> Null]

-----------------------------------------------------------------------------
(* The authority's table: acquire_cluster_lease, release_cluster_lease *)

\* The first statement of the transaction deletes what has expired.
Holds(o) == cluster_leases[o] # Null /\ cluster_leases[o].left # 0

\* ensure_cluster_ip_available, as far as cluster_leases goes.
Available(o, ip) ==
    \A other \in LeaseOwner \ {o} : Holds(other) => cluster_leases[other].ip # ip

\* Mutant of Candidates: an owner keeps what it asks for without a check.
CandidatesUnchecked(o, requested) ==
    IF requested # Null THEN {requested}
    ELSE IF Holds(o) THEN {cluster_leases[o].ip}
    ELSE {ip \in LeaseIp : Available(o, ip)}

\* The address requested, else the one held, else the one in the authority's own
\* tables or the first available one; every one of them must be available.
Candidates(o, requested) ==
    {ip \in LeaseIp : Available(o, ip)}
        \cap (IF requested # Null THEN {requested}
              ELSE IF Holds(o) THEN {cluster_leases[o].ip} ELSE LeaseIp)

\* Callers ask for a static reservation exactly for WireGuard peers.
Lifetime(o) == IF o \in LeasePeer THEN Forever ELSE Duration

\* The rest of the transaction: the sweep and the upsert.
PersistLease(o, lease) ==
    /\ cluster_leases' = [q \in LeaseOwner |-> IF q = o THEN lease
                                          ELSE IF Holds(q) THEN cluster_leases[q] ELSE Null]
    /\ granted' = IF o \in LeaseDevice THEN [granted EXCEPT ![o] = lease.ip] ELSE granted

\* An answer to a caller that waits no more finds no entry in
\* pending_lease_acquires; one to a lost connection goes nowhere.
Answer(i, answer, grant) ==
    call' = [call EXCEPT ![i] =
               IF ~@.waiting THEN Null
               ELSE IF @.step = "stale" THEN [@ EXCEPT !.step = "lost", !.requested = Null]
               ELSE [@ EXCEPT !.step = answer, !.requested = Null, !.grant = grant]]

\* Mutant of Grant: an address that is requested goes over to whoever requests it.
GrantTakesOver(i, o) ==
    \E ip \in CandidatesUnchecked(o, call[i].requested) :
        LET lease == [ip |-> ip, left |-> Lifetime(o)] IN
        /\ cluster_leases' = [q \in LeaseOwner |->
                                IF q = o THEN lease
                                ELSE IF Holds(q) /\ cluster_leases[q].ip # ip
                                THEN cluster_leases[q] ELSE Null]
        /\ granted' = IF o \in LeaseDevice THEN [granted EXCEPT ![o] = ip] ELSE granted
        /\ Answer(i, "granted", lease)

Grant(i, o) ==
    \E ip \in Candidates(o, call[i].requested) :
        LET lease == [ip |-> ip, left |-> Lifetime(o)] IN
        PersistLease(o, lease) /\ Answer(i, "granted", lease)

\* An operation of the authority itself, or a request that a peer loop reads:
\* handle_lease_acquire_request, handle_lease_release_request.
Serve(i) ==
    LET o == call[i].owner IN
    /\ call[i] # Null
    /\ call[i].step \in {"sent", "stale"}
    /\ \/ /\ call[i].op # "release"
          /\ Grant(i, o)
       \/ /\ call[i].op = "release"
          /\ cluster_leases' = [cluster_leases EXCEPT ![o] = Null]
          /\ Answer(i, "granted", Null)
          /\ UNCHANGED granted
       \/ /\ Answer(i, "refused", Null)      \* no candidate, or a database error
          /\ UNCHANGED <<cluster_leases, granted>>
    /\ UNCHANGED <<memberVars, sessions>>

-----------------------------------------------------------------------------
(* Asking: acquire_lease, acquire_lease_request, release_lease *)

\* The servers for which authority_peer() finds a connection, and those that
\* acquire_lease does not turn away.
Reaching == {Authority} \cup {m \in Member : link[m]}
Acquiring == {Authority} \cup {m \in Member : link[m] /\ cluster_ready[m]}

\* The authority turns to its own table, a member to peer.send.
FirstStep(v) == IF v = Authority THEN "sent" ELSE "room"

Send(i, op, v, o, requested, by) ==
    /\ call[i] = Null
    /\ call' = [call EXCEPT ![i] =
                  [op |-> op, server |-> v, owner |-> o, by |-> by,
                   step |-> FirstStep(v), waiting |-> TRUE, requested |-> requested,
                   grant |-> Null]]

\* peer.send returns: the peer loop has made room.  A jammed loop makes none.
FindsRoom(i) ==
    /\ call[i] # Null
    /\ call[i].step = "room"
    /\ call' = [call EXCEPT ![i].step = "sent"]
    /\ UNCHANGED <<cluster_leases, memberVars, sessions, granted>>

\* A request whose caller is gone.
Alone(c) == [c EXCEPT !.waiting = FALSE, !.by = Null]

\* The caller has its answer, or gives up while the request is still under way.
Forget(i) ==
    call' = [call EXCEPT ![i] = IF @.step \in {"sent", "stale"}
                                THEN Alone(@) ELSE Null]

Granted(i, op) ==
    call[i] # Null /\ call[i].waiting /\ call[i].op = op /\ call[i].step = "granted"

\* An error answer, or 5 s without an answer; only a member waits for a network.
\* The 5 s begin when the request is in the channel.
Failed(i, op) ==
    /\ call[i] # Null /\ call[i].waiting /\ call[i].op = op
    /\ call[i].step = "refused" \/ (call[i].server \in Member /\ call[i].step # "room")

-----------------------------------------------------------------------------
(* Sessions: register and the renewal task it spawns *)

RegisterAt(i, v, d, requested) ==
    /\ v \in Acquiring
    /\ Send(i, "register", v, d, requested, Null)
    /\ UNCHANGED <<cluster_leases, memberVars, sessions, granted>>

RegisterGranted(i, s) ==
    /\ Granted(i, "register")
    /\ sessions[s] = Null
    /\ sessions' = [sessions EXCEPT ![s] =
                     [server |-> call[i].server, device |-> call[i].owner,
                      ip |-> call[i].grant.ip, left |-> call[i].grant.left,
                      valid |-> TRUE]]
    /\ Forget(i)
    /\ UNCHANGED <<cluster_leases, memberVars, granted>>

\* No grant; or a grant, and the server's own address book refuses the address,
\* which leaves the lease to expire.
RegisterFails(i) ==
    /\ Failed(i, "register") \/ Granted(i, "register")
    /\ Forget(i)
    /\ UNCHANGED <<cluster_leases, memberVars, sessions, granted>>

\* Drop for Session cancels the renewal task, not a request that it is making.
CloseSession(s) ==
    /\ sessions[s] # Null
    /\ sessions' = [sessions EXCEPT ![s] = Null]
    /\ call' = [i \in RequestId |-> IF call[i] # Null /\ call[i].by = s
                                    THEN [call[i] EXCEPT !.by = Null] ELSE call[i]]
    /\ UNCHANGED <<cluster_leases, memberVars, granted>>

\* The renewal task is between two ticks of its interval.
AwaitsTick(s) ==
    /\ sessions[s] # Null
    /\ sessions[s].valid
    /\ \A i \in RequestId : call[i] # Null => call[i].by # s \/ ~call[i].waiting

\* Mutant of RenewalFailed: the session goes on.
RenewalFailedIgnored(s) == UNCHANGED sessions

\* A failed renewal ends the session's right to relay once the lease has expired.
RenewalFailed(s) ==
    sessions' = IF s = Null \/ sessions[s].left # 0 THEN sessions
               ELSE [sessions EXCEPT ![s].valid = FALSE]

Renew(i, s) ==
    /\ AwaitsTick(s)
    /\ sessions[s].server \in Acquiring
    /\ Send(i, "renew", sessions[s].server, sessions[s].device, sessions[s].ip, s)
    /\ UNCHANGED <<cluster_leases, memberVars, sessions, granted>>

\* acquire_lease refuses at once: not ready, or no connection.
RenewUnavailable(s) ==
    /\ AwaitsTick(s)
    /\ sessions[s].server \notin Acquiring
    /\ RenewalFailed(s)
    /\ UNCHANGED <<cluster_leases, memberVars, call, granted>>

\* Mutant of RenewGranted: the lease counts from the arrival of the answer.
RenewGrantedAnew(i) ==
    /\ Granted(i, "renew")
    /\ sessions' = IF call[i].by = Null THEN sessions
                   ELSE [sessions EXCEPT ![call[i].by].left = Duration]
    /\ Forget(i)
    /\ UNCHANGED <<cluster_leases, memberVars, granted>>

RenewGranted(i) ==
    /\ Granted(i, "renew")
    /\ sessions' = IF call[i].by = Null THEN sessions
                  ELSE [sessions EXCEPT ![call[i].by].left = call[i].grant.left]
    /\ Forget(i)
    /\ UNCHANGED <<cluster_leases, memberVars, granted>>

RenewFails(i) ==
    /\ Failed(i, "renew")
    /\ RenewalFailed(call[i].by)
    /\ Forget(i)
    /\ UNCHANGED <<cluster_leases, memberVars, granted>>

-----------------------------------------------------------------------------
(* WireGuard peers: reserve and create with an address, release and delete *)

Reserve(i, v, p, requested) ==
    /\ v \in Acquiring
    /\ Send(i, "reserve", v, p, requested, Null)
    /\ UNCHANGED <<cluster_leases, memberVars, sessions, granted>>

\* The server's own reservation comes after the grant; if it fails the grant is
\* not given back.
ReserveReturns(i) ==
    /\ Granted(i, "reserve") \/ Failed(i, "reserve")
    /\ Forget(i)
    /\ UNCHANGED <<cluster_leases, memberVars, sessions, granted>>

\* The server has given its own reservation up; without a connection the
\* authority never hears of it.
Release(i, v, p) ==
    /\ v \in Reaching
    /\ Send(i, "release", v, p, Null, Null)
    /\ UNCHANGED <<cluster_leases, memberVars, sessions, granted>>

ReleaseReturns(i) ==
    /\ Granted(i, "release") \/ Failed(i, "release")
    /\ Forget(i)
    /\ UNCHANGED <<cluster_leases, memberVars, sessions, granted>>

-----------------------------------------------------------------------------
(* The connection of a member: connect_to_peer_once, run_peer_communication_loop *)

\* The connection is up, nothing may be acquired, a reconciliation is spawned; it
\* is over at once if it cannot read the member's allocations.
Connect(m, k) ==
    /\ ~link[m]
    /\ pass[k] = Null
    /\ link' = [link EXCEPT ![m] = TRUE]
    /\ cluster_ready' = [cluster_ready EXCEPT ![m] = FALSE]
    /\ pass' \in {pass, [pass EXCEPT ![k] = [server |-> m, asking |-> FALSE, conflicts |-> FALSE]]}
    /\ UNCHANGED <<cluster_leases, call, sessions, granted>>

\* The requests of a server that wait to be served.
Unserved(v) ==
    {i \in RequestId : call[i] # Null /\ call[i].server = v /\ call[i].step \in {"sent", "stale"}}

\* What becomes of a request of the lost connection: the authority has it and
\* will serve it, or it is lost; an answer is lost; peer.send returns an error.
CutOff(c, served) ==
    IF served THEN [c EXCEPT !.step = "stale"]
    ELSE IF c.waiting THEN [c EXCEPT !.step = "lost", !.requested = Null, !.grant = Null]
    ELSE Null

Disconnect(m) ==
    /\ link[m]
    /\ link' = [link EXCEPT ![m] = FALSE]
    /\ cluster_ready' = [cluster_ready EXCEPT ![m] = FALSE]
    /\ \E S \in SUBSET Unserved(m) :
          call' = [i \in RequestId |-> IF call[i] # Null /\ call[i].server = m
                                      THEN CutOff(call[i], i \in S) ELSE call[i]]
    /\ UNCHANGED <<cluster_leases, pass, sessions, granted>>

(* reconcile_local_allocations: acquire the member's allocations, one by one *)

Reconcile(i, k, o, ip) ==
    /\ pass[k] # Null
    /\ ~pass[k].asking
    /\ pass[k].server \in Reaching
    /\ Send(i, "reconcile", pass[k].server, o, ip, k)
    /\ pass' = [pass EXCEPT ![k].asking = TRUE]
    /\ UNCHANGED <<cluster_leases, link, cluster_ready, sessions, granted>>

ReconcileUnreachable(k) ==
    /\ pass[k] # Null
    /\ ~pass[k].asking
    /\ pass[k].server \notin Reaching
    /\ pass' = [pass EXCEPT ![k].conflicts = TRUE]
    /\ UNCHANGED <<cluster_leases, link, cluster_ready, call, sessions, granted>>

ReconcileAnswer(i) ==
    /\ \E failed \in BOOLEAN :
          /\ IF failed THEN Failed(i, "reconcile") ELSE Granted(i, "reconcile")
          /\ pass' = [pass EXCEPT ![call[i].by].asking = FALSE,
                                  ![call[i].by].conflicts = @ \/ failed]
    /\ Forget(i)
    /\ UNCHANGED <<cluster_leases, link, cluster_ready, sessions, granted>>

\* Whatever has become of the connection meanwhile.
ReconcileDone(k) ==
    /\ pass[k] # Null
    /\ ~pass[k].asking
    /\ cluster_ready' = [cluster_ready EXCEPT ![pass[k].server] = ~pass[k].conflicts]
    /\ pass' = [pass EXCEPT ![k] = Null]
    /\ UNCHANGED <<cluster_leases, link, call, sessions, granted>>

-----------------------------------------------------------------------------
(* Faults and time *)

\* A server stops and starts again: its tables survive, its tasks do not, and
\* a request that it had sent may still be served.
ServerRestart(v) ==
    LET down == IF v = Authority THEN Member ELSE {v} IN
    /\ link' = [m \in Member |-> link[m] /\ m \notin down]
    /\ cluster_ready' = [m \in Member |-> cluster_ready[m] /\ m \notin down]
    /\ sessions' = [s \in SessionId |-> IF sessions[s] # Null /\ sessions[s].server = v THEN Null
                                       ELSE sessions[s]]
    /\ pass' = [k \in PassId |-> IF pass[k] # Null /\ pass[k].server = v THEN Null ELSE pass[k]]
    /\ \E S \in SUBSET (IF v = Authority THEN {} ELSE Unserved(v)) :
          call' = [i \in RequestId |->
                     IF call[i] = Null THEN Null
                     ELSE IF call[i].server = v
                     THEN CutOff(Alone(call[i]), i \in S)
                     ELSE IF call[i].server \in down THEN CutOff(call[i], FALSE)
                     ELSE call[i]]
    /\ UNCHANGED <<cluster_leases, granted>>

\* Mutant of Aged: an expired lease goes on ageing.
AgedPastZero(n) == IF n # Forever THEN n - 1 ELSE n

Aged(n) == IF n \in 1 .. Duration THEN n - 1 ELSE n

AgedLease(l) == IF l = Null THEN Null ELSE [l EXCEPT !.left = Aged(@)]

\* A caller waits 5 s at most for its answer and no lease is shorter than 10 s: a
\* grant does not expire while its caller waits.
Timely == \A i \in RequestId : call[i] # Null /\ call[i].grant # Null => call[i].grant.left # 1

Tick ==
    /\ Timely
    /\ cluster_leases' = [o \in LeaseOwner |-> AgedLease(cluster_leases[o])]
    /\ sessions' = [s \in SessionId |-> AgedLease(sessions[s])]
    /\ call' = [i \in RequestId |-> IF call[i] = Null THEN Null
                                    ELSE [call[i] EXCEPT !.grant = AgedLease(@)]]
    /\ UNCHANGED <<memberVars, granted>>

-----------------------------------------------------------------------------
SessionTask(i, s) == Renew(i, s) \/ RenewUnavailable(s)

CallReturns(i) ==
    \/ \E s \in SessionId : RegisterGranted(i, s)
    \/ RegisterFails(i)
    \/ RenewGranted(i)
    \/ RenewFails(i)
    \/ ReserveReturns(i)
    \/ ReleaseReturns(i)
    \/ ReconcileAnswer(i)

ClusterNext ==
    \/ \E i \in RequestId :
          \/ \E v \in Server, r \in LeaseIp \cup {Null} :
                \/ \E d \in LeaseDevice : RegisterAt(i, v, d, r)
                \/ \E p \in LeasePeer : Reserve(i, v, p, r)
          \/ \E v \in Server, p \in LeasePeer : Release(i, v, p)
          \/ \E s \in SessionId : SessionTask(i, s)
          \/ \E k \in PassId, o \in LeaseOwner, ip \in LeaseIp : Reconcile(i, k, o, ip)
          \/ FindsRoom(i)
          \/ Serve(i)
          \/ CallReturns(i)
    \/ \E s \in SessionId : CloseSession(s)
    \/ \E m \in Member : Disconnect(m) \/ \E k \in PassId : Connect(m, k)
    \/ \E k \in PassId : ReconcileUnreachable(k) \/ ReconcileDone(k)
    \/ \E v \in Server : ServerRestart(v)
    \/ Tick

ClusterSpec == ClusterInit /\ [][ClusterNext]_clusterVars

-----------------------------------------------------------------------------
(* Safety *)

\* At no time do two owners hold unexpired leases of one address, whatever
\* requests are late, lost or served twice, and however leases move and expire.
ClusterExclusive ==
    \A o, q \in LeaseOwner :
        Holds(o) /\ Holds(q) /\ cluster_leases[o].ip = cluster_leases[q].ip => o = q

\* A session that may relay and whose lease has time left on the session's own
\* record is backed by the authority for at least that time, so that nobody
\* else gets its address meanwhile: answers that come late never stretch a
\* lease.  The one exception is a device that has since been granted another
\* address, by registering a second time.
LeaseOutlivesSession ==
    \A s \in SessionId :
        sessions[s] # Null /\ sessions[s].valid /\ sessions[s].left # 0
        /\ granted[sessions[s].device] = sessions[s].ip =>
            /\ cluster_leases[sessions[s].device] # Null
            /\ cluster_leases[sessions[s].device].ip = sessions[s].ip
            /\ cluster_leases[sessions[s].device].left >= sessions[s].left

Holder(a) == IF \E o \in LeaseOwner : Holds(o) /\ cluster_leases[o].ip = a
             THEN CHOOSE o \in LeaseOwner : Holds(o) /\ cluster_leases[o].ip = a
             ELSE Null

ClusterOwnership == INSTANCE AddressOwnership
    WITH Address <- LeaseIp, Owner <- LeaseOwner, Nobody <- Null,
         owner <- [a \in LeaseIp |-> Holder(a)]

\* Across all servers an address has one owner and is given back or expires
\* before another owner gets it.
ImplementsClusterOwnership == ClusterOwnership!Spec

-----------------------------------------------------------------------------
(* Liveness *)

\* A request in the channel is served or its caller gives up, after 5 s, and a
\* caller with an answer returns; the renewal interval comes round for ever, also
\* when it finds every request taken.  The connection, the clients and the clock
\* owe nothing, and neither does the peer loop, which makes room in its channel or
\* does not.
ClusterFairness ==
    /\ \A i \in RequestId : WF_clusterVars(Serve(i) \/ CallReturns(i))
    /\ \A s \in SessionId : SF_clusterVars(\E i \in RequestId : SessionTask(i, s))

ClusterLiveSpec == ClusterSpec /\ ClusterFairness

\* The renewal task of a session is in peer.send.
RenewalAwaitsRoom(s) ==
    \E i \in RequestId : call[i] # Null /\ call[i].by = s /\ call[i].step = "room"

\* A session that goes on relaying for ever on a lease that has run out is one
\* whose renewal hangs for ever in peer.send, which has no timeout.  Otherwise
\* its lease is renewed, or it is cut off, or it ends, even if the connection to
\* the authority never comes back or breaks again and again.
ExpiredSessionStops ==
    \A s \in SessionId :
        <>[](sessions[s] # Null /\ sessions[s].valid /\ sessions[s].left = 0)
            => <>[]RenewalAwaitsRoom(s)

=============================================================================
