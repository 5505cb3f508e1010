------------------------- MODULE ClusterLeaseProofs -------------------------
(***************************************************************************)
(* Proofs about the cluster leases: for any number of members, owners,     *)
(* addresses, sessions and requests an address has one holder, and what a  *)
(* session believes of its lease is true at the authority.                 *)
(*                                                                         *)
(* A step does one of four things to the requests under way: it sends one, *)
(* the authority grants one, a unit of time passes, or requests only get   *)
(* weaker (are refused, cut off, given up, or come to an end).  The first  *)
(* part proves the invariants about requests once for each of the four,    *)
(* the second that every action keeps ClusterInv.  The safety properties   *)
(* follow from it, and so does the refinement of AddressOwnership.         *)
(***************************************************************************)
EXTENDS ClusterLease, TLAPS

\* What a caller or a session knows of a lease of device d is true at the
\* authority, unless d has been granted another address since.
Backed(d, l) ==
    /\ l.left <= Duration
    /\ l.left # 0 /\ granted[d] = l.ip =>
          /\ cluster_leases[d] # Null
          /\ cluster_leases[d].ip = l.ip
          /\ cluster_leases[d].left >= l.left

OwnersFit ==
    \A i \in RequestId : call[i] # Null =>
        /\ call[i].op \in {"register", "renew"} => call[i].owner \in LeaseDevice
        /\ call[i].op = "release" => call[i].owner \in LeasePeer

GrantsBacked ==
    \A i \in RequestId : call[i] # Null =>
        /\ call[i].step = "granted" /\ call[i].op # "release" => call[i].grant # Null
        /\ call[i].grant # Null /\ call[i].owner \in LeaseDevice =>
              Backed(call[i].owner, call[i].grant)

SessionsBacked ==
    \A s \in SessionId : sessions[s] # Null => Backed(sessions[s].device, sessions[s])

\* A renewal that its task still waits for is about that session.
RenewalsFit ==
    \A i \in RequestId : call[i] # Null /\ call[i].op = "renew" /\ call[i].by # Null =>
        /\ call[i].by \in SessionId
        /\ sessions[call[i].by] # Null
        /\ sessions[call[i].by].server = call[i].server
        /\ sessions[call[i].by].device = call[i].owner
        /\ call[i].step \in {"room", "sent", "stale"} => call[i].requested = sessions[call[i].by].ip
        /\ call[i].grant # Null => call[i].grant.ip = sessions[call[i].by].ip

Reconciles(i) == call[i] # Null /\ call[i].op = "reconcile" /\ call[i].waiting

\* A reconciliation waits for one request at a time.
PassesFit ==
    /\ \A i \in RequestId : Reconciles(i) =>
          /\ call[i].by \in PassId
          /\ pass[call[i].by] # Null
          /\ pass[call[i].by].server = call[i].server
          /\ pass[call[i].by].asking
    /\ \A i, j \in RequestId : Reconciles(i) /\ Reconciles(j) /\ call[i].by = call[j].by => i = j

ClusterInv ==
    /\ ClusterTypeOK
    /\ ClusterExclusive
    /\ OwnersFit
    /\ GrantsBacked
    /\ SessionsBacked
    /\ RenewalsFit
    /\ PassesFit

-----------------------------------------------------------------------------
(* What a step does to the requests under way *)

\* c becomes w: it says no more than before.
Weaker(c, w) ==
    /\ w.op = c.op /\ w.server = c.server /\ w.owner = c.owner
    /\ w.by \in {c.by, Null}
    /\ w.waiting => c.waiting
    /\ w.waiting /\ w.op = "reconcile" => w.by = c.by
    /\ w.step \in {"room", "sent", "stale"} =>
          c.step \in {"room", "sent", "stale"} /\ w.requested = c.requested
    /\ w.step = "granted" /\ w.op # "release" => c.step = "granted" /\ w.grant = c.grant
    /\ w.grant \in {c.grant, Null}

CallsWeaken ==
    /\ call' \in [RequestId -> Call \cup {Null}]
    /\ \A i \in RequestId : call'[i] # Null => call[i] # Null /\ Weaker(call[i], call'[i])

Sends(i, c) ==
    /\ call[i] = Null
    /\ c \in Call
    /\ c.step \in {"room", "sent"}
    /\ c.grant = Null
    /\ c.op \in {"register", "renew"} => c.owner \in LeaseDevice
    /\ c.op = "release" => c.owner \in LeasePeer
    /\ call' = [call EXCEPT ![i] = c]

-----------------------------------------------------------------------------
LEMMA NullFacts ==
    /\ Null \notin LeaseOwner /\ Null \notin LeaseIp /\ Null \notin Lease
    /\ Null \notin Call /\ Null \notin Session /\ Null \notin Pass
    /\ Null \notin SessionId /\ Null \notin PassId
    /\ \A d \in LeaseDevice : d \notin LeasePeer
BY ClusterConstants

LEMMA AgedFacts ==
    /\ \A n \in Left : Aged(n) \in Left /\ Aged(n) <= n /\ (Aged(n) # 0 => n # 0)
    /\ \A n, m \in Left : n <= m => Aged(n) <= Aged(m)
    /\ Duration \in Left /\ Forever \in Left /\ Duration # 0
    /\ Left \subseteq Nat
BY ClusterConstants DEF Aged, Left, Forever

LEMMA SameCalls ==
    ASSUME ClusterTypeOK, UNCHANGED call
    PROVE  CallsWeaken
BY DEF ClusterTypeOK, CallsWeaken, Weaker

LEMMA AloneWeaker ==
    ASSUME NEW c \in Call
    PROVE  Alone(c) \in Call /\ Weaker(c, Alone(c)) /\ Alone(c).step = c.step
BY Zenon DEF Call, Weaker, Alone

LEMMA ForgetWeakens ==
    ASSUME ClusterTypeOK, NEW i \in RequestId, call[i] # Null, Forget(i)
    PROVE  CallsWeaken
<1>1. call[i] \in Call /\ Alone(call[i]) \in Call /\ Weaker(call[i], Alone(call[i]))
  BY AloneWeaker DEF ClusterTypeOK
<1>2. call' = [call EXCEPT ![i] = IF call[i].step \in {"sent", "stale"}
                                  THEN Alone(call[i]) ELSE Null]
  BY DEF Forget, ClusterTypeOK
<1>3. \A j \in RequestId : call[j] # Null => Weaker(call[j], call[j])
  BY DEF Weaker
<1>4. QED
  BY <1>1, <1>2, <1>3 DEF CallsWeaken, ClusterTypeOK

LEMMA AnswerWeakens ==
    ASSUME ClusterTypeOK, NEW i \in RequestId, call[i] # Null, NEW answer \in {"granted", "refused"},
           answer = "granted" => call[i].op = "release",
           Answer(i, answer, Null)
    PROVE  CallsWeaken
<1>1. call[i] \in Call
  BY DEF ClusterTypeOK
<1> DEFINE l == [call[i] EXCEPT !.step = "lost", !.requested = Null]
           w == [call[i] EXCEPT !.step = answer, !.requested = Null, !.grant = Null]
<1>2. l \in Call /\ Weaker(call[i], l)
  BY <1>1, Zenon DEF Call, Weaker
<1>3. w \in Call /\ Weaker(call[i], w)
  BY <1>1, Zenon DEF Call, Weaker
<1>4. call' = [call EXCEPT ![i] = IF ~call[i].waiting THEN Null
                                  ELSE IF call[i].step = "stale" THEN l ELSE w]
  BY DEF Answer, ClusterTypeOK
<1> HIDE DEF l, w
<1>5. \A j \in RequestId : call[j] # Null => Weaker(call[j], call[j])
  BY DEF Weaker
<1>6. QED
  BY <1>2, <1>3, <1>4, <1>5 DEF CallsWeaken, ClusterTypeOK

LEMMA CutOffWeaker ==
    ASSUME NEW c \in Call, NEW i, NEW S, i \in S => c.step \in {"sent", "stale"}
    PROVE  /\ CutOff(c, i \in S) = Null
              \/ (CutOff(c, i \in S) \in Call /\ Weaker(c, CutOff(c, i \in S)))
           /\ CutOff(c, FALSE) = Null
              \/ (CutOff(c, FALSE) \in Call /\ Weaker(c, CutOff(c, FALSE)))
<1>1. CutOff(c, FALSE) = Null \/ (CutOff(c, FALSE) \in Call /\ Weaker(c, CutOff(c, FALSE)))
  BY Zenon DEF Call, Weaker, CutOff
<1>2. CASE i \in S
  BY <1>1, <1>2 DEF Call, Weaker, CutOff
<1>3. CASE i \notin S
  BY <1>1, <1>3 DEF Call, Weaker, CutOff
<1>4. QED
  BY <1>2, <1>3, Zenon

LEMMA DisconnectWeakens ==
    ASSUME ClusterTypeOK, NEW m \in Member, Disconnect(m)
    PROVE  CallsWeaken
<1>1. PICK S \in SUBSET Unserved(m) :
          call' = [i \in RequestId |-> IF call[i] # Null /\ call[i].server = m
                                      THEN CutOff(call[i], i \in S) ELSE call[i]]
  BY Zenon DEF Disconnect
<1>2. ASSUME NEW i \in RequestId, call[i] # Null
      PROVE  call[i] \in Call /\ Weaker(call[i], call[i])
  BY <1>2 DEF ClusterTypeOK, Weaker
<1>3. ASSUME NEW i \in RequestId, call[i] # Null
      PROVE  LET w == CutOff(call[i], i \in S) IN w = Null \/ (w \in Call /\ Weaker(call[i], w))
  <2>1. i \in S => call[i].step \in {"sent", "stale"}
    BY DEF Unserved
  <2>2. QED
    BY <1>2, <1>3, <2>1, CutOffWeaker, Zenon
<1>4. QED
  BY <1>1, <1>2, <1>3 DEF CallsWeaken, ClusterTypeOK

LEMMA CloseSessionWeakens ==
    ASSUME ClusterTypeOK, PassesFit, NEW s \in SessionId, CloseSession(s)
    PROVE  CallsWeaken
<1>1. ASSUME NEW i \in RequestId, call[i] # Null
      PROVE  /\ call[i] \in Call /\ Weaker(call[i], call[i])
             /\ call[i].by = s => ~Reconciles(i)
  BY <1>1, ClusterConstants DEF ClusterTypeOK, Weaker, PassesFit
<1>2. ASSUME NEW i \in RequestId, call[i] # Null, call[i].by = s
      PROVE  LET w == [call[i] EXCEPT !.by = Null] IN w \in Call /\ Weaker(call[i], w)
  BY <1>1, <1>2 DEF Call, Weaker, Reconciles
<1>3. QED
  BY <1>1, <1>2, Zenon DEF CallsWeaken, ClusterTypeOK, CloseSession

LEMMA RestartWeakens ==
    ASSUME ClusterTypeOK, NEW v \in Server, ServerRestart(v)
    PROVE  CallsWeaken
<1> DEFINE down == IF v = Authority THEN Member ELSE {v}
<1>1. PICK S \in SUBSET Unserved(v) :
          call' = [i \in RequestId |->
                     IF call[i] = Null THEN Null
                     ELSE IF call[i].server = v THEN CutOff(Alone(call[i]), i \in S)
                     ELSE IF call[i].server \in down THEN CutOff(call[i], FALSE)
                     ELSE call[i]]
  BY Zenon DEF ServerRestart
<1> HIDE DEF down
<1>2. ASSUME NEW i \in RequestId, call[i] # Null
      PROVE  call[i] \in Call /\ Weaker(call[i], call[i])
  BY <1>2 DEF ClusterTypeOK, Weaker
<1>3. ASSUME NEW i \in RequestId, call[i] # Null
      PROVE  LET w == CutOff(Alone(call[i]), i \in S) IN
             w = Null \/ (w \in Call /\ Weaker(call[i], w))
  <2>1. i \in S => call[i].step \in {"sent", "stale"}
    BY DEF Unserved
  <2>2. Alone(call[i]) \in Call /\ Weaker(call[i], Alone(call[i]))
        /\ Alone(call[i]).step = call[i].step
    BY <1>2, <1>3, AloneWeaker
  <2>3. LET w == CutOff(Alone(call[i]), i \in S) IN
        w = Null \/ (w \in Call /\ Weaker(Alone(call[i]), w))
    BY <2>1, <2>2, CutOffWeaker, Zenon
  <2>4. QED
    BY <2>2, <2>3, Zenon DEF Weaker
<1>4. ASSUME NEW i \in RequestId, call[i] # Null
      PROVE  LET w == CutOff(call[i], FALSE) IN w = Null \/ (w \in Call /\ Weaker(call[i], w))
  BY <1>2, <1>4, CutOffWeaker, Zenon
<1>5. QED
  BY <1>1, <1>2, <1>3, <1>4, Zenon DEF CallsWeaken, ClusterTypeOK

LEMMA SendSends ==
    ASSUME NEW i \in RequestId, NEW op \in Op, NEW v \in Server, NEW o \in LeaseOwner,
           NEW requested \in LeaseIp \cup {Null}, NEW by \in SessionId \cup PassId \cup {Null},
           op \in {"register", "renew"} => o \in LeaseDevice,
           op = "release" => o \in LeasePeer,
           Send(i, op, v, o, requested, by)
    PROVE  Sends(i, [op |-> op, server |-> v, owner |-> o, by |-> by, step |-> FirstStep(v),
                     waiting |-> TRUE, requested |-> requested, grant |-> Null])
BY DEF Send, Sends, Call, FirstStep

\* The authority grants request i: the answer is on its way, or nobody hears it.
Grants(i) ==
    \E ip \in Candidates(call[i].owner, call[i].requested) :
        LET o == call[i].owner
            lease == [ip |-> ip, left |-> Lifetime(o)]
        IN
        /\ PersistLease(o, lease)
        /\ call' \in [RequestId -> Call \cup {Null}]
        /\ \A j \in RequestId \ {i} : call'[j] = call[j]
        /\ \/ call'[i] = Null
           \/ Weaker(call[i], call'[i])
           \/ /\ call'[i] # Null
              /\ call'[i].op = call[i].op /\ call'[i].server = call[i].server
              /\ call'[i].owner = o /\ call'[i].by = call[i].by
              /\ call'[i].waiting = call[i].waiting
              /\ call'[i].step = "granted"
              /\ call'[i].grant = lease

LEMMA GrantGrants ==
    ASSUME ClusterTypeOK, NEW i \in RequestId, call[i] # Null,
           call[i].step \in {"sent", "stale"}, Grant(i, call[i].owner)
    PROVE  Grants(i)
<1>1. call[i] \in Call
  BY DEF ClusterTypeOK
<1>2. PICK ip \in Candidates(call[i].owner, call[i].requested) :
          LET lease == [ip |-> ip, left |-> Lifetime(call[i].owner)] IN
          PersistLease(call[i].owner, lease) /\ Answer(i, "granted", lease)
  BY DEF Grant
<1> DEFINE lease == [ip |-> ip, left |-> Lifetime(call[i].owner)]
           l == [call[i] EXCEPT !.step = "lost", !.requested = Null]
           w == [call[i] EXCEPT !.step = "granted", !.requested = Null, !.grant = lease]
<1>3. lease \in Lease
  BY AgedFacts DEF Lease, Lifetime, Candidates
<1>4. l \in Call /\ Weaker(call[i], l)
  BY <1>1, Zenon DEF Call, Weaker
<1>5. /\ w \in Call
      /\ w.op = call[i].op /\ w.server = call[i].server
      /\ w.owner = call[i].owner /\ w.by = call[i].by /\ w.waiting = call[i].waiting
      /\ w.step = "granted" /\ w.grant = lease
  <2> HIDE DEF lease
  <2> QED
    BY <1>1, <1>3, Zenon DEF Call
<1>6. call' = [call EXCEPT ![i] = IF ~call[i].waiting THEN Null
                                  ELSE IF call[i].step = "stale" THEN l ELSE w]
  BY <1>2 DEF Answer, ClusterTypeOK
<1>7. PersistLease(call[i].owner, lease)
  BY <1>2
<1>8. w # Null
  BY <1>5, NullFacts
<1> HIDE DEF l, w, lease
<1>9. call' \in [RequestId -> Call \cup {Null}]
  BY <1>4, <1>5, <1>6 DEF ClusterTypeOK
<1>10. /\ \A j \in RequestId \ {i} : call'[j] = call[j]
       /\ call'[i] \in {Null, l, w}
  BY <1>6 DEF ClusterTypeOK
<1>11. QED
  BY <1>4, <1>5, <1>7, <1>8, <1>9, <1>10 DEF Grants, lease

-----------------------------------------------------------------------------
(* Every step is of one of the four kinds *)

CallStep ==
    \/ CallsWeaken
    \/ \E i \in RequestId : \E c \in Call : Sends(i, c)
    \/ \E i \in RequestId : call[i] # Null /\ Grants(i)
    \/ Tick

\* The members of a cluster hold what the authority has granted to devices.
DevicesKept ==
    /\ granted' = granted
    /\ \A d \in LeaseDevice : cluster_leases'[d] = cluster_leases[d]

\* Who has a session, and of which address, does not change.
SessionStays(s) ==
    sessions[s] # Null =>
        /\ sessions'[s] # Null
        /\ sessions'[s].server = sessions[s].server
        /\ sessions'[s].device = sessions[s].device
        /\ sessions'[s].ip = sessions[s].ip

PassStays(k) ==
    pass[k] # Null =>
        /\ pass'[k] # Null
        /\ pass'[k].server = pass[k].server
        /\ pass[k].asking => pass'[k].asking

LEMMA OwnersKept ==
    ASSUME ClusterTypeOK, OwnersFit, CallStep
    PROVE  OwnersFit'
<1>1. CASE CallsWeaken
  BY <1>1 DEF OwnersFit, CallsWeaken, Weaker
<1>2. ASSUME NEW i \in RequestId, NEW c \in Call, Sends(i, c)
      PROVE  OwnersFit'
  BY <1>2 DEF OwnersFit, Sends, ClusterTypeOK
<1>3. ASSUME NEW i \in RequestId, call[i] # Null, Grants(i)
      PROVE  OwnersFit'
  BY <1>3 DEF OwnersFit, Grants, Weaker
<1>4. CASE Tick
  <2>1. ASSUME NEW i \in RequestId, call[i] # Null
        PROVE  call'[i].op = call[i].op /\ call'[i].owner = call[i].owner
    BY <1>4, <2>1 DEF Tick, ClusterTypeOK, Call
  <2>2. \A i \in RequestId : call[i] = Null => call'[i] = Null
    BY <1>4 DEF Tick
  <2>3. QED
    BY <2>1, <2>2 DEF OwnersFit
<1>5. QED
  BY <1>1, <1>2, <1>3, <1>4 DEF CallStep

LEMMA RenewalsKept ==
    ASSUME ClusterTypeOK, RenewalsFit, CallsWeaken, \A s \in SessionId : SessionStays(s)
    PROVE  RenewalsFit'
BY DEF RenewalsFit, CallsWeaken, Weaker, SessionStays

LEMMA PassesKept ==
    ASSUME ClusterTypeOK, PassesFit, CallsWeaken, \A k \in PassId : PassStays(k)
    PROVE  PassesFit'
<1>1. \A i \in RequestId : Reconciles(i)' =>
          Reconciles(i) /\ call'[i].by = call[i].by /\ call'[i].server = call[i].server
  BY DEF CallsWeaken, Weaker, Reconciles
<1>2. QED
  BY <1>1 DEF PassesFit, PassStays

LEMMA GrantsKept ==
    ASSUME ClusterTypeOK, GrantsBacked, CallsWeaken, DevicesKept
    PROVE  GrantsBacked'
<1>1. ASSUME NEW i \in RequestId, call'[i] # Null
      PROVE  call[i] # Null /\ Weaker(call[i], call'[i])
  BY <1>1 DEF CallsWeaken
<1>2. QED
  BY <1>1 DEF GrantsBacked, Weaker, Backed, DevicesKept

LEMMA SessionsKept ==
    ASSUME ClusterTypeOK, SessionsBacked, DevicesKept,
           \A s \in SessionId : sessions'[s] # Null =>
               /\ sessions[s] # Null
               /\ sessions'[s].device = sessions[s].device
               /\ sessions'[s].ip = sessions[s].ip
               /\ sessions'[s].left = sessions[s].left
    PROVE  SessionsBacked'
<1>1. ASSUME NEW s \in SessionId, sessions'[s] # Null
      PROVE  Backed(sessions[s].device, sessions[s])'
  <2>1. sessions[s] # Null /\ Backed(sessions[s].device, sessions[s])
    BY <1>1 DEF SessionsBacked
  <2>2. sessions[s].device \in LeaseDevice
    BY <2>1 DEF ClusterTypeOK, Session
  <2>3. QED
    BY <1>1, <2>1, <2>2 DEF Backed, DevicesKept
<1>2. QED
  BY <1>1 DEF SessionsBacked

LEMMA SendKeeps ==
    ASSUME ClusterInv, NEW i \in RequestId, NEW c \in Call, Sends(i, c),
           UNCHANGED <<cluster_leases, granted, sessions>>,
           c.op = "renew" /\ c.by # Null =>
               /\ c.by \in SessionId /\ sessions[c.by] # Null
               /\ sessions[c.by].server = c.server /\ sessions[c.by].device = c.owner
               /\ c.requested = sessions[c.by].ip
    PROVE  GrantsBacked' /\ SessionsBacked' /\ RenewalsFit'
<1>1. \A j \in RequestId : call'[j] = IF j = i THEN c ELSE call[j]
  BY DEF Sends, ClusterInv, ClusterTypeOK
<1>2. c.grant = Null /\ c.step \in {"room", "sent"}
  BY DEF Sends
<1>3. GrantsBacked'
  BY <1>1, <1>2, ZenonT(40) DEF ClusterInv, GrantsBacked, Backed
<1>4. SessionsBacked'
  BY SessionsKept DEF ClusterInv, DevicesKept
<1>5. RenewalsFit'
  BY <1>1, <1>2 DEF ClusterInv, RenewalsFit
<1>6. QED
  BY <1>3, <1>4, <1>5

LEMMA SendKeepsPasses ==
    ASSUME ClusterInv, NEW i \in RequestId, NEW c \in Call, Sends(i, c),
           c.op # "reconcile", UNCHANGED pass
    PROVE  PassesFit'
<1>1. \A j \in RequestId : call'[j] = IF j = i THEN c ELSE call[j]
  BY DEF Sends, ClusterInv, ClusterTypeOK
<1>2. \A j \in RequestId : Reconciles(j)' =>
          Reconciles(j) /\ call'[j] = call[j]
  BY <1>1 DEF Reconciles
<1>3. QED
  BY <1>2 DEF ClusterInv, PassesFit

LEMMA ReconcileKeepsPasses ==
    ASSUME ClusterInv, NEW i \in RequestId, NEW c \in Call, Sends(i, c), NEW k \in PassId,
           c.by = k, pass[k] # Null, ~pass[k].asking, c.server = pass[k].server,
           pass' = [pass EXCEPT ![k].asking = TRUE]
    PROVE  PassesFit'
<1>1. \A j \in RequestId : call'[j] = IF j = i THEN c ELSE call[j]
  BY DEF Sends, ClusterInv, ClusterTypeOK
<1>2. \A j \in RequestId \ {i} : Reconciles(j)' =>
          Reconciles(j) /\ call'[j] = call[j] /\ call[j].by # k
  BY <1>1 DEF Reconciles, ClusterInv, PassesFit
<1>3. /\ pass'[k] # Null /\ pass'[k].asking /\ pass'[k].server = c.server
      /\ \A q \in PassId \ {k} : pass'[q] = pass[q]
  <2>1. pass[k] \in Pass /\ pass \in [PassId -> Pass \cup {Null}]
    BY DEF ClusterInv, ClusterTypeOK
  <2>2. pass'[k] \in Pass /\ pass'[k].asking /\ pass'[k].server = c.server
    BY <2>1, Zenon DEF Pass
  <2>3. QED
    BY <2>1, <2>2, NullFacts, Zenon
<1>4. QED
  BY <1>1, <1>2, <1>3 DEF ClusterInv, PassesFit

-----------------------------------------------------------------------------
(* The tables when a lease is granted *)

LEMMA GrantTables ==
    ASSUME ClusterTypeOK, NEW o \in LeaseOwner, NEW requested, NEW ip \in Candidates(o, requested),
           NEW lease, lease = [ip |-> ip, left |-> Lifetime(o)], PersistLease(o, lease)
    PROVE  /\ lease \in Lease /\ lease.ip = ip /\ lease.left = Lifetime(o)
           /\ ip \in LeaseIp /\ Available(o, ip)
           /\ requested # Null => ip = requested
           /\ cluster_leases'[o] = lease
           /\ \A q \in LeaseOwner \ {o} :
                 cluster_leases'[q] = IF Holds(q) THEN cluster_leases[q] ELSE Null
           /\ \A d \in LeaseDevice : granted'[d] = IF d = o THEN ip ELSE granted[d]
<1>1. /\ ip \in LeaseIp /\ Available(o, ip)
      /\ requested # Null => ip = requested
  BY DEF Candidates
<1>2. lease \in Lease /\ lease.ip = ip /\ lease.left = Lifetime(o)
  BY <1>1, AgedFacts DEF Lease, Lifetime
<1>3. /\ cluster_leases'[o] = lease
      /\ \A q \in LeaseOwner \ {o} :
            cluster_leases'[q] = IF Holds(q) THEN cluster_leases[q] ELSE Null
  BY DEF PersistLease
<1>4. \A d \in LeaseDevice : granted'[d] = IF d = o THEN ip ELSE granted[d]
  BY <1>2 DEF PersistLease, ClusterTypeOK
<1>5. QED
  BY <1>1, <1>2, <1>3, <1>4, Zenon

\* What was true of a lease stays true when another one is granted, or this one
\* once more.
LEMMA GrantKeepsBacked ==
    ASSUME ClusterTypeOK, NEW o \in LeaseOwner, NEW requested, NEW ip \in Candidates(o, requested),
           PersistLease(o, [ip |-> ip, left |-> Lifetime(o)]),
           NEW d \in LeaseDevice, NEW l, l.left \in Left, Backed(d, l)
    PROVE  Backed(d, l)'
<1> DEFINE lease == [ip |-> ip, left |-> Lifetime(o)]
<1>1. /\ lease.ip = ip /\ lease.left = Lifetime(o) /\ lease # Null
      /\ cluster_leases'[o] = lease
      /\ \A q \in LeaseOwner \ {o} :
            cluster_leases'[q] = IF Holds(q) THEN cluster_leases[q] ELSE Null
      /\ granted'[d] = IF d = o THEN ip ELSE granted[d]
  BY GrantTables, NullFacts
<1>2. d \in LeaseOwner /\ (d = o => Lifetime(o) = Duration)
  BY NullFacts DEF LeaseOwner, Lifetime
<1> HIDE DEF lease
<1>3. CASE d = o
  BY <1>1, <1>2, <1>3, AgedFacts DEF Backed
<1>4. CASE d # o
  <2>1. ASSUME l.left # 0, granted[d] = l.ip
        PROVE  Holds(d)
    <3>1. cluster_leases[d] # Null /\ cluster_leases[d].left >= l.left
      BY <2>1 DEF Backed
    <3>2. cluster_leases[d].left \in Nat /\ l.left \in Nat
      BY <1>2, <3>1, AgedFacts, Zenon DEF ClusterTypeOK, Lease
    <3>3. QED
      BY <2>1, <3>1, <3>2 DEF Holds
  <2>2. QED
    BY <1>1, <1>2, <1>4, <2>1, Zenon DEF Backed
<1>5. QED
  BY <1>3, <1>4

\* A grant is true when it is made.
LEMMA GrantIsBacked ==
    ASSUME ClusterTypeOK, NEW o \in LeaseDevice, NEW requested, NEW ip \in Candidates(o, requested),
           NEW lease, lease = [ip |-> ip, left |-> Lifetime(o)], PersistLease(o, lease)
    PROVE  Backed(o, lease)'
<1>1. o \in LeaseOwner /\ Lifetime(o) = Duration
  BY NullFacts DEF LeaseOwner, Lifetime
<1>2. lease.left = Duration /\ lease # Null /\ cluster_leases'[o] = lease
  BY <1>1, GrantTables, NullFacts
<1>3. QED
  BY <1>2, AgedFacts DEF Backed

LEMMA GrantExclusive ==
    ASSUME ClusterTypeOK, ClusterExclusive,
           NEW o \in LeaseOwner, NEW requested, NEW ip \in Candidates(o, requested),
           PersistLease(o, [ip |-> ip, left |-> Lifetime(o)])
    PROVE  ClusterExclusive'
<1> DEFINE lease == [ip |-> ip, left |-> Lifetime(o)]
<1>1. /\ lease.ip = ip /\ Available(o, ip)
      /\ cluster_leases'[o] = lease
      /\ \A q \in LeaseOwner \ {o} :
            cluster_leases'[q] = IF Holds(q) THEN cluster_leases[q] ELSE Null
  BY GrantTables
<1> HIDE DEF lease
<1>2. QED
  BY <1>1 DEF ClusterExclusive, Available, Holds

-----------------------------------------------------------------------------
(* Granting *)

LEMMA GrantKeeps ==
    ASSUME ClusterInv, NEW i \in RequestId, call[i] # Null, call[i].step \in {"sent", "stale"},
           Grants(i), UNCHANGED <<sessions, pass>>
    PROVE  GrantsBacked' /\ SessionsBacked' /\ RenewalsFit' /\ PassesFit' /\ ClusterExclusive'
<1>1. PICK o \in LeaseOwner : o = call[i].owner
  BY DEF ClusterInv, ClusterTypeOK, Call
<1>2. PICK ip, lease :
        /\ ip \in Candidates(o, call[i].requested)
        /\ lease = [ip |-> ip, left |-> Lifetime(o)]
        /\ PersistLease(o, lease)
        /\ call' \in [RequestId -> Call \cup {Null}]
        /\ \A j \in RequestId \ {i} : call'[j] = call[j]
        /\ \/ call'[i] = Null
           \/ Weaker(call[i], call'[i])
           \/ /\ call'[i] # Null
              /\ call'[i].op = call[i].op /\ call'[i].server = call[i].server
              /\ call'[i].owner = o /\ call'[i].by = call[i].by
              /\ call'[i].waiting = call[i].waiting
              /\ call'[i].step = "granted"
              /\ call'[i].grant = lease
  BY <1>1, Zenon DEF Grants
<1>3. /\ lease \in Lease /\ lease.ip = ip
      /\ call[i].requested # Null => ip = call[i].requested
  BY <1>1, <1>2, GrantTables DEF ClusterInv
<1>4. ASSUME NEW d \in LeaseDevice, NEW l \in Lease, Backed(d, l)
      PROVE  Backed(d, l)'
  BY <1>1, <1>2, <1>4, GrantKeepsBacked, Zenon DEF ClusterInv, Lease
<1>5. ASSUME o \in LeaseDevice
      PROVE  Backed(o, lease)'
  BY <1>2, <1>5, GrantIsBacked, Zenon DEF ClusterInv
<1>6. ClusterExclusive'
  BY <1>1, <1>2, GrantExclusive, Zenon DEF ClusterInv
<1>7. lease # Null
  BY <1>3, NullFacts
<1>8. SessionsBacked'
  <2>1. ASSUME NEW s \in SessionId, sessions[s] # Null
        PROVE  /\ sessions[s].device \in LeaseDevice
               /\ sessions[s].left \in Left
               /\ Backed(sessions[s].device, sessions[s])
    BY <2>1 DEF ClusterInv, ClusterTypeOK, Session, SessionsBacked
  <2>2. ASSUME NEW s \in SessionId, sessions[s] # Null
        PROVE  Backed(sessions[s].device, sessions[s])'
    <3>1. PICK d, l : d \in LeaseDevice /\ d = sessions[s].device /\ l = sessions[s]
      BY <2>1, <2>2
    <3>2. Backed(d, l)'
      BY <1>1, <1>2, <2>1, <2>2, <3>1, GrantKeepsBacked, Zenon DEF ClusterInv
    <3>3. QED
      BY <3>1, <3>2 DEF Backed
  <2>3. QED
    BY <2>2 DEF SessionsBacked
<1>9. GrantsBacked'
  <2>1. ASSUME NEW j \in RequestId, call[j] # Null, call[j].grant # Null,
               call[j].owner \in LeaseDevice
        PROVE  LET l == call[j].grant IN Backed(call[j].owner, l)
    BY <2>1 DEF ClusterInv, GrantsBacked
  <2>2. ASSUME NEW j \in RequestId, call[j] # Null, NEW d \in LeaseDevice, d = call[j].owner,
               NEW l, l = call[j].grant, l # Null
        PROVE  Backed(d, l)'
    <3>1. l \in Lease
      BY <2>2 DEF ClusterInv, ClusterTypeOK, Call
    <3>2. QED
      BY <1>4, <2>1, <2>2, <3>1
  <2>3. ASSUME NEW j \in RequestId, call'[j] # Null
        PROVE  /\ call'[j].step = "granted" /\ call'[j].op # "release" => call'[j].grant # Null
               /\ call'[j].grant # Null /\ call'[j].owner \in LeaseDevice =>
                     Backed(call[j].owner, call[j].grant)'
    <3>1. CASE j # i
      <4>1. call'[j] = call[j] /\ call[j] # Null
        BY <1>2, <2>3, <3>1, Zenon
      <4>2. call[j].step = "granted" /\ call[j].op # "release" => call[j].grant # Null
        BY <4>1 DEF ClusterInv, GrantsBacked
      <4>3. ASSUME call[j].grant # Null, NEW d \in LeaseDevice, d = call[j].owner
            PROVE  Backed(call[j].owner, call[j].grant)'
        <5>1. PICK l : l = call[j].grant
          OBVIOUS
        <5>2. Backed(d, l)'
          BY <2>2, <4>1, <4>3, <5>1
        <5>3. QED
          BY <4>1, <4>3, <5>1, <5>2, Zenon DEF Backed
      <4>4. QED
        BY <4>1, <4>2, <4>3
    <3>2. CASE j = i /\ Weaker(call[i], call'[i])
      <4>1. /\ call'[i].owner = call[i].owner /\ call'[i].grant \in {call[i].grant, Null}
            /\ call'[i].step = "granted" /\ call'[i].op # "release" =>
                  call[i].step = "granted" /\ call[i].op # "release" /\ call'[i].grant = call[i].grant
        BY <3>2, Zenon DEF Weaker
      <4>2. call'[i].step = "granted" /\ call'[i].op # "release" => call'[i].grant # Null
        BY <4>1, Zenon DEF ClusterInv, GrantsBacked
      <4>3. ASSUME call'[i].grant # Null, NEW d \in LeaseDevice, d = call'[i].owner
            PROVE  Backed(call[i].owner, call[i].grant)'
        <5>1. PICK l : l = call[i].grant /\ l # Null /\ l = call'[i].grant
          BY <4>1, <4>3
        <5>2. Backed(d, l)'
          BY <2>2, <4>1, <4>3, <5>1, Zenon
        <5>3. QED
          BY <4>3, <5>1, <5>2, Zenon DEF Backed
      <4>4. QED
        BY <3>2, <4>2, <4>3
    <3>3. CASE j = i /\ call'[i].grant = lease /\ call'[i].owner = o
      BY <1>5, <1>7, <3>3 DEF Backed
    <3>4. QED
      BY <1>2, <2>3, <3>1, <3>2, <3>3, Zenon
  <2>4. QED
    BY <2>3 DEF GrantsBacked
<1>10. RenewalsFit'
  <2>1. ASSUME NEW s \in SessionId, sessions[s] # Null
        PROVE  sessions[s].ip # Null
    BY <2>1, NullFacts DEF ClusterInv, ClusterTypeOK, Session
  <2>2. \A j \in RequestId : call'[j] # Null => j = i \/ call'[j] = call[j]
    BY <1>2, Zenon
  <2>3. CASE call'[i] = Null \/ Weaker(call[i], call'[i])
    BY <2>2, <2>3 DEF ClusterInv, RenewalsFit, Weaker
  <2>4. CASE /\ call'[i].op = call[i].op /\ call'[i].server = call[i].server
             /\ call'[i].owner = o /\ call'[i].by = call[i].by
             /\ call'[i].step = "granted" /\ call'[i].grant = lease
    <3>1. ASSUME call[i].op = "renew", call[i].by # Null
          PROVE  /\ call[i].by \in SessionId /\ sessions[call[i].by] # Null
                 /\ sessions[call[i].by].server = call[i].server
                 /\ sessions[call[i].by].device = o
                 /\ lease.ip = sessions[call[i].by].ip
      BY <1>1, <1>3, <2>1, <3>1, Zenon DEF ClusterInv, RenewalsFit
    <3>2. QED
      BY <2>2, <2>4, <3>1, ZenonT(40) DEF ClusterInv, RenewalsFit
  <2>5. QED
    BY <1>2, <2>3, <2>4, Zenon
<1>11. PassesFit'
  <2>1. \A j \in RequestId : Reconciles(j)' =>
          Reconciles(j) /\ call'[j].by = call[j].by /\ call'[j].server = call[j].server
    BY <1>2, Zenon DEF Weaker, Reconciles
  <2>2. QED
    BY <2>1, Zenon DEF ClusterInv, PassesFit
<1>12. QED
  BY <1>6, <1>8, <1>9, <1>10, <1>11

-----------------------------------------------------------------------------
(* Steps that only weaken requests, and the initial states *)

\* What every step owes, apart from the request that it may change.
LEMMA WeakStep ==
    ASSUME ClusterInv, CallsWeaken, DevicesKept
    PROVE  OwnersFit' /\ GrantsBacked' /\ call' \in [RequestId -> Call \cup {Null}]
<1>1. OwnersFit'
  BY OwnersKept DEF ClusterInv, CallStep
<1>2. GrantsBacked'
  BY GrantsKept DEF ClusterInv
<1>3. QED
  BY <1>1, <1>2 DEF CallsWeaken

LEMMA Quiet ==
    ASSUME ClusterInv, CallsWeaken, UNCHANGED <<cluster_leases, memberVars, sessions, granted>>
    PROVE  ClusterInv'
<1>1. DevicesKept /\ \A s \in SessionId : SessionStays(s)
  BY DEF DevicesKept, SessionStays
<1>2. \A k \in PassId : PassStays(k)
  BY DEF PassStays, memberVars
<1>3. OwnersFit' /\ GrantsBacked' /\ call' \in [RequestId -> Call \cup {Null}]
  BY <1>1, WeakStep
<1>4. SessionsBacked'
  BY <1>1, SessionsKept DEF ClusterInv
<1>5. RenewalsFit' /\ PassesFit'
  BY <1>1, <1>2, RenewalsKept, PassesKept DEF ClusterInv
<1>6. ClusterTypeOK' /\ ClusterExclusive'
  BY <1>3, Zenon DEF ClusterInv, ClusterTypeOK, ClusterExclusive, Holds, memberVars
<1>7. QED
  BY <1>3, <1>4, <1>5, <1>6 DEF ClusterInv

LEMMA Initial ==
    ASSUME ClusterInit
    PROVE  ClusterInv
<1>1. ClusterTypeOK /\ ClusterExclusive
  BY DEF ClusterInit, ClusterTypeOK, ClusterExclusive, Holds
<1>2. OwnersFit /\ GrantsBacked /\ SessionsBacked /\ RenewalsFit /\ PassesFit
  BY DEF ClusterInit, OwnersFit, GrantsBacked, SessionsBacked, RenewalsFit, PassesFit, Reconciles
<1>3. QED
  BY <1>1, <1>2 DEF ClusterInv

-----------------------------------------------------------------------------
(* Sending *)

LEMMA SendKeepsInv ==
    ASSUME ClusterInv, NEW i \in RequestId, NEW c \in Call, Sends(i, c),
           UNCHANGED <<cluster_leases, memberVars, sessions, granted>>,
           c.op # "reconcile",
           c.op = "renew" /\ c.by # Null =>
               /\ c.by \in SessionId /\ sessions[c.by] # Null
               /\ sessions[c.by].server = c.server /\ sessions[c.by].device = c.owner
               /\ c.requested = sessions[c.by].ip
    PROVE  ClusterInv'
<1>1. GrantsBacked' /\ SessionsBacked' /\ RenewalsFit'
  BY SendKeeps
<1>2. PassesFit'
  BY SendKeepsPasses DEF memberVars
<1>3. OwnersFit'
  BY OwnersKept, Zenon DEF ClusterInv, CallStep
<1>4. ClusterTypeOK' /\ ClusterExclusive'
  BY Zenon DEF ClusterInv, ClusterTypeOK, ClusterExclusive, Holds, memberVars, Sends
<1>5. QED
  BY <1>1, <1>2, <1>3, <1>4 DEF ClusterInv

LEMMA RegisterAtKeeps ==
    ASSUME ClusterInv, NEW i \in RequestId, NEW v \in Server, NEW d \in LeaseDevice,
           NEW r \in LeaseIp \cup {Null}, RegisterAt(i, v, d, r)
    PROVE  ClusterInv'
<1> DEFINE c == [op |-> "register", server |-> v, owner |-> d, by |-> Null, step |-> FirstStep(v),
                 waiting |-> TRUE, requested |-> r, grant |-> Null]
<1>1. Sends(i, c)
  BY SendSends DEF RegisterAt, Op, LeaseOwner
<1>2. c \in Call /\ c.op = "register"
  BY <1>1, Zenon DEF Sends
<1> HIDE DEF c
<1>3. QED
  BY <1>1, <1>2, SendKeepsInv DEF RegisterAt

LEMMA ReserveKeeps ==
    ASSUME ClusterInv, NEW i \in RequestId, NEW v \in Server, NEW p \in LeasePeer,
           NEW r \in LeaseIp \cup {Null}, Reserve(i, v, p, r)
    PROVE  ClusterInv'
<1> DEFINE c == [op |-> "reserve", server |-> v, owner |-> p, by |-> Null, step |-> FirstStep(v),
                 waiting |-> TRUE, requested |-> r, grant |-> Null]
<1>1. Sends(i, c)
  BY SendSends, Zenon DEF Reserve, Op, LeaseOwner
<1>2. c \in Call /\ c.op = "reserve"
  BY <1>1, Zenon DEF Sends
<1> HIDE DEF c
<1>3. QED
  BY <1>1, <1>2, SendKeepsInv, Zenon DEF Reserve

LEMMA ReleaseKeeps ==
    ASSUME ClusterInv, NEW i \in RequestId, NEW v \in Server, NEW p \in LeasePeer, Release(i, v, p)
    PROVE  ClusterInv'
<1> DEFINE c == [op |-> "release", server |-> v, owner |-> p, by |-> Null, step |-> FirstStep(v),
                 waiting |-> TRUE, requested |-> Null, grant |-> Null]
<1>1. Sends(i, c)
  BY SendSends, Zenon DEF Release, Op, LeaseOwner
<1>2. c \in Call /\ c.op = "release"
  BY <1>1, Zenon DEF Sends
<1> HIDE DEF c
<1>3. QED
  BY <1>1, <1>2, SendKeepsInv, Zenon DEF Release

LEMMA RenewKeeps ==
    ASSUME ClusterInv, NEW i \in RequestId, NEW s \in SessionId, Renew(i, s)
    PROVE  ClusterInv'
<1> DEFINE c == [op |-> "renew", server |-> sessions[s].server, owner |-> sessions[s].device,
                 by |-> s, step |-> FirstStep(sessions[s].server), waiting |-> TRUE,
                 requested |-> sessions[s].ip, grant |-> Null]
<1>1. sessions[s] # Null /\ sessions[s] \in Session
  BY DEF Renew, AwaitsTick, ClusterInv, ClusterTypeOK
<1>2. Sends(i, c)
  BY <1>1, SendSends, Zenon DEF Renew, Op, LeaseOwner, Session
<1>3. c \in Call /\ c.op = "renew" /\ c.by = s /\ c.server = sessions[s].server
      /\ c.owner = sessions[s].device /\ c.requested = sessions[s].ip
  BY <1>2, Zenon DEF Sends
<1> HIDE DEF c
<1>4. QED
  BY <1>1, <1>2, <1>3, SendKeepsInv, Zenon DEF Renew

LEMMA ReconcileKeeps ==
    ASSUME ClusterInv, NEW i \in RequestId, NEW k \in PassId, NEW o \in LeaseOwner,
           NEW ip \in LeaseIp, Reconcile(i, k, o, ip)
    PROVE  ClusterInv'
<1> DEFINE c == [op |-> "reconcile", server |-> pass[k].server, owner |-> o, by |-> k,
                 step |-> FirstStep(pass[k].server), waiting |-> TRUE, requested |-> ip,
                 grant |-> Null]
<1>1. pass[k] # Null /\ pass[k] \in Pass /\ pass' = [pass EXCEPT ![k].asking = TRUE]
      /\ UNCHANGED <<cluster_leases, granted, sessions, link, cluster_ready>>
  BY DEF Reconcile, ClusterInv, ClusterTypeOK
<1>2. Sends(i, c)
  BY <1>1, SendSends DEF Reconcile, Op, Pass, Server
<1>3. c \in Call /\ c.op = "reconcile" /\ c.by = k /\ c.server = pass[k].server
  BY <1>2, Zenon DEF Sends
<1> HIDE DEF c
<1>4. PassesFit'
  BY <1>1, <1>2, <1>3, ReconcileKeepsPasses, Zenon DEF Reconcile
<1>5. GrantsBacked' /\ SessionsBacked' /\ RenewalsFit'
  BY <1>1, <1>2, <1>3, SendKeeps
<1>6. OwnersFit'
  BY <1>2, <1>3, OwnersKept DEF ClusterInv, CallStep
<1>7. pass' \in [PassId -> Pass \cup {Null}]
  BY <1>1, Zenon DEF ClusterInv, ClusterTypeOK, Pass
<1>8. ClusterTypeOK' /\ ClusterExclusive'
  BY <1>1, <1>2, <1>7 DEF ClusterInv, ClusterTypeOK, ClusterExclusive, Holds, Sends
<1>9. QED
  BY <1>4, <1>5, <1>6, <1>8 DEF ClusterInv

\* A request that finds room says what it said.
LEMMA FindsRoomKeeps ==
    ASSUME ClusterInv, NEW i \in RequestId, FindsRoom(i)
    PROVE  ClusterInv'
<1>1. /\ call[i] # Null /\ call[i] \in Call /\ call[i].step = "room"
      /\ call' = [call EXCEPT ![i] = [call[i] EXCEPT !.step = "sent"]]
      /\ UNCHANGED <<cluster_leases, memberVars, sessions, granted>>
  BY DEF FindsRoom, ClusterInv, ClusterTypeOK
<1>2. PICK w : w = [call[i] EXCEPT !.step = "sent"]
  OBVIOUS
<1>3. w \in Call /\ Weaker(call[i], w)
  BY <1>1, <1>2, Zenon DEF Call, Weaker
<1>4. CallsWeaken
  <2>1. \A j \in RequestId : call[j] # Null => Weaker(call[j], call[j])
    BY DEF Weaker
  <2>2. QED
    BY <1>1, <1>2, <1>3, <2>1 DEF CallsWeaken, ClusterInv, ClusterTypeOK
<1>5. QED
  BY <1>1, <1>4, Quiet DEF ClusterInv

-----------------------------------------------------------------------------
(* The authority *)

LEMMA ServeKeeps ==
    ASSUME ClusterInv, NEW i \in RequestId, Serve(i)
    PROVE  ClusterInv'
<1>1. /\ call[i] # Null /\ call[i].step \in {"sent", "stale"} /\ call[i] \in Call
      /\ UNCHANGED <<memberVars, sessions>>
  BY DEF Serve, ClusterInv, ClusterTypeOK
<1>2. CASE Grant(i, call[i].owner)
  <2>1. Grants(i)
    BY <1>1, <1>2, GrantGrants DEF ClusterInv
  <2>2. GrantsBacked' /\ SessionsBacked' /\ RenewalsFit' /\ PassesFit' /\ ClusterExclusive'
    BY <1>1, <2>1, GrantKeeps DEF memberVars
  <2>3. OwnersFit'
    BY <1>1, <2>1, OwnersKept DEF ClusterInv, CallStep
  <2>4. PICK o \in LeaseOwner : o = call[i].owner
    BY <1>1 DEF Call
  <2>5. PICK ip, lease :
          /\ ip \in Candidates(o, call[i].requested)
          /\ lease = [ip |-> ip, left |-> Lifetime(o)]
          /\ PersistLease(o, lease)
          /\ call' \in [RequestId -> Call \cup {Null}]
    BY <2>1, <2>4, Zenon DEF Grants
  <2>6. lease \in Lease /\ lease.ip = ip /\ ip \in LeaseIp
    BY <2>5, GrantTables DEF ClusterInv
  <2>7. /\ cluster_leases' \in [LeaseOwner -> Lease \cup {Null}]
        /\ granted' \in [LeaseDevice -> LeaseIp \cup {Null}]
    BY <2>5, <2>6, Zenon DEF PersistLease, ClusterInv, ClusterTypeOK
  <2>8. ClusterTypeOK'
    BY <1>1, <2>5, <2>7 DEF ClusterInv, ClusterTypeOK, memberVars
  <2>9. QED
    BY <2>2, <2>3, <2>8 DEF ClusterInv
<1>3. CASE /\ call[i].op = "release"
           /\ cluster_leases' = [cluster_leases EXCEPT ![call[i].owner] = Null]
           /\ Answer(i, "granted", Null)
           /\ UNCHANGED granted
  <2>1. CallsWeaken
    BY <1>1, <1>3, AnswerWeakens DEF ClusterInv
  <2>2. PICK o \in LeasePeer : o = call[i].owner
    BY <1>1, <1>3 DEF ClusterInv, OwnersFit
  <2>3. DevicesKept
    BY <1>3, <2>2, NullFacts DEF DevicesKept, ClusterInv, ClusterTypeOK, LeaseOwner
  <2>4. OwnersFit' /\ GrantsBacked' /\ call' \in [RequestId -> Call \cup {Null}]
    BY <2>1, <2>3, WeakStep
  <2>5. SessionsBacked'
    BY <1>1, <2>3, SessionsKept DEF ClusterInv
  <2>6. RenewalsFit'
    BY <1>1, <2>1, RenewalsKept DEF ClusterInv, SessionStays
  <2>7. PassesFit'
    BY <1>1, <2>1, PassesKept DEF ClusterInv, PassStays, memberVars
  <2>8. ClusterTypeOK' /\ ClusterExclusive'
    BY <1>1, <1>3, <2>2, <2>4, Zenon
    DEF ClusterInv, ClusterTypeOK, ClusterExclusive, Holds, memberVars, LeaseOwner
  <2>9. QED
    BY <2>4, <2>5, <2>6, <2>7, <2>8 DEF ClusterInv
<1>4. CASE Answer(i, "refused", Null) /\ UNCHANGED <<cluster_leases, granted>>
  <2>1. CallsWeaken
    BY <1>1, <1>4, AnswerWeakens DEF ClusterInv
  <2>2. QED
    BY <1>1, <1>4, <2>1, Quiet
<1>5. QED
  BY <1>2, <1>3, <1>4 DEF Serve

-----------------------------------------------------------------------------
(* Time *)

LEMMA AgedLeaseFacts ==
    /\ AgedLease(Null) = Null
    /\ \A l \in Lease : /\ AgedLease(l) \in Lease
                        /\ AgedLease(l).ip = l.ip /\ AgedLease(l).left = Aged(l.left)
    /\ \A x \in Session : /\ AgedLease(x) \in Session
                          /\ AgedLease(x).server = x.server /\ AgedLease(x).device = x.device
                          /\ AgedLease(x).ip = x.ip /\ AgedLease(x).left = Aged(x.left)
<1>1. \A l \in Lease : /\ AgedLease(l) \in Lease
                       /\ AgedLease(l).ip = l.ip /\ AgedLease(l).left = Aged(l.left)
  BY AgedFacts, NullFacts DEF AgedLease, Lease
<1>2. \A x \in Session : /\ AgedLease(x) \in Session
                         /\ AgedLease(x).server = x.server /\ AgedLease(x).device = x.device
                         /\ AgedLease(x).ip = x.ip /\ AgedLease(x).left = Aged(x.left)
  BY AgedFacts, NullFacts DEF AgedLease, Session
<1>3. QED
  BY <1>1, <1>2 DEF AgedLease

\* Leases and what is known of them age together.
LEMMA TickKeepsBacked ==
    ASSUME ClusterTypeOK, Tick, NEW d \in LeaseDevice, NEW l, l.left \in Left, Backed(d, l),
           NEW m, m.ip = l.ip, m.left = Aged(l.left)
    PROVE  Backed(d, m)'
<1>1. m.left <= Duration
  <2>1. l.left \in Nat /\ m.left \in Nat /\ m.left <= l.left /\ l.left <= Duration
    BY AgedFacts, Zenon DEF Backed
  <2>2. QED
    BY <2>1, ClusterConstants
<1>2. ASSUME m.left # 0, granted[d] = m.ip
      PROVE  /\ cluster_leases'[d] # Null
             /\ cluster_leases'[d].ip = m.ip
             /\ cluster_leases'[d].left >= m.left
  <2>1. /\ cluster_leases[d] # Null /\ cluster_leases[d].ip = l.ip
        /\ cluster_leases[d].left >= l.left
    BY <1>2, AgedFacts, Zenon DEF Backed
  <2>2. cluster_leases[d] \in Lease /\ cluster_leases'[d] = AgedLease(cluster_leases[d])
    BY <2>1 DEF ClusterTypeOK, Tick, LeaseOwner
  <2>3. cluster_leases[d].left \in Left
    BY <2>2 DEF Lease
  <2>4. Aged(cluster_leases[d].left) >= Aged(l.left)
    BY <2>1, <2>3, AgedFacts
  <2>5. QED
    BY <2>1, <2>2, <2>4, AgedLeaseFacts, NullFacts, Zenon
<1>3. QED
  BY <1>1, <1>2 DEF Backed, Tick

LEMMA TickKeeps ==
    ASSUME ClusterInv, Tick
    PROVE  ClusterInv'
<1>1. ASSUME NEW i \in RequestId, call[i] # Null
      PROVE  /\ call[i] \in Call /\ call'[i] \in Call
             /\ call'[i].op = call[i].op /\ call'[i].server = call[i].server
             /\ call'[i].owner = call[i].owner /\ call'[i].by = call[i].by
             /\ call'[i].step = call[i].step /\ call'[i].waiting = call[i].waiting
             /\ call'[i].requested = call[i].requested
             /\ call'[i].grant = AgedLease(call[i].grant)
  <2>1. call[i] \in Call
    BY <1>1 DEF ClusterInv, ClusterTypeOK
  <2>2. AgedLease(call[i].grant) \in Lease \cup {Null}
    BY <2>1, AgedLeaseFacts, Zenon DEF Call
  <2>3. call'[i] = [call[i] EXCEPT !.grant = AgedLease(call[i].grant)]
    BY <1>1, <2>1 DEF Tick
  <2>4. QED
    BY <2>1, <2>2, <2>3 DEF Call
<1>2. \A i \in RequestId : call[i] = Null => call'[i] = Null
  BY DEF Tick
<1>3. call' \in [RequestId -> Call \cup {Null}]
  <2>1. \A i \in RequestId : call'[i] \in Call \cup {Null}
    BY <1>1, <1>2
  <2>2. QED
    BY <2>1, Zenon DEF Tick
<1>4. /\ \A o \in LeaseOwner : cluster_leases'[o] = AgedLease(cluster_leases[o])
      /\ \A s \in SessionId : sessions'[s] = AgedLease(sessions[s])
      /\ UNCHANGED <<memberVars, granted>>
  BY DEF Tick
<1>5. ClusterTypeOK'
  <2>1. cluster_leases' \in [LeaseOwner -> Lease \cup {Null}]
    BY AgedLeaseFacts DEF Tick, ClusterInv, ClusterTypeOK
  <2>2. sessions' \in [SessionId -> Session \cup {Null}]
    BY AgedLeaseFacts DEF Tick, ClusterInv, ClusterTypeOK
  <2>3. QED
    BY <1>3, <1>4, <2>1, <2>2 DEF ClusterInv, ClusterTypeOK, memberVars
<1>6. ClusterExclusive'
  <2>1. ASSUME NEW o \in LeaseOwner, Holds(o)'
        PROVE  Holds(o) /\ cluster_leases'[o].ip = cluster_leases[o].ip
    <3>1. cluster_leases[o] \in Lease
      BY <1>4, <2>1, AgedLeaseFacts, Zenon DEF Holds, ClusterInv, ClusterTypeOK
    <3>2. QED
      BY <1>4, <2>1, <3>1, AgedLeaseFacts, AgedFacts, NullFacts DEF Holds, Lease
  <2>2. QED
    BY <2>1 DEF ClusterInv, ClusterExclusive
<1>7. OwnersFit'
  BY OwnersKept DEF ClusterInv, CallStep
<1>8. GrantsBacked'
  <2>1. ASSUME NEW i \in RequestId, call'[i] # Null, call'[i].grant # Null,
               NEW d \in LeaseDevice, d = call'[i].owner, NEW m, m = call'[i].grant
        PROVE  Backed(d, m)'
    <3>1. call[i] # Null /\ call[i].grant # Null
      BY <1>1, <1>2, <2>1, AgedLeaseFacts, Zenon
    <3>2. PICK l \in Lease : l = call[i].grant
      BY <1>1, <3>1, Zenon DEF Call
    <3>3. Backed(d, l) /\ l.left \in Left
      BY <1>1, <2>1, <3>1, <3>2, Zenon DEF ClusterInv, GrantsBacked, Lease
    <3>4. m.ip = l.ip /\ m.left = Aged(l.left)
      BY <1>1, <2>1, <3>1, <3>2, AgedLeaseFacts, Zenon
    <3>5. QED
      BY <3>3, <3>4, TickKeepsBacked, Zenon DEF ClusterInv
  <2>2. ASSUME NEW i \in RequestId, call'[i] # Null
        PROVE  call'[i].step = "granted" /\ call'[i].op # "release" => call'[i].grant # Null
    <3>1. call[i] # Null
      BY <1>2, <2>2
    <3>2. call[i].grant # Null => call'[i].grant # Null
      BY <1>1, <3>1, AgedLeaseFacts, NullFacts DEF Call
    <3>3. QED
      BY <1>1, <3>1, <3>2 DEF ClusterInv, GrantsBacked
  <2>3. QED
    BY <2>1, <2>2, Zenon DEF GrantsBacked, Backed
<1>9. SessionsBacked'
  <2>1. ASSUME NEW s \in SessionId, sessions'[s] # Null, NEW d, d = sessions'[s].device,
               NEW m, m = sessions'[s]
        PROVE  Backed(d, m)'
    <3>1. PICK x \in Session : x = sessions[s] /\ x # Null
      BY <1>4, <2>1, AgedLeaseFacts DEF ClusterInv, ClusterTypeOK
    <3>2. d = x.device /\ m.ip = x.ip /\ m.left = Aged(x.left)
      BY <1>4, <2>1, <3>1, AgedLeaseFacts
    <3>3. Backed(x.device, x) /\ x.left \in Left /\ x.device \in LeaseDevice
      BY <3>1 DEF ClusterInv, SessionsBacked, Session
    <3>4. QED
      BY <3>2, <3>3, TickKeepsBacked DEF ClusterInv
  <2>2. QED
    BY <2>1, Zenon DEF SessionsBacked, Backed
<1>10. RenewalsFit'
  <2>1. ASSUME NEW s \in SessionId, sessions[s] # Null
        PROVE  /\ sessions'[s] # Null /\ sessions'[s].server = sessions[s].server
               /\ sessions'[s].device = sessions[s].device /\ sessions'[s].ip = sessions[s].ip
    BY <1>4, <2>1, AgedLeaseFacts, NullFacts DEF ClusterInv, ClusterTypeOK
  <2>2. ASSUME NEW i \in RequestId, call[i] # Null, call'[i].grant # Null
        PROVE  call[i].grant # Null /\ call'[i].grant.ip = call[i].grant.ip
    BY <1>1, <2>2, AgedLeaseFacts, Zenon DEF Call
  <2>3. ASSUME NEW i \in RequestId, call'[i] # Null, call'[i].op = "renew", call'[i].by # Null,
               NEW s, s = call'[i].by
        PROVE  /\ s \in SessionId
               /\ sessions'[s] # Null
               /\ sessions'[s].server = call'[i].server
               /\ sessions'[s].device = call'[i].owner
               /\ call'[i].step \in {"room", "sent", "stale"} => call'[i].requested = sessions'[s].ip
               /\ call'[i].grant # Null => call'[i].grant.ip = sessions'[s].ip
    <3>1. call[i] # Null /\ call[i].op = "renew" /\ call[i].by = s /\ s # Null
      BY <1>1, <1>2, <2>3
    <3>2. /\ s \in SessionId /\ sessions[s] # Null
          /\ sessions[s].server = call[i].server /\ sessions[s].device = call[i].owner
          /\ call[i].step \in {"room", "sent", "stale"} => call[i].requested = sessions[s].ip
          /\ call[i].grant # Null => call[i].grant.ip = sessions[s].ip
      BY <3>1, Zenon DEF ClusterInv, RenewalsFit
    <3>3. QED
      BY <1>1, <2>1, <2>2, <3>1, <3>2, Zenon
  <2>4. QED
    BY <2>3 DEF RenewalsFit
<1>11. PassesFit'
  BY <1>1, <1>2, <1>4 DEF ClusterInv, PassesFit, Reconciles, memberVars
<1>12. QED
  BY <1>5, <1>6, <1>7, <1>8, <1>9, <1>10, <1>11 DEF ClusterInv

-----------------------------------------------------------------------------
(* The ends of requests, and sessions *)

LEMMA ReturnKeeps ==
    ASSUME ClusterInv, NEW i \in RequestId, RegisterFails(i) \/ ReserveReturns(i) \/ ReleaseReturns(i)
    PROVE  ClusterInv'
<1>1. /\ call[i] # Null /\ Forget(i)
      /\ UNCHANGED <<cluster_leases, memberVars, sessions, granted>>
  BY DEF RegisterFails, ReserveReturns, ReleaseReturns, Granted, Failed
<1>2. QED
  BY <1>1, ForgetWeakens, Quiet DEF ClusterInv

\* A step that changes sessions, and requests at most by weakening them.
LEMMA SessionStep ==
    ASSUME ClusterInv, CallsWeaken, UNCHANGED <<cluster_leases, memberVars, granted>>,
           sessions' \in [SessionId -> Session \cup {Null}],
           SessionsBacked', \A s \in SessionId : SessionStays(s)
    PROVE  ClusterInv'
<1>1. DevicesKept
  BY DEF DevicesKept
<1>2. \A k \in PassId : PassStays(k)
  BY DEF PassStays, memberVars
<1>3. OwnersFit' /\ GrantsBacked' /\ call' \in [RequestId -> Call \cup {Null}]
  BY <1>1, WeakStep
<1>4. RenewalsFit' /\ PassesFit'
  BY <1>2, RenewalsKept, PassesKept DEF ClusterInv
<1>5. ClusterTypeOK' /\ ClusterExclusive'
  BY <1>3 DEF ClusterInv, ClusterTypeOK, ClusterExclusive, Holds, memberVars
<1>6. QED
  BY <1>3, <1>4, <1>5 DEF ClusterInv

LEMMA RegisterGrantedKeeps ==
    ASSUME ClusterInv, NEW i \in RequestId, NEW s \in SessionId, RegisterGranted(i, s)
    PROVE  ClusterInv'
<1>1. /\ call[i] # Null /\ call[i] \in Call /\ Forget(i)
      /\ call[i].op = "register" /\ call[i].step = "granted" /\ sessions[s] = Null
      /\ UNCHANGED <<cluster_leases, memberVars, granted>>
  BY DEF RegisterGranted, Granted, ClusterInv, ClusterTypeOK
<1>2. PICK d \in LeaseDevice, l \in Lease : d = call[i].owner /\ l = call[i].grant /\ Backed(d, l)
  BY <1>1, Zenon DEF ClusterInv, OwnersFit, GrantsBacked, Call
<1>3. PICK x : x = [server |-> call[i].server, device |-> d, ip |-> l.ip, left |-> l.left,
                    valid |-> TRUE]
  BY Zenon
<1>4. x \in Session /\ x.device = d /\ x.ip = l.ip /\ x.left = l.left
  BY <1>1, <1>2, <1>3, Zenon DEF Session, Call, Lease
<1>5. sessions' = [sessions EXCEPT ![s] = x]
  BY <1>2, <1>3 DEF RegisterGranted
<1>6. sessions' \in [SessionId -> Session \cup {Null}]
  BY <1>4, <1>5 DEF ClusterInv, ClusterTypeOK
<1>7. \A q \in SessionId : sessions'[q] = IF q = s THEN x ELSE sessions[q]
  BY <1>5 DEF ClusterInv, ClusterTypeOK
<1>8. SessionsBacked'
  BY <1>1, <1>2, <1>4, <1>7, ZenonT(40) DEF ClusterInv, SessionsBacked, Backed
<1>9. \A q \in SessionId : SessionStays(q)
  BY <1>1, <1>7, Zenon DEF SessionStays
<1>10. CallsWeaken
  BY <1>1, ForgetWeakens DEF ClusterInv
<1>11. QED
  BY <1>1, <1>6, <1>8, <1>9, <1>10, SessionStep, Zenon

LEMMA RenewGrantedKeeps ==
    ASSUME ClusterInv, NEW i \in RequestId, RenewGranted(i)
    PROVE  ClusterInv'
<1>1. /\ call[i] # Null /\ call[i] \in Call /\ Forget(i)
      /\ call[i].op = "renew" /\ call[i].step = "granted"
      /\ UNCHANGED <<cluster_leases, memberVars, granted>>
  BY DEF RenewGranted, Granted, ClusterInv, ClusterTypeOK
<1>2. CallsWeaken
  BY <1>1, ForgetWeakens DEF ClusterInv
<1>3. CASE call[i].by = Null
  BY <1>1, <1>2, <1>3, Quiet DEF RenewGranted
<1>4. CASE call[i].by # Null
  <2>1. PICK s \in SessionId : /\ s = call[i].by /\ sessions[s] # Null
                               /\ sessions[s].device = call[i].owner
                               /\ call[i].grant # Null => call[i].grant.ip = sessions[s].ip
    BY <1>1, <1>4, Zenon DEF ClusterInv, RenewalsFit
  <2>2. PICK d \in LeaseDevice, l \in Lease :
          d = call[i].owner /\ l = call[i].grant /\ l # Null /\ Backed(d, l)
    BY <1>1, Zenon DEF ClusterInv, OwnersFit, GrantsBacked, Call
  <2>3. sessions' = [sessions EXCEPT ![s].left = l.left] /\ l.left \in Left
    BY <1>4, <2>1, <2>2 DEF RenewGranted, Lease
  <2>4. /\ sessions[s] \in Session
        /\ sessions'[s] = [sessions[s] EXCEPT !.left = l.left]
        /\ \A q \in SessionId \ {s} : sessions'[q] = sessions[q]
    BY <2>1, <2>3 DEF ClusterInv, ClusterTypeOK
  <2>5. /\ sessions'[s] \in Session
        /\ sessions'[s].server = sessions[s].server /\ sessions'[s].device = d
        /\ sessions'[s].ip = l.ip /\ sessions'[s].left = l.left
    BY <2>1, <2>2, <2>3, <2>4 DEF Session
  <2>6. sessions' \in [SessionId -> Session \cup {Null}]
    BY <2>3, <2>5 DEF ClusterInv, ClusterTypeOK, Session
  <2>7. \A q \in SessionId \ {s} : sessions'[q] = sessions[q]
    BY <2>4
  <2>8. Backed(sessions[s].device, sessions[s])'
    BY <1>1, <2>2, <2>5, Zenon DEF Backed
  <2>9. \A q \in SessionId \ {s} : sessions[q] # Null => Backed(sessions[q].device, sessions[q])'
    BY <1>1, <2>7, Zenon DEF ClusterInv, SessionsBacked, Backed
  <2>10. SessionsBacked'
    BY <2>7, <2>8, <2>9 DEF SessionsBacked
  <2>11. sessions[s].device = d /\ sessions[s].ip = l.ip /\ sessions'[s] # Null
    BY <2>1, <2>2, <2>5, NullFacts, Zenon
  <2>12. \A q \in SessionId : SessionStays(q)
    BY <2>5, <2>7, <2>11 DEF SessionStays
  <2>13. QED
    BY <1>1, <1>2, <2>6, <2>10, <2>12, SessionStep
<1>5. QED
  BY <1>3, <1>4

LEMMA RenewalFailedKeeps ==
    ASSUME ClusterInv, CallsWeaken, UNCHANGED <<cluster_leases, memberVars, granted>>,
           NEW s \in SessionId \cup {Null}, s # Null => sessions[s] # Null, RenewalFailed(s)
    PROVE  ClusterInv'
<1>1. CASE sessions' = sessions
  BY <1>1, Quiet
<1>2. CASE s # Null /\ sessions' = [sessions EXCEPT ![s].valid = FALSE]
  <2>1. s \in SessionId /\ sessions[s] \in Session /\ sessions[s] # Null
    BY <1>2 DEF ClusterInv, ClusterTypeOK
  <2>2. /\ sessions'[s] = [sessions[s] EXCEPT !.valid = FALSE]
        /\ \A q \in SessionId \ {s} : sessions'[q] = sessions[q]
    BY <1>2, <2>1 DEF ClusterInv, ClusterTypeOK
  <2>3. /\ sessions'[s] \in Session
        /\ sessions'[s].server = sessions[s].server /\ sessions'[s].device = sessions[s].device
        /\ sessions'[s].ip = sessions[s].ip /\ sessions'[s].left = sessions[s].left
    BY <2>1, <2>2, Zenon DEF Session
  <2>4. sessions' \in [SessionId -> Session \cup {Null}]
    BY <1>2, <2>1, <2>3 DEF ClusterInv, ClusterTypeOK, Session
  <2>5. SessionsBacked'
    BY <2>1, <2>2, <2>3, SessionsKept, Zenon DEF ClusterInv, DevicesKept
  <2>6. \A q \in SessionId : SessionStays(q)
    BY <2>2, <2>3, NullFacts, Zenon DEF SessionStays
  <2>7. QED
    BY <2>4, <2>5, <2>6, SessionStep, Zenon
<1>3. QED
  BY <1>1, <1>2 DEF RenewalFailed

LEMMA RenewFailsKeeps ==
    ASSUME ClusterInv, NEW i \in RequestId, RenewFails(i)
    PROVE  ClusterInv'
<1>1. /\ call[i] # Null /\ Forget(i) /\ call[i].op = "renew" /\ RenewalFailed(call[i].by)
      /\ UNCHANGED <<cluster_leases, memberVars, granted>>
  BY DEF RenewFails, Failed
<1>2. CallsWeaken
  BY <1>1, ForgetWeakens, Zenon DEF ClusterInv
<1>3. PICK s \in SessionId \cup {Null} : s = call[i].by /\ (s # Null => sessions[s] # Null)
  BY <1>1, Zenon DEF ClusterInv, RenewalsFit
<1>4. QED
  BY <1>1, <1>2, <1>3, RenewalFailedKeeps, Zenon

LEMMA RenewUnavailableKeeps ==
    ASSUME ClusterInv, NEW s \in SessionId, RenewUnavailable(s)
    PROVE  ClusterInv'
<1>1. CallsWeaken
  BY SameCalls DEF RenewUnavailable, ClusterInv
<1>2. QED
  BY <1>1, RenewalFailedKeeps, NullFacts, Zenon DEF RenewUnavailable, AwaitsTick

LEMMA CloseSessionKeeps ==
    ASSUME ClusterInv, NEW s \in SessionId, CloseSession(s)
    PROVE  ClusterInv'
<1>1. CallsWeaken
  BY CloseSessionWeakens DEF ClusterInv
<1>2. /\ UNCHANGED <<cluster_leases, memberVars, granted>>
      /\ sessions' = [sessions EXCEPT ![s] = Null]
  BY DEF CloseSession
<1>3. DevicesKept /\ \A k \in PassId : PassStays(k)
  BY <1>2 DEF DevicesKept, PassStays, memberVars
<1>4. OwnersFit' /\ GrantsBacked' /\ call' \in [RequestId -> Call \cup {Null}]
  BY <1>1, <1>3, WeakStep
<1>5. PassesFit'
  BY <1>1, <1>3, PassesKept DEF ClusterInv
<1>6. \A q \in SessionId : sessions'[q] = IF q = s THEN Null ELSE sessions[q]
  BY <1>2 DEF ClusterInv, ClusterTypeOK
<1>7. SessionsBacked'
  BY <1>3, <1>6, SessionsKept, Zenon DEF ClusterInv
<1>8. RenewalsFit'
  <2>1. ASSUME NEW i \in RequestId, call'[i] # Null, call'[i].by # Null
        PROVE  call'[i] = call[i] /\ call[i].by # s
    <3>1. call[i] # Null /\ call[i] \in Call
      BY <1>1, <2>1, Zenon DEF CallsWeaken, ClusterInv, ClusterTypeOK
    <3>2. call'[i] = IF call[i].by = s THEN [call[i] EXCEPT !.by = Null] ELSE call[i]
      BY <3>1 DEF CloseSession
    <3>3. QED
      BY <2>1, <3>1, <3>2 DEF Call
  <2>2. QED
    BY <1>6, <2>1 DEF ClusterInv, RenewalsFit
<1>9. ClusterTypeOK' /\ ClusterExclusive'
  BY <1>2, <1>4, Zenon DEF ClusterInv, ClusterTypeOK, ClusterExclusive, Holds, memberVars
<1>10. QED
  BY <1>4, <1>5, <1>7, <1>8, <1>9 DEF ClusterInv

-----------------------------------------------------------------------------
(* Connections, reconciliations and restarts *)

\* A step that changes what a member knows, and requests at most by weakening
\* them.
LEMMA MemberStep ==
    ASSUME ClusterInv, CallsWeaken, UNCHANGED <<cluster_leases, sessions, granted>>,
           link' \in [Member -> BOOLEAN], cluster_ready' \in [Member -> BOOLEAN],
           pass' \in [PassId -> Pass \cup {Null}], PassesFit'
    PROVE  ClusterInv'
<1>1. DevicesKept /\ \A s \in SessionId : SessionStays(s)
  BY DEF DevicesKept, SessionStays
<1>2. OwnersFit' /\ GrantsBacked' /\ call' \in [RequestId -> Call \cup {Null}]
  BY <1>1, WeakStep
<1>3. SessionsBacked' /\ RenewalsFit'
  BY <1>1, SessionsKept, RenewalsKept DEF ClusterInv
<1>4. ClusterTypeOK' /\ ClusterExclusive'
  BY <1>2, Zenon DEF ClusterInv, ClusterTypeOK, ClusterExclusive, Holds
<1>5. QED
  BY <1>2, <1>3, <1>4 DEF ClusterInv

LEMMA DisconnectKeeps ==
    ASSUME ClusterInv, NEW m \in Member, Disconnect(m)
    PROVE  ClusterInv'
<1>1. CallsWeaken
  BY DisconnectWeakens DEF ClusterInv
<1>2. PassesFit'
  BY <1>1, PassesKept, Zenon DEF ClusterInv, PassStays, Disconnect
<1>3. QED
  BY <1>1, <1>2, MemberStep, Zenon DEF Disconnect, ClusterInv, ClusterTypeOK

LEMMA ConnectKeeps ==
    ASSUME ClusterInv, NEW m \in Member, NEW k \in PassId, Connect(m, k)
    PROVE  ClusterInv'
<1>1. CallsWeaken
  BY SameCalls DEF Connect, ClusterInv
<1> DEFINE p == [server |-> m, asking |-> FALSE, conflicts |-> FALSE]
<1>2. p \in Pass
  BY DEF Pass
<1>3. pass' = pass \/ pass' = [pass EXCEPT ![k] = p]
  BY Zenon DEF Connect
<1> HIDE DEF p
<1>4. /\ pass' \in [PassId -> Pass \cup {Null}]
      /\ \A q \in PassId \ {k} : pass'[q] = pass[q]
      /\ pass[k] = Null
  BY <1>2, <1>3, Zenon DEF Connect, ClusterInv, ClusterTypeOK
<1>5. PassesFit'
  BY <1>1, <1>4, PassesKept DEF ClusterInv, PassStays
<1>6. QED
  BY <1>1, <1>4, <1>5, MemberStep, Zenon DEF Connect, ClusterInv, ClusterTypeOK

LEMMA ReconcileUnreachableKeeps ==
    ASSUME ClusterInv, NEW k \in PassId, ReconcileUnreachable(k)
    PROVE  ClusterInv'
<1>1. CallsWeaken
  BY SameCalls DEF ReconcileUnreachable, ClusterInv
<1>2. /\ pass \in [PassId -> Pass \cup {Null}] /\ pass[k] \in Pass
      /\ pass' = [pass EXCEPT ![k].conflicts = TRUE]
  BY DEF ReconcileUnreachable, ClusterInv, ClusterTypeOK
<1>3. /\ pass' \in [PassId -> Pass \cup {Null}] /\ pass'[k] \in Pass
      /\ pass'[k].server = pass[k].server /\ pass'[k].asking = pass[k].asking
      /\ \A q \in PassId \ {k} : pass'[q] = pass[q]
  BY <1>2, Zenon DEF Pass
<1>4. PassesFit'
  BY <1>1, <1>3, PassesKept, NullFacts, Zenon DEF ClusterInv, PassStays
<1>5. QED
  BY <1>1, <1>3, <1>4, MemberStep DEF ReconcileUnreachable, ClusterInv, ClusterTypeOK

LEMMA ReconcileDoneKeeps ==
    ASSUME ClusterInv, NEW k \in PassId, ReconcileDone(k)
    PROVE  ClusterInv'
<1>1. CallsWeaken
  BY SameCalls DEF ReconcileDone, ClusterInv
<1>2. /\ pass[k] \in Pass /\ ~pass[k].asking /\ call' = call
      /\ pass' \in [PassId -> Pass \cup {Null}]
      /\ \A q \in PassId \ {k} : pass'[q] = pass[q]
  BY DEF ReconcileDone, ClusterInv, ClusterTypeOK
<1>3. \A i \in RequestId : Reconciles(i) => call[i].by # k
  BY <1>2, Zenon DEF ClusterInv, PassesFit
<1>4. PassesFit'
  BY <1>2, <1>3, Zenon DEF ClusterInv, PassesFit, Reconciles
<1>5. cluster_ready' \in [Member -> BOOLEAN]
  BY <1>2, Zenon DEF ReconcileDone, ClusterInv, ClusterTypeOK, Pass
<1>6. QED
  BY <1>1, <1>2, <1>4, <1>5, MemberStep, Zenon DEF ReconcileDone, ClusterInv, ClusterTypeOK

LEMMA ReconcileAnswerKeeps ==
    ASSUME ClusterInv, NEW i \in RequestId, ReconcileAnswer(i)
    PROVE  ClusterInv'
<1>1. Reconciles(i) /\ Forget(i) /\ UNCHANGED <<cluster_leases, link, cluster_ready, sessions, granted>>
  BY DEF ReconcileAnswer, Reconciles, Failed, Granted
<1>2. PICK k \in PassId : k = call[i].by /\ pass[k] # Null
  BY <1>1, Zenon DEF ClusterInv, PassesFit
<1>3. PICK failed \in BOOLEAN : pass' = [pass EXCEPT ![k].asking = FALSE,
                                                     ![k].conflicts = @ \/ failed]
  BY <1>2, Zenon DEF ReconcileAnswer
<1>4. pass \in [PassId -> Pass \cup {Null}] /\ pass[k] \in Pass
  BY <1>2 DEF ClusterInv, ClusterTypeOK
<1>5. /\ pass' \in [PassId -> Pass \cup {Null}]
      /\ \A q \in PassId \ {k} : pass'[q] = pass[q]
  BY <1>3, <1>4, Zenon DEF Pass
<1>6. CallsWeaken
  BY <1>1, ForgetWeakens, Zenon DEF ClusterInv, Reconciles
<1>7. ~Reconciles(i)'
  <2>1. call[i] \in Call /\ call[i] # Null
    BY <1>1 DEF Reconciles, ClusterInv, ClusterTypeOK
  <2>2. call'[i] \in {Alone(call[i]), Null}
    BY <1>1 DEF Forget, ClusterInv, ClusterTypeOK
  <2>3. ~Alone(call[i]).waiting
    BY <2>1 DEF Alone, Call
  <2>4. QED
    BY <2>2, <2>3, Zenon DEF Reconciles
<1>8. \A j \in RequestId : Reconciles(j)' =>
          /\ Reconciles(j) /\ call'[j].by = call[j].by /\ call'[j].server = call[j].server
          /\ call[j].by # k
  <2>1. \A j \in RequestId : Reconciles(j)' =>
          Reconciles(j) /\ call'[j].by = call[j].by /\ call'[j].server = call[j].server
    BY <1>6, Zenon DEF CallsWeaken, Weaker, Reconciles
  <2>2. QED
    BY <1>1, <1>2, <1>7, <2>1, Zenon DEF ClusterInv, PassesFit
<1>9. PassesFit'
  BY <1>5, <1>8 DEF ClusterInv, PassesFit
<1>10. QED
  BY <1>1, <1>5, <1>6, <1>9, MemberStep, Zenon DEF ClusterInv, ClusterTypeOK

\* Nobody waits for a request of a server that has gone.
LeftAlone(w) == w # Null => w.by = Null /\ ~w.waiting

LEMMA CutOffAlone ==
    ASSUME NEW c \in Call, NEW i, NEW S
    PROVE  LeftAlone(CutOff(Alone(c), i \in S))
<1>1. Alone(c) \in Call /\ Alone(c).by = Null /\ ~Alone(c).waiting
  BY Zenon DEF Alone, Call
<1>2. CASE i \in S
  BY <1>1, <1>2 DEF LeftAlone, CutOff, Call
<1>3. CASE i \notin S
  BY <1>1, <1>3, Zenon DEF LeftAlone, CutOff
<1>4. QED
  BY <1>2, <1>3, Zenon

LEMMA ServerRestartKeeps ==
    ASSUME ClusterInv, NEW v \in Server, ServerRestart(v)
    PROVE  ClusterInv'
<1>1. CallsWeaken
  BY RestartWeakens DEF ClusterInv
<1>2. /\ link' \in [Member -> BOOLEAN] /\ cluster_ready' \in [Member -> BOOLEAN]
      /\ UNCHANGED <<cluster_leases, granted>>
  BY Zenon DEF ServerRestart
<1>3. /\ sessions' \in [SessionId -> Session \cup {Null}]
      /\ \A s \in SessionId : sessions'[s] = IF sessions[s] # Null /\ sessions[s].server = v
                                             THEN Null ELSE sessions[s]
  BY Zenon DEF ServerRestart, ClusterInv, ClusterTypeOK
<1>4. /\ pass' \in [PassId -> Pass \cup {Null}]
      /\ \A k \in PassId : pass'[k] = IF pass[k] # Null /\ pass[k].server = v
                                      THEN Null ELSE pass[k]
  BY Zenon DEF ServerRestart, ClusterInv, ClusterTypeOK
<1>5. DevicesKept
  BY <1>2 DEF DevicesKept
<1>6. OwnersFit' /\ GrantsBacked' /\ call' \in [RequestId -> Call \cup {Null}]
  BY <1>1, <1>5, WeakStep
<1>7. SessionsBacked'
  BY <1>3, <1>5, SessionsKept DEF ClusterInv
<1>8. ASSUME NEW i \in RequestId, call'[i] # Null
      PROVE  /\ call[i] # Null /\ Weaker(call[i], call'[i])
             /\ call[i].server = v => call'[i].by = Null /\ ~call'[i].waiting
  <2>1. call[i] # Null /\ Weaker(call[i], call'[i]) /\ call[i] \in Call
    BY <1>1, <1>8 DEF CallsWeaken, ClusterInv, ClusterTypeOK
  <2>2. PICK S : call[i].server = v => call'[i] = CutOff(Alone(call[i]), i \in S)
    BY <2>1, Zenon DEF ServerRestart
  <2>3. LeftAlone(CutOff(Alone(call[i]), i \in S))
    BY <2>1, CutOffAlone, Zenon
  <2>4. QED
    BY <1>8, <2>1, <2>2, <2>3, Zenon DEF LeftAlone
<1>9. RenewalsFit'
  <2>1. ASSUME NEW i \in RequestId, call'[i] # Null, call'[i].op = "renew", call'[i].by # Null
        PROVE  /\ call[i] # Null /\ call[i].op = "renew" /\ call[i].by # Null
               /\ call'[i].by = call[i].by /\ call'[i].owner = call[i].owner
               /\ call'[i].server = call[i].server /\ call[i].server # v
               /\ call'[i].step \in {"room", "sent", "stale"} =>
                     call[i].step \in {"room", "sent", "stale"} /\ call'[i].requested = call[i].requested
               /\ call'[i].grant \in {call[i].grant, Null}
    BY <1>8, <2>1, Zenon DEF Weaker
  <2>2. ASSUME NEW s \in SessionId, sessions[s] # Null, sessions[s].server # v
        PROVE  sessions'[s] = sessions[s]
    BY <1>3, <2>2, Zenon
  <2>3. ASSUME NEW i \in RequestId, call'[i] # Null, call'[i].op = "renew", call'[i].by # Null
        PROVE  /\ call[i].by \in SessionId /\ sessions[call[i].by] # Null
               /\ sessions[call[i].by].server = call[i].server
               /\ sessions[call[i].by].device = call[i].owner
               /\ call[i].step \in {"room", "sent", "stale"} => call[i].requested = sessions[call[i].by].ip
               /\ call[i].grant # Null => call[i].grant.ip = sessions[call[i].by].ip
               /\ sessions'[call[i].by] = sessions[call[i].by]
    <3>1. call[i] # Null /\ call[i].op = "renew" /\ call[i].by # Null /\ call[i].server # v
      BY <2>1, <2>3, Zenon
    <3>2. /\ call[i].by \in SessionId /\ sessions[call[i].by] # Null
          /\ sessions[call[i].by].server = call[i].server
          /\ sessions[call[i].by].device = call[i].owner
          /\ call[i].step \in {"room", "sent", "stale"} => call[i].requested = sessions[call[i].by].ip
          /\ call[i].grant # Null => call[i].grant.ip = sessions[call[i].by].ip
      BY <3>1, Zenon DEF ClusterInv, RenewalsFit
    <3>3. sessions'[call[i].by] = sessions[call[i].by]
      BY <2>2, <3>1, <3>2, Zenon
    <3>4. QED
      BY <3>2, <3>3, Zenon
  <2>4. ASSUME NEW i \in RequestId, call'[i] # Null, call'[i].op = "renew", call'[i].by # Null
        PROVE  /\ call'[i].by \in SessionId /\ sessions'[call'[i].by] # Null
               /\ sessions'[call'[i].by].server = call'[i].server
               /\ sessions'[call'[i].by].device = call'[i].owner
               /\ call'[i].step \in {"room", "sent", "stale"} =>
                     call'[i].requested = sessions'[call'[i].by].ip
               /\ call'[i].grant # Null => call'[i].grant.ip = sessions'[call'[i].by].ip
    <3>1. /\ call'[i].by = call[i].by /\ call'[i].owner = call[i].owner
          /\ call'[i].server = call[i].server
          /\ call'[i].step \in {"room", "sent", "stale"} =>
                call[i].step \in {"room", "sent", "stale"} /\ call'[i].requested = call[i].requested
          /\ call'[i].grant \in {call[i].grant, Null}
      BY <2>1, <2>4, Zenon
    <3>2. QED
      BY <2>3, <2>4, <3>1, Zenon
  <2>5. QED
    BY <2>4, Zenon DEF RenewalsFit
<1>10. PassesFit'
  <2>1. \A i \in RequestId : Reconciles(i)' =>
          /\ Reconciles(i) /\ call'[i].by = call[i].by
          /\ call'[i].server = call[i].server /\ call[i].server # v
    BY <1>8, Zenon DEF Weaker, Reconciles
  <2>2. ASSUME NEW i \in RequestId, Reconciles(i)'
        PROVE  /\ call'[i].by \in PassId /\ pass'[call'[i].by] # Null
               /\ pass'[call'[i].by].server = call'[i].server /\ pass'[call'[i].by].asking
    <3>1. /\ call[i].by \in PassId /\ pass[call[i].by] # Null
          /\ pass[call[i].by].server = call[i].server /\ pass[call[i].by].asking
      BY <2>1, <2>2, Zenon DEF ClusterInv, PassesFit
    <3>2. pass'[call[i].by] = pass[call[i].by]
      BY <1>4, <2>1, <2>2, <3>1, Zenon
    <3>3. QED
      BY <2>1, <2>2, <3>1, <3>2, Zenon
  <2>3. \A i, j \in RequestId :
           Reconciles(i)' /\ Reconciles(j)' /\ call'[i].by = call'[j].by => i = j
    BY <2>1, Zenon DEF ClusterInv, PassesFit
  <2>4. QED
    BY <2>2, <2>3, Zenon DEF PassesFit
<1>11. ClusterTypeOK' /\ ClusterExclusive'
  BY <1>2, <1>3, <1>4, <1>6, Zenon DEF ClusterInv, ClusterTypeOK, ClusterExclusive, Holds
<1>12. QED
  BY <1>6, <1>7, <1>9, <1>10, <1>11 DEF ClusterInv

-----------------------------------------------------------------------------
(* The invariant, and what follows from it *)

LEMMA CallReturnsKeeps ==
    ASSUME ClusterInv, NEW i \in RequestId, CallReturns(i)
    PROVE  ClusterInv'
BY ReturnKeeps, RegisterGrantedKeeps, RenewGrantedKeeps, RenewFailsKeeps, ReconcileAnswerKeeps
DEF CallReturns

LEMMA NextKeeps ==
    ASSUME ClusterInv, ClusterNext
    PROVE  ClusterInv'
<1>1. ASSUME NEW i \in RequestId, NEW v \in Server, NEW r \in LeaseIp \cup {Null},
             \/ \E d \in LeaseDevice : RegisterAt(i, v, d, r)
             \/ \E p \in LeasePeer : Reserve(i, v, p, r)
      PROVE  ClusterInv'
  BY <1>1, RegisterAtKeeps, ReserveKeeps
<1>2. ASSUME NEW i \in RequestId, NEW v \in Server, NEW p \in LeasePeer, Release(i, v, p)
      PROVE  ClusterInv'
  BY <1>2, ReleaseKeeps
<1>3. ASSUME NEW i \in RequestId, NEW s \in SessionId, SessionTask(i, s)
      PROVE  ClusterInv'
  BY <1>3, RenewKeeps, RenewUnavailableKeeps DEF SessionTask
<1>4. ASSUME NEW i \in RequestId, NEW k \in PassId, NEW o \in LeaseOwner, NEW ip \in LeaseIp,
             Reconcile(i, k, o, ip)
      PROVE  ClusterInv'
  BY <1>4, ReconcileKeeps
<1>5. ASSUME NEW i \in RequestId, FindsRoom(i) \/ Serve(i) \/ CallReturns(i)
      PROVE  ClusterInv'
  BY <1>5, FindsRoomKeeps, ServeKeeps, CallReturnsKeeps
<1>6. ASSUME NEW s \in SessionId, CloseSession(s)
      PROVE  ClusterInv'
  BY <1>6, CloseSessionKeeps
<1>7. ASSUME NEW m \in Member, Disconnect(m) \/ \E k \in PassId : Connect(m, k)
      PROVE  ClusterInv'
  BY <1>7, DisconnectKeeps, ConnectKeeps
<1>8. ASSUME NEW k \in PassId, ReconcileUnreachable(k) \/ ReconcileDone(k)
      PROVE  ClusterInv'
  BY <1>8, ReconcileUnreachableKeeps, ReconcileDoneKeeps
<1>9. ASSUME NEW v \in Server, ServerRestart(v)
      PROVE  ClusterInv'
  BY <1>9, ServerRestartKeeps
<1>10. QED
  BY <1>1, <1>2, <1>3, <1>4, <1>5, <1>6, <1>7, <1>8, <1>9, TickKeeps, Zenon DEF ClusterNext

\* ClusterInv holds in every state the cluster reaches.
THEOREM ClusterInvHolds == ClusterSpec => []ClusterInv
<1>1. ClusterInv /\ UNCHANGED clusterVars => ClusterInv'
  <2> SUFFICES ASSUME ClusterInv, UNCHANGED clusterVars
               PROVE  ClusterInv'
    OBVIOUS
  <2> QED
    BY SameCalls, Quiet DEF clusterVars, ClusterInv
<1>2. QED
  BY <1>1, Initial, NextKeeps, PTL DEF ClusterSpec

\* Two owners never hold an address at a time, whatever requests are late, lost
\* or served twice, for any number of servers, owners and addresses.
THEOREM ClusterIsExclusive == ClusterSpec => []ClusterExclusive
<1>1. ClusterInv => ClusterExclusive
  BY DEF ClusterInv
<1>2. QED
  BY <1>1, ClusterInvHolds, PTL

\* The time a session thinks it has left is backed by the authority, unless its
\* device has been granted another address since.
THEOREM SessionsAreBacked == ClusterSpec => []LeaseOutlivesSession
<1>1. ClusterInv => LeaseOutlivesSession
  BY Zenon DEF ClusterInv, SessionsBacked, Backed, LeaseOutlivesSession
<1>2. QED
  BY <1>1, ClusterInvHolds, PTL

-----------------------------------------------------------------------------
(* The cluster implements AddressOwnership *)

LEMMA HolderHolds ==
    ASSUME NEW a, Holder(a) # Null
    PROVE  Holder(a) \in LeaseOwner /\ Holds(Holder(a)) /\ cluster_leases[Holder(a)].ip = a
BY DEF Holder

LEMMA HolderUnique ==
    ASSUME ClusterExclusive, NEW o \in LeaseOwner, Holds(o), NEW a, a = cluster_leases[o].ip
    PROVE  Holder(a) = o
<1>1. \E q \in LeaseOwner : Holds(q) /\ cluster_leases[q].ip = a
  OBVIOUS
<1>2. Holder(a) \in LeaseOwner /\ Holds(Holder(a)) /\ cluster_leases[Holder(a)].ip = a
  BY <1>1 DEF Holder
<1>3. QED
  BY <1>2 DEF ClusterExclusive

HolderGivesBack(a) == Holder(a)' \in {Holder(a), Null}

HoldersStep ==
    \/ \A a \in LeaseIp : HolderGivesBack(a)
    \/ \E c \in LeaseIp : /\ Holder(c) = Null
                          /\ Holder(c)' \in LeaseOwner
                          /\ \A a \in LeaseIp \ {c} : HolderGivesBack(a)

LEMMA LeasesOnlyEnd ==
    ASSUME ClusterExclusive,
           \A o \in LeaseOwner : Holds(o)' => Holds(o) /\ cluster_leases'[o].ip = cluster_leases[o].ip
    PROVE  HoldersStep
<1>1. ASSUME NEW a \in LeaseIp, Holder(a)' # Null
      PROVE  Holder(a)' = Holder(a)
  <2>1. PICK o : o = Holder(a)'
    OBVIOUS
  <2>2. o \in LeaseOwner /\ Holds(o)' /\ cluster_leases'[o].ip = a
    BY <1>1, <2>1, Zenon DEF Holder, Holds
  <2>3. QED
    BY <2>1, <2>2, HolderUnique, Zenon
<1>2. QED
  BY <1>1, Zenon DEF HoldersStep, HolderGivesBack

LEMMA GrantHolders ==
    ASSUME ClusterInv, ClusterExclusive', NEW i \in RequestId, call[i] # Null,
           Grant(i, call[i].owner)
    PROVE  HoldersStep
<1>1. PICK o \in LeaseOwner : o = call[i].owner
  BY Zenon DEF ClusterInv, ClusterTypeOK, Call
<1>2. PICK ip, lease :
        /\ ip \in Candidates(o, call[i].requested)
        /\ lease = [ip |-> ip, left |-> Lifetime(o)] /\ PersistLease(o, lease)
  BY <1>1, Zenon DEF Grant
<1>3. /\ lease \in Lease /\ lease.ip = ip /\ lease.left = Lifetime(o)
      /\ ip \in LeaseIp /\ Available(o, ip)
      /\ cluster_leases'[o] = lease
      /\ \A q \in LeaseOwner \ {o} :
            cluster_leases'[q] = IF Holds(q) THEN cluster_leases[q] ELSE Null
  <2>1. ClusterTypeOK
    BY DEF ClusterInv
  <2>2. PICK r : r = call[i].requested
    OBVIOUS
  <2>3. ip \in Candidates(o, r)
    BY <1>2, <2>2
  <2>4. QED
    BY <1>2, <2>1, <2>3, GrantTables
<1>4. Lifetime(o) # 0
  BY AgedFacts, ClusterConstants DEF Lifetime, Forever
<1>5. Holds(o)' /\ cluster_leases'[o].ip = ip
  BY <1>3, <1>4, NullFacts, Zenon DEF Holds
<1>6. Holder(ip)' = o
  <2>1. \E q \in LeaseOwner : Holds(q)' /\ cluster_leases'[q].ip = ip
    BY <1>5
  <2>2. PICK q : q = Holder(ip)'
    OBVIOUS
  <2>3. q \in LeaseOwner /\ Holds(q)' /\ cluster_leases'[q].ip = ip
    BY <2>1, <2>2, Zenon DEF Holder, Holds
  <2>4. QED
    BY <1>5, <2>2, <2>3 DEF ClusterExclusive
<1>7. Holder(ip) \in {o, Null}
  BY <1>3, HolderHolds, Zenon DEF Available
<1>8. ASSUME NEW a \in LeaseIp \ {ip}
      PROVE  HolderGivesBack(a)
  <2>1. SUFFICES ASSUME Holder(a)' # Null
                 PROVE  Holder(a)' = Holder(a)
    BY DEF HolderGivesBack
  <2>2. PICK q : q = Holder(a)'
    OBVIOUS
  <2>3. q \in LeaseOwner /\ Holds(q)' /\ cluster_leases'[q].ip = a
    BY <2>1, <2>2, Zenon DEF Holder, Holds
  <2>4. q # o
    BY <1>5, <1>8, <2>3
  <2>5. Holds(q) /\ cluster_leases[q].ip = a
    BY <1>3, <2>3, <2>4, Zenon DEF Holds
  <2>6. QED
    BY <2>2, <2>3, <2>5, HolderUnique, Zenon DEF ClusterInv
<1>9. QED
  BY <1>3, <1>6, <1>7, <1>8, Zenon DEF HoldersStep, HolderGivesBack

LEMMA NextHolders ==
    ASSUME ClusterInv, ClusterNext
    PROVE  HoldersStep
<1>1. CASE UNCHANGED cluster_leases
  BY <1>1, LeasesOnlyEnd DEF ClusterInv, Holds
<1>2. ASSUME NEW i \in RequestId, Serve(i)
      PROVE  HoldersStep
  <2>1. call[i] # Null /\ call[i] \in Call
    BY <1>2, Zenon DEF Serve, ClusterInv, ClusterTypeOK
  <2>2. CASE Grant(i, call[i].owner)
    BY <2>1, <2>2, NextKeeps, GrantHolders DEF ClusterInv
  <2>3. CASE cluster_leases' = [cluster_leases EXCEPT ![call[i].owner] = Null]
    BY <2>1, <2>3, LeasesOnlyEnd DEF ClusterInv, ClusterTypeOK, Holds
  <2>4. QED
    BY <1>1, <1>2, <2>2, <2>3, Zenon DEF Serve
<1>3. CASE Tick
  <2>1. ASSUME NEW o \in LeaseOwner, Holds(o)'
        PROVE  Holds(o) /\ cluster_leases'[o].ip = cluster_leases[o].ip
    <3>1. cluster_leases'[o] = AgedLease(cluster_leases[o])
      BY <1>3 DEF Tick
    <3>2. cluster_leases[o] \in Lease
      BY <2>1, <3>1, AgedLeaseFacts, Zenon DEF Holds, ClusterInv, ClusterTypeOK
    <3>3. QED
      BY <2>1, <3>1, <3>2, AgedLeaseFacts, AgedFacts, NullFacts, Zenon DEF Holds, Lease
  <2>2. QED
    BY <2>1, LeasesOnlyEnd, Zenon DEF ClusterInv
<1>4. QED
  BY <1>1, <1>2, <1>3, Zenon
  DEF ClusterNext, RegisterAt, Reserve, Release, SessionTask, Renew, RenewUnavailable, Reconcile,
      FindsRoom, CallReturns, RegisterGranted, RegisterFails, RenewGranted, RenewFails, ReserveReturns,
      ReleaseReturns, ReconcileAnswer, CloseSession, Disconnect, Connect, ReconcileUnreachable,
      ReconcileDone, ServerRestart

LEMMA HoldersStepMaps == HoldersStep => ClusterOwnership!Next
<1> DEFINE bar == [a \in LeaseIp |-> Holder(a)]
           A == {a \in LeaseIp : Holder(a)' = Null}
<1>1. CASE \A a \in LeaseIp : HolderGivesBack(a)
  <2>1. bar' = ClusterOwnership!GiveBack(A)
    BY <1>1 DEF HolderGivesBack, ClusterOwnership!GiveBack
  <2>2. QED
    BY <2>1 DEF ClusterOwnership!Next, ClusterOwnership!Release
<1>2. ASSUME NEW c \in LeaseIp, Holder(c) = Null, Holder(c)' \in LeaseOwner,
             \A a \in LeaseIp \ {c} : HolderGivesBack(a)
      PROVE  ClusterOwnership!Next
  <2>1. bar' = [ClusterOwnership!GiveBack(A) EXCEPT ![c] = Holder(c)']
    BY <1>2, Zenon DEF HolderGivesBack, ClusterOwnership!GiveBack
  <2>2. ClusterOwnership!Claim(c, Holder(c)')
    BY <1>2, <2>1 DEF ClusterOwnership!Claim
  <2>3. QED
    BY <1>2, <2>2 DEF ClusterOwnership!Next
<1>3. QED
  BY <1>1, <1>2 DEF HoldersStep

\* The cluster implements AddressOwnership: across all servers, between two
\* owners of an address there is always a moment at which nobody has it.
THEOREM ClusterImplementsOwnership == ClusterSpec => ImplementsClusterOwnership
<1> DEFINE bar == [a \in LeaseIp |-> Holder(a)]
<1>1. ClusterInv => ClusterOwnership!Init
  <2>1. \A a \in LeaseIp : Holder(a) \in LeaseOwner \cup {Null}
    BY HolderHolds
  <2>2. QED
    BY <2>1 DEF ClusterOwnership!Init
<1>2. ClusterInv /\ [ClusterNext]_clusterVars => [ClusterOwnership!Next]_bar
  <2>1. UNCHANGED clusterVars => UNCHANGED bar
    BY DEF clusterVars, Holder, Holds
  <2>2. QED
    BY <2>1, NextHolders, HoldersStepMaps
<1>3. QED
  BY <1>1, <1>2, Initial, ClusterInvHolds, PTL
     DEF ClusterSpec, ImplementsClusterOwnership, ClusterOwnership!Spec

=============================================================================
