--------------------------- MODULE BroadcastFlood ---------------------------
(***************************************************************************)
(* One WireGuard broadcast on its way through the servers of a cluster.    *)
(* Every server hands it to its own clients and sends it on over its other *)
(* connections, unless it has seen it before.  The connections may form    *)
(* cycles, and two servers may have two of them, one opened by each.       *)
(* Datagrams may be lost.                                                  *)
(*                                                                         *)
(* A server has one loop for each connection.  Two loops may both find the *)
(* broadcast unseen before one of them marks it.  A broadcast is over long *)
(* before the mark expires, after 120 s.                                   *)
(***************************************************************************)
EXTENDS Naturals, FiniteSets

CONSTANTS
    Relay,     \* the servers
    LinkId,    \* the connections between them
    HopLimit   \* BROADCAST_HOP_LIMIT

ASSUME FloodConstants == HopLimit \in Nat \ {0} /\ IsFiniteSet(LinkId)

VARIABLES
    ends,           \* connection -> the two servers
    origin,         \* the server of the client that broadcasts
    broadcast_seen, \* the servers that have marked the broadcast
    datagrams,      \* on their way; a second copy on a connection finds the mark
    marking,        \* the datagrams whose loop is about to set the mark
    relayed,        \* history: server -> how often it has handed the broadcast on
    lost            \* history: was a datagram lost?

floodVars == <<ends, origin, broadcast_seen, datagrams, marking, relayed, lost>>

LinksOf(s) == {l \in LinkId : s \in ends[l]}

Datagram == [to : Relay, link : LinkId, hops : 1 .. HopLimit]

FloodTypeOK ==
    /\ ends \in [LinkId -> SUBSET Relay]
    /\ origin \in Relay
    /\ broadcast_seen \subseteq Relay
    /\ datagrams \subseteq Datagram
    /\ marking \subseteq Datagram
    /\ relayed \in [Relay -> 0 .. Cardinality(LinkId)]
    /\ lost \in BOOLEAN

-----------------------------------------------------------------------------
\* forward_broadcast_message: a connection to every other server, the one that
\* the broadcast came over excepted; which one is up to their order in the list.
Forwards(s, incoming, hops) ==
    LET other == LinksOf(s) \ incoming
        Remotes(L) == UNION {ends[l] \ {s} : l \in L}
    IN {{d \in [to : Relay, link : L, hops : {hops}] : d.to \in ends[d.link] \ {s}} :
            L \in {L \in SUBSET other : /\ Remotes(L) = Remotes(other)
                                        /\ Cardinality(L) = Cardinality(Remotes(L))}}

\* Mutant of FloodInit: the origin does not mark its own broadcast.
FloodInitUnmarked ==
    /\ ends \in [LinkId -> {e \in SUBSET Relay : Cardinality(e) = 2}]
    /\ origin \in Relay
    /\ broadcast_seen = {}
    /\ marking = {}
    /\ relayed = [s \in Relay |-> 0]
    /\ lost = FALSE
    /\ datagrams \in Forwards(origin, {}, HopLimit)

\* broadcast_wireguard
FloodInit ==
    /\ ends \in [LinkId -> {e \in SUBSET Relay : Cardinality(e) = 2}]
    /\ origin \in Relay
    /\ broadcast_seen = {origin}
    /\ marking = {}
    /\ relayed = [s \in Relay |-> 0]
    /\ lost = FALSE
    /\ datagrams \in Forwards(origin, {}, HopLimit)

-----------------------------------------------------------------------------
(* handle_broadcast_data *)

BusyLoop(d) == \E m \in marking : m.to = d.to /\ m.link = d.link

\* get_mut in mark_broadcast_seen
CheckSeen(d) ==
    /\ d \in datagrams
    /\ ~BusyLoop(d)
    /\ datagrams' = datagrams \ {d}
    /\ marking' = IF d.to \in broadcast_seen THEN marking ELSE marking \cup {d}
    /\ UNCHANGED <<ends, origin, broadcast_seen, relayed, lost>>

\* Mutant of Onward: one hop less.
OnwardShort(d) == IF d.hops > 2 THEN Forwards(d.to, {d.link}, d.hops - 1) ELSE {{}}

\* What is sent on: nothing, if this was the last hop.
Onward(d) == IF d.hops > 1 THEN Forwards(d.to, {d.link}, d.hops - 1) ELSE {{}}

\* insert in mark_broadcast_seen, the delivery to the clients, and the rest.
MarkSeen(d) ==
    /\ d \in marking
    /\ marking' = marking \ {d}
    /\ broadcast_seen' = broadcast_seen \cup {d.to}
    /\ relayed' = [relayed EXCEPT ![d.to] = @ + 1]
    /\ \E D \in Onward(d) : datagrams' = datagrams \cup D
    /\ UNCHANGED <<ends, origin, lost>>

LoseDatagram(d) ==
    /\ d \in datagrams
    /\ datagrams' = datagrams \ {d}
    /\ lost' = TRUE
    /\ UNCHANGED <<ends, origin, broadcast_seen, marking, relayed>>

FloodNext == \E d \in Datagram : CheckSeen(d) \/ MarkSeen(d) \/ LoseDatagram(d)

FloodSpec == FloodInit /\ [][FloodNext]_floodVars

-----------------------------------------------------------------------------
(* Properties *)

\* The clients of a server get a broadcast at most once for each connection of
\* the server, also when its loops race to mark it, and those of the origin do
\* not get it back, whatever cycles there are.
RelayedOncePerLink ==
    /\ relayed[origin] = 0
    /\ \A s \in Relay : relayed[s] <= Cardinality(LinksOf(s))

\* If nothing is lost and no path without a cycle exceeds the hop limit, then a
\* broadcast that has come to rest has reached every server that is connected
\* to the origin, although the first copy to arrive need not be the one that
\* could travel farthest.
FloodReachesAll ==
    datagrams = {} /\ marking = {} /\ ~lost /\ Cardinality(Relay) <= HopLimit + 1 =>
        \A l \in LinkId : ends[l] \subseteq broadcast_seen \/ ends[l] \cap broadcast_seen = {}

=============================================================================
