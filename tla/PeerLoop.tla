------------------------------ MODULE PeerLoop ------------------------------
(***************************************************************************)
(* The loop that serves one outbound connection to a peer server, and its  *)
(* channel: whatever the server sends to the peer goes through a bounded   *)
(* channel, and only the loop takes messages out of it.  Tasks that ask    *)
(* for a cluster lease put their requests in; so does the loop itself, for *)
(* its answers, pings and client list requests.  The loop can be stopped   *)
(* from outside, by remove_outbound_peer; the loop of an inbound           *)
(* connection is the same without that.                                    *)
(***************************************************************************)
EXTENDS Naturals

CONSTANTS
    Asker,       \* tasks in acquire_lease_request
    QueueSize    \* the capacity of the channel

ASSUME LoopConstants == QueueSize \in Nat \ {0}

VARIABLES
    at,        \* "down": connecting, or waiting to connect again; "select": in the
               \* loop's select!; "send": in a handler that sends to the own channel;
               \* "write": hands a message to the connection
    queued,    \* messages in the channel
    broken,    \* the connection is gone
    asker      \* task -> "idle", "send": waits for room in the channel,
               \* "answer": waits for the answer, 5 s at most

loopVars == <<at, queued, broken, asker>>

LoopTypeOK ==
    /\ at \in {"down", "select", "send", "write"}
    /\ queued \in 0 .. QueueSize
    /\ broken \in BOOLEAN
    /\ asker \in [Asker -> {"idle", "send", "answer"}]

LoopInit ==
    /\ at = "down"
    /\ queued = 0
    /\ broken = FALSE
    /\ asker = [q \in Asker |-> "idle"]

-----------------------------------------------------------------------------
(* acquire_lease_request *)

Ask(q) ==
    /\ at # "down"
    /\ asker[q] = "idle"
    /\ asker' = [asker EXCEPT ![q] = "send"]
    /\ UNCHANGED <<at, queued, broken>>

\* Mutant of AskSent: the channel takes any number of messages.
AskSentUnbounded(q) ==
    /\ asker[q] = "send"
    /\ queued' = queued + 1
    /\ asker' = [asker EXCEPT ![q] = "answer"]
    /\ UNCHANGED <<at, broken>>

AskSent(q) ==
    /\ asker[q] = "send"
    /\ queued < QueueSize
    /\ queued' = queued + 1
    /\ asker' = [asker EXCEPT ![q] = "answer"]
    /\ UNCHANGED <<at, broken>>

\* An answer, which the loop hands over, or 5 s without one.
AskReturns(q) ==
    /\ asker[q] = "answer"
    /\ asker' = [asker EXCEPT ![q] = "idle"]
    /\ UNCHANGED <<at, queued, broken>>

-----------------------------------------------------------------------------
(* run_peer_communication_loop, connect_to_peer_once *)

LoopConnect ==
    /\ at = "down"
    /\ at' = "select"
    /\ UNCHANGED <<queued, broken, asker>>

LoopTake ==
    /\ at = "select"
    /\ queued > 0
    /\ at' = "write"
    /\ queued' = queued - 1
    /\ UNCHANGED <<broken, asker>>

\* The connection takes the message, for which the peer may have to read first.
LoopWritten ==
    /\ at = "write"
    /\ ~broken
    /\ at' = "select"
    /\ UNCHANGED <<queued, broken, asker>>

\* A message that is answered, or one of the two intervals: the handler sends,
\* and the loop does nothing else meanwhile.
LoopAnswer ==
    /\ at = "select"
    /\ at' = "send"
    /\ UNCHANGED <<queued, broken, asker>>

LoopAnswered ==
    /\ at = "send"
    /\ queued < QueueSize
    /\ at' = "select"
    /\ queued' = queued + 1
    /\ UNCHANGED <<broken, asker>>

LinkBreaks ==
    /\ at # "down"
    /\ ~broken
    /\ broken' = TRUE
    /\ UNCHANGED <<at, queued, asker>>

\* The channel goes, and who waits for room in it gets an error.
ChannelGoes ==
    /\ at' = "down"
    /\ queued' = 0
    /\ broken' = FALSE
    /\ asker' = [q \in Asker |-> IF asker[q] = "send" THEN "idle" ELSE asker[q]]

\* Mutant of LoopEnd: the loop notices only a write that fails.
LoopEndOnWrite ==
    /\ at = "write"
    /\ broken
    /\ ChannelGoes

\* Reading or writing fails.
LoopEnd ==
    /\ at \in {"select", "write"}
    /\ broken
    /\ ChannelGoes

\* The stop signal drops the loop wherever it waits.  The peer may be added again.
LoopStop ==
    /\ at # "down"
    /\ ChannelGoes

-----------------------------------------------------------------------------
LoopNext ==
    \/ \E q \in Asker : Ask(q) \/ AskSent(q) \/ AskReturns(q)
    \/ LoopConnect
    \/ LoopTake
    \/ LoopWritten
    \/ LoopAnswer
    \/ LoopAnswered
    \/ LinkBreaks
    \/ LoopEnd
    \/ LoopStop

LoopSpec == LoopInit /\ [][LoopNext]_loopVars

\* Tasks get their turn, the channel gives room to whoever waits longest, and
\* select! chooses at random among what is ready.  Peers owe nothing, not even to
\* read what the loop writes, and nobody has to stop the loop.
LoopFairness ==
    /\ \A q \in Asker : SF_loopVars(AskSent(q)) /\ WF_loopVars(AskReturns(q))
    /\ SF_loopVars(LoopTake)
    /\ SF_loopVars(LoopAnswered)
    /\ SF_loopVars(LoopEnd)

LoopLiveSpec == LoopSpec /\ LoopFairness

-----------------------------------------------------------------------------
(* Liveness *)

\* The loop waits for room in the channel that only it empties.
Jammed == at = "send" /\ queued = QueueSize

\* A loop leaves a broken connection, and so comes to connect again, as the comment
\* on connect_to_peer says, unless it is jammed at some time.  And whoever asks for a
\* lease comes to wait for no room any more, unless the loop is jammed for good or
\* hangs for good in a write that the peer does not read: no timeout ends that wait.
LoopProgress ==
    /\ broken ~> (~broken \/ Jammed)
    /\ \A q \in Asker : <>[](asker[q] = "send") => <>[]Jammed \/ <>[](at = "write")

=============================================================================
