-------------------------------- MODULE Fec --------------------------------
(***************************************************************************)
(* Forward error correction of the client's data path, for one sender and  *)
(* one destination: encode puts every packet into a batch and sends it at  *)
(* once, the worker sends parity packets for a batch that is full or has   *)
(* timed out, and receive delivers what arrives and reconstructs what does *)
(* not.  The network loses, delays, reorders and duplicates: a packet once *)
(* sent stays in net, where receive may find it any number of times.       *)
(***************************************************************************)
EXTENDS Naturals, Sequences, FiniteSets, FiniteSetsExt, Functions

CONSTANTS
    MaxPackets,    \* bounds the number of packets sent
    Size,          \* payload lengths
    BatchSize,     \* BATCH_SIZE
    ChannelSize,   \* BATCH_CHANNEL_SIZE
    FlagsCancel(_, _, _)   \* the code of the library: see FlagsRight

ASSUME FecConstants ==
    /\ MaxPackets \in Nat
    /\ BatchSize \in Nat \ {0}
    /\ ChannelSize \in Nat
    /\ Size \subseteq Nat \ {0}

VARIABLES
    size,          \* the length of every packet
    current_batch, \* DestBatchState: the packets of the open batch
    group_id,      \* DestBatchState: its number
    batch_rx,      \* the full batches on their way to the worker
    net,           \* every FEC packet sent so far
    groups,        \* the receiver's groups, as a partial function of group_id
    delivered,     \* history: how often the receiver has passed a packet on
                   \* since it last forgot the packet's group
    altered,       \* history: those of them whose flags byte nobody has sent
    restarted      \* history: has the sender started again?

senderVars == <<size, current_batch, group_id, batch_rx, restarted>>
fecVars == <<senderVars, net, groups, delivered, altered>>

\* The packets the client has to send, in the order in which it sends them, and
\* bytes that no client has sent.
Packet == 1 .. MaxPackets
Corrupt == 0

Index == 0 .. 2 * BatchSize

\* REDUNDANCY_RATE 0.2, rounded up, and at least MIN_PARITY.
ParityShards(n) == (n + 4) \div 5

\* A FEC packet carries its group_id, its index and items: an original packet
\* carries itself, a parity packet covers its batch.  FecGroup:
NewGroup == [data_shards |-> 0, originals |-> 0, shards |-> <<>>]

IsBatch(b, min, max) == Len(b) \in min .. max /\ Range(b) \subseteq Packet

FecTypeOK ==
    /\ size \in [Packet -> Size]
    /\ IsBatch(current_batch, 0, BatchSize - 1)
    /\ group_id \in 0 .. MaxPackets
    /\ Len(batch_rx) <= ChannelSize
    /\ \A m \in net : /\ m.group_id \in 0 .. MaxPackets /\ m.index \in Index
                      /\ IsBatch(m.items, 1, BatchSize) /\ m.parity \in BOOLEAN
    /\ \A g \in DOMAIN groups :
          /\ groups[g].data_shards \in 0 .. BatchSize
          /\ groups[g].originals \in 0 .. 2 * BatchSize
          /\ DOMAIN groups[g].shards \subseteq Index
    /\ delivered \in [Packet \cup {Corrupt} -> 0 .. 2]
    /\ altered \subseteq Packet
    /\ restarted \in BOOLEAN

FecInit ==
    /\ size \in [Packet -> Size]
    /\ current_batch = <<>>
    /\ group_id = 0
    /\ batch_rx = <<>>
    /\ net = {}
    /\ groups = <<>>
    /\ delivered = [p \in Packet \cup {Corrupt} |-> 0]
    /\ altered = {}
    /\ restarted = FALSE

-----------------------------------------------------------------------------
(* The sender: encoder.rs *)

Sent == {p \in Packet : \E m \in net : ~m.parity /\ m.items[1] = p}

\* encode: the packet that fills the batch closes it, and try_send hands the
\* batch to the worker or, if the channel is full, drops it.
Encode(p) ==
    LET batch == Append(current_batch, p)
        full == Len(batch) >= BatchSize
    IN
    /\ Sent = 1 .. p - 1
    /\ net' = net \cup {[group_id |-> group_id, index |-> Len(current_batch),
                         items |-> <<p>>, parity |-> FALSE]}
    /\ current_batch' = IF full THEN <<>> ELSE batch
    /\ group_id' = IF full THEN group_id + 1 ELSE group_id
    /\ batch_rx' = IF full /\ Len(batch_rx) < ChannelSize
                   THEN Append(batch_rx, [group_id |-> group_id, items |-> batch])
                   ELSE batch_rx
    /\ UNCHANGED <<size, restarted, groups, delivered, altered>>

\* encode_and_send_parity
Parity(g, items) ==
    {[group_id |-> g, index |-> Len(items) + i, items |-> items, parity |-> TRUE] :
        i \in 0 .. ParityShards(Len(items)) - 1}

\* Mutant of EncodeBatch: the parity goes out under the number of the open batch.
EncodeBatchLate ==
    /\ batch_rx # <<>>
    /\ net' = net \cup Parity(group_id, Head(batch_rx).items)
    /\ batch_rx' = Tail(batch_rx)
    /\ UNCHANGED <<size, current_batch, group_id, restarted, groups, delivered, altered>>

EncodeBatch ==
    /\ batch_rx # <<>>
    /\ net' = net \cup Parity(Head(batch_rx).group_id, Head(batch_rx).items)
    /\ batch_rx' = Tail(batch_rx)
    /\ UNCHANGED <<size, current_batch, group_id, restarted, groups, delivered, altered>>

\* The worker's timer finds the batch's deadline passed.
BatchTimeout ==
    /\ current_batch # <<>>
    /\ net' = net \cup Parity(group_id, current_batch)
    /\ current_batch' = <<>>
    /\ group_id' = group_id + 1
    /\ UNCHANGED <<size, batch_rx, restarted, groups, delivered, altered>>

\* The client starts again and numbers its groups from 0.
SenderRestart ==
    /\ current_batch' = <<>>
    /\ group_id' = 0
    /\ batch_rx' = <<>>
    /\ restarted' = TRUE
    /\ UNCHANGED <<size, net, groups, delivered, altered>>

-----------------------------------------------------------------------------
(* The receiver: decoder.rs *)

IsDone(group) == group.data_shards # 0 /\ group.originals = group.data_shards

Done(group) == [group EXCEPT !.originals = group.data_shards, !.shards = <<>>]

\* The shards of the originals are kept as they came, the parity shards have
\* the length of the longest packet of the batch.
ShardLen(shard) == Max({size[p] : p \in Range(shard.items)})

\* received_shards.len()
Slots(group) ==
    Max({i + 1 : i \in DOMAIN group.shards}
        \cup {group.data_shards + ParityShards(group.data_shards)})

\* Mutant of Enough: one shard more than needed.
EnoughOffByOne(group) ==
    group.data_shards # 0 /\ Cardinality(DOMAIN group.shards) > group.data_shards

\* try_decode goes on to decode_with_rs.
Enough(group) ==
    group.data_shards # 0 /\ Cardinality(DOMAIN group.shards) >= group.data_shards

\* The length checks of decode_with_rs, and of reconstruct in the library.
Decodable(group) ==
    /\ Slots(group) = group.data_shards + ParityShards(group.data_shards)
    /\ Cardinality({ShardLen(group.shards[i]) : i \in DOMAIN group.shards}) = 1

CoveredBatch(group) ==
    group.shards[CHOOSE i \in DOMAIN group.shards : group.shards[i].parity].items

\* All the shards come from one batch.
Sound(group) ==
    LET batch == CoveredBatch(group) IN
    \A i \in DOMAIN group.shards :
        group.shards[i].items = IF group.shards[i].parity THEN batch
                                ELSE SubSeq(batch, i + 1, i + 1)

Missing(group) == (0 .. group.data_shards - 1) \ DOMAIN group.shards

\* What reconstruct of the library makes of shards that agree in length.  A packet
\* stands for its type, length and payload; of the flags byte see Misflagged.
Reconstruct(group) ==
    {IF Sound(group) THEN CoveredBatch(group)[i + 1] ELSE Corrupt : i \in Missing(group)}

\* encode puts the flags byte into the batch before set_fec_flag, receive takes it
\* from a packet that has the flag: in the shard of every original that has come it
\* differs by the FEC bit from the shard that the parity was made of.  The rest of a
\* shard is the same.  What the difference makes of the flags byte of a packet that
\* is reconstructed, FEC bit aside, depends on the library's matrix: it cancels out
\* or not, by the size of the batch, the shards at hand and the shard in question.
FlagsRight(group, i) ==
    group.data_shards = 1 \/ FlagsCancel(group.data_shards, DOMAIN group.shards, i)

Misflagged(group) ==
    {CoveredBatch(group)[i + 1] :
        i \in {j \in Missing(group) : Sound(group) /\ ~FlagsRight(group, j)}}

\* reconstruct fills the missing shards in place.
Filled(group) ==
    [group EXCEPT !.shards =
        [i \in DOMAIN @ \cup Missing(group) |->
            IF i \in DOMAIN @ THEN @[i] ELSE [items |-> CoveredBatch(group), parity |-> TRUE]]]

Insert(group, m) ==
    [data_shards |-> IF m.parity THEN Len(m.items) ELSE group.data_shards,
     originals |-> IF m.parity THEN group.originals ELSE group.originals + 1,
     shards |-> [i \in DOMAIN group.shards \cup {m.index} |->
                    IF i = m.index THEN [items |-> m.items, parity |-> m.parity]
                    ELSE group.shards[i]]]

\* The packet that m itself carries.
Own(m) == IF m.parity THEN {} ELSE {m.items[1]}

\* What becomes of a group once the packet m is in it, and what receive hands to
\* its caller.  An error of the decoding is passed on instead of the packet; the
\* bytes made of the shards of different batches may not pass for a packet.
Outcomes(m, group) ==
    IF IsDone(group) THEN {[group |-> Done(group), output |-> Own(m), failed |-> FALSE]}
    ELSE IF ~Enough(group) THEN {[group |-> group, output |-> Own(m), failed |-> FALSE]}
    ELSE IF ~Decodable(group) THEN {[group |-> group, output |-> {}, failed |-> TRUE]}
    ELSE {[group |-> Done(group), output |-> Own(m) \cup Reconstruct(group), failed |-> FALSE]}
         \cup (IF Sound(group) THEN {}
               ELSE {[group |-> Filled(group), output |-> {}, failed |-> TRUE]})

Cap(n) == IF n > 2 THEN 2 ELSE n

\* The packets of some groups.
PacketsOf(G) ==
    {p \in Packet : \E m \in net : ~m.parity /\ m.items[1] = p /\ m.group_id \in G}

\* Mutant of Known: a second copy passes for the first.
KnownNever(group, m) == FALSE

\* The packet has come before.
Known(group, m) == m.index \in DOMAIN group.shards

\* receive, for a packet that is not known yet and does not contradict its
\* group.  Unless there is an error, cleanup_old_groups may forget any groups
\* that had no packet for 3 s, or the oldest when there are more than MAX_GROUPS.
Receive(m) ==
    LET g == m.group_id
        old == IF g \in DOMAIN groups THEN groups[g] ELSE NewGroup
    IN
    /\ ~IsDone(old)
    /\ ~Known(old, m)
    /\ m.parity /\ old.data_shards # 0 => old.data_shards = Len(m.items)
    /\ \E o \in Outcomes(m, Insert(old, m)) :
       \E gone \in IF o.failed THEN {{}} ELSE SUBSET (DOMAIN groups \ {g}) :
          /\ groups' = [h \in (DOMAIN groups \cup {g}) \ gone |->
                            IF h = g THEN o.group ELSE groups[h]]
          /\ delivered' = [p \in Packet \cup {Corrupt} |->
                Cap((IF p \in PacketsOf(gone) THEN 0 ELSE delivered[p])
                    + (IF p \in o.output THEN 1 ELSE 0))]
          /\ altered' = (altered \ PacketsOf(gone))
                            \cup ((o.output \ Own(m)) \cap Misflagged(Insert(old, m)))
    /\ UNCHANGED <<senderVars, net>>

-----------------------------------------------------------------------------
FecNext ==
    \/ \E p \in Packet : Encode(p)
    \/ EncodeBatch
    \/ BatchTimeout
    \/ SenderRestart
    \/ \E m \in net : Receive(m)

FecSpec == FecInit /\ [][FecNext]_fecVars

-----------------------------------------------------------------------------
(* Properties *)

\* While the receiver remembers a group, it passes no packet of the group on
\* twice: not when the network duplicates it, not when it arrives after it was
\* reconstructed, not when a restarted sender uses the group's number again.
AtMostOnce == \A p \in Packet : delivered[p] <= 1

\* A packet is passed on as it was sent.
AsSent(p) == delivered[p] = 1 /\ p \notin altered

\* The receiver makes up no type, length or payload, unless a sender that has started
\* again mixes its shards with those of its former life.  A flags byte it makes up at
\* most for a packet that it reconstructs and that was not alone in its batch.
NothingMadeUp ==
    /\ delivered[Corrupt] # 0 => restarted
    /\ \A p \in altered : \E m, n \in net :
          /\ ~m.parity /\ m.items[1] = p
          /\ ~n.parity /\ n.items[1] # p /\ n.group_id = m.group_id

Uniform(items) == \A i, j \in DOMAIN items : size[items[i]] = size[items[j]]

\* No other batch was sent under the number of m.
OwnGroup(m) == \A n \in net : n.group_id = m.group_id => Range(n.items) \subseteq Range(m.items)

\* In whatever order and number the packets of a batch arrive: the originals that
\* have arrived are passed on as they were sent, and once there are as many packets
\* as the batch has originals, all of them are passed on, those that were lost with
\* their payloads if not with their flags, provided that they are equally long and
\* that the group is the batch's own, as it is unless the sender has started again.
UniformGroupsRecover ==
    \A m \in net :
        m.parity /\ Uniform(m.items) /\ OwnGroup(m) /\ m.group_id \in DOMAIN groups =>
            LET group == groups[m.group_id] IN
            /\ \A i \in DOMAIN group.shards :
                  ~group.shards[i].parity => AsSent(group.shards[i].items[1])
            /\ IsDone(group) \/ Cardinality(DOMAIN group.shards) >= Len(m.items) =>
                  \A i \in DOMAIN m.items : delivered[m.items[i]] = 1

\* decoder.rs:202 says that the decoding recovers the packets that were lost: a
\* group with as many shards as originals does not stay incomplete.
DecodingRecoversLost ==
    ~restarted => \A g \in DOMAIN groups : Enough(groups[g]) => IsDone(groups[g])

\* decoder.rs:64 and 202 say that receive recovers packets that were lost, and
\* rebuild_net_packet sets their flags: what it passes on is what was sent.
RecoveredAsSent == ~restarted => altered = {}

=============================================================================
