------------------------------ MODULE FecProofs ------------------------------
(***************************************************************************)
(* Proofs about Fec, for every number of packets, batch size and channel   *)
(* size, and whatever the network loses, reorders and duplicates: no       *)
(* packet is passed on twice, and none that was not sent.  SenderInv says  *)
(* which packets and batches belong to a group number, ReceiverInv that    *)
(* the receiver's groups hold what was sent under their numbers and that   *)
(* every packet that has been passed on is noted there, FlagsInv where a     *)
(* flags byte comes from that nobody has sent.  Together they are          *)
(* inductive.                                                              *)
(*                                                                         *)
(* The last two parts are about groups of equally long packets, which      *)
(* FecGroupProofs proves to be recovered: ClosedOnce says that a batch     *)
(* with a number of its own owns all that was sent under the number,       *)
(* UniformInv that the receiver has passed such a batch on, or has not     *)
(* enough of it yet.                                                       *)
(***************************************************************************)
EXTENDS Fec, TLAPS

FecMessage == [group_id : Nat, index : Nat, items : Seq(Packet), parity : BOOLEAN]
Shard == [items : Seq(Packet), parity : BOOLEAN]
ClosedBatch == [group_id : Nat, items : Seq(Packet)]

FecTypes ==
    /\ size \in [Packet -> Size]
    /\ current_batch \in Seq(Packet) /\ Len(current_batch) < BatchSize
    /\ group_id \in Nat
    /\ batch_rx \in Seq(ClosedBatch)
    /\ net \subseteq FecMessage
    /\ delivered \in [Packet \cup {Corrupt} -> Nat]
    /\ restarted \in BOOLEAN

\* The FEC packet that carries p itself.
Original(g, i, p) == [group_id |-> g, index |-> i, items |-> <<p>>, parity |-> FALSE]

\* The items have all been sent under the number g, in this order ...
Covered(g, items) == \A k \in 1 .. Len(items) : Original(g, k - 1, items[k]) \in net

\* ... and nothing else has.
Complete(g, items) ==
    \A i \in Nat, p \in Packet :
        Original(g, i, p) \in net => i + 1 \in 1 .. Len(items) /\ items[i + 1] = p

\* A batch that is closed.
Batch(g, items) ==
    /\ items # <<>>
    /\ Covered(g, items)
    /\ restarted = FALSE => g < group_id /\ Complete(g, items)

\* An original carries one packet, a parity packet covers a batch.
MessagesFit ==
    \A m \in net : IF m.parity = TRUE THEN Batch(m.group_id, m.items)
                   ELSE \E p \in Packet : m = Original(m.group_id, m.index, p)

SentOnce ==
    \A p \in Packet, g, h, i, j \in Nat :
        Original(g, i, p) \in net /\ Original(h, j, p) \in net => g = h /\ i = j

\* Until the sender starts again, it does not use a number twice.
OpenBatch ==
    /\ Covered(group_id, current_batch)
    /\ restarted = FALSE =>
          /\ Complete(group_id, current_batch)
          /\ \A g, i \in Nat, p \in Packet : Original(g, i, p) \in net => g <= group_id

QueueFits == \A k \in 1 .. Len(batch_rx) : Batch(batch_rx[k].group_id, batch_rx[k].items)

\* Nothing that has been sent or closed is taken back.
BatchesStay ==
    /\ net \subseteq net' /\ (restarted = TRUE => restarted' = TRUE)
    /\ \A g \in Nat : \A items : Batch(g, items) => Batch(g, items)'

SenderInv == FecTypes /\ MessagesFit /\ SentOnce /\ OpenBatch /\ QueueFits

\* A shard of a group that is not done yet is a packet of the group, and there is a
\* parity packet among the shards once the size of the batch is known.
ShardFits(g, n, i, shard) ==
    /\ shard \in Shard
    /\ IF shard.parity = TRUE THEN Batch(g, shard.items) /\ Len(shard.items) = n
       ELSE \E p \in Packet : shard.items = <<p>> /\ Original(g, i, p) \in net

Shards(g, group) ==
    /\ group.data_shards \in Nat
    /\ \A i \in DOMAIN group.shards : ShardFits(g, group.data_shards, i, group.shards[i])
    /\ group.data_shards # 0 => \E i \in DOMAIN group.shards : group.shards[i].parity = TRUE

\* A group that is done has given its shards up.
Settled(g, group) == IF IsDone(group) THEN DOMAIN group.shards = {} ELSE Shards(g, group)

\* A packet that has been passed on is one of a group that is done, or among the
\* group's shards.
Noted(p) ==
    \E g \in DOMAIN groups, i \in Nat :
        /\ Original(g, i, p) \in net
        /\ IsDone(groups[g]) \/ i \in DOMAIN groups[g].shards

ReceiverInv ==
    /\ DOMAIN groups \subseteq Nat
    /\ \A g \in DOMAIN groups : Settled(g, groups[g])
    /\ \A p \in Packet : delivered[p] <= 1 /\ (delivered[p] # 0 => Noted(p))
    /\ delivered[Corrupt] # 0 => restarted = TRUE

\* Another packet was sent under the number of p's group.
Accompanied(p) ==
    \E m, n \in net : /\ ~m.parity /\ m.items[1] = p
                      /\ ~n.parity /\ n.items[1] # p /\ n.group_id = m.group_id

FlagsInv == \A p \in altered : p \in Packet /\ delivered[p] = 1 /\ Accompanied(p)

FecInv == SenderInv /\ ReceiverInv /\ FlagsInv

-----------------------------------------------------------------------------
(* The sender *)

LEMMA OriginalIs ==
    \A g, i, p, h, j, q : Original(g, i, p) = Original(h, j, q) => g = h /\ i = j /\ p = q
BY DEF Original

\* What follows from which originals have been sent.
LEMMA CoveredKept ==
    ASSUME net \subseteq net', NEW g, NEW items, Covered(g, items)
    PROVE  Covered(g, items)'
BY DEF Covered

LEMMA CompleteKept ==
    ASSUME NEW g, NEW items, Complete(g, items),
           \A i \in Nat, p \in Packet : Original(g, i, p) \in net' => Original(g, i, p) \in net
    PROVE  Complete(g, items)'
BY DEF Complete

LEMMA BatchKept ==
    ASSUME net \subseteq net', group_id \in Nat, group_id' \in Nat,
           restarted' = FALSE => restarted = FALSE /\ group_id <= group_id',
           NEW g \in Nat, NEW items, Batch(g, items),
           restarted' = FALSE =>
               \A i \in Nat, p \in Packet :
                  g < group_id /\ Original(g, i, p) \in net' => Original(g, i, p) \in net
    PROVE  Batch(g, items)'
<1>1. items # <<>> /\ Covered(g, items)'
  BY CoveredKept DEF Batch
<1>2. ASSUME restarted' = FALSE
      PROVE  g < group_id' /\ Complete(g, items)'
  <2>1. restarted = FALSE /\ group_id <= group_id' /\ g < group_id /\ Complete(g, items)
    BY <1>2 DEF Batch
  <2>2. g < group_id'
    BY <2>1
  <2>3. QED
    BY <1>2, <2>1, <2>2, CompleteKept
<1>3. QED
  BY <1>1, <1>2, Zenon DEF Batch

\* A packet that has not been sent yet.
LEMMA Unsent ==
    ASSUME NEW p \in Packet, p \notin Sent, NEW g, NEW i
    PROVE  Original(g, i, p) \notin net
<1>1. ~Original(g, i, p).parity /\ Original(g, i, p).items[1] = p
  BY DEF Original
<1>2. QED
  BY <1>1, Zenon DEF Sent

\* The batch together with one more packet, as encode makes it.
LEMMA Appended ==
    ASSUME NEW batch \in Seq(Packet), NEW p \in Packet
    PROVE  /\ Append(batch, p) \in Seq(Packet) /\ Append(batch, p) # <<>>
           /\ Len(Append(batch, p)) = Len(batch) + 1 /\ Len(batch) \in Nat
           /\ Append(batch, p)[Len(batch) + 1] = p
           /\ \A k \in 1 .. Len(batch) : Append(batch, p)[k] = batch[k]
OBVIOUS

\* encode
LEMMA EncodeKeepsSender ==
    ASSUME SenderInv, NEW p \in Packet, Encode(p)
    PROVE  SenderInv' /\ BatchesStay
<1>1. PICK g \in Nat, n \in Nat, old \in Seq(Packet) :
         g = group_id /\ old = current_batch /\ n = Len(old) /\ n < BatchSize
  <2>1. PICK batch \in Seq(Packet) : batch = current_batch /\ Len(batch) < BatchSize
    BY Zenon DEF SenderInv, FecTypes
  <2>2. Len(batch) \in Nat /\ group_id \in Nat
    BY DEF SenderInv, FecTypes
  <2>3. QED
    BY <2>1, <2>2, Zenon
<1>2. PICK b \in Seq(Packet) : b = Append(old, p)
  BY Appended, Zenon
<1>3. /\ b # <<>> /\ Len(b) = n + 1 /\ b[n + 1] = p /\ \A k \in 1 .. n : b[k] = old[k]
  BY <1>1, <1>2, Appended, Zenon
<1>4. /\ net' = net \cup {Original(g, n, p)} /\ Sent = 1 .. p - 1
      /\ UNCHANGED <<size, restarted, groups, delivered>>
  BY <1>1, Zenon DEF Encode, Original
<1>5. \/ /\ current_batch' = <<>> /\ group_id' = g + 1
         /\ batch_rx' = batch_rx \/ batch_rx' = Append(batch_rx, [group_id |-> g, items |-> b])
      \/ Len(b) < BatchSize /\ current_batch' = b /\ group_id' = g /\ batch_rx' = batch_rx
  BY <1>1, <1>2, <1>3, FecConstants DEF Encode
<1>6. \A h, i : Original(h, i, p) \notin net
  <2>1. p \notin Sent
    BY <1>4 DEF Packet
  <2>2. QED
    BY <2>1, Unsent
<1>7. \A h, i, q : Original(h, i, q) \in net' =>
                      Original(h, i, q) \in net \/ (h = g /\ i = n /\ q = p)
  BY <1>4, OriginalIs
<1>8. net \subseteq net' /\ group_id' \in Nat /\ g <= group_id' /\ group_id \in Nat
  BY <1>1, <1>4, <1>5
<1>9. ASSUME NEW h \in Nat, NEW items, Batch(h, items)
      PROVE  Batch(h, items)'
  <2>1. restarted' = FALSE => restarted = FALSE /\ group_id <= group_id'
    BY <1>1, <1>4, <1>8
  <2>2. \A i \in Nat, q \in Packet :
           h < group_id /\ Original(h, i, q) \in net' => Original(h, i, q) \in net
    BY <1>1, <1>7
  <2>3. QED
    BY <1>8, <1>9, <2>1, <2>2, BatchKept, Zenon
<1>10. Covered(g, b)'
  <2>1. Covered(g, old)'
    BY <1>1, <1>8, CoveredKept, Zenon DEF SenderInv, OpenBatch
  <2>2. Original(g, n, p) \in net'
    BY <1>4
  <2>3. ASSUME NEW k \in 1 .. n + 1
        PROVE  Original(g, k - 1, b[k]) \in net'
    <3>1. CASE k = n + 1
      BY <1>3, <2>2, <3>1
    <3>2. CASE k \in 1 .. n
      BY <1>1, <1>3, <2>1, <3>2 DEF Covered
    <3>3. QED
      BY <3>1, <3>2
  <2>4. QED
    BY <1>3, <2>3 DEF Covered
<1>11. ASSUME restarted' = FALSE
       PROVE  /\ Complete(g, b)'
              /\ \A h, i \in Nat, q \in Packet : Original(h, i, q) \in net' => h <= g
  <2>1. /\ Complete(g, old)
        /\ \A h, i \in Nat, q \in Packet : Original(h, i, q) \in net => h <= g
    BY <1>1, <1>4, <1>11, Zenon DEF SenderInv, OpenBatch
  <2>2. ASSUME NEW i \in Nat, NEW q \in Packet, Original(g, i, q) \in net'
        PROVE  i + 1 \in 1 .. n + 1 /\ b[i + 1] = q
    <3>1. CASE i = n /\ q = p
      BY <1>3, <3>1
    <3>2. CASE Original(g, i, q) \in net
      <4>1. i + 1 \in 1 .. n /\ old[i + 1] = q
        BY <1>1, <2>1, <3>2 DEF Complete
      <4>2. QED
        BY <1>3, <4>1
    <3>3. QED
      BY <1>7, <2>2, <3>1, <3>2
  <2>3. Complete(g, b)'
    BY <1>3, <2>2 DEF Complete
  <2>4. QED
    BY <1>7, <2>1, <2>3
<1>12. MessagesFit'
  <2>1. ASSUME NEW m \in net
        PROVE  IF m.parity = TRUE THEN Batch(m.group_id, m.items)'
               ELSE \E q \in Packet : m = Original(m.group_id, m.index, q)
    <3>1. m.group_id \in Nat
      BY DEF SenderInv, FecTypes, FecMessage
    <3>2. IF m.parity = TRUE THEN Batch(m.group_id, m.items)
          ELSE \E q \in Packet : m = Original(m.group_id, m.index, q)
      BY Zenon DEF SenderInv, MessagesFit
    <3>3. QED
      BY <1>9, <3>1, <3>2, Zenon
  <2>2. /\ Original(g, n, p).parity # TRUE
        /\ Original(g, n, p) = Original(Original(g, n, p).group_id, Original(g, n, p).index, p)
    BY DEF Original
  <2>3. QED
    BY <1>4, <2>1, <2>2, Zenon DEF MessagesFit
<1>13. SentOnce'
  BY <1>6, <1>7 DEF SenderInv, SentOnce
<1>14. batch_rx' \in Seq(ClosedBatch) /\ QueueFits'
  <2>1. PICK q \in Seq(ClosedBatch) : q = batch_rx
    BY Zenon DEF SenderInv, FecTypes
  <2>2. ASSUME NEW k \in 1 .. Len(q)
        PROVE  Batch(q[k].group_id, q[k].items)'
    <3>1. q[k].group_id \in Nat
      <4>1. q[k] \in ClosedBatch
        OBVIOUS
      <4>2. QED
        BY <4>1 DEF ClosedBatch
    <3>2. Batch(q[k].group_id, q[k].items)
      BY <2>1, Zenon DEF SenderInv, QueueFits
    <3>3. QED
      BY <1>9, <3>1, <3>2, Zenon
  <2>3. CASE batch_rx' = batch_rx
    BY <2>1, <2>2, <2>3, Zenon DEF QueueFits
  <2>4. CASE group_id' = g + 1 /\ batch_rx' = Append(batch_rx, [group_id |-> g, items |-> b])
    <3>1. PICK c : c = [group_id |-> g, items |-> b]
      BY Zenon
    <3>2. c \in ClosedBatch /\ c.group_id = g /\ c.items = b
      BY <3>1 DEF ClosedBatch
    <3>3. Batch(g, b)'
      <4>1. g < group_id'
        BY <2>4
      <4>2. QED
        BY <1>3, <1>10, <1>11, <4>1, Zenon DEF Batch
    <3>4. PICK r \in Seq(ClosedBatch) : r = Append(q, c)
      <4>1. Append(q, c) \in Seq(ClosedBatch)
        BY <3>2
      <4>2. QED
        BY <4>1, Zenon
    <3>5. ASSUME NEW k \in 1 .. Len(r)
          PROVE  (k \in 1 .. Len(q) /\ r[k] = q[k]) \/ r[k] = c
      BY <3>2, <3>4
    <3>6. batch_rx' = r
      BY <2>1, <2>4, <3>1, <3>4, Zenon
    <3>7. ASSUME NEW k \in 1 .. Len(r)
          PROVE  Batch(r[k].group_id, r[k].items)'
      BY <2>2, <3>2, <3>3, <3>5, Zenon
    <3>8. QED
      BY <3>6, <3>7, Zenon DEF QueueFits
  <2>5. QED
    BY <1>5, <2>3, <2>4, Zenon
<1>15. FecTypes'
  <2>1. Original(g, n, p) \in FecMessage
    BY DEF Original, FecMessage
  <2>2. PICK c \in Seq(Packet) : c = current_batch' /\ Len(c) < BatchSize
    <3>1. <<>> \in Seq(Packet) /\ Len(<<>>) < BatchSize
      BY FecConstants
    <3>2. QED
      BY <1>5, <3>1, Zenon
  <2>3. net' \subseteq FecMessage
    BY <1>4, <2>1, Zenon DEF SenderInv, FecTypes
  <2>4. QED
    BY <1>4, <1>8, <1>14, <2>2, <2>3, Zenon DEF SenderInv, FecTypes
<1>16. BatchesStay
  BY <1>4, <1>8, <1>9, Zenon DEF BatchesStay
<1>17. CASE current_batch' = <<>> /\ group_id' = g + 1
  <2>1. Covered(group_id, current_batch)'
    <3>1. \A k \in 1 .. Len(<<>>) : FALSE
      OBVIOUS
    <3>2. QED
      BY <1>17, <3>1, Zenon DEF Covered
  <2>2. ASSUME restarted' = FALSE
        PROVE  /\ Complete(group_id, current_batch)'
               /\ \A h, i \in Nat, q \in Packet : Original(h, i, q) \in net' => h <= group_id'
    <3>1. \A h, i \in Nat, q \in Packet : Original(h, i, q) \in net' => h <= g
      BY <1>11, <2>2, Zenon
    <3>2. \A h \in Nat : h <= g => h <= group_id' /\ h # group_id'
      BY <1>17
    <3>3. QED
      BY <1>8, <3>1, <3>2, Zenon DEF Complete
  <2>3. QED
    BY <1>12, <1>13, <1>14, <1>15, <1>16, <2>1, <2>2, Zenon DEF SenderInv, OpenBatch
<1>18. CASE current_batch' = b /\ group_id' = g
  <2>1. Covered(group_id, current_batch)'
    BY <1>10, <1>18, Zenon DEF Covered
  <2>2. ASSUME restarted' = FALSE
        PROVE  /\ Complete(group_id, current_batch)'
               /\ \A h, i \in Nat, q \in Packet : Original(h, i, q) \in net' => h <= group_id'
    BY <1>11, <1>18, <2>2, Zenon DEF Complete
  <2>3. QED
    BY <1>12, <1>13, <1>14, <1>15, <1>16, <2>1, <2>2, Zenon DEF SenderInv, OpenBatch
<1>19. QED
  BY <1>5, <1>17, <1>18, Zenon

\* The parity packets of a batch come after its originals.
ParityIndex(m) ==
    Len(m.items) <= m.index /\ m.index < Len(m.items) + ParityShards(Len(m.items))

\* Parity packets for a batch that is closed leave the originals alone.
IsParity(m, g, items) ==
    /\ m \in FecMessage /\ m.parity = TRUE /\ m.group_id = g /\ m.items = items
    /\ ParityIndex(m)

LEMMA ParityFacts ==
    ASSUME NEW g \in Nat, NEW items \in Seq(Packet), NEW m \in Parity(g, items)
    PROVE  IsParity(m, g, items)
<1>1. Len(items) \in Nat /\ ParityShards(Len(items)) \in Nat
  BY DEF ParityShards
<1>2. PICK i \in 0 .. ParityShards(Len(items)) - 1 :
         m = [group_id |-> g, index |-> Len(items) + i, items |-> items, parity |-> TRUE]
  BY Zenon DEF Parity
<1>3. /\ Len(items) + i \in Nat /\ Len(items) <= Len(items) + i
      /\ Len(items) + i < Len(items) + ParityShards(Len(items))
  BY <1>1
<1>4. /\ m \in FecMessage /\ m.parity = TRUE /\ m.group_id = g /\ m.items = items
      /\ m.index = Len(items) + i
  BY <1>2, <1>3 DEF FecMessage
<1>5. QED
  BY <1>3, <1>4, Zenon DEF IsParity, ParityIndex

LEMMA NotParity ==
    ASSUME NEW g \in Nat, NEW items \in Seq(Packet), NEW h, NEW i, NEW p
    PROVE  Original(h, i, p) \notin Parity(g, items)
<1>1. ~IsParity(Original(h, i, p), g, items)
  BY DEF IsParity, Original
<1>2. QED
  BY <1>1, ParityFacts, Zenon

LEMMA ParityKeeps ==
    ASSUME SenderInv, NEW g \in Nat, NEW items \in Seq(Packet), net' = net \cup Parity(g, items),
           group_id' \in Nat, group_id <= group_id', restarted' = restarted,
           Batch(g, items)'
    PROVE  /\ net' \subseteq FecMessage /\ MessagesFit' /\ SentOnce'
           /\ \A h, i, p : Original(h, i, p) \in net' <=> Original(h, i, p) \in net
           /\ \A h \in Nat : \A b : Batch(h, b) => Batch(h, b)'
<1>1. net \subseteq FecMessage /\ group_id \in Nat
  BY Zenon DEF SenderInv, FecTypes
<1>2. net' \subseteq FecMessage
  BY <1>1, ParityFacts, Zenon DEF IsParity
<1>3. \A h, i, p : Original(h, i, p) \in net' <=> Original(h, i, p) \in net
  BY NotParity, Zenon
<1>4. ASSUME NEW h \in Nat, NEW b, Batch(h, b)
      PROVE  Batch(h, b)'
  <2>1. restarted' = FALSE => restarted = FALSE /\ group_id <= group_id'
    BY Zenon
  <2>2. QED
    BY <1>1, <1>3, <1>4, <2>1, BatchKept, Zenon
<1>5. MessagesFit'
  <2>1. ASSUME NEW m \in net
        PROVE  IF m.parity = TRUE THEN Batch(m.group_id, m.items)'
               ELSE \E q \in Packet : m = Original(m.group_id, m.index, q)
    <3>1. m.group_id \in Nat
      BY <1>1 DEF FecMessage
    <3>2. QED
      BY <1>4, <3>1, Zenon DEF SenderInv, MessagesFit
  <2>2. ASSUME NEW m \in Parity(g, items)
        PROVE  m.parity = TRUE /\ Batch(m.group_id, m.items)'
    <3>1. IsParity(m, g, items)
      BY ParityFacts, Zenon
    <3>2. QED
      BY <3>1, Zenon DEF IsParity
  <2>3. QED
    BY <2>1, <2>2, Zenon DEF MessagesFit
<1>6. SentOnce'
  BY <1>3 DEF SenderInv, SentOnce
<1>7. QED
  BY <1>2, <1>3, <1>4, <1>5, <1>6, Zenon

\* The worker sends the parity packets of a full batch.
LEMMA EncodeBatchKeepsSender ==
    ASSUME SenderInv, EncodeBatch
    PROVE  SenderInv' /\ BatchesStay
<1>1. PICK q \in Seq(ClosedBatch) : q = batch_rx
  BY Zenon DEF SenderInv, FecTypes
<1>2. q # <<>> /\ batch_rx' = Tail(q) /\ net' = net \cup Parity(Head(q).group_id, Head(q).items)
      /\ UNCHANGED <<size, current_batch, group_id, restarted, groups, delivered>>
  BY <1>1, Zenon DEF EncodeBatch
<1>3. /\ 1 \in 1 .. Len(q) /\ Head(q) = q[1] /\ Head(q) \in ClosedBatch
      /\ Tail(q) \in Seq(ClosedBatch)
      /\ \A k \in 1 .. Len(Tail(q)) : k + 1 \in 1 .. Len(q) /\ Tail(q)[k] = q[k + 1]
  BY <1>2
<1>4. PICK g \in Nat, items \in Seq(Packet) : g = Head(q).group_id /\ items = Head(q).items
  BY <1>3 DEF ClosedBatch
<1>5. Batch(g, items) /\ group_id \in Nat
  BY <1>1, <1>3, <1>4, Zenon DEF SenderInv, QueueFits, FecTypes
<1>6. Batch(g, items)'
  <2>1. net \subseteq net' /\ group_id <= group_id' /\ group_id' \in Nat
    BY <1>2, <1>5
  <2>2. \A i \in Nat, p \in Packet : Original(g, i, p) \in net' => Original(g, i, p) \in net
    BY <1>2, <1>4, NotParity, Zenon
  <2>3. QED
    BY <1>2, <1>5, <2>1, <2>2, BatchKept, Zenon
<1>7. /\ net' \subseteq FecMessage /\ MessagesFit' /\ SentOnce'
      /\ \A h, i, p : Original(h, i, p) \in net' <=> Original(h, i, p) \in net
      /\ \A h \in Nat : \A b : Batch(h, b) => Batch(h, b)'
  <2>1. group_id' \in Nat /\ group_id <= group_id'
    BY <1>2, <1>5
  <2>2. QED
    BY <1>2, <1>4, <1>6, <2>1, ParityKeeps, Zenon
<1>8. FecTypes'
  BY <1>2, <1>3, <1>7, Zenon DEF SenderInv, FecTypes
<1>9. OpenBatch'
  <2>1. Covered(group_id, current_batch)'
    BY <1>2, <1>7 DEF SenderInv, OpenBatch, Covered
  <2>2. QED
    BY <1>2, <1>7, <2>1 DEF SenderInv, OpenBatch, Complete
<1>10. QueueFits'
  <2>1. ASSUME NEW k \in 1 .. Len(Tail(q))
        PROVE  Batch(Tail(q)[k].group_id, Tail(q)[k].items)'
    <3>1. PICK b \in ClosedBatch : b = Tail(q)[k] /\ Batch(b.group_id, b.items)
      BY <1>1, <1>3 DEF SenderInv, QueueFits
    <3>2. b.group_id \in Nat
      BY DEF ClosedBatch
    <3>3. Batch(b.group_id, b.items)'
      BY <1>7, <3>1, <3>2, Zenon
    <3>4. QED
      BY <3>1, <3>3
  <2>2. QED
    BY <1>2, <2>1 DEF QueueFits
<1>11. BatchesStay
  BY <1>2, <1>7, Zenon DEF BatchesStay
<1>12. QED
  BY <1>7, <1>8, <1>9, <1>10, <1>11, Zenon DEF SenderInv

\* An empty batch, as after a batch was closed or the sender started again.
LEMMA EmptyBatch ==
    ASSUME NEW g
    PROVE  Covered(g, <<>>)' /\ <<>> \in Seq(Packet) /\ Len(<<>>) < BatchSize
<1>1. \A k \in 1 .. Len(<<>>) : FALSE
  OBVIOUS
<1>2. <<>> \in Seq(Packet) /\ Len(<<>>) < BatchSize
  BY FecConstants
<1>3. QED
  BY <1>1, <1>2, Zenon DEF Covered

\* The worker closes the open batch.
LEMMA BatchTimeoutKeepsSender ==
    ASSUME SenderInv, BatchTimeout
    PROVE  SenderInv' /\ BatchesStay
<1>1. PICK g \in Nat, items \in Seq(Packet) : g = group_id /\ items = current_batch
  BY Zenon DEF SenderInv, FecTypes
<1>2. items # <<>> /\ net' = net \cup Parity(g, items) /\ current_batch' = <<>>
      /\ group_id' = g + 1 /\ UNCHANGED <<size, batch_rx, restarted, groups, delivered>>
  BY <1>1, Zenon DEF BatchTimeout
<1>3. group_id' \in Nat /\ group_id <= group_id' /\ g < group_id'
      /\ \A h \in Nat : h <= g => h <= group_id' /\ h # group_id'
  BY <1>1, <1>2
<1>4. net \subseteq net' /\ \A i \in Nat, p \in Packet :
                             Original(g, i, p) \in net' => Original(g, i, p) \in net
  BY <1>2, NotParity, Zenon
<1>5. Covered(g, items)'
  BY <1>1, <1>4, CoveredKept, Zenon DEF SenderInv, OpenBatch
<1>6. restarted' = FALSE => Complete(g, items)'
  BY <1>1, <1>2, <1>4, CompleteKept, Zenon DEF SenderInv, OpenBatch
<1>7. Batch(g, items)'
  BY <1>2, <1>3, <1>5, <1>6, Zenon DEF Batch
<1>8. /\ net' \subseteq FecMessage /\ MessagesFit' /\ SentOnce'
      /\ \A h, i, p : Original(h, i, p) \in net' <=> Original(h, i, p) \in net
      /\ \A h \in Nat : \A b : Batch(h, b) => Batch(h, b)'
  BY <1>2, <1>3, <1>7, ParityKeeps, Zenon
<1>9. FecTypes'
  BY <1>2, <1>3, <1>8, EmptyBatch, Zenon DEF SenderInv, FecTypes
<1>10. OpenBatch'
  <2>1. Covered(group_id, current_batch)'
    BY <1>2, EmptyBatch, Zenon DEF Covered
  <2>2. ASSUME restarted' = FALSE
        PROVE  \A h, i \in Nat, p \in Packet : Original(h, i, p) \in net' => h <= g
    BY <1>1, <1>2, <1>8, <2>2, Zenon DEF SenderInv, OpenBatch
  <2>3. QED
    BY <1>3, <2>1, <2>2, Zenon DEF OpenBatch, Complete
<1>11. QueueFits'
  <2>1. PICK q \in Seq(ClosedBatch) : q = batch_rx
    BY Zenon DEF SenderInv, FecTypes
  <2>2. ASSUME NEW k \in 1 .. Len(q)
        PROVE  Batch(q[k].group_id, q[k].items)'
    <3>1. q[k].group_id \in Nat
      <4>1. q[k] \in ClosedBatch
        OBVIOUS
      <4>2. QED
        BY <4>1 DEF ClosedBatch
    <3>2. Batch(q[k].group_id, q[k].items)
      BY <2>1, Zenon DEF SenderInv, QueueFits
    <3>3. QED
      BY <1>8, <3>1, <3>2, Zenon
  <2>3. QED
    BY <1>2, <2>1, <2>2, Zenon DEF QueueFits
<1>12. BatchesStay
  BY <1>2, <1>8, Zenon DEF BatchesStay
<1>13. QED
  BY <1>8, <1>9, <1>10, <1>11, <1>12, Zenon DEF SenderInv

\* The client starts again.
LEMMA SenderRestartKeepsSender ==
    ASSUME SenderInv, SenderRestart
    PROVE  SenderInv' /\ BatchesStay
<1>1. /\ current_batch' = <<>> /\ group_id' = 0 /\ batch_rx' = <<>>
      /\ restarted' = TRUE /\ restarted' # FALSE
      /\ UNCHANGED <<size, net, groups, delivered>>
  BY DEF SenderRestart
<1>2. <<>> \in Seq(ClosedBatch) /\ 0 \in Nat /\ \A k \in 1 .. Len(<<>>) : FALSE
  OBVIOUS
<1>3. FecTypes'
  BY <1>1, <1>2, EmptyBatch, Zenon DEF SenderInv, FecTypes
<1>4. \A g, items : Batch(g, items) => Batch(g, items)'
  BY <1>1, Zenon DEF Batch, Covered
<1>5. MessagesFit'
  BY <1>1, <1>4, Zenon DEF SenderInv, MessagesFit
<1>6. SentOnce'
  BY <1>1, Zenon DEF SenderInv, SentOnce
<1>7. OpenBatch'
  BY <1>1, EmptyBatch, Zenon DEF OpenBatch, Covered
<1>8. QueueFits'
  BY <1>1, <1>2, Zenon DEF QueueFits
<1>9. BatchesStay
  BY <1>1, <1>4, Zenon DEF BatchesStay
<1>10. QED
  BY <1>3, <1>5, <1>6, <1>7, <1>8, <1>9, Zenon DEF SenderInv

\* The receiver touches nothing of the sender's but the history of what it delivered.
LEMMA SenderStays ==
    ASSUME SenderInv, UNCHANGED <<senderVars, net>>,
           delivered' \in [Packet \cup {Corrupt} -> Nat]
    PROVE  SenderInv'
<1>1. UNCHANGED <<size, current_batch, group_id, batch_rx, restarted, net>>
  BY Zenon DEF senderVars
<1>2. \A g, items : Batch(g, items)' <=> Batch(g, items)
  BY <1>1, Zenon DEF Batch, Covered, Complete
<1>3. FecTypes' /\ SentOnce' /\ OpenBatch'
  BY <1>1, Zenon DEF SenderInv, FecTypes, SentOnce, OpenBatch, Covered, Complete
<1>4. MessagesFit' /\ QueueFits'
  BY <1>1, <1>2, Zenon DEF SenderInv, MessagesFit, QueueFits
<1>5. QED
  BY <1>3, <1>4, Zenon DEF SenderInv

-----------------------------------------------------------------------------
(* The receiver *)

\* What a sender's step leaves to the receiver.
LEMMA ReceiverStays ==
    ASSUME ReceiverInv, UNCHANGED <<groups, delivered>>, BatchesStay
    PROVE  ReceiverInv'
<1>1. ASSUME NEW g \in DOMAIN groups, Settled(g, groups[g])
      PROVE  Settled(g, groups[g])'
  <2>1. PICK group : group = groups[g] /\ group = groups'[g]
    BY Zenon
  <2>2. g \in Nat
    BY Zenon DEF ReceiverInv
  <2>3. Shards(g, group) => Shards(g, group)'
    <3>1. ASSUME NEW n, NEW i, NEW shard, ShardFits(g, n, i, shard)
          PROVE  ShardFits(g, n, i, shard)'
      BY <2>2, <3>1, Zenon DEF ShardFits, BatchesStay
    <3>2. QED
      BY <3>1, Zenon DEF Shards
  <2>4. Settled(g, group)'
    BY <1>1, <2>1, <2>3, Zenon DEF Settled
  <2>5. QED
    BY <2>1, <2>4, Zenon DEF Settled, Shards
<1>2. \A p \in Packet : Noted(p) => Noted(p)'
  BY Zenon DEF Noted, BatchesStay
<1>3. QED
  BY <1>1, <1>2, Zenon DEF ReceiverInv, BatchesStay

\* The group a packet falls into.
OldGroup(g) == IF g \in DOMAIN groups THEN groups[g] ELSE NewGroup

LEMMA OldGroupShards ==
    ASSUME ReceiverInv, NEW g, ~IsDone(OldGroup(g))
    PROVE  Shards(g, OldGroup(g))
<1>1. CASE g \in DOMAIN groups
  BY <1>1, Zenon DEF OldGroup, ReceiverInv, Settled
<1>2. CASE g \notin DOMAIN groups
  <2>1. OldGroup(g) = NewGroup
    BY <1>2, Zenon DEF OldGroup
  <2>2. NewGroup.data_shards = 0 /\ DOMAIN NewGroup.shards = {}
    BY DEF NewGroup
  <2>3. Shards(g, NewGroup)
    BY <2>2 DEF Shards
  <2>4. QED
    BY <2>1, <2>3, Zenon
<1>3. QED
  BY <1>1, <1>2, Zenon

\* The group new is the group old with the packet m.
Inserted(new, old, m) ==
    /\ DOMAIN new.shards = DOMAIN old.shards \cup {m.index}
    /\ new.shards[m.index] = [items |-> m.items, parity |-> m.parity]
    /\ \A i \in DOMAIN old.shards : i # m.index => new.shards[i] = old.shards[i]
    /\ m.parity = TRUE => new.data_shards = Len(m.items) /\ new.originals = old.originals
    /\ m.parity = FALSE => new.data_shards = old.data_shards /\ new.originals = old.originals + 1

LEMMA InsertFields ==
    ASSUME NEW old, NEW m, m.parity \in BOOLEAN
    PROVE  Inserted(Insert(old, m), old, m)
BY DEF Insert, Inserted

\* What a message of the network is.
LEMMA MessageFacts ==
    ASSUME SenderInv, NEW m \in net
    PROVE  /\ m.group_id \in Nat /\ m.index \in Nat /\ m.items \in Seq(Packet)
           /\ m.parity \in BOOLEAN
           /\ m.parity = TRUE => Batch(m.group_id, m.items)
           /\ m.parity = FALSE => \E p \in Packet : m = Original(m.group_id, m.index, p)
<1>1. m \in FecMessage
  BY Zenon DEF SenderInv, FecTypes
<1>2. m.group_id \in Nat /\ m.index \in Nat /\ m.items \in Seq(Packet) /\ m.parity \in BOOLEAN
  BY <1>1 DEF FecMessage
<1>3. /\ m.parity = TRUE => Batch(m.group_id, m.items)
      /\ m.parity = FALSE => \E p \in Packet : m = Original(m.group_id, m.index, p)
  BY Zenon DEF SenderInv, MessagesFit
<1>4. QED
  BY <1>2, <1>3, Zenon

\* The packets of a batch have come under the number of the batch.
LEMMA BatchOriginal ==
    ASSUME NEW g, NEW items \in Seq(Packet), Covered(g, items), NEW i \in 0 .. Len(items) - 1
    PROVE  items[i + 1] \in Packet /\ Original(g, i, items[i + 1]) \in net
<1>1. i + 1 \in 1 .. Len(items) /\ (i + 1) - 1 = i
  OBVIOUS
<1>2. items[i + 1] \in Packet
  BY <1>1
<1>3. QED
  BY <1>1, <1>2 DEF Covered

\* The packet that receive puts into its group.
LEMMA InsertShards ==
    ASSUME SenderInv, NEW m \in net, NEW old, Shards(m.group_id, old), ~Known(old, m),
           m.parity = TRUE /\ old.data_shards # 0 => old.data_shards = Len(m.items)
    PROVE  Shards(m.group_id, Insert(old, m))
<1>1. PICK g \in Nat, j \in Nat : g = m.group_id /\ j = m.index
  BY MessageFacts, Zenon
<1>2. m.items \in Seq(Packet) /\ Len(m.items) \in Nat /\ m.parity \in BOOLEAN
  <2>1. m.items \in Seq(Packet) /\ m.parity \in BOOLEAN
    BY MessageFacts, Zenon
  <2>2. QED
    BY <2>1
<1>3. PICK new : new = Insert(old, m)
  BY Zenon
<1>4. /\ DOMAIN new.shards = DOMAIN old.shards \cup {j} /\ j \notin DOMAIN old.shards
      /\ new.shards[j] = [items |-> m.items, parity |-> m.parity]
      /\ \A i \in DOMAIN old.shards : new.shards[i] = old.shards[i]
      /\ m.parity = TRUE => new.data_shards = Len(m.items)
      /\ m.parity = FALSE => new.data_shards = old.data_shards
  <2>1. Inserted(new, old, m)
    <3>1. Inserted(Insert(old, m), old, m)
      BY <1>2, InsertFields
    <3>2. QED
      BY <1>3, <3>1, Zenon
  <2>2. QED
    BY <1>1, <2>1, Zenon DEF Known, Inserted
<1>5. new.shards[j] \in Shard /\ new.shards[j].items = m.items /\ new.shards[j].parity = m.parity
  BY <1>2, <1>4 DEF Shard
<1>6. \A i \in DOMAIN old.shards : ShardFits(g, old.data_shards, i, old.shards[i])
  BY <1>1, Zenon DEF Shards
<1>7. Shards(g, new) => Shards(m.group_id, Insert(old, m))
  BY <1>1, <1>3, Zenon
<1>8. CASE m.parity = TRUE
  <2>1. Batch(g, m.items)
    BY <1>1, <1>8, MessageFacts, Zenon
  <2>2. ShardFits(g, new.data_shards, j, new.shards[j])
    BY <1>4, <1>5, <1>8, <2>1, Zenon DEF ShardFits
  <2>3. ASSUME NEW i \in DOMAIN old.shards
        PROVE  ShardFits(g, new.data_shards, i, new.shards[i])
    <3>1. CASE old.shards[i].parity = TRUE
      <4>1. PICK items \in Seq(Packet) : items = old.shards[i].items
        BY <1>6 DEF ShardFits, Shard
      <4>2. items # <<>> /\ Len(items) = old.data_shards
        BY <1>6, <3>1, <4>1, Zenon DEF ShardFits, Batch
      <4>3. old.data_shards # 0
        BY <4>2
      <4>4. old.data_shards = new.data_shards
        BY <1>4, <1>8, <4>3, Zenon
      <4>5. QED
        BY <1>4, <1>6, <3>1, <4>4, Zenon DEF ShardFits
    <3>2. CASE old.shards[i].parity # TRUE
      BY <1>4, <1>6, <3>2, Zenon DEF ShardFits
    <3>3. QED
      BY <3>1, <3>2, Zenon
  <2>4. QED
    BY <1>7, <1>2, <1>4, <1>5, <1>8, <2>2, <2>3, Zenon DEF Shards
<1>9. CASE m.parity = FALSE
  <2>1. PICK p \in Packet : m = Original(g, j, p)
    BY <1>1, <1>9, MessageFacts, Zenon
  <2>2. m.items = <<p>>
    BY <2>1 DEF Original
  <2>3. new.shards[j].parity # TRUE
    BY <1>5, <1>9, Zenon
  <2>4. ShardFits(g, new.data_shards, j, new.shards[j])
    BY <1>5, <2>1, <2>2, <2>3, Zenon DEF ShardFits
  <2>5. \A i \in DOMAIN old.shards : ShardFits(g, new.data_shards, i, new.shards[i])
    BY <1>4, <1>6, <1>9, Zenon DEF ShardFits
  <2>6. /\ old.data_shards \in Nat
        /\ old.data_shards # 0 => \E i \in DOMAIN old.shards : old.shards[i].parity = TRUE
    BY Zenon DEF Shards
  <2>7. QED
    BY <1>7, <1>4, <1>9, <2>4, <2>5, <2>6, Zenon DEF Shards
<1>10. QED
  BY <1>2, <1>8, <1>9, Zenon

\* The batch that the parity shards of a group cover.
IsBatchOf(g, group, batch) ==
    batch \in Seq(Packet) /\ Batch(g, batch) /\ Len(batch) = group.data_shards

LEMMA CoveredBatchIs ==
    ASSUME NEW g, NEW group, Shards(g, group), group.data_shards # 0
    PROVE  IsBatchOf(g, group, CoveredBatch(group))
<1>1. \E i \in DOMAIN group.shards : group.shards[i].parity
  BY Zenon DEF Shards
<1>2. PICK c : c = CHOOSE i \in DOMAIN group.shards : group.shards[i].parity
  BY Zenon
<1>3. c \in DOMAIN group.shards /\ group.shards[c].parity
  BY <1>1, <1>2, Zenon
<1>4. ShardFits(g, group.data_shards, c, group.shards[c])
  BY <1>3, Zenon DEF Shards
<1>5. group.shards[c] \in Shard
  BY <1>4, Zenon DEF ShardFits
<1>6. group.shards[c].items \in Seq(Packet) /\ group.shards[c].parity \in BOOLEAN
  BY <1>5 DEF Shard
<1>7. IsBatchOf(g, group, group.shards[c].items)
  BY <1>3, <1>4, <1>6, Zenon DEF ShardFits, IsBatchOf
<1>8. CoveredBatch(group) = group.shards[c].items
  BY <1>2, Zenon DEF CoveredBatch
<1>9. QED
  BY <1>7, <1>8, Zenon

LEMMA SameItems ==
    ASSUME NEW s \in Seq(Packet), NEW r \in Seq(Packet), Len(s) = Len(r),
           \A k \in 1 .. Len(s) : s[k] = r[k]
    PROVE  s = r
OBVIOUS

LEMMA OneItem ==
    ASSUME NEW s \in Seq(Packet), NEW k \in 1 .. Len(s)
    PROVE  SubSeq(s, k, k) = <<s[k]>>
<1>1. PICK r : r = SubSeq(s, k, k)
  BY Zenon
<1>2. r \in Seq(Packet) /\ Len(r) = 1 /\ r[1] = s[k]
  BY <1>1
<1>3. PICK q \in Seq(Packet) : q = <<s[k]>> /\ Len(q) = 1 /\ q[1] = s[k]
  <2>1. <<s[k]>> \in Seq(Packet) /\ Len(<<s[k]>>) = 1 /\ <<s[k]>>[1] = s[k]
    OBVIOUS
  <2>2. QED
    BY <2>1, Zenon
<1>4. \A i \in 1 .. 1 : i = 1
  OBVIOUS
<1>5. r = q
  BY <1>2, <1>3, <1>4, SameItems
<1>6. QED
  BY <1>1, <1>3, <1>5, Zenon

\* Without a restart, the shards of a group come from one batch.
LEMMA SoundUnlessRestarted ==
    ASSUME SenderInv, restarted = FALSE, NEW g, NEW group, Shards(g, group),
           group.data_shards # 0
    PROVE  Sound(group)
<1>1. PICK batch \in Seq(Packet) :
         batch = CoveredBatch(group) /\ Batch(g, batch) /\ Len(batch) = group.data_shards
  BY CoveredBatchIs, Zenon DEF IsBatchOf
<1>2. Complete(g, batch)
  BY <1>1, Zenon DEF Batch
<1>3. net \subseteq FecMessage
  BY Zenon DEF SenderInv, FecTypes
<1>4. ASSUME NEW i \in DOMAIN group.shards
      PROVE  group.shards[i].items = IF group.shards[i].parity THEN batch
                                     ELSE SubSeq(batch, i + 1, i + 1)
  <2>1. PICK shard \in Shard :
           shard = group.shards[i] /\ ShardFits(g, group.data_shards, i, shard)
    BY Zenon DEF Shards, ShardFits
  <2>2. PICK items \in Seq(Packet) : items = shard.items
    BY DEF Shard
  <2>3. shard.parity \in BOOLEAN
    BY DEF Shard
  <2>4. CASE shard.parity = TRUE
    <3>1. Covered(g, items) /\ Len(items) = Len(batch)
      BY <1>1, <2>1, <2>2, <2>4, Zenon DEF ShardFits, Batch
    <3>2. ASSUME NEW k \in 1 .. Len(items)
          PROVE  items[k] = batch[k]
      <4>1. k - 1 \in Nat /\ items[k] \in Packet /\ (k - 1) + 1 = k
        OBVIOUS
      <4>2. Original(g, k - 1, items[k]) \in net
        BY <3>1 DEF Covered
      <4>3. batch[(k - 1) + 1] = items[k]
        BY <1>2, <4>1, <4>2, Zenon DEF Complete
      <4>4. QED
        BY <4>1, <4>3
    <3>3. items = batch
      BY <3>1, <3>2, SameItems
    <3>4. QED
      BY <2>1, <2>2, <2>4, <3>3, Zenon
  <2>5. CASE shard.parity = FALSE
    <3>1. PICK p \in Packet : items = <<p>> /\ Original(g, i, p) \in net
      BY <2>1, <2>2, <2>5, Zenon DEF ShardFits
    <3>2. i \in Nat
      BY <1>3, <3>1 DEF Original, FecMessage
    <3>3. i + 1 \in 1 .. Len(batch) /\ batch[i + 1] = p
      BY <1>2, <3>1, <3>2, Zenon DEF Complete
    <3>4. SubSeq(batch, i + 1, i + 1) = <<p>>
      BY <3>3, OneItem
    <3>5. QED
      BY <2>1, <2>2, <2>5, <3>1, <3>4, Zenon
  <2>6. QED
    BY <2>3, <2>4, <2>5, Zenon
<1>5. QED
  BY <1>1, <1>4, Zenon DEF Sound

\* What decode_with_rs does to a group: the group is done or keeps its shards, and
\* every packet passed on is one of the group that was not among the shards.
Fate(g, old, o) ==
    /\ Settled(g, o.group)
    /\ IsDone(o.group) \/ DOMAIN old.shards \subseteq DOMAIN o.group.shards
    /\ \A p \in o.output \cap Packet :
          \E i \in Nat : /\ Original(g, i, p) \in net /\ i \notin DOMAIN old.shards
                         /\ IsDone(o.group) \/ i \in DOMAIN o.group.shards
    /\ Corrupt \in o.output => restarted = TRUE

LEMMA DoneIsDone ==
    ASSUME NEW group, group.data_shards # 0
    PROVE  IsDone(Done(group)) /\ DOMAIN Done(group).shards = {}
<1>1. /\ Done(group).data_shards = group.data_shards /\ Done(group).originals = group.data_shards
      /\ DOMAIN Done(group).shards = {}
  BY DEF Done
<1>2. QED
  BY <1>1, Zenon DEF IsDone

\* The packets that reconstruct makes, from the shards of one batch or of several.
LEMMA Reconstructed ==
    ASSUME SenderInv, NEW g, NEW group, Shards(g, group), group.data_shards # 0,
           NEW p \in Reconstruct(group)
    PROVE  /\ p \in Packet => \E i \in Nat : Original(g, i, p) \in net /\ i \notin DOMAIN group.shards
           /\ p = Corrupt => restarted = TRUE
<1>1. PICK i \in Missing(group) : p = IF Sound(group) THEN CoveredBatch(group)[i + 1] ELSE Corrupt
  BY Zenon DEF Reconstruct
<1>2. restarted \in BOOLEAN
  BY Zenon DEF SenderInv, FecTypes
<1>3. Corrupt \notin Packet
  BY DEF Corrupt, Packet
<1>4. CASE Sound(group)
  <2>1. PICK batch \in Seq(Packet) :
           batch = CoveredBatch(group) /\ Batch(g, batch) /\ Len(batch) = group.data_shards
    BY CoveredBatchIs, Zenon DEF IsBatchOf
  <2>2. i \in 0 .. Len(batch) - 1 /\ i \notin DOMAIN group.shards
    BY <2>1, Zenon DEF Missing
  <2>3. batch[i + 1] \in Packet /\ Original(g, i, batch[i + 1]) \in net
    BY <2>1, <2>2, BatchOriginal, Zenon DEF Batch
  <2>4. i \in Nat
    BY <2>2
  <2>5. p = batch[i + 1]
    BY <1>1, <1>4, <2>1, Zenon
  <2>6. QED
    BY <1>3, <2>2, <2>3, <2>4, <2>5, Zenon
<1>5. CASE ~Sound(group)
  <2>1. p = Corrupt
    BY <1>1, <1>5, Zenon
  <2>2. restarted = TRUE
    BY <1>2, <1>5, SoundUnlessRestarted, Zenon
  <2>3. QED
    BY <1>3, <2>1, <2>2, Zenon
<1>6. QED
  BY <1>4, <1>5, Zenon

\* What reconstruct leaves behind in a group whose shards do not make packets.
LEMMA FilledShards ==
    ASSUME NEW g, NEW group, Shards(g, group), group.data_shards # 0
    PROVE  /\ Shards(g, Filled(group)) /\ DOMAIN group.shards \subseteq DOMAIN Filled(group).shards
           /\ IsDone(Filled(group)) => IsDone(group)
<1>1. PICK batch \in Seq(Packet) :
         batch = CoveredBatch(group) /\ Batch(g, batch) /\ Len(batch) = group.data_shards
  BY CoveredBatchIs, Zenon DEF IsBatchOf
<1>2. PICK new : new = Filled(group)
  BY Zenon
<1>3. PICK fill : fill = [items |-> batch, parity |-> TRUE]
  BY Zenon
<1>4. fill \in Shard /\ fill.parity = TRUE /\ fill.items = batch
  BY <1>3 DEF Shard
<1>5. ShardFits(g, group.data_shards, 0, fill) /\ \A i : ShardFits(g, group.data_shards, i, fill)
  BY <1>1, <1>4, Zenon DEF ShardFits
<1>6. /\ new.data_shards = group.data_shards /\ new.originals = group.originals
      /\ DOMAIN new.shards = DOMAIN group.shards \cup Missing(group)
      /\ \A i \in DOMAIN new.shards :
            new.shards[i] = IF i \in DOMAIN group.shards THEN group.shards[i] ELSE fill
  BY <1>1, <1>2, <1>3 DEF Filled
<1>7. Shards(g, new) /\ DOMAIN group.shards \subseteq DOMAIN new.shards
  BY <1>5, <1>6, Zenon DEF Shards
<1>8. IsDone(new) => IsDone(group)
  BY <1>6, Zenon DEF IsDone
<1>9. QED
  BY <1>2, <1>7, <1>8, Zenon

LEMMA OwnPacket ==
    ASSUME SenderInv, NEW m \in net, NEW p \in Own(m)
    PROVE  p \in Packet /\ m = Original(m.group_id, m.index, p) /\ m.index \in Nat
<1>1. m.parity \in BOOLEAN /\ m.index \in Nat
  BY MessageFacts, Zenon
<1>2. m.parity = FALSE /\ p = m.items[1]
  BY <1>1, Zenon DEF Own
<1>3. PICK q \in Packet : m = Original(m.group_id, m.index, q)
  BY <1>2, MessageFacts, Zenon
<1>4. m.items[1] = q
  BY <1>3 DEF Original
<1>5. QED
  BY <1>1, <1>2, <1>3, <1>4, Zenon

\* try_decode and decode_with_rs, on the group that the packet m has come to.
LEMMA OutcomeFate ==
    ASSUME SenderInv, NEW m \in net, NEW old, ~Known(old, m), NEW new, new = Insert(old, m),
           Shards(m.group_id, new), NEW o \in Outcomes(m, new)
    PROVE  Fate(m.group_id, old, o)
<1>1. PICK g \in Nat, j \in Nat : g = m.group_id /\ j = m.index
  BY MessageFacts, Zenon
<1>2. DOMAIN new.shards = DOMAIN old.shards \cup {j} /\ j \notin DOMAIN old.shards
  <2>1. m.parity \in BOOLEAN
    BY MessageFacts, Zenon
  <2>2. Inserted(Insert(old, m), old, m)
    BY <2>1, InsertFields
  <2>3. QED
    BY <1>1, <2>2, Zenon DEF Inserted, Known
<1>3. \A p \in Own(m) : p \in Packet /\ Original(g, j, p) \in net
  BY <1>1, OwnPacket, Zenon
<1>4. Corrupt \notin Own(m)
  <2>1. Corrupt \notin Packet
    BY DEF Corrupt, Packet
  <2>2. QED
    BY <1>3, <2>1, Zenon
<1>5. \/ o = [group |-> Done(new), output |-> Own(m), failed |-> FALSE] /\ IsDone(new)
      \/ o = [group |-> new, output |-> Own(m), failed |-> FALSE] /\ ~IsDone(new)
      \/ o = [group |-> new, output |-> {}, failed |-> TRUE] /\ ~IsDone(new)
      \/ /\ o = [group |-> Done(new), output |-> Own(m) \cup Reconstruct(new), failed |-> FALSE]
         /\ Enough(new)
      \/ /\ o = [group |-> Filled(new), output |-> {}, failed |-> TRUE]
         /\ Enough(new) /\ ~IsDone(new)
  BY Zenon DEF Outcomes, Own
<1>6. CASE o = [group |-> Done(new), output |-> Own(m), failed |-> FALSE] /\ IsDone(new)
  <2>1. IsDone(o.group) /\ DOMAIN o.group.shards = {} /\ o.output = Own(m)
    BY <1>6, DoneIsDone DEF IsDone
  <2>2. QED
    BY <1>1, <1>2, <1>3, <1>4, <2>1, Zenon DEF Fate, Settled
<1>7. CASE o = [group |-> new, output |-> Own(m), failed |-> FALSE] /\ ~IsDone(new)
  <2>1. o.group = new /\ o.output = Own(m)
    BY <1>7
  <2>2. QED
    BY <1>1, <1>2, <1>3, <1>4, <1>7, <2>1, Zenon DEF Fate, Settled
<1>8. CASE o = [group |-> new, output |-> {}, failed |-> TRUE] /\ ~IsDone(new)
  <2>1. o.group = new /\ o.output = {}
    BY <1>8
  <2>2. QED
    BY <1>1, <1>2, <1>8, <2>1, Zenon DEF Fate, Settled
<1>9. CASE /\ o = [group |-> Done(new), output |-> Own(m) \cup Reconstruct(new), failed |-> FALSE]
           /\ Enough(new)
  <2>1. new.data_shards # 0
    BY <1>9, Zenon DEF Enough
  <2>2. IsDone(o.group) /\ DOMAIN o.group.shards = {} /\ o.output = Own(m) \cup Reconstruct(new)
    BY <1>9, <2>1, DoneIsDone
  <2>3. ASSUME NEW p \in Reconstruct(new)
        PROVE  /\ p \in Packet => \E i \in Nat : Original(g, i, p) \in net /\ i \notin DOMAIN old.shards
               /\ p = Corrupt => restarted = TRUE
    BY <1>1, <1>2, <2>1, Reconstructed, Zenon
  <2>4. QED
    BY <1>1, <1>2, <1>3, <1>4, <2>2, <2>3, Zenon DEF Fate, Settled
<1>10. CASE /\ o = [group |-> Filled(new), output |-> {}, failed |-> TRUE]
            /\ Enough(new) /\ ~IsDone(new)
  <2>1. o.group = Filled(new) /\ o.output = {}
    BY <1>10
  <2>2. new.data_shards # 0
    BY <1>10, Zenon DEF Enough
  <2>3. /\ Shards(g, Filled(new)) /\ DOMAIN new.shards \subseteq DOMAIN Filled(new).shards
        /\ ~IsDone(Filled(new))
    BY <1>1, <1>10, <2>2, FilledShards, Zenon
  <2>4. QED
    BY <1>1, <1>2, <2>1, <2>3, Zenon DEF Fate, Settled
<1>11. QED
  BY <1>5, <1>6, <1>7, <1>8, <1>9, <1>10, Zenon

\* receive, with the group it finds, what becomes of the group, and the groups that
\* it forgets.
Received(m, old, o, gone) ==
    /\ old = OldGroup(m.group_id) /\ ~IsDone(old) /\ ~Known(old, m)
    /\ m.parity = TRUE /\ old.data_shards # 0 => old.data_shards = Len(m.items)
    /\ o \in Outcomes(m, Insert(old, m))
    /\ gone \subseteq DOMAIN groups \ {m.group_id}
    /\ groups' = [h \in (DOMAIN groups \cup {m.group_id}) \ gone |->
                      IF h = m.group_id THEN o.group ELSE groups[h]]
    /\ delivered' = [p \in Packet \cup {Corrupt} |->
          Cap((IF p \in PacketsOf(gone) THEN 0 ELSE delivered[p])
              + (IF p \in o.output THEN 1 ELSE 0))]
    /\ altered' = (altered \ PacketsOf(gone))
                      \cup ((o.output \ Own(m)) \cap Misflagged(Insert(old, m)))
    /\ UNCHANGED <<senderVars, net>>

LEMMA ReceiveIs ==
    ASSUME NEW m \in net, Receive(m)
    PROVE  \E old, o, gone : Received(m, old, o, gone)
<1>1. PICK old : old = OldGroup(m.group_id)
  BY Zenon
<1>2. /\ ~IsDone(old) /\ ~Known(old, m)
      /\ m.parity /\ old.data_shards # 0 => old.data_shards = Len(m.items)
      /\ UNCHANGED <<senderVars, net>>
  BY <1>1, Zenon DEF Receive, OldGroup
<1>3. PICK o \in Outcomes(m, Insert(old, m)) :
         \E gone \in IF o.failed THEN {{}} ELSE SUBSET (DOMAIN groups \ {m.group_id}) :
            /\ groups' = [h \in (DOMAIN groups \cup {m.group_id}) \ gone |->
                              IF h = m.group_id THEN o.group ELSE groups[h]]
            /\ delivered' = [p \in Packet \cup {Corrupt} |->
                  Cap((IF p \in PacketsOf(gone) THEN 0 ELSE delivered[p])
                      + (IF p \in o.output THEN 1 ELSE 0))]
            /\ altered' = (altered \ PacketsOf(gone))
                              \cup ((o.output \ Own(m)) \cap Misflagged(Insert(old, m)))
  BY <1>1, Zenon DEF Receive, OldGroup
<1>4. PICK gone \in IF o.failed THEN {{}} ELSE SUBSET (DOMAIN groups \ {m.group_id}) :
         /\ groups' = [h \in (DOMAIN groups \cup {m.group_id}) \ gone |->
                           IF h = m.group_id THEN o.group ELSE groups[h]]
         /\ delivered' = [p \in Packet \cup {Corrupt} |->
               Cap((IF p \in PacketsOf(gone) THEN 0 ELSE delivered[p])
                   + (IF p \in o.output THEN 1 ELSE 0))]
         /\ altered' = (altered \ PacketsOf(gone))
                           \cup ((o.output \ Own(m)) \cap Misflagged(Insert(old, m)))
  BY <1>3, Zenon
<1>5. gone \subseteq DOMAIN groups \ {m.group_id}
  BY <1>4, Zenon
<1>6. Received(m, old, o, gone)
  BY <1>1, <1>2, <1>3, <1>4, <1>5, Zenon DEF Received
<1>7. QED
  BY <1>6, Zenon

\* The packets of the groups that are forgotten are those sent under their numbers.
LEMMA PacketsOfOriginals ==
    ASSUME SenderInv, NEW G, NEW p \in Packet, NEW g \in Nat, NEW i \in Nat,
           Original(g, i, p) \in net
    PROVE  p \in PacketsOf(G) <=> g \in G
<1>1. /\ Original(g, i, p).group_id = g /\ Original(g, i, p).items[1] = p
      /\ ~Original(g, i, p).parity
  BY DEF Original
<1>2. g \in G => p \in PacketsOf(G)
  BY <1>1, Zenon DEF PacketsOf
<1>3. ASSUME p \in PacketsOf(G)
      PROVE  g \in G
  <2>1. PICK m \in net : ~m.parity /\ m.items[1] = p /\ m.group_id \in G
    BY <1>3, Zenon DEF PacketsOf
  <2>2. m.parity \in BOOLEAN /\ m.group_id \in Nat /\ m.index \in Nat
    BY MessageFacts, Zenon
  <2>3. PICK q \in Packet : m = Original(m.group_id, m.index, q)
    BY <2>1, <2>2, MessageFacts, Zenon
  <2>4. m.items[1] = q
    BY <2>3 DEF Original
  <2>5. Original(m.group_id, m.index, p) \in net
    BY <2>1, <2>3, <2>4, Zenon
  <2>6. g = m.group_id
    BY <2>2, <2>5, Zenon DEF SenderInv, SentOnce
  <2>7. QED
    BY <2>1, <2>6, Zenon
<1>4. QED
  BY <1>2, <1>3, Zenon

\* What receive does to the count and the flags of a packet.
Counted(o, gone, p) ==
    /\ delivered'[p] = IF p \in o.output THEN 1
                       ELSE IF p \in PacketsOf(gone) THEN 0 ELSE delivered[p]
    /\ p \in o.output => delivered[p] = 0
    /\ AsSent(p) /\ p \notin PacketsOf(gone) => AsSent(p)'

LEMMA ReceivedCounts ==
    ASSUME SenderInv, ReceiverInv, NEW m \in net, NEW old, NEW o, NEW gone,
           Received(m, old, o, gone), Fate(m.group_id, old, o)
    PROVE  /\ delivered' \in [Packet \cup {Corrupt} -> Nat]
           /\ \A p \in Packet : Counted(o, gone, p)
           /\ delivered'[Corrupt] # 0 => restarted = TRUE
<1>1. PICK d \in [Packet \cup {Corrupt} -> Nat] : d = delivered
  BY Zenon DEF SenderInv, FecTypes
<1>2. delivered' = [p \in Packet \cup {Corrupt} |->
          Cap((IF p \in PacketsOf(gone) THEN 0 ELSE d[p]) + (IF p \in o.output THEN 1 ELSE 0))]
  BY <1>1, Zenon DEF Received
<1>3. delivered' \in [Packet \cup {Corrupt} -> Nat]
  BY <1>2 DEF Cap
<1>4. Corrupt \notin Packet
  BY DEF Corrupt, Packet
<1>5. ASSUME NEW p \in Packet, p \in o.output
      PROVE  d[p] = 0
  <2>1. PICK i \in Nat : Original(m.group_id, i, p) \in net /\ i \notin DOMAIN old.shards
    BY <1>5, Zenon DEF Fate
  <2>2. m.group_id \in Nat /\ old = OldGroup(m.group_id) /\ ~IsDone(old)
    BY MessageFacts, Zenon DEF Received
  <2>3. ASSUME Noted(p)
        PROVE  FALSE
    <3>1. PICK h \in DOMAIN groups, k \in Nat :
             /\ Original(h, k, p) \in net
             /\ IsDone(groups[h]) \/ k \in DOMAIN groups[h].shards
      BY <2>3, Zenon DEF Noted
    <3>2. h \in Nat
      BY Zenon DEF ReceiverInv
    <3>3. h = m.group_id /\ k = i
      BY <2>1, <2>2, <3>1, <3>2, Zenon DEF SenderInv, SentOnce
    <3>4. QED
      BY <2>1, <2>2, <3>1, <3>3, Zenon DEF OldGroup
  <2>4. QED
    BY <1>1, <2>3, Zenon DEF ReceiverInv
<1>6. ASSUME NEW p \in Packet
      PROVE  Counted(o, gone, p)
  <2>1. d[p] \in Nat /\ d[p] <= 1
    BY <1>1, Zenon DEF ReceiverInv
  <2>2. delivered'[p] = Cap((IF p \in PacketsOf(gone) THEN 0 ELSE d[p])
                            + (IF p \in o.output THEN 1 ELSE 0))
    BY <1>2
  <2>3. CASE p \in o.output
    <3>1. d[p] = 0
      BY <1>5, <2>3, Zenon
    <3>2. delivered'[p] = 1 /\ ~AsSent(p)
      BY <1>1, <2>2, <2>3, <3>1 DEF Cap, AsSent
    <3>3. QED
      BY <1>1, <2>3, <3>1, <3>2, Zenon DEF Counted
  <2>4. CASE p \notin o.output
    <3>1. delivered'[p] = IF p \in PacketsOf(gone) THEN 0 ELSE d[p]
      BY <2>1, <2>2, <2>4 DEF Cap
    <3>2. p \notin altered => p \notin altered'
      BY <2>4, Zenon DEF Received
    <3>3. QED
      BY <1>1, <2>4, <3>1, <3>2, Zenon DEF Counted, AsSent
  <2>5. QED
    BY <2>3, <2>4, Zenon
<1>7. ASSUME delivered'[Corrupt] # 0
      PROVE  restarted = TRUE
  <2>1. Corrupt \notin PacketsOf(gone)
    BY <1>4, Zenon DEF PacketsOf
  <2>2. delivered'[Corrupt] = Cap(d[Corrupt] + (IF Corrupt \in o.output THEN 1 ELSE 0))
    BY <1>2, <2>1
  <2>3. d[Corrupt] # 0 \/ Corrupt \in o.output
    BY <1>7, <2>2 DEF Cap
  <2>4. QED
    BY <1>1, <2>3, Zenon DEF ReceiverInv, Fate
<1>8. QED
  BY <1>3, <1>6, <1>7, Zenon

\* Nothing of the sender's changes when the receiver takes a step.
LEMMA ReceivedStays ==
    ASSUME SenderInv, UNCHANGED <<senderVars, net>>
    PROVE  /\ UNCHANGED <<net, restarted, size, batch_rx, current_batch>>
           /\ \A g, items : Batch(g, items)' <=> Batch(g, items)
           /\ \A g, group : Shards(g, group)' <=> Shards(g, group)
<1>1. UNCHANGED <<size, current_batch, group_id, batch_rx, restarted, net>>
  BY Zenon DEF senderVars
<1>2. \A g, items : Batch(g, items)' <=> Batch(g, items)
  BY <1>1, Zenon DEF Batch, Covered, Complete
<1>3. \A g, n, i, shard : ShardFits(g, n, i, shard)' <=> ShardFits(g, n, i, shard)
  BY <1>1, <1>2, Zenon DEF ShardFits
<1>4. \A g, group : Shards(g, group)' <=> Shards(g, group)
  BY <1>3, Zenon DEF Shards
<1>5. QED
  BY <1>1, <1>2, <1>4, Zenon

\* The groups after receive.
GroupsAre(g, group, gone) ==
    /\ DOMAIN groups' = (DOMAIN groups \cup {g}) \ gone
    /\ g \in DOMAIN groups' /\ groups'[g] = group
    /\ \A h \in DOMAIN groups' : h # g => h \in DOMAIN groups /\ groups'[h] = groups[h]
    /\ \A h \in DOMAIN groups : h \notin gone => h \in DOMAIN groups'
    /\ g \notin gone

LEMMA ReceivedGroups ==
    ASSUME NEW m, NEW old, NEW o, NEW gone, Received(m, old, o, gone)
    PROVE  GroupsAre(m.group_id, o.group, gone)
<1>1. PICK g : g = m.group_id
  BY Zenon
<1>2. /\ gone \subseteq DOMAIN groups \ {g}
      /\ groups' = [h \in (DOMAIN groups \cup {g}) \ gone |->
                        IF h = g THEN o.group ELSE groups[h]]
  BY <1>1, Zenon DEF Received
<1>3. GroupsAre(g, o.group, gone)
  BY <1>2, Zenon DEF GroupsAre
<1>4. QED
  BY <1>1, <1>3, Zenon

\* receive
LEMMA ReceiveKeepsReceiver ==
    ASSUME SenderInv, ReceiverInv, NEW m \in net, NEW old, NEW o, NEW gone,
           Received(m, old, o, gone), Fate(m.group_id, old, o)
    PROVE  SenderInv' /\ ReceiverInv'
<1>1. PICK g \in Nat : g = m.group_id
  BY MessageFacts, Zenon
<1>2. /\ delivered' \in [Packet \cup {Corrupt} -> Nat]
      /\ \A p \in Packet : Counted(o, gone, p)
      /\ delivered'[Corrupt] # 0 => restarted = TRUE
  BY ReceivedCounts, Zenon
<1>3. UNCHANGED <<senderVars, net>> /\ old = OldGroup(g) /\ ~IsDone(old)
  BY <1>1, Zenon DEF Received
<1>4. SenderInv'
  BY <1>2, <1>3, SenderStays, Zenon
<1>5. /\ net' = net /\ restarted' = restarted
      /\ \A h, group : Shards(h, group)' <=> Shards(h, group)
  BY <1>3, ReceivedStays, Zenon
<1>6. /\ DOMAIN groups' = (DOMAIN groups \cup {g}) \ gone
      /\ g \in DOMAIN groups' /\ groups'[g] = o.group
      /\ \A h \in DOMAIN groups' : h # g => h \in DOMAIN groups /\ groups'[h] = groups[h]
      /\ \A h \in DOMAIN groups : h \notin gone => h \in DOMAIN groups'
      /\ g \notin gone
  <2>1. GroupsAre(g, o.group, gone)
    BY <1>1, ReceivedGroups, Zenon
  <2>2. QED
    BY <2>1, Zenon DEF GroupsAre
<1>7. DOMAIN groups' \subseteq Nat
  BY <1>6, Zenon DEF ReceiverInv
<1>8. ASSUME NEW h \in DOMAIN groups'
      PROVE  Settled(h, groups'[h])
  <2>1. CASE h = g
    BY <1>1, <1>6, <2>1, Zenon DEF Fate
  <2>2. CASE h # g
    BY <1>6, <2>2, Zenon DEF ReceiverInv
  <2>3. QED
    BY <2>1, <2>2, Zenon
<1>9. ASSUME NEW h \in DOMAIN groups'
      PROVE  Settled(h, groups[h])'
  <2>1. PICK group : group = groups'[h]
    BY Zenon
  <2>2. Settled(h, group)'
    BY <1>5, <1>8, <2>1, Zenon DEF Settled
  <2>3. QED
    BY <2>1, <2>2, Zenon DEF Settled, Shards
<1>10. ASSUME NEW p \in Packet
       PROVE  delivered'[p] <= 1 /\ (delivered'[p] # 0 => Noted(p)')
  <2>1. Counted(o, gone, p) /\ delivered[p] <= 1
    BY <1>2, Zenon DEF ReceiverInv
  <2>2. CASE p \in o.output
    <3>1. delivered'[p] = 1
      BY <2>1, <2>2, Zenon DEF Counted
    <3>2. PICK i \in Nat : Original(g, i, p) \in net /\ (IsDone(o.group) \/ i \in DOMAIN o.group.shards)
      BY <1>1, <2>2, Zenon DEF Fate
    <3>3. Noted(p)'
      BY <1>5, <1>6, <3>2, Zenon DEF Noted
    <3>4. QED
      BY <3>1, <3>3
  <2>3. CASE p \notin o.output /\ p \in PacketsOf(gone)
    BY <2>1, <2>3 DEF Counted
  <2>4. CASE p \notin o.output /\ p \notin PacketsOf(gone)
    <3>1. delivered'[p] = delivered[p]
      BY <2>1, <2>4, Zenon DEF Counted
    <3>2. ASSUME Noted(p)
          PROVE  Noted(p)'
      <4>1. PICK h \in DOMAIN groups, k \in Nat :
               Original(h, k, p) \in net /\ (IsDone(groups[h]) \/ k \in DOMAIN groups[h].shards)
        BY <3>2, Zenon DEF Noted
      <4>2. h \in Nat
        BY Zenon DEF ReceiverInv
      <4>3. h \in DOMAIN groups'
        BY <1>6, <2>4, <4>1, <4>2, PacketsOfOriginals, Zenon
      <4>4. IsDone(groups'[h]) \/ k \in DOMAIN groups'[h].shards
        <5>1. CASE h = g
          BY <1>1, <1>3, <1>6, <4>1, <5>1, Zenon DEF OldGroup, Fate
        <5>2. CASE h # g
          BY <1>6, <4>1, <4>3, <5>2, Zenon
        <5>3. QED
          BY <5>1, <5>2, Zenon
      <4>5. QED
        BY <1>5, <4>1, <4>3, <4>4, Zenon DEF Noted
    <3>3. QED
      BY <2>1, <3>1, <3>2, Zenon DEF ReceiverInv
  <2>5. QED
    BY <2>2, <2>3, <2>4, Zenon
<1>11. ReceiverInv'
  BY <1>2, <1>5, <1>7, <1>9, <1>10, Zenon DEF ReceiverInv
<1>12. QED
  BY <1>4, <1>11, Zenon

\* A flags byte that nobody has sent comes from a batch of several packets.
LEMMA MisflaggedAccompanied ==
    ASSUME SenderInv, NEW g \in Nat, NEW group, Shards(g, group), NEW p \in Misflagged(group)
    PROVE  p \in Packet /\ Accompanied(p)
<1>1. PICK i \in Missing(group) :
         p = CoveredBatch(group)[i + 1] /\ ~FlagsRight(group, i)
  BY Zenon DEF Misflagged
<1>2. group.data_shards \in Nat /\ group.data_shards # 1 /\ i \in 0 .. group.data_shards - 1
  BY <1>1, Zenon DEF Shards, FlagsRight, Missing
<1>3. group.data_shards # 0 /\ i \in Nat /\ i + 1 \in 1 .. group.data_shards
  BY <1>2
<1>4. PICK batch \in Seq(Packet) :
         batch = CoveredBatch(group) /\ Batch(g, batch) /\ Len(batch) = group.data_shards
  BY <1>3, CoveredBatchIs, Zenon DEF IsBatchOf
<1>5. PICK j \in Nat : j # i /\ j \in 0 .. Len(batch) - 1 /\ i \in 0 .. Len(batch) - 1
  <2>1. 0 \in 0 .. Len(batch) - 1 /\ 1 \in 0 .. Len(batch) - 1 /\ i \in 0 .. Len(batch) - 1
    BY <1>2, <1>3, <1>4
  <2>2. 0 # i \/ 1 # i
    OBVIOUS
  <2>3. QED
    BY <2>1, <2>2
<1>6. /\ batch[i + 1] \in Packet /\ Original(g, i, batch[i + 1]) \in net
      /\ batch[j + 1] \in Packet /\ Original(g, j, batch[j + 1]) \in net
  BY <1>4, <1>5, BatchOriginal, Zenon DEF Batch
<1>7. batch[j + 1] # batch[i + 1]
  BY <1>3, <1>5, <1>6, Zenon DEF SenderInv, SentOnce
<1>8. \A k, q : /\ ~Original(g, k, q).parity /\ Original(g, k, q).items[1] = q
                /\ Original(g, k, q).group_id = g
  BY DEF Original
<1>9. PICK r \in net, n \in net : r = Original(g, i, batch[i + 1]) /\ n = Original(g, j, batch[j + 1])
  BY <1>6, Zenon
<1>10. /\ ~r.parity /\ r.items[1] = batch[i + 1]
       /\ ~n.parity /\ n.items[1] = batch[j + 1] /\ n.group_id = r.group_id
  BY <1>8, <1>9, Zenon
<1>11. Accompanied(batch[i + 1])
  BY <1>7, <1>10, Zenon DEF Accompanied
<1>12. QED
  BY <1>1, <1>4, <1>6, <1>11, Zenon

LEMMA ReceiveKeepsFlags ==
    ASSUME SenderInv, FlagsInv, NEW m \in net, NEW old, NEW o, NEW gone,
           Received(m, old, o, gone), Shards(m.group_id, Insert(old, m)),
           \A p \in Packet : Counted(o, gone, p)
    PROVE  FlagsInv'
<1> SUFFICES ASSUME NEW p \in altered'
             PROVE  p \in Packet /\ delivered'[p] = 1 /\ Accompanied(p)'
  BY Zenon DEF FlagsInv
<1>1. net' = net /\ m.group_id \in Nat
  BY MessageFacts, Zenon DEF Received
<1>2. CASE p \in altered \ PacketsOf(gone)
  <2>1. p \in Packet /\ delivered[p] = 1 /\ Accompanied(p)
    BY <1>2, Zenon DEF FlagsInv
  <2>2. Counted(o, gone, p)
    BY <2>1, Zenon
  <2>3. QED
    BY <1>1, <1>2, <2>1, <2>2, Zenon DEF Counted, Accompanied
<1>3. CASE p \in o.output /\ p \in Misflagged(Insert(old, m))
  <2>1. p \in Packet /\ Accompanied(p)
    BY <1>1, <1>3, MisflaggedAccompanied, Zenon
  <2>2. Counted(o, gone, p)
    BY <2>1, Zenon
  <2>3. QED
    BY <1>1, <1>3, <2>1, <2>2, Zenon DEF Counted, Accompanied
<1>4. QED
  BY <1>2, <1>3, Zenon DEF Received

\* The packet that has just come is passed on as it was sent.
LEMMA OwnAsSent ==
    ASSUME FlagsInv, NEW m \in net, NEW old, NEW o, NEW gone, Received(m, old, o, gone),
           NEW p, Counted(o, gone, p), p \in Own(m), p \in o.output
    PROVE  AsSent(p)'
<1>1. delivered'[p] = 1 /\ delivered[p] # 1
  BY DEF Counted
<1>2. p \notin altered
  BY <1>1, Zenon DEF FlagsInv
<1>3. p \notin altered'
  BY <1>2, Zenon DEF Received
<1>4. QED
  BY <1>1, <1>3, Zenon DEF AsSent

-----------------------------------------------------------------------------
(* The invariant and what follows from it *)

\* What receive finds and leaves, once a packet is new to its group.
LEMMA ReceiveOutcome ==
    ASSUME FecInv, NEW m \in net, Receive(m)
    PROVE  \E old, o, gone : /\ Received(m, old, o, gone)
                             /\ Shards(m.group_id, Insert(old, m))
                             /\ Fate(m.group_id, old, o)
<1>1. SenderInv /\ ReceiverInv
  BY Zenon DEF FecInv
<1>2. PICK old, o, gone : Received(m, old, o, gone)
  BY ReceiveIs, Zenon
<1>3. /\ old = OldGroup(m.group_id) /\ ~IsDone(old) /\ ~Known(old, m)
      /\ m.parity = TRUE /\ old.data_shards # 0 => old.data_shards = Len(m.items)
      /\ o \in Outcomes(m, Insert(old, m))
  BY <1>2, Zenon DEF Received
<1>4. Shards(m.group_id, old)
  BY <1>1, <1>3, OldGroupShards, Zenon
<1>5. Shards(m.group_id, Insert(old, m))
  BY <1>1, <1>3, <1>4, InsertShards, Zenon
<1>6. Fate(m.group_id, old, o)
  BY <1>1, <1>3, <1>5, OutcomeFate, Zenon
<1>7. QED
  BY <1>2, <1>5, <1>6, Zenon

LEMMA FecInitHolds ==
    ASSUME FecInit
    PROVE  FecInv
<1>1. /\ size \in [Packet -> Size] /\ current_batch = <<>> /\ group_id = 0 /\ batch_rx = <<>>
      /\ net = {} /\ groups = <<>> /\ restarted = FALSE
      /\ delivered = [p \in Packet \cup {Corrupt} |-> 0] /\ altered = {}
  BY Zenon DEF FecInit
<1>2. /\ <<>> \in Seq(ClosedBatch) /\ 0 \in Nat /\ \A k \in 1 .. Len(<<>>) : FALSE
      /\ <<>> \in Seq(Packet) /\ Len(<<>>) < BatchSize /\ DOMAIN <<>> = {}
  BY FecConstants
<1>3. /\ delivered \in [Packet \cup {Corrupt} -> Nat] /\ \A p \in Packet : delivered[p] = 0
      /\ delivered[Corrupt] = 0 /\ 0 <= 1
  BY <1>1
<1>4. SenderInv
  BY <1>1, <1>2, <1>3, Zenon
     DEF SenderInv, FecTypes, MessagesFit, SentOnce, OpenBatch, QueueFits, Covered, Complete
<1>5. ReceiverInv /\ FlagsInv
  BY <1>1, <1>2, <1>3, Zenon DEF ReceiverInv, FlagsInv
<1>6. QED
  BY <1>4, <1>5, Zenon DEF FecInv

LEMMA FecStep ==
    ASSUME FecInv, [FecNext]_fecVars
    PROVE  FecInv'
<1>1. SenderInv /\ ReceiverInv /\ FlagsInv
  BY Zenon DEF FecInv
<1>2. ASSUME SenderInv', BatchesStay, UNCHANGED <<groups, delivered, altered>>
      PROVE  FecInv'
  <2>1. net \subseteq net'
    BY <1>2, Zenon DEF BatchesStay
  <2>2. ASSUME NEW p, Accompanied(p)
        PROVE  Accompanied(p)'
    <3>1. PICK n \in net, k \in net : /\ ~n.parity /\ n.items[1] = p
                                     /\ ~k.parity /\ k.items[1] # p /\ k.group_id = n.group_id
      BY <2>2, Zenon DEF Accompanied
    <3>2. n \in net' /\ k \in net'
      BY <2>1, Zenon
    <3>3. QED
      BY <3>1, <3>2, Zenon DEF Accompanied
  <2>3. FlagsInv'
    BY <1>1, <1>2, <2>2, Zenon DEF FlagsInv
  <2>4. QED
    BY <1>1, <1>2, <2>3, ReceiverStays, Zenon DEF FecInv
<1>3. ASSUME NEW p \in Packet, Encode(p)
      PROVE  FecInv'
  <2>1. SenderInv' /\ BatchesStay
    BY <1>1, <1>3, EncodeKeepsSender, Zenon
  <2>2. UNCHANGED <<groups, delivered, altered>>
    BY <1>3, Zenon DEF Encode
  <2>3. QED
    BY <1>2, <2>1, <2>2, Zenon
<1>4. CASE EncodeBatch
  <2>1. SenderInv' /\ BatchesStay
    BY <1>1, <1>4, EncodeBatchKeepsSender, Zenon
  <2>2. UNCHANGED <<groups, delivered, altered>>
    BY <1>4, Zenon DEF EncodeBatch
  <2>3. QED
    BY <1>2, <2>1, <2>2, Zenon
<1>5. CASE BatchTimeout
  <2>1. SenderInv' /\ BatchesStay
    BY <1>1, <1>5, BatchTimeoutKeepsSender, Zenon
  <2>2. UNCHANGED <<groups, delivered, altered>>
    BY <1>5, Zenon DEF BatchTimeout
  <2>3. QED
    BY <1>2, <2>1, <2>2, Zenon
<1>6. CASE SenderRestart
  <2>1. SenderInv' /\ BatchesStay
    BY <1>1, <1>6, SenderRestartKeepsSender, Zenon
  <2>2. UNCHANGED <<groups, delivered, altered>>
    BY <1>6, Zenon DEF SenderRestart
  <2>3. QED
    BY <1>2, <2>1, <2>2, Zenon
<1>7. ASSUME NEW m \in net, Receive(m)
      PROVE  FecInv'
  <2>1. PICK old, o, gone : /\ Received(m, old, o, gone) /\ Shards(m.group_id, Insert(old, m))
                            /\ Fate(m.group_id, old, o)
    BY <1>7, ReceiveOutcome, Zenon
  <2>2. \A p \in Packet : Counted(o, gone, p)
    BY <1>1, <2>1, ReceivedCounts, Zenon
  <2>3. FlagsInv'
    BY <1>1, <2>1, <2>2, ReceiveKeepsFlags, Zenon
  <2>4. QED
    BY <1>1, <2>1, <2>3, ReceiveKeepsReceiver, Zenon DEF FecInv
<1>8. CASE UNCHANGED fecVars
  <2>1. UNCHANGED <<senderVars, net, groups, delivered, altered, restarted>>
    BY <1>8, Zenon DEF fecVars, senderVars
  <2>2. SenderInv'
    <3>1. delivered' \in [Packet \cup {Corrupt} -> Nat]
      BY <1>1, <2>1, Zenon DEF SenderInv, FecTypes
    <3>2. QED
      BY <1>1, <2>1, <3>1, SenderStays, Zenon
  <2>3. BatchesStay
    BY <1>1, <2>1, ReceivedStays, Zenon DEF BatchesStay
  <2>4. QED
    BY <1>2, <2>1, <2>2, <2>3, Zenon
<1>9. QED
  BY <1>3, <1>4, <1>5, <1>6, <1>7, <1>8, Zenon DEF FecNext

\* FecInv holds at all times.
LEMMA FecInvariant == FecSpec => []FecInv
<1>1. FecInit => FecInv
  BY FecInitHolds
<1>2. FecInv /\ [FecNext]_fecVars => FecInv'
  BY FecStep
<1>3. QED
  BY <1>1, <1>2, PTL DEF FecSpec

\* receive passes no packet of a group it remembers on twice, whatever the network
\* duplicates or reorders, and however often the sender starts again.
THEOREM PacketsDeliveredOnce == FecSpec => []AtMostOnce
<1>1. FecInv => AtMostOnce
  BY Zenon DEF FecInv, ReceiverInv, AtMostOnce
<1>2. QED
  BY <1>1, FecInvariant, PTL

\* The decoder passes on no type, length or payload that was not sent, unless the
\* sender has started again and uses its group numbers a second time, and a flags byte
\* that was not sent only for a packet that shared its batch, whatever the matrix of
\* the library.
THEOREM NoPacketMadeUp == FecSpec => []NothingMadeUp
<1>1. FecInv => NothingMadeUp
  BY Zenon DEF FecInv, ReceiverInv, FlagsInv, Accompanied, NothingMadeUp
<1>2. QED
  BY <1>1, FecInvariant, PTL

-----------------------------------------------------------------------------
(* Batches that are closed *)

\* A batch that is on its way to the worker or has parity packets.
IsClosed(items) ==
    \/ \E m \in net : m.parity = TRUE /\ m.items = items
    \/ \E k \in 1 .. Len(batch_rx) : batch_rx[k].items = items

\* A packet begins one batch only.
ClosedOnce ==
    /\ \A m \in net : m.parity = TRUE => ParityIndex(m)
    /\ \A a, b \in Seq(Packet) : IsClosed(a) /\ IsClosed(b) /\ a[1] = b[1] => a = b
    /\ current_batch # <<>> => \A a \in Seq(Packet) : IsClosed(a) => a[1] # current_batch[1]

\* All that was sent under the number g belongs to one batch of equally long packets.
Sole(g, items) ==
    /\ Uniform(items)
    /\ \A n \in net : n.group_id = g =>
          IF n.parity = TRUE THEN n.items = items
          ELSE n.index + 1 \in 1 .. Len(items) /\ n.items = <<items[n.index + 1]>>

Message(g, i, shard) == [group_id |-> g, index |-> i, items |-> shard.items, parity |-> shard.parity]

Originals(group) == {i \in DOMAIN group.shards : group.shards[i].parity = FALSE}

\* A group that waits for packets: what has come is passed on, and is not enough yet.
Waiting(g, group) ==
    /\ IsFiniteSet(DOMAIN group.shards)
    /\ \A i \in DOMAIN group.shards : Message(g, i, group.shards[i]) \in net
    /\ \A i \in Originals(group) : AsSent(group.shards[i].items[1])
    /\ group.originals = Cardinality(Originals(group))
    /\ group.data_shards # 0 => Cardinality(DOMAIN group.shards) < group.data_shards

Recovered(g, items) ==
    Covered(g, items) /\ \A k \in 1 .. Len(items) : delivered[items[k]] = 1

UniformInv ==
    \A g \in DOMAIN groups, items \in Seq(Packet) :
        Sole(g, items) => IF IsDone(groups[g]) THEN Recovered(g, items)
                          ELSE Waiting(g, groups[g])

GroupInv == ClosedOnce /\ UniformInv

LEMMA ClosedWasSent ==
    ASSUME SenderInv, NEW a \in Seq(Packet), IsClosed(a)
    PROVE  a[1] \in Packet /\ 1 \in 1 .. Len(a) /\ \E g \in Nat : Original(g, 0, a[1]) \in net
<1>1. PICK g \in Nat : Batch(g, a)
  <2>1. CASE \E m \in net : m.parity = TRUE /\ m.items = a
    BY <2>1, MessageFacts, Zenon
  <2>2. CASE \E k \in 1 .. Len(batch_rx) : batch_rx[k].items = a
    <3>1. PICK q \in Seq(ClosedBatch) : q = batch_rx
      BY Zenon DEF SenderInv, FecTypes
    <3>2. PICK k \in 1 .. Len(q) : q[k].items = a
      BY <2>2, <3>1, Zenon
    <3>3. q[k] \in ClosedBatch
      OBVIOUS
    <3>4. q[k].group_id \in Nat
      BY <3>3 DEF ClosedBatch
    <3>5. Batch(q[k].group_id, a)
      BY <3>1, <3>2, Zenon DEF SenderInv, QueueFits
    <3>6. QED
      BY <3>4, <3>5, Zenon
  <2>3. QED
    BY <2>1, <2>2, Zenon DEF IsClosed
<1>2. a # <<>> /\ Covered(g, a)
  BY <1>1, Zenon DEF Batch
<1>3. 1 \in 1 .. Len(a) /\ a[1] \in Packet /\ 1 - 1 = 0
  BY <1>2
<1>4. Original(g, 1 - 1, a[1]) \in net
  BY <1>2, <1>3, Zenon DEF Covered
<1>5. QED
  BY <1>3, <1>4

\* A step that closes the batch b, or none.
LEMMA ClosedKept ==
    ASSUME ClosedOnce, NEW b,
           \A m \in net' : m.parity = TRUE => m \in net \/ ParityIndex(m),
           \A a \in Seq(Packet) : IsClosed(a)' => IsClosed(a) \/ a = b,
           \A a \in Seq(Packet) : IsClosed(a) => a[1] # b[1] \/ a = b,
           current_batch' # <<>> =>
               \A a \in Seq(Packet) : IsClosed(a)' => a[1] # current_batch'[1]
    PROVE  ClosedOnce'
<1>1. ASSUME NEW a \in Seq(Packet), NEW c \in Seq(Packet), IsClosed(a)', IsClosed(c)', a[1] = c[1]
      PROVE  a = c
  BY <1>1, Zenon DEF ClosedOnce
<1>2. \A m \in net' : m.parity = TRUE => ParityIndex(m)
  BY Zenon DEF ClosedOnce
<1>3. QED
  BY <1>1, <1>2, Zenon DEF ClosedOnce

LEMMA EncodeKeepsClosed ==
    ASSUME SenderInv, ClosedOnce, NEW p \in Packet, Encode(p)
    PROVE  ClosedOnce'
<1>1. PICK old \in Seq(Packet), g \in Nat : old = current_batch /\ g = group_id
  BY Zenon DEF SenderInv, FecTypes
<1>2. PICK b \in Seq(Packet) : b = Append(old, p)
  BY Appended, Zenon
<1>3. b # <<>> /\ b[1] = IF old = <<>> THEN p ELSE old[1]
  BY <1>2
<1>4. /\ net' = net \cup {Original(g, Len(old), p)} /\ Sent = 1 .. p - 1
      /\ \/ /\ current_batch' = <<>>
            /\ batch_rx' = batch_rx \/ batch_rx' = Append(batch_rx, [group_id |-> g, items |-> b])
         \/ current_batch' = b /\ batch_rx' = batch_rx
  BY <1>1, <1>2, Zenon DEF Encode, Original
<1>5. Original(g, Len(old), p).parity # TRUE
  BY DEF Original
<1>6. ASSUME NEW a \in Seq(Packet), IsClosed(a)
      PROVE  a[1] # b[1]
  <2>1. CASE old = <<>>
    <3>1. p \notin Sent
      BY <1>4 DEF Packet
    <3>2. a[1] # p
      BY <1>6, <3>1, ClosedWasSent, Unsent, Zenon
    <3>3. QED
      BY <1>3, <2>1, <3>2, Zenon
  <2>2. CASE old # <<>>
    BY <1>1, <1>3, <1>6, <2>2, Zenon DEF ClosedOnce
  <2>3. QED
    BY <2>1, <2>2, Zenon
<1>7. ASSUME NEW a \in Seq(Packet), IsClosed(a)'
      PROVE  IsClosed(a) \/ (a = b /\ current_batch' = <<>>)
  <2>1. CASE \E m \in net' : m.parity = TRUE /\ m.items = a
    BY <1>4, <1>5, <2>1, Zenon DEF IsClosed
  <2>2. CASE \E k \in 1 .. Len(batch_rx') : batch_rx'[k].items = a
    <3>1. CASE batch_rx' = batch_rx
      BY <2>2, <3>1, Zenon DEF IsClosed
    <3>2. CASE current_batch' = <<>> /\ batch_rx' = Append(batch_rx, [group_id |-> g, items |-> b])
      <4>1. PICK q \in Seq(ClosedBatch) : q = batch_rx
        BY Zenon DEF SenderInv, FecTypes
      <4>2. PICK c : c = [group_id |-> g, items |-> b]
        BY Zenon
      <4>3. PICK k \in 1 .. Len(Append(q, c)) : Append(q, c)[k].items = a
        BY <2>2, <3>2, <4>1, <4>2, Zenon
      <4>4. (k \in 1 .. Len(q) /\ Append(q, c)[k] = q[k]) \/ Append(q, c)[k] = c
        OBVIOUS
      <4>5. c.items = b
        BY <4>2
      <4>6. QED
        BY <3>2, <4>1, <4>3, <4>4, <4>5, Zenon DEF IsClosed
    <3>3. QED
      BY <1>4, <3>1, <3>2, Zenon
  <2>3. QED
    BY <1>7, <2>1, <2>2, Zenon DEF IsClosed
<1>8. current_batch' # <<>> => \A a \in Seq(Packet) : IsClosed(a)' => a[1] # current_batch'[1]
  BY <1>4, <1>6, <1>7, Zenon
<1>9. \A m \in net' : m.parity = TRUE => m \in net \/ ParityIndex(m)
  BY <1>4, <1>5, Zenon
<1>10. QED
  BY <1>6, <1>7, <1>8, <1>9, ClosedKept, Zenon

LEMMA EncodeBatchKeepsClosed ==
    ASSUME SenderInv, ClosedOnce, EncodeBatch
    PROVE  ClosedOnce'
<1>1. PICK q \in Seq(ClosedBatch) : q = batch_rx
  BY Zenon DEF SenderInv, FecTypes
<1>2. q # <<>> /\ batch_rx' = Tail(q) /\ net' = net \cup Parity(Head(q).group_id, Head(q).items)
      /\ current_batch' = current_batch
  BY <1>1, Zenon DEF EncodeBatch
<1>3. /\ 1 \in 1 .. Len(q) /\ Head(q) = q[1] /\ Head(q) \in ClosedBatch
      /\ \A k \in 1 .. Len(Tail(q)) : k + 1 \in 1 .. Len(q) /\ Tail(q)[k] = q[k + 1]
  BY <1>2
<1>4. PICK g \in Nat, items \in Seq(Packet) : g = Head(q).group_id /\ items = Head(q).items
  BY <1>3 DEF ClosedBatch
<1>5. ASSUME NEW a \in Seq(Packet), IsClosed(a)'
      PROVE  IsClosed(a)
  <2>1. CASE \E m \in net' : m.parity = TRUE /\ m.items = a
    <3>1. PICK m \in net' : m.parity = TRUE /\ m.items = a
      BY <2>1, Zenon
    <3>2. CASE m \in net
      BY <3>1, <3>2, Zenon DEF IsClosed
    <3>3. CASE m \in Parity(g, items)
      <4>1. m.items = items
        <5>1. IsParity(m, g, items)
          BY <3>3, ParityFacts, Zenon
        <5>2. QED
          BY <5>1, Zenon DEF IsParity
      <4>2. QED
        BY <1>1, <1>3, <1>4, <3>1, <4>1, Zenon DEF IsClosed
    <3>4. QED
      BY <1>2, <1>4, <3>2, <3>3, Zenon
  <2>2. CASE \E k \in 1 .. Len(batch_rx') : batch_rx'[k].items = a
    BY <1>1, <1>2, <1>3, <2>2, Zenon DEF IsClosed
  <2>3. QED
    BY <1>5, <2>1, <2>2, Zenon DEF IsClosed
<1>6. \A m \in net' : m.parity = TRUE => m \in net \/ ParityIndex(m)
  BY <1>2, <1>4, ParityFacts, Zenon DEF IsParity
<1>7. \A a \in Seq(Packet) : IsClosed(a) => a[1] # items[1] \/ a = items
  BY <1>1, <1>3, <1>4, Zenon DEF ClosedOnce, IsClosed
<1>8. current_batch' # <<>> => \A a \in Seq(Packet) : IsClosed(a)' => a[1] # current_batch'[1]
  BY <1>2, <1>5, Zenon DEF ClosedOnce
<1>9. QED
  BY <1>5, <1>6, <1>7, <1>8, ClosedKept, Zenon

LEMMA BatchTimeoutKeepsClosed ==
    ASSUME SenderInv, ClosedOnce, BatchTimeout
    PROVE  ClosedOnce'
<1>1. PICK g \in Nat, items \in Seq(Packet) : g = group_id /\ items = current_batch
  BY Zenon DEF SenderInv, FecTypes
<1>2. items # <<>> /\ net' = net \cup Parity(g, items) /\ current_batch' = <<>> /\ batch_rx' = batch_rx
  BY <1>1, Zenon DEF BatchTimeout
<1>3. ASSUME NEW a \in Seq(Packet), IsClosed(a)'
      PROVE  IsClosed(a) \/ a = items
  <2>1. CASE \E m \in net' : m.parity = TRUE /\ m.items = a
    <3>1. PICK m \in net' : m.parity = TRUE /\ m.items = a
      BY <2>1, Zenon
    <3>2. CASE m \in net
      BY <3>1, <3>2, Zenon DEF IsClosed
    <3>3. CASE m \in Parity(g, items)
      <4>1. m.items = items
        <5>1. IsParity(m, g, items)
          BY <3>3, ParityFacts, Zenon
        <5>2. QED
          BY <5>1, Zenon DEF IsParity
      <4>2. QED
        BY <3>1, <4>1, Zenon
    <3>4. QED
      BY <1>2, <3>2, <3>3, Zenon
  <2>2. CASE \E k \in 1 .. Len(batch_rx') : batch_rx'[k].items = a
    BY <1>2, <2>2, Zenon DEF IsClosed
  <2>3. QED
    BY <1>3, <2>1, <2>2, Zenon DEF IsClosed
<1>4. \A m \in net' : m.parity = TRUE => m \in net \/ ParityIndex(m)
  BY <1>2, ParityFacts, Zenon DEF IsParity
<1>5. \A a \in Seq(Packet) : IsClosed(a) => a[1] # items[1]
  BY <1>1, <1>2, Zenon DEF ClosedOnce
<1>6. QED
  BY <1>2, <1>3, <1>4, <1>5, ClosedKept, Zenon

LEMMA SenderRestartKeepsClosed ==
    ASSUME SenderInv, ClosedOnce, SenderRestart
    PROVE  ClosedOnce'
<1>1. net' = net /\ batch_rx' = <<>> /\ current_batch' = <<>>
  BY Zenon DEF SenderRestart
<1>2. \A k \in 1 .. Len(<<>>) : FALSE
  OBVIOUS
<1>3. \A a : IsClosed(a)' => IsClosed(a)
  BY <1>1, <1>2, Zenon DEF IsClosed
<1>4. QED
  BY <1>1, <1>3, Zenon DEF ClosedOnce

LEMMA ClosedStays ==
    ASSUME ClosedOnce, UNCHANGED <<net, batch_rx, current_batch>>
    PROVE  ClosedOnce'
<1>1. \A a : IsClosed(a)' => IsClosed(a)
  BY Zenon DEF IsClosed
<1>2. QED
  BY <1>1, Zenon DEF ClosedOnce

\* Once the packets of a batch are equally long and its number is its own, all that
\* was sent under the number belongs to the batch.
LEMMA SoleIs ==
    ASSUME SenderInv, ClosedOnce, NEW m \in net, m.parity = TRUE, Uniform(m.items), OwnGroup(m)
    PROVE  Sole(m.group_id, m.items)
<1>1. PICK g \in Nat, items \in Seq(Packet) : g = m.group_id /\ items = m.items
  BY MessageFacts, Zenon
<1>2. items # <<>> /\ Covered(g, items)
  BY <1>1, MessageFacts, Zenon DEF Batch
<1>3. ASSUME NEW p \in Packet, NEW i \in Nat, Original(g, i, p) \in net, p \in Range(items)
      PROVE  i + 1 \in 1 .. Len(items) /\ items[i + 1] = p
  <2>1. PICK k \in 1 .. Len(items) : p = items[k]
    BY <1>3 DEF Range
  <2>2. k - 1 \in Nat /\ (k - 1) + 1 = k
    OBVIOUS
  <2>3. Original(g, k - 1, p) \in net
    BY <1>2, <2>1 DEF Covered
  <2>4. i = k - 1
    BY <1>3, <2>2, <2>3, Zenon DEF SenderInv, SentOnce
  <2>5. QED
    BY <2>1, <2>2, <2>4
<1>4. ASSUME NEW n \in net, n.group_id = g
      PROVE  IF n.parity = TRUE THEN n.items = items
             ELSE n.index + 1 \in 1 .. Len(items) /\ n.items = <<items[n.index + 1]>>
  <2>1. Range(n.items) \subseteq Range(items)
    BY <1>1, <1>4, Zenon DEF OwnGroup
  <2>2. n.parity \in BOOLEAN /\ n.index \in Nat
    BY MessageFacts, Zenon
  <2>3. CASE n.parity = TRUE
    <3>1. PICK b \in Seq(Packet) : b = n.items
      BY MessageFacts, Zenon
    <3>2. b # <<>> /\ Covered(g, b)
      BY <1>4, <2>3, <3>1, MessageFacts, Zenon DEF Batch
    <3>3. 1 \in 1 .. Len(b) /\ b[1] \in Packet /\ b[1] \in Range(b) /\ 1 - 1 = 0 /\ 0 \in Nat
      BY <3>2 DEF Range
    <3>4. Original(g, 1 - 1, b[1]) \in net
      BY <3>2, <3>3, Zenon DEF Covered
    <3>5. Original(g, 0, b[1]) \in net
      BY <3>3, <3>4
    <3>6. items[0 + 1] = b[1]
      BY <1>3, <2>1, <3>1, <3>3, <3>5, Zenon
    <3>7. items[1] = b[1]
      BY <3>6
    <3>8. IsClosed(b) /\ IsClosed(items)
      BY <1>1, <2>3, <3>1, Zenon DEF IsClosed
    <3>9. b = items
      BY <3>7, <3>8, Zenon DEF ClosedOnce
    <3>10. QED
      BY <2>3, <3>1, <3>9, Zenon
  <2>4. CASE n.parity = FALSE
    <3>1. PICK p \in Packet : n = Original(g, n.index, p)
      BY <1>4, <2>4, MessageFacts, Zenon
    <3>2. n.items = <<p>> /\ n.parity # TRUE
      <4>1. \A j : Original(g, j, p).items = <<p>> /\ Original(g, j, p).parity # TRUE
        BY DEF Original
      <4>2. QED
        BY <3>1, <4>1, Zenon
    <3>3. p \in Range(n.items)
      BY <3>2 DEF Range
    <3>4. n.index + 1 \in 1 .. Len(items) /\ items[n.index + 1] = p
      BY <1>3, <2>1, <2>2, <3>1, <3>3, Zenon
    <3>5. QED
      BY <3>2, <3>4, Zenon
  <2>5. QED
    BY <2>2, <2>3, <2>4, Zenon
<1>5. Sole(g, items)
  BY <1>1, <1>4, Zenon DEF Sole
<1>6. QED
  BY <1>1, <1>5, Zenon

-----------------------------------------------------------------------------
(* Groups of equally long packets *)

\* What a sender's step leaves to such a group.
LEMMA UniformStays ==
    ASSUME UniformInv, net \subseteq net', UNCHANGED <<size, groups, delivered, altered>>
    PROVE  UniformInv'
<1>1. ASSUME NEW g, NEW items, Sole(g, items)'
      PROVE  Sole(g, items)
  BY <1>1, Zenon DEF Sole, Uniform
<1>2. ASSUME NEW g, NEW items, Recovered(g, items)
      PROVE  Recovered(g, items)'
  BY <1>2, CoveredKept, Zenon DEF Recovered
<1>3. ASSUME NEW g, NEW group, Waiting(g, group)
      PROVE  Waiting(g, group)'
  BY <1>3, Zenon DEF Waiting, AsSent
<1>4. ASSUME NEW g \in DOMAIN groups', NEW items \in Seq(Packet), Sole(g, items)'
      PROVE  IF IsDone(groups'[g]) THEN Recovered(g, items)' ELSE Waiting(g, groups[g])'
  <2>1. PICK group : group = groups[g] /\ group = groups'[g]
    BY Zenon
  <2>2. IF IsDone(group) THEN Recovered(g, items)' ELSE Waiting(g, group)'
    BY <1>1, <1>2, <1>3, <1>4, <2>1, Zenon DEF UniformInv
  <2>3. QED
    BY <2>1, <2>2, Zenon DEF Waiting, AsSent
<1>5. QED
  BY <1>4, Zenon DEF UniformInv

\* Where a shard belongs in its batch.
Placed(items, i, shard) ==
    /\ i \in Nat /\ shard.parity \in BOOLEAN
    /\ shard.parity = TRUE =>
          /\ shard.items = items /\ Len(items) <= i
          /\ i < Len(items) + ParityShards(Len(items))
    /\ shard.parity = FALSE => i + 1 \in 1 .. Len(items) /\ shard.items = <<items[i + 1]>>

LEMMA ShardPlaced ==
    ASSUME SenderInv, ClosedOnce, NEW g, NEW items \in Seq(Packet), Sole(g, items),
           NEW i, NEW shard, Message(g, i, shard) \in net
    PROVE  Placed(items, i, shard)
<1>1. PICK n \in net : n = Message(g, i, shard)
  BY Zenon
<1>2. n.group_id = g /\ n.index = i /\ n.items = shard.items /\ n.parity = shard.parity
  BY <1>1 DEF Message
<1>3. n.index \in Nat /\ n.parity \in BOOLEAN
  BY MessageFacts, Zenon
<1>4. IF n.parity = TRUE THEN n.items = items
      ELSE n.index + 1 \in 1 .. Len(items) /\ n.items = <<items[n.index + 1]>>
  BY <1>2, Zenon DEF Sole
<1>5. CASE n.parity = TRUE
  <2>1. ParityIndex(n) /\ n.items = items
    BY <1>4, <1>5, Zenon DEF ClosedOnce
  <2>2. Len(items) <= n.index /\ n.index < Len(items) + ParityShards(Len(items))
    BY <2>1, Zenon DEF ParityIndex
  <2>3. QED
    BY <1>2, <1>3, <1>5, <2>1, <2>2, Zenon DEF Placed
<1>6. CASE n.parity = FALSE
  BY <1>2, <1>3, <1>4, <1>6, Zenon DEF Placed
<1>7. QED
  BY <1>3, <1>5, <1>6, Zenon

\* The packets that have been counted stay counted while their group is remembered.
LEMMA StillCounted ==
    ASSUME SenderInv, NEW o, NEW gone, NEW p \in Packet, Counted(o, gone, p),
           NEW h \in Nat, NEW i \in Nat, Original(h, i, p) \in net, h \notin gone,
           delivered[p] = 1
    PROVE  delivered'[p] = 1 /\ (AsSent(p) => AsSent(p)')
<1>1. p \notin PacketsOf(gone)
  BY PacketsOfOriginals, Zenon
<1>2. QED
  BY <1>1, Zenon DEF Counted

\* An original among the shards of a group.
LEMMA OriginalShard ==
    ASSUME SenderInv, NEW g, NEW i, NEW shard, Message(g, i, shard) \in net, shard.parity = FALSE
    PROVE  /\ g \in Nat /\ i \in Nat /\ shard.items[1] \in Packet
           /\ Original(g, i, shard.items[1]) \in net
<1>1. PICK n \in net : n = Message(g, i, shard)
  BY Zenon
<1>2. n.group_id = g /\ n.index = i /\ n.items = shard.items /\ n.parity = shard.parity
  BY <1>1 DEF Message
<1>3. n.group_id \in Nat /\ n.index \in Nat
  BY MessageFacts, Zenon
<1>4. PICK p \in Packet : n = Original(n.group_id, n.index, p)
  BY <1>2, MessageFacts, Zenon
<1>5. Original(g, i, p) \in net /\ n = Original(g, i, p)
  BY <1>2, <1>4, Zenon
<1>6. n.items[1] = p
  BY <1>5 DEF Original
<1>7. QED
  BY <1>2, <1>3, <1>5, <1>6, Zenon

\* A group that no packet has come to.
LEMMA WaitingStays ==
    ASSUME SenderInv, NEW o, NEW gone, \A p \in Packet : Counted(o, gone, p),
           NEW h \in Nat, h \notin gone, NEW group, Waiting(h, group), net' = net
    PROVE  Waiting(h, group)'
<1>1. ASSUME NEW i \in Originals(group)
      PROVE  AsSent(group.shards[i].items[1])'
  <2>1. PICK p : p = group.shards[i].items[1]
    BY Zenon
  <2>2. i \in DOMAIN group.shards /\ group.shards[i].parity = FALSE
    BY Zenon DEF Originals
  <2>3. Message(h, i, group.shards[i]) \in net /\ AsSent(p) /\ delivered[p] = 1
    BY <2>1, <2>2, Zenon DEF Waiting, AsSent
  <2>4. i \in Nat /\ p \in Packet /\ Original(h, i, p) \in net
    BY <2>1, <2>2, <2>3, OriginalShard, Zenon
  <2>5. AsSent(p)'
    BY <2>3, <2>4, StillCounted, Zenon
  <2>6. QED
    BY <2>1, <2>5, Zenon DEF AsSent
<1>2. QED
  BY <1>1, Zenon DEF Waiting

LEMMA RecoveredStays ==
    ASSUME SenderInv, NEW o, NEW gone, \A p \in Packet : Counted(o, gone, p),
           NEW h \in Nat, h \notin gone, NEW items \in Seq(Packet), Recovered(h, items), net' = net
    PROVE  Recovered(h, items)'
<1>1. ASSUME NEW k \in 1 .. Len(items)
      PROVE  delivered'[items[k]] = 1
  <2>1. k - 1 \in Nat /\ items[k] \in Packet
    OBVIOUS
  <2>2. Original(h, k - 1, items[k]) \in net /\ delivered[items[k]] = 1
    BY Zenon DEF Recovered, Covered
  <2>3. QED
    BY <2>1, <2>2, StillCounted, Zenon
<1>2. Covered(h, items)'
  BY CoveredKept, Zenon DEF Recovered
<1>3. QED
  BY <1>1, <1>2, Zenon DEF Recovered

\* What is true of the group once the packet is in it.
Joined(g, old, new, m) ==
    /\ IsFiniteSet(DOMAIN new.shards) /\ Cardinality(DOMAIN new.shards) \in Nat
    /\ \A i \in DOMAIN new.shards : Message(g, i, new.shards[i]) \in net
    /\ new.originals = Cardinality(Originals(new))
    /\ \A i \in Originals(new) :
          \/ i \in Originals(old) /\ new.shards[i] = old.shards[i]
          \/ new.shards[i].items[1] \in Own(m)

\* The originals that have come are passed on, if receive passes its packet on.
PassedOn(group) == \A i \in Originals(group) : AsSent(group.shards[i].items[1])'

LEMMA JoinedCounts ==
    ASSUME SenderInv, FlagsInv, NEW m \in net, NEW old, Waiting(m.group_id, old),
           NEW new, Joined(m.group_id, old, new, m), NEW o, NEW gone, Received(m, old, o, gone),
           \A p \in Packet : Counted(o, gone, p), Own(m) \subseteq o.output,
           m.group_id \notin gone
    PROVE  PassedOn(new)
<1> SUFFICES ASSUME NEW i \in Originals(new)
             PROVE  AsSent(new.shards[i].items[1])'
  BY Zenon DEF PassedOn
<1>1. PICK p : p = new.shards[i].items[1]
  BY Zenon
<1>2. PICK g \in Nat : g = m.group_id
  BY MessageFacts, Zenon
<1>3. CASE p \in Own(m)
  <2>1. p \in Packet
    BY <1>3, OwnPacket, Zenon
  <2>2. Counted(o, gone, p) /\ p \in o.output
    BY <1>3, <2>1, Zenon
  <2>3. AsSent(p)'
    BY <1>3, <2>2, OwnAsSent, Zenon
  <2>4. QED
    BY <1>1, <2>3, Zenon DEF AsSent
<1>4. CASE i \in Originals(old) /\ new.shards[i] = old.shards[i]
  <2>1. p = old.shards[i].items[1] /\ old.shards[i].parity = FALSE
    BY <1>1, <1>4, Zenon DEF Originals
  <2>2. AsSent(p) /\ delivered[p] = 1 /\ Message(g, i, old.shards[i]) \in net
    BY <1>2, <1>4, <2>1, Zenon DEF Waiting, Originals, AsSent
  <2>3. i \in Nat /\ p \in Packet /\ Original(g, i, p) \in net
    BY <2>1, <2>2, OriginalShard, Zenon
  <2>4. AsSent(p)'
    BY <1>2, <2>2, <2>3, StillCounted, Zenon
  <2>5. QED
    BY <1>1, <2>4, Zenon DEF AsSent
<1>5. QED
  BY <1>1, <1>3, <1>4, Zenon DEF Joined

AllPlaced(items, group) == \A i \in DOMAIN group.shards : Placed(items, i, group.shards[i])

\* The parity shards of such a group cover its batch.
LEMMA CoversItems ==
    ASSUME NEW g, NEW group, Shards(g, group), group.data_shards # 0,
           NEW items \in Seq(Packet), AllPlaced(items, group)
    PROVE  /\ CoveredBatch(group) = items /\ Len(items) = group.data_shards /\ Batch(g, items)
           /\ group.data_shards \in Nat
<1>1. \E i \in DOMAIN group.shards : group.shards[i].parity
  BY Zenon DEF Shards
<1>2. PICK c : c = CHOOSE i \in DOMAIN group.shards : group.shards[i].parity
  BY Zenon
<1>3. c \in DOMAIN group.shards /\ group.shards[c].parity
  BY <1>1, <1>2, Zenon
<1>4. group.shards[c].items = items
  BY <1>3, Zenon DEF AllPlaced, Placed
<1>5. CoveredBatch(group) = items
  BY <1>2, <1>4, Zenon DEF CoveredBatch
<1>6. IsBatchOf(g, group, CoveredBatch(group))
  BY CoveredBatchIs, Zenon
<1>7. QED
  BY <1>5, <1>6, Zenon DEF IsBatchOf, Shards

LEMMA MaxIs ==
    ASSUME NEW S \in SUBSET Nat, NEW x \in S, \A y \in S : y <= x
    PROVE  Max(S) = x
<1>1. \A y \in S : x >= y
  OBVIOUS
<1>2. PICK z : z = Max(S)
  BY Zenon
<1>3. z \in S /\ \A y \in S : z >= y
  BY <1>1, <1>2, Zenon DEF Max
<1>4. z = x
  BY <1>3
<1>5. QED
  BY <1>2, <1>4, Zenon

LEMMA SlotsFit ==
    ASSUME NEW group, NEW items \in Seq(Packet), AllPlaced(items, group),
           Len(items) = group.data_shards
    PROVE  Slots(group) = group.data_shards + ParityShards(group.data_shards)
<1>1. PICK d \in Nat : d = Len(items)
  OBVIOUS
<1>2. PICK n \in Nat : n = d + ParityShards(d) /\ d <= n
  BY DEF ParityShards
<1>3. PICK S : S = {i + 1 : i \in DOMAIN group.shards} \cup {n}
  BY Zenon
<1>4. ASSUME NEW i \in DOMAIN group.shards
      PROVE  i + 1 \in Nat /\ i + 1 <= n
  <2>1. Placed(items, i, group.shards[i])
    BY Zenon DEF AllPlaced
  <2>2. i \in Nat /\ group.shards[i].parity \in BOOLEAN
    BY <2>1, Zenon DEF Placed
  <2>3. i < n
    <3>1. CASE group.shards[i].parity = TRUE
      BY <1>1, <1>2, <2>1, <3>1, Zenon DEF Placed
    <3>2. CASE group.shards[i].parity = FALSE
      <4>1. i + 1 \in 1 .. d
        BY <1>1, <2>1, <3>2, Zenon DEF Placed
      <4>2. QED
        BY <1>2, <2>2, <4>1
    <3>3. QED
      BY <2>2, <3>1, <3>2, Zenon
  <2>4. QED
    BY <2>2, <2>3
<1>5. S \in SUBSET Nat /\ n \in S /\ \A y \in S : y <= n
  BY <1>3, <1>4
<1>6. Max(S) = n
  BY <1>5, MaxIs
<1>7. QED
  BY <1>1, <1>2, <1>3, <1>6, Zenon DEF Slots

\* The shards of equally long packets agree in length.
LEMMA ShardLens ==
    ASSUME SenderInv, NEW items \in Seq(Packet), items # <<>>, Uniform(items), NEW i, NEW shard,
           Placed(items, i, shard)
    PROVE  ShardLen(shard) = size[items[1]]
<1>1. PICK z \in Nat : z = size[items[1]]
  <2>1. items[1] \in Packet
    OBVIOUS
  <2>2. size \in [Packet -> Size] /\ Size \subseteq Nat
    BY FecConstants, Zenon DEF SenderInv, FecTypes
  <2>3. size[items[1]] \in Nat
    BY <2>1, <2>2, Zenon
  <2>4. QED
    BY <2>3, Zenon
<1>2. \A k \in 1 .. Len(items) : size[items[k]] = z
  <2>1. DOMAIN items = 1 .. Len(items) /\ 1 \in 1 .. Len(items)
    OBVIOUS
  <2>2. QED
    BY <1>1, <2>1, Zenon DEF Uniform
<1>3. {size[p] : p \in Range(shard.items)} = {z}
  <2>1. CASE shard.parity = TRUE
    <3>1. shard.items = items
      BY <2>1, Zenon DEF Placed
    <3>2. \A p : p \in Range(items) <=> \E k \in 1 .. Len(items) : p = items[k]
      BY DEF Range
    <3>3. items[1] \in Range(items) /\ size[items[1]] = z
      <4>1. 1 \in 1 .. Len(items)
        OBVIOUS
      <4>2. QED
        BY <1>2, <3>2, <4>1, Zenon
    <3>4. \A p \in Range(items) : size[p] = z
      BY <1>2, <3>2, Zenon
    <3>5. {size[p] : p \in Range(items)} = {z}
      BY <3>3, <3>4, Zenon
    <3>6. QED
      BY <3>1, <3>5, Zenon
  <2>2. CASE shard.parity = FALSE
    <3>1. i + 1 \in 1 .. Len(items) /\ shard.items = <<items[i + 1]>>
      BY <2>2, Zenon DEF Placed
    <3>2. Range(<<items[i + 1]>>) = {items[i + 1]}
      <4>1. PICK s : s = <<items[i + 1]>>
        BY Zenon
      <4>2. DOMAIN s = {1} /\ s[1] = items[i + 1]
        BY <4>1
      <4>3. Range(s) = {s[1]}
        BY <4>2, Zenon DEF Range
      <4>4. QED
        BY <4>1, <4>2, <4>3, Zenon
    <3>3. QED
      BY <1>2, <3>1, <3>2, Zenon
  <2>3. QED
    BY <2>1, <2>2, Zenon DEF Placed
<1>4. Max({z}) = z
  BY MaxIs
<1>5. QED
  BY <1>1, <1>3, <1>4, Zenon DEF ShardLen

\* The shards come from one batch.
LEMMA IsSound ==
    ASSUME NEW group, NEW items \in Seq(Packet), AllPlaced(items, group),
           CoveredBatch(group) = items
    PROVE  Sound(group)
<1>1. ASSUME NEW i \in DOMAIN group.shards
      PROVE  group.shards[i].items = IF group.shards[i].parity THEN items
                                     ELSE SubSeq(items, i + 1, i + 1)
  <2>1. Placed(items, i, group.shards[i])
    BY Zenon DEF AllPlaced
  <2>2. CASE group.shards[i].parity = TRUE
    BY <2>1, <2>2, Zenon DEF Placed
  <2>3. CASE group.shards[i].parity = FALSE
    <3>1. i + 1 \in 1 .. Len(items) /\ group.shards[i].items = <<items[i + 1]>>
      BY <2>1, <2>3, Zenon DEF Placed
    <3>2. SubSeq(items, i + 1, i + 1) = <<items[i + 1]>>
      BY <3>1, OneItem
    <3>3. QED
      BY <2>3, <3>1, <3>2, Zenon
  <2>4. QED
    BY <2>1, <2>2, <2>3, Zenon DEF Placed
<1>2. QED
  BY <1>1, Zenon DEF Sound

=============================================================================
