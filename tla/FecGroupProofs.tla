--------------------------- MODULE FecGroupProofs ---------------------------
(***************************************************************************)
(* Proof that the forward error correction of Fec recovers what it should: *)
(* a group of equally long packets is complete as soon as enough packets   *)
(* of it have come.  GroupInv, about which FecProofs has the lemmas that   *)
(* do not count shards, is inductive together with FecInv.                 *)
(***************************************************************************)
EXTENDS FecProofs, FiniteSetTheorems

-----------------------------------------------------------------------------
(* One packet of a group *)

\* The group that a packet falls into waits, if it belongs to one batch.
LEMMA OldGroupWaits ==
    ASSUME UniformInv, NEW g, NEW items \in Seq(Packet), Sole(g, items), ~IsDone(OldGroup(g))
    PROVE  Waiting(g, OldGroup(g))
<1>1. CASE g \in DOMAIN groups
  BY <1>1, Zenon DEF UniformInv, OldGroup
<1>2. CASE g \notin DOMAIN groups
  <2>1. OldGroup(g) = NewGroup
    BY <1>2, Zenon DEF OldGroup
  <2>2. NewGroup.data_shards = 0 /\ NewGroup.originals = 0 /\ DOMAIN NewGroup.shards = {}
    BY DEF NewGroup
  <2>3. Originals(NewGroup) = {}
    BY <2>2, Zenon DEF Originals
  <2>4. IsFiniteSet({}) /\ Cardinality({}) = 0
    BY FS_EmptySet, Zenon
  <2>5. Waiting(g, NewGroup)
    BY <2>2, <2>3, <2>4, Zenon DEF Waiting
  <2>6. QED
    BY <2>1, <2>5, Zenon
<1>3. QED
  BY <1>1, <1>2, Zenon

LEMMA InsertJoins ==
    ASSUME SenderInv, NEW m \in net, NEW old, ~Known(old, m), Waiting(m.group_id, old),
           NEW new, new = Insert(old, m)
    PROVE  Joined(m.group_id, old, new, m)
<1>1. PICK g \in Nat, j \in Nat : g = m.group_id /\ j = m.index
  BY MessageFacts, Zenon
<1>2. m.parity \in BOOLEAN
  BY MessageFacts, Zenon
<1>3. Inserted(new, old, m)
  <2>1. Inserted(Insert(old, m), old, m)
    BY <1>2, InsertFields
  <2>2. QED
    BY <2>1, Zenon
<1>4. /\ DOMAIN new.shards = DOMAIN old.shards \cup {j} /\ j \notin DOMAIN old.shards
      /\ new.shards[j] = [items |-> m.items, parity |-> m.parity]
      /\ \A i \in DOMAIN old.shards : new.shards[i] = old.shards[i]
  BY <1>1, <1>3, Zenon DEF Known, Inserted
<1>5. new.shards[j].items = m.items /\ new.shards[j].parity = m.parity
  BY <1>4
<1>6. IsFiniteSet(DOMAIN new.shards)
  BY <1>4, FS_AddElement, Zenon DEF Waiting
<1>7. Cardinality(DOMAIN new.shards) \in Nat
  BY <1>6, FS_CardinalityType, Zenon
<1>8. Message(g, j, new.shards[j]) \in net
  <2>1. m \in FecMessage
    BY Zenon DEF SenderInv, FecTypes
  <2>2. m = [group_id |-> m.group_id, index |-> m.index, items |-> m.items, parity |-> m.parity]
    BY <2>1 DEF FecMessage
  <2>3. m = Message(g, j, new.shards[j])
    BY <1>1, <1>5, <2>2, Zenon DEF Message
  <2>4. QED
    BY <2>3, Zenon
<1>9. \A i \in DOMAIN new.shards : Message(g, i, new.shards[i]) \in net
  BY <1>1, <1>4, <1>8, Zenon DEF Waiting
<1>10. IsFiniteSet(Originals(old)) /\ Cardinality(Originals(old)) \in Nat /\ j \notin Originals(old)
  <2>1. Originals(old) \in SUBSET DOMAIN old.shards
    BY Zenon DEF Originals
  <2>2. IsFiniteSet(Originals(old))
    BY <2>1, FS_Subset, Zenon DEF Waiting
  <2>3. QED
    BY <1>4, <2>1, <2>2, FS_CardinalityType, Zenon
<1>11. CASE m.parity = TRUE
  <2>1. Originals(new) = Originals(old)
    BY <1>4, <1>5, <1>11 DEF Originals
  <2>2. new.originals = old.originals
    BY <1>3, <1>11, Zenon DEF Inserted
  <2>3. new.originals = Cardinality(Originals(new))
    BY <2>1, <2>2, Zenon DEF Waiting
  <2>4. \A i \in Originals(new) : i \in Originals(old) /\ new.shards[i] = old.shards[i]
    BY <1>4, <2>1, Zenon DEF Originals
  <2>5. QED
    BY <1>1, <1>6, <1>7, <1>9, <2>3, <2>4, Zenon DEF Joined
<1>12. CASE m.parity = FALSE
  <2>1. Originals(new) = Originals(old) \cup {j}
    BY <1>4, <1>5, <1>12 DEF Originals
  <2>2. new.originals = old.originals + 1
    BY <1>3, <1>12, Zenon DEF Inserted
  <2>3. Cardinality(Originals(new)) = Cardinality(Originals(old)) + 1
    BY <1>10, <2>1, FS_AddElement
  <2>4. new.originals = Cardinality(Originals(new))
    BY <2>2, <2>3, Zenon DEF Waiting
  <2>5. m.items[1] \in Own(m)
    BY <1>12, Zenon DEF Own
  <2>6. ASSUME NEW i \in Originals(new)
        PROVE  \/ i \in Originals(old) /\ new.shards[i] = old.shards[i]
               \/ new.shards[i].items[1] \in Own(m)
    BY <1>4, <1>5, <2>1, <2>5, Zenon DEF Originals
  <2>7. QED
    BY <1>1, <1>6, <1>7, <1>9, <2>4, <2>6, Zenon DEF Joined
<1>13. QED
  BY <1>2, <1>11, <1>12, Zenon

\* decode_with_rs and reconstruct accept the shards.
LEMMA IsDecodable ==
    ASSUME SenderInv, NEW group, NEW items \in Seq(Packet), items # <<>>, Uniform(items),
           AllPlaced(items, group), Len(items) = group.data_shards, DOMAIN group.shards # {}
    PROVE  Decodable(group)
<1>1. Slots(group) = group.data_shards + ParityShards(group.data_shards)
  BY SlotsFit, Zenon
<1>2. \A i \in DOMAIN group.shards : ShardLen(group.shards[i]) = size[items[1]]
  BY ShardLens, Zenon DEF AllPlaced
<1>3. {ShardLen(group.shards[i]) : i \in DOMAIN group.shards} = {size[items[1]]}
  BY <1>2, Zenon
<1>4. Cardinality({size[items[1]]}) = 1
  BY FS_Singleton, Zenon
<1>5. QED
  BY <1>1, <1>3, <1>4, Zenon DEF Decodable

\* The group that receive has put a packet into, if it belongs to one batch.
LEMMA ReceivedGroupFine ==
    ASSUME SenderInv, FlagsInv, ClosedOnce, UniformInv, NEW m \in net, NEW old, NEW o, NEW gone,
           Received(m, old, o, gone), \A p \in Packet : Counted(o, gone, p),
           Shards(m.group_id, Insert(old, m)),
           NEW items \in Seq(Packet), Sole(m.group_id, items), net' = net
    PROVE  IF IsDone(o.group) THEN Recovered(m.group_id, items)' ELSE Waiting(m.group_id, o.group)'
<1>1. PICK g \in Nat : g = m.group_id
  BY MessageFacts, Zenon
<1>2. PICK new : new = Insert(old, m)
  BY Zenon
<1>3. old = OldGroup(g) /\ ~IsDone(old) /\ ~Known(old, m) /\ o \in Outcomes(m, new) /\ g \notin gone
  BY <1>1, <1>2, Zenon DEF Received
<1>4. Waiting(g, old)
  BY <1>1, <1>3, OldGroupWaits, Zenon
<1>5. Joined(g, old, new, m)
  BY <1>1, <1>2, <1>3, <1>4, InsertJoins, Zenon
<1>6. AllPlaced(items, new)
  BY <1>1, <1>5, ShardPlaced, Zenon DEF Joined, AllPlaced
<1>7. ASSUME Own(m) \subseteq o.output
      PROVE  \A i \in Originals(new) : AsSent(new.shards[i].items[1])'
  <2>1. Waiting(m.group_id, old) /\ Joined(m.group_id, old, new, m) /\ m.group_id \notin gone
    BY <1>1, <1>3, <1>4, <1>5, Zenon
  <2>2. PassedOn(new)
    BY <1>7, <2>1, JoinedCounts, Zenon
  <2>3. QED
    BY <2>2, Zenon DEF PassedOn, AsSent
<1>8. new.data_shards \in Nat /\ Cardinality(DOMAIN new.shards) \in Nat
  BY <1>1, <1>2, <1>5, Zenon DEF Shards, Joined
<1>9. ASSUME new.data_shards # 0
      PROVE  /\ CoveredBatch(new) = items /\ Len(items) = new.data_shards
             /\ Batch(g, items) /\ items # <<>> /\ Covered(g, items)' /\ Covered(g, items)
  <2>1. CoveredBatch(new) = items /\ Len(items) = new.data_shards /\ Batch(g, items)
    BY <1>1, <1>2, <1>6, <1>9, CoversItems, Zenon
  <2>2. items # <<>> /\ Covered(g, items)
    BY <2>1, Zenon DEF Batch
  <2>3. QED
    BY <2>1, <2>2, CoveredKept, Zenon
<1>10. ASSUME NEW k \in 1 .. Len(items), k - 1 \in DOMAIN new.shards
       PROVE  k - 1 \in Originals(new) /\ new.shards[k - 1].items[1] = items[k]
  <2>1. Placed(items, k - 1, new.shards[k - 1])
    BY <1>6, <1>10, Zenon DEF AllPlaced
  <2>2. ~(Len(items) <= k - 1) /\ (k - 1) + 1 = k
    OBVIOUS
  <2>3. new.shards[k - 1].parity = FALSE
    BY <2>1, <2>2, Zenon DEF Placed
  <2>4. new.shards[k - 1].items = <<items[(k - 1) + 1]>>
    BY <2>1, <2>3, Zenon DEF Placed
  <2>5. new.shards[k - 1].items[1] = items[k]
    BY <2>2, <2>4
  <2>6. QED
    BY <1>10, <2>3, <2>5, Zenon DEF Originals
<1>11. CASE IsDone(new)
  <2>1. o = [group |-> Done(new), output |-> Own(m), failed |-> FALSE]
    BY <1>3, <1>11, Zenon DEF Outcomes, Own
  <2>2. new.data_shards # 0 /\ Cardinality(Originals(new)) = new.data_shards
    BY <1>5, <1>11, Zenon DEF IsDone, Joined
  <2>3. IsDone(o.group) /\ o.output = Own(m)
    BY <2>1, <2>2, DoneIsDone
  <2>4. Originals(new) \in SUBSET (0 .. new.data_shards - 1)
    <3>1. ASSUME NEW i \in Originals(new)
          PROVE  i \in Nat /\ i + 1 \in 1 .. new.data_shards
      BY <1>6, <1>9, <2>2, Zenon DEF Originals, AllPlaced, Placed
    <3>2. \A i \in Originals(new) : i \in 0 .. new.data_shards - 1
      BY <1>8, <3>1
    <3>3. QED
      BY <3>2, Zenon
  <2>5. Originals(new) = 0 .. new.data_shards - 1
    <3>1. PICK d \in Nat : d = new.data_shards /\ d # 0
      BY <1>8, <2>2, Zenon
    <3>2. IsFiniteSet(0 .. d - 1) /\ Cardinality(0 .. d - 1) = d
      <4>1. 0 \in Int /\ d - 1 \in Int /\ ~(0 > d - 1) /\ (d - 1) - 0 + 1 = d
        BY <3>1
      <4>2. QED
        BY <4>1, FS_Interval
    <3>3. QED
      BY <2>2, <2>4, <3>1, <3>2, FS_Subset, Zenon
  <2>6. ASSUME NEW k \in 1 .. Len(items)
        PROVE  delivered'[items[k]] = 1
    <3>1. k - 1 \in 0 .. new.data_shards - 1
      BY <1>8, <1>9, <2>2
    <3>2. k - 1 \in DOMAIN new.shards /\ k - 1 \in Originals(new)
      BY <2>5, <3>1, Zenon DEF Originals
    <3>3. delivered'[new.shards[k - 1].items[1]] = 1
      BY <1>7, <2>3, <3>2, Zenon DEF AsSent
    <3>4. QED
      BY <1>10, <3>2, <3>3, Zenon
  <2>7. Recovered(g, items)'
    BY <1>9, <2>2, <2>6, Zenon DEF Recovered
  <2>8. QED
    BY <1>1, <2>3, <2>7, Zenon
<1>12. CASE ~IsDone(new) /\ ~Enough(new)
  <2>1. o = [group |-> new, output |-> Own(m), failed |-> FALSE]
    BY <1>3, <1>12, Zenon DEF Outcomes, Own
  <2>2. o.group = new /\ o.output = Own(m)
    BY <2>1
  <2>3. new.data_shards # 0 => Cardinality(DOMAIN new.shards) < new.data_shards
    <3>1. new.data_shards # 0 => ~(Cardinality(DOMAIN new.shards) >= new.data_shards)
      BY <1>12, Zenon DEF Enough
    <3>2. QED
      BY <1>8, <3>1
  <2>4. Waiting(g, new)'
    BY <1>5, <1>7, <2>2, <2>3, Zenon DEF Waiting, Joined, AsSent
  <2>5. QED
    BY <1>1, <1>12, <2>2, <2>4, Zenon
<1>13. CASE ~IsDone(new) /\ Enough(new)
  <2>1. new.data_shards # 0
    BY <1>13, Zenon DEF Enough
  <2>2. DOMAIN new.shards # {}
    BY <1>1, <1>2, <2>1, Zenon DEF Shards
  <2>3. Uniform(items)
    BY Zenon DEF Sole
  <2>4. Decodable(new) /\ Sound(new)
    BY <1>6, <1>9, <2>1, <2>2, <2>3, IsDecodable, IsSound, Zenon
  <2>5. o = [group |-> Done(new), output |-> Own(m) \cup Reconstruct(new), failed |-> FALSE]
    BY <1>3, <1>13, <2>4, Zenon DEF Outcomes, Own
  <2>6. IsDone(o.group) /\ o.output = Own(m) \cup Reconstruct(new)
    BY <2>1, <2>5, DoneIsDone
  <2>7. ASSUME NEW k \in 1 .. Len(items)
        PROVE  delivered'[items[k]] = 1
    <3>1. CASE k - 1 \in DOMAIN new.shards
      BY <1>7, <1>10, <2>6, <3>1, Zenon DEF AsSent
    <3>2. CASE k - 1 \notin DOMAIN new.shards
      <4>1. k - 1 \in 0 .. new.data_shards - 1 /\ (k - 1) + 1 = k /\ items[k] \in Packet
        BY <1>8, <1>9, <2>1
      <4>2. k - 1 \in Missing(new)
        BY <3>2, <4>1, Zenon DEF Missing
      <4>3. items[(k - 1) + 1] \in Reconstruct(new)
        BY <1>9, <2>1, <2>4, <4>2, Zenon DEF Reconstruct
      <4>4. items[k] \in o.output
        BY <2>6, <4>1, <4>3
      <4>5. QED
        BY <4>1, <4>4, Zenon DEF Counted
    <3>3. QED
      BY <3>1, <3>2, Zenon
  <2>8. Recovered(g, items)'
    BY <1>9, <2>1, <2>7, Zenon DEF Recovered
  <2>9. QED
    BY <1>1, <2>6, <2>8, Zenon
<1>14. QED
  BY <1>11, <1>12, <1>13, Zenon

LEMMA ReceiveKeepsUniform ==
    ASSUME SenderInv, FlagsInv, ClosedOnce, ReceiverInv, UniformInv, NEW m \in net, NEW old, NEW o, NEW gone,
           Received(m, old, o, gone), Shards(m.group_id, Insert(old, m)),
           \A p \in Packet : Counted(o, gone, p)
    PROVE  UniformInv'
<1>1. PICK g \in Nat : g = m.group_id
  BY MessageFacts, Zenon
<1>2. UNCHANGED <<net, size>>
  BY Zenon DEF Received, senderVars
<1>3. /\ DOMAIN groups' = (DOMAIN groups \cup {g}) \ gone
      /\ groups'[g] = o.group
      /\ \A h \in DOMAIN groups' : h # g => h \in DOMAIN groups /\ groups'[h] = groups[h]
  <2>1. GroupsAre(g, o.group, gone)
    BY <1>1, ReceivedGroups, Zenon
  <2>2. QED
    BY <2>1, Zenon DEF GroupsAre
<1>4. ASSUME NEW h \in DOMAIN groups', NEW items \in Seq(Packet), Sole(h, items)'
      PROVE  IF IsDone(groups'[h]) THEN Recovered(h, items)' ELSE Waiting(h, groups[h])'
  <2>1. PICK group : group = groups'[h]
    BY Zenon
  <2>2. Sole(h, items)
    BY <1>2, <1>4, Zenon DEF Sole, Uniform
  <2>3. IF IsDone(group) THEN Recovered(h, items)' ELSE Waiting(h, group)'
    <3>1. CASE h = g
      <4>1. group = o.group
        BY <1>3, <2>1, <3>1, Zenon
      <4>2. IF IsDone(o.group) THEN Recovered(g, items)' ELSE Waiting(g, o.group)'
        BY <1>1, <1>2, <2>2, <3>1, ReceivedGroupFine, Zenon
      <4>3. QED
        BY <3>1, <4>1, <4>2, Zenon
    <3>2. CASE h # g
      <4>1. h \in DOMAIN groups /\ group = groups[h] /\ h \notin gone
        BY <1>3, <2>1, <3>2, Zenon
      <4>2. h \in Nat
        BY <4>1, Zenon DEF ReceiverInv
      <4>3. IF IsDone(group) THEN Recovered(h, items) ELSE Waiting(h, group)
        BY <2>2, <4>1, Zenon DEF UniformInv
      <4>4. QED
        BY <1>2, <4>1, <4>2, <4>3, WaitingStays, RecoveredStays, Zenon
    <3>3. QED
      BY <3>1, <3>2, Zenon
  <2>4. QED
    BY <2>1, <2>3, Zenon DEF Waiting, AsSent
<1>5. QED
  BY <1>4, Zenon DEF UniformInv
-----------------------------------------------------------------------------
(* The invariant and what follows from it *)

LEMMA GroupInitHolds ==
    ASSUME FecInit
    PROVE  GroupInv
<1>1. current_batch = <<>> /\ batch_rx = <<>> /\ net = {} /\ groups = <<>>
  BY Zenon DEF FecInit
<1>2. (\A k \in 1 .. Len(<<>>) : FALSE) /\ DOMAIN <<>> = {}
  OBVIOUS
<1>3. ClosedOnce
  BY <1>1, <1>2, Zenon DEF ClosedOnce, IsClosed
<1>4. UniformInv
  BY <1>1, <1>2, Zenon DEF UniformInv
<1>5. QED
  BY <1>3, <1>4, Zenon DEF GroupInv

LEMMA GroupStep ==
    ASSUME FecInv, GroupInv, [FecNext]_fecVars
    PROVE  GroupInv'
<1>1. SenderInv /\ ReceiverInv /\ FlagsInv /\ ClosedOnce /\ UniformInv
  BY Zenon DEF FecInv, GroupInv
<1>2. ASSUME ClosedOnce', BatchesStay, UNCHANGED <<size, groups, delivered, altered>>
      PROVE  GroupInv'
  BY <1>1, <1>2, UniformStays, Zenon DEF GroupInv, BatchesStay
<1>3. ASSUME NEW p \in Packet, Encode(p)
      PROVE  GroupInv'
  <2>1. BatchesStay /\ ClosedOnce'
    BY <1>1, <1>3, EncodeKeepsSender, EncodeKeepsClosed, Zenon
  <2>2. UNCHANGED <<size, groups, delivered, altered>>
    BY <1>3, Zenon DEF Encode
  <2>3. QED
    BY <1>2, <2>1, <2>2, Zenon
<1>4. CASE EncodeBatch
  <2>1. BatchesStay /\ ClosedOnce'
    BY <1>1, <1>4, EncodeBatchKeepsSender, EncodeBatchKeepsClosed, Zenon
  <2>2. UNCHANGED <<size, groups, delivered, altered>>
    BY <1>4, Zenon DEF EncodeBatch
  <2>3. QED
    BY <1>2, <2>1, <2>2, Zenon
<1>5. CASE BatchTimeout
  <2>1. BatchesStay /\ ClosedOnce'
    BY <1>1, <1>5, BatchTimeoutKeepsSender, BatchTimeoutKeepsClosed, Zenon
  <2>2. UNCHANGED <<size, groups, delivered, altered>>
    BY <1>5, Zenon DEF BatchTimeout
  <2>3. QED
    BY <1>2, <2>1, <2>2, Zenon
<1>6. CASE SenderRestart
  <2>1. BatchesStay /\ ClosedOnce'
    BY <1>1, <1>6, SenderRestartKeepsSender, SenderRestartKeepsClosed, Zenon
  <2>2. UNCHANGED <<size, groups, delivered, altered>>
    BY <1>6, Zenon DEF SenderRestart
  <2>3. QED
    BY <1>2, <2>1, <2>2, Zenon
<1>7. ASSUME NEW m \in net, Receive(m)
      PROVE  GroupInv'
  <2>1. PICK old, o, gone : /\ Received(m, old, o, gone) /\ Shards(m.group_id, Insert(old, m))
                            /\ Fate(m.group_id, old, o)
    BY <1>7, ReceiveOutcome, Zenon
  <2>2. \A p \in Packet : Counted(o, gone, p)
    BY <1>1, <2>1, ReceivedCounts, Zenon
  <2>3. UniformInv'
    BY <1>1, <2>1, <2>2, ReceiveKeepsUniform, Zenon
  <2>4. UNCHANGED <<senderVars, net>>
    BY <2>1, Zenon DEF Received
  <2>5. ClosedOnce'
    BY <1>1, <2>4, ClosedStays, Zenon DEF senderVars
  <2>6. QED
    BY <2>3, <2>5, Zenon DEF GroupInv
<1>8. CASE UNCHANGED fecVars
  <2>1. UNCHANGED <<size, groups, delivered, altered, net, batch_rx, current_batch>>
    BY <1>8, Zenon DEF fecVars, senderVars
  <2>2. ClosedOnce'
    BY <1>1, <2>1, ClosedStays, Zenon
  <2>3. UniformInv'
    BY <1>1, <2>1, UniformStays, Zenon
  <2>4. QED
    BY <2>2, <2>3, Zenon DEF GroupInv
<1>9. QED
  BY <1>3, <1>4, <1>5, <1>6, <1>7, <1>8, Zenon DEF FecNext

\* UniformGroupsRecover, for one parity packet.
LEMMA GroupRecovers ==
    ASSUME FecInv, GroupInv, NEW m \in net, m.parity, Uniform(m.items), OwnGroup(m),
           m.group_id \in DOMAIN groups, NEW group, group = groups[m.group_id]
    PROVE  /\ \A i \in DOMAIN group.shards :
                 ~group.shards[i].parity => AsSent(group.shards[i].items[1])
           /\ IsDone(group) \/ Cardinality(DOMAIN group.shards) >= Len(m.items) =>
                 \A i \in DOMAIN m.items : delivered[m.items[i]] = 1
<1>1. SenderInv /\ ClosedOnce /\ ReceiverInv /\ UniformInv
  BY Zenon DEF FecInv, GroupInv
<1>2. PICK g \in Nat, items \in Seq(Packet) : g = m.group_id /\ items = m.items
  BY <1>1, MessageFacts, Zenon
<1>3. m.parity = TRUE
  BY <1>1, MessageFacts, Zenon
<1>4. Sole(g, items)
  BY <1>1, <1>2, <1>3, SoleIs, Zenon
<1>5. DOMAIN items = 1 .. Len(items) /\ Len(items) \in Nat
  OBVIOUS
<1>6. Settled(g, group) /\ (IF IsDone(group) THEN Recovered(g, items) ELSE Waiting(g, group))
  BY <1>1, <1>2, <1>4, Zenon DEF ReceiverInv, UniformInv
<1>7. CASE IsDone(group)
  BY <1>2, <1>5, <1>6, <1>7, Zenon DEF Settled, Recovered
<1>8. CASE ~IsDone(group)
  <2>1. Waiting(g, group) /\ Shards(g, group)
    BY <1>6, <1>8, Zenon DEF Settled
  <2>2. AllPlaced(items, group)
    BY <1>1, <1>4, <2>1, ShardPlaced, Zenon DEF Waiting, AllPlaced
  <2>3. ASSUME NEW i \in DOMAIN group.shards, ~group.shards[i].parity
        PROVE  /\ i \in Originals(group) /\ AsSent(group.shards[i].items[1])
               /\ delivered[group.shards[i].items[1]] = 1
    <3>1. group.shards[i].parity = FALSE
      BY <2>2, <2>3, Zenon DEF AllPlaced, Placed
    <3>2. QED
      BY <2>1, <3>1, Zenon DEF Originals, Waiting, AsSent
  <2>4. group.data_shards \in Nat /\ Cardinality(DOMAIN group.shards) \in Nat
    BY <2>1, FS_CardinalityType, Zenon DEF Waiting, Shards
  <2>5. ASSUME Cardinality(DOMAIN group.shards) >= Len(items), NEW k \in 1 .. Len(items)
        PROVE  delivered[items[k]] = 1
    <3>1. group.data_shards = 0
      <4>1. ASSUME group.data_shards # 0
            PROVE  FALSE
        <5>1. Len(items) = group.data_shards
          BY <2>1, <2>2, <4>1, CoversItems, Zenon
        <5>2. Cardinality(DOMAIN group.shards) < group.data_shards
          BY <2>1, <4>1, Zenon DEF Waiting
        <5>3. QED
          BY <2>4, <2>5, <5>1, <5>2
      <4>2. QED
        BY <4>1, Zenon
    <3>2. ASSUME NEW i \in DOMAIN group.shards
          PROVE  ~group.shards[i].parity /\ i \in 0 .. Len(items) - 1
      <4>1. Placed(items, i, group.shards[i])
        BY <2>2, Zenon DEF AllPlaced
      <4>2. group.shards[i].parity # TRUE
        <5>1. ASSUME group.shards[i].parity = TRUE
              PROVE  FALSE
          <6>1. items # <<>> /\ Len(items) = 0
            BY <2>1, <3>1, <4>1, <5>1, Zenon DEF Shards, ShardFits, Placed, Batch
          <6>2. QED
            BY <6>1
        <5>2. QED
          BY <5>1, Zenon
      <4>3. group.shards[i].parity = FALSE /\ i \in Nat
        BY <4>1, <4>2, Zenon DEF Placed
      <4>4. i + 1 \in 1 .. Len(items)
        BY <4>1, <4>3, Zenon DEF Placed
      <4>5. i \in 0 .. Len(items) - 1
        BY <1>5, <4>3, <4>4
      <4>6. QED
        BY <4>3, <4>5, Zenon
    <3>3. DOMAIN group.shards = 0 .. Len(items) - 1
      <4>1. PICK d \in Nat : d = Len(items) /\ d # 0
        <5>1. Len(items) # 0
          BY <1>5
        <5>2. QED
          BY <1>5, <5>1, Zenon
      <4>2. IsFiniteSet(0 .. d - 1) /\ Cardinality(0 .. d - 1) = d
        <5>1. 0 \in Int /\ d - 1 \in Int /\ ~(0 > d - 1) /\ (d - 1) - 0 + 1 = d
          BY <4>1
        <5>2. QED
          BY <5>1, FS_Interval
      <4>3. DOMAIN group.shards \in SUBSET (0 .. d - 1)
        BY <3>2, <4>1, Zenon
      <4>4. Cardinality(DOMAIN group.shards) <= d
        BY <4>2, <4>3, FS_Subset
      <4>5. Cardinality(0 .. d - 1) = Cardinality(DOMAIN group.shards)
        BY <2>4, <2>5, <4>1, <4>2, <4>4
      <4>6. QED
        BY <4>1, <4>2, <4>3, <4>5, FS_Subset, Zenon
    <3>4. k - 1 \in 0 .. Len(items) - 1 /\ (k - 1) + 1 = k
      BY <1>5
    <3>5. k - 1 \in DOMAIN group.shards /\ ~group.shards[k - 1].parity
      BY <3>2, <3>3, <3>4, Zenon
    <3>6. group.shards[k - 1].items = <<items[(k - 1) + 1]>>
      BY <2>2, <3>5, Zenon DEF AllPlaced, Placed
    <3>7. group.shards[k - 1].items[1] = items[k]
      BY <3>4, <3>6
    <3>8. QED
      BY <2>3, <3>5, <3>7, Zenon
  <2>6. QED
    BY <1>2, <1>5, <1>8, <2>3, <2>5, Zenon
<1>9. QED
  BY <1>7, <1>8, Zenon

LEMMA GroupInvariant == FecSpec => []GroupInv
<1>1. FecInit => GroupInv
  BY GroupInitHolds
<1>2. FecInv /\ GroupInv /\ [FecNext]_fecVars => GroupInv'
  BY GroupStep
<1>3. QED
  BY <1>1, <1>2, FecInvariant, PTL DEF FecSpec

\* The originals of a group of equally long packets are passed on as they were sent
\* when they come, and as soon as as many packets of the group, of whatever kind, have
\* come as it has originals, all its payloads have been passed on.
THEOREM UniformGroupsComplete == FecSpec => []UniformGroupsRecover
<1>1. FecInv /\ GroupInv => UniformGroupsRecover
  BY GroupRecovers, Zenon DEF UniformGroupsRecover
<1>2. QED
  BY <1>1, FecInvariant, GroupInvariant, PTL

=============================================================================
