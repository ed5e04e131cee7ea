----------------------------- MODULE StorageProofs -----------------------------
(***************************************************************************)
(* Theorems of Storage, for every number of replicas, every pair of         *)
(* consistency levels that add up to more than it, every set of zones and   *)
(* events and every bound, whatever times out, arrives late, or is never    *)
(* asked.                                                                  *)
(*                                                                         *)
(* First that read and write quorums meet; from that, that what an          *)
(* acknowledged batch counted stays counted; and from that, that batches    *)
(* are as good as atomic until one is given up.                            *)
(***************************************************************************)
EXTENDS Storage, SumLemmas, SequenceTheorems, TLAPS

\* The batches sent so far.
Sent == {batches[b] : b \in DOMAIN batches}

\* The log of batches, and the nodes and acknowledgements that refer to it.
Shape ==
    /\ batches \in Seq(Sent)
    /\ DOMAIN applied = Nodes
    /\ acknowledged \subseteq DOMAIN batches
    /\ pc = "wait" => Len(batches) \in DOMAIN batches

\* An acknowledged batch keeps the replicas it was acknowledged with.
AcknowledgedHeld == \A b \in acknowledged : Acked(b)

\* Enough for quorums to meet.
IInv == Shape /\ AcknowledgedHeld

-----------------------------------------------------------------------------
\* A sequence that is appended to keeps what it has.
LEMMA AppendExtends ==
  ASSUME NEW s, s \in Seq({s[b] : b \in DOMAIN s}), NEW e, NEW t, t = Append(s, e)
  PROVE  /\ t \in Seq({t[b] : b \in DOMAIN t})
         /\ DOMAIN s \subseteq DOMAIN t
         /\ \A b \in DOMAIN s : t[b] = s[b]
         /\ Len(t) \in DOMAIN t
<1> DEFINE S == {s[b] : b \in DOMAIN s} \cup {e}
           T == {t[b] : b \in DOMAIN t}
<1>1. s \in Seq(S) BY SMT
<1>2. /\ t \in Seq(S)
      /\ Len(t) = Len(s) + 1
      /\ \A b \in 1..Len(s) : t[b] = s[b]
  BY <1>1, AppendProperties, e \in S
<1>3. DOMAIN s = 1..Len(s) /\ DOMAIN t = 1..Len(t) /\ Len(s) \in Nat BY <1>1, <1>2
<1>4. t \in [1..Len(t) -> T]
  <2>1. PICK n \in Nat : t \in [1..n -> S]
    <3> HIDE DEF S
    <3> QED BY ONLY <1>2, SeqDef
  <2>2. t = [b \in DOMAIN t |-> t[b]] BY ONLY <2>1
  <2>3. \A b \in DOMAIN t : t[b] \in T OBVIOUS
  <2> QED BY ONLY <2>2, <2>3, <1>3
<1>5. t \in Seq(T) BY <1>3, <1>4, <1>2, SeqDef
<1> QED BY <1>2, <1>3, <1>5

\* A batch that enough replicas hold keeps them when the log of batches grows
\* and replicas apply more.
LEMMA HeldStaysHeld ==
  ASSUME NEW b \in DOMAIN batches, Acked(b), b \in DOMAIN batches', batches'[b] = batches[b],
         IsFiniteSet(Nodes), WriteCL \in Nat,
         \A n \in Nodes : applied[n] \subseteq applied'[n]
  PROVE  Acked(b)'
<1> SUFFICES ASSUME NEW key \in Keys(b)' PROVE Cardinality(Holders(b, key)') >= WriteCL
  BY DEF Acked
<1>1. key \in Keys(b) BY DEF Keys
<1>2. Holders(b, key) \subseteq Holders(b, key)' BY DEF Holders
<1>3. IsFiniteSet(Holders(b, key)') BY FS_Subset DEF Holders
<1>4. Cardinality(Holders(b, key)) <= Cardinality(Holders(b, key)') BY <1>2, <1>3, FS_Subset
<1>5. Cardinality(Holders(b, key)) \in Nat /\ Cardinality(Holders(b, key)') \in Nat
  BY <1>2, <1>3, FS_Subset, FS_CardinalityType
<1> QED BY <1>1, <1>4, <1>5 DEF Acked

-----------------------------------------------------------------------------
\* Nothing is sent at first.
LEMMA InitInvariant == Init => IInv
  BY DEF Init, IInv, Shape, Sent, AcknowledgedHeld

\* Every step keeps the invariant.
LEMMA StepKeepsInvariant == IInv /\ [Next]_vars => IInv'
<1> SUFFICES ASSUME IInv, [Next]_vars PROVE IInv'
  OBVIOUS
<1> USE DEF IInv
<1>1. IsFiniteSet(Nodes) /\ WriteCL \in Nat
  BY ConsistencyAssumption, FS_CardinalityType
<1>2. /\ batches' \in Seq(Sent')
      /\ DOMAIN batches \subseteq DOMAIN batches'
      /\ \A b \in DOMAIN batches : batches'[b] = batches[b]
  <2>1. CASE Execute
    BY <2>1, AppendExtends DEF Execute, Shape, Sent
  <2>2. batches' = batches \/ Execute
    BY DEF Next, Poll, Lookup, ReadZone, ReadTotal, Acknowledge, Timeout, Apply, vars, cluster
  <2> QED BY <2>1, <2>2 DEF Shape, Sent
<1>3. DOMAIN applied' = Nodes /\ \A n \in Nodes : applied[n] \subseteq applied'[n]
  <2>1. ASSUME NEW n \in Nodes, NEW b \in DOMAIN batches, NEW key \in Keys(b), Apply(n, b, key)
        PROVE <1>3
    BY <2>1 DEF Apply, Shape
  <2>2. applied' = applied \/ \E n \in Nodes, b \in DOMAIN batches : \E key \in Keys(b) : Apply(n, b, key)
    BY DEF Next, Poll, Lookup, ReadZone, ReadTotal, Execute, Acknowledge, Timeout, vars, cluster
  <2> QED BY <2>1, <2>2 DEF Shape
<1>4. ASSUME NEW b \in acknowledged' PROVE b \in DOMAIN batches' /\ Acked(b)'
  <2>1. CASE b \in acknowledged
    BY <2>1, <1>1, <1>2, <1>3, HeldStaysHeld DEF Shape, AcknowledgedHeld
  <2>2. CASE b \notin acknowledged
    <3>1. Acknowledge /\ b = Len(batches)
      BY <2>2, <1>4 DEF Next, Poll, Lookup, ReadZone, ReadTotal, Execute, Acknowledge, Timeout,
         Apply, vars, history
    <3>2. Acked(b) /\ UNCHANGED <<batches, applied>> BY <3>1 DEF Acknowledge, cluster
    <3>3. b \in DOMAIN batches BY <3>1 DEF Acknowledge, Shape
    <3> QED BY <3>2, <3>3, <1>1, HeldStaysHeld
  <2> QED BY <2>1, <2>2
<1>5. pc' = "wait" => Len(batches') \in DOMAIN batches'
  <2>1. CASE Execute
    <3>1. batches' = Append(batches, With(writes, ProcessedRow(event), SetToBag({event})))
      BY <2>1 DEF Execute
    <3> QED BY <3>1, AppendExtends DEF Shape, Sent
  <2>2. ~Execute => pc' # "wait" \/ UNCHANGED <<pc, batches>>
    BY DEF Next, Poll, Lookup, ReadZone, ReadTotal, Acknowledge, Timeout, Apply, BackToPoll, vars,
       cluster, client
  <2> QED BY <2>1, <2>2 DEF Shape
<1> QED BY <1>2, <1>3, <1>4, <1>5 DEF Shape, AcknowledgedHeld

-----------------------------------------------------------------------------
\* Any read quorum has a replica in common with those that hold the batch.
LEMMA QuorumsMeet ==
  ASSUME NEW b \in DOMAIN batches, Acked(b), NEW row \in DOMAIN batches[b], NEW nodes \in Quorums
  PROVE  b \in Writers(nodes, row)
<1> DEFINE holders == Holders(b, KeyOf(row))
<1>1. KeyOf(row) \in Keys(b) BY DEF Keys
<1>2. Cardinality(holders) >= WriteCL BY <1>1 DEF Acked
<1>3. Cardinality(nodes) = ReadCL /\ nodes \subseteq Nodes BY DEF Quorums
<1>4. holders \subseteq Nodes /\ IsFiniteSet(Nodes) BY ConsistencyAssumption DEF Holders
<1>5. Cardinality(nodes) + Cardinality(holders) > Cardinality(Nodes)
  <2>1. Cardinality(holders) \in Nat /\ Cardinality(Nodes) \in Nat
    BY <1>4, FS_Subset, FS_CardinalityType
  <2> QED BY <2>1, <1>2, <1>3, ConsistencyAssumption
<1>6. nodes \cap holders # {} BY <1>3, <1>4, <1>5, FS_MajoritiesIntersect
<1> QED BY <1>6 DEF Writers, Holders

\* A read sees every write that was acknowledged before it (README.md:224-230).
THEOREM ReadsSeeAcknowledgedHolds == Spec => []ReadsSeeAcknowledged
<1>1. IInv => ReadsSeeAcknowledged
  <2> SUFFICES ASSUME IInv, NEW b \in acknowledged, NEW row \in DOMAIN batches[b],
                      NEW nodes \in Quorums
               PROVE  \E newer \in Writers(nodes, row) : newer >= b
    BY DEF ReadsSeeAcknowledged
  <2>1. b \in Writers(nodes, row) BY QuorumsMeet DEF IInv, Shape, AcknowledgedHeld
  <2>2. b >= b BY DEF IInv, Shape
  <2> QED BY <2>1, <2>2
<1> QED BY <1>1, InitInvariant, StepKeepsInvariant, PTL DEF Spec

-----------------------------------------------------------------------------
(* Rows and what is in them.                                               *)

\* What a row holds is a bag of events.
IsReceipts(row) == IsABag(row) /\ BagToSet(row) \subseteq Events

\* The rows of a batch, and what is in them.
RowsKnown ==
    \A b \in DOMAIN batches :
        /\ DOMAIN batches[b] \subseteq Rows
        /\ \A row \in DOMAIN batches[b] : IsReceipts(batches[b][row])
        /\ \A e \in Events : ProcessedRow(e) \in DOMAIN batches[b] =>
              batches[b][ProcessedRow(e)] = SetToBag({e})

\* The batch in hand has rows of the totals; the id is added when it is sent.
WritesKnown ==
    /\ DOMAIN writes \subseteq {ZoneRow(z) : z \in Zones} \cup {TotalRow}
    /\ \A row \in DOMAIN writes : IsReceipts(writes[row])

\* A node applies parts of batches that were sent.
AppliedKnown ==
    \A n \in Nodes : \A m \in applied[n] : m[1] \in DOMAIN batches /\ m[2] \in Keys(m[1])

\* The consumer.
LoopTypes ==
    /\ pc \in {"poll", "lookup", "zone", "total", "execute", "wait"}
    /\ event \in Events \cup {0} /\ (event = 0 <=> pc = "poll")
    /\ abandoned \subseteq DOMAIN batches
    /\ polls \in 0..MaxPolls /\ timeouts \in 0..MaxTimeouts

\* All of it.
Types == Shape /\ RowsKnown /\ WritesKnown /\ AppliedKnown /\ LoopTypes

\* Rows of different tables differ, and rows of different keys.
LEMMA RowsApart ==
  /\ \A z, e : ZoneRow(z) # TotalRow /\ ZoneRow(z) # ProcessedRow(e) /\ TotalRow # ProcessedRow(e)
  /\ \A z, y : ZoneRow(z) = ZoneRow(y) => z = y
  /\ \A e, f : ProcessedRow(e) = ProcessedRow(f) => e = f
BY DEF ZoneRow, TotalRow, ProcessedRow

\* Adding an event to a row.
LEMMA ReceiptAdded ==
  ASSUME NEW row, IsReceipts(row), NEW x \in Events
  PROVE  /\ IsReceipts(row (+) SetToBag({x}))
         /\ BagToSet(row (+) SetToBag({x})) = BagToSet(row) \cup {x}
         /\ \A e : Times(e, row (+) SetToBag({x})) = Times(e, row) + (IF e = x THEN 1 ELSE 0)
<1> DEFINE sum == row (+) SetToBag({x})
<1>1. DOMAIN sum = DOMAIN row \cup {x} BY DEF (+), SetToBag
<1>2. \A e \in DOMAIN row : row[e] \in Nat /\ row[e] > 0 BY DEF IsReceipts, IsABag
<1>3. \A e \in DOMAIN sum :
        sum[e] = (IF e \in DOMAIN row THEN row[e] ELSE 0) + (IF e = x THEN 1 ELSE 0)
  BY <1>1 DEF (+), SetToBag
<1>4. sum = [e \in DOMAIN sum |-> sum[e]] BY DEF (+)
<1> HIDE DEF sum
<1>5. IsABag(sum)
  <2>1. \A e \in DOMAIN sum : sum[e] \in Nat /\ sum[e] > 0 BY <1>1, <1>2, <1>3
  <2> QED BY <1>4, <2>1 DEF IsABag
<1>6. BagToSet(sum) = BagToSet(row) \cup {x} BY <1>1 DEF BagToSet
<1>7. \A e : Times(e, sum) = Times(e, row) + (IF e = x THEN 1 ELSE 0)
  BY <1>1, <1>2, <1>3 DEF Times, BagIn, BagToSet
<1> QED BY <1>5, <1>6, <1>7 DEF IsReceipts, sum

\* The row of a recorded event, and an empty row.
LEMMA SingleReceipt ==
  /\ \A e \in Events : IsReceipts(SetToBag({e})) /\ BagToSet(SetToBag({e})) = {e}
  /\ IsReceipts(EmptyBag) /\ BagToSet(EmptyBag) = {}
BY DEF IsReceipts, IsABag, BagToSet, SetToBag, EmptyBag

\* The batches are numbered from one.
LEMMA BatchesNumbered ==
  ASSUME Shape
  PROVE  Len(batches) \in Nat /\ DOMAIN batches = 1..Len(batches)
BY DEF Shape

\* Of some of the batches one is the latest.
LEMMA LatestOf ==
  ASSUME NEW n \in Nat, NEW S \in SUBSET (1..n), S # {}
  PROVE  Max(S) \in S /\ \A b \in S : Max(S) >= b
<1> DEFINE f == [b \in S |-> b]
<1>1. IsFiniteSet(S)
  <2>1. IsFiniteSet(1..n) BY FS_Interval
  <2> QED BY ONLY <2>1, FS_Subset
<1>2. \A b \in S : f[b] \in Int OBVIOUS
<1>3. {f[b] : b \in S} = S OBVIOUS
<1>4. \E a \in S : Max({f[b] : b \in S}) = f[a] /\ \A b \in S : f[a] >= f[b]
  <2> HIDE DEF f
  <2> QED BY <1>1, <1>2, MaxOfValues
<1> QED BY <1>3, <1>4

\* What is read is what the latest of the batches has written that reached any
\* of the nodes asked.
LEMMA ViewIsLatest ==
  ASSUME Shape, NEW nodes, NEW row, Writers(nodes, row) # {}
  PROVE  \E b \in Writers(nodes, row) :
            View(nodes, row) = batches[b][row] /\ \A a \in Writers(nodes, row) : b >= a
<1>1. Writers(nodes, row) \in SUBSET (1..Len(batches)) /\ Len(batches) \in Nat
  BY BatchesNumbered DEF Writers
<1> QED BY <1>1, LatestOf DEF View

\* What a reader is given is a bag of events, whoever answers.
LEMMA ViewReceipts ==
  ASSUME Shape, RowsKnown, NEW nodes, NEW row
  PROVE  IsReceipts(View(nodes, row))
<1>1. CASE Writers(nodes, row) = {} BY <1>1, SingleReceipt DEF View
<1>2. CASE Writers(nodes, row) # {}
  <2>1. PICK b \in Writers(nodes, row) : View(nodes, row) = batches[b][row]
    BY <1>2, ViewIsLatest
  <2>2. b \in DOMAIN batches /\ row \in DOMAIN batches[b] BY DEF Writers
  <2> QED BY <2>1, <2>2 DEF RowsKnown
<1> QED BY <1>1, <1>2

-----------------------------------------------------------------------------
(* What steps do.                                                          *)

\* The log of batches grows by the batch in hand and keeps what it has.
LEMMA LogGrows ==
  ASSUME Shape, [Next]_vars
  PROVE  /\ DOMAIN batches \subseteq DOMAIN batches'
         /\ \A b \in DOMAIN batches : batches'[b] = batches[b]
         /\ \/ UNCHANGED batches /\ ~Execute
            \/ /\ Execute
               /\ Len(batches') = Len(batches) + 1
               /\ DOMAIN batches' = DOMAIN batches \cup {Len(batches) + 1}
               /\ batches'[Len(batches) + 1] = With(writes, ProcessedRow(event), SetToBag({event}))
<1>1. batches' = batches \/ Execute
  BY DEF Next, Poll, Lookup, ReadZone, ReadTotal, Acknowledge, Timeout, Apply, vars, cluster
<1>2. CASE Execute
  <2> DEFINE e == With(writes, ProcessedRow(event), SetToBag({event}))
  <2>1. batches' = Append(batches, e) BY <1>2 DEF Execute
  <2>2. batches \in Seq(Sent \cup {e}) BY DEF Shape
  <2> HIDE DEF e
  <2>3. /\ Len(batches') = Len(batches) + 1 /\ batches' \in Seq(Sent \cup {e})
        /\ \A b \in 1..Len(batches) : batches'[b] = batches[b]
        /\ batches'[Len(batches) + 1] = e
    BY <2>1, <2>2, AppendProperties, e \in Sent \cup {e}
  <2>4. Len(batches) \in Nat /\ DOMAIN batches = 1..Len(batches) BY BatchesNumbered
  <2>5. DOMAIN batches' = 1..Len(batches) + 1 BY <2>3
  <2> QED BY <1>2, <2>3, <2>4, <2>5 DEF e
<1> QED BY <1>1, <1>2

\* A read adds the row of the zone or the total to the batch in hand; a batch is
\* dropped with its message.
LEMMA WritesChange ==
  ASSUME Types, [Next]_vars
  PROVE  \/ UNCHANGED writes
         \/ writes' = <<>>
         \/ \E nodes \in Quorums, row \in {ZoneRow(z) : z \in Zones} \cup {TotalRow} :
              /\ writes' = With(writes, row, View(nodes, row) (+) SetToBag({event}))
              /\ event \in Events
              /\ UNCHANGED <<batches, acknowledged>>
<1>1. ASSUME NEW nodes \in Answering, ReadZone(nodes) \/ ReadTotal(nodes), writes' # writes
      PROVE  \E row \in {ZoneRow(z) : z \in Zones} \cup {TotalRow} :
              /\ writes' = With(writes, row, View(nodes, row) (+) SetToBag({event}))
              /\ event \in Events
              /\ UNCHANGED <<batches, acknowledged>>
  <2>1. event \in Events BY <1>1 DEF ReadZone, ReadTotal, Types, LoopTypes
  <2>2. ZoneOf[event] \in Zones BY <2>1, StorageEventsAssumption
  <2>3. CASE ReadZone(nodes)
    BY <1>1, <2>1, <2>2, <2>3 DEF ReadZone, cluster, history
  <2>4. CASE ReadTotal(nodes)
    BY <1>1, <2>1, <2>4 DEF ReadTotal, cluster, history
  <2> QED BY <1>1, <2>3, <2>4
<1>2. \/ UNCHANGED writes
      \/ writes' = <<>>
      \/ \E nodes \in Answering : ReadZone(nodes) \/ ReadTotal(nodes)
  BY DEF Next, Poll, Lookup, Execute, Acknowledge, Timeout, Apply, BackToPoll, vars, client
<1> QED BY <1>1, <1>2 DEF Answering

-----------------------------------------------------------------------------
(* Types.                                                                  *)

\* At the start nothing was sent.
LEMMA InitTypes == Init => Types
BY StorageBoundsAssumption, StorageEventsAssumption
   DEF Init, Types, Shape, Sent, RowsKnown, WritesKnown, AppliedKnown, LoopTypes

\* A step keeps every part of the state in its type.
LEMMA StepKeepsTypes ==
  ASSUME IInv, Types, [Next]_vars
  PROVE  Types'
<1> USE DEF Types
<1>1. Shape' BY StepKeepsInvariant DEF IInv
<1>2. WritesKnown'
  <2>1. CASE UNCHANGED writes BY <2>1 DEF WritesKnown
  <2>2. CASE writes' = <<>> BY <2>2 DEF WritesKnown
  <2>3. ASSUME NEW nodes \in Quorums, NEW row \in {ZoneRow(z) : z \in Zones} \cup {TotalRow},
               writes' = With(writes, row, View(nodes, row) (+) SetToBag({event})),
               event \in Events
        PROVE  WritesKnown'
    <3>1. IsReceipts(View(nodes, row) (+) SetToBag({event}))
      BY <2>3, ViewReceipts, ReceiptAdded
    <3> DEFINE content == View(nodes, row) (+) SetToBag({event})
    <3>2. /\ DOMAIN writes' = DOMAIN writes \cup {row}
          /\ \A r \in DOMAIN writes' : writes'[r] = content \/ (r \in DOMAIN writes /\ writes'[r] = writes[r])
      <4> HIDE DEF content
      <4> QED BY <2>3 DEF With, content
    <3> HIDE DEF content
    <3>3. IsReceipts(content) BY <3>1 DEF content
    <3> QED BY <3>2, <3>3 DEF WritesKnown
  <2> QED BY <2>1, <2>2, <2>3, WritesChange
<1>3. RowsKnown'
  <2>1. CASE UNCHANGED batches BY <2>1 DEF RowsKnown
  <2>2. ASSUME Execute, NEW w, w = With(writes, ProcessedRow(event), SetToBag({event}))
        PROVE  /\ DOMAIN w \subseteq Rows
               /\ \A row \in DOMAIN w : IsReceipts(w[row])
               /\ \A e \in Events : ProcessedRow(e) \in DOMAIN w => w[ProcessedRow(e)] = SetToBag({e})
    <3>1. event \in Events BY <2>2 DEF Execute, LoopTypes
    <3>2. DOMAIN w = DOMAIN writes \cup {ProcessedRow(event)} /\ w[ProcessedRow(event)] = SetToBag({event})
          /\ \A r \in DOMAIN writes : r # ProcessedRow(event) => w[r] = writes[r]
      <4> DEFINE row == ProcessedRow(event)
                 content == SetToBag({event})
      <4> HIDE DEF row, content
      <4>1. w = With(writes, row, content) BY <2>2 DEF row, content
      <4>2. DOMAIN w = DOMAIN writes \cup {row} /\ w[row] = content
            /\ \A r \in DOMAIN writes : r # row => w[r] = writes[r]
        BY <4>1 DEF With
      <4> QED BY <4>2 DEF row, content
    <3>3. \A e \in Events : ProcessedRow(e) \notin DOMAIN writes
      <4>1. \A e, z : ProcessedRow(e) # ZoneRow(z) /\ ProcessedRow(e) # TotalRow BY RowsApart
      <4>2. \A row \in DOMAIN writes : row = TotalRow \/ \E z \in Zones : row = ZoneRow(z)
        BY DEF WritesKnown
      <4> QED BY ONLY <4>1, <4>2, Zenon
    <3>4. DOMAIN w \subseteq Rows BY <3>1, <3>2 DEF WritesKnown, Rows
    <3>5. \A row \in DOMAIN w : IsReceipts(w[row]) BY <3>1, <3>2, SingleReceipt DEF WritesKnown
    <3>6. \A e \in Events : ProcessedRow(e) \in DOMAIN w => w[ProcessedRow(e)] = SetToBag({e})
      BY <3>2, <3>3, RowsApart
    <3> QED BY <3>4, <3>5, <3>6
  <2>3. CASE Execute /\ DOMAIN batches' = DOMAIN batches \cup {Len(batches) + 1}
             /\ batches'[Len(batches) + 1] = With(writes, ProcessedRow(event), SetToBag({event}))
    BY <2>2, <2>3, LogGrows DEF RowsKnown
  <2> QED BY <2>1, <2>3, LogGrows
<1>4. AppliedKnown'
  <2>1. \A b \in DOMAIN batches : Keys(b) \subseteq Keys(b)' BY LogGrows DEF Keys
  <2>2. CASE UNCHANGED applied BY <2>1, <2>2, LogGrows DEF AppliedKnown
  <2>3. ASSUME NEW n \in Nodes, NEW b \in DOMAIN batches, NEW key \in Keys(b), Apply(n, b, key)
        PROVE AppliedKnown'
    <3>1. \A m \in Nodes : applied'[m] \subseteq applied[m] \cup {<<b, key>>}
      BY <2>3 DEF Apply, Shape
    <3> QED BY <2>1, <3>1, LogGrows DEF AppliedKnown
  <2>4. UNCHANGED applied \/ \E n \in Nodes, b \in DOMAIN batches : \E key \in Keys(b) : Apply(n, b, key)
    BY DEF Next, Poll, Lookup, ReadZone, ReadTotal, Execute, Acknowledge, Timeout, vars, cluster
  <2> QED BY <2>2, <2>3, <2>4
<1>5. LoopTypes'
  <2>1. abandoned' \subseteq DOMAIN batches'
    <3>1. abandoned' \subseteq abandoned \cup (IF pc = "wait" THEN {Len(batches)} ELSE {})
      BY DEF Next, Poll, Lookup, ReadZone, ReadTotal, Execute, Acknowledge, Timeout, Apply, vars,
         history
    <3> QED BY <3>1, LogGrows DEF LoopTypes, Shape
  <2>2. polls' \in 0..MaxPolls /\ timeouts' \in 0..MaxTimeouts
    <3>1. polls' = polls \/ (polls < MaxPolls /\ polls' = polls + 1)
      BY DEF Next, Poll, Lookup, ReadZone, ReadTotal, Execute, Acknowledge, Timeout, Apply, vars
    <3>2. timeouts' = timeouts \/ (timeouts < MaxTimeouts /\ timeouts' = timeouts + 1)
      BY DEF Next, Poll, Lookup, ReadZone, ReadTotal, Execute, Acknowledge, Timeout, Apply, vars
    <3> QED BY <3>1, <3>2, StorageBoundsAssumption DEF LoopTypes
  <2>3. /\ pc' \in {"poll", "lookup", "zone", "total", "execute", "wait"}
        /\ event' \in Events \cup {0} /\ (event' = 0 <=> pc' = "poll")
    BY StorageEventsAssumption
       DEF Next, Poll, Lookup, ReadZone, ReadTotal, Execute, Acknowledge, Timeout, Apply,
           BackToPoll, vars, client, LoopTypes
  <2> QED BY <2>1, <2>2, <2>3 DEF LoopTypes
<1> QED BY <1>1, <1>2, <1>3, <1>4, <1>5

\* The inductive invariant the theorems below start from.
LEMMA Invariant == Spec => [](IInv /\ Types)
<1>1. IInv /\ Types /\ [Next]_vars => IInv' /\ Types'
  BY StepKeepsInvariant, StepKeepsTypes
<1> QED BY <1>1, InitInvariant, InitTypes, PTL DEF Spec

\* Every state is of its type: what is applied was sent, what was answered or
\* given up as well (cassandra_repo.py:272-282).
THEOREM TypeCorrect == Spec => []TypeOK
<1>1. IInv /\ Types => TypeOK
  <2> SUFFICES ASSUME IInv, Types PROVE TypeOK
    OBVIOUS
  <2>1. DOMAIN writes \subseteq Rows BY DEF Types, WritesKnown, Rows
  <2> QED BY <2>1 DEF Types, Shape, RowsKnown, AppliedKnown, LoopTypes, TypeOK
<1> QED BY <1>1, Invariant, PTL

-----------------------------------------------------------------------------
(* What was acknowledged stays counted.                                    *)

\* A batch that was acknowledged is part of every later one of the same row, and
\* of the one in hand.
Growing ==
    \A a \in acknowledged : \A row \in DOMAIN batches[a] :
        /\ \A b \in DOMAIN batches :
             b >= a /\ row \in DOMAIN batches[b] =>
                BagToSet(batches[a][row]) \subseteq BagToSet(batches[b][row])
        /\ row \in DOMAIN writes => BagToSet(batches[a][row]) \subseteq BagToSet(writes[row])

\* So it is part of what is read, whoever answers.
LEMMA ViewKeeps ==
  ASSUME IInv, Growing, NEW a \in acknowledged, NEW row \in DOMAIN batches[a],
         NEW nodes \in Quorums
  PROVE  BagToSet(batches[a][row]) \subseteq BagToSet(View(nodes, row))
<1>1. a \in DOMAIN batches /\ a \in Writers(nodes, row)
  BY QuorumsMeet DEF IInv, Shape, AcknowledgedHeld
<1>2. PICK b \in Writers(nodes, row) : View(nodes, row) = batches[b][row] /\ b >= a
  BY <1>1, ViewIsLatest DEF IInv
<1>3. b \in DOMAIN batches /\ row \in DOMAIN batches[b] BY DEF Writers
<1> QED BY <1>2, <1>3 DEF Growing

\* A batch is computed from what was read, and reads see what was acknowledged.
LEMMA StepKeepsGrowing ==
  ASSUME IInv, Types, Growing, [Next]_vars
  PROVE  Growing'
<1> USE DEF IInv, Types
<1>1. acknowledged' = acknowledged \/ Acknowledge
  BY DEF Next, Poll, Lookup, ReadZone, ReadTotal, Execute, Timeout, Apply, vars, history
<1>2. CASE Acknowledge
  <2>1. /\ UNCHANGED batches /\ writes' = <<>>
        /\ acknowledged' = acknowledged \cup {Len(batches)}
    BY <1>2 DEF Acknowledge, BackToPoll, cluster
  <2>2. \A b \in DOMAIN batches : b >= Len(batches) => b = Len(batches)
    BY BatchesNumbered
  <2> QED BY <2>1, <2>2 DEF Growing
<1>3. ASSUME acknowledged' = acknowledged, NEW a \in acknowledged, NEW row \in DOMAIN batches'[a]
      PROVE  /\ \A b \in DOMAIN batches' :
                  b >= a /\ row \in DOMAIN batches'[b] =>
                     BagToSet(batches'[a][row]) \subseteq BagToSet(batches'[b][row])
             /\ row \in DOMAIN writes' => BagToSet(batches'[a][row]) \subseteq BagToSet(writes'[row])
  <2>1. a \in DOMAIN batches /\ batches'[a] = batches[a] /\ row \in DOMAIN batches[a]
    BY <1>3, LogGrows DEF Shape
  <2>2. ASSUME NEW b \in DOMAIN batches', b >= a, row \in DOMAIN batches'[b]
        PROVE  BagToSet(batches[a][row]) \subseteq BagToSet(batches'[b][row])
    <3>1. CASE b \in DOMAIN batches BY <2>1, <2>2, <3>1, LogGrows DEF Growing
    <3>2. CASE b \notin DOMAIN batches
      <4>1. Execute /\ batches'[b] = With(writes, ProcessedRow(event), SetToBag({event}))
        BY <2>2, <3>2, LogGrows
      <4>2. event \in Events BY <4>1 DEF Execute, LoopTypes
      <4>3. CASE row = ProcessedRow(event)
        <5>1. batches[a][row] = SetToBag({event}) BY <2>1, <4>2, <4>3 DEF RowsKnown
        <5>2. batches'[b][row] = SetToBag({event}) BY <4>1, <4>3 DEF With
        <5> QED BY <5>1, <5>2
      <4>4. CASE row # ProcessedRow(event)
        <5>1. row \in DOMAIN writes /\ batches'[b][row] = writes[row]
          BY <2>2, <4>1, <4>4 DEF With
        <5> QED BY <2>1, <5>1 DEF Growing
      <4> QED BY <4>3, <4>4
    <3> QED BY <3>1, <3>2
  <2>3. ASSUME row \in DOMAIN writes'
        PROVE  BagToSet(batches[a][row]) \subseteq BagToSet(writes'[row])
    <3>1. CASE UNCHANGED writes BY <2>1, <2>3, <3>1 DEF Growing
    <3>2. CASE writes' = <<>> BY <2>3, <3>2
    <3>3. ASSUME NEW nodes \in Quorums, NEW r,
                 writes' = With(writes, r, View(nodes, r) (+) SetToBag({event})),
                 event \in Events
          PROVE  BagToSet(batches[a][row]) \subseteq BagToSet(writes'[row])
      <4> DEFINE content == View(nodes, r) (+) SetToBag({event})
      <4>1. BagToSet(View(nodes, r)) \subseteq BagToSet(content)
        BY <3>3, ViewReceipts, ReceiptAdded
      <4> HIDE DEF content
      <4>2. writes' = With(writes, r, content) BY <3>3 DEF content
      <4>3. CASE row = r
        <5>1. writes'[row] = content BY <4>2, <4>3 DEF With
        <5>2. BagToSet(batches[a][row]) \subseteq BagToSet(View(nodes, row)) BY <2>1, ViewKeeps
        <5> QED BY <4>1, <4>3, <5>1, <5>2
      <4>4. CASE row # r
        <5>1. row \in DOMAIN writes /\ writes'[row] = writes[row] BY <2>3, <4>2, <4>4 DEF With
        <5> QED BY <2>1, <5>1 DEF Growing
      <4> QED BY <4>3, <4>4
    <3> QED BY <3>1, <3>2, <3>3, WritesChange
  <2> QED BY <2>1, <2>2, <2>3
<1> QED BY <1>1, <1>2, <1>3 DEF Growing

\* So later batches contain the acknowledged ones throughout.
LEMMA GrowingInvariant == Spec => []Growing
<1>1. Init => Growing BY DEF Init, Growing
<1>2. IInv /\ Types /\ Growing /\ [Next]_vars => Growing' BY StepKeepsGrowing
<1> QED BY <1>1, <1>2, Invariant, PTL DEF Spec

\* What an acknowledged batch counted stays counted, whoever is asked, however
\* many batches follow, time out or come late (README.md:160-162, 224-230).
THEOREM AcknowledgedLastsHolds == Spec => []AcknowledgedLasts
<1>1. IInv /\ Growing => AcknowledgedLasts BY ViewKeeps DEF AcknowledgedLasts
<1> QED BY <1>1, Invariant, GrowingInvariant, PTL

-----------------------------------------------------------------------------
(* Batches are as good as atomic until one is given up.                    *)

\* The batches that wrote the row, wherever they have arrived, and what the row
\* holds when they all have.
Sendings(row) == {b \in DOMAIN batches : row \in DOMAIN batches[b]}

Logged(row) == IF Sendings(row) = {} THEN EmptyBag ELSE batches[Max(Sendings(row))][row]

\* What AllOrNothing says of an event, of the log instead of a view.
LoggedOnce(e) ==
    LET inZone == Times(e, Logged(ZoneRow(ZoneOf[e])))
        inTotal == Times(e, Logged(TotalRow))
    IN  /\ inZone = inTotal
        /\ inZone \in {0, 1}
        /\ Logged(ProcessedRow(e)) # EmptyBag /\ inZone = 0 =>
              \E f \in BagToSet(Logged(ZoneRow(ZoneOf[e]))) : f > e

\* Every batch but the one waited for is known to have arrived.
AllAcknowledged ==
    \A b \in DOMAIN batches : b \in acknowledged \/ (pc = "wait" /\ b = Len(batches))

\* The batch in hand is computed from the rows as they are in the log.
HandCurrent ==
    LET row == ZoneRow(ZoneOf[event])
        zone == Logged(row)
    IN  /\ pc \in {"poll", "lookup", "zone"} => DOMAIN writes = {}
        /\ pc = "total" =>
             /\ ~Stale(zone)
             /\ DOMAIN writes = {row} /\ writes[row] = zone (+) SetToBag({event})
        /\ pc = "execute" =>
             \/ Stale(zone) /\ DOMAIN writes = {}
             \/ /\ ~Stale(zone)
                /\ DOMAIN writes = {row, TotalRow} /\ writes[row] = zone (+) SetToBag({event})
                /\ writes[TotalRow] = Logged(TotalRow) (+) SetToBag({event})

\* As long as nothing was given up, the log is what readers see and counts each
\* event once.
AtomicInv ==
    abandoned = {} => AllAcknowledged /\ HandCurrent /\ \A e \in Events : LoggedOnce(e)

\* When every batch was acknowledged, every reader reads the log.
LEMMA ViewIsLogged ==
  ASSUME IInv, DOMAIN batches \subseteq acknowledged, NEW nodes \in Quorums, NEW row
  PROVE  View(nodes, row) = Logged(row)
<1>1. Writers(nodes, row) \subseteq Sendings(row) BY DEF Writers, Sendings
<1>2. ASSUME NEW b \in Sendings(row) PROVE b \in Writers(nodes, row)
  BY QuorumsMeet DEF IInv, AcknowledgedHeld, Sendings
<1>3. Writers(nodes, row) = Sendings(row) BY <1>1, <1>2
<1> QED BY <1>3 DEF View, Logged

\* The log of a row holds a bag of events.
LEMMA LoggedReceipts ==
  ASSUME Types, NEW row
  PROVE  IsReceipts(Logged(row))
<1>1. CASE Sendings(row) = {} BY <1>1, SingleReceipt DEF Logged
<1>2. CASE Sendings(row) # {}
  <2>1. Max(Sendings(row)) \in Sendings(row) BY <1>2, LatestOf, BatchesNumbered DEF Types, Sendings
  <2> QED BY <1>2, <2>1 DEF Logged, Types, RowsKnown, Sendings
<1> QED BY <1>1, <1>2

\* A batch that is sent replaces what the rows it writes hold.
LEMMA LoggedNext ==
  ASSUME Types, Types', NEW w, DOMAIN batches' = DOMAIN batches \cup {Len(batches) + 1},
         batches'[Len(batches) + 1] = w,
         \A b \in DOMAIN batches : batches'[b] = batches[b], NEW row
  PROVE  Logged(row)' = IF row \in DOMAIN w THEN w[row] ELSE Logged(row)
<1> DEFINE n == Len(batches) + 1
<1>1. n \in Nat /\ \A b \in DOMAIN batches : b < n /\ b \in Nat
  BY BatchesNumbered DEF Types
<1>2. Sendings(row)' = Sendings(row) \cup (IF row \in DOMAIN w THEN {n} ELSE {})
  BY <1>1 DEF Sendings
<1>3. CASE row \in DOMAIN w
  <2>1. Max(Sendings(row)') \in Sendings(row)' /\ \A b \in Sendings(row)' : Max(Sendings(row)') >= b
    <3>1. Sendings(row)' \in SUBSET (1..Len(batches')) /\ Len(batches') \in Nat
      BY DEF Types, Shape, Sendings
    <3>2. Sendings(row)' # {} BY <1>2, <1>3
    <3> QED BY ONLY <3>1, <3>2, LatestOf
  <2>2. Max(Sendings(row)') = n
    <3>1. n \in Sendings(row)' /\ \A b \in Sendings(row)' : b \in Nat /\ b <= n
      BY <1>1, <1>2, <1>3 DEF Sendings
    <3> DEFINE m == Max(Sendings(row)')
    <3>2. m \in Sendings(row)' /\ \A b \in Sendings(row)' : m >= b BY <2>1
    <3> HIDE DEF n, m
    <3>3. m = n BY <3>1, <3>2
    <3> QED BY <3>3 DEF m
  <2>3. Sendings(row)' # {} BY <1>2, <1>3
  <2> QED BY <1>3, <2>2, <2>3 DEF Logged
<1>4. CASE row \notin DOMAIN w
  <2>1. Sendings(row)' = Sendings(row) BY <1>2, <1>4
  <2>2. CASE Sendings(row) = {} BY <1>4, <2>1, <2>2 DEF Logged
  <2>3. CASE Sendings(row) # {}
    <3>1. Max(Sendings(row)) \in Sendings(row) BY <2>3, LatestOf, BatchesNumbered DEF Types, Sendings
    <3>2. Logged(row)' = batches'[Max(Sendings(row))][row] BY <2>1, <2>3 DEF Logged
    <3> QED BY <1>4, <2>3, <3>1, <3>2 DEF Logged, Sendings
  <2> QED BY <2>2, <2>3
<1> QED BY <1>3, <1>4

\* As long as nothing is given up, the log changes with Execute alone.
LEMMA StorageSteps ==
  ASSUME [Next]_vars, abandoned = {}, abandoned' = {}
  PROVE  \/ Execute
         \/ Acknowledge
         \/ /\ UNCHANGED <<batches, acknowledged>>
            /\ \/ UNCHANGED client
               \/ /\ pc # "wait" /\ pc' # "wait"
                  /\ \/ BackToPoll
                     \/ pc = "poll" /\ pc' = "lookup" /\ writes' = writes
                     \/ pc = "lookup" /\ pc' = "zone" /\ writes' = writes
                     \/ \E nodes \in Quorums : ReadZone(nodes) \/ ReadTotal(nodes)
BY DEF Next, Poll, Lookup, ReadZone, ReadTotal, Acknowledge, Timeout, Apply, BackToPoll, vars,
   cluster, client, history, Answering

\* What the log says changes with the batches alone.
LEMMA LoggedStays ==
  ASSUME UNCHANGED batches, NEW row
  PROVE  Logged(row)' = Logged(row)
BY DEF Logged, Sendings

\* A batch is known to have arrived before the next one is sent.
LEMMA StepKeepsAcknowledged ==
  ASSUME Types, Types', AllAcknowledged, [Next]_vars, abandoned = {}, abandoned' = {}
  PROVE  AllAcknowledged'
<1>1. CASE Execute
  <2>1. pc = "execute" /\ pc' = "wait" /\ acknowledged' = acknowledged
    BY <1>1 DEF Execute, history
  <2>2. DOMAIN batches' = DOMAIN batches \cup {Len(batches) + 1} /\ Len(batches') = Len(batches) + 1
    BY <1>1, LogGrows DEF Types
  <2> QED BY <2>1, <2>2 DEF AllAcknowledged
<1>2. CASE Acknowledge
  BY <1>2 DEF Acknowledge, AllAcknowledged, cluster
<1>3. CASE UNCHANGED <<batches, acknowledged, pc>> BY <1>3 DEF AllAcknowledged
<1>4. CASE UNCHANGED <<batches, acknowledged>> /\ pc # "wait" BY <1>4 DEF AllAcknowledged
<1> QED BY <1>1, <1>2, <1>3, <1>4, StorageSteps DEF client

\* The batch in hand is computed from rows that nobody else changes.
LEMMA StepKeepsHand ==
  ASSUME IInv, Types, AllAcknowledged, HandCurrent, [Next]_vars, abandoned = {}, abandoned' = {}
  PROVE  HandCurrent'
<1> DEFINE row == ZoneRow(ZoneOf[event])
<1>1. CASE Execute BY <1>1 DEF Execute, HandCurrent
<1>2. CASE Acknowledge \/ BackToPoll BY <1>2 DEF Acknowledge, BackToPoll, HandCurrent
<1>3. ASSUME UNCHANGED batches
      PROVE  \A r : Logged(r)' = Logged(r)
  BY <1>3, LoggedStays
<1>4. CASE UNCHANGED batches /\ UNCHANGED client
  BY <1>3, <1>4 DEF client, HandCurrent, Stale
<1>5. CASE UNCHANGED batches /\ pc \in {"poll", "lookup"} /\ pc' \in {"lookup", "zone"} /\ writes' = writes
  BY <1>5 DEF HandCurrent
<1>6. ASSUME NEW nodes \in Quorums, ReadZone(nodes) \/ ReadTotal(nodes),
             UNCHANGED <<batches, acknowledged>>
      PROVE  HandCurrent'
  <2>1. /\ event' = event /\ pc \in {"zone", "total"}
        /\ \A r : View(nodes, r) = Logged(r) /\ Logged(r)' = Logged(r)
    <3>1. pc \in {"zone", "total"} /\ event' = event BY <1>6 DEF ReadZone, ReadTotal
    <3>2. DOMAIN batches \subseteq acknowledged BY <3>1 DEF AllAcknowledged
    <3> QED BY <1>3, <1>6, <3>1, <3>2, ViewIsLogged
  <2>2. ASSUME ReadZone(nodes) PROVE HandCurrent'
    <3>1. DOMAIN writes = {} BY <2>2 DEF ReadZone, HandCurrent
    <3>2. CASE Stale(Logged(row))
      <4>1. pc' = "execute" /\ writes' = writes BY <2>1, <2>2, <3>2 DEF ReadZone
      <4> QED BY <2>1, <3>1, <3>2, <4>1 DEF HandCurrent, Stale
    <3>3. CASE ~Stale(Logged(row))
      <4> DEFINE content == Logged(row) (+) SetToBag({event})
      <4>1. pc' = "total" /\ writes' = With(writes, row, content)
        BY <2>1, <2>2, <3>3 DEF ReadZone
      <4> HIDE DEF content
      <4>2. DOMAIN writes' = {row} /\ writes'[row] = content BY <3>1, <4>1 DEF With
      <4> QED BY <2>1, <3>3, <4>1, <4>2 DEF HandCurrent, Stale, content
    <3> QED BY <3>2, <3>3
  <2>3. ASSUME ReadTotal(nodes) PROVE HandCurrent'
    <3>1. /\ ~Stale(Logged(row))
          /\ DOMAIN writes = {row} /\ writes[row] = Logged(row) (+) SetToBag({event})
      BY <2>3 DEF ReadTotal, HandCurrent
    <3> DEFINE content == Logged(TotalRow) (+) SetToBag({event})
    <3>2. pc' = "execute" /\ writes' = With(writes, TotalRow, content)
      BY <2>1, <2>3 DEF ReadTotal
    <3> HIDE DEF content
    <3>3. row # TotalRow BY RowsApart
    <3>4. /\ DOMAIN writes' = {row, TotalRow}
          /\ writes'[row] = writes[row] /\ writes'[TotalRow] = content
      BY <3>1, <3>2, <3>3 DEF With
    <3> QED BY <2>1, <3>1, <3>2, <3>4 DEF HandCurrent, Stale, content
  <2> QED BY <1>6, <2>2, <2>3
<1> QED BY <1>1, <1>2, <1>4, <1>5, <1>6, StorageSteps

\* A batch counts its event in both rows or in neither, and once.
LEMMA ExecuteKeepsOnce ==
  ASSUME IInv, Types, Types', HandCurrent, \A e \in Events : LoggedOnce(e), Execute, [Next]_vars,
         NEW e \in Events
  PROVE  LoggedOnce(e)'
<1> SUFFICES ASSUME NEW x \in Events, x = event PROVE LoggedOnce(e)'
  BY DEF Execute, Types, LoopTypes
<1> DEFINE row == ZoneRow(ZoneOf[x])
           w == With(writes, ProcessedRow(x), SetToBag({x}))
<1>1. x \in Events /\ x \in Nat /\ pc = "execute"
  BY StorageEventsAssumption DEF Execute
<1>2. \A r : Logged(r)' = IF r \in DOMAIN w THEN w[r] ELSE Logged(r)
  <2>1. /\ DOMAIN batches' = DOMAIN batches \cup {Len(batches) + 1}
        /\ batches'[Len(batches) + 1] = w
        /\ \A b \in DOMAIN batches : batches'[b] = batches[b]
    BY LogGrows DEF Types
  <2> HIDE DEF w
  <2> QED BY <2>1, LoggedNext
<1>3. DOMAIN w = DOMAIN writes \cup {ProcessedRow(x)}
      /\ w[ProcessedRow(x)] = SetToBag({x})
      /\ \A r \in DOMAIN writes : r # ProcessedRow(x) => w[r] = writes[r]
  BY DEF With
<1>4. \A f : ProcessedRow(f) # row /\ ProcessedRow(f) # TotalRow /\ row # TotalRow
  BY RowsApart
<1> HIDE DEF w
<1> DEFINE mine == ZoneRow(ZoneOf[e])
           zone == Logged(mine)
           total == Logged(TotalRow)
           id == Logged(ProcessedRow(e))
<1>5. /\ Times(e, zone) = Times(e, total) /\ Times(e, zone) \in {0, 1}
      /\ id # EmptyBag /\ Times(e, zone) = 0 => \E f \in BagToSet(zone) : f > e
  BY DEF LoggedOnce
<1>6. IsReceipts(zone) /\ IsReceipts(total) /\ IsReceipts(Logged(row)) BY LoggedReceipts
<1>7. e \in Nat /\ \A f \in BagToSet(zone) : f \in Nat
  BY <1>6, StorageEventsAssumption DEF IsReceipts
<1>8. e \in BagToSet(zone) => Times(e, zone) > 0
  BY <1>6 DEF Times, BagIn, IsReceipts, IsABag, BagToSet
<1>9. id' = IF e = x THEN SetToBag({x}) ELSE id
  <2>1. ProcessedRow(e) \in DOMAIN w <=> e = x
    <3>1. ProcessedRow(e) \notin DOMAIN writes
      <4>1. DOMAIN writes \subseteq {row, TotalRow} BY <1>1 DEF HandCurrent
      <4> QED BY <1>4, <4>1
    <3> QED BY <1>3, <3>1, RowsApart
  <2> QED BY <1>2, <1>3, <2>1
<1>10. CASE Stale(Logged(row)) /\ DOMAIN writes = {}
  <2>1. zone' = zone /\ total' = total
    <3>1. mine \notin DOMAIN w /\ TotalRow \notin DOMAIN w BY <1>3, <1>10, RowsApart
    <3> QED BY <1>2, <3>1
  <2>2. ASSUME id' # EmptyBag, Times(e, zone) = 0 PROVE \E f \in BagToSet(zone) : f > e
    <3>1. CASE e # x BY <1>5, <1>9, <2>2, <3>1
    <3>2. CASE e = x
      <4>1. PICK f \in BagToSet(zone) : f >= x BY <1>10, <3>2 DEF Stale
      <4>2. f # e BY <1>8, <2>2
      <4>3. f > e BY <1>7, <3>2, <4>1, <4>2
      <4> QED BY <4>3
    <3> QED BY <3>1, <3>2
  <2> HIDE DEF zone, total, id, mine
  <2> QED BY <1>5, <2>1, <2>2 DEF LoggedOnce, zone, total, id, mine
<1>11. CASE /\ ~Stale(Logged(row))
            /\ DOMAIN writes = {row, TotalRow} /\ writes[row] = Logged(row) (+) SetToBag({x})
            /\ writes[TotalRow] = total (+) SetToBag({x})
  <2>1. /\ Logged(row)' = Logged(row) (+) SetToBag({x})
        /\ total' = total (+) SetToBag({x})
    <3>1. row \in DOMAIN w /\ TotalRow \in DOMAIN w BY <1>3, <1>11
    <3>2. w[row] = writes[row] /\ w[TotalRow] = writes[TotalRow] BY <1>3, <1>4, <1>11
    <3> QED BY <1>2, <1>11, <3>1, <3>2
  <2>2. CASE mine = row
    <3>1. zone' = zone (+) SetToBag({x}) BY <2>1, <2>2
    <3>2. /\ Times(e, zone') = Times(e, zone) + (IF e = x THEN 1 ELSE 0)
          /\ Times(e, total') = Times(e, total) + (IF e = x THEN 1 ELSE 0)
          /\ BagToSet(zone') = BagToSet(zone) \cup {x}
      BY <1>1, <1>6, <2>1, <3>1, ReceiptAdded
    <3>3. e = x => Times(e, zone) = 0
      <4>1. x \in BagToSet(Logged(row)) => Stale(Logged(row)) BY <1>1 DEF Stale
      <4> QED BY <1>11, <2>2, <4>1 DEF Times, BagIn
    <3>4. /\ Times(e, zone') = Times(e, total') /\ Times(e, zone') \in {0, 1}
          /\ Times(e, zone') = 0 => e # x /\ Times(e, zone) = 0
      <4> HIDE DEF zone, total
      <4> QED BY <1>5, <3>2, <3>3
    <3>5. ASSUME id' # EmptyBag, Times(e, zone') = 0 PROVE \E f \in BagToSet(zone') : f > e
      BY <1>5, <1>9, <3>2, <3>4, <3>5
    <3> HIDE DEF zone, total, id, mine
    <3> QED BY <3>4, <3>5 DEF LoggedOnce, zone, total, id, mine
  <2>3. CASE mine # row
    <3>1. e # x BY <2>3
    <3>2. zone' = zone
      <4>1. mine \notin DOMAIN w BY <1>3, <1>11, <2>3, RowsApart
      <4> QED BY <1>2, <4>1
    <3>3. Times(e, total') = Times(e, total)
      <4>1. Times(e, total') = Times(e, total) + (IF e = x THEN 1 ELSE 0)
        BY <1>1, <1>6, <2>1, ReceiptAdded
      <4>2. Times(e, total) \in {0, 1} BY <1>5
      <4> HIDE DEF total
      <4> QED BY <3>1, <4>1, <4>2
    <3>4. id' = id BY <1>9, <3>1
    <3> HIDE DEF zone, total, id, mine
    <3> QED BY <1>5, <3>2, <3>3, <3>4 DEF LoggedOnce, zone, total, id, mine
  <2> QED BY <2>2, <2>3
<1>12. /\ \/ Stale(Logged(row)) /\ DOMAIN writes = {}
          \/ /\ ~Stale(Logged(row))
             /\ DOMAIN writes = {row, TotalRow} /\ writes[row] = Logged(row) (+) SetToBag({x})
             /\ writes[TotalRow] = total (+) SetToBag({x})
  BY <1>1 DEF HandCurrent
<1> QED BY <1>10, <1>11, <1>12

\* The three parts of the invariant carry each other over a step.
LEMMA StepKeepsAtomic ==
  ASSUME IInv, Types, Types', AtomicInv, [Next]_vars
  PROVE  AtomicInv'
<1> SUFFICES ASSUME abandoned' = {}
             PROVE  AllAcknowledged' /\ HandCurrent' /\ \A e \in Events : LoggedOnce(e)'
  BY DEF AtomicInv
<1>1. abandoned = {}
  BY DEF Next, Poll, Lookup, ReadZone, ReadTotal, Execute, Acknowledge, Timeout, Apply, vars,
     history
<1>2. AllAcknowledged /\ HandCurrent /\ \A e \in Events : LoggedOnce(e) BY <1>1 DEF AtomicInv
<1>3. CASE Execute BY <1>2, <1>3, ExecuteKeepsOnce, StepKeepsAcknowledged, StepKeepsHand, <1>1
<1>4. CASE ~Execute
  <2>1. UNCHANGED batches BY <1>4, LogGrows DEF Types
  <2>2. \A e \in Events : LoggedOnce(e)' BY <1>2, <2>1, LoggedStays DEF LoggedOnce
  <2> QED BY <1>1, <1>2, <2>2, StepKeepsAcknowledged, StepKeepsHand
<1> QED BY <1>3, <1>4

\* At the start nothing is logged, in either table.
LEMMA InitAtomic == Init => AtomicInv
<1> SUFFICES ASSUME Init PROVE AllAcknowledged /\ HandCurrent /\ \A e \in Events : LoggedOnce(e)
  BY DEF AtomicInv
<1>1. \A row : Logged(row) = EmptyBag BY DEF Init, Logged, Sendings
<1>2. \A e : Times(e, EmptyBag) = 0 BY SingleReceipt DEF Times, BagIn
<1>3. \A e \in Events : LoggedOnce(e) BY <1>1, <1>2 DEF LoggedOnce
<1> QED BY <1>3 DEF Init, AllAcknowledged, HandCurrent

\* Until a batch is given up, whoever reads between two messages finds the
\* tables in agreement, each event counted once in both or in neither, and the
\* recorded ones all there: two reads that are each of their own, a batch that
\* reaches each table at each node at a time of its own and an id that is
\* looked up elsewhere add up to one atomic step (README.md:171-178,
\* cassandra_repo.py:275-277).
THEOREM AtomicUntilAbandonedHolds == Spec => []AtomicUntilAbandoned
<1>1. IInv /\ Types /\ IInv' /\ Types' /\ AtomicInv /\ [Next]_vars => AtomicInv'
  BY StepKeepsAtomic
<1>2. IInv /\ Types /\ AtomicInv => AtomicUntilAbandoned
  <2> SUFFICES ASSUME IInv, Types, AtomicInv, pc = "poll", abandoned = {}, NEW nodes \in Quorums
               PROVE  AllOrNothing(nodes)
    BY DEF AtomicUntilAbandoned
  <2>1. DOMAIN batches \subseteq acknowledged BY DEF AtomicInv, AllAcknowledged
  <2>2. \A row : View(nodes, row) = Logged(row) BY <2>1, ViewIsLogged
  <2> QED BY <2>2 DEF AtomicInv, LoggedOnce, AllOrNothing
<1> QED BY <1>1, <1>2, InitAtomic, Invariant, PTL DEF Spec
=============================================================================
