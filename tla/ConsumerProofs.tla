---------------------------- MODULE ConsumerProofs -----------------------------
(***************************************************************************)
(* Theorems of Consumer: types, offsets and partitions, for every number   *)
(* of consumers and partitions, every set of events and every bound.       *)
(***************************************************************************)
EXTENDS Consumer, FiniteSetTheorems, SequenceTheorems, TLAPS

\* The lemmas about one applied event are those of the inventory.
Proved == INSTANCE InventoryProofs

-----------------------------------------------------------------------------
(* An instance of the handlers computes what the handlers compute.         *)

\* The legs, verdicts and batches InventoryProofs speaks of are those of here.
LEMMA SameHandlers ==
  ASSUME NEW e, NEW t
  PROVE  /\ Proved!Legs(e, t) = Legs(e, t)
         /\ Proved!Verdict(e, t) = Verdict(e, t)
         /\ Proved!Batch(e, t) = Batch(e, t)
         /\ Proved!Written(e, t) = Write(t, Batch(e, t))
<1>1. Proved!Legs(e, t) = Legs(e, t)
  BY DEF Proved!Legs, Proved!ReceivedLegs, Proved!ShippedLegs, Proved!MovedLegs,
     Proved!ReservedLegs, Proved!ReleasedLegs, Proved!CountedLegs, Proved!OrderCreatedLegs,
     Proved!OrderCompletedLegs, Proved!Leg,
     Legs, ReceivedLegs, ShippedLegs, MovedLegs, ReservedLegs, ReleasedLegs, CountedLegs,
     OrderCreatedLegs, OrderCompletedLegs, Leg
<1>2. \A f, S : Proved!SumFunctionOnSet(f, S) = SumFunctionOnSet(f, S)
  BY DEF Proved!SumFunctionOnSet, Proved!FoldFunctionOnSet, Proved!MapThenFoldSet,
     SumFunctionOnSet, FoldFunctionOnSet, MapThenFoldSet
<1>3. \A p : /\ Proved!AvailableDelta(Legs(e, t), p) = AvailableDelta(Legs(e, t), p)
             /\ Proved!ReservedDelta(Legs(e, t), p) = ReservedDelta(Legs(e, t), p)
  BY <1>2 DEF Proved!AvailableDelta, AvailableDelta, Proved!ReservedDelta, ReservedDelta,
     Proved!ProductLegs, ProductLegs
<1>4. Proved!HistoryOf(e, t) = HistoryOf(e, t)
  BY <1>1, <1>3 DEF Proved!HistoryOf, HistoryOf, Proved!HistoryQuantity, HistoryQuantity
<1>5. Proved!Verdict(e, t) = Verdict(e, t)
  <2>1. /\ Proved!Malformed(e) <=> Malformed(e)
        /\ Proved!OrderRefused(e, t) <=> OrderRefused(e, t)
        /\ Proved!OrderAlreadyCompleted(e, t) <=> OrderAlreadyCompleted(e, t)
    BY DEF Proved!Malformed, Malformed, Proved!StockTypes, StockTypes, Proved!OrderRefused,
       OrderRefused, Proved!OrderAlreadyCompleted, OrderAlreadyCompleted
  <2>2. \A leg : /\ Proved!StaleLeg(leg, e, t) <=> StaleLeg(leg, e, t)
                 /\ Proved!ShortLeg(leg, t) <=> ShortLeg(leg, t)
    BY DEF Proved!StaleLeg, StaleLeg, Proved!ShortLeg, ShortLeg
  <2>3. /\ Proved!StaleEvent(e, t) <=> StaleEvent(e, t)
        /\ Proved!ShortEvent(e, t) <=> ShortEvent(e, t)
    BY <1>1, <2>2 DEF Proved!StaleEvent, StaleEvent, Proved!ShortEvent, ShortEvent
  <2>4. Proved!Unbindable(e, t) <=> Unbindable(e, t)
    BY <1>4 DEF Proved!Unbindable, Unbindable
  <2> QED BY <2>1, <2>3, <2>4 DEF Proved!Verdict, Verdict
<1>6. Proved!Batch(e, t) = Batch(e, t)
  <2>1. Proved!ZoneUpserts(e, t) = ZoneUpserts(e, t)
    BY <1>1 DEF Proved!ZoneUpserts, ZoneUpserts, Proved!Max, Max
  <2>2. Proved!MirrorUpserts(e, t) = MirrorUpserts(e, t)
    BY <2>1 DEF Proved!MirrorUpserts, MirrorUpserts
  <2>3. Proved!TotalUpserts(e, t) = TotalUpserts(e, t)
    BY <1>1, <1>3 DEF Proved!TotalUpserts, TotalUpserts
  <2>4. Proved!OrderUpserts(e, t) = OrderUpserts(e, t)
    BY DEF Proved!OrderUpserts, OrderUpserts
  <2> QED BY <1>4, <2>1, <2>2, <2>3, <2>4 DEF Proved!Batch, Batch
<1>7. Proved!Written(e, t) = Write(t, Batch(e, t))
  BY <1>6 DEF Proved!Written, Proved!Write, Write, Proved!Upsert, Upsert,
     Proved!OtherHistory, OtherHistory, Proved!HistoryKey, HistoryKey
<1> QED BY <1>1, <1>5, <1>6, <1>7

\* So are the tables, and the empty ones.
LEMMA SameTables == Proved!Tables = Tables /\ Proved!EmptyTables = EmptyTables
  BY DEF Proved!Tables, Proved!ZoneRows, Proved!MirrorRows, Proved!TotalRows, Proved!OrderRows,
     Proved!HistoryRows, Proved!OrderItems, Tables, ZoneRows, MirrorRows, TotalRows, OrderRows,
     HistoryRows, OrderItems, Proved!EmptyTables, EmptyTables, Proved!NoStock, NoStock

\* The assumptions on the constants are the same.
LEMMA SameAssumptions ==
  /\ Proved!EventsAssumption
  /\ Proved!MaxIntAssumption
  /\ Proved!ZonesAssumption
<1>1. \A e \in Events : e \in Proved!AllEvents
  BY EventsAssumption DEF AllEvents, StockEvents, MoveEvents, CountEvents, OrderCreatedEvents,
     OrderCompletedEvents, UnreadableEvents, Timestamps, StockTypes, OrderItems,
     Proved!AllEvents, Proved!StockEvents, Proved!MoveEvents, Proved!CountEvents,
     Proved!OrderCreatedEvents, Proved!OrderCompletedEvents, Proved!UnreadableEvents,
     Proved!Timestamps, Proved!StockTypes, Proved!OrderItems
<1>2. Proved!EventsAssumption BY <1>1 DEF Proved!EventsAssumption
<1>3. Proved!MaxIntAssumption BY MaxIntAssumption DEF Proved!MaxIntAssumption
<1>4. Proved!ZonesAssumption
  BY ZonesAssumption DEF Proved!ZonesAssumption, Proved!IsFiniteSet, IsFiniteSet
<1> QED BY <1>2, <1>3, <1>4

-----------------------------------------------------------------------------
(* Batches and the tables.                                                 *)

\* The legs of an event change rows of products and zones.
LEMMA LegsOfRows ==
  ASSUME NEW e \in Events, NEW t \in Tables, NEW i \in DOMAIN Legs(e, t)
  PROVE  Legs(e, t)[i].product \in Products /\ Legs(e, t)[i].zone \in Zones
<1>1. Legs(e, t) \in Seq(Proved!LegRows)
  BY Proved!LegsType, SameAssumptions, SameHandlers, SameTables
<1>2. Legs(e, t)[i] \in Proved!LegRows
  BY <1>1, Proved!LegsFinite, SameAssumptions
<1> QED BY <1>2 DEF Proved!LegRows

\* The order an order event names is one of the orders.
LEMMA OrderNamed ==
  ASSUME NEW e \in Events, e.type \in {"ORDER_CREATED", "ORDER_COMPLETED"}
  PROVE  e.order \in Orders
  BY EventsAssumption DEF AllEvents, StockEvents, MoveEvents, CountEvents, OrderCreatedEvents,
     OrderCompletedEvents, UnreadableEvents, StockTypes

\* The batch of an event that is applied consists of rows of their types.
LEMMA BatchType ==
  ASSUME NEW e \in Events, NEW t \in Tables, Verdict(e, t) = "apply"
  PROVE  IsBatch(Batch(e, t))
<1> DEFINE b == Batch(e, t)
           w == Write(t, b)
           legs == Legs(e, t)
<1>1. w \in Tables
  BY Proved!WrittenType, SameAssumptions, SameHandlers, SameTables
<1>2. /\ DOMAIN b.ipz = {<<legs[i].product, legs[i].zone>> : i \in DOMAIN legs}
      /\ DOMAIN b.iz = {<<j[2], j[1]>> : j \in DOMAIN b.ipz}
      /\ DOMAIN b.ip = {legs[i].product : i \in DOMAIN legs}
      /\ DOMAIN b.orders = IF e.type \in {"ORDER_CREATED", "ORDER_COMPLETED"}
                           THEN {e.order} ELSE {}
  BY DEF Batch, ZoneUpserts, MirrorUpserts, TotalUpserts, OrderUpserts
<1>3. /\ DOMAIN b.ipz \subseteq Products \X Zones
      /\ DOMAIN b.iz \subseteq Zones \X Products
      /\ DOMAIN b.ip \subseteq Products
      /\ DOMAIN b.orders \subseteq Orders
  <2>1. \A i \in DOMAIN legs : legs[i].product \in Products /\ legs[i].zone \in Zones
    BY LegsOfRows
  <2> HIDE DEF b, legs
  <2> QED BY <1>2, <2>1, OrderNamed
<1>4. /\ DOMAIN t.ipz = Products \X Zones /\ DOMAIN t.iz = Zones \X Products
      /\ DOMAIN t.ip = Products /\ DOMAIN t.orders = Orders
  BY DEF Tables
<1>5. /\ \A k \in DOMAIN b.ipz : b.ipz[k] = w.ipz[k]
      /\ \A k \in DOMAIN b.iz : b.iz[k] = w.iz[k]
      /\ \A k \in DOMAIN b.ip : b.ip[k] = w.ip[k]
      /\ \A k \in DOMAIN b.orders : b.orders[k] = w.orders[k]
  <2> HIDE DEF b
  <2> QED BY <1>3, <1>4 DEF Write, Upsert
<1>6. b.history \subseteq w.history
  <2> HIDE DEF b
  <2> QED BY DEF Write
<1> HIDE DEF b, w
<1> QED BY <1>1, <1>3, <1>5, <1>6 DEF Tables, IsBatch, RowsOf, b

\* Writing rows of their types leaves the tables in theirs.
LEMMA WriteType ==
  ASSUME NEW t \in Tables, NEW b, IsBatch(b)
  PROVE  Write(t, b) \in Tables
<1>1. /\ Upsert(t.ipz, b.ipz) \in [Products \X Zones -> ZoneRows]
      /\ Upsert(t.iz, b.iz) \in [Zones \X Products -> MirrorRows]
  BY DEF Tables, IsBatch, RowsOf, Upsert
<1>2. /\ Upsert(t.ip, b.ip) \in [Products -> TotalRows]
      /\ Upsert(t.orders, b.orders) \in [Orders -> OrderRows]
  BY DEF Tables, IsBatch, RowsOf, Upsert
<1>3. OtherHistory(t.history, b.history) \cup b.history \subseteq HistoryRows
  BY DEF Tables, IsBatch, OtherHistory
<1> QED BY <1>1, <1>2, <1>3 DEF Tables, Write

\* What is left of a batch when a newer one was written are rows of it.
LEMMA WithoutType ==
  ASSUME NEW b, IsBatch(b), NEW n
  PROVE  IsBatch(Without(b, n))
<1>1. ASSUME NEW rows, NEW newer, NEW keys, NEW type, RowsOf(rows, keys, type)
      PROVE  RowsOf(OtherRows(rows, newer), keys, type)
  BY <1>1 DEF RowsOf, OtherRows
<1>2. b.history \subseteq HistoryRows => OtherHistory(b.history, n.history) \subseteq HistoryRows
  BY DEF OtherHistory
<1> QED BY <1>1, <1>2 DEF Without, IsBatch

\* So are those of the batches that are still on their way.
LEMMA SupersededType ==
  ASSUME NEW batches, NEW n, NEW last,
         \A b \in batches : b.since \in 1..last /\ b.event \in Events /\ IsBatch(b.batch)
  PROVE  \A b \in Superseded(batches, n) :
            b.since \in 1..last /\ b.event \in Events /\ IsBatch(b.batch)
BY WithoutType DEF Superseded

\* The batch of a stale event has no rows, and writing it changes nothing.
LEMMA NoBatchWrites == IsBatch(NoBatch) /\ \A t \in Tables : Write(t, NoBatch) = t
<1>1. IsBatch(NoBatch) BY DEF IsBatch, NoBatch, RowsOf
<1>2. ASSUME NEW t \in Tables PROVE Write(t, NoBatch) = t
  <2>1. /\ Upsert(t.ipz, <<>>) = t.ipz /\ Upsert(t.iz, <<>>) = t.iz
        /\ Upsert(t.ip, <<>>) = t.ip /\ Upsert(t.orders, <<>>) = t.orders
    BY DEF Tables, Upsert
  <2>3. OtherHistory(t.history, {}) \cup {} = t.history
    BY DEF OtherHistory
  <2>2. t = [ipz |-> t.ipz, iz |-> t.iz, ip |-> t.ip, orders |-> t.orders, history |-> t.history]
    BY DEF Tables
  <2> QED BY <2>1, <2>2, <2>3 DEF Write, NoBatch
<1> QED BY <1>1, <1>2

\* The empty tables are of their type.
LEMMA EmptyTablesType == EmptyTables \in Tables
<1>1. \A k \in Products \X Zones : [available |-> 0, reserved |-> 0, ts |-> 0,
                                    supplier |-> NoSupplier] \in ZoneRows
  BY DEF ZoneRows
<1>2. NoStock \in MirrorRows /\ NoStock \in TotalRows
  BY DEF NoStock, MirrorRows, TotalRows
<1>3. [status |-> "NONE", items |-> <<>>, ts |-> 0] \in OrderRows
  BY DEF OrderRows
<1> QED BY <1>1, <1>2, <1>3 DEF EmptyTables, Tables

-----------------------------------------------------------------------------
(* The inductive invariant: types, and who holds which message.            *)

Idle(c) == pc[c] \in {"down", "poll", "closing"}

InLog(m) == m \in Messages /\ m[2] <= Len(log[m[1]])

\* What each partition holds.
LogTypes ==
    /\ log \in [Partitions -> Seq(Events)]
    /\ \A p \in Partitions : Len(log[p]) <= MaxLog

\* The group's offset is never ahead of what was polled.
OffsetTypes ==
    /\ committed \in [Partitions -> Nat]
    /\ position \in [Partitions -> Nat]
    /\ \A p \in Partitions : committed[p] <= position[p] /\ position[p] <= Len(log[p])

\* Members own partitions, and whoever was expelled owns none.
GroupTypes ==
    /\ owner \in [Partitions -> Consumers \cup {NoConsumer}]
    /\ evicted \subseteq Consumers
    /\ \A p \in Partitions : owner[p] \notin evicted
    /\ \A c \in evicted : Processing(c) \/ pc[c] = "poll"

\* A loop has a message of the log in hand exactly while it processes one.
LoopTypes ==
    /\ pc \in [Consumers -> Labels]
    /\ DOMAIN current = Consumers
    /\ \A c \in Consumers : IF Idle(c) THEN current[c] = <<>> ELSE InLog(current[c])

\* What a handler returned are rows of the tables.
BatchTypes ==
    /\ DOMAIN statements = Consumers
    /\ \A c \in Consumers : IsBatch(statements[c])

RowTypes ==
    /\ tables \in Tables
    /\ processed \subseteq {e.id : e \in Events}
    /\ expired \subseteq {e.id : e \in Events}
    /\ \A b \in pending : b.since \in 1..faults /\ b.event \in Events /\ IsBatch(b.batch)
    /\ overtaken \subseteq Events

EnvelopeTypes ==
    /\ outbox \in [Consumers -> SUBSET Messages]
    /\ dlq \subseteq Messages
    /\ lost \subseteq Messages
    /\ rejected \subseteq Messages

\* A member of the group that has a message in hand owns its partition, and it
\* is the last message that was polled there.
MembersOwn ==
    \A c \in Consumers \ evicted :
        Processing(c) =>
            owner[current[c][1]] = c /\ position[current[c][1]] = current[c][2]

\* Consumers that own a partition are members of the group.
OwnersLive == \A p \in Partitions : owner[p] # NoConsumer => owner[p] \in Live

Types ==
    /\ LogTypes /\ OffsetTypes /\ GroupTypes /\ LoopTypes /\ BatchTypes
    /\ RowTypes /\ EnvelopeTypes /\ faults \in 0..MaxFaults

IInv == Types /\ MembersOwn /\ OwnersLive

-----------------------------------------------------------------------------
(* What the steps change.                                                  *)

\* Only the producers change the log.
LEMMA LogChanges == [Next]_vars => UNCHANGED log \/ \E e \in Events : Produce(e)
BY DEF Next, Rebalance, SpuriousRebalance, Assign, Start, Crash, Stop, Evict, Rejoin, Flush,
   FlushTimeout, Poll, Check, RegistryUnreachable, Compute, Execute, DriverException, Reject,
   RejectFails, Commit, CommitFenced, CommitFails, DeliverEnvelope, DropEnvelope, LateBatch,
   Expire, vars, kafka

\* Only a rebalance, a poll and a commit change the offsets.
LEMMA OffsetsChange ==
  [Next]_vars =>
    \/ UNCHANGED <<committed, position>>
    \/ Assign
    \/ \E c \in Consumers : Commit(c) \/ \E p \in Partitions : Poll(c, p)
BY DEF Next, Produce, Rebalance, SpuriousRebalance, Start, Crash, Stop, Evict, Rejoin, Flush,
   FlushTimeout, Check, RegistryUnreachable, Compute, Execute, DriverException, Reject,
   RejectFails, CommitFenced, CommitFails, DeliverEnvelope, DropEnvelope, LateBatch,
   Expire, vars, kafka

\* What a step of the loop does to one consumer c ...
Idles(c) ==
    /\ \/ pc[c] = "down" /\ pc'[c] = "poll"
       \/ pc[c] = "closing" /\ pc'[c] = "down"
    /\ current'[c] = current[c] /\ statements'[c] = statements[c]

Ends(c) ==
    /\ Processing(c)
    /\ pc'[c] = "poll"
    /\ current'[c] = <<>> /\ statements'[c] = NoBatch

Advances(c) ==
    /\ Processing(c)
    /\ pc'[c] \in {"compute", "execute", "reject", "commit"}
    /\ current'[c] = current[c]
    /\ \/ statements'[c] = statements[c]
       \/ /\ Verdict(Event(c), tables) = "apply"
          /\ statements'[c] = Batch(Event(c), tables)

\* ... and to the others.
OthersKeep(c) ==
    /\ pc' = [d \in Consumers |-> pc'[d]]
    /\ DOMAIN current' = Consumers /\ DOMAIN statements' = Consumers
    /\ \A d \in Consumers \ {c} :
          pc'[d] = pc[d] /\ current'[d] = current[d] /\ statements'[d] = statements[d]

\* One consumer moves, and the group stays as it is.
Moves(c) == OthersKeep(c) /\ (Idles(c) \/ Ends(c) \/ Advances(c))

\* Putting a consumer elsewhere leaves the others where they are.
LEMMA GoToMoves ==
  ASSUME LoopTypes, BatchTypes, NEW c \in Consumers, NEW label, GoTo(c, label)
  PROVE  /\ OthersKeep(c)
         /\ pc'[c] = label /\ current'[c] = current[c] /\ statements'[c] = statements[c]
BY DEF GoTo, OthersKeep, LoopTypes, BatchTypes

\* So does the end of _process.
LEMMA BackToPollEnds ==
  ASSUME LoopTypes, BatchTypes, NEW c \in Consumers, Processing(c), BackToPoll(c)
  PROVE  OthersKeep(c) /\ Ends(c)
BY DEF BackToPoll, OthersKeep, Ends, LoopTypes, BatchTypes

\* A step of the consumer that leaves the group and the positions alone.
LEMMA QuietMoves ==
  ASSUME LoopTypes, BatchTypes, NEW c \in Consumers,
         \/ Start(c) \/ Flush(c) \/ FlushTimeout(c) \/ Check(c) \/ RegistryUnreachable(c)
         \/ Compute(c) \/ Execute(c) \/ DriverException(c) \/ Reject(c) \/ RejectFails(c)
         \/ Commit(c) \/ CommitFenced(c) \/ CommitFails(c)
  PROVE  Moves(c) /\ UNCHANGED <<owner, evicted, position>>
<1> USE DEF Moves
<1>1. CASE Start(c) \/ Flush(c) \/ FlushTimeout(c)
  <2>1. Idles(c) /\ OthersKeep(c)
    BY <1>1, GoToMoves DEF Start, Flush, FlushTimeout, Idles, Idle
  <2> QED BY <1>1, <2>1 DEF Start, Flush, FlushTimeout, kafka
<1>2. CASE Check(c) \/ RegistryUnreachable(c) \/ Execute(c) \/ Reject(c)
  <2>1. Advances(c) /\ OthersKeep(c)
    BY <1>2, GoToMoves DEF Check, RegistryUnreachable, Execute, Reject, Advances, Processing
  <2> QED BY <1>2, <2>1 DEF Check, RegistryUnreachable, Execute, Reject, kafka
<1>3. CASE DriverException(c) \/ RejectFails(c) \/ Commit(c) \/ CommitFenced(c) \/ CommitFails(c)
  <2>1. Ends(c) /\ OthersKeep(c)
    BY <1>3, BackToPollEnds
       DEF DriverException, RejectFails, Commit, CommitFenced, CommitFails, Processing
  <2> QED
    BY <1>3, <2>1 DEF DriverException, RejectFails, Commit, CommitFenced, CommitFails, kafka
<1>4. CASE Compute(c)
  <2>1. pc[c] = "compute" /\ UNCHANGED kafka BY <1>4 DEF Compute
  <2>2. CASE /\ Verdict(Event(c), tables) = "apply"
             /\ pc' = [pc EXCEPT ![c] = "execute"]
             /\ statements' = [statements EXCEPT ![c] = Batch(Event(c), tables)]
             /\ UNCHANGED current
    BY <2>1, <2>2 DEF Advances, OthersKeep, LoopTypes, BatchTypes, Processing, kafka
  <2>3. CASE GoTo(c, "execute") \/ GoTo(c, "reject")
    BY <2>1, <2>3, GoToMoves DEF Advances, Processing, kafka
  <2>4. CASE BackToPoll(c)
    BY <2>1, <2>4, BackToPollEnds DEF Processing, kafka
  <2> QED BY <1>4, <2>2, <2>3, <2>4 DEF Compute
<1> QED BY <1>1, <1>2, <1>3, <1>4

\* A step is a rebalance, a consumer that comes or goes or polls, or quiet.
LEMMA StepKinds ==
  ASSUME [Next]_vars, LoopTypes, BatchTypes
  PROVE  \/ Assign
         \/ \E c \in Consumers :
              \/ Crash(c) \/ Stop(c) \/ Evict(c) \/ Rejoin(c)
              \/ \E p \in Partitions : Poll(c, p)
         \/ /\ UNCHANGED <<owner, evicted, position>>
            /\ UNCHANGED loop \/ \E c \in Consumers : Moves(c)
<1>1. CASE UNCHANGED vars BY <1>1 DEF vars, kafka
<1>2. CASE \E e \in Events : Produce(e) BY <1>2 DEF Produce
<1>3. CASE Rebalance \/ SpuriousRebalance BY <1>3 DEF Rebalance, SpuriousRebalance
<1>4. ASSUME NEW c \in Consumers, NEW m \in outbox[c], DeliverEnvelope(c, m) \/ DropEnvelope(c, m)
      PROVE  UNCHANGED <<owner, evicted, position, loop>>
  BY <1>4 DEF DeliverEnvelope, DropEnvelope, kafka
<1>5. CASE \E id \in processed : Expire(id) BY <1>5 DEF Expire, kafka
<1>6. CASE \E late \in pending : LateBatch(late) BY <1>6 DEF LateBatch, kafka
<1> QED BY <1>1, <1>2, <1>3, <1>4, <1>5, <1>6, QuietMoves DEF Next

-----------------------------------------------------------------------------
(* The invariant is inductive, one part at a time.                         *)

\* Nobody owns anything and everything is empty at the start.
LEMMA InitInvariant == Init => IInv
<1> SUFFICES ASSUME Init PROVE IInv
  OBVIOUS
<1>1. LogTypes /\ OffsetTypes
  BY BoundsAssumption DEF Init, LogTypes, OffsetTypes
<1>2. GroupTypes /\ LoopTypes BY DEF Init, GroupTypes, LoopTypes, Idle, Labels
<1>3. BatchTypes BY NoBatchWrites DEF Init, BatchTypes
<1>4. RowTypes BY EmptyTablesType DEF Init, RowTypes
<1>5. EnvelopeTypes BY DEF Init, EnvelopeTypes
<1>6. faults \in 0..MaxFaults BY BoundsAssumption DEF Init
<1>7. MembersOwn /\ OwnersLive BY DEF Init, MembersOwn, Processing, OwnersLive
<1> QED BY <1>1, <1>2, <1>3, <1>4, <1>5, <1>6, <1>7 DEF IInv, Types

\* The log grows, and what is in it stays where it is.
LEMMA LogGrows ==
  ASSUME LogTypes, [Next]_vars
  PROVE  /\ LogTypes'
         /\ \A p \in Partitions : Len(log[p]) <= Len(log'[p])
         /\ \A m : InLog(m) => InLog(m)' /\ log'[m[1]][m[2]] = log[m[1]][m[2]]
<1>1. CASE UNCHANGED log BY <1>1 DEF LogTypes, InLog, Messages
<1>2. ASSUME NEW e \in Events, Produce(e)
      PROVE  /\ LogTypes'
             /\ \A p \in Partitions :
                  /\ Len(log[p]) <= Len(log'[p])
                  /\ \A i \in 1..Len(log[p]) : log'[p][i] = log[p][i]
  <2> DEFINE q == Route[Key(e)]
  <2>1. Len(log[q]) < MaxLog /\ log' = [log EXCEPT ![q] = Append(@, e)]
    BY <1>2 DEF Produce
  <2>2. ASSUME NEW p \in Partitions
        PROVE  /\ log'[p] \in Seq(Events) /\ Len(log'[p]) <= MaxLog
               /\ Len(log[p]) <= Len(log'[p])
               /\ \A i \in 1..Len(log[p]) : log'[p][i] = log[p][i]
    <3>1. log[p] \in Seq(Events) /\ Len(log[p]) <= MaxLog BY DEF LogTypes
    <3>2. log'[p] = IF p = q THEN Append(log[p], e) ELSE log[p]
      <4> HIDE DEF q
      <4> QED BY <2>1 DEF LogTypes
    <3> HIDE DEF q
    <3> QED BY <3>1, <3>2, <2>1, BoundsAssumption
  <2>3. log' = [p \in Partitions |-> log'[p]]
    <3> HIDE DEF q
    <3> QED BY <2>1 DEF LogTypes
  <2> HIDE DEF q
  <2> QED BY <2>2, <2>3 DEF LogTypes
<1>3. ASSUME NEW e \in Events, Produce(e), NEW m, InLog(m)
      PROVE  InLog(m)' /\ log'[m[1]][m[2]] = log[m[1]][m[2]]
  <2>1. m[1] \in Partitions /\ m[2] \in 1..MaxLog /\ m[2] <= Len(log[m[1]]) /\ m \in Messages
    BY <1>3 DEF InLog, Messages
  <2>2. Len(log[m[1]]) \in Nat /\ Len(log'[m[1]]) \in Nat
    BY <1>2, <1>3, <2>1 DEF LogTypes
  <2>3. m[2] \in 1..Len(log[m[1]]) BY <2>1, <2>2, BoundsAssumption
  <2> QED BY <1>2, <1>3, <2>1, <2>2, <2>3 DEF InLog
<1> QED BY <1>1, <1>2, <1>3, LogChanges

\* The message of a consumer that has one, as a member of the group.
LEMMA InHand ==
  ASSUME LogTypes, OffsetTypes, LoopTypes, NEW c \in Consumers, Processing(c)
  PROVE  /\ ~Idle(c)
         /\ InLog(current[c])
         /\ current[c][1] \in Partitions /\ current[c][2] \in 1..Len(log[current[c][1]])
         /\ Event(c) \in Events
<1>1. ~Idle(c) BY DEF Processing, Idle
<1>2. InLog(current[c]) BY <1>1 DEF LoopTypes
<1>3. current[c][1] \in Partitions /\ current[c][2] \in 1..MaxLog BY <1>2 DEF InLog, Messages
<1>4. current[c][2] \in 1..Len(log[current[c][1]]) /\ log[current[c][1]] \in Seq(Events)
  BY <1>2, <1>3, BoundsAssumption DEF InLog, LogTypes
<1>5. Event(c) \in Events BY <1>4 DEF Event
<1> QED BY <1>1, <1>2, <1>3, <1>4, <1>5

\* Commits stay behind what was polled: a member commits the last message that
\* was polled in a partition it owns.
LEMMA OffsetsKept ==
  ASSUME LogTypes, OffsetTypes, GroupTypes, LoopTypes, MembersOwn, [Next]_vars
  PROVE  OffsetTypes' /\ \A p \in Partitions : committed'[p] >= committed[p]
<1>1. \A p \in Partitions : /\ Len(log[p]) \in Nat /\ Len(log'[p]) \in Nat
                            /\ Len(log[p]) <= Len(log'[p])
  BY LogGrows DEF LogTypes
<1>2. CASE UNCHANGED <<committed, position>> BY <1>1, <1>2 DEF OffsetTypes
<1>3. CASE Assign BY <1>1, <1>3 DEF Assign, OffsetTypes
<1>4. ASSUME NEW c \in Consumers, NEW p \in Partitions, Poll(c, p)
      PROVE  OffsetTypes' /\ UNCHANGED committed
  BY <1>1, <1>4 DEF Poll, OffsetTypes
<1>5. ASSUME NEW c \in Consumers, Commit(c)
      PROVE  OffsetTypes' /\ \A p \in Partitions : committed'[p] >= committed[p]
  <2> DEFINE q == current[c][1]
  <2>1. Processing(c) /\ c \notin evicted BY <1>5 DEF Commit, Processing
  <2>2. q \in Partitions /\ current[c][2] = position[q]
    BY <2>1, InHand DEF MembersOwn
  <2>3. committed' = [committed EXCEPT ![q] = position[q]] /\ UNCHANGED <<log, position>>
    BY <1>5, <2>2 DEF Commit
  <2> HIDE DEF q
  <2> QED BY <2>2, <2>3 DEF OffsetTypes
<1> QED BY <1>2, <1>3, <1>4, <1>5, OffsetsChange DEF OffsetTypes

\* A poll takes the next message of a partition the consumer owns.
LEMMA PollTakes ==
  ASSUME LogTypes, OffsetTypes, LoopTypes, NEW c \in Consumers, NEW p \in Partitions, Poll(c, p)
  PROVE  /\ current'[c] = <<p, position[p] + 1>> /\ InLog(current'[c])
         /\ pc'[c] = "check"
         /\ position'[p] = position[p] + 1
         /\ \A q \in Partitions \ {p} : position'[q] = position[q]
<1>1. position[p] \in Nat /\ position[p] < Len(log[p]) /\ Len(log[p]) <= MaxLog
  BY DEF Poll, OffsetTypes, LogTypes
<1>2. Len(log[p]) \in Nat BY DEF LogTypes
<1>3. position[p] + 1 \in 1..MaxLog /\ position[p] + 1 <= Len(log[p])
  BY <1>1, <1>2, BoundsAssumption
<1>4. <<p, position[p] + 1>> \in Messages BY <1>3 DEF Messages
<1>5. current'[c] = <<p, position[p] + 1>> /\ pc'[c] = "check" BY DEF Poll, LoopTypes
<1>6. position' = [position EXCEPT ![p] = position[p] + 1] BY DEF Poll
<1> QED BY <1>3, <1>4, <1>5, <1>6 DEF InLog, OffsetTypes

\* A message is in hand exactly while it is being processed, and batches are
\* made of rows.
LEMMA LoopKept ==
  ASSUME Types, [Next]_vars
  PROVE  LoopTypes' /\ BatchTypes'
<1> USE DEF Types
<1>1. \A m : InLog(m) => InLog(m)' BY LogGrows
<1>2. IsBatch(NoBatch) BY NoBatchWrites
<1>3. CASE UNCHANGED loop
  BY <1>1, <1>3 DEF loop, LoopTypes, BatchTypes, Idle
<1>4. ASSUME NEW c \in Consumers, Crash(c)
      PROVE  LoopTypes' /\ BatchTypes'
  BY <1>1, <1>2, <1>4 DEF Crash, LoopTypes, BatchTypes, Idle, Labels
<1>5. ASSUME NEW c \in Consumers, Stop(c)
      PROVE  LoopTypes' /\ BatchTypes'
  BY <1>1, <1>5 DEF Stop, GoTo, LoopTypes, BatchTypes, Idle, Labels
<1>6. ASSUME NEW c \in Consumers, NEW p \in Partitions, Poll(c, p)
      PROVE  LoopTypes' /\ BatchTypes'
  <2>1. PICK m : current'[c] = m /\ InLog(m) BY <1>6, PollTakes
  <2>2. InLog(m)' /\ pc'[c] = "check" BY <1>1, <1>6, <2>1, PollTakes
  <2> QED BY <1>1, <1>6, <2>1, <2>2 DEF Poll, LoopTypes, BatchTypes, Idle, Labels
<1>7. ASSUME NEW c \in Consumers, Moves(c)
      PROVE  LoopTypes' /\ BatchTypes'
  <2>1. /\ pc'[c] \in Labels
        /\ IF pc'[c] \in {"down", "poll", "closing"} THEN current'[c] = <<>> ELSE InLog(current'[c])
        /\ IsBatch(statements'[c])
    <3>1. CASE Idles(c) BY <3>1 DEF Idles, Idle, LoopTypes, BatchTypes, Labels
    <3>2. CASE Ends(c) BY <1>2, <3>2 DEF Ends, Labels
    <3>3. CASE Advances(c)
      <4>1. Event(c) \in Events /\ InLog(current[c]) BY <3>3, InHand DEF Advances
      <4>2. Verdict(Event(c), tables) = "apply" => IsBatch(Batch(Event(c), tables))
        BY <4>1, BatchType DEF RowTypes
      <4> QED BY <3>3, <4>1, <4>2 DEF Advances, BatchTypes, Labels
    <3> QED BY <1>7, <3>1, <3>2, <3>3 DEF Moves
  <2>2. \A d \in Consumers \ {c} : /\ pc'[d] \in Labels /\ IsBatch(statements'[d])
                                  /\ IF Idle(d)' THEN current'[d] = <<>> ELSE InLog(current'[d])
    BY <1>7 DEF Moves, OthersKeep, LoopTypes, BatchTypes, Idle
  <2>3. pc' = [d \in Consumers |-> pc'[d]] /\ DOMAIN current' = Consumers /\ DOMAIN statements' = Consumers
    BY <1>7 DEF Moves, OthersKeep
  <2> QED BY <1>1, <2>1, <2>2, <2>3 DEF LoopTypes, BatchTypes, Idle
<1> QED BY <1>3, <1>4, <1>5, <1>6, <1>7, StepKinds DEF Evict, Rejoin, Assign

\* Owners are members of the group, and the expelled are still at work.
LEMMA GroupKept ==
  ASSUME Types, OwnersLive, [Next]_vars
  PROVE  GroupTypes' /\ OwnersLive'
<1> USE DEF Types
<1>1. CASE Assign
  <2>1. PICK f \in [Partitions -> Live] : owner' = f BY <1>1 DEF Assign
  <2>2. UNCHANGED <<evicted, pc>> BY <1>1 DEF Assign, loop
  <2>3. Live \subseteq Consumers \ evicted /\ Live' = Live BY <2>2 DEF Live
  <2>4. owner' \in [Partitions -> Consumers \cup {NoConsumer}] BY <2>1, <2>3
  <2>5. \A p \in Partitions : owner'[p] \in Live BY <2>1
  <2>6. GroupTypes' BY <2>2, <2>3, <2>4, <2>5 DEF GroupTypes, Processing
  <2> QED BY <2>3, <2>5, <2>6 DEF OwnersLive
<1>2. ASSUME NEW c \in Consumers, Crash(c) \/ Stop(c)
      PROVE  GroupTypes' /\ OwnersLive'
  BY <1>2, NoConsumerAssumption
     DEF Crash, Stop, GoTo, Leave, GroupTypes, LoopTypes, OwnersLive, Live, Processing
<1>3. ASSUME NEW c \in Consumers, Evict(c)
      PROVE  GroupTypes' /\ OwnersLive'
  BY <1>3, NoConsumerAssumption
     DEF Evict, Leave, GroupTypes, LoopTypes, OwnersLive, Live, Processing, loop
<1>4. ASSUME NEW c \in Consumers, Rejoin(c)
      PROVE  GroupTypes' /\ OwnersLive'
  BY <1>4 DEF Rejoin, GroupTypes, OwnersLive, Live, Processing, loop
<1>5. ASSUME NEW c \in Consumers, NEW p \in Partitions, Poll(c, p)
      PROVE  GroupTypes' /\ OwnersLive'
  BY <1>5 DEF Poll, GroupTypes, LoopTypes, OwnersLive, Live, Processing
<1>6. CASE UNCHANGED <<owner, evicted>> /\ UNCHANGED loop
  BY <1>6 DEF GroupTypes, OwnersLive, Live, Processing, loop
<1>7. ASSUME NEW c \in Consumers, Moves(c), UNCHANGED <<owner, evicted>>
      PROVE  GroupTypes' /\ OwnersLive'
  BY <1>7 DEF Moves, OthersKeep, Idles, Ends, Advances, GroupTypes, LoopTypes, OwnersLive, Live,
     Processing, Idle
<1> QED BY <1>1, <1>2, <1>3, <1>4, <1>5, <1>6, <1>7, StepKinds

\* A member keeps its partition while it has a message in hand: a rebalance
\* waits for it, and nobody else polls there (main.py:125-131).
LEMMA MembersOwnKept ==
  ASSUME Types, MembersOwn, [Next]_vars
  PROVE  MembersOwn'
<1> USE DEF Types
<1> SUFFICES ASSUME NEW d \in Consumers, d \notin evicted', Processing(d)'
             PROVE  owner'[current'[d][1]] = d /\ position'[current'[d][1]] = current'[d][2]
  BY DEF MembersOwn
<1> DEFINE Same(c) == /\ Processing(c) /\ c \notin evicted /\ current'[c] = current[c]
           Kept == \A p \in Partitions : owner[p] = d => owner'[p] = d /\ position'[p] = position[p]
<1>1. ASSUME Same(d), Kept
      PROVE  owner'[current'[d][1]] = d /\ position'[current'[d][1]] = current'[d][2]
  BY <1>1, InHand DEF MembersOwn
<1>2. CASE Assign
  BY <1>2 DEF Assign, Live, Processing, loop
<1>3. ASSUME NEW c \in Consumers, Crash(c) \/ Stop(c)
      PROVE  Same(d) /\ Kept
  BY <1>3 DEF Crash, Stop, GoTo, Leave, LoopTypes, GroupTypes, Processing
<1>4. ASSUME NEW c \in Consumers, Evict(c)
      PROVE  Same(d) /\ Kept
  BY <1>4 DEF Evict, Leave, GroupTypes, Processing, loop
<1>5. ASSUME NEW c \in Consumers, Rejoin(c)
      PROVE  Same(d) /\ Kept
  BY <1>5 DEF Rejoin, Processing, loop
<1>6. ASSUME NEW c \in Consumers, NEW p \in Partitions, Poll(c, p)
      PROVE  owner'[current'[d][1]] = d /\ position'[current'[d][1]] = current'[d][2]
  <2>1. CASE c = d
    <3>1. current'[d] = <<p, position[p] + 1>> /\ position'[p] = position[p] + 1
      BY <1>6, <2>1, PollTakes
    <3> QED BY <1>6, <2>1, <3>1 DEF Poll
  <2>2. CASE c # d
    <3>1. Same(d) BY <1>6, <2>2 DEF Poll, LoopTypes, Processing
    <3>2. Kept BY <1>6, <2>2, PollTakes DEF Poll
    <3> QED BY <3>1, <3>2, <1>1
  <2> QED BY <2>1, <2>2
<1>7. CASE UNCHANGED <<owner, evicted, position>> /\ UNCHANGED loop
  <2>1. Same(d) /\ Kept BY <1>7 DEF Processing, loop
  <2> QED BY <2>1, <1>1
<1>8. ASSUME NEW c \in Consumers, Moves(c), UNCHANGED <<owner, evicted, position>>
      PROVE  Same(d) /\ Kept
  BY <1>8 DEF Moves, OthersKeep, Idles, Ends, Advances, Processing, Idle
<1> HIDE DEF Same, Kept
<1> QED BY <1>1, <1>2, <1>3, <1>4, <1>5, <1>6, <1>7, <1>8, StepKinds

\* A batch is computed while others are on their way ...
Overtakes(c) ==
    /\ pc[c] = "compute" /\ Verdict(Event(c), tables) = "apply"
    /\ overtaken' = overtaken \cup {b.event : b \in pending}
    /\ UNCHANGED <<tables, processed, pending, expired, faults>>

\* ... or one times out that may still be applied.
TimesOut(c) ==
    /\ pc[c] = "execute" /\ pc' = [pc EXCEPT ![c] = "poll"]
    /\ faults' = faults + 1
    /\ pending' = pending \cup
          {[since |-> faults', event |-> Event(c), batch |-> statements[c]]}
    /\ UNCHANGED <<tables, processed, overtaken, expired>>

\* Only the batches and the end of a row's life change what Cassandra holds.
LEMMA CassandraChanges ==
  ASSUME [Next]_vars
  PROVE  \/ UNCHANGED cassandra
         \/ \E c \in Consumers : pc[c] = "execute" /\ Executed(c) /\ UNCHANGED faults
         \/ \E c \in Consumers : Overtakes(c) \/ TimesOut(c)
         \/ \E late \in pending : LateBatch(late)
         \/ \E id \in processed : Expire(id)
<1>1. ASSUME NEW c \in Consumers, Compute(c) PROVE UNCHANGED cassandra \/ Overtakes(c)
  BY <1>1 DEF Compute, Overtakes, cassandra
<1>2. ASSUME NEW c \in Consumers, DriverException(c) PROVE UNCHANGED cassandra \/ TimesOut(c)
  BY <1>2 DEF DriverException, TimesOut, cassandra, Fault, BackToPoll
<1> QED BY <1>1, <1>2
  DEF Next, Produce, Rebalance, SpuriousRebalance, Assign, Start, Crash, Stop, Evict, Rejoin,
   Flush, FlushTimeout, Poll, Check, RegistryUnreachable, Execute,
   Reject, RejectFails, Commit, CommitFenced, CommitFails, DeliverEnvelope, DropEnvelope, vars

\* Faults stay within their bound and are counted.
LEMMA FaultsKept ==
  ASSUME faults \in 0..MaxFaults, [Next]_vars
  PROVE  faults' \in 0..MaxFaults /\ faults <= faults'
<1>1. faults' = faults \/ \E kind \in Faults : Fault(kind)
  BY DEF Next, Produce, Rebalance, SpuriousRebalance, Assign, Start, Crash, Stop, Evict, Rejoin,
     Flush, FlushTimeout, Poll, Check, RegistryUnreachable, Compute, Execute, DriverException,
     Reject, RejectFails, Commit, CommitFenced, CommitFails, DeliverEnvelope, DropEnvelope,
     LateBatch, Expire, vars, Fault
<1> QED BY <1>1, BoundsAssumption DEF Fault

\* The tables keep their types, and an id that was recorded stays known.
LEMMA RowsKept ==
  ASSUME Types, [Next]_vars
  PROVE  RowTypes' /\ processed \cup expired \subseteq processed' \cup expired'
<1> USE DEF Types
<1>1. \A n \in 1..faults : n \in 1..faults'
  BY FaultsKept, BoundsAssumption
<1>2. CASE UNCHANGED cassandra BY <1>1, <1>2 DEF RowTypes, cassandra
<1>3. ASSUME NEW c \in Consumers, pc[c] = "execute", Executed(c), UNCHANGED faults
      PROVE  RowTypes' /\ processed \cup expired \subseteq processed' \cup expired'
  <2>1. Event(c) \in Events BY <1>3, InHand DEF Processing
  <2>2. Write(tables, statements[c]) \in Tables BY WriteType DEF RowTypes, BatchTypes
  <2>3. \A b \in pending' : b.since \in 1..faults /\ b.event \in Events /\ IsBatch(b.batch)
    BY <1>3, SupersededType DEF Executed, RowTypes
  <2> QED BY <1>3, <2>1, <2>2, <2>3 DEF Executed, RowTypes
<1>4. ASSUME NEW c \in Consumers, Overtakes(c)
      PROVE  RowTypes' /\ processed \cup expired \subseteq processed' \cup expired'
  BY <1>4 DEF Overtakes, RowTypes
<1>5. ASSUME NEW c \in Consumers, TimesOut(c)
      PROVE  RowTypes' /\ processed \cup expired \subseteq processed' \cup expired'
  <2>1. Event(c) \in Events /\ IsBatch(statements[c])
    BY <1>5, InHand DEF TimesOut, Processing, BatchTypes
  <2>2. faults' \in 1..faults' BY <1>5, BoundsAssumption DEF TimesOut
  <2> QED BY <1>1, <1>5, <2>1, <2>2 DEF TimesOut, RowTypes
<1>6. ASSUME NEW late \in pending, LateBatch(late)
      PROVE  RowTypes' /\ processed \cup expired \subseteq processed' \cup expired'
  <2>1. late.event \in Events /\ IsBatch(late.batch) BY DEF RowTypes
  <2>2. Write(tables, late.batch) \in Tables BY <2>1, WriteType DEF RowTypes
  <2>3. \A b \in pending' : b.since \in 1..faults /\ b.event \in Events /\ IsBatch(b.batch)
    BY <1>6, SupersededType DEF LateBatch, RowTypes
  <2> QED BY <1>6, <2>1, <2>2, <2>3 DEF LateBatch, RowTypes
<1>7. ASSUME NEW id \in processed, Expire(id)
      PROVE  RowTypes' /\ processed \cup expired \subseteq processed' \cup expired'
  BY <1>1, <1>7 DEF Expire, RowTypes
<1> QED BY <1>2, <1>3, <1>4, <1>5, <1>6, <1>7, CassandraChanges

\* What a step does with envelopes: one is handed over, or some move on.
EnvelopesMove ==
    /\ \A c \in Consumers : outbox'[c] \subseteq outbox[c]
    /\ dlq \subseteq dlq' /\ lost \subseteq lost'
    /\ Envelopes' = Envelopes

HandsOver(c) ==
    /\ pc[c] = "reject"
    /\ outbox' = [outbox EXCEPT ![c] = @ \cup {current[c]}]
    /\ UNCHANGED <<dlq, lost>>

\* These are the only steps there are.
LEMMA EnvelopesChange ==
  ASSUME [Next]_vars, EnvelopeTypes
  PROVE  /\ outbox' = [c \in Consumers |-> outbox'[c]]
         /\ EnvelopesMove \/ \E c \in Consumers : HandsOver(c)
<1>1. CASE UNCHANGED dead
  BY <1>1 DEF dead, EnvelopesMove, Envelopes, EnvelopeTypes
<1>2. ASSUME NEW c \in Consumers, Crash(c) \/ FlushTimeout(c)
      PROVE  outbox' = [d \in Consumers |-> outbox'[d]] /\ EnvelopesMove
  <2>1. /\ outbox' = [outbox EXCEPT ![c] = {}]
        /\ lost' = lost \cup outbox[c] /\ dlq' = dlq
    BY <1>2 DEF Crash, FlushTimeout
  <2>2. outbox \in [Consumers -> SUBSET Messages] BY DEF EnvelopeTypes
  <2>3. /\ outbox'[c] = {} /\ \A d \in Consumers \ {c} : outbox'[d] = outbox[d]
        /\ outbox' = [d \in Consumers |-> outbox'[d]]
    BY <2>1, <2>2
  <2>4. UNION {outbox[d] : d \in Consumers} = outbox[c] \cup UNION {outbox'[d] : d \in Consumers}
    BY <2>3
  <2> QED BY <2>1, <2>3, <2>4 DEF EnvelopesMove, Envelopes
<1>3. ASSUME NEW c \in Consumers, NEW m \in outbox[c], DeliverEnvelope(c, m) \/ DropEnvelope(c, m)
      PROVE  outbox' = [d \in Consumers |-> outbox'[d]] /\ EnvelopesMove
  <2>1. /\ outbox' = [outbox EXCEPT ![c] = @ \ {m}]
        /\ \/ dlq' = dlq \cup {m} /\ lost' = lost
           \/ lost' = lost \cup {m} /\ dlq' = dlq
    BY <1>3 DEF DeliverEnvelope, DropEnvelope
  <2>2. outbox \in [Consumers -> SUBSET Messages] BY DEF EnvelopeTypes
  <2>3. /\ outbox'[c] = outbox[c] \ {m} /\ \A d \in Consumers \ {c} : outbox'[d] = outbox[d]
        /\ outbox' = [d \in Consumers |-> outbox'[d]]
    BY <2>1, <2>2
  <2>4. {m} \cup UNION {outbox[d] : d \in Consumers} = {m} \cup UNION {outbox'[d] : d \in Consumers}
    BY <2>3
  <2>5. m \in UNION {outbox[d] : d \in Consumers} BY <1>3
  <2> QED BY <2>1, <2>3, <2>4, <2>5 DEF EnvelopesMove, Envelopes
<1>4. ASSUME NEW c \in Consumers, Reject(c)
      PROVE  outbox' = [d \in Consumers |-> outbox'[d]] /\ HandsOver(c)
  BY <1>4 DEF Reject, HandsOver, EnvelopeTypes
<1>5. \/ UNCHANGED dead
      \/ \E c \in Consumers : Crash(c) \/ FlushTimeout(c) \/ Reject(c) \/ RejectFails(c)
      \/ \E c \in Consumers : \E m \in outbox[c] : DeliverEnvelope(c, m) \/ DropEnvelope(c, m)
  BY DEF Next, Produce, Rebalance, SpuriousRebalance, Assign, Start, Stop, Evict, Rejoin,
     Flush, Poll, Check, RegistryUnreachable, Compute, Execute, DriverException,
     Commit, CommitFenced, CommitFails, LateBatch, Expire, vars
<1>6. ASSUME NEW c \in Consumers, RejectFails(c)
      PROVE  outbox' = [d \in Consumers |-> outbox'[d]] /\ EnvelopesMove
  BY <1>6 DEF RejectFails, EnvelopesMove, Envelopes, EnvelopeTypes
<1> QED BY <1>1, <1>2, <1>3, <1>4, <1>5, <1>6

\* Envelopes are of messages of the log, and none disappears: it is in memory,
\* in the dead letter queue or counted as lost.
LEMMA EnvelopesKept ==
  ASSUME Types, [Next]_vars
  PROVE  EnvelopeTypes' /\ Envelopes \subseteq Envelopes'
<1> USE DEF Types
<1>1. outbox' = [c \in Consumers |-> outbox'[c]] BY EnvelopesChange
<1>2. Envelopes \subseteq Messages BY DEF Envelopes, EnvelopeTypes
<1>5. rejected' \subseteq Messages
  <2>1. UNCHANGED rejected \/ \E c \in Consumers : Reject(c) \/ RejectFails(c)
    BY DEF Next, Produce, Rebalance, SpuriousRebalance, Assign, Start, Crash, Stop, Evict,
       Rejoin, Flush, FlushTimeout, Poll, Check, RegistryUnreachable, Compute, Execute,
       DriverException, Commit, CommitFenced, CommitFails, DeliverEnvelope, DropEnvelope,
       LateBatch, Expire, vars, dead
  <2>2. ASSUME NEW c \in Consumers, Reject(c) \/ RejectFails(c)
        PROVE  current[c] \in Messages /\ rejected' = rejected \cup {current[c]}
    BY <2>2, InHand DEF Reject, RejectFails, Processing, InLog
  <2> QED BY <2>1, <2>2 DEF EnvelopeTypes
<1>3. CASE EnvelopesMove
  <2>1. dlq' \subseteq Envelopes' /\ lost' \subseteq Envelopes' BY DEF Envelopes
  <2> QED BY <1>1, <1>2, <1>3, <1>5, <2>1 DEF EnvelopesMove, EnvelopeTypes
<1>4. ASSUME NEW c \in Consumers, HandsOver(c)
      PROVE  EnvelopeTypes' /\ Envelopes \subseteq Envelopes'
  <2>1. current[c] \in Messages BY <1>4, InHand DEF HandsOver, Processing, InLog
  <2>2. \A d \in Consumers : outbox[d] \subseteq outbox'[d] BY <1>4 DEF HandsOver, EnvelopeTypes
  <2> QED BY <1>4, <1>5, <2>1, <2>2 DEF HandsOver, EnvelopeTypes, Envelopes
<1> QED BY <1>3, <1>4, EnvelopesChange

\* Every step keeps the invariant.
LEMMA StepKeepsInvariant == IInv /\ [Next]_vars => IInv'
<1> SUFFICES ASSUME IInv, [Next]_vars PROVE IInv'
  OBVIOUS
<1>1. Types /\ MembersOwn /\ OwnersLive BY DEF IInv
<1>2. LogTypes' BY <1>1, LogGrows DEF Types
<1>3. OffsetTypes' BY <1>1, OffsetsKept DEF Types
<1>4. GroupTypes' /\ OwnersLive' BY <1>1, GroupKept
<1>5. LoopTypes' /\ BatchTypes' BY <1>1, LoopKept
<1>6. RowTypes' BY <1>1, RowsKept
<1>7. EnvelopeTypes' BY <1>1, EnvelopesKept
<1>8. (faults \in 0..MaxFaults)' BY <1>1, FaultsKept DEF Types
<1>9. MembersOwn' BY <1>1, MembersOwnKept
<1> QED BY <1>2, <1>3, <1>4, <1>5, <1>6, <1>7, <1>8, <1>9 DEF IInv, Types

\* The invariant holds of every behaviour.
LEMMA Invariant == Spec => []IInv
BY InitInvariant, StepKeepsInvariant, PTL DEF Spec

-----------------------------------------------------------------------------
(* What follows.                                                           *)

\* The state of the group, its loops, the tables and the dead letters are of
\* their types: a message is in hand exactly while it is being processed, it
\* is one of the log, and no batch has a row that is not one of its table's.
THEOREM TypeCorrect == Spec => []TypeOK
<1>1. IInv => TypeOK
  <2> SUFFICES ASSUME IInv PROVE TypeOK
    OBVIOUS
  <2>1. \A p \in Partitions : /\ log[p] \in Seq(Events) /\ Len(log[p]) <= MaxLog
                              /\ Len(log[p]) \in Nat
    BY DEF IInv, Types, LogTypes
  <2>2. \A p \in Partitions : committed[p] \in 0..Len(log[p]) /\ position[p] \in 0..Len(log[p])
    BY <2>1 DEF IInv, Types, OffsetTypes
  <2>3. \A c \in Consumers :
          IF pc[c] \in {"down", "poll", "closing"}
          THEN current[c] = <<>>
          ELSE current[c] \in Messages /\ current[c][2] <= Len(log[current[c][1]])
    BY DEF IInv, Types, LoopTypes, Idle, InLog
  <2> QED
    BY <2>1, <2>2, <2>3
       DEF IInv, Types, GroupTypes, LoopTypes, BatchTypes, RowTypes, EnvelopeTypes, TypeOK
<1> QED BY <1>1, Invariant, PTL

\* No offset goes back, whoever is expelled, comes back late, or commits a
\* message that was delivered to somebody else since (main.py:71, 125-146).
THEOREM CommitsAdvance == Spec => CommittedNeverRegresses
<1>1. IInv /\ [Next]_vars => [\A p \in Partitions : committed'[p] >= committed[p]]_vars
  BY OffsetsKept DEF IInv, Types
<1> QED BY <1>1, Invariant, PTL DEF Spec, CommittedNeverRegresses

\* Members of the group never have messages of one partition in hand.
LEMMA MembersExclusive ==
  ASSUME IInv, NEW c \in Consumers \ evicted, NEW d \in Consumers \ evicted,
         c # d, current[c] # <<>>, current[d] # <<>>
  PROVE  current[c][1] # current[d][1]
<1>1. Processing(c) /\ Processing(d)
  BY DEF IInv, Types, LoopTypes, Idle, Processing, Labels
<1> QED BY <1>1 DEF IInv, MembersOwn

\* Without that fault nobody is ever expelled.
LEMMA NobodyExpelled ==
  ASSUME "evict" \notin Faults
  PROVE  Spec => [](evicted = {})
<1>1. Init => evicted = {} BY DEF Init
<1>2. evicted = {} /\ [Next]_vars => (evicted = {})'
  BY DEF Next, Produce, Rebalance, SpuriousRebalance, Assign, Start, Crash, Stop, Evict, Rejoin,
     Flush, FlushTimeout, Poll, Check, RegistryUnreachable, Compute, Execute, DriverException,
     Reject, RejectFails, Commit, CommitFenced, CommitFails, DeliverEnvelope, DropEnvelope,
     LateBatch, Expire, vars, kafka, Fault
<1> QED BY <1>1, <1>2, PTL DEF Spec

\* As long as no message takes longer than max.poll.interval.ms, two consumers
\* never work on one partition, through crashes, stops and rebalances
\* (main.py:71, 125-131).
THEOREM PartitionExclusiveHolds ==
  ASSUME "evict" \notin Faults
  PROVE  Spec => []PartitionExclusive
<1>1. IInv /\ evicted = {} => PartitionExclusive
  BY MembersExclusive DEF PartitionExclusive
<1> QED BY <1>1, Invariant, NobodyExpelled, PTL

-----------------------------------------------------------------------------
(* At least once.                                                          *)

\* The item lists an order row may hold.
OrderItemLists == {<<>>} \cup {e.items : e \in {f \in Events : f.type = "ORDER_CREATED"}}

ItemsOf(rows) == {rows[o].items : o \in DOMAIN rows}

\* Every quantity event_history is given fits its column.
QuantitiesFit ==
    \A e \in Events, t \in Tables :
        ItemsOf(t.orders) \subseteq OrderItemLists => ~Unbindable(e, t)

\* The items of orders, stored or about to be, are those of an event.
ItemsKnown ==
    /\ ItemsOf(tables.orders) \subseteq OrderItemLists
    /\ \A c \in Consumers : ItemsOf(statements[c].orders) \subseteq OrderItemLists
    /\ \A b \in pending : ItemsOf(b.batch.orders) \subseteq OrderItemLists

\* A batch stores the items of its event or those stored before.
LEMMA BatchItems ==
  ASSUME NEW e \in Events, NEW t \in Tables, ItemsOf(t.orders) \subseteq OrderItemLists
  PROVE  ItemsOf(Batch(e, t).orders) \subseteq OrderItemLists
<1>1. Batch(e, t).orders = OrderUpserts(e, t) BY DEF Batch
<1>2. CASE e.type = "ORDER_CREATED"
  BY <1>1, <1>2 DEF OrderUpserts, ItemsOf, OrderItemLists
<1>3. CASE e.type = "ORDER_COMPLETED"
  <2>1. e.order \in DOMAIN t.orders BY <1>3, OrderNamed DEF Tables
  <2>2. t.orders[e.order].items \in ItemsOf(t.orders) BY <2>1 DEF ItemsOf
  <2>3. OrderUpserts(e, t) =
          [o \in {e.order} |-> [status |-> "COMPLETED", items |-> t.orders[o].items, ts |-> e.ts]]
    BY <1>3 DEF OrderUpserts
  <2>4. ItemsOf(OrderUpserts(e, t)) = {t.orders[e.order].items} BY <2>3 DEF ItemsOf
  <2> QED BY <1>1, <2>2, <2>4
<1>4. CASE e.type \notin {"ORDER_CREATED", "ORDER_COMPLETED"}
  BY <1>1, <1>4 DEF OrderUpserts, ItemsOf
<1> QED BY <1>2, <1>3, <1>4

\* At the start there are no orders.
LEMMA InitItemsKnown == Init => ItemsKnown
BY DEF Init, ItemsKnown, ItemsOf, OrderItemLists, EmptyTables, NoBatch

\* Items get into the tables by the batches handlers return.
LEMMA StepKeepsItemsKnown ==
  ASSUME IInv, ItemsKnown, [Next]_vars
  PROVE  ItemsKnown'
<1> USE DEF IInv, Types
<1>1. ItemsOf(tables'.orders) \subseteq OrderItemLists
  <2>1. ASSUME NEW c \in Consumers, Executed(c) PROVE <1>1
    BY <2>1 DEF Executed, Write, Upsert, ItemsOf, ItemsKnown
  <2>2. ASSUME NEW late \in pending, LateBatch(late) PROVE <1>1
    BY <2>2 DEF LateBatch, Write, Upsert, ItemsOf, ItemsKnown
  <2> QED BY <2>1, <2>2, CassandraChanges
          DEF Overtakes, TimesOut, Expire, cassandra, ItemsKnown
<1>2. ASSUME NEW c \in Consumers PROVE ItemsOf(statements'[c].orders) \subseteq OrderItemLists
  <2>1. ItemsOf(NoBatch.orders) \subseteq OrderItemLists BY DEF NoBatch, ItemsOf
  <2>2. CASE statements'[c] \in {statements[c], NoBatch} BY <2>1, <2>2 DEF ItemsKnown
  <2>3. CASE Processing(c) /\ statements'[c] = Batch(Event(c), tables)
    BY <2>3, InHand, BatchItems DEF ItemsKnown, RowTypes
  <2>4. \/ statements'[c] \in {statements[c], NoBatch}
        \/ Processing(c) /\ statements'[c] = Batch(Event(c), tables)
    BY StepKinds DEF Assign, Crash, Stop, Evict, Rejoin, Poll, GoTo, Moves, OthersKeep, Idles,
       Ends, Advances, loop, BatchTypes
  <2> QED BY <2>2, <2>3, <2>4
<1>3. ASSUME NEW b \in pending' PROVE ItemsOf(b.batch.orders) \subseteq OrderItemLists
  <2>1. ASSUME NEW a \in pending, NEW n, b.batch = Without(a.batch, n)
        PROVE  ItemsOf(b.batch.orders) \subseteq OrderItemLists
    <3>1. b.batch.orders = OtherRows(a.batch.orders, n.orders) BY <2>1 DEF Without
    <3>2. ItemsOf(b.batch.orders) \subseteq ItemsOf(a.batch.orders)
      BY <3>1 DEF OtherRows, ItemsOf
    <3> QED BY <3>2 DEF ItemsKnown
  <2>2. ASSUME NEW c \in Consumers, TimesOut(c), b \notin pending
        PROVE  ItemsOf(b.batch.orders) \subseteq OrderItemLists
    BY <2>2 DEF TimesOut, ItemsKnown
  <2>3. \/ b \in pending
        \/ \E c \in Consumers : TimesOut(c)
        \/ \E a \in pending : \E n : b.batch = Without(a.batch, n)
    BY CassandraChanges DEF Executed, LateBatch, Superseded, Overtakes, Expire, cassandra
  <2> QED BY <2>1, <2>2, <2>3 DEF ItemsKnown
<1> QED BY <1>1, <1>2, <1>3 DEF ItemsKnown

\* A batch is only ever executed for a message that could be read.
ReadableExecuted == \A c \in Consumers : pc[c] = "execute" => Event(c).type # "UNREADABLE"

\* What was polled from a partition by its present owner, or by owners before
\* it, was dealt with, except the message its owner has in hand.
PolledIsHandled ==
    \A p \in Partitions :
        owner[p] # NoConsumer =>
            \A i \in 1..position[p] :
                \/ Handled(<<p, i>>)
                \/ /\ Processing(owner[p]) /\ pc[owner[p]] # "commit"
                   /\ current[owner[p]] = <<p, i>>

DeliveryInv == ItemsKnown /\ ReadableExecuted /\ PolledIsHandled /\ CommittedIsHandled

\* A message that was dealt with stays so: ids are not forgotten, not even by
\* their expiry, and envelopes only move on.
LEMMA HandledStays ==
  ASSUME IInv, [Next]_vars, NEW m, InLog(m), Handled(m)
  PROVE  Handled(m)'
<1>1. log'[m[1]][m[2]] = log[m[1]][m[2]] BY LogGrows DEF IInv, Types
<1>2. processed \cup expired \subseteq processed' \cup expired' BY RowsKept DEF IInv
<1>3. Envelopes \subseteq Envelopes' BY EnvelopesKept DEF IInv
<1> QED BY <1>1, <1>2, <1>3 DEF Handled

\* The loop comes to the commit of a message in three ways, and each of them
\* deals with the message.
LEMMA CommitReached ==
  ASSUME IInv, ReadableExecuted, [Next]_vars, NEW c \in Consumers,
         Processing(c), pc[c] # "commit", pc'[c] = "commit"
  PROVE  Handled(current[c])'
<1> USE DEF IInv, Types
<1>1. \E d \in Consumers : Check(d) \/ Execute(d) \/ Reject(d)
  BY DEF Next, Produce, Rebalance, SpuriousRebalance, Assign, Start, Crash, Stop, Evict, Rejoin,
     Flush, FlushTimeout, Poll, RegistryUnreachable, Compute, DriverException, RejectFails,
     Commit, CommitFenced, CommitFails, DeliverEnvelope, DropEnvelope, LateBatch, Expire,
     GoTo, BackToPoll, vars, loop, LoopTypes
<1>2. PICK d \in Consumers : Check(d) \/ Execute(d) \/ Reject(d) BY <1>1
<1>3. d = c BY <1>2 DEF Check, Execute, Reject, GoTo, LoopTypes
<1>4. log' = log /\ current' = current BY <1>2 DEF Check, Execute, Reject, GoTo, kafka
<1>5. CASE Check(c)
  <2>1. Event(c).type # "UNREADABLE" /\ Event(c).id \in processed
    BY <1>5 DEF Check, GoTo, LoopTypes
  <2>2. Event(c).id \in processed' BY <1>5, <2>1 DEF Check, cassandra
  <2> QED BY <1>4, <2>1, <2>2 DEF Handled, Event
<1>6. CASE Execute(c)
  <2>1. Event(c).type # "UNREADABLE" BY <1>6 DEF Execute, ReadableExecuted
  <2>2. Event(c).id \in processed' BY <1>6 DEF Execute, Executed
  <2> QED BY <1>4, <2>1, <2>2 DEF Handled, Event
<1>7. CASE Reject(c)
  <2>1. current[c] \in outbox'[c] BY <1>7 DEF Reject, EnvelopeTypes
  <2> QED BY <1>4, <2>1 DEF Handled, Envelopes
<1> QED BY <1>2, <1>3, <1>5, <1>6, <1>7

\* A verdict other than those of the code's two except clauses needs a
\* quantity that does not fit.
LEMMA NoError ==
  ASSUME IInv, ItemsKnown, QuantitiesFit, NEW c \in Consumers, Processing(c)
  PROVE  Verdict(Event(c), tables) # "error"
<1>1. Event(c) \in Events /\ tables \in Tables BY InHand DEF IInv, Types, RowTypes
<1>2. ~Unbindable(Event(c), tables) BY <1>1 DEF QuantitiesFit, ItemsKnown
<1> QED BY <1>2 DEF Verdict

\* Then _process ends with the commit, unless the process dies.
LEMMA EndsCommit ==
  ASSUME "cassandra" \notin Faults, "full" \notin Faults, QuantitiesFit,
         IInv, ItemsKnown, [Next]_vars, NEW c \in Consumers, Ends(c)
  PROVE  pc[c] = "commit"
<1> USE DEF IInv, Types
<1>1. SUFFICES ASSUME pc[c] # "commit" PROVE FALSE
  OBVIOUS
<1>2. \E d \in Consumers : Compute(d) /\ BackToPoll(d) /\ Verdict(Event(d), tables) = "error"
  BY <1>1 DEF Next, Produce, Rebalance, SpuriousRebalance, Assign, Start, Crash, Stop, Evict,
     Rejoin, Flush, FlushTimeout, Poll, Check, RegistryUnreachable, Compute, Execute,
     DriverException, Reject, RejectFails, Commit, CommitFenced, CommitFails, DeliverEnvelope,
     DropEnvelope, LateBatch, Expire, GoTo, BackToPoll, vars, loop, LoopTypes, Ends, Processing, Fault
<1> QED BY <1>2, NoError DEF Compute, Processing

\* A message is executed only after its handler returned statements for it.
LEMMA StepKeepsReadable ==
  ASSUME IInv, ReadableExecuted, [Next]_vars
  PROVE  ReadableExecuted'
<1> USE DEF IInv, Types
<1> SUFFICES ASSUME NEW c \in Consumers, pc'[c] = "execute"
             PROVE  Event(c)'.type # "UNREADABLE"
  BY DEF ReadableExecuted
<1>1. ASSUME Processing(c), current'[c] = current[c] PROVE Event(c)' = Event(c)
  <2>1. InLog(current[c]) BY <1>1, InHand
  <2> QED BY <1>1, <2>1, LogGrows DEF Event
<1>2. CASE pc[c] = "execute"
  <2>1. current'[c] = current[c]
    BY <1>2 DEF Next, Produce, Rebalance, SpuriousRebalance, Assign, Start, Crash, Stop, Evict,
       Rejoin, Flush, FlushTimeout, Poll, Check, RegistryUnreachable, Compute, Execute,
       DriverException, Reject, RejectFails, Commit, CommitFenced, CommitFails,
       DeliverEnvelope, DropEnvelope, LateBatch, Expire, GoTo, BackToPoll, vars, loop, LoopTypes
  <2> QED BY <1>1, <1>2, <2>1 DEF ReadableExecuted, Processing
<1>3. CASE pc[c] # "execute"
  <2>1. \E d \in Consumers : Compute(d) /\ Verdict(Event(d), tables) \in {"apply", "stale"}
    BY <1>3 DEF Next, Produce, Rebalance, SpuriousRebalance, Assign, Start, Crash, Stop, Evict,
       Rejoin, Flush, FlushTimeout, Poll, Check, RegistryUnreachable, Compute, Execute,
       DriverException, Reject, RejectFails, Commit, CommitFenced, CommitFails,
       DeliverEnvelope, DropEnvelope, LateBatch, Expire, GoTo, BackToPoll, vars, loop, LoopTypes
  <2>2. PICK d \in Consumers : Compute(d) /\ Verdict(Event(d), tables) \in {"apply", "stale"}
    BY <2>1
  <2>3. d = c BY <1>3, <2>2 DEF Compute, GoTo, BackToPoll, LoopTypes
  <2>4. ~Malformed(Event(c)) BY <2>2, <2>3 DEF Verdict
  <2>5. Event(c).type # "UNREADABLE" BY <2>4 DEF Malformed
  <2>6. current' = current /\ Processing(c)
    BY <1>3, <2>2, <2>3 DEF Compute, GoTo, BackToPoll, Processing, LoopTypes
  <2> QED BY <1>1, <2>5, <2>6
<1> QED BY <1>2, <1>3

\* What was polled from a partition is dealt with before its owner polls again,
\* and a rebalance goes back to the group's offset.
LEMMA StepKeepsPolled ==
  ASSUME "cassandra" \notin Faults, "full" \notin Faults, QuantitiesFit,
         IInv, DeliveryInv, [Next]_vars
  PROVE  PolledIsHandled'
<1> USE DEF IInv, Types
<1> DEFINE InHandAt(c, m) == Processing(c) /\ pc[c] # "commit" /\ current[c] = m
<1>1. \A p \in Partitions : \A i \in 1..position[p] :
        /\ InLog(<<p, i>>)
        /\ Handled(<<p, i>>) => Handled(<<p, i>>)'
  <2> SUFFICES ASSUME NEW p \in Partitions, NEW i \in 1..position[p]
               PROVE  InLog(<<p, i>>)
    BY HandledStays
  <2>1. position[p] \in Nat /\ position[p] <= Len(log[p]) /\ Len(log[p]) <= MaxLog
    BY DEF OffsetTypes, LogTypes
  <2>2. Len(log[p]) \in Nat BY DEF LogTypes
  <2> QED BY <2>1, <2>2, BoundsAssumption DEF InLog, Messages
<1>2. ASSUME NEW p \in Partitions, owner[p] # NoConsumer, NEW i \in 1..position[p]
      PROVE  /\ owner[p] \in Consumers /\ owner[p] \notin evicted
             /\ pc[owner[p]] \notin {"down", "closing"}
             /\ Handled(<<p, i>>) \/ InHandAt(owner[p], <<p, i>>)
  BY <1>2 DEF DeliveryInv, PolledIsHandled, OwnersLive, Live
<1>3. CASE Assign
  <2>1. \A p \in Partitions : committed[p] \in Nat /\ position'[p] = committed[p]
    BY <1>3 DEF Assign, OffsetTypes
  <2>2. \A p \in Partitions : \A i \in 1..committed[p] : i \in 1..position[p]
    BY DEF OffsetTypes
  <2>3. \A p \in Partitions : \A i \in 1..position'[p] : Handled(<<p, i>>)'
    BY <1>1, <2>1, <2>2 DEF DeliveryInv, CommittedIsHandled
  <2> QED BY <2>3 DEF PolledIsHandled
<1> SUFFICES ASSUME ~Assign, NEW p \in Partitions, owner'[p] # NoConsumer, NEW i \in 1..position'[p]
             PROVE  Handled(<<p, i>>)' \/ InHandAt(owner[p], <<p, i>>)'
  BY <1>3 DEF PolledIsHandled
<1>4. owner'[p] = owner[p] /\ owner[p] # NoConsumer
  <2>1. \A c \in Consumers : Leave(c) => owner'[p] \in {owner[p], NoConsumer} BY DEF Leave
  <2> QED BY <2>1, StepKinds DEF Crash, Stop, Evict, Rejoin, Poll
<1>5. PICK c \in Consumers :
        c = owner[p] /\ c \notin evicted /\ pc[c] \notin {"down", "closing"}
  BY <1>4 DEF OwnersLive, Live, GroupTypes
<1>6. CASE i \in 1..position[p] /\ Handled(<<p, i>>) BY <1>1, <1>6
<1>7. CASE i \notin 1..position[p]
  <2>1. PICK d \in Consumers, q \in Partitions : Poll(d, q)
    <3>1. position'[p] # position[p] BY <1>7
    <3> QED BY <3>1, StepKinds DEF Crash, Stop, Evict, Rejoin
  <2>2. q = p BY <1>7, <2>1, PollTakes
  <2>3. d = c BY <1>5, <2>1, <2>2 DEF Poll
  <2>4. /\ current'[d] = <<p, position[p] + 1>> /\ pc'[d] = "check"
        /\ position'[p] = position[p] + 1 /\ position[p] \in Nat
    BY <2>1, <2>2, PollTakes DEF OffsetTypes
  <2>5. i = position[p] + 1 BY <1>7, <2>4
  <2> QED BY <1>4, <1>5, <2>3, <2>4, <2>5 DEF Processing
<1>8. CASE i \in 1..position[p] /\ InHandAt(c, <<p, i>>) /\ ~Handled(<<p, i>>)
  <2>1. Processing(c) /\ pc[c] # "commit" /\ current[c] = <<p, i>> BY <1>8
  <2>2. CASE UNCHANGED <<pc[c], current[c]>> BY <1>4, <1>5, <2>1, <2>2 DEF Processing
  <2>3. CASE Advances(c)
    <3>1. CASE pc'[c] = "commit"
      <4>1. Handled(current[c])' BY <1>5, <2>1, <3>1, CommitReached DEF DeliveryInv
      <4>2. current'[c] = <<p, i>> BY <2>1, <2>3 DEF Advances
      <4> QED BY <4>1, <4>2 DEF Handled
    <3>2. CASE pc'[c] # "commit" BY <1>4, <1>5, <2>1, <2>3, <3>2 DEF Advances, Processing
    <3> QED BY <3>1, <3>2
  <2>4. CASE Ends(c) BY <1>5, <2>1, <2>4, EndsCommit DEF DeliveryInv
  <2>5. \A d \in Consumers : Crash(d) \/ Stop(d) => c # d
    BY <1>4, <1>5, NoConsumerAssumption DEF Crash, Stop, Leave, GroupTypes
  <2>6. UNCHANGED <<pc[c], current[c]>> \/ Advances(c) \/ Ends(c)
    BY <1>5, <2>1, <2>5, StepKinds DEF Crash, Stop, Evict, Rejoin, Poll, GoTo, Moves, OthersKeep,
       Idles, loop, LoopTypes, Processing
  <2> QED BY <2>2, <2>3, <2>4, <2>6
<1> QED BY <1>2, <1>4, <1>5, <1>6, <1>7, <1>8

\* The offset that is committed covers only messages that were dealt with.
LEMMA StepKeepsCommitted ==
  ASSUME IInv, DeliveryInv, [Next]_vars
  PROVE  /\ CommittedIsHandled'
         /\ \A c \in Consumers : Commit(c) =>
              LET p == current[c][1]
                  n == current[c][2]
              IN  /\ p \in Partitions /\ n \in 1..Len(log[p]) /\ committed[p] <= n
                  /\ committed' = [committed EXCEPT ![p] = n]
                  /\ \A i \in 1..n : Handled(<<p, i>>)
<1> USE DEF IInv, Types
<1>1. ASSUME NEW c \in Consumers, Commit(c), NEW p, NEW n, current[c] = <<p, n>>
      PROVE  /\ p \in Partitions /\ n \in 1..Len(log[p]) /\ committed[p] <= n
             /\ committed' = [committed EXCEPT ![p] = n]
             /\ \A i \in 1..n : Handled(<<p, i>>)
  <2>1. Processing(c) /\ c \notin evicted /\ pc[c] = "commit" BY <1>1 DEF Commit, Processing
  <2>2. p \in Partitions /\ n \in 1..Len(log[p]) BY <1>1, <2>1, InHand
  <2>3. owner[p] = c /\ position[p] = n BY <1>1, <2>1 DEF MembersOwn
  <2>4. committed[p] <= n BY <2>2, <2>3 DEF OffsetTypes
  <2>5. \A i \in 1..n : Handled(<<p, i>>)
    BY <2>1, <2>2, <2>3, NoConsumerAssumption DEF DeliveryInv, PolledIsHandled
  <2>6. committed' = [committed EXCEPT ![p] = n] BY <1>1 DEF Commit
  <2> QED BY <2>2, <2>4, <2>5, <2>6
<1>2. ASSUME NEW c \in Consumers, Commit(c)
      PROVE  current[c] = <<current[c][1], current[c][2]>>
  BY <1>2, InHand DEF Commit, Processing, InLog, Messages
<1>3. ASSUME NEW p \in Partitions, NEW i \in 1..committed'[p], Handled(<<p, i>>)
      PROVE  Handled(<<p, i>>)'
  <2>1. committed'[p] \in Nat /\ committed'[p] <= Len(log'[p]) BY OffsetsKept DEF OffsetTypes
  <2>2. CASE \E c \in Consumers : Commit(c)
    <3>1. log' = log BY <2>2 DEF Commit
    <3>2. Len(log[p]) \in Nat /\ Len(log[p]) <= MaxLog BY DEF LogTypes
    <3>3. InLog(<<p, i>>) BY <2>1, <3>1, <3>2, BoundsAssumption DEF InLog, Messages
    <3> QED BY <1>3, <3>3, HandledStays
  <2>3. CASE committed' = committed
    <3>1. committed[p] \in Nat /\ committed[p] <= Len(log[p]) BY DEF OffsetTypes
    <3>2. Len(log[p]) \in Nat /\ Len(log[p]) <= MaxLog BY DEF LogTypes
    <3>3. InLog(<<p, i>>) BY <2>3, <3>1, <3>2, BoundsAssumption DEF InLog, Messages
    <3> QED BY <1>3, <3>3, HandledStays
  <2> QED BY <2>2, <2>3, OffsetsChange DEF Assign, Poll
<1>4. ASSUME NEW p \in Partitions, NEW i \in 1..committed'[p] PROVE Handled(<<p, i>>)
  <2>1. CASE committed' = committed BY <1>4, <2>1 DEF DeliveryInv, CommittedIsHandled
  <2>2. ASSUME NEW c \in Consumers, Commit(c) PROVE Handled(<<p, i>>)
    <3>1. PICK q, n : current[c] = <<q, n>> BY <1>2, <2>2
    <3>2. /\ committed' = [committed EXCEPT ![q] = n]
          /\ \A j \in 1..n : Handled(<<q, j>>)
      BY <1>1, <2>2, <3>1
    <3>3. p # q => committed'[p] = committed[p] BY <3>2 DEF OffsetTypes
    <3>4. p = q => committed'[p] = n BY <3>2 DEF OffsetTypes
    <3> QED BY <1>4, <3>2, <3>3, <3>4 DEF DeliveryInv, CommittedIsHandled
  <2> QED BY <2>1, <2>2, OffsetsChange DEF Assign, Poll
<1>5. CommittedIsHandled' BY <1>3, <1>4 DEF CommittedIsHandled
<1>6. ASSUME NEW c \in Consumers, Commit(c)
      PROVE  LET p == current[c][1]
                 n == current[c][2]
             IN  /\ p \in Partitions /\ n \in 1..Len(log[p]) /\ committed[p] <= n
                 /\ committed' = [committed EXCEPT ![p] = n]
                 /\ \A i \in 1..n : Handled(<<p, i>>)
  BY <1>1, <1>2, <1>6
<1> QED BY <1>5, <1>6

\* Nothing was polled and nothing committed at the start.
LEMMA InitDelivery == Init => DeliveryInv
BY InitItemsKnown, NoConsumerAssumption
   DEF Init, DeliveryInv, ReadableExecuted, PolledIsHandled, CommittedIsHandled

\* The inductive invariant of delivery.
LEMMA StepKeepsDelivery ==
  ASSUME "cassandra" \notin Faults, "full" \notin Faults, QuantitiesFit,
         IInv, DeliveryInv, [Next]_vars
  PROVE  DeliveryInv'
BY StepKeepsItemsKnown, StepKeepsReadable, StepKeepsPolled, StepKeepsCommitted DEF DeliveryInv

\* The messages of the log that were dealt with: what Delivery calls handled.
HandledMessages == {m \in Messages : m[2] <= Len(log[m[1]]) /\ Handled(m)}

\* They are messages that were sent, and they stay dealt with.
LEMMA HandledMessagesGrow ==
  ASSUME IInv, [Next]_vars
  PROVE  HandledMessages \subseteq HandledMessages'
<1> SUFFICES ASSUME NEW m \in HandledMessages PROVE m \in HandledMessages'
  OBVIOUS
<1>1. InLog(m) /\ Handled(m) BY DEF HandledMessages, InLog
<1>2. InLog(m)' /\ Handled(m)' BY <1>1, LogGrows, HandledStays DEF IInv, Types
<1> QED BY <1>2 DEF HandledMessages, InLog

\* An event that is published is a message sent.
LEMMA ProduceSends ==
  ASSUME IInv, NEW e \in Events, Produce(e), [Next]_vars
  PROVE  \E p \in Partitions :
           LET n == Len(log[p]) + 1
           IN  /\ Len(log'[p]) = n
               /\ log' = [log EXCEPT ![p] = Append(@, log'[p][n])]
               /\ HandledMessages \subseteq HandledMessages'
               /\ HandledMessages' \subseteq HandledMessages \cup {<<p, n>>}
               /\ committed' = committed
<1> USE DEF IInv, Types
<1>1. PICK p \in Partitions : p = Route[Key(e)] /\ log' = [log EXCEPT ![p] = Append(@, e)]
  <2>1. Key(e) \in Products \cup Orders \cup {NoKey}
    BY EventsAssumption DEF Key, AllEvents, StockEvents, MoveEvents, CountEvents,
       OrderCreatedEvents, OrderCompletedEvents, UnreadableEvents, StockTypes
  <2>2. Route[Key(e)] \in Partitions BY <2>1, RouteAssumption
  <2> QED BY <2>2 DEF Produce
<1>2. /\ log'[p] = Append(log[p], e) /\ log[p] \in Seq(Events)
      /\ \A q \in Partitions \ {p} : log'[q] = log[q]
  BY <1>1 DEF LogTypes
<1>3. /\ Len(log[p]) \in Nat /\ Len(log'[p]) = Len(log[p]) + 1
      /\ log'[p][Len(log[p]) + 1] = e
      /\ \A i \in 1..Len(log[p]) : log'[p][i] = log[p][i]
  BY <1>2
<1>4. UNCHANGED <<committed, processed, expired, outbox, dlq, lost>>
  BY DEF Produce, cassandra, dead
<1>5. Envelopes' = Envelopes BY <1>4 DEF Envelopes
<1>6. ASSUME NEW m \in HandledMessages', m # <<p, Len(log[p]) + 1>>
      PROVE  m \in HandledMessages
  <2>1. PICK q \in Partitions, i \in 1..MaxLog : m = <<q, i>>
    BY <1>6 DEF HandledMessages, Messages
  <2>2. i <= Len(log'[q]) /\ Handled(<<q, i>>)' BY <1>6, <2>1 DEF HandledMessages
  <2>3. i <= Len(log[q]) /\ log'[q][i] = log[q][i]
    <3>1. i \in Nat /\ i >= 1 BY BoundsAssumption
    <3>2. q = p => i # Len(log[p]) + 1 BY <1>6, <2>1
    <3>3. CASE q = p BY <1>3, <2>2, <3>1, <3>2, <3>3
    <3>4. CASE q # p BY <1>2, <2>2, <3>4
    <3> QED BY <3>3, <3>4
  <2>4. Handled(<<q, i>>) BY <1>4, <1>5, <2>2, <2>3 DEF Handled
  <2> QED BY <2>1, <2>3, <2>4 DEF HandledMessages, Messages
<1>7. HandledMessages \subseteq HandledMessages' BY HandledMessagesGrow
<1>8. log' = [log EXCEPT ![p] = Append(@, log'[p][Len(log[p]) + 1])] BY <1>1, <1>3
<1> QED BY <1>3, <1>4, <1>6, <1>7, <1>8

\* A step of the consumer group is one of the messages sent, dealt with or
\* committed, or none.
LEMMA StepsDeliver ==
  ASSUME IInv, DeliveryInv, [Next]_vars
  PROVE  [Delivery!Next]_<<log, HandledMessages, committed>>
<1> USE DEF IInv, Types
<1> DEFINE H == HandledMessages
<1>1. Delivery!Next <=>
        \/ /\ H \subseteq H' /\ H' \subseteq Delivery!Sent(log)
           /\ log' = log /\ committed' = committed
        \/ \E p \in Partitions :
             \/ LET n == Len(log[p]) + 1
                IN  /\ Len(log'[p]) = n
                    /\ log' = [log EXCEPT ![p] = Append(@, log'[p][n])]
                    /\ H \subseteq H'
                    /\ H' \subseteq H \cup {<<p, n>>}
                    /\ committed' = committed
             \/ \E n \in committed[p] + 1 .. Len(log[p]) :
                    /\ \A i \in 1..n : <<p, i>> \in H
                    /\ committed' = [committed EXCEPT ![p] = n]
                    /\ log' = log /\ H' = H
  BY DEF Delivery!Next, Delivery!Handle, Delivery!Send, Delivery!Commit, HandledMessages
<1>2. CASE \E e \in Events : Produce(e) BY <1>1, <1>2, ProduceSends
<1>3. ASSUME NEW c \in Consumers, Commit(c)
      PROVE  [Delivery!Next]_<<log, H, committed>>
  <2>1. PICK p, n :
          /\ p \in Partitions
          /\ n \in 1..Len(log[p]) /\ committed[p] <= n
          /\ committed' = [committed EXCEPT ![p] = n]
          /\ \A i \in 1..n : Handled(<<p, i>>)
    BY <1>3, StepKeepsCommitted
  <2>2. log' = log /\ H' = H
    <3>1. UNCHANGED <<log, processed, expired, outbox, dlq, lost>>
      BY <1>3 DEF Commit, cassandra, dead
    <3> QED BY <3>1 DEF HandledMessages, Handled, Envelopes
  <2>3. CASE committed[p] = n
    <3>1. committed' = committed BY <2>1, <2>3 DEF OffsetTypes
    <3> QED BY <2>2, <3>1
  <2>4. CASE committed[p] < n
    <3>1. committed[p] \in Nat /\ Len(log[p]) \in Nat /\ Len(log[p]) <= MaxLog
      BY <2>1 DEF OffsetTypes, LogTypes
    <3>2. n \in committed[p] + 1 .. Len(log[p]) BY <2>1, <2>4, <3>1
    <3>3. \A i \in 1..n : <<p, i>> \in H
      BY <2>1, <3>1, BoundsAssumption DEF HandledMessages, Messages
    <3> HIDE DEF H
    <3> QED BY <1>1, <2>1, <2>2, <3>2, <3>3
  <2> QED BY <2>1, <2>3, <2>4 DEF OffsetTypes
<1>4. CASE log' = log /\ committed' = committed
  <2>1. H \subseteq H' BY HandledMessagesGrow
  <2>2. H' \subseteq Delivery!Sent(log)
    <3> SUFFICES ASSUME NEW m \in H' PROVE m \in Delivery!Sent(log)
      OBVIOUS
    <3>1. PICK p \in Partitions, i \in 1..MaxLog : m = <<p, i>>
      BY DEF HandledMessages, Messages
    <3>2. i <= Len(log[p]) BY <1>4, <3>1 DEF HandledMessages
    <3>3. i \in 1..Len(log[p]) BY <3>1, <3>2, BoundsAssumption DEF LogTypes
    <3> QED BY <3>1, <3>3 DEF Delivery!Sent
  <2> HIDE DEF H
  <2> QED BY <1>1, <1>4, <2>1, <2>2
<1>5. \/ \E e \in Events : Produce(e)
      \/ \E c \in Consumers : Commit(c)
      \/ log' = log /\ committed' = committed
  BY LogChanges, OffsetsChange DEF Assign, Poll
<1> QED BY <1>2, <1>3, <1>4, <1>5

\* The consumer group implements AtLeastOnce, for every number of consumers and
\* partitions, every partitioner and every set of events, through crashes,
\* stops, expulsions, spurious rebalances, failing commits and expiring ids
\* (README.md:158-162, main.py:223).  The hypotheses are the errors run logs
\* and leaves behind (main.py:145-150, main.py:245-249): after them the next message of the
\* partition is committed over the one that failed.
THEOREM DeliveryImplemented ==
  ASSUME "cassandra" \notin Faults, "full" \notin Faults, QuantitiesFit
  PROVE  Spec => ImplementsDelivery
<1>1. IInv /\ DeliveryInv /\ [Next]_vars => DeliveryInv' BY StepKeepsDelivery
<1>2. IInv /\ DeliveryInv /\ [Next]_vars =>
        [Delivery!Next]_<<log, {m \in Messages : m[2] <= Len(log[m[1]]) /\ Handled(m)}, committed>>
  BY StepsDeliver DEF HandledMessages
<1>3. Init => Delivery!Init
  <2> SUFFICES ASSUME Init PROVE Delivery!Init
    OBVIOUS
  <2>1. \A m \in Messages : ~(m[2] <= Len(log[m[1]]))
    <3> SUFFICES ASSUME NEW p \in Partitions, NEW i \in 1..MaxLog
                 PROVE  ~(i <= Len(log[p]))
      BY DEF Messages
    <3> QED BY DEF Init
  <2> QED BY <2>1 DEF Init, Delivery!Init
<1> QED BY <1>1, <1>2, <1>3, InitDelivery, Invariant, PTL
        DEF Spec, ImplementsDelivery, Delivery!Spec
=============================================================================
