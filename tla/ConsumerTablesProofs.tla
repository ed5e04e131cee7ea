------------------------- MODULE ConsumerTablesProofs --------------------------
(***************************************************************************)
(* The consumer group implements the inventory when the rows a handler     *)
(* read cannot change before its batch is executed: there is one consumer, *)
(* or no two partitions have events of the same rows and nobody is         *)
(* expelled with a message in hand; and no batch that timed out is on its  *)
(* way while the next one is computed. What is proved of the inventory     *)
(* then holds of the consumers' tables. Whatever times out, no event is    *)
(* applied twice.                                                          *)
(***************************************************************************)
EXTENDS ConsumerProofs

-----------------------------------------------------------------------------
(* Which rows an event is about.                                           *)

OrderTypes == {"ORDER_CREATED", "ORDER_COMPLETED"}

\* The item lists the row of an order may hold.
ItemListsOf(o) ==
    {<<>>} \cup {e.items : e \in {f \in Events : f.type = "ORDER_CREATED" /\ f.order = o}}

OwnOrders(rows) == \A o \in DOMAIN rows : rows[o].items \in ItemListsOf(o)

OwnItems(t) == OwnOrders(t.orders)

ProductsIn(items) == {items[i].product : i \in DOMAIN items}

\* The products whose rows the handler of an event may read or write.
Reach(e) ==
    CASE e.type = "ORDER_CREATED"   -> ProductsIn(e.items)
      [] e.type = "ORDER_COMPLETED" -> UNION {ProductsIn(items) : items \in ItemListsOf(e.order)}
      [] e.type = "UNREADABLE"      -> {}
      [] OTHER                      -> {e.product}

\* Two states of the tables with the same rows where the event looks.
SameRows(e, t, u) ==
    /\ \A p \in Reach(e) : t.ip[p] = u.ip[p] /\ \A z \in Zones : t.ipz[<<p, z>>] = u.ipz[<<p, z>>]
    /\ e.type \in OrderTypes => t.orders[e.order] = u.orders[e.order]

\* The types there are.
LEMMA TypesOfEvents ==
  ASSUME NEW e \in Events
  PROVE  /\ e.type \in StockTypes \cup {"INVENTORY_COUNTED", "PRODUCT_MOVED", "ORDER_CREATED",
                                        "ORDER_COMPLETED", "UNREADABLE"}
         /\ e.type \in OrderTypes => e.order \in Orders
BY EventsAssumption
   DEF AllEvents, StockEvents, MoveEvents, CountEvents, OrderCreatedEvents, OrderCompletedEvents,
       UnreadableEvents, StockTypes, OrderTypes

\* The legs of an event are within its reach.
LEMMA LegsReach ==
  ASSUME NEW e \in Events, NEW t \in Tables, OwnItems(t), NEW i \in DOMAIN Legs(e, t)
  PROVE  Legs(e, t)[i].product \in Reach(e)
<1>1. CASE e.type \in StockTypes \cup {"INVENTORY_COUNTED"}
  <2>1. \E leg : Legs(e, t) = <<leg>> /\ leg.product = e.product
    BY <1>1 DEF Legs, StockTypes, ReceivedLegs, ShippedLegs, ReservedLegs, ReleasedLegs,
       CountedLegs, Leg
  <2>2. Legs(e, t)[i].product = e.product BY <2>1
  <2> QED BY <1>1, <2>2 DEF Reach, StockTypes
<1>2. CASE e.type = "PRODUCT_MOVED"
  <2>1. \E a, b : Legs(e, t) = <<a, b>> /\ a.product = e.product /\ b.product = e.product
    BY <1>2 DEF Legs, MovedLegs, Leg
  <2>2. Legs(e, t)[i].product = e.product BY <2>1
  <2> QED BY <1>2, <2>2 DEF Reach
<1>3. CASE e.type = "ORDER_CREATED"
  BY <1>3 DEF Legs, OrderCreatedLegs, Leg, Reach, ProductsIn
<1>4. CASE e.type = "ORDER_COMPLETED"
  <2> DEFINE items == t.orders[e.order].items
  <2>1. items \in ItemListsOf(e.order) BY <1>4, OrderNamed DEF OwnItems, OwnOrders, Tables
  <2>2. i \in DOMAIN items /\ Legs(e, t)[i].product = items[i].product
    BY <1>4 DEF Legs, OrderCompletedLegs, Leg
  <2>3. Reach(e) = UNION {ProductsIn(list) : list \in ItemListsOf(e.order)} BY <1>4 DEF Reach
  <2> HIDE DEF items
  <2> QED BY <2>1, <2>2, <2>3 DEF ProductsIn
<1>5. CASE e.type = "UNREADABLE"
  <2>1. Legs(e, t) = <<>> BY <1>5 DEF Legs
  <2> QED BY <2>1
<1> QED BY <1>1, <1>2, <1>3, <1>4, <1>5, TypesOfEvents

\* What a handler computes depends on the rows within reach and nothing else.
LEMMA SameReading ==
  ASSUME NEW e \in Events, NEW t \in Tables, NEW u \in Tables, OwnItems(t), SameRows(e, t, u)
  PROVE  Verdict(e, u) = Verdict(e, t) /\ Batch(e, u) = Batch(e, t)
<1>1. Legs(e, u) = Legs(e, t)
  <2>1. e.type = "INVENTORY_COUNTED" => t.ipz[<<e.product, e.zone>>] = u.ipz[<<e.product, e.zone>>]
    BY Proved!EventKinds, SameAssumptions DEF Proved!CountEvents, SameRows, Reach
  <2>2. e.type \in OrderTypes => t.orders[e.order] = u.orders[e.order] BY DEF SameRows
  <2> QED BY <2>1, <2>2 DEF Legs, CountedLegs, OrderCompletedLegs, OrderTypes
<1> DEFINE legs == Legs(e, t)
<1>2. \A i \in DOMAIN legs :
        /\ t.ipz[<<legs[i].product, legs[i].zone>>] = u.ipz[<<legs[i].product, legs[i].zone>>]
        /\ t.ip[legs[i].product] = u.ip[legs[i].product]
  BY LegsReach, LegsOfRows DEF SameRows
<1>3. Verdict(e, u) = Verdict(e, t)
  <2>1. /\ OrderRefused(e, u) <=> OrderRefused(e, t)
        /\ OrderAlreadyCompleted(e, u) <=> OrderAlreadyCompleted(e, t)
    BY DEF OrderRefused, OrderAlreadyCompleted, SameRows, OrderTypes
  <2>2. \A i \in DOMAIN legs :
          /\ StaleLeg(legs[i], e, u) <=> StaleLeg(legs[i], e, t)
          /\ ShortLeg(legs[i], u) <=> ShortLeg(legs[i], t)
    BY <1>2 DEF StaleLeg, ShortLeg
  <2>3. \A i \in DOMAIN legs : \A j \in 1..(i - 1) : j \in DOMAIN legs
    <3>1. legs \in Seq(Proved!LegRows)
      BY Proved!LegsType, SameAssumptions, SameHandlers, SameTables
    <3> HIDE DEF legs
    <3> QED BY <3>1
  <2>4. StaleEvent(e, u) <=> StaleEvent(e, t)
    <3>1. StaleEvent(e, u) <=> \E i \in DOMAIN legs :
            /\ StaleLeg(legs[i], e, u)
            /\ e.type = "PRODUCT_MOVED" \/ \A j \in 1..(i - 1) : ~ShortLeg(legs[j], u)
      BY <1>1 DEF StaleEvent
    <3>2. StaleEvent(e, t) <=> \E i \in DOMAIN legs :
            /\ StaleLeg(legs[i], e, t)
            /\ e.type = "PRODUCT_MOVED" \/ \A j \in 1..(i - 1) : ~ShortLeg(legs[j], t)
      BY DEF StaleEvent
    <3> HIDE DEF legs
    <3>3. ASSUME NEW i \in DOMAIN legs
          PROVE  (\A j \in 1..(i - 1) : ~ShortLeg(legs[j], u))
                   <=> (\A j \in 1..(i - 1) : ~ShortLeg(legs[j], t))
      BY ONLY <2>2, <2>3, <3>3, Zenon
    <3> QED BY ONLY <2>2, <3>1, <3>2, <3>3, Zenon
  <2>5. ShortEvent(e, u) <=> ShortEvent(e, t)
    <3>1. /\ ShortEvent(e, u) <=> \E i \in DOMAIN legs : ShortLeg(legs[i], u)
          /\ ShortEvent(e, t) <=> \E i \in DOMAIN legs : ShortLeg(legs[i], t)
      BY <1>1 DEF ShortEvent
    <3> HIDE DEF legs
    <3> QED BY ONLY <2>2, <3>1, Zenon
  <2>6. Unbindable(e, u) <=> Unbindable(e, t) BY <1>1 DEF Unbindable, HistoryOf
  <2> QED BY <2>1, <2>4, <2>5, <2>6 DEF Verdict
<1>4. ZoneUpserts(e, u) = ZoneUpserts(e, t)
  <2> DEFINE keys == {<<legs[i].product, legs[i].zone>> : i \in DOMAIN legs}
         at(k) == {i \in DOMAIN legs : <<legs[i].product, legs[i].zone>> = k}
         upsert(row, k) ==
            [available |-> Max({row.available + legs[i].available : i \in at(k)}),
             reserved  |-> Max({row.reserved + legs[i].reserved : i \in at(k)}),
             ts        |-> e.ts,
             supplier  |-> IF e.type = "PRODUCT_RECEIVED" /\ e.supplier # NoSupplier
                           THEN e.supplier ELSE row.supplier]
  <2>1. \A k \in keys : t.ipz[k] = u.ipz[k] BY <1>2
  <2>2. /\ ZoneUpserts(e, t) = [k \in keys |-> upsert(t.ipz[k], k)]
        /\ ZoneUpserts(e, u) = [k \in keys |-> upsert(u.ipz[k], k)]
    BY <1>1, Zenon DEF ZoneUpserts
  <2> HIDE DEF keys, upsert
  <2> QED BY <2>1, <2>2
<1>5. TotalUpserts(e, u) = TotalUpserts(e, t) BY <1>1, <1>2 DEF TotalUpserts
<1>6. OrderUpserts(e, u) = OrderUpserts(e, t)
  BY DEF OrderUpserts, SameRows, OrderTypes
<1>7. MirrorUpserts(e, u) = MirrorUpserts(e, t) /\ HistoryOf(e, u) = HistoryOf(e, t)
  BY <1>1, <1>4 DEF MirrorUpserts, HistoryOf
<1> QED BY <1>3, <1>4, <1>5, <1>6, <1>7 DEF Batch

\* An event leaves the rows alone that are out of its reach.
LEMMA RowsLeftAlone ==
  ASSUME NEW e \in Events, NEW f \in Events, NEW t \in Tables, OwnItems(t),
         Reach(e) \subseteq Products, Reach(e) \cap Reach(f) = {},
         e.type \in OrderTypes /\ f.type \in OrderTypes => e.order # f.order
  PROVE  SameRows(e, t, Write(t, Batch(f, t)))
<1> DEFINE b == Batch(f, t)
           legs == Legs(f, t)
<1>1. \A i \in DOMAIN legs : legs[i].product \in Reach(f) BY LegsReach
<1>2. /\ DOMAIN b.ipz = {<<legs[i].product, legs[i].zone>> : i \in DOMAIN legs}
      /\ DOMAIN b.ip = {legs[i].product : i \in DOMAIN legs}
      /\ DOMAIN b.orders = IF f.type \in OrderTypes THEN {f.order} ELSE {}
  BY DEF Batch, ZoneUpserts, TotalUpserts, OrderUpserts, OrderTypes
<1> HIDE DEF b, legs
<1>3. ASSUME NEW p \in Reach(e)
      PROVE  p \notin DOMAIN b.ip /\ \A z \in Zones : <<p, z>> \notin DOMAIN b.ipz
  BY <1>1, <1>2
<1>4. e.type \in OrderTypes => e.order \notin DOMAIN b.orders /\ e.order \in Orders
  BY <1>2, TypesOfEvents
<1>5. /\ DOMAIN t.ipz = Products \X Zones /\ DOMAIN t.ip = Products /\ DOMAIN t.orders = Orders
  BY DEF Tables
<1>6. SameRows(e, t, Write(t, b)) BY <1>3, <1>4, <1>5 DEF SameRows, Write, Upsert
<1> QED BY <1>6 DEF b

\* Nor does its batch have a row of theirs, or lose one to theirs.
LEMMA BatchesApart ==
  ASSUME NEW e \in Events, NEW f \in Events, NEW t \in Tables, OwnItems(t),
         Reach(e) \cap Reach(f) = {},
         e.type \in OrderTypes /\ f.type \in OrderTypes => e.order # f.order
  PROVE  Without(Batch(e, t), Batch(f, t)) = Batch(e, t)
<1> DEFINE b == Batch(e, t)
           n == Batch(f, t)
           legs == Legs(e, t)
           others == Legs(f, t)
<1>1. \A i \in DOMAIN legs, j \in DOMAIN others : legs[i].product # others[j].product
  BY LegsReach
<1>2. /\ DOMAIN b.ipz = {<<legs[i].product, legs[i].zone>> : i \in DOMAIN legs}
      /\ DOMAIN n.ipz = {<<others[i].product, others[i].zone>> : i \in DOMAIN others}
      /\ DOMAIN b.iz = {<<k[2], k[1]>> : k \in DOMAIN b.ipz}
      /\ DOMAIN n.iz = {<<k[2], k[1]>> : k \in DOMAIN n.ipz}
  BY DEF Batch, ZoneUpserts, MirrorUpserts
<1>3. /\ DOMAIN b.ip = {legs[i].product : i \in DOMAIN legs}
      /\ DOMAIN n.ip = {others[i].product : i \in DOMAIN others}
      /\ DOMAIN b.orders = IF e.type \in OrderTypes THEN {e.order} ELSE {}
      /\ DOMAIN n.orders = IF f.type \in OrderTypes THEN {f.order} ELSE {}
  BY DEF Batch, TotalUpserts, OrderUpserts, OrderTypes
<1>4. /\ \A h \in b.history : \E i \in DOMAIN legs : h.product = legs[i].product
      /\ \A h \in n.history : \E j \in DOMAIN others : h.product = others[j].product
  BY DEF Batch, HistoryOf
<1>5. /\ b = [ipz |-> b.ipz, iz |-> b.iz, ip |-> b.ip, orders |-> b.orders, history |-> b.history]
      /\ b.ipz = [k \in DOMAIN b.ipz |-> b.ipz[k]] /\ b.iz = [k \in DOMAIN b.iz |-> b.iz[k]]
      /\ b.ip = [k \in DOMAIN b.ip |-> b.ip[k]] /\ b.orders = [k \in DOMAIN b.orders |-> b.orders[k]]
  BY DEF Batch, ZoneUpserts, MirrorUpserts, TotalUpserts, OrderUpserts
<1> HIDE DEF b, n, legs, others
<1>6. OtherRows(b.ipz, n.ipz) = b.ipz
  <2>1. DOMAIN b.ipz \ DOMAIN n.ipz = DOMAIN b.ipz BY <1>1, <1>2
  <2> QED BY <1>5, <2>1 DEF OtherRows
<1>7. OtherRows(b.iz, n.iz) = b.iz
  <2>1. \A k \in DOMAIN b.iz : \E i \in DOMAIN legs : k[2] = legs[i].product BY <1>2
  <2>2. \A k \in DOMAIN n.iz : \E j \in DOMAIN others : k[2] = others[j].product BY <1>2
  <2>3. DOMAIN b.iz \ DOMAIN n.iz = DOMAIN b.iz BY <1>1, <2>1, <2>2
  <2> QED BY <1>5, <2>3 DEF OtherRows
<1>8. OtherRows(b.ip, n.ip) = b.ip
  <2>1. DOMAIN b.ip \ DOMAIN n.ip = DOMAIN b.ip BY <1>1, <1>3
  <2> QED BY <1>5, <2>1 DEF OtherRows
<1>9. OtherRows(b.orders, n.orders) = b.orders
  <2>1. DOMAIN b.orders \ DOMAIN n.orders = DOMAIN b.orders BY <1>3
  <2> QED BY <1>5, <2>1 DEF OtherRows
<1>10. OtherHistory(b.history, n.history) = b.history
  BY <1>1, <1>4 DEF OtherHistory, HistoryKey
<1> QED BY <1>5, <1>6, <1>7, <1>8, <1>9, <1>10 DEF Without, b, n

\* An event reaches products.
LEMMA ReachesProducts ==
  ASSUME NEW e \in Events
  PROVE  Reach(e) \subseteq Products
<1>1. ASSUME NEW items \in Seq(OrderItems) PROVE ProductsIn(items) \subseteq Products
  <2>1. \A i \in DOMAIN items : items[i] \in OrderItems OBVIOUS
  <2> QED BY <2>1 DEF ProductsIn, OrderItems
<1>2. \A f \in Events : f.type = "ORDER_CREATED" => f.items \in Seq(OrderItems)
  BY EventsAssumption DEF AllEvents, StockEvents, MoveEvents, CountEvents, OrderCreatedEvents,
     OrderCompletedEvents, UnreadableEvents, StockTypes
<1>3. ASSUME NEW o, NEW items \in ItemListsOf(o) PROVE ProductsIn(items) \subseteq Products
  <2>1. <<>> \in Seq(OrderItems) OBVIOUS
  <2>2. items \in Seq(OrderItems) BY <1>2, <1>3, <2>1 DEF ItemListsOf
  <2> QED BY <1>1, <2>2
<1>4. e.type \notin {"ORDER_CREATED", "ORDER_COMPLETED", "UNREADABLE"} => e.product \in Products
  BY EventsAssumption DEF AllEvents, StockEvents, MoveEvents, CountEvents, OrderCreatedEvents,
     OrderCompletedEvents, UnreadableEvents, StockTypes
<1> QED BY <1>1, <1>2, <1>3, <1>4 DEF Reach

-----------------------------------------------------------------------------
(* A batch is still what its handler would compute now.                    *)

\* The consumer group is a group of one.
Alone == \A c, d \in Consumers : c = d

\* Events in different partitions are about different rows: the producer's
\* keys keep the events of a product in one partition, and those of an order,
\* but an order names products of any partition.
RowsFollowKeys ==
    \A e, f \in Events : Route[Key(e)] # Route[Key(f)] => Reach(e) \cap Reach(f) = {}

\* Nobody else changes the rows a consumer has read.
Undisturbed == Alone \/ (RowsFollowKeys /\ "evict" \notin Faults)

UndisturbedNow == Alone \/ (RowsFollowKeys /\ evicted = {})

\* Messages are in the partition of their key.
LogRouted == \A p \in Partitions : \A i \in 1..Len(log[p]) : Route[Key(log[p][i])] = p

\* Only a message about to be executed or committed has a batch.
BatchHeld == \A c \in Consumers : pc[c] \notin {"execute", "commit"} => statements[c] = NoBatch

\* A batch with nothing in it: that of a stale event.
Blank(b) ==
    /\ DOMAIN b.ipz = {} /\ DOMAIN b.iz = {} /\ DOMAIN b.ip = {} /\ DOMAIN b.orders = {}
    /\ b.history = {}

\* Any other batch is what the handler would compute from the rows as they are.
Current(e, b) == Blank(b) \/ (Verdict(e, tables) = "apply" /\ b = Batch(e, tables))

BatchesCurrent == \A c \in Consumers : pc[c] = "execute" => Current(Event(c), statements[c])

PendingCurrent == \A b \in pending : Current(b.event, b.batch)

\* A batch that timed out and was not overtaken is of other rows than those in
\* hand and those that timed out later.
Apart(e, f) == RowsFollowKeys /\ Route[Key(e)] # Route[Key(f)]

InHandApart ==
    \A b \in pending, c \in Consumers :
        pc[c] = "execute" /\ ~Blank(statements[c]) /\ ~Blank(b.batch) /\ b.event \notin overtaken
            => Apart(b.event, Event(c))

PendingApart ==
    \A a, b \in pending :
        a # b /\ a.since >= b.since /\ ~Blank(a.batch) /\ ~Blank(b.batch) /\ b.event \notin overtaken
            => Apart(b.event, a.event)

\* Order rows, stored or on their way, hold the items of their order's events.
ItemsOwned ==
    /\ OwnItems(tables)
    /\ \A c \in Consumers : OwnOrders(statements[c].orders)
    /\ \A b \in pending : OwnOrders(b.batch.orders)

TablesInv ==
    /\ LogRouted /\ BatchHeld /\ ItemsOwned /\ InHandApart /\ PendingApart
    /\ overtaken = {} => BatchesCurrent /\ PendingCurrent

\* The empty tables and the empty log satisfy the invariant.
LEMMA InitTables == Init => TablesInv
BY DEF Init, TablesInv, LogRouted, BatchHeld, ItemsOwned, OwnItems, OwnOrders, ItemListsOf,
   EmptyTables, NoBatch, BatchesCurrent, PendingCurrent, InHandApart, PendingApart

\* An empty batch writes nothing, takes no row from another, and stays empty.
LEMMA BlankChangesNothing ==
  ASSUME NEW b, Blank(b)
  PROVE  /\ \A t \in Tables : Write(t, b) = t
         /\ \A e, t : Without(Batch(e, t), b) = Batch(e, t)
         /\ \A n : Blank(Without(b, n))
<1>1. ASSUME NEW t \in Tables PROVE Write(t, b) = t
  <2>1. /\ Upsert(t.ipz, b.ipz) = t.ipz /\ Upsert(t.iz, b.iz) = t.iz
        /\ Upsert(t.ip, b.ip) = t.ip /\ Upsert(t.orders, b.orders) = t.orders
    BY DEF Tables, Upsert, Blank
  <2>2. OtherHistory(t.history, b.history) \cup b.history = t.history
    BY DEF OtherHistory, Blank
  <2>3. t = [ipz |-> t.ipz, iz |-> t.iz, ip |-> t.ip, orders |-> t.orders, history |-> t.history]
    BY DEF Tables
  <2> QED BY <2>1, <2>2, <2>3 DEF Write
<1>2. ASSUME NEW e, NEW t PROVE Without(Batch(e, t), b) = Batch(e, t)
  <2> DEFINE a == Batch(e, t)
  <2>1. /\ a = [ipz |-> a.ipz, iz |-> a.iz, ip |-> a.ip, orders |-> a.orders, history |-> a.history]
        /\ a.ipz = [k \in DOMAIN a.ipz |-> a.ipz[k]] /\ a.iz = [k \in DOMAIN a.iz |-> a.iz[k]]
        /\ a.ip = [k \in DOMAIN a.ip |-> a.ip[k]]
        /\ a.orders = [k \in DOMAIN a.orders |-> a.orders[k]]
    BY DEF Batch, ZoneUpserts, MirrorUpserts, TotalUpserts, OrderUpserts
  <2> HIDE DEF a
  <2>2. /\ OtherRows(a.ipz, b.ipz) = a.ipz /\ OtherRows(a.iz, b.iz) = a.iz
        /\ OtherRows(a.ip, b.ip) = a.ip /\ OtherRows(a.orders, b.orders) = a.orders
        /\ OtherHistory(a.history, b.history) = a.history
    BY <2>1 DEF OtherRows, OtherHistory, Blank
  <2> QED BY <2>1, <2>2 DEF Without, a
<1>3. ASSUME NEW n PROVE Blank(Without(b, n))
  BY DEF Blank, Without, OtherRows, OtherHistory
<1> QED BY <1>1, <1>2, <1>3

\* The producer puts an event where its key belongs.
LEMMA StepKeepsRouted ==
  ASSUME LogTypes, LogRouted, [Next]_vars
  PROVE  LogRouted'
<1>1. CASE UNCHANGED log BY <1>1 DEF LogRouted
<1>2. ASSUME NEW e \in Events, Produce(e) PROVE LogRouted'
  <2>1. log' = [log EXCEPT ![Route[Key(e)]] = Append(@, e)] BY <1>2 DEF Produce
  <2>2. ASSUME NEW p \in Partitions, NEW i \in 1..Len(log'[p]) PROVE Route[Key(log'[p][i])] = p
    <3>1. log[p] \in Seq(Events) BY DEF LogTypes
    <3>2. CASE p = Route[Key(e)]
      <4>1. log'[p] = Append(log[p], e) BY <2>1, <3>2 DEF LogTypes
      <4>2. log'[p][i] = e \/ (i \in 1..Len(log[p]) /\ log'[p][i] = log[p][i])
        BY <2>2, <3>1, <4>1
      <4> QED BY <3>2, <4>2 DEF LogRouted
    <3>3. CASE p # Route[Key(e)]
      <4>1. log'[p] = log[p] BY <2>1, <3>3 DEF LogTypes
      <4> QED BY <4>1 DEF LogRouted
    <3> QED BY <3>2, <3>3
  <2> QED BY <2>2 DEF LogRouted
<1> QED BY <1>1, <1>2, LogChanges

\* Events of batches that were overtaken stay that.
LEMMA OvertakenGrows ==
  ASSUME [Next]_vars
  PROVE  overtaken \subseteq overtaken'
BY CassandraChanges DEF Executed, Overtakes, TimesOut, LateBatch, Expire, cassandra

\* Only a batch changes the tables: one that a consumer executes, or one that
\* timed out and arrives late.
LEMMA WhoWrites ==
  ASSUME [Next]_vars
  PROVE  \/ tables' = tables
         \/ \E c \in Consumers : Execute(c)
         \/ \E late \in pending : LateBatch(late)
BY DEF Next, Produce, Rebalance, SpuriousRebalance, Assign, Start, Crash, Stop, Evict, Rejoin,
   Flush, FlushTimeout, Poll, Check, RegistryUnreachable, Compute, DriverException, Reject,
   RejectFails, Commit, CommitFenced, CommitFails, DeliverEnvelope, DropEnvelope, Expire,
   vars, cassandra

\* What the tables go through until a batch is overtaken: nothing, or one event
\* applied to the rows as they are, by a consumer that is done with its batch
\* then or by a batch that arrives late.
LEMMA TablesChange ==
  ASSUME IInv, TablesInv, overtaken = {}, [Next]_vars
  PROVE  \/ tables' = tables
         \/ \E c \in Consumers :
              /\ pc[c] = "execute" /\ pc'[c] # "execute" /\ ~Blank(statements[c])
              /\ Verdict(Event(c), tables) = "apply" /\ Event(c) \in Events
              /\ tables' = Write(tables, Batch(Event(c), tables))
         \/ \E late \in pending :
              /\ LateBatch(late) /\ ~Blank(late.batch)
              /\ Verdict(late.event, tables) = "apply" /\ late.event \in Events
              /\ tables' = Write(tables, Batch(late.event, tables))
<1> USE DEF TablesInv
<1>1. tables \in Tables BY DEF IInv, Types, RowTypes
<1>2. ASSUME NEW c \in Consumers, Execute(c), ~Blank(statements[c])
      PROVE  /\ pc[c] = "execute" /\ pc'[c] # "execute"
             /\ Verdict(Event(c), tables) = "apply" /\ Event(c) \in Events
             /\ tables' = Write(tables, Batch(Event(c), tables))
  <2>1. pc[c] = "execute" /\ pc'[c] # "execute" /\ tables' = Write(tables, statements[c])
    BY <1>2 DEF Execute, Executed, GoTo, IInv, Types, LoopTypes
  <2>2. Event(c) \in Events BY <2>1, InHand DEF Processing, IInv, Types
  <2> QED BY <1>2, <2>1, <2>2 DEF BatchesCurrent, Current
<1>3. ASSUME NEW c \in Consumers, Execute(c), Blank(statements[c]) PROVE tables' = tables
  BY <1>1, <1>3, BlankChangesNothing DEF Execute, Executed
<1>4. ASSUME NEW late \in pending, LateBatch(late), ~Blank(late.batch)
      PROVE  /\ Verdict(late.event, tables) = "apply" /\ late.event \in Events
             /\ tables' = Write(tables, Batch(late.event, tables))
  BY <1>4 DEF LateBatch, PendingCurrent, Current, IInv, Types, RowTypes
<1>5. ASSUME NEW late \in pending, LateBatch(late), Blank(late.batch) PROVE tables' = tables
  BY <1>1, <1>5, BlankChangesNothing DEF LateBatch
<1> QED BY <1>2, <1>3, <1>4, <1>5, WhoWrites

\* A batch holds the items of its event, or those the order's row holds.
LEMMA BatchOwnItems ==
  ASSUME NEW e \in Events, NEW t \in Tables, OwnItems(t)
  PROVE  OwnOrders(Batch(e, t).orders)
<1>1. Batch(e, t).orders = OrderUpserts(e, t) BY DEF Batch
<1>2. CASE e.type = "ORDER_CREATED"
  BY <1>1, <1>2 DEF OrderUpserts, OwnOrders, ItemListsOf
<1>3. CASE e.type = "ORDER_COMPLETED"
  <2>1. e.order \in DOMAIN t.orders BY <1>3, OrderNamed DEF Tables
  <2>2. OrderUpserts(e, t) =
          [o \in {e.order} |-> [status |-> "COMPLETED", items |-> t.orders[o].items, ts |-> e.ts]]
    BY <1>3 DEF OrderUpserts
  <2> QED BY <1>1, <2>1, <2>2 DEF OwnItems, OwnOrders
<1>4. CASE e.type \notin {"ORDER_CREATED", "ORDER_COMPLETED"}
  BY <1>1, <1>4 DEF OrderUpserts, OwnOrders
<1> QED BY <1>2, <1>3, <1>4

\* The order table keeps to the items of the orders' events.
LEMMA StepKeepsOwned ==
  ASSUME IInv, ItemsOwned, [Next]_vars
  PROVE  ItemsOwned'
<1> USE DEF IInv, Types
<1>1. OwnItems(tables')
  <2>1. ASSUME NEW b, OwnOrders(b.orders), tables' = Write(tables, b) PROVE <1>1
    BY <2>1 DEF Write, Upsert, OwnItems, OwnOrders, ItemsOwned
  <2> QED BY <2>1, CassandraChanges
          DEF Executed, LateBatch, Overtakes, TimesOut, Expire, cassandra, ItemsOwned
<1>2. ASSUME NEW c \in Consumers PROVE OwnOrders(statements'[c].orders)
  <2>1. OwnOrders(NoBatch.orders) BY DEF NoBatch, OwnOrders
  <2>2. CASE statements'[c] \in {statements[c], NoBatch} BY <2>1, <2>2 DEF ItemsOwned
  <2>3. CASE Processing(c) /\ statements'[c] = Batch(Event(c), tables)
    BY <2>3, InHand, BatchOwnItems DEF ItemsOwned, RowTypes
  <2>4. \/ statements'[c] \in {statements[c], NoBatch}
        \/ Processing(c) /\ statements'[c] = Batch(Event(c), tables)
    BY StepKinds DEF Assign, Crash, Stop, Evict, Rejoin, Poll, GoTo, Moves, OthersKeep, Idles,
       Ends, Advances, loop, BatchTypes
  <2> QED BY <2>2, <2>3, <2>4
<1>3. ASSUME NEW b \in pending' PROVE OwnOrders(b.batch.orders)
  <2>1. ASSUME NEW a \in pending, NEW n, b.batch = Without(a.batch, n)
        PROVE  OwnOrders(b.batch.orders)
    <3>1. b.batch.orders = OtherRows(a.batch.orders, n.orders) BY <2>1 DEF Without
    <3> QED BY <3>1 DEF OtherRows, OwnOrders, ItemsOwned
  <2>2. ASSUME NEW c \in Consumers, TimesOut(c), b \notin pending
        PROVE  OwnOrders(b.batch.orders)
    BY <2>2 DEF TimesOut, ItemsOwned
  <2>3. \/ b \in pending
        \/ \E c \in Consumers : TimesOut(c)
        \/ \E a \in pending : \E n : b.batch = Without(a.batch, n)
    BY CassandraChanges DEF Executed, LateBatch, Superseded, Overtakes, Expire, cassandra
  <2> QED BY <2>1, <2>2, <2>3 DEF ItemsOwned
<1> QED BY <1>1, <1>2, <1>3 DEF ItemsOwned

\* A consumer keeps no batch longer than it needs it.
LEMMA StepKeepsHeld ==
  ASSUME IInv, BatchHeld, [Next]_vars
  PROVE  BatchHeld'
BY DEF Next, Produce, Rebalance, SpuriousRebalance, Assign, Start, Crash, Stop, Evict, Rejoin,
   Flush, FlushTimeout, Poll, Check, RegistryUnreachable, Compute, Execute, DriverException,
   Reject, RejectFails, Commit, CommitFenced, CommitFails, DeliverEnvelope, DropEnvelope,
   LateBatch, Expire, GoTo, BackToPoll, vars, loop, BatchHeld, IInv, Types, LoopTypes, BatchTypes

\* An event of one partition leaves the rows alone that events of another are
\* about.
LEMMA PartitionsApart ==
  ASSUME IInv, OwnItems(tables), NEW e \in Events, NEW f \in Events, Apart(e, f)
  PROVE  /\ SameRows(e, tables, Write(tables, Batch(f, tables)))
         /\ Without(Batch(e, tables), Batch(f, tables)) = Batch(e, tables)
<1>1. Reach(e) \cap Reach(f) = {} BY DEF Apart, RowsFollowKeys
<1>2. e.type \in OrderTypes /\ f.type \in OrderTypes => e.order # f.order
  BY DEF OrderTypes, Key, Apart
<1>3. tables \in Tables BY DEF IInv, Types, RowTypes
<1>4. Reach(e) \subseteq Products BY ReachesProducts
<1> QED BY <1>1, <1>2, <1>3, <1>4, RowsLeftAlone, BatchesApart

\* So a batch of other rows is current still, and so is what is left of it.
LEMMA StaysCurrent ==
  ASSUME IInv, OwnItems(tables), [Next]_vars, NEW e \in Events, NEW f \in Events,
         NEW b, Current(e, b), ~Blank(b) => Apart(e, f),
         NEW n, n = Batch(f, tables), tables' = Write(tables, n)
  PROVE  Current(e, b)' /\ Current(e, Without(b, n))'
<1>1. CASE Blank(b) BY <1>1, BlankChangesNothing DEF Current
<1>2. CASE ~Blank(b)
  <2>1. SameRows(e, tables, tables') /\ Without(b, n) = b
    BY <1>2, PartitionsApart DEF Current
  <2>2. tables \in Tables /\ tables' \in Tables BY RowsKept DEF RowTypes, IInv, Types
  <2>3. Verdict(e, tables') = Verdict(e, tables) /\ Batch(e, tables') = Batch(e, tables)
    BY <2>1, <2>2, SameReading
  <2> QED BY <1>2, <2>1, <2>3 DEF Current
<1> QED BY <1>1, <1>2

\* Two consumers have messages of different partitions in hand.
LEMMA HandsAreApart ==
  ASSUME UndisturbedNow, IInv, LogRouted, NEW c \in Consumers, NEW d \in Consumers, c # d,
         Processing(c), Processing(d)
  PROVE  Apart(Event(c), Event(d))
<1>1. RowsFollowKeys /\ evicted = {} BY DEF UndisturbedNow, Alone
<1>2. /\ current[c] # <<>> /\ current[d] # <<>>
      /\ current[c][1] \in Partitions /\ current[c][2] \in 1..Len(log[current[c][1]])
      /\ current[d][1] \in Partitions /\ current[d][2] \in 1..Len(log[current[d][1]])
  BY InHand DEF IInv, Types, InLog, Messages
<1>3. current[c][1] # current[d][1] BY <1>1, <1>2, MembersExclusive
<1>4. Route[Key(Event(c))] = current[c][1] /\ Route[Key(Event(d))] = current[d][1]
  BY <1>2 DEF LogRouted, Event
<1> QED BY <1>1, <1>3, <1>4 DEF Apart

\* Whoever is about to execute a batch was so before, or has computed it now
\* and overtaken what was on its way.
LEMMA HandsChange ==
  ASSUME IInv, BatchHeld, [Next]_vars, NEW c \in Consumers, pc'[c] = "execute"
  PROVE  /\ Event(c)' = Event(c)
         /\ \/ pc[c] = "execute" /\ statements'[c] = statements[c]
            \/ /\ tables' = tables
               /\ \/ Blank(statements'[c])
                  \/ /\ \A b \in pending' : b.event \in overtaken'
                     /\ Verdict(Event(c), tables) = "apply" /\ Event(c) \in Events
                     /\ statements'[c] = Batch(Event(c), tables)
<1> USE DEF IInv, Types
<1>1. ASSUME Processing(c), current'[c] = current[c] PROVE Event(c)' = Event(c)
  <2>1. InLog(current[c]) BY <1>1, InHand
  <2> QED BY <1>1, <2>1, LogGrows DEF Event
<1>2. CASE pc[c] = "execute"
  <2>1. current'[c] = current[c] /\ statements'[c] = statements[c]
    BY <1>2 DEF Next, Produce, Rebalance, SpuriousRebalance, Assign, Start, Crash, Stop, Evict,
       Rejoin, Flush, FlushTimeout, Poll, Check, RegistryUnreachable, Compute, Execute,
       DriverException, Reject, RejectFails, Commit, CommitFenced, CommitFails, DeliverEnvelope,
       DropEnvelope, LateBatch, Expire, GoTo, BackToPoll, vars, loop, LoopTypes, BatchTypes
  <2> QED BY <1>1, <1>2, <2>1 DEF Processing
<1>3. CASE pc[c] # "execute"
  <2>1. \E d \in Consumers : Compute(d)
    BY <1>3 DEF Next, Produce, Rebalance, SpuriousRebalance, Assign, Start, Crash, Stop, Evict,
       Rejoin, Flush, FlushTimeout, Poll, Check, RegistryUnreachable, Execute, DriverException,
       Reject, RejectFails, Commit, CommitFenced, CommitFails, DeliverEnvelope, DropEnvelope,
       LateBatch, Expire, GoTo, BackToPoll, vars, loop, LoopTypes
  <2>2. PICK d \in Consumers : Compute(d) BY <2>1
  <2>3. d = c BY <1>3, <2>2 DEF Compute, GoTo, BackToPoll, LoopTypes
  <2>4. /\ pc[c] = "compute" /\ current'[c] = current[c] /\ tables' = tables /\ pending' = pending
        /\ \/ /\ Verdict(Event(c), tables) = "apply"
              /\ statements'[c] = Batch(Event(c), tables)
              /\ overtaken' = overtaken \cup {b.event : b \in pending}
           \/ statements'[c] = statements[c]
    BY <1>3, <2>2, <2>3 DEF Compute, GoTo, BackToPoll, LoopTypes, BatchTypes
  <2>5. statements[c] = NoBatch BY <2>4 DEF BatchHeld
  <2>6. Blank(NoBatch) BY DEF Blank, NoBatch
  <2>7. Event(c)' = Event(c) BY <1>1, <2>4 DEF Processing
  <2>8. Event(c) \in Events BY <2>4, InHand DEF Processing
  <2> QED BY <2>4, <2>5, <2>6, <2>7, <2>8
<1> QED BY <1>2, <1>3

\* Where a batch that is on its way comes from.
LEMMA PendingChanges ==
  ASSUME IInv, [Next]_vars, NEW b \in pending'
  PROVE  \/ b \in pending /\ tables' = tables
         \/ \E c \in Consumers :
              /\ pc[c] = "execute" /\ pc'[c] # "execute" /\ tables' = tables
              /\ b.event = Event(c) /\ b.batch = statements[c]
         \/ \E c \in Consumers, a \in pending :
              /\ pc[c] = "execute" /\ Executed(c)
              /\ b.event = a.event /\ b.batch = Without(a.batch, statements[c])
         \/ \E late \in pending, a \in pending :
              /\ a # late /\ tables' = Write(tables, late.batch) /\ b.event = a.event
              /\ \/ b.batch = a.batch
                 \/ a.since <= late.since /\ b.batch = Without(a.batch, late.batch)
<1>1. CASE UNCHANGED cassandra \/ (\E id \in processed : Expire(id))
           \/ (\E c \in Consumers : Overtakes(c))
  BY <1>1 DEF cassandra, Expire, Overtakes
<1>2. ASSUME NEW c \in Consumers, TimesOut(c), b \notin pending
      PROVE  /\ pc[c] = "execute" /\ pc'[c] # "execute" /\ tables' = tables
             /\ b.event = Event(c) /\ b.batch = statements[c]
  BY <1>2 DEF TimesOut, IInv, Types, LoopTypes
<1>3. ASSUME NEW c \in Consumers, Executed(c)
      PROVE  \E a \in pending : b.event = a.event /\ b.batch = Without(a.batch, statements[c])
  BY <1>3 DEF Executed, Superseded
<1>4. ASSUME NEW late \in pending, LateBatch(late)
      PROVE  \E a \in pending :
               /\ a # late /\ tables' = Write(tables, late.batch) /\ b.event = a.event
               /\ \/ b.batch = a.batch
                  \/ a.since <= late.since /\ b.batch = Without(a.batch, late.batch)
  <2>1. \A a \in pending : a.since \in Nat BY BoundsAssumption DEF IInv, Types, RowTypes
  <2>2. PICK a \in pending :
          \/ b = a /\ a.since > late.since
          \/ /\ a.since < late.since
             /\ b = [since |-> a.since, event |-> a.event, batch |-> Without(a.batch, late.batch)]
    BY <1>4 DEF LateBatch, Superseded
  <2>3. a # late /\ (a.since < late.since => a.since <= late.since) BY <2>1, <2>2
  <2> QED BY <1>4, <2>2, <2>3 DEF LateBatch
<1>5. \A c \in Consumers : TimesOut(c) => tables' = tables BY DEF TimesOut
<1> QED BY <1>1, <1>2, <1>3, <1>4, <1>5, CassandraChanges

\* No batch is outdated when it is executed (main.py:201-221) ...
LEMMA BatchesStayCurrent ==
  ASSUME UndisturbedNow, IInv, TablesInv, [Next]_vars, overtaken' = {}
  PROVE  BatchesCurrent'
<1> USE DEF TablesInv
<1>1. overtaken = {} BY OvertakenGrows
<1> SUFFICES ASSUME NEW c \in Consumers, pc'[c] = "execute"
             PROVE  Current(Event(c), statements[c])'
  BY DEF BatchesCurrent
<1>2. Event(c)' = Event(c) BY HandsChange
<1>3. ASSUME pc[c] = "execute", statements'[c] = statements[c]
      PROVE  Current(Event(c), statements[c])'
  <2>1. Current(Event(c), statements[c]) /\ Processing(c) /\ Event(c) \in Events
    BY <1>1, <1>3, InHand DEF BatchesCurrent, Processing, IInv, Types
  <2>2. CASE tables' = tables BY <1>2, <1>3, <2>1, <2>2 DEF Current
  <2>3. ASSUME NEW f \in Events, tables' = Write(tables, Batch(f, tables)),
               ~Blank(statements[c]) => Apart(Event(c), f)
        PROVE  Current(Event(c), statements[c])'
    <3>1. PICK e \in Events : e = Event(c) BY <2>1
    <3>2. PICK b : b = statements[c] OBVIOUS
    <3>3. PICK n : n = Batch(f, tables) OBVIOUS
    <3>4. Current(e, b)' BY <2>1, <2>3, <3>1, <3>2, <3>3, StaysCurrent DEF ItemsOwned
    <3> QED BY <1>2, <1>3, <3>1, <3>2, <3>4 DEF Current
  <2>4. ASSUME NEW d \in Consumers, pc[d] = "execute", pc'[d] # "execute"
        PROVE  Apart(Event(c), Event(d))
    BY <2>1, <2>4, HandsAreApart DEF Processing
  <2>5. ASSUME NEW late \in pending, ~Blank(late.batch), ~Blank(statements[c])
        PROVE  Apart(Event(c), late.event)
    BY <1>1, <1>3, <2>5 DEF InHandApart, Apart
  <2> QED BY <1>1, <2>2, <2>3, <2>4, <2>5, TablesChange
<1>4. ASSUME tables' = tables, Blank(statements'[c]) PROVE Current(Event(c), statements[c])'
  BY <1>4 DEF Current
<1>5. ASSUME tables' = tables, Verdict(Event(c), tables) = "apply",
             statements'[c] = Batch(Event(c), tables)
      PROVE  Current(Event(c), statements[c])'
  BY <1>2, <1>5 DEF Current
<1> QED BY <1>3, <1>4, <1>5, HandsChange

\* ... and none that timed out when it arrives, as long as no other batch was
\* computed while it was on its way.
LEMMA PendingStaysCurrent ==
  ASSUME UndisturbedNow, IInv, TablesInv, [Next]_vars, overtaken' = {}
  PROVE  PendingCurrent'
<1> USE DEF TablesInv
<1>1. overtaken = {} BY OvertakenGrows
<1> SUFFICES ASSUME NEW b \in pending' PROVE Current(b.event, b.batch)'
  BY DEF PendingCurrent
<1>2. tables \in Tables BY DEF IInv, Types, RowTypes
<1>3. CASE b \in pending /\ tables' = tables
  BY <1>1, <1>3 DEF PendingCurrent, Current
<1>4. ASSUME NEW c \in Consumers, pc[c] = "execute", tables' = tables,
             b.event = Event(c), b.batch = statements[c]
      PROVE  Current(b.event, b.batch)'
  BY <1>1, <1>4 DEF BatchesCurrent, Current
<1>5. ASSUME NEW a \in pending, NEW f \in Events, NEW n, Current(f, n),
             tables' = Write(tables, n),
             ~Blank(a.batch) /\ ~Blank(n) => Apart(a.event, f)
      PROVE  Current(a.event, a.batch)' /\ Current(a.event, Without(a.batch, n))'
  <2>1. a.event \in Events /\ Current(a.event, a.batch)
    BY <1>1 DEF PendingCurrent, IInv, Types, RowTypes
  <2>2. CASE Blank(n)
    <3>1. tables' = tables BY <1>2, <1>5, <2>2, BlankChangesNothing
    <3>2. Blank(a.batch) => Blank(Without(a.batch, n)) BY BlankChangesNothing
    <3>3. a.batch = Batch(a.event, tables) => Without(a.batch, n) = a.batch
      BY <2>2, BlankChangesNothing
    <3> QED BY <2>1, <3>1, <3>2, <3>3 DEF Current
  <2>3. CASE ~Blank(n)
    <3>1. n = Batch(f, tables) BY <1>5, <2>3 DEF Current
    <3> QED BY <1>5, <2>1, <2>3, <3>1, StaysCurrent DEF ItemsOwned
  <2> QED BY <2>2, <2>3
<1>6. ASSUME NEW c \in Consumers, NEW a \in pending, pc[c] = "execute", Executed(c),
             b.event = a.event, b.batch = Without(a.batch, statements[c])
      PROVE  Current(b.event, b.batch)'
  <2>1. Event(c) \in Events BY <1>6, InHand DEF Processing, IInv, Types
  <2>2. Current(Event(c), statements[c]) BY <1>1, <1>6 DEF BatchesCurrent
  <2>3. ~Blank(a.batch) /\ ~Blank(statements[c]) => Apart(a.event, Event(c))
    BY <1>1, <1>6 DEF InHandApart
  <2>4. tables' = Write(tables, statements[c]) BY <1>6 DEF Executed
  <2>5. PICK f \in Events : f = Event(c) BY <2>1
  <2>6. PICK n : n = statements[c] OBVIOUS
  <2>7. Current(a.event, Without(a.batch, n))' BY <1>5, <2>2, <2>3, <2>4, <2>5, <2>6
  <2> QED BY <1>6, <2>6, <2>7
<1>7. ASSUME NEW late \in pending, NEW a \in pending, a # late,
             tables' = Write(tables, late.batch), b.event = a.event,
             b.batch \in {a.batch, Without(a.batch, late.batch)}
      PROVE  Current(b.event, b.batch)'
  <2>1. late.event \in Events /\ Current(late.event, late.batch)
    BY <1>1 DEF PendingCurrent, IInv, Types, RowTypes
  <2>2. ~Blank(a.batch) /\ ~Blank(late.batch) => Apart(a.event, late.event)
    <3>1. a.since \in Nat /\ late.since \in Nat BY BoundsAssumption DEF IInv, Types, RowTypes
    <3>2. a.since >= late.since \/ late.since >= a.since BY <3>1
    <3> QED BY <1>1, <1>7, <3>2 DEF PendingApart, Apart
  <2>3. Current(a.event, a.batch)' /\ Current(a.event, Without(a.batch, late.batch))'
    BY <1>5, <1>7, <2>1, <2>2
  <2> QED BY <1>7, <2>3
<1> QED BY <1>3, <1>4, <1>6, <1>7, PendingChanges

\* The batches in hand and those on their way stay apart ...
LEMMA InHandStaysApart ==
  ASSUME UndisturbedNow, IInv, TablesInv, [Next]_vars
  PROVE  InHandApart'
<1> SUFFICES ASSUME NEW b \in pending', NEW c \in Consumers, pc'[c] = "execute",
                    ~Blank(statements'[c]), ~Blank(b.batch), b.event \notin overtaken'
             PROVE  Apart(b.event, Event(c)')
  BY DEF InHandApart, Apart
<1> USE DEF TablesInv
<1>1. pc[c] = "execute" /\ statements'[c] = statements[c] /\ Event(c)' = Event(c)
  BY HandsChange
<1>2. \A a \in pending :
        ~Blank(a.batch) /\ a.event \notin overtaken => Apart(a.event, Event(c))
  BY <1>1 DEF InHandApart
<1>3. b.event \notin overtaken BY OvertakenGrows
<1>4. ASSUME NEW d \in Consumers, pc[d] = "execute", pc'[d] # "execute", b.event = Event(d)
      PROVE  Apart(b.event, Event(c))
  BY <1>1, <1>4, HandsAreApart DEF Processing
<1>5. ASSUME NEW a \in pending, NEW n, b.event = a.event,
             b.batch \in {a.batch, Without(a.batch, n)}
      PROVE  Apart(b.event, Event(c))
  BY <1>2, <1>3, <1>5, BlankChangesNothing
<1> QED BY <1>1, <1>2, <1>3, <1>4, <1>5, PendingChanges

\* ... and those on their way from each other.
LEMMA PendingStaysApart ==
  ASSUME IInv, TablesInv, [Next]_vars
  PROVE  PendingApart'
<1> SUFFICES ASSUME NEW a \in pending', NEW b \in pending', a # b, a.since >= b.since,
                    ~Blank(a.batch), ~Blank(b.batch), b.event \notin overtaken'
             PROVE  Apart(b.event, a.event)
  BY DEF PendingApart, Apart
<1> USE DEF TablesInv
<1>1. b.event \notin overtaken BY OvertakenGrows
<1>2. ASSUME NEW x \in pending, NEW y \in pending, x # y, ~Blank(x.batch), ~Blank(y.batch),
             x.event = a.event, x.since = a.since, y.event = b.event, y.since = b.since
      PROVE  Apart(b.event, a.event)
  BY <1>1, <1>2 DEF PendingApart
<1>3. CASE pending' = pending BY <1>2, <1>3
<1>4. ASSUME NEW c \in Consumers, TimesOut(c) PROVE Apart(b.event, a.event)
  <2> DEFINE new == [since |-> faults', event |-> Event(c), batch |-> statements[c]]
  <2>1. \A x \in pending :
          ~Blank(x.batch) /\ x.event \notin overtaken /\ ~Blank(statements[c])
            => Apart(x.event, Event(c))
    BY <1>4 DEF InHandApart, TimesOut
  <2>2. a \in pending \cup {new} /\ b \in pending \cup {new} BY <1>4 DEF TimesOut
  <2>3. CASE a \in pending /\ b \in pending BY <1>2, <2>3
  <2>4. CASE a = new /\ b \in pending BY <1>1, <2>1, <2>4
  <2>5. CASE a \in pending /\ b = new
    <3>1. faults' = faults + 1 BY <1>4 DEF TimesOut
    <3>2. a.since <= faults /\ a.since \in Nat /\ faults \in Nat
      BY <2>5, BoundsAssumption DEF IInv, Types, RowTypes
    <3> QED BY <2>5, <3>1, <3>2
  <2> HIDE DEF new
  <2> QED BY <2>2, <2>3, <2>4, <2>5
<1>5. ASSUME NEW S \in SUBSET pending, NEW n, NEW w \in Superseded(S, n), ~Blank(w.batch)
      PROVE  \E x \in S : /\ ~Blank(x.batch) /\ x.event = w.event /\ x.since = w.since
                          /\ w = [since |-> x.since, event |-> x.event,
                                  batch |-> Without(x.batch, n)]
  BY <1>5, BlankChangesNothing DEF Superseded
<1>6. ASSUME NEW S \in SUBSET pending, NEW n, a \in Superseded(S, n), b \in Superseded(S, n)
      PROVE  Apart(b.event, a.event)
  <2>1. PICK x \in S : /\ ~Blank(x.batch) /\ x.event = a.event /\ x.since = a.since
                       /\ a = [since |-> x.since, event |-> x.event,
                               batch |-> Without(x.batch, n)]
    BY <1>5, <1>6
  <2>2. PICK y \in S : /\ ~Blank(y.batch) /\ y.event = b.event /\ y.since = b.since
                       /\ b = [since |-> y.since, event |-> y.event,
                               batch |-> Without(y.batch, n)]
    BY <1>5, <1>6
  <2>3. x # y BY <2>1, <2>2
  <2> QED BY <1>2, <2>1, <2>2, <2>3
<1>7. CASE \E c \in Consumers : Executed(c) BY <1>6, <1>7 DEF Executed
<1>8. ASSUME NEW late \in pending, LateBatch(late) PROVE Apart(b.event, a.event)
  <2> DEFINE older == {x \in pending : x.since < late.since}
             newer == {x \in pending : x.since > late.since}
  <2>1. pending' = Superseded(older, late.batch) \cup newer BY <1>8 DEF LateBatch
  <2>2. older \subseteq pending /\ newer \subseteq pending OBVIOUS
  <2>3. \A x \in older, y \in newer : x # y
    <3>1. \A x \in pending : x.since \in Nat BY BoundsAssumption DEF IInv, Types, RowTypes
    <3> QED BY <3>1
  <2> HIDE DEF older, newer
  <2>4. CASE a \in newer /\ b \in newer BY <1>2, <2>2, <2>4
  <2>5. CASE a \in Superseded(older, late.batch) /\ b \in newer
    <3>1. PICK x \in older : ~Blank(x.batch) /\ x.event = a.event /\ x.since = a.since
      BY <1>5, <2>2, <2>5
    <3> QED BY <1>2, <2>2, <2>3, <2>5, <3>1
  <2>6. CASE a \in newer /\ b \in Superseded(older, late.batch)
    <3>1. PICK x \in older : ~Blank(x.batch) /\ x.event = b.event /\ x.since = b.since
      BY <1>5, <2>2, <2>6
    <3> QED BY <1>2, <2>2, <2>3, <2>6, <3>1
  <2>7. CASE a \in Superseded(older, late.batch) /\ b \in Superseded(older, late.batch)
    BY <1>6, <2>2, <2>7
  <2> QED BY <2>1, <2>4, <2>5, <2>6, <2>7
<1> QED BY <1>3, <1>4, <1>7, <1>8, CassandraChanges DEF Overtakes, Expire, cassandra

\* The inductive invariant.
LEMMA StepKeepsTables ==
  ASSUME UndisturbedNow, IInv, TablesInv, [Next]_vars
  PROVE  TablesInv'
BY StepKeepsRouted, StepKeepsHeld, StepKeepsOwned, BatchesStayCurrent, PendingStaysCurrent,
   InHandStaysApart, PendingStaysApart
   DEF TablesInv, IInv, Types

\* Under the hypotheses nobody ever disturbs.
LEMMA NobodyDisturbs ==
  ASSUME Undisturbed
  PROVE  Spec => []UndisturbedNow
<1>1. CASE Alone
  <2>1. UndisturbedNow BY <1>1 DEF UndisturbedNow
  <2>2. Init => UndisturbedNow BY <2>1
  <2>3. UndisturbedNow /\ [Next]_vars => UndisturbedNow' BY <1>1 DEF UndisturbedNow
  <2> QED BY <2>2, <2>3, PTL DEF Spec
<1>2. CASE RowsFollowKeys /\ "evict" \notin Faults
  <2>1. evicted = {} => UndisturbedNow BY <1>2 DEF UndisturbedNow
  <2>2. Spec => [](evicted = {}) BY <1>2, NobodyExpelled
  <2> QED BY <2>1, <2>2, PTL
<1> QED BY <1>1, <1>2 DEF Undisturbed

\* While nothing disturbs the rows in hand, the invariant holds throughout.
LEMMA TablesInvariant ==
  ASSUME Undisturbed
  PROVE  Spec => []TablesInv
<1>1. UndisturbedNow /\ IInv /\ TablesInv /\ [Next]_vars => TablesInv' BY StepKeepsTables
<1> QED BY <1>1, InitTables, Invariant, NobodyDisturbs, PTL DEF Spec

-----------------------------------------------------------------------------
(* The consumers implement the inventory.                                  *)

\* The handlers of the instance Warehouse are those of here.
LEMMA SameWarehouse ==
  ASSUME NEW e, NEW t
  PROVE  /\ Warehouse!Verdict(e, t) = Verdict(e, t)
         /\ Warehouse!Write(t, Warehouse!Batch(e, t)) = Write(t, Batch(e, t))
<1>1. Warehouse!Legs(e, t) = Legs(e, t)
  BY DEF Warehouse!Legs, Warehouse!ReceivedLegs, Warehouse!ShippedLegs, Warehouse!MovedLegs,
     Warehouse!ReservedLegs, Warehouse!ReleasedLegs, Warehouse!CountedLegs,
     Warehouse!OrderCreatedLegs, Warehouse!OrderCompletedLegs, Warehouse!Leg,
     Legs, ReceivedLegs, ShippedLegs, MovedLegs, ReservedLegs, ReleasedLegs, CountedLegs,
     OrderCreatedLegs, OrderCompletedLegs, Leg
<1>2. \A f, S : Warehouse!SumFunctionOnSet(f, S) = SumFunctionOnSet(f, S)
  BY DEF Warehouse!SumFunctionOnSet, Warehouse!FoldFunctionOnSet, Warehouse!MapThenFoldSet,
     SumFunctionOnSet, FoldFunctionOnSet, MapThenFoldSet
<1>3. \A p : /\ Warehouse!AvailableDelta(Legs(e, t), p) = AvailableDelta(Legs(e, t), p)
             /\ Warehouse!ReservedDelta(Legs(e, t), p) = ReservedDelta(Legs(e, t), p)
  BY <1>2 DEF Warehouse!AvailableDelta, AvailableDelta, Warehouse!ReservedDelta, ReservedDelta,
     Warehouse!ProductLegs, ProductLegs
<1>4. Warehouse!HistoryOf(e, t) = HistoryOf(e, t)
  BY <1>1, <1>3 DEF Warehouse!HistoryOf, HistoryOf, Warehouse!HistoryQuantity, HistoryQuantity
<1>5. Warehouse!Verdict(e, t) = Verdict(e, t)
  <2>1. /\ Warehouse!Malformed(e) <=> Malformed(e)
        /\ Warehouse!OrderRefused(e, t) <=> OrderRefused(e, t)
        /\ Warehouse!OrderAlreadyCompleted(e, t) <=> OrderAlreadyCompleted(e, t)
    BY DEF Warehouse!Malformed, Malformed, Warehouse!StockTypes, StockTypes,
       Warehouse!OrderRefused, OrderRefused, Warehouse!OrderAlreadyCompleted,
       OrderAlreadyCompleted
  <2>2. /\ \A leg : Warehouse!StaleLeg(leg, e, t) <=> StaleLeg(leg, e, t)
        /\ \A leg : Warehouse!ShortLeg(leg, t) <=> ShortLeg(leg, t)
    BY DEF Warehouse!StaleLeg, StaleLeg, Warehouse!ShortLeg, ShortLeg
  <2>3. /\ Warehouse!StaleEvent(e, t) <=> StaleEvent(e, t)
        /\ Warehouse!ShortEvent(e, t) <=> ShortEvent(e, t)
    BY <1>1, <2>2 DEF Warehouse!StaleEvent, StaleEvent, Warehouse!ShortEvent, ShortEvent
  <2>4. Warehouse!Unbindable(e, t) <=> Unbindable(e, t)
    BY <1>4 DEF Warehouse!Unbindable, Unbindable
  <2> QED BY <2>1, <2>3, <2>4 DEF Warehouse!Verdict, Verdict
<1>6. Warehouse!Batch(e, t) = Batch(e, t)
  <2>1. Warehouse!ZoneUpserts(e, t) = ZoneUpserts(e, t)
    BY <1>1 DEF Warehouse!ZoneUpserts, ZoneUpserts, Warehouse!Max, Max
  <2>2. Warehouse!MirrorUpserts(e, t) = MirrorUpserts(e, t)
    BY <2>1 DEF Warehouse!MirrorUpserts, MirrorUpserts
  <2>3. Warehouse!TotalUpserts(e, t) = TotalUpserts(e, t)
    BY <1>1, <1>3 DEF Warehouse!TotalUpserts, TotalUpserts
  <2>4. Warehouse!OrderUpserts(e, t) = OrderUpserts(e, t)
    BY DEF Warehouse!OrderUpserts, OrderUpserts
  <2> QED BY <1>4, <2>1, <2>2, <2>3, <2>4 DEF Warehouse!Batch, Batch
<1>7. Warehouse!Write(t, Batch(e, t)) = Write(t, Batch(e, t))
  BY DEF Warehouse!Write, Write, Warehouse!Upsert, Upsert, Warehouse!OtherHistory,
     OtherHistory, Warehouse!HistoryKey, HistoryKey
<1> QED BY <1>5, <1>6, <1>7

\* An event that is applied is a step of the inventory, by the handler of its
\* type.
LEMMA ApplyIsAStep ==
  ASSUME NEW e \in Events, Verdict(e, tables) = "apply",
         tables' = Write(tables, Batch(e, tables))
  PROVE  Warehouse!Next /\ Proved!Next
<1>1. e.type \in {"PRODUCT_RECEIVED", "PRODUCT_SHIPPED", "PRODUCT_MOVED", "PRODUCT_RESERVED",
                  "PRODUCT_RELEASED", "INVENTORY_COUNTED", "ORDER_CREATED", "ORDER_COMPLETED"}
  <2>1. ~Malformed(e) BY DEF Verdict
  <2> QED BY <2>1, TypesOfEvents DEF Malformed, StockTypes
<1>2. Warehouse!Apply(e) BY SameWarehouse DEF Warehouse!Apply
<1>3. Proved!Apply(e) BY SameHandlers DEF Proved!Apply, Proved!Written
<1>4. Warehouse!Next
  BY <1>1, <1>2
     DEF Warehouse!Next, Warehouse!HandleProductReceived, Warehouse!HandleProductShipped,
         Warehouse!HandleProductMoved, Warehouse!HandleProductReserved,
         Warehouse!HandleProductReleased, Warehouse!HandleInventoryCounted,
         Warehouse!HandleOrderCreated, Warehouse!HandleOrderCompleted
<1>5. Proved!Next
  BY <1>1, <1>3
     DEF Proved!Next, Proved!HandleProductReceived, Proved!HandleProductShipped,
         Proved!HandleProductMoved, Proved!HandleProductReserved,
         Proved!HandleProductReleased, Proved!HandleInventoryCounted,
         Proved!HandleOrderCreated, Proved!HandleOrderCompleted
<1> QED BY <1>4, <1>5

\* Until a batch is overtaken, every step of the group is one of the inventory,
\* or leaves the tables alone.
LEMMA StepsApply ==
  ASSUME IInv, TablesInv, [Next]_vars, overtaken' = {}
  PROVE  [Warehouse!Next]_tables /\ [Proved!Next]_tables
<1>1. overtaken = {} BY OvertakenGrows
<1> QED BY <1>1, TablesChange, ApplyIsAStep

\* The group starts with the tables the inventory starts with.
LEMMA StartsEmpty == Init => Warehouse!Init /\ Proved!Init
<1>1. Warehouse!EmptyTables = EmptyTables
  BY DEF Warehouse!EmptyTables, EmptyTables, Warehouse!NoStock, NoStock
<1> QED BY <1>1, SameTables DEF Init, Warehouse!Init, Proved!Init

\* However the messages are polled, redelivered and reprocessed, and whoever
\* crashes, the tables change only as if the handlers applied one event after
\* the other atomically: no batch was computed from rows that changed before
\* it was executed (main.py:201-221).  That holds with statements that time out
\* and batches that arrive late as well, until a batch is computed while one is
\* on its way (cassandra_repo.py:275-277, main.py:245-249).  The hypothesis is
\* needed: with two consumers and events of one row in two partitions the
\* property fails.
THEOREM ImplementedUntilOvertaken ==
  ASSUME Undisturbed
  PROVE  Spec => ImplementsUntilOvertaken
<1>1. IInv /\ TablesInv /\ [Next]_vars => [overtaken' = {} => [Warehouse!Next]_tables]_vars
  BY StepsApply
<1>2. Init => Warehouse!Init BY StartsEmpty
<1> QED BY <1>1, <1>2, Invariant, TablesInvariant, PTL
        DEF Spec, ImplementsUntilOvertaken

\* Without a statement that times out nothing is on its way.
LEMMA NothingOvertaken ==
  ASSUME "cassandra" \notin Faults
  PROVE  Spec => [](pending = {} /\ overtaken = {})
<1>1. Init => pending = {} /\ overtaken = {} BY DEF Init
<1>2. pending = {} /\ overtaken = {} /\ [Next]_vars => (pending = {} /\ overtaken = {})'
  <2> SUFFICES ASSUME pending = {}, overtaken = {}, [Next]_vars
               PROVE  pending' = {} /\ overtaken' = {}
    OBVIOUS
  <2>1. \A c \in Consumers : ~DriverException(c) BY DEF DriverException, Fault
  <2> QED BY <2>1
    DEF Next, Produce, Rebalance, SpuriousRebalance, Assign, Start, Crash, Stop, Evict, Rejoin,
        Flush, FlushTimeout, Poll, Check, RegistryUnreachable, Compute, Execute, Executed,
        Superseded, Reject, RejectFails, Commit, CommitFenced, CommitFails, DeliverEnvelope,
        DropEnvelope, Expire, vars, cassandra
<1> QED BY <1>1, <1>2, PTL DEF Spec

\* When no statement times out they implement the inventory throughout.
THEOREM InventoryImplemented ==
  ASSUME Undisturbed, "cassandra" \notin Faults
  PROVE  Spec => ImplementsInventory
<1>1. IInv /\ TablesInv /\ [Next]_vars /\ (overtaken = {})' => [Warehouse!Next]_tables
  BY StepsApply
<1>2. Init => Warehouse!Init BY StartsEmpty
<1>3. Spec => [](overtaken = {})
  <2>1. pending = {} /\ overtaken = {} => overtaken = {} OBVIOUS
  <2> QED BY <2>1, NothingOvertaken, PTL
<1> QED BY <1>1, <1>2, <1>3, Invariant, TablesInvariant, PTL
        DEF Spec, ImplementsInventory, Warehouse!Spec

\* The same of the inventory its theorems are about.
LEMMA ImplementsProved ==
  ASSUME Undisturbed, "cassandra" \notin Faults
  PROVE  Spec => Proved!Spec
<1>1. IInv /\ TablesInv /\ [Next]_vars /\ (overtaken = {})' => [Proved!Next]_tables
  BY StepsApply
<1>2. Init => Proved!Init BY StartsEmpty
<1>3. Spec => [](overtaken = {})
  <2>1. pending = {} /\ overtaken = {} => overtaken = {} OBVIOUS
  <2> QED BY <2>1, NothingOvertaken, PTL
<1> QED BY <1>1, <1>2, <1>3, Invariant, TablesInvariant, PTL DEF Spec, Proved!Spec

\* The denormalised tables agree at every moment, for any number of consumers,
\* products and zones, as long as no order names a row twice and no statement
\* times out (init.cql:7-8, README.md:224-230).  With the last hypothesis gone
\* it fails: a batch that timed out may be applied over rows that were computed
\* after it.
THEOREM TablesAgreeHolds ==
  ASSUME Undisturbed, "cassandra" \notin Faults, Proved!NoRepeatedItems
  PROVE  Spec => []TablesAgree
<1>1. Proved!TablesAgree => TablesAgree
  <2>1. \A f, S : Warehouse!SumFunctionOnSet(f, S) = Proved!SumFunctionOnSet(f, S)
    BY DEF Warehouse!SumFunctionOnSet, Warehouse!FoldFunctionOnSet, Warehouse!MapThenFoldSet,
       Proved!SumFunctionOnSet, Proved!FoldFunctionOnSet, Proved!MapThenFoldSet
  <2>2. Proved!MirrorAgrees => Warehouse!MirrorAgrees
    BY DEF Proved!MirrorAgrees, Warehouse!MirrorAgrees
  <2>3. Proved!TotalsAgree => Warehouse!TotalsAgree
    BY <2>1 DEF Proved!TotalsAgree, Warehouse!TotalsAgree
  <2> QED BY <2>2, <2>3 DEF Proved!TablesAgree, TablesAgree, Warehouse!TablesAgree
<1>2. Proved!Spec => []Proved!TablesAgree BY Proved!TablesStayAgreed, SameAssumptions
<1> QED BY <1>1, <1>2, ImplementsProved, PTL

\* Orders are what brings events of a product into another partition: without
\* them, or with one partition for everything, rows follow the keys.
LEMMA RowsFollowKeysWithoutOrders ==
  ASSUME \/ \A e \in Events : e.type \notin OrderTypes
         \/ \A p, q \in Partitions : p = q
  PROVE  RowsFollowKeys
<1>1. CASE \A e \in Events : e.type \notin OrderTypes
  <2>1. \A e \in Events : Reach(e) \subseteq {Key(e)} BY <1>1 DEF Reach, Key, OrderTypes
  <2> QED BY <2>1 DEF RowsFollowKeys
<1>2. CASE \A p, q \in Partitions : p = q
  <2>1. \A e \in Events : Key(e) \in Products \cup Orders \cup {NoKey}
    BY EventsAssumption DEF Key, AllEvents, StockEvents, MoveEvents, CountEvents,
       OrderCreatedEvents, OrderCompletedEvents, UnreadableEvents, StockTypes
  <2> QED BY <1>2, <2>1, RouteAssumption DEF RowsFollowKeys
<1> QED BY <1>1, <1>2

-----------------------------------------------------------------------------
(* No event is applied twice.                                              *)

\* The row a stock, move or count event is about first.
FirstRow(e) == <<e.product, IF e.type = "PRODUCT_MOVED" THEN e.from ELSE e.zone>>

RowTypesOfEvents == StockTypes \cup {"INVENTORY_COUNTED", "PRODUCT_MOVED"}

\* What keeps an event from being applied again: a row at least as recent, or
\* the order's status.  It may be in the tables or in a batch.
Settles(e, rows) ==
    /\ e.type \in RowTypesOfEvents => rows.ipz[FirstRow(e)].ts >= e.ts
    /\ e.type = "ORDER_CREATED" => rows.orders[e.order].status # "NONE"
    /\ e.type = "ORDER_COMPLETED" => rows.orders[e.order].status = "COMPLETED"

\* A batch writes the row that matters for the event.
Touches(e, b) ==
    \/ e.type \in RowTypesOfEvents /\ FirstRow(e) \in DOMAIN b.ipz
    \/ e.type \in OrderTypes /\ e.order \in DOMAIN b.orders

Keeps(e, b) == Touches(e, b) => Settles(e, b)

\* A batch is about one event.
Own(e, b) ==
    /\ \A k \in DOMAIN b.ipz : k[1] \in Reach(e)
    /\ \A o \in DOMAIN b.orders : e.type \in OrderTypes /\ o = e.order
    /\ \A h \in b.history : h.event = e

BatchesOwned ==
    /\ \A c \in Consumers : pc[c] = "execute" => Own(Event(c), statements[c])
    /\ \A b \in pending : Own(b.event, b.batch)

BatchesSettle ==
    /\ \A c \in Consumers :
         pc[c] = "execute" /\ ~Blank(statements[c]) =>
             Touches(Event(c), statements[c]) /\ Settles(Event(c), statements[c])
    /\ \A b \in pending :
         ~Blank(b.batch) /\ b.event \notin overtaken =>
             Touches(b.event, b.batch) /\ Settles(b.event, b.batch)

\* An event that was applied, unless it was overtaken, is settled whatever is
\* on its way.
AppliedSettled ==
    \A e \in Applied(tables) \ overtaken :
        /\ Settles(e, tables)
        /\ \A c \in Consumers : pc[c] = "execute" => Keeps(e, statements[c])
        /\ \A b \in pending : Keeps(e, b.batch)

OnceInv == BatchesOwned /\ BatchesSettle /\ AppliedSettled /\ AppliedAtMostOnce

LEMMA InitOnce == Init => OnceInv
BY DEF Init, OnceInv, BatchesOwned, BatchesSettle, AppliedSettled, AppliedAtMostOnce, Applied,
   EmptyTables

\* After a batch is written an event is settled by the batch, or as it was.
LEMMA WrittenSettles ==
  ASSUME NEW e \in Events, NEW t \in Tables, NEW b
  PROVE  Settles(e, Write(t, b)) <=> IF Touches(e, b) THEN Settles(e, b) ELSE Settles(e, t)
<1>1. CASE e.type \in RowTypesOfEvents
  <2>1. FirstRow(e) \in Products \X Zones
    BY <1>1, EventsAssumption DEF FirstRow, RowTypesOfEvents, AllEvents, StockEvents, MoveEvents,
       CountEvents, OrderCreatedEvents, OrderCompletedEvents, UnreadableEvents, StockTypes
  <2>2. e.type \notin {"ORDER_CREATED", "ORDER_COMPLETED"}
    BY <1>1 DEF RowTypesOfEvents, StockTypes
  <2>3. Write(t, b).ipz[FirstRow(e)] =
          IF FirstRow(e) \in DOMAIN b.ipz THEN b.ipz[FirstRow(e)] ELSE t.ipz[FirstRow(e)]
    BY <2>1 DEF Write, Upsert, Tables
  <2> QED BY <1>1, <2>2, <2>3 DEF Settles, Touches, OrderTypes
<1>2. CASE e.type \in OrderTypes
  <2>1. e.order \in Orders BY <1>2, TypesOfEvents
  <2>2. e.type \notin RowTypesOfEvents BY <1>2 DEF RowTypesOfEvents, StockTypes, OrderTypes
  <2>3. Write(t, b).orders[e.order] =
          IF e.order \in DOMAIN b.orders THEN b.orders[e.order] ELSE t.orders[e.order]
    BY <2>1 DEF Write, Upsert, Tables
  <2> QED BY <1>2, <2>2, <2>3 DEF Settles, Touches, OrderTypes
<1>3. CASE e.type \notin RowTypesOfEvents \cup OrderTypes
  BY <1>3 DEF Settles, Touches, OrderTypes
<1> QED BY <1>1, <1>2, <1>3

\* To be settled is what it is in the inventory.
LEMMA SettledAlike ==
  ASSUME NEW e, NEW t
  PROVE  Proved!Settled(e, t) <=> Settles(e, t)
BY DEF Proved!Settled, Settles, FirstRow, RowTypesOfEvents, Proved!StockTypes, StockTypes

\* The batch of an event that is applied settles it ...
LEMMA NewBatchSettles ==
  ASSUME NEW e \in Events, NEW t \in Tables, Verdict(e, t) = "apply"
  PROVE  Touches(e, Batch(e, t)) /\ Settles(e, Batch(e, t))
<1> DEFINE b == Batch(e, t)
           legs == Legs(e, t)
<1>1. Settles(e, Write(t, b))
  BY Proved!AppliedSettles, SettledAlike, SameAssumptions, SameHandlers, SameTables
<1>2. Touches(e, b)
  <2>1. CASE e.type \in RowTypesOfEvents
    <3>1. /\ 1 \in DOMAIN legs
          /\ <<legs[1].product, legs[1].zone>> = FirstRow(e)
      BY <2>1, Proved!FirstLeg, SameAssumptions, SameHandlers, SameTables
         DEF RowTypesOfEvents, StockTypes, Proved!StockTypes, FirstRow
    <3>2. DOMAIN b.ipz = {<<legs[i].product, legs[i].zone>> : i \in DOMAIN legs}
      BY DEF Batch, ZoneUpserts
    <3> HIDE DEF legs, b
    <3> QED BY <2>1, <3>1, <3>2 DEF Touches
  <2>2. CASE e.type \in OrderTypes BY <2>2 DEF Touches, Batch, OrderUpserts, OrderTypes
  <2>3. e.type # "UNREADABLE" BY DEF Verdict, Malformed
  <2> QED BY <2>1, <2>2, <2>3, TypesOfEvents DEF RowTypesOfEvents, OrderTypes
<1> HIDE DEF b
<1> QED BY <1>1, <1>2, WrittenSettles DEF b

\* ... and keeps those settled that are.
LEMMA NewBatchKeeps ==
  ASSUME NEW e \in Events, NEW t \in Tables, Settles(e, t),
         NEW f \in Events, Verdict(f, t) = "apply"
  PROVE  Keeps(e, Batch(f, t))
<1>1. Settles(e, Write(t, Batch(f, t)))
  BY Proved!SettledStays, SettledAlike, SameAssumptions, SameHandlers, SameTables
<1> QED BY <1>1, WrittenSettles DEF Keeps

\* What a newer batch leaves of a batch.
LEMMA LeftOverKeeps ==
  ASSUME NEW e, NEW b, NEW n
  PROVE  /\ Keeps(e, b) => Keeps(e, Without(b, n))
         /\ Touches(e, n) => Keeps(e, Without(b, n))
         /\ ~Touches(e, n) =>
              /\ Touches(e, b) => Touches(e, Without(b, n))
              /\ Touches(e, b) /\ Settles(e, b) => Settles(e, Without(b, n))
         /\ Own(e, b) => Own(e, Without(b, n))
<1>1. e.type \in RowTypesOfEvents => e.type \notin OrderTypes
  BY DEF RowTypesOfEvents, OrderTypes, StockTypes
<1> QED BY <1>1 DEF Keeps, Touches, Settles, Own, Without, OtherRows, OtherHistory, OrderTypes

\* Batches of other rows do not touch an event, nor do empty ones.
LEMMA ApartUntouched ==
  ASSUME NEW e \in Events, NEW f \in Events, NEW b, Own(f, b), Apart(e, f) \/ Blank(b)
  PROVE  ~Touches(e, b)
<1>1. CASE Blank(b) BY <1>1 DEF Blank, Touches
<1>2. CASE Apart(e, f)
  <2>1. Reach(e) \cap Reach(f) = {} BY <1>2 DEF Apart, RowsFollowKeys
  <2>2. CASE e.type \in RowTypesOfEvents
    <3>1. e.product \in Reach(e)
      BY <2>2 DEF Reach, RowTypesOfEvents, StockTypes
    <3>2. FirstRow(e)[1] = e.product BY DEF FirstRow
    <3> QED BY <2>1, <2>2, <3>1, <3>2 DEF Touches, Own, RowTypesOfEvents, OrderTypes, StockTypes
  <2>3. CASE e.type \in OrderTypes
    <3>1. f.type \in OrderTypes => e.order # f.order BY <1>2, <2>3 DEF Apart, Key, OrderTypes
    <3> QED BY <2>3, <3>1 DEF Touches, Own, RowTypesOfEvents, OrderTypes, StockTypes
  <2> QED BY <2>2, <2>3 DEF Touches
<1> QED BY <1>1, <1>2

\* An empty batch is about any event, and a computed one about its own.
LEMMA NewBatchOwn ==
  ASSUME NEW e \in Events, NEW t \in Tables, OwnItems(t)
  PROVE  Own(e, Batch(e, t))
<1> DEFINE b == Batch(e, t)
           legs == Legs(e, t)
<1>1. \A i \in DOMAIN legs : legs[i].product \in Reach(e) BY LegsReach
<1>2. /\ DOMAIN b.ipz = {<<legs[i].product, legs[i].zone>> : i \in DOMAIN legs}
      /\ DOMAIN b.orders = IF e.type \in OrderTypes THEN {e.order} ELSE {}
      /\ \A h \in b.history : h.event = e
  BY DEF Batch, ZoneUpserts, OrderUpserts, OrderTypes, HistoryOf
<1> HIDE DEF b, legs
<1>3. Own(e, b) BY <1>1, <1>2 DEF Own
<1> QED BY <1>3 DEF b

LEMMA BlankOwn ==
  ASSUME NEW b, Blank(b)
  PROVE  \A e : Own(e, b)
BY DEF Blank, Own

\* What is applied by a batch that is written.
LEMMA AppliedGrows ==
  ASSUME NEW t, NEW b, NEW f, Own(f, b), NEW e \in Applied(Write(t, b)), e \notin Applied(t)
  PROVE  e = f /\ ~Blank(b)
BY DEF Applied, Write, OtherHistory, Own, Blank

\* Batches stay what they were computed for.
LEMMA StepKeepsBatchesOwned ==
  ASSUME IInv, TablesInv, BatchesOwned, [Next]_vars
  PROVE  BatchesOwned'
<1> USE DEF TablesInv, IInv, Types
<1>1. tables \in Tables BY DEF RowTypes
<1>2. ASSUME NEW c \in Consumers, pc'[c] = "execute" PROVE Own(Event(c)', statements'[c])
  <2>1. CASE Blank(statements'[c]) BY <2>1, BlankOwn
  <2>2. CASE Event(c) \in Events /\ statements'[c] = Batch(Event(c), tables)
    BY <1>1, <1>2, <2>2, NewBatchOwn, HandsChange DEF ItemsOwned
  <2>3. CASE pc[c] = "execute" /\ statements'[c] = statements[c]
    BY <1>2, <2>3, HandsChange DEF BatchesOwned
  <2> QED BY <1>2, <2>1, <2>2, <2>3, HandsChange
<1>3. ASSUME NEW b \in pending' PROVE Own(b.event, b.batch)
  <2>1. ASSUME NEW a \in pending, NEW n, b.event = a.event,
               b.batch \in {a.batch, Without(a.batch, n)}
        PROVE  Own(b.event, b.batch)
    BY <2>1, LeftOverKeeps DEF BatchesOwned
  <2>2. ASSUME NEW c \in Consumers, pc[c] = "execute", b.event = Event(c),
               b.batch = statements[c]
        PROVE  Own(b.event, b.batch)
    BY <2>2 DEF BatchesOwned
  <2> QED BY <2>1, <2>2, PendingChanges
<1> QED BY <1>2, <1>3, Zenon DEF BatchesOwned

\* They settle their events until they are applied or overtaken.
LEMMA StepKeepsSettling ==
  ASSUME IInv, TablesInv, BatchesOwned, BatchesSettle, [Next]_vars
  PROVE  BatchesSettle'
<1> USE DEF TablesInv, IInv, Types
<1>1. tables \in Tables BY DEF RowTypes
<1>2. ASSUME NEW c \in Consumers, pc'[c] = "execute", ~Blank(statements'[c])
      PROVE  Touches(Event(c)', statements'[c]) /\ Settles(Event(c)', statements'[c])
  <2>1. CASE pc[c] = "execute" /\ statements'[c] = statements[c]
    BY <1>2, <2>1, HandsChange DEF BatchesSettle
  <2>2. CASE /\ Verdict(Event(c), tables) = "apply" /\ Event(c) \in Events
             /\ statements'[c] = Batch(Event(c), tables)
    BY <1>1, <1>2, <2>2, NewBatchSettles, HandsChange
  <2> QED BY <1>2, <2>1, <2>2, HandsChange
<1>3. ASSUME NEW b \in pending', ~Blank(b.batch), b.event \notin overtaken'
      PROVE  Touches(b.event, b.batch) /\ Settles(b.event, b.batch)
  <2>1. b.event \notin overtaken BY <1>3, OvertakenGrows
  <2>2. ASSUME NEW a \in pending, b.event = a.event, NEW n, b.batch = Without(a.batch, n),
               ~Touches(a.event, n)
        PROVE  Touches(b.event, b.batch) /\ Settles(b.event, b.batch)
    <3>1. ~Blank(a.batch) BY <1>3, <2>2, BlankChangesNothing
    <3>2. Touches(a.event, a.batch) /\ Settles(a.event, a.batch)
      BY <2>1, <2>2, <3>1 DEF BatchesSettle
    <3> QED BY <2>2, <3>2, LeftOverKeeps
  <2>3. ASSUME NEW a \in pending, b.event = a.event, b.batch = a.batch
        PROVE  Touches(b.event, b.batch) /\ Settles(b.event, b.batch)
    BY <1>3, <2>1, <2>3 DEF BatchesSettle
  <2>4. ASSUME NEW c \in Consumers, pc[c] = "execute", b.event = Event(c),
               b.batch = statements[c]
        PROVE  Touches(b.event, b.batch) /\ Settles(b.event, b.batch)
    BY <1>3, <2>4 DEF BatchesSettle
  <2>5. ASSUME NEW c \in Consumers, NEW a \in pending, pc[c] = "execute",
               b.event = a.event, b.batch = Without(a.batch, statements[c])
        PROVE  ~Touches(a.event, statements[c])
    <3>1. ~Blank(a.batch) BY <1>3, <2>5, BlankChangesNothing
    <3>2. Apart(a.event, Event(c)) \/ Blank(statements[c])
      BY <2>1, <2>5, <3>1 DEF InHandApart
    <3>3. a.event \in Events /\ Event(c) \in Events /\ Own(Event(c), statements[c])
      BY <2>5, InHand DEF Processing, RowTypes, BatchesOwned
    <3> QED BY <3>2, <3>3, ApartUntouched
  <2>6. ASSUME NEW late \in pending, NEW a \in pending, a # late, a.since <= late.since,
               b.event = a.event, b.batch = Without(a.batch, late.batch)
        PROVE  ~Touches(a.event, late.batch)
    <3>1. ~Blank(a.batch) BY <1>3, <2>6, BlankChangesNothing
    <3>2. late.since \in Nat /\ a.since \in Nat BY BoundsAssumption DEF RowTypes
    <3>3. late.since >= a.since BY <2>6, <3>2
    <3>4. Apart(a.event, late.event) \/ Blank(late.batch)
      BY <2>1, <2>6, <3>1, <3>3 DEF PendingApart
    <3>5. a.event \in Events /\ late.event \in Events /\ Own(late.event, late.batch)
      BY DEF RowTypes, BatchesOwned
    <3> QED BY <3>4, <3>5, ApartUntouched
  <2> QED BY <2>2, <2>3, <2>4, <2>5, <2>6, PendingChanges
<1> QED BY <1>2, <1>3, Zenon DEF BatchesSettle

\* What was applied before is kept by every batch there is.
LEMMA SettledIsKept ==
  ASSUME IInv, TablesInv, AppliedSettled, [Next]_vars,
         NEW e \in Applied(tables), e \notin overtaken
  PROVE  /\ Settles(e, tables')
         /\ \A c \in Consumers : pc'[c] = "execute" => Keeps(e, statements'[c])
         /\ \A b \in pending' : Keeps(e, b.batch)
<1> USE DEF TablesInv, IInv, Types
<1>1. tables \in Tables /\ e \in Events BY DEF RowTypes, Applied, Tables, HistoryRows
<1>2. /\ Settles(e, tables)
      /\ \A c \in Consumers : pc[c] = "execute" => Keeps(e, statements[c])
      /\ \A b \in pending : Keeps(e, b.batch)
  BY DEF AppliedSettled
<1>3. Settles(e, tables')
  <2>1. ASSUME NEW b, Keeps(e, b), tables' = Write(tables, b) PROVE Settles(e, tables')
    BY <1>1, <1>2, <2>1, WrittenSettles DEF Keeps
  <2> QED BY <1>2, <2>1, WhoWrites DEF Execute, Executed, LateBatch
<1>4. ASSUME NEW c \in Consumers, pc'[c] = "execute" PROVE Keeps(e, statements'[c])
  <2>1. CASE Blank(statements'[c]) BY <2>1 DEF Keeps, Touches, Blank
  <2>2. CASE /\ Verdict(Event(c), tables) = "apply" /\ Event(c) \in Events
             /\ statements'[c] = Batch(Event(c), tables)
    BY <1>1, <1>2, <2>2, NewBatchKeeps
  <2> QED BY <1>2, <1>4, <2>1, <2>2, HandsChange
<1>5. ASSUME NEW b \in pending' PROVE Keeps(e, b.batch)
  <2>1. ASSUME NEW a \in pending, NEW n, b.batch \in {a.batch, Without(a.batch, n)}
        PROVE  Keeps(e, b.batch)
    BY <1>2, <2>1, LeftOverKeeps
  <2>2. ASSUME NEW c \in Consumers, pc[c] = "execute", b.batch = statements[c]
        PROVE  Keeps(e, b.batch)
    BY <1>2, <2>2
  <2>3. b \in pending => Keeps(e, b.batch) BY <1>2
  <2> HIDE DEF TablesInv
  <2> QED BY <2>1, <2>2, <2>3, PendingChanges
<1> QED BY <1>3, <1>4, <1>5

\* What is applied now is kept from now on: what else is on its way is of other
\* rows, or loses those that matter, or the event was overtaken.
LEMMA AppliedNowSettled ==
  ASSUME UndisturbedNow, IInv, TablesInv, BatchesOwned, BatchesSettle, [Next]_vars,
         NEW e \in Applied(tables'), e \notin Applied(tables), e \notin overtaken
  PROVE  /\ Settles(e, tables')
         /\ \A c \in Consumers :
              pc'[c] = "execute" =>
                Keeps(e, statements'[c]) /\ (Event(c)' # e \/ Blank(statements'[c]))
         /\ \A b \in pending' : Keeps(e, b.batch)
<1> USE DEF TablesInv, IInv, Types
<1>1. tables \in Tables BY DEF RowTypes
<1>2. ASSUME NEW c \in Consumers, pc'[c] = "execute"
      PROVE  pc[c] = "execute" /\ statements'[c] = statements[c] /\ Event(c)' = Event(c)
  <2>1. tables' # tables OBVIOUS
  <2> QED BY <1>2, <2>1, HandsChange
<1>3. ASSUME NEW d \in Consumers, Execute(d)
      PROVE  /\ Settles(e, tables')
             /\ \A c \in Consumers :
                  pc'[c] = "execute" =>
                    Keeps(e, statements[c]) /\ (Event(c) # e \/ Blank(statements[c]))
             /\ \A b \in pending' : Keeps(e, b.batch)
  <2>1. /\ pc[d] = "execute" /\ pc'[d] = "commit" /\ tables' = Write(tables, statements[d])
        /\ pending' = Superseded(pending, statements[d])
    BY <1>3 DEF Execute, Executed, GoTo, LoopTypes
  <2>2. Own(Event(d), statements[d]) /\ Event(d) \in Events
    BY <2>1, InHand DEF BatchesOwned, Processing
  <2>3. e = Event(d) /\ ~Blank(statements[d]) BY <2>1, <2>2, AppliedGrows
  <2>4. Touches(e, statements[d]) /\ Settles(e, statements[d])
    BY <2>1, <2>3 DEF BatchesSettle
  <2>5. Settles(e, tables') BY <1>1, <2>1, <2>2, <2>3, <2>4, WrittenSettles
  <2>6. ASSUME NEW c \in Consumers, pc'[c] = "execute"
        PROVE  Keeps(e, statements[c]) /\ (Event(c) # e \/ Blank(statements[c]))
    <3>1. c # d /\ pc[c] = "execute" BY <1>2, <2>1, <2>6
    <3>2. Apart(e, Event(c)) BY <2>1, <2>3, <3>1, HandsAreApart DEF Processing
    <3>3. Event(c) \in Events /\ Own(Event(c), statements[c])
      BY <3>1, InHand DEF Processing, BatchesOwned
    <3>4. ~Touches(e, statements[c]) BY <2>2, <2>3, <3>2, <3>3, ApartUntouched
    <3> QED BY <3>2, <3>4 DEF Keeps, Apart
  <2>7. ASSUME NEW b \in pending' PROVE Keeps(e, b.batch)
    BY <2>1, <2>4, LeftOverKeeps DEF Superseded
  <2> QED BY <2>5, <2>6, <2>7
<1>4. ASSUME NEW late \in pending, LateBatch(late)
      PROVE  /\ Settles(e, tables')
             /\ \A c \in Consumers :
                  pc'[c] = "execute" =>
                    Keeps(e, statements[c]) /\ (Event(c) # e \/ Blank(statements[c]))
             /\ \A b \in pending' : Keeps(e, b.batch)
  <2>1. Own(late.event, late.batch) /\ late.event \in Events BY DEF BatchesOwned, RowTypes
  <2>2. tables' = Write(tables, late.batch) BY <1>4 DEF LateBatch
  <2>3. e = late.event /\ ~Blank(late.batch) BY <2>1, <2>2, AppliedGrows
  <2>4. Touches(e, late.batch) /\ Settles(e, late.batch) BY <2>3 DEF BatchesSettle
  <2>5. Settles(e, tables') BY <1>1, <2>1, <2>2, <2>3, <2>4, WrittenSettles
  <2>6. ASSUME NEW c \in Consumers, pc'[c] = "execute"
        PROVE  Keeps(e, statements[c]) /\ (Event(c) # e \/ Blank(statements[c]))
    <3>1. pc[c] = "execute" BY <1>2, <2>6
    <3>2. Apart(e, Event(c)) \/ Blank(statements[c]) BY <2>3, <3>1 DEF InHandApart
    <3>3. Event(c) \in Events /\ Own(Event(c), statements[c])
      BY <3>1, InHand DEF Processing, BatchesOwned
    <3>4. ~Touches(e, statements[c]) BY <2>1, <2>3, <3>2, <3>3, ApartUntouched
    <3> QED BY <3>2, <3>4 DEF Keeps, Apart
  <2>7. ASSUME NEW b \in pending' PROVE Keeps(e, b.batch)
    <3>1. CASE \E a : b.batch = Without(a, late.batch) BY <2>4, <3>1, LeftOverKeeps
    <3>2. CASE b \in pending /\ b.since > late.since
      <4>1. b.since \in Nat /\ late.since \in Nat BY <3>2, BoundsAssumption DEF RowTypes
      <4>2. b # late /\ b.since >= late.since BY <3>2, <4>1
      <4>3. Apart(e, b.event) \/ Blank(b.batch) BY <2>3, <3>2, <4>2 DEF PendingApart
      <4>4. b.event \in Events /\ Own(b.event, b.batch) BY <3>2 DEF RowTypes, BatchesOwned
      <4> QED BY <2>1, <2>3, <4>3, <4>4, ApartUntouched DEF Keeps
    <3> QED BY <1>4, <3>1, <3>2 DEF LateBatch, Superseded
  <2> QED BY <2>5, <2>6, <2>7
<1> QED BY <1>2, <1>3, <1>4, WhoWrites

\* The inductive invariant.
LEMMA StepKeepsOnce ==
  ASSUME UndisturbedNow, IInv, TablesInv, OnceInv, [Next]_vars
  PROVE  OnceInv'
<1> USE DEF OnceInv
<1>1. BatchesOwned' /\ BatchesSettle' BY StepKeepsBatchesOwned, StepKeepsSettling
<1>2. AppliedSettled'
  <2> SUFFICES ASSUME NEW e \in Applied(tables'), e \notin overtaken'
               PROVE  /\ Settles(e, tables')
                      /\ \A c \in Consumers : pc'[c] = "execute" => Keeps(e, statements'[c])
                      /\ \A b \in pending' : Keeps(e, b.batch)
    BY Zenon DEF AppliedSettled
  <2>1. e \notin overtaken BY OvertakenGrows
  <2> QED BY <2>1, SettledIsKept, AppliedNowSettled
<1>3. AppliedAtMostOnce'
  <2> SUFFICES ASSUME NEW c \in Consumers, pc'[c] = "execute", statements'[c].history # {},
                      NEW e, e = Event(c)', e \in Applied(tables'), e \notin overtaken'
               PROVE  FALSE
    BY DEF AppliedAtMostOnce
  <2>1. e \notin overtaken /\ ~Blank(statements'[c]) BY OvertakenGrows DEF Blank
  <2>2. e \in Applied(tables) BY <2>1, AppliedNowSettled
  <2>3. Event(c) = e BY HandsChange DEF TablesInv
  <2>4. CASE pc[c] = "execute" /\ statements'[c] = statements[c]
    BY <2>1, <2>2, <2>3, <2>4 DEF AppliedAtMostOnce
  <2>5. CASE Verdict(Event(c), tables) = "apply" /\ Event(c) \in Events
    <3>1. Settles(e, tables) BY <2>1, <2>2 DEF AppliedSettled
    <3>2. tables \in Tables BY DEF IInv, Types, RowTypes
    <3> QED BY <2>3, <2>5, <3>1, <3>2, Proved!SettledRefused, SettledAlike, SameAssumptions,
            SameHandlers, SameTables
  <2> QED BY <2>1, <2>4, <2>5, HandsChange DEF TablesInv
<1> QED BY <1>1, <1>2, <1>3

\* No event is applied a second time, not even one that is published again, or
\* delivered again after its id expired from processed_events: the timestamps
\* of the rows and the status of the order refuse it (README.md:160-171).  A
\* single consumer may meet every fault, several every one but the expulsion of
\* one of them.  A batch that timed out may arrive after later ones; it takes
\* no row from them, and an event keeps its row unless another batch was
\* computed before its own arrived.
THEOREM AppliedAtMostOnceHolds ==
  ASSUME Undisturbed
  PROVE  Spec => []AppliedAtMostOnce
<1>1. UndisturbedNow /\ IInv /\ TablesInv /\ OnceInv /\ [Next]_vars => OnceInv'
  BY StepKeepsOnce
<1>2. OnceInv => AppliedAtMostOnce BY DEF OnceInv
<1> QED BY <1>1, <1>2, InitOnce, Invariant, TablesInvariant, NobodyDisturbs, PTL DEF Spec

-----------------------------------------------------------------------------
(* Dead letters are not applied.                                           *)

\* The faults under which a message that was rejected is rejected again.
RejectionsRepeat == Faults \subseteq {"crash", "stop", "rebalance", "dlq"}

\* Envelopes are of messages of the log.
EnvelopesSent == \A m \in Envelopes : InLog(m)

\* As long as a message in the dead letter queue may be delivered again, its
\* verdict stands, and no message before it that is still to come is applied.
RejectionsStand ==
    \A p \in Partitions, i \in 1..MaxLog :
        <<p, i>> \in Envelopes /\ committed[p] < i =>
            /\ Verdict(log[p][i], tables) = "reject"
            /\ \A j \in committed[p] + 1 .. i - 1 : Verdict(log[p][j], tables) = "error"

\* What the owner of a partition has polled and not committed is the message in
\* hand and messages that raised an exception nothing handles.
FailuresStand ==
    \A p \in Partitions, c \in Consumers :
        owner[p] = c =>
            \/ pc[c] = "commit" /\ current[c][1] = p
            \/ \A j \in committed[p] + 1 .. position[p] :
                 \/ Processing(c) /\ current[c] = <<p, j>>
                 \/ Verdict(log[p][j], tables) = "error"

RejectingRightly == \A c \in Consumers : pc[c] = "reject" => Verdict(Event(c), tables) = "reject"

AheadOfCommit == \A c \in Consumers : Processing(c) => committed[current[c][1]] < current[c][2]

\* An event that was applied was applied for a message that is no dead letter,
\* and whoever has that message in hand skips it as a duplicate.
AppliedFor(e, n) ==
    /\ InLog(n) /\ log[n[1]][n[2]] = e /\ n \notin Envelopes
    /\ \A c \in Consumers : current[c] = n => pc[c] \in {"check", "commit"}

AppliedOnRecord ==
    \A e \in Applied(tables) :
        e.type # "UNREADABLE" /\ e.id \in processed /\ \E n : AppliedFor(e, n)

DeadInv ==
    /\ EnvelopesSent /\ RejectionsStand /\ FailuresStand /\ RejectingRightly
    /\ AheadOfCommit /\ AppliedOnRecord

\* All that the steps of this section are taken under.
Context ==
    /\ RejectionsRepeat /\ RowsFollowKeys
    /\ IInv /\ TablesInv /\ DeadInv
    /\ evicted = {} /\ pending = {} /\ overtaken = {}

\* At the start nothing was rejected and nothing applied.
LEMMA InitDead == Init => DeadInv
BY NoConsumerAssumption
   DEF Init, DeadInv, EnvelopesSent, RejectionsStand, FailuresStand, RejectingRightly,
       AheadOfCommit, AppliedOnRecord, Envelopes, Applied, EmptyTables, Processing

\* The offsets of messages and of partitions are numbers.
LEMMA Offsets ==
  ASSUME IInv, NEW p \in Partitions
  PROVE  /\ committed[p] \in Nat /\ position[p] \in Nat /\ Len(log[p]) \in Nat
         /\ committed[p] <= position[p] /\ position[p] <= Len(log[p]) /\ Len(log[p]) <= MaxLog
         /\ MaxLog \in Nat
BY BoundsAssumption DEF IInv, Types, OffsetTypes, LogTypes

\* A message in hand, its partition and its offset.
LEMMA HandOf ==
  ASSUME IInv, evicted = {}, NEW c \in Consumers, Processing(c)
  PROVE  /\ InLog(current[c]) /\ Event(c) \in Events
         /\ current[c] = <<current[c][1], current[c][2]>>
         /\ current[c][1] \in Partitions /\ current[c][2] \in 1..MaxLog
         /\ current[c][2] \in 1..Len(log[current[c][1]])
         /\ owner[current[c][1]] = c /\ position[current[c][1]] = current[c][2]
BY InHand DEF IInv, Types, InLog, Messages, MembersOwn

\* Two consumers have messages of different partitions in hand.
LEMMA HandsApart ==
  ASSUME IInv, evicted = {}, NEW c \in Consumers, NEW d \in Consumers,
         Processing(c), Processing(d), current[c][1] = current[d][1]
  PROVE  c = d
BY HandOf

\* Only the execution of a batch changes the verdict on a message, and only on
\* messages of the same partition.
LEMMA VerdictStands ==
  ASSUME Context, [Next]_vars, NEW p \in Partitions, NEW i \in 1..Len(log[p])
  PROVE  \/ Verdict(log'[p][i], tables') = Verdict(log[p][i], tables)
         \/ \E d \in Consumers :
              /\ pc[d] = "execute" /\ pc'[d] = "commit" /\ current[d][1] = p
              /\ Verdict(Event(d), tables) = "apply" /\ current'[d] = current[d]
<1> USE DEF Context
<1>1. log[p][i] \in Events /\ Route[Key(log[p][i])] = p
  BY DEF TablesInv, LogRouted, IInv, Types, LogTypes
<1>2. log'[p][i] = log[p][i]
  <2>1. InLog(<<p, i>>) BY Offsets DEF InLog, Messages
  <2> QED BY <2>1, LogGrows DEF IInv, Types
<1>3. CASE tables' = tables BY <1>2, <1>3
<1>4. ASSUME NEW d \in Consumers, pc[d] = "execute", pc'[d] # "execute",
             Verdict(Event(d), tables) = "apply",
             tables' = Write(tables, Batch(Event(d), tables)), tables' # tables
      PROVE  \/ Verdict(log'[p][i], tables') = Verdict(log[p][i], tables)
             \/ /\ pc[d] = "execute" /\ pc'[d] = "commit" /\ current[d][1] = p
                /\ Verdict(Event(d), tables) = "apply" /\ current'[d] = current[d]
  <2>1. Processing(d) BY <1>4 DEF Processing
  <2>2. CASE current[d][1] = p
    <3>1. \E c \in Consumers : Execute(c)
      BY <1>4 DEF RejectionsRepeat, Next, Produce, Rebalance, SpuriousRebalance, Assign, Start, Crash,
         Stop, Evict, Rejoin, Flush, FlushTimeout, Poll, Check, RegistryUnreachable, Compute,
         DriverException, Reject, RejectFails, Commit, CommitFenced, CommitFails,
         DeliverEnvelope, DropEnvelope, LateBatch, Expire, Fault, vars, cassandra
    <3>2. PICK c \in Consumers : Execute(c) BY <3>1
    <3>3. c = d BY <1>4, <3>2 DEF Execute, GoTo, IInv, Types, LoopTypes
    <3> QED BY <1>4, <2>2, <3>2, <3>3 DEF Execute, GoTo, IInv, Types, LoopTypes
  <2>3. CASE current[d][1] # p
    <3>1. Event(d) \in Events /\ Route[Key(Event(d))] = current[d][1]
      BY <2>1, HandOf DEF TablesInv, LogRouted, Event
    <3>2. Apart(log[p][i], Event(d)) BY <1>1, <2>3, <3>1 DEF Apart
    <3>3. SameRows(log[p][i], tables, tables')
      BY <1>1, <1>4, <3>1, <3>2, PartitionsApart DEF TablesInv, ItemsOwned
    <3>4. tables \in Tables /\ OwnItems(tables) /\ tables' \in Tables
      BY RowsKept DEF RowTypes, TablesInv, ItemsOwned, IInv, Types
    <3> QED BY <1>1, <1>2, <3>3, <3>4, SameReading
  <2> QED BY <2>2, <2>3
<1> QED BY <1>3, <1>4, TablesChange

\* When a consumer applies an event, no dead letter of its partition is left to
\* be delivered again.
LEMMA AppliesPastRejections ==
  ASSUME Context, NEW d \in Consumers, pc[d] = "execute", Verdict(Event(d), tables) = "apply",
         NEW i \in 1..MaxLog, <<current[d][1], i>> \in Envelopes
  PROVE  ~(committed[current[d][1]] < i)
<1> USE DEF Context, DeadInv
<1> SUFFICES ASSUME committed[current[d][1]] < i PROVE FALSE
  OBVIOUS
<1>1. PICK p \in Partitions, k \in 1..MaxLog :
        current[d] = <<p, k>> /\ owner[p] = d /\ position[p] = k
  BY HandOf DEF Processing
<1>2. /\ Verdict(log[p][i], tables) = "reject"
      /\ \A j \in committed[p] + 1 .. i - 1 : Verdict(log[p][j], tables) = "error"
  BY <1>1 DEF RejectionsStand
<1>3. Verdict(log[p][k], tables) = "apply" BY <1>1 DEF Event
<1>4. committed[p] < k /\ committed[p] < i BY <1>1 DEF AheadOfCommit, Processing
<1>5. \A j \in committed[p] + 1 .. k : <<p, k>> = <<p, j>> \/ Verdict(log[p][j], tables) = "error"
  BY <1>1 DEF FailuresStand
<1>6. CASE i < k
  <2>1. i \in committed[p] + 1 .. k BY <1>1, <1>4, <1>6, Offsets
  <2> QED BY <1>2, <1>5, <1>6, <2>1
<1>7. CASE i = k BY <1>2, <1>3, <1>7
<1>8. CASE i > k
  <2>1. k \in committed[p] + 1 .. i - 1 BY <1>1, <1>4, <1>8, Offsets
  <2> QED BY <1>2, <1>3, <2>1
<1> QED BY <1>6, <1>7, <1>8, Offsets

\* How _process ends without the process: with the commit, or with an exception
\* that nothing handles.
LEMMA EndsKnown ==
  ASSUME Context, [Next]_vars, NEW c \in Consumers, Ends(c)
  PROVE  \/ pc[c] = "commit" /\ Commit(c)
         \/ pc[c] = "compute" /\ Verdict(Event(c), tables) = "error" /\ UNCHANGED <<committed, tables, log>>
<1>1. \/ \E d \in Consumers : Commit(d)
      \/ \E d \in Consumers : /\ Compute(d) /\ BackToPoll(d)
                              /\ Verdict(Event(d), tables) = "error"
  BY DEF Context, RejectionsRepeat, Next, Produce, Rebalance, SpuriousRebalance, Assign, Start, Crash,
     Stop, Evict, Rejoin, Flush, FlushTimeout, Poll, Check, RegistryUnreachable, Compute, Execute,
     DriverException, Reject, RejectFails, Commit, CommitFenced, CommitFails, DeliverEnvelope,
     DropEnvelope, LateBatch, Expire, Fault, GoTo, BackToPoll, vars, loop, Ends, Processing, IInv, Types,
     LoopTypes
<1>2. ASSUME NEW d \in Consumers, Commit(d) PROVE pc[c] = "commit" /\ Commit(c)
  BY <1>2 DEF Commit, BackToPoll, Ends, Processing, Context, IInv, Types, LoopTypes
<1>3. ASSUME NEW d \in Consumers, Compute(d), BackToPoll(d), Verdict(Event(d), tables) = "error"
      PROVE  /\ pc[c] = "compute" /\ Verdict(Event(c), tables) = "error"
             /\ UNCHANGED <<committed, tables, log>>
  <2>1. d = c BY <1>3 DEF BackToPoll, Ends, Processing, Context, IInv, Types, LoopTypes
  <2> QED BY <1>3, <2>1 DEF Compute, kafka, cassandra
<1> QED BY <1>1, <1>2, <1>3

\* Envelopes are of messages that were in hand.
LEMMA StepKeepsSent ==
  ASSUME Context, [Next]_vars
  PROVE  EnvelopesSent'
<1> USE DEF Context, DeadInv, IInv, Types
<1>1. \A m : InLog(m) => InLog(m)' BY LogGrows
<1>2. CASE EnvelopesMove BY <1>1, <1>2 DEF EnvelopesMove, EnvelopesSent
<1>3. ASSUME NEW c \in Consumers, HandsOver(c) PROVE EnvelopesSent'
  <2>1. InLog(current[c]) BY <1>3, InHand DEF HandsOver, Processing
  <2>2. Envelopes' \subseteq Envelopes \cup {current[c]}
    BY <1>3 DEF HandsOver, Envelopes, EnvelopeTypes
  <2> QED BY <1>1, <2>1, <2>2 DEF EnvelopesSent
<1> QED BY <1>2, <1>3, EnvelopesChange

\* A rejected message stays rejected until its offset is committed.
LEMMA StepKeepsRejections ==
  ASSUME Context, [Next]_vars
  PROVE  RejectionsStand'
<1> USE DEF Context, DeadInv
<1> SUFFICES ASSUME NEW p \in Partitions, NEW i \in 1..MaxLog,
                    <<p, i>> \in Envelopes', committed'[p] < i
             PROVE  /\ Verdict(log'[p][i], tables') = "reject"
                    /\ \A j \in committed'[p] + 1 .. i - 1 : Verdict(log'[p][j], tables') = "error"
  BY DEF RejectionsStand
<1>1. /\ committed[p] \in Nat /\ committed'[p] \in Nat /\ committed[p] <= committed'[p]
      /\ Len(log[p]) \in Nat
  BY Offsets, OffsetsKept DEF IInv, Types, OffsetTypes
<1>2. ASSUME i <= Len(log[p]),
             Verdict(log[p][i], tables) = "reject",
             \A j \in committed[p] + 1 .. i - 1 : Verdict(log[p][j], tables) = "error",
             \A d \in Consumers : ~(/\ pc[d] = "execute" /\ current[d][1] = p
                                    /\ Verdict(Event(d), tables) = "apply")
      PROVE  /\ Verdict(log'[p][i], tables') = "reject"
             /\ \A j \in committed'[p] + 1 .. i - 1 : Verdict(log'[p][j], tables') = "error"
  <2>1. \A j \in 1..i : Verdict(log'[p][j], tables') = Verdict(log[p][j], tables)
    BY <1>1, <1>2, VerdictStands
  <2>2. \A j \in committed'[p] + 1 .. i - 1 : j \in 1..i /\ j \in committed[p] + 1 .. i - 1
    BY <1>1
  <2> QED BY <1>2, <2>1, <2>2
<1>3. CASE <<p, i>> \in Envelopes
  <2>1. i <= Len(log[p]) BY <1>3 DEF EnvelopesSent, InLog
  <2>2. committed[p] < i BY <1>1
  <2>3. \A d \in Consumers : ~(/\ pc[d] = "execute" /\ current[d][1] = p
                               /\ Verdict(Event(d), tables) = "apply")
    BY <1>3, <2>2, AppliesPastRejections
  <2> QED BY <1>2, <1>3, <2>1, <2>2, <2>3 DEF RejectionsStand
<1>4. ASSUME NEW c \in Consumers, HandsOver(c), <<p, i>> \notin Envelopes
      PROVE  /\ Verdict(log'[p][i], tables') = "reject"
             /\ \A j \in committed'[p] + 1 .. i - 1 : Verdict(log'[p][j], tables') = "error"
  <2>1. Processing(c) /\ pc[c] = "reject" BY <1>4 DEF HandsOver, Processing
  <2>2. current[c] = <<p, i>> BY <1>4 DEF HandsOver, Envelopes, IInv, Types, EnvelopeTypes
  <2>3. i <= Len(log[p]) /\ owner[p] = c /\ position[p] = i
    BY <2>1, <2>2, HandOf
  <2>4. Verdict(log[p][i], tables) = "reject" BY <2>1, <2>2 DEF RejectingRightly, Event
  <2>5. \A j \in committed[p] + 1 .. i - 1 : Verdict(log[p][j], tables) = "error"
    <3>1. \A j \in committed[p] + 1 .. i : <<p, i>> = <<p, j>> \/ Verdict(log[p][j], tables) = "error"
      BY <2>1, <2>2, <2>3 DEF FailuresStand
    <3> QED BY <1>1, <3>1
  <2>6. \A d \in Consumers : ~(/\ pc[d] = "execute" /\ current[d][1] = p
                               /\ Verdict(Event(d), tables) = "apply")
    BY <2>1, <2>2, HandsApart DEF Processing
  <2> QED BY <1>2, <2>3, <2>4, <2>5, <2>6
<1> QED BY <1>3, <1>4, EnvelopesChange DEF EnvelopesMove, IInv, Types

\* What its owner has polled from a partition is committed before anything of
\* it changes a row that an earlier message of it is about.
LEMMA StepKeepsFailures ==
  ASSUME Context, [Next]_vars
  PROVE  FailuresStand'
<1> USE DEF Context, DeadInv
<1> SUFFICES ASSUME NEW p \in Partitions, NEW c \in Consumers, owner'[p] = c,
                    ~(pc'[c] = "commit" /\ current'[c][1] = p),
                    NEW j \in committed'[p] + 1 .. position'[p]
             PROVE  \/ Processing(c)' /\ current'[c] = <<p, j>>
                    \/ Verdict(log'[p][j], tables') = "error"
  BY DEF FailuresStand
<1>1. /\ committed[p] \in Nat /\ committed'[p] \in Nat /\ committed[p] <= committed'[p]
      /\ position[p] \in Nat /\ position[p] <= Len(log[p]) /\ Len(log[p]) \in Nat
  BY Offsets, OffsetsKept DEF IInv, Types, OffsetTypes
<1>2. ~Assign BY <1>1 DEF Assign
<1>3. owner[p] = c
  <2>1. \A d \in Consumers : Leave(d) => owner'[p] \in {owner[p], NoConsumer} BY DEF Leave
  <2> QED BY <1>2, <2>1, NoConsumerAssumption, StepKinds DEF Crash, Stop, Evict, Rejoin, Poll, IInv, Types
<1>4. CASE j > position[p]
  <2>1. PICK d \in Consumers, q \in Partitions : Poll(d, q)
    <3>1. position'[p] # position[p] BY <1>1, <1>4
    <3> QED BY <1>2, <3>1, StepKinds DEF Crash, Stop, Evict, Rejoin, IInv, Types
  <2>2. q = p BY <1>1, <1>4, <2>1, PollTakes DEF IInv, Types
  <2>3. d = c BY <1>3, <2>1, <2>2 DEF Poll
  <2>4. /\ current'[c] = <<p, position[p] + 1>> /\ pc'[c] = "check"
        /\ position'[p] = position[p] + 1
    BY <2>1, <2>2, <2>3, PollTakes DEF IInv, Types
  <2>5. j = position[p] + 1 BY <1>1, <1>4, <2>4
  <2> QED BY <2>4, <2>5 DEF Processing
<1>5. CASE j <= position[p]
  <2>1. j \in committed[p] + 1 .. position[p] /\ j \in 1..Len(log[p]) BY <1>1, <1>5
  <2>2. CASE pc[c] = "commit" /\ current[c][1] = p
    <3>1. Processing(c) BY <2>2 DEF Processing
    <3>2. \/ pc'[c] = "commit" /\ current'[c] = current[c]
          \/ Ends(c)
          \/ Crash(c)
      <4> SUFFICES ASSUME ~Ends(c), ~Crash(c)
                   PROVE  pc'[c] = "commit" /\ current'[c] = current[c]
        OBVIOUS
      <4>1. ~BackToPoll(c) BY <3>1 DEF BackToPoll, Ends, IInv, Types, LoopTypes, BatchTypes
      <4> QED BY <2>2, <4>1
           DEF RejectionsRepeat, Next, Produce, Rebalance, SpuriousRebalance, Assign, Start, Crash,
           Stop, Evict, Rejoin, Flush, FlushTimeout, Poll, Check, RegistryUnreachable, Compute,
           Execute, DriverException, Reject, RejectFails, Commit, CommitFenced, CommitFails,
           DeliverEnvelope, DropEnvelope, LateBatch, Expire, Fault, GoTo, BackToPoll, vars, loop, IInv,
           Types, LoopTypes
    <3>3. ~Crash(c) BY <1>3, NoConsumerAssumption DEF Crash, Leave
    <3>4. CASE Ends(c)
      <4>1. Commit(c) BY <2>2, <3>4, EndsKnown
      <4>2. committed'[p] = current[c][2] /\ position' = position
        BY <2>2, <4>1 DEF Commit, IInv, Types, OffsetTypes
      <4>3. current[c][2] = position[p] BY <2>2, <3>1, HandOf
      <4> QED BY <1>1, <4>2, <4>3
    <3> QED BY <2>2, <3>2, <3>3, <3>4
  <2>3. CASE ~(pc[c] = "commit" /\ current[c][1] = p)
    <3>1. Verdict(log'[p][j], tables') = Verdict(log[p][j], tables)
      <4>1. SUFFICES ASSUME NEW d \in Consumers, pc[d] = "execute", pc'[d] = "commit",
                            current[d][1] = p, current'[d] = current[d]
                     PROVE  FALSE
        BY <2>1, VerdictStands
      <4>2. d = c BY <1>3, <4>1, HandOf DEF Processing
      <4> QED BY <4>1, <4>2
    <3>2. CASE Verdict(log[p][j], tables) = "error" BY <3>1, <3>2
    <3>3. CASE Processing(c) /\ current[c] = <<p, j>>
      <4>1. \/ current'[c] = current[c] /\ Processing(c)'
            \/ Ends(c)
            \/ Crash(c)
        BY <3>3, <1>2, StepKinds DEF Crash, Stop, Evict, Rejoin, Poll, GoTo, Moves, OthersKeep,
           Idles, Advances, loop, IInv, Types, LoopTypes, Processing
      <4>2. ~Crash(c) BY <1>3, NoConsumerAssumption DEF Crash, Leave
      <4>3. CASE Ends(c)
        <5>1. pc[c] # "commit" BY <2>3, <3>3
        <5>2. Verdict(Event(c), tables) = "error" BY <4>3, <5>1, EndsKnown
        <5> QED BY <3>1, <3>3, <5>2 DEF Event
      <4> QED BY <3>3, <4>1, <4>2, <4>3
    <3> QED BY <1>3, <2>1, <2>3, <3>2, <3>3 DEF FailuresStand
  <2> QED BY <2>2, <2>3
<1> QED BY <1>1, <1>4, <1>5

\* A consumer that is about to reject a message would reject it again.
LEMMA StepKeepsRejecting ==
  ASSUME Context, [Next]_vars
  PROVE  RejectingRightly'
<1> USE DEF Context, DeadInv, IInv, Types
<1> SUFFICES ASSUME NEW c \in Consumers, pc'[c] = "reject"
             PROVE  Verdict(Event(c)', tables') = "reject"
  BY DEF RejectingRightly
<1>1. \/ pc[c] = "reject" /\ current'[c] = current[c]
      \/ \E d \in Consumers : Check(d) \/ Compute(d)
  BY DEF RejectionsRepeat, Next, Produce, Rebalance, SpuriousRebalance, Assign, Start, Crash, Stop,
     Evict, Rejoin, Flush, FlushTimeout, Poll, RegistryUnreachable, Execute, DriverException,
     Reject, RejectFails, Commit, CommitFenced, CommitFails, DeliverEnvelope, DropEnvelope, LateBatch,
     Expire, Fault, GoTo, BackToPoll, vars, loop, LoopTypes
<1>2. CASE pc[c] = "reject" /\ current'[c] = current[c]
  <2>1. PICK p \in Partitions, i \in 1..MaxLog : current[c] = <<p, i>> /\ i \in 1..Len(log[p])
    BY <1>2, HandOf DEF Processing
  <2>2. Verdict(log[p][i], tables) = "reject" BY <1>2, <2>1 DEF RejectingRightly, Event
  <2>3. Verdict(log'[p][i], tables') = Verdict(log[p][i], tables)
    <3>1. SUFFICES ASSUME NEW d \in Consumers, pc[d] = "execute", current[d][1] = p PROVE FALSE
      BY <2>1, VerdictStands
    <3>2. d = c BY <1>2, <2>1, <3>1, HandsApart DEF Processing
    <3> QED BY <1>2, <3>1, <3>2
  <2> QED BY <1>2, <2>1, <2>2, <2>3 DEF Event
<1>3. ASSUME NEW d \in Consumers, Check(d) \/ Compute(d), pc[c] # "reject"
      PROVE  Verdict(Event(c)', tables') = "reject"
  <2>1. d = c BY <1>3 DEF Check, Compute, GoTo, BackToPoll, LoopTypes
  <2>2. UNCHANGED <<log, current, tables>>
    BY <1>3, <2>1 DEF Check, Compute, GoTo, BackToPoll, kafka, cassandra, LoopTypes
  <2>3. Verdict(Event(c), tables) = "reject"
    <3>1. CASE Check(c)
      <4>1. Event(c).type = "UNREADABLE" BY <3>1 DEF Check, GoTo, LoopTypes
      <4> QED BY <4>1 DEF Verdict, Malformed
    <3>2. CASE Compute(c) BY <3>2 DEF Compute, GoTo, BackToPoll, LoopTypes
    <3> QED BY <1>3, <2>1, <3>1, <3>2
  <2> QED BY <2>2, <2>3 DEF Event
<1>4. CASE pc[c] = "reject" /\ current'[c] # current[c]
  BY <1>1, <1>4 DEF Check, Compute, GoTo, BackToPoll, LoopTypes
<1> QED BY <1>1, <1>2, <1>3, <1>4

\* The offset of a message in hand is not committed yet.
LEMMA StepKeepsAhead ==
  ASSUME Context, [Next]_vars
  PROVE  AheadOfCommit'
<1> USE DEF Context, DeadInv, IInv, Types
<1> SUFFICES ASSUME NEW c \in Consumers, Processing(c)'
             PROVE  committed'[current'[c][1]] < current'[c][2]
  BY DEF AheadOfCommit
<1>1. CASE Processing(c) /\ current'[c] = current[c]
  <2>1. PICK p \in Partitions, i \in 1..MaxLog : current[c] = <<p, i>> /\ committed[p] < i
    BY <1>1, HandOf DEF AheadOfCommit
  <2>2. committed'[p] = committed[p]
    <3>1. ASSUME NEW d \in Consumers, Commit(d) PROVE committed'[p] = committed[p]
      <4>1. c # d BY <1>1, <3>1 DEF Commit, BackToPoll, LoopTypes, InLog, Messages, Processing
      <4>2. current[d][1] # p BY <1>1, <2>1, <3>1, <4>1, HandsApart DEF Commit, Processing
      <4> QED BY <3>1, <4>2 DEF Commit, OffsetTypes
    <3> QED BY <3>1, OffsetsChange DEF Assign, Poll
  <2> QED BY <1>1, <2>1, <2>2
<1>2. ASSUME NEW p \in Partitions, Poll(c, p)
      PROVE  committed'[current'[c][1]] < current'[c][2]
  <2>1. current'[c] = <<p, position[p] + 1>> /\ committed' = committed
    BY <1>2, PollTakes DEF Poll
  <2> QED BY <2>1, Offsets
<1>3. \/ Processing(c) /\ current'[c] = current[c]
      \/ \E p \in Partitions : Poll(c, p)
  BY StepKinds DEF Assign, Crash, Stop, Evict, Rejoin, Poll, GoTo, Moves, OthersKeep, Idles, Ends,
     Advances, loop, LoopTypes, Processing
<1> QED BY <1>1, <1>2, <1>3

\* Without expiry an id that was recorded stays recorded.
LEMMA RecordStays ==
  ASSUME Context, [Next]_vars
  PROVE  processed \subseteq processed'
<1>1. ASSUME NEW id \in processed, Expire(id) PROVE FALSE
  BY <1>1 DEF Expire, Fault, Context, RejectionsRepeat
<1> QED BY <1>1, CassandraChanges DEF Context, cassandra, Executed, Overtakes, TimesOut

\* What an event was applied for keeps being that.
LEMMA ApplicationStands ==
  ASSUME Context, [Next]_vars, NEW e, NEW n, AppliedFor(e, n), e.type # "UNREADABLE",
         e.id \in processed
  PROVE  AppliedFor(e, n)'
<1> USE DEF Context, IInv, Types
<1>1. InLog(n)' /\ log'[n[1]][n[2]] = e BY LogGrows DEF AppliedFor
<1>2. n \notin Envelopes'
  <2>1. ASSUME NEW c \in Consumers, HandsOver(c) PROVE n \notin Envelopes'
    <3>1. Envelopes' \subseteq Envelopes \cup {current[c]}
      BY <2>1 DEF HandsOver, Envelopes, EnvelopeTypes
    <3>2. n # current[c] BY <2>1 DEF HandsOver, AppliedFor
    <3> QED BY <3>1, <3>2 DEF AppliedFor
  <2> QED BY <2>1, EnvelopesChange DEF EnvelopesMove, AppliedFor
<1>3. ASSUME NEW c \in Consumers, current'[c] = n PROVE pc'[c] \in {"check", "commit"}
  <2>1. n # <<>> BY DEF AppliedFor, InLog, Messages
  <2>2. \/ current[c] = n
        \/ \E p \in Partitions : Poll(c, p)
    BY <1>3, <2>1, StepKinds
       DEF Assign, Crash, Stop, Evict, Rejoin, Poll, GoTo, Moves, OthersKeep, Idles, Ends,
           Advances, loop, LoopTypes
  <2>3. CASE \E p \in Partitions : Poll(c, p) BY <2>3 DEF Poll, LoopTypes
  <2>4. CASE current[c] = n /\ pc[c] = "check"
    <3>1. Event(c) = e BY <2>4 DEF Event, AppliedFor
    <3>2. pc'[c] = "check" \/ Check(c) \/ pc'[c] = "down" \/ pc'[c] = "poll"
      BY <2>4
         DEF RejectionsRepeat, Next, Produce, Rebalance, SpuriousRebalance, Assign, Start, Crash,
         Stop, Evict, Rejoin, Flush, FlushTimeout, Poll, Check, RegistryUnreachable, Compute,
         Execute, DriverException, Reject, RejectFails, Commit, CommitFenced, CommitFails,
         DeliverEnvelope, DropEnvelope, LateBatch, Expire, Fault, GoTo, BackToPoll, vars, loop, LoopTypes
    <3>3. pc'[c] \notin {"down", "poll"}
      <4>1. LoopTypes' BY LoopKept
      <4> QED BY <1>3, <2>1, <4>1 DEF LoopTypes, Idle
    <3> QED BY <3>1, <3>2, <3>3 DEF Check, GoTo, LoopTypes
  <2>5. CASE current[c] = n /\ pc[c] = "commit"
    BY <1>3, <2>1, <2>5
       DEF RejectionsRepeat, Next, Produce, Rebalance, SpuriousRebalance, Assign, Start, Crash,
       Stop, Evict, Rejoin, Flush, FlushTimeout, Poll, Check, RegistryUnreachable, Compute,
       Execute, DriverException, Reject, RejectFails, Commit, CommitFenced, CommitFails,
       DeliverEnvelope, DropEnvelope, LateBatch, Expire, Fault, GoTo, BackToPoll, vars, loop, LoopTypes
  <2> QED BY <2>2, <2>3, <2>4, <2>5 DEF AppliedFor
<1> QED BY <1>1, <1>2, <1>3 DEF AppliedFor

\* A message whose event is applied now is no dead letter.
LEMMA AppliedForNow ==
  ASSUME Context, [Next]_vars, NEW d \in Consumers, Execute(d),
         Verdict(Event(d), tables) = "apply", NEW e, e = Event(d), NEW n, n = current[d]
  PROVE  /\ AppliedFor(e, n)'
         /\ e.type # "UNREADABLE" /\ e.id \in processed'
<1> USE DEF Context, DeadInv
<1>1. pc[d] = "execute" /\ Processing(d) BY DEF Execute, Processing
<1>2. PICK p \in Partitions, i \in 1..MaxLog :
        n = <<p, i>> /\ current[d][1] = p /\ current[d][2] = i
  BY <1>1, HandOf
<1>3. InLog(n)' /\ log'[n[1]][n[2]] = e
  BY <1>1, HandOf, LogGrows DEF Event, IInv, Types
<1>4. n \notin Envelopes'
  <2>1. ~(committed[p] < i) \/ n \notin Envelopes BY <1>1, <1>2, AppliesPastRejections
  <2>2. committed[p] < i BY <1>1, <1>2 DEF AheadOfCommit
  <2>3. Envelopes' = Envelopes BY DEF Execute, dead, Envelopes
  <2> QED BY <2>1, <2>2, <2>3
<1>5. ASSUME NEW c \in Consumers, current'[c] = n PROVE pc'[c] \in {"check", "commit"}
  <2>1. current[c] = n BY <1>5 DEF Execute, GoTo
  <2>2. Processing(c)
    BY <1>2, <2>1 DEF IInv, Types, LoopTypes, Idle, Processing, Labels
  <2>3. c = d BY <1>1, <2>1, <2>2, HandsApart
  <2> QED BY <2>3 DEF Execute, GoTo, IInv, Types, LoopTypes
<1>6. e.type # "UNREADABLE" BY DEF Verdict, Malformed
<1>7. e.id \in processed' BY DEF Execute, Executed
<1> QED BY <1>3, <1>4, <1>5, <1>6, <1>7 DEF AppliedFor

\* Every applied event has a message that it was applied for.
LEMMA StepKeepsRecord ==
  ASSUME Context, [Next]_vars
  PROVE  AppliedOnRecord'
<1> USE DEF Context, DeadInv
<1> SUFFICES ASSUME NEW e \in Applied(tables')
             PROVE  /\ e.type # "UNREADABLE" /\ e.id \in processed'
                    /\ \E n : AppliedFor(e, n)'
  BY DEF AppliedOnRecord
<1>1. CASE e \in Applied(tables)
  <2>1. e.type # "UNREADABLE" /\ e.id \in processed BY <1>1 DEF AppliedOnRecord
  <2>2. PICK n : AppliedFor(e, n) BY <1>1 DEF AppliedOnRecord
  <2>3. AppliedFor(e, n)' BY <2>1, <2>2, ApplicationStands
  <2>4. e.id \in processed' BY <2>1, RecordStays
  <2> QED BY <2>1, <2>3, <2>4
<1>2. ASSUME NEW d \in Consumers, pc[d] = "execute", pc'[d] # "execute",
             Verdict(Event(d), tables) = "apply",
             tables' = Write(tables, Batch(Event(d), tables)), tables' # tables,
             e \notin Applied(tables)
      PROVE  /\ e.type # "UNREADABLE" /\ e.id \in processed'
             /\ \E n : AppliedFor(e, n)'
  <2>1. Execute(d)
    <3>1. \E c \in Consumers : Execute(c)
      BY <1>2 DEF RejectionsRepeat, Next, Produce, Rebalance, SpuriousRebalance, Assign, Start, Crash,
         Stop, Evict, Rejoin, Flush, FlushTimeout, Poll, Check, RegistryUnreachable, Compute,
         DriverException, Reject, RejectFails, Commit, CommitFenced, CommitFails,
         DeliverEnvelope, DropEnvelope, LateBatch, Expire, Fault, vars, cassandra
    <3> QED BY <1>2, <3>1 DEF Execute, GoTo, IInv, Types, LoopTypes
  <2>2. e = Event(d)
    <3>1. Event(d) \in Events /\ tables \in Tables
      BY <1>2, HandOf DEF Processing, IInv, Types, RowTypes
    <3>2. /\ tables'.history \subseteq tables.history \cup Proved!HistoryOf(Event(d), tables)
          /\ \A h \in Proved!HistoryOf(Event(d), tables) : h.event = Event(d)
      BY <1>2, <3>1, Proved!HistoryWritten, SameAssumptions, SameHandlers, SameTables
    <3> QED BY <1>2, <3>2 DEF Applied
  <2>3. PICK n : n = current[d] OBVIOUS
  <2> QED BY <1>2, <2>1, <2>2, <2>3, AppliedForNow
<1> QED BY <1>1, <1>2, TablesChange

\* The inductive invariant.
LEMMA StepKeepsDead ==
  ASSUME Context, [Next]_vars
  PROVE  DeadInv'
BY StepKeepsSent, StepKeepsRejections, StepKeepsFailures, StepKeepsRejecting, StepKeepsAhead,
   StepKeepsRecord DEF DeadInv

\* What is in the dead letter queue was not applied and never will be, however
\* often processes die, stop and hand their partitions over: what was rejected
\* is rejected again when it is delivered again (dlq.py:3-5).  Each of the other
\* faults gives a message a second verdict after a later one was applied: a
\* registry that answers again, an offset that is skipped after a failed
\* commit, a failed statement or a full queue and not committed before a crash,
\* an id that expired, a consumer that was expelled with the message in hand.
THEOREM DeadLettersNotAppliedHolds ==
  ASSUME RejectionsRepeat, RowsFollowKeys
  PROVE  Spec => []DeadLettersNotApplied
<1>1. "evict" \notin Faults /\ "cassandra" \notin Faults /\ Undisturbed
  BY DEF RejectionsRepeat, Undisturbed
<1>2. IInv /\ TablesInv /\ DeadInv /\ evicted = {} /\ pending = {} /\ overtaken = {} /\ [Next]_vars
        => DeadInv'
  BY StepKeepsDead DEF Context
<1>3. DeadInv => DeadLettersNotApplied
  <2> SUFFICES ASSUME DeadInv, NEW m \in Envelopes, NEW e, e = log[m[1]][m[2]],
                      e \in Applied(tables)
               PROVE  \E n \in Messages \ {m} : n[2] <= Len(log[n[1]]) /\ log[n[1]][n[2]] = e
    BY DEF DeadLettersNotApplied
  <2>1. PICK n : AppliedFor(e, n) BY DEF DeadInv, AppliedOnRecord
  <2> QED BY <2>1 DEF AppliedFor, InLog
<1> QED BY <1>1, <1>2, <1>3, InitDead, Invariant, NobodyExpelled, NothingOvertaken,
        TablesInvariant, PTL DEF Spec
=============================================================================
