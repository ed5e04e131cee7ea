--------------------------- MODULE InventoryProofs ---------------------------
(***************************************************************************)
(* Theorems of Inventory: what the handlers guarantee for every set of     *)
(* products, zones, orders and events, whatever the order of the events    *)
(* and however often each is presented.                                    *)
(*                                                                         *)
(* The lemmas say what one applied event does to each table; the theorems  *)
(* put them together, one invariant at a time.                             *)
(***************************************************************************)
EXTENDS Inventory, SumLemmas, SequenceTheorems, TLAPS

-----------------------------------------------------------------------------
(* Events and legs.                                                        *)

\* An event is of the kind its type says.
LEMMA EventKinds ==
    ASSUME NEW e \in Events
    PROVE  /\ e.ts \in Nat /\ e.ts > 0
           /\ e.type \in StockTypes => e \in StockEvents
           /\ e.type = "PRODUCT_MOVED" => e \in MoveEvents
           /\ e.type = "INVENTORY_COUNTED" => e \in CountEvents
           /\ e.type = "ORDER_CREATED" => e \in OrderCreatedEvents
           /\ e.type = "ORDER_COMPLETED" => e \in OrderCompletedEvents
<1>1. e \in AllEvents
    BY EventsAssumption
<1>2. CASE e \in StockEvents
    BY <1>2 DEF StockEvents, StockTypes, Timestamps
<1>3. CASE e \in MoveEvents
    BY <1>3 DEF MoveEvents, StockTypes, Timestamps
<1>4. CASE e \in CountEvents
    BY <1>4 DEF CountEvents, StockTypes, Timestamps
<1>5. CASE e \in OrderCreatedEvents
    BY <1>5 DEF OrderCreatedEvents, StockTypes, Timestamps
<1>6. CASE e \in OrderCompletedEvents
    BY <1>6 DEF OrderCompletedEvents, StockTypes, Timestamps
<1>7. CASE e \in UnreadableEvents
    BY <1>7 DEF UnreadableEvents, StockTypes, Timestamps
<1> QED BY <1>1, <1>2, <1>3, <1>4, <1>5, <1>6, <1>7 DEF AllEvents

LegRows == [product : Products, zone : Zones, available : Int, reserved : Int]

\* Every handler turns its event into a sequence of changes of existing rows.
LEMMA LegsType ==
    ASSUME NEW e \in Events, NEW t \in Tables
    PROVE  Legs(e, t) \in Seq(LegRows)
<1> USE DEF LegRows, Leg
<1>1. CASE e.type = "PRODUCT_RECEIVED"
    <2>1. e \in StockEvents
        BY <1>1, EventKinds DEF StockTypes
    <2>2. ReceivedLegs(e) \in Seq(LegRows)
        BY <2>1 DEF StockEvents, ReceivedLegs
    <2> QED BY <1>1, <2>2 DEF Legs
<1>2. CASE e.type = "PRODUCT_SHIPPED"
    <2>1. e \in StockEvents
        BY <1>2, EventKinds DEF StockTypes
    <2>2. ShippedLegs(e) \in Seq(LegRows)
        BY <2>1 DEF StockEvents, ShippedLegs
    <2> QED BY <1>2, <2>2 DEF Legs
<1>3. CASE e.type = "PRODUCT_MOVED"
    <2>1. e \in MoveEvents
        BY <1>3, EventKinds
    <2>2. MovedLegs(e) \in Seq(LegRows)
        BY <2>1 DEF MoveEvents, MovedLegs
    <2> QED BY <1>3, <2>2 DEF Legs
<1>4. CASE e.type = "PRODUCT_RESERVED"
    <2>1. e \in StockEvents
        BY <1>4, EventKinds DEF StockTypes
    <2>2. ReservedLegs(e) \in Seq(LegRows)
        BY <2>1 DEF StockEvents, ReservedLegs
    <2> QED BY <1>4, <2>2 DEF Legs
<1>5. CASE e.type = "PRODUCT_RELEASED"
    <2>1. e \in StockEvents
        BY <1>5, EventKinds DEF StockTypes
    <2>2. ReleasedLegs(e) \in Seq(LegRows)
        BY <2>1 DEF StockEvents, ReleasedLegs
    <2> QED BY <1>5, <2>2 DEF Legs
<1>6. CASE e.type = "INVENTORY_COUNTED"
    <2>1. e \in CountEvents
        BY <1>6, EventKinds
    <2>2. t.ipz[<<e.product, e.zone>>].available \in Int
        BY <2>1 DEF CountEvents, Tables, ZoneRows
    <2>3. CountedLegs(e, t) \in Seq(LegRows)
        BY <2>1, <2>2 DEF CountEvents, CountedLegs
    <2> QED BY <1>6, <2>3 DEF Legs
<1>7. CASE e.type = "ORDER_CREATED"
    <2>1. e \in OrderCreatedEvents
        BY <1>7, EventKinds
    <2>2. OrderCreatedLegs(e) \in Seq(LegRows)
        <3> DEFINE items == e.items
        <3>1. PICK n \in Nat : items \in [1..n -> OrderItems]
            <4>1. items \in Seq(OrderItems)
                BY <2>1 DEF OrderCreatedEvents
            <4> HIDE DEF items
            <4> QED BY <4>1, Len(items) \in Nat, items \in [1..Len(items) -> OrderItems]
        <3>2. OrderCreatedLegs(e) \in [1..n -> LegRows]
            BY <3>1 DEF OrderCreatedLegs, OrderItems
        <3> HIDE DEF items, LegRows
        <3> QED BY <3>2, SeqDef
    <2> QED BY <1>7, <2>2 DEF Legs
<1>8. CASE e.type = "ORDER_COMPLETED"
    <2>1. e \in OrderCompletedEvents
        BY <1>8, EventKinds
    <2>2. t.orders[e.order].items \in Seq(OrderItems)
        BY <2>1 DEF OrderCompletedEvents, Tables, OrderRows
    <2>3. OrderCompletedLegs(e, t) \in Seq(LegRows)
        <3> DEFINE items == t.orders[e.order].items
        <3>1. PICK n \in Nat : items \in [1..n -> OrderItems]
            <4>1. items \in Seq(OrderItems)
                BY <2>2
            <4> HIDE DEF items
            <4> QED BY <4>1, Len(items) \in Nat, items \in [1..Len(items) -> OrderItems]
        <3>2. OrderCompletedLegs(e, t) \in [1..n -> LegRows]
            BY <3>1 DEF OrderCompletedLegs, OrderItems
        <3> HIDE DEF items, LegRows
        <3> QED BY <3>2, SeqDef
    <2> QED BY <1>8, <2>3 DEF Legs
<1>9. CASE e.type \notin {"PRODUCT_RECEIVED", "PRODUCT_SHIPPED", "PRODUCT_MOVED",
                          "PRODUCT_RESERVED", "PRODUCT_RELEASED", "INVENTORY_COUNTED",
                          "ORDER_CREATED", "ORDER_COMPLETED"}
    BY <1>9 DEF Legs
<1> QED BY <1>1, <1>2, <1>3, <1>4, <1>5, <1>6, <1>7, <1>8, <1>9

\* The legs of an event are finitely many.
LEMMA LegsFinite ==
    ASSUME NEW legs \in Seq(LegRows)
    PROVE  /\ IsFiniteSet(DOMAIN legs)
           /\ \A i \in DOMAIN legs : legs[i] \in LegRows
           /\ \A i \in DOMAIN legs : \A j \in 1..(i - 1) : j \in DOMAIN legs
<1>1. PICK n \in Nat : DOMAIN legs = 1..n
    <2>1. Len(legs) \in Nat /\ DOMAIN legs = 1..Len(legs)
        OBVIOUS
    <2> QED BY <2>1
<1>2. IsFiniteSet(1..n)
    BY FS_Interval
<1> QED BY <1>1, <1>2

\* An event that is applied passed every check, on every leg.
LEMMA AppliedPassed ==
    ASSUME NEW e \in Events, NEW t \in Tables, Verdict(e, t) = "apply"
    PROVE  /\ ~Malformed(e)
           /\ ~OrderRefused(e, t)
           /\ ~OrderAlreadyCompleted(e, t)
           /\ \A i \in DOMAIN Legs(e, t) :
                 ~StaleLeg(Legs(e, t)[i], e, t) /\ ~ShortLeg(Legs(e, t)[i], t)
<1> DEFINE legs == Legs(e, t)
<1>1. /\ ~Malformed(e)
      /\ ~OrderRefused(e, t)
      /\ ~OrderAlreadyCompleted(e, t)
      /\ ~StaleEvent(e, t)
      /\ ~ShortEvent(e, t)
    BY DEF Verdict
<1>2. \A i \in DOMAIN legs : ~ShortLeg(legs[i], t)
    BY <1>1 DEF ShortEvent
<1>3. \A i \in DOMAIN legs : \A j \in 1..(i - 1) : j \in DOMAIN legs
    <2>1. legs \in Seq(LegRows)
        BY LegsType
    <2> HIDE DEF legs
    <2> QED BY <2>1, LegsFinite
<1>4. \A i \in DOMAIN legs : ~StaleLeg(legs[i], e, t)
    BY <1>1, <1>2, <1>3 DEF StaleEvent
<1> QED BY <1>1, <1>2, <1>4

-----------------------------------------------------------------------------
(* What an applied event does to the tables.                               *)

\* The legs that change row k.
At(legs, k) == {i \in DOMAIN legs : <<legs[i].product, legs[i].zone>> = k}

Written(e, t) == Write(t, Batch(e, t))

\* A row no leg names is kept, in both tables of zones.
LEMMA RowKept ==
    ASSUME NEW e \in Events, NEW t \in Tables,
           NEW p \in Products, NEW z \in Zones, At(Legs(e, t), <<p, z>>) = {}
    PROVE  /\ Written(e, t).ipz[<<p, z>>] = t.ipz[<<p, z>>]
           /\ Written(e, t).iz[<<z, p>>] = t.iz[<<z, p>>]
<1> DEFINE legs == Legs(e, t)
           keys == {<<legs[i].product, legs[i].zone>> : i \in DOMAIN legs}
<1>1. <<p, z>> \notin keys
    BY DEF At
<1>2. DOMAIN ZoneUpserts(e, t) = keys
    BY DEF ZoneUpserts
<1>3. DOMAIN MirrorUpserts(e, t) = {<<j[2], j[1]>> : j \in keys}
    BY <1>2 DEF MirrorUpserts
<1>4. <<z, p>> \notin {<<j[2], j[1]>> : j \in keys}
    BY <1>1
<1>5. <<p, z>> \in DOMAIN t.ipz /\ <<z, p>> \in DOMAIN t.iz
    BY DEF Tables
<1> HIDE DEF keys
<1> QED BY <1>1, <1>2, <1>3, <1>4, <1>5 DEF Written, Write, Batch, Upsert

\* A row some leg names takes the event's timestamp, and each quantity is the
\* row as it was read changed by one of these legs.
LEMMA RowWritten ==
    ASSUME NEW e \in Events, NEW t \in Tables,
           NEW p \in Products, NEW z \in Zones, At(Legs(e, t), <<p, z>>) # {}
    PROVE  LET k == <<p, z>>
               row == Written(e, t).ipz[k]
           IN  /\ row = [available |-> row.available, reserved |-> row.reserved,
                         ts |-> e.ts, supplier |-> row.supplier]
               /\ \E i \in At(Legs(e, t), k) :
                     row.available = t.ipz[k].available + Legs(e, t)[i].available
               /\ \E i \in At(Legs(e, t), k) :
                     row.reserved = t.ipz[k].reserved + Legs(e, t)[i].reserved
               /\ row.supplier = IF e.type = "PRODUCT_RECEIVED" /\ e.supplier # NoSupplier
                                 THEN e.supplier ELSE t.ipz[k].supplier
<1> DEFINE legs == Legs(e, t)
           k == <<p, z>>
           I == At(legs, k)
           av == [i \in I |-> t.ipz[k].available + legs[i].available]
           rv == [i \in I |-> t.ipz[k].reserved + legs[i].reserved]
           row == [available |-> Max({av[i] : i \in I}),
                   reserved  |-> Max({rv[i] : i \in I}),
                   ts        |-> e.ts,
                   supplier  |-> IF e.type = "PRODUCT_RECEIVED" /\ e.supplier # NoSupplier
                                 THEN e.supplier ELSE t.ipz[k].supplier]
<1>1. IsFiniteSet(I) /\ \A i \in I : legs[i] \in LegRows
    <2>1. legs \in Seq(LegRows)
        BY LegsType
    <2> HIDE DEF legs
    <2>2. IsFiniteSet(DOMAIN legs) /\ \A i \in DOMAIN legs : legs[i] \in LegRows
        BY <2>1, LegsFinite
    <2>3. I \subseteq DOMAIN legs
        BY DEF At
    <2> HIDE DEF I
    <2> QED BY <2>2, <2>3, FS_Subset
<1>2. \A i \in I : av[i] \in Int /\ rv[i] \in Int
    <2>1. t.ipz[k].available \in Int /\ t.ipz[k].reserved \in Int
        BY DEF Tables, ZoneRows
    <2> HIDE DEF legs, k, I
    <2> QED BY <1>1, <2>1 DEF LegRows
<1>3. \E i \in I : Max({av[j] : j \in I}) = av[i]
    <2> HIDE DEF av, I
    <2> QED BY <1>1, <1>2, MaxOfValues DEF I
<1>4. \E i \in I : Max({rv[j] : j \in I}) = rv[i]
    <2> HIDE DEF rv, I
    <2> QED BY <1>1, <1>2, MaxOfValues DEF I
<1>5. k \in DOMAIN ZoneUpserts(e, t) /\ ZoneUpserts(e, t)[k] = row
    <2>1. k \in {<<legs[i].product, legs[i].zone>> : i \in DOMAIN legs}
        BY DEF At
    <2>2. /\ {av[i] : i \in I} = {t.ipz[k].available + legs[i].available : i \in I}
          /\ {rv[i] : i \in I} = {t.ipz[k].reserved + legs[i].reserved : i \in I}
        OBVIOUS
    <2> HIDE DEF av, rv, k
    <2> QED BY <2>1, <2>2 DEF ZoneUpserts, At
<1>6. Written(e, t).ipz[k] = row
    <2>1. k \in DOMAIN t.ipz
        BY DEF Tables
    <2> HIDE DEF row, k
    <2> QED BY <1>5, <2>1 DEF Written, Write, Batch, Upsert
<1>7. (\E i \in I : row.available = av[i]) /\ \E i \in I : row.reserved = rv[i]
    BY <1>3, <1>4
<1> DEFINE w == Written(e, t).ipz[k]
<1>8. w = [available |-> w.available, reserved |-> w.reserved,
           ts |-> e.ts, supplier |-> w.supplier]
    BY <1>6
<1>9. \E i \in I : w.available = t.ipz[k].available + legs[i].available
    <2>1. PICK i \in I : row.available = av[i]
        BY <1>7
    <2> QED BY <1>6, <2>1
<1>10. \E i \in I : w.reserved = t.ipz[k].reserved + legs[i].reserved
    <2>1. PICK i \in I : row.reserved = rv[i]
        BY <1>7
    <2> QED BY <1>6, <2>1
<1>11. w.supplier = IF e.type = "PRODUCT_RECEIVED" /\ e.supplier # NoSupplier
                    THEN e.supplier ELSE t.ipz[k].supplier
    BY <1>6
<1> QED BY ONLY <1>8, <1>9, <1>10, <1>11

\* The mirror of a row is written with it.
LEMMA MirrorWritten ==
    ASSUME NEW e \in Events, NEW t \in Tables,
           NEW p \in Products, NEW z \in Zones, At(Legs(e, t), <<p, z>>) # {}
    PROVE  Written(e, t).iz[<<z, p>>] =
              [available |-> Written(e, t).ipz[<<p, z>>].available,
               reserved |-> Written(e, t).ipz[<<p, z>>].reserved, ts |-> e.ts]
<1> DEFINE legs == Legs(e, t)
           keys == {<<legs[i].product, legs[i].zone>> : i \in DOMAIN legs}
           row == ZoneUpserts(e, t)[<<p, z>>]
<1>1. <<p, z>> \in keys
    BY DEF At
<1>2. DOMAIN ZoneUpserts(e, t) = keys
    BY DEF ZoneUpserts
<1>3. <<p, z>> \in DOMAIN t.ipz /\ <<z, p>> \in DOMAIN t.iz
    BY DEF Tables
<1>4. Written(e, t).ipz[<<p, z>>] = row
    <2> HIDE DEF keys
    <2> QED BY <1>1, <1>2, <1>3 DEF Written, Write, Batch, Upsert
<1>5. /\ <<z, p>> \in DOMAIN MirrorUpserts(e, t)
      /\ MirrorUpserts(e, t)[<<z, p>>] =
            [available |-> row.available, reserved |-> row.reserved, ts |-> e.ts]
    <2>1. <<z, p>> \in {<<j[2], j[1]>> : j \in keys}
        BY <1>1
    <2> HIDE DEF keys, row
    <2> QED BY <1>2, <2>1 DEF MirrorUpserts, row
<1>6. Written(e, t).iz[<<z, p>>] = MirrorUpserts(e, t)[<<z, p>>]
    BY <1>3, <1>5 DEF Written, Write, Batch, Upsert
<1> HIDE DEF row
<1> QED BY <1>4, <1>5, <1>6

\* The row of a product changes by what its legs add up to.
LEMMA TotalsWritten ==
    ASSUME NEW e \in Events, NEW t \in Tables, NEW p \in Products
    PROVE  /\ AvailableDelta(Legs(e, t), p) \in Int
           /\ ReservedDelta(Legs(e, t), p) \in Int
           /\ Written(e, t).ip[p].available = t.ip[p].available + AvailableDelta(Legs(e, t), p)
           /\ Written(e, t).ip[p].reserved = t.ip[p].reserved + ReservedDelta(Legs(e, t), p)
           /\ Written(e, t).ip[p] \in TotalRows
<1> DEFINE legs == Legs(e, t)
           I == ProductLegs(legs, p)
           av == [i \in DOMAIN legs |-> legs[i].available]
           rv == [i \in DOMAIN legs |-> legs[i].reserved]
           da == AvailableDelta(legs, p)
           dr == ReservedDelta(legs, p)
<1>1. /\ IsFiniteSet(I)
      /\ \A i \in I : av[i] \in Int
      /\ \A i \in I : rv[i] \in Int
    <2>1. legs \in Seq(LegRows)
        BY LegsType
    <2> HIDE DEF legs
    <2>2. IsFiniteSet(DOMAIN legs) /\ \A i \in DOMAIN legs : legs[i] \in LegRows
        BY <2>1, LegsFinite
    <2>3. I \subseteq DOMAIN legs
        BY DEF ProductLegs
    <2>4. IsFiniteSet(I)
        <3> HIDE DEF I
        <3> QED BY <2>2, <2>3, FS_Subset
    <2> QED BY <2>2, <2>3, <2>4 DEF LegRows
<1>2. da \in Int /\ dr \in Int
    <2>1. da = SumFunctionOnSet(av, I) /\ dr = SumFunctionOnSet(rv, I)
        BY DEF AvailableDelta, ReservedDelta
    <2> HIDE DEF da, dr, av, rv, I
    <2> QED BY <1>1, <2>1, SumType
<1>3. t.ip[p] \in TotalRows /\ p \in DOMAIN t.ip
    BY DEF Tables
<1>4. e.ts \in Nat
    BY EventKinds
<1>5. CASE p \in {legs[i].product : i \in DOMAIN legs}
    <2>1. /\ p \in DOMAIN TotalUpserts(e, t)
          /\ TotalUpserts(e, t)[p] =
                [available |-> t.ip[p].available + da,
                 reserved |-> t.ip[p].reserved + dr, ts |-> e.ts]
        BY <1>5 DEF TotalUpserts
    <2>2. Written(e, t).ip[p] = TotalUpserts(e, t)[p]
        BY <1>3, <2>1 DEF Written, Write, Batch, Upsert
    <2> HIDE DEF da, dr
    <2>3. Written(e, t).ip[p] = [available |-> t.ip[p].available + da,
                                 reserved |-> t.ip[p].reserved + dr, ts |-> e.ts]
        BY <2>1, <2>2
    <2>4. /\ Written(e, t).ip[p].available = t.ip[p].available + da
          /\ Written(e, t).ip[p].reserved = t.ip[p].reserved + dr
          /\ Written(e, t).ip[p] \in TotalRows
        BY <1>2, <1>3, <1>4, <2>3 DEF TotalRows
    <2> QED BY <1>2, <2>4 DEF da, dr
<1>6. CASE p \notin {legs[i].product : i \in DOMAIN legs}
    <2>1. I = {}
        BY <1>6 DEF ProductLegs
    <2>2. da = 0 /\ dr = 0
        BY <2>1, SumEmpty DEF AvailableDelta, ReservedDelta
    <2>3. p \notin DOMAIN TotalUpserts(e, t)
        BY <1>6 DEF TotalUpserts
    <2>4. Written(e, t).ip[p] = t.ip[p]
        BY <1>3, <2>3 DEF Written, Write, Batch, Upsert
    <2> HIDE DEF da, dr
    <2>5. /\ Written(e, t).ip[p].available = t.ip[p].available + da
          /\ Written(e, t).ip[p].reserved = t.ip[p].reserved + dr
        BY <1>3, <2>2, <2>4 DEF TotalRows
    <2> QED BY <1>2, <1>3, <2>4, <2>5 DEF da, dr
<1> QED BY <1>5, <1>6

\* Only the order an order event names is written.
LEMMA OrderWritten ==
    ASSUME NEW e \in Events, NEW t \in Tables, NEW o \in Orders
    PROVE  Written(e, t).orders[o] =
              IF e.type = "ORDER_CREATED" /\ e.order = o
              THEN [status |-> "CREATED", items |-> e.items, ts |-> e.ts]
              ELSE IF e.type = "ORDER_COMPLETED" /\ e.order = o
              THEN [status |-> "COMPLETED", items |-> t.orders[o].items, ts |-> e.ts]
              ELSE t.orders[o]
<1>1. Written(e, t).orders = Upsert(t.orders, OrderUpserts(e, t))
    BY DEF Written, Write, Batch
<1>2. o \in DOMAIN t.orders
    BY DEF Tables
<1>3. CASE e.type = "ORDER_CREATED"
    <2>1. OrderUpserts(e, t) =
            [x \in {e.order} |-> [status |-> "CREATED", items |-> e.items, ts |-> e.ts]]
        BY <1>3 DEF OrderUpserts
    <2> QED BY <1>1, <1>2, <1>3, <2>1 DEF Upsert
<1>4. CASE e.type = "ORDER_COMPLETED"
    <2>1. OrderUpserts(e, t) =
            [x \in {e.order} |->
                [status |-> "COMPLETED", items |-> t.orders[x].items, ts |-> e.ts]]
        BY <1>4 DEF OrderUpserts
    <2> QED BY <1>1, <1>2, <1>4, <2>1 DEF Upsert
<1>5. CASE e.type \notin {"ORDER_CREATED", "ORDER_COMPLETED"}
    <2>1. OrderUpserts(e, t) = [x \in {} |-> 0]
        BY <1>5 DEF OrderUpserts
    <2> QED BY <1>1, <1>2, <1>5, <2>1 DEF Upsert
<1> QED BY <1>3, <1>4, <1>5

\* The audit log gains rows of its type, all of the one event; it loses no row
\* but those that had the key of one of these.
LEMMA HistoryWritten ==
    ASSUME NEW e \in Events, NEW t \in Tables
    PROVE  /\ HistoryOf(e, t) \subseteq Written(e, t).history
           /\ Written(e, t).history \subseteq t.history \cup HistoryOf(e, t)
           /\ HistoryOf(e, t) \subseteq HistoryRows
           /\ \A h \in HistoryOf(e, t) : h.event = e
<1> DEFINE legs == Legs(e, t)
<1>1. ASSUME NEW i \in DOMAIN legs
      PROVE  legs[i].product \in Products /\ HistoryQuantity(e, legs, legs[i].product) \in Int
    <2> DEFINE p == legs[i].product
    <2>1. p \in Products
        <3>1. legs \in Seq(LegRows)
            BY LegsType
        <3> HIDE DEF legs
        <3> QED BY <3>1, LegsFinite DEF LegRows
    <2>2. ReservedDelta(legs, p) \in Int
        BY <2>1, TotalsWritten
    <2>7. e.type \in StockTypes \cup {"PRODUCT_MOVED", "INVENTORY_COUNTED",
                                       "ORDER_CREATED", "ORDER_COMPLETED"}
        BY DEF Legs, StockTypes
    <2> HIDE DEF legs, p
    <2>3. CASE e.type = "INVENTORY_COUNTED"
        <3>1. HistoryQuantity(e, legs, p) = e.counted
            BY <2>3 DEF HistoryQuantity
        <3> QED BY <2>1, <2>3, <3>1, EventKinds DEF CountEvents, p
    <2>4. CASE e.type = "ORDER_CREATED"
        <3>1. HistoryQuantity(e, legs, p) = ReservedDelta(legs, p)
            BY <2>4 DEF HistoryQuantity
        <3> QED BY <2>1, <2>2, <3>1 DEF p
    <2>5. CASE e.type = "ORDER_COMPLETED"
        <3>1. HistoryQuantity(e, legs, p) = -ReservedDelta(legs, p)
            BY <2>5 DEF HistoryQuantity
        <3> QED BY <2>1, <2>2, <3>1 DEF p
    <2>6. CASE e.type \notin {"INVENTORY_COUNTED", "ORDER_CREATED", "ORDER_COMPLETED"}
        <3>1. HistoryQuantity(e, legs, p) = e.quantity
            BY <2>6 DEF HistoryQuantity
        <3>2. e.type \in StockTypes \cup {"PRODUCT_MOVED"}
            BY <2>6, <2>7
        <3>3. e.quantity \in Int
            BY <3>2, EventKinds DEF StockEvents, MoveEvents
        <3> QED BY <2>1, <3>1, <3>3 DEF p
    <2> QED BY <2>3, <2>4, <2>5, <2>6
<1>2. HistoryOf(e, t) \subseteq HistoryRows
    BY <1>1 DEF HistoryOf, HistoryRows
<1>3. \A h \in HistoryOf(e, t) : h.event = e
    BY DEF HistoryOf
<1>4. Written(e, t).history = OtherHistory(t.history, HistoryOf(e, t)) \cup HistoryOf(e, t)
    BY DEF Written, Write, Batch
<1> QED BY <1>2, <1>3, <1>4 DEF OtherHistory

\* The events are told apart by their ids and timestamps, as producers mean
\* them to be: the key of event_history holds nothing else of an event.
DistinctRows == \A e, f \in Events : e.id = f.id /\ e.ts = f.ts => e = f

\* Then an event that was not applied before overwrites no row of the log.
LEMMA HistoryAppended ==
    ASSUME DistinctRows, NEW e \in Events, NEW t \in Tables, e \notin Applied(t)
    PROVE  Written(e, t).history = t.history \cup HistoryOf(e, t)
<1> DEFINE new == HistoryOf(e, t)
<1>1. ASSUME NEW h \in t.history, NEW g \in new PROVE HistoryKey(g) # HistoryKey(h)
    <2>1. h.event \in Events /\ h.event # e
        BY DEF Tables, HistoryRows, Applied
    <2>2. g.event = e
        BY DEF HistoryOf
    <2>3. h.event.id # e.id \/ h.event.ts # e.ts
        BY <2>1 DEF DistinctRows
    <2> HIDE DEF new
    <2> QED BY <2>2, <2>3 DEF HistoryKey
<1>2. OtherHistory(t.history, new) = t.history
    <2> HIDE DEF new
    <2> QED BY <1>1 DEF OtherHistory
<1>3. Written(e, t).history = OtherHistory(t.history, new) \cup new
    BY DEF Written, Write, Batch
<1> QED BY <1>2, <1>3

-----------------------------------------------------------------------------
(* Type correctness.                                                       *)

\* Applying an event keeps every row in its type; that quantities stay
\* natural numbers is what the stock and reservation checks are for.
LEMMA WrittenType ==
    ASSUME NEW e \in Events, NEW t \in Tables, Verdict(e, t) = "apply"
    PROVE  Written(e, t) \in Tables
<1> DEFINE w == Written(e, t)
<1>1. e.ts \in Nat
    BY EventKinds
<1>2. ASSUME NEW p \in Products, NEW z \in Zones
      PROVE  w.ipz[<<p, z>>] \in ZoneRows /\ w.iz[<<z, p>>] \in MirrorRows
    <2> DEFINE k == <<p, z>>
               row == w.ipz[k]
    <2>1. t.ipz[k] \in ZoneRows /\ t.iz[<<z, p>>] \in MirrorRows
        BY DEF Tables
    <2>2. CASE At(Legs(e, t), k) = {}
        BY <2>1, <2>2, RowKept
    <2>3. CASE At(Legs(e, t), k) # {}
        <3>1. row.available \in Nat
            <4>1. PICK i \in At(Legs(e, t), k) :
                    row.available = t.ipz[k].available + Legs(e, t)[i].available
                BY <2>3, RowWritten
            <4>2. ~(t.ipz[k].available + Legs(e, t)[i].available < 0)
                BY AppliedPassed DEF At, ShortLeg
            <4>3. Legs(e, t)[i].available \in Int
                BY LegsType, LegsFinite DEF At, LegRows
            <4> HIDE DEF k, row
            <4> QED BY <2>1, <4>1, <4>2, <4>3 DEF ZoneRows
        <3>2. row.reserved \in Nat
            <4>1. PICK i \in At(Legs(e, t), k) :
                    row.reserved = t.ipz[k].reserved + Legs(e, t)[i].reserved
                BY <2>3, RowWritten
            <4>2. ~(t.ipz[k].reserved + Legs(e, t)[i].reserved < 0)
                BY AppliedPassed DEF At, ShortLeg
            <4>3. Legs(e, t)[i].reserved \in Int
                BY LegsType, LegsFinite DEF At, LegRows
            <4> HIDE DEF k, row
            <4> QED BY <2>1, <4>1, <4>2, <4>3 DEF ZoneRows
        <3>3. row.supplier \in Suppliers \cup {NoSupplier}
            <4>1. e.type = "PRODUCT_RECEIVED" => e.supplier \in Suppliers \cup {NoSupplier}
                BY EventKinds DEF StockEvents, StockTypes
            <4>2. row.supplier = IF e.type = "PRODUCT_RECEIVED" /\ e.supplier # NoSupplier
                                 THEN e.supplier ELSE t.ipz[k].supplier
                BY <2>3, RowWritten
            <4> HIDE DEF k, row
            <4> QED BY <2>1, <4>1, <4>2 DEF ZoneRows
        <3>4. row \in ZoneRows
            <4>1. row = [available |-> row.available, reserved |-> row.reserved,
                         ts |-> e.ts, supplier |-> row.supplier]
                BY <2>3, RowWritten
            <4> HIDE DEF row
            <4> QED BY <1>1, <3>1, <3>2, <3>3, <4>1 DEF ZoneRows
        <3>5. w.iz[<<z, p>>] = [available |-> row.available, reserved |-> row.reserved,
                                ts |-> e.ts]
            BY <2>3, MirrorWritten
        <3> HIDE DEF row
        <3> QED BY <1>1, <3>1, <3>2, <3>4, <3>5 DEF MirrorRows, row
    <2> QED BY <2>2, <2>3
<1>3. \A p \in Products : w.ip[p] \in TotalRows
    BY TotalsWritten
<1>4. ASSUME NEW o \in Orders
      PROVE  w.orders[o] \in OrderRows
    <2>1. t.orders[o] \in OrderRows
        BY DEF Tables
    <2>2. e.type = "ORDER_CREATED" => e.items \in Seq(OrderItems)
        BY EventKinds DEF OrderCreatedEvents
    <2> DEFINE row == w.orders[o]
    <2>3. row = IF e.type = "ORDER_CREATED" /\ e.order = o
                THEN [status |-> "CREATED", items |-> e.items, ts |-> e.ts]
                ELSE IF e.type = "ORDER_COMPLETED" /\ e.order = o
                THEN [status |-> "COMPLETED", items |-> t.orders[o].items, ts |-> e.ts]
                ELSE t.orders[o]
        BY OrderWritten
    <2> HIDE DEF row
    <2>4. row \in OrderRows
        BY <1>1, <2>1, <2>2, <2>3 DEF OrderRows
    <2> QED BY <2>4 DEF row
<1>5. w.history \subseteq HistoryRows
    <2>1. t.history \subseteq HistoryRows
        BY DEF Tables
    <2>2. /\ w.history \subseteq t.history \cup HistoryOf(e, t)
          /\ HistoryOf(e, t) \subseteq HistoryRows
        BY HistoryWritten
    <2> HIDE DEF w
    <2> QED BY <2>1, <2>2
<1>6. /\ w = [ipz |-> w.ipz, iz |-> w.iz, ip |-> w.ip, orders |-> w.orders,
              history |-> w.history]
      /\ w.ipz = [k \in Products \X Zones |-> w.ipz[k]]
      /\ w.iz = [k \in Zones \X Products |-> w.iz[k]]
      /\ w.ip = [p \in Products |-> w.ip[p]]
      /\ w.orders = [o \in Orders |-> w.orders[o]]
    BY DEF Written, Write, Upsert, Tables
<1>7. /\ w.ipz \in [Products \X Zones -> ZoneRows]
      /\ w.iz \in [Zones \X Products -> MirrorRows]
      /\ w.ip \in [Products -> TotalRows]
      /\ w.orders \in [Orders -> OrderRows]
    <2> HIDE DEF w
    <2>1. ASSUME NEW k \in Products \X Zones PROVE w.ipz[k] \in ZoneRows
        <3>1. PICK p \in Products, z \in Zones : k = <<p, z>>
            OBVIOUS
        <3> QED BY <1>2, <3>1
    <2>2. ASSUME NEW k \in Zones \X Products PROVE w.iz[k] \in MirrorRows
        <3>1. PICK z \in Zones, p \in Products : k = <<z, p>>
            OBVIOUS
        <3> QED BY <1>2, <3>1
    <2> QED BY <1>3, <1>4, <1>6, <2>1, <2>2
<1> HIDE DEF w
<1>8. w \in Tables
    <2>1. w = [ipz |-> w.ipz, iz |-> w.iz, ip |-> w.ip, orders |-> w.orders,
               history |-> w.history]
        BY <1>6
    <2> QED BY <1>5, <1>7, <2>1 DEF Tables
<1> QED BY <1>8 DEF w

\* A step of the warehouse applies one event.
LEMMA NextApplies ==
    Next => \E e \in Events : Verdict(e, tables) = "apply" /\ tables' = Written(e, tables)
BY DEF Next, Apply, Written, HandleProductReceived, HandleProductShipped,
       HandleProductMoved, HandleProductReserved, HandleProductReleased,
       HandleInventoryCounted, HandleOrderCreated, HandleOrderCompleted

\* The tables start out empty, and empty tables are of their type.
LEMMA InitType == Init => TypeOK
<1>1. \A k \in Products \X Zones : [available |-> 0, reserved |-> 0, ts |-> 0,
                                    supplier |-> NoSupplier] \in ZoneRows
    BY DEF ZoneRows
<1>2. NoStock \in MirrorRows /\ NoStock \in TotalRows
    BY DEF NoStock, MirrorRows, TotalRows
<1>3. [status |-> "NONE", items |-> <<>>, ts |-> 0] \in OrderRows
    BY DEF OrderRows
<1>4. EmptyTables \in Tables
    BY <1>1, <1>2, <1>3 DEF EmptyTables, Tables
<1> QED BY <1>4 DEF Init, TypeOK

\* A step of the warehouse keeps the tables in their type.
LEMMA NextType == TypeOK /\ [Next]_tables => TypeOK'
<1> SUFFICES ASSUME TypeOK, [Next]_tables PROVE TypeOK'
    OBVIOUS
<1>1. CASE Next
    <2>1. PICK e \in Events : Verdict(e, tables) = "apply" /\ tables' = Written(e, tables)
        BY <1>1, NextApplies
    <2>2. tables \in Tables
        BY DEF TypeOK
    <2>3. Written(e, tables) \in Tables
        BY <2>1, <2>2, WrittenType
    <2> QED BY <2>1, <2>3 DEF TypeOK
<1>2. CASE UNCHANGED tables
    BY <1>2 DEF TypeOK
<1> QED BY <1>1, <1>2

\* Whatever events are presented, in whatever order and however often, the
\* quantities of a zone stay natural numbers: no sequence of applied events
\* oversells a zone or releases a reservation that is not there.
THEOREM TypeCorrect == Spec => []TypeOK
BY InitType, NextType, PTL DEF Spec

-----------------------------------------------------------------------------
(* Rows only advance.                                                      *)

\* A row an event writes takes the event's timestamp, which is later than the
\* row's; any other row is kept.
LEMMA RowAdvances ==
    ASSUME NEW e \in Events, NEW t \in Tables, Verdict(e, t) = "apply",
           NEW p \in Products, NEW z \in Zones
    PROVE  \/ Written(e, t).ipz[<<p, z>>] = t.ipz[<<p, z>>]
           \/ /\ Written(e, t).ipz[<<p, z>>].ts = e.ts
              /\ e.ts > t.ipz[<<p, z>>].ts
<1>1. CASE At(Legs(e, t), <<p, z>>) = {}
    BY <1>1, RowKept
<1>2. CASE At(Legs(e, t), <<p, z>>) # {}
    <2>1. Written(e, t).ipz[<<p, z>>].ts = e.ts
        <3> DEFINE row == Written(e, t).ipz[<<p, z>>]
        <3>1. row = [available |-> row.available, reserved |-> row.reserved,
                     ts |-> e.ts, supplier |-> row.supplier]
            BY <1>2, RowWritten
        <3> HIDE DEF row
        <3>2. row.ts = e.ts
            BY <3>1
        <3> QED BY <3>2 DEF row
    <2>2. PICK i \in DOMAIN Legs(e, t) :
             <<Legs(e, t)[i].product, Legs(e, t)[i].zone>> = <<p, z>>
        BY <1>2 DEF At
    <2>3. ~(t.ipz[<<p, z>>].ts >= e.ts)
        BY <2>2, AppliedPassed DEF StaleLeg
    <2>4. t.ipz[<<p, z>>].ts \in Nat /\ e.ts \in Nat
        BY EventKinds DEF Tables, ZoneRows
    <2> QED BY <2>1, <2>3, <2>4
<1> QED BY <1>1, <1>2

\* The same for the row a leg names.
LEMMA LegRowWritten ==
    ASSUME NEW e \in Events, NEW t \in Tables, NEW i \in DOMAIN Legs(e, t)
    PROVE  LET leg == Legs(e, t)[i]
           IN  /\ leg.product \in Products /\ leg.zone \in Zones
               /\ Written(e, t).ipz[<<leg.product, leg.zone>>].ts = e.ts
<1> DEFINE p == Legs(e, t)[i].product
           z == Legs(e, t)[i].zone
           row == Written(e, t).ipz[<<p, z>>]
<1>1. p \in Products /\ z \in Zones
    BY LegsType, LegsFinite DEF LegRows
<1>2. At(Legs(e, t), <<p, z>>) # {}
    BY DEF At
<1>3. row = [available |-> row.available, reserved |-> row.reserved,
             ts |-> e.ts, supplier |-> row.supplier]
    BY <1>1, <1>2, RowWritten
<1> HIDE DEF row
<1>4. row.ts = e.ts
    BY <1>3
<1> QED BY <1>1, <1>4 DEF row

\* A row of a zone is only ever replaced by one with a later event timestamp:
\* late and repeated events cannot take a row back (handlers.py:62-79).
THEOREM RowsAdvance == Spec => RowsOnlyAdvance
<1>1. TypeOK /\ [Next]_tables
        => [\A k \in Products \X Zones :
              tables'.ipz[k] # tables.ipz[k] => tables'.ipz[k].ts > tables.ipz[k].ts]_tables
    <2> SUFFICES ASSUME TypeOK, Next, NEW k \in Products \X Zones
                 PROVE  tables'.ipz[k] # tables.ipz[k] => tables'.ipz[k].ts > tables.ipz[k].ts
        OBVIOUS
    <2>1. PICK e \in Events : Verdict(e, tables) = "apply" /\ tables' = Written(e, tables)
        BY NextApplies
    <2>2. PICK p \in Products, z \in Zones : k = <<p, z>>
        OBVIOUS
    <2>3. tables \in Tables
        BY DEF TypeOK
    <2>4. \/ Written(e, tables).ipz[k] = tables.ipz[k]
          \/ Written(e, tables).ipz[k].ts = e.ts /\ e.ts > tables.ipz[k].ts
        BY <2>1, <2>2, <2>3, RowAdvances
    <2> QED BY <2>1, <2>4
<1> QED BY <1>1, TypeCorrect, PTL DEF Spec, RowsOnlyAdvance

\* A supplier that is known stays known: no event of either schema version
\* nulls it, although every write replaces the whole row (handlers.py:231).
THEOREM SupplierKept == Spec => SupplierNeverForgotten
<1>1. TypeOK /\ [Next]_tables
        => [\A k \in Products \X Zones :
              tables.ipz[k].supplier # NoSupplier
                => tables'.ipz[k].supplier # NoSupplier]_tables
    <2> SUFFICES ASSUME TypeOK, Next, NEW k \in Products \X Zones,
                        tables.ipz[k].supplier # NoSupplier
                 PROVE  tables'.ipz[k].supplier # NoSupplier
        OBVIOUS
    <2>1. PICK e \in Events : Verdict(e, tables) = "apply" /\ tables' = Written(e, tables)
        BY NextApplies
    <2>2. PICK p \in Products, z \in Zones : k = <<p, z>>
        OBVIOUS
    <2>3. tables \in Tables
        BY DEF TypeOK
    <2>4. CASE At(Legs(e, tables), k) = {}
        BY <2>1, <2>2, <2>3, <2>4, RowKept
    <2>5. CASE At(Legs(e, tables), k) # {}
        <3>1. Written(e, tables).ipz[k].supplier =
                IF e.type = "PRODUCT_RECEIVED" /\ e.supplier # NoSupplier
                THEN e.supplier ELSE tables.ipz[k].supplier
            <4>1. At(Legs(e, tables), <<p, z>>) # {}
                BY <2>2, <2>5
            <4>2. Written(e, tables).ipz[<<p, z>>].supplier =
                    IF e.type = "PRODUCT_RECEIVED" /\ e.supplier # NoSupplier
                    THEN e.supplier ELSE tables.ipz[<<p, z>>].supplier
                BY <2>3, <4>1, RowWritten
            <4> QED BY <2>2, <4>2
        <3> QED BY <2>1, <3>1
    <2> QED BY <2>4, <2>5
<1> QED BY <1>1, TypeCorrect, PTL DEF Spec, SupplierNeverForgotten

-----------------------------------------------------------------------------
(* Orders.                                                                 *)

\* The zone rows of an order's items are at least as recent as the order while
\* it is open.  This is what makes the order's own timestamp, which no handler
\* compares, grow: a completion must be newer than the rows.
OrdersBehindRows ==
    \A o \in Orders :
        LET order == tables.orders[o]
        IN  /\ order.status = "NONE" => order.ts = 0
            /\ order.status = "CREATED" =>
                 /\ order.items # <<>>
                 /\ \A i \in DOMAIN order.items :
                       tables.ipz[<<order.items[i].product, order.items[i].zone>>].ts
                         >= order.ts

\* An item of an order names a row.
LEMMA ItemType ==
    ASSUME NEW items \in Seq(OrderItems), NEW i \in DOMAIN items
    PROVE  items[i].product \in Products /\ items[i].zone \in Zones
<1>1. i \in 1..Len(items)
    OBVIOUS
<1>2. items[i] \in OrderItems
    BY <1>1
<1> QED BY <1>2 DEF OrderItems

\* It holds of the empty tables ...
LEMMA OrdersBehindRowsInit == Init => OrdersBehindRows
BY DEF Init, EmptyTables, OrdersBehindRows

\* ... and every event that is applied keeps it.
LEMMA OrdersBehindRowsNext ==
    TypeOK /\ OrdersBehindRows /\ [Next]_tables => OrdersBehindRows'
<1> SUFFICES ASSUME TypeOK, OrdersBehindRows, [Next]_tables PROVE OrdersBehindRows'
    OBVIOUS
<1>1. CASE UNCHANGED tables
    BY <1>1 DEF OrdersBehindRows
<1>2. CASE Next
    <2>1. PICK e \in Events : Verdict(e, tables) = "apply" /\ tables' = Written(e, tables)
        BY <1>2, NextApplies
    <2>2. tables \in Tables
        BY DEF TypeOK
    <2> DEFINE w == Written(e, tables)
    <2>3. ASSUME NEW o \in Orders
          PROVE  LET order == w.orders[o]
                 IN  /\ order.status = "NONE" => order.ts = 0
                     /\ order.status = "CREATED" =>
                          /\ order.items # <<>>
                          /\ \A i \in DOMAIN order.items :
                                w.ipz[<<order.items[i].product, order.items[i].zone>>].ts
                                  >= order.ts
        <3>1. CASE e.type = "ORDER_CREATED" /\ e.order = o
            <4>1. w.orders[o] = [status |-> "CREATED", items |-> e.items, ts |-> e.ts]
                BY <2>2, <3>1, OrderWritten
            <4>2. e.items # <<>>
                BY <2>1, <2>2, <3>1, AppliedPassed DEF Malformed
            <4>3. ASSUME NEW i \in DOMAIN e.items
                  PROVE  w.ipz[<<e.items[i].product, e.items[i].zone>>].ts = e.ts
                <5>1. Legs(e, tables) = OrderCreatedLegs(e)
                    BY <3>1 DEF Legs
                <5>2. /\ i \in DOMAIN Legs(e, tables)
                      /\ Legs(e, tables)[i].product = e.items[i].product
                      /\ Legs(e, tables)[i].zone = e.items[i].zone
                    BY <5>1 DEF OrderCreatedLegs, Leg
                <5> QED BY <2>2, <5>2, LegRowWritten
            <4>4. e.ts \in Nat
                BY EventKinds
            <4> HIDE DEF w
            <4> QED BY <4>1, <4>2, <4>3, <4>4
        <3>2. CASE e.type = "ORDER_COMPLETED" /\ e.order = o
            <4>1. w.orders[o] = [status |-> "COMPLETED",
                                 items |-> tables.orders[o].items, ts |-> e.ts]
                BY <2>2, <3>2, OrderWritten
            <4> HIDE DEF w
            <4> QED BY <4>1
        <3>3. CASE ~(e.type \in {"ORDER_CREATED", "ORDER_COMPLETED"} /\ e.order = o)
            <4> DEFINE order == tables.orders[o]
            <4>1. w.orders[o] = order
                BY <2>2, <3>3, OrderWritten
            <4>2. order \in OrderRows
                BY <2>2 DEF Tables
            <4>3. ASSUME order.status = "CREATED", NEW i \in DOMAIN order.items
                  PROVE  w.ipz[<<order.items[i].product, order.items[i].zone>>].ts >= order.ts
                <5> DEFINE p == order.items[i].product
                           z == order.items[i].zone
                <5>1. p \in Products /\ z \in Zones
                    BY <4>2, ItemType DEF OrderRows
                <5>2. tables.ipz[<<p, z>>].ts >= order.ts
                    BY <4>3 DEF OrdersBehindRows
                <5>3. \/ w.ipz[<<p, z>>] = tables.ipz[<<p, z>>]
                      \/ w.ipz[<<p, z>>].ts = e.ts /\ e.ts > tables.ipz[<<p, z>>].ts
                    <6> HIDE DEF p, z
                    <6> QED BY <2>1, <2>2, <5>1, RowAdvances
                <5>4. tables.ipz[<<p, z>>].ts \in Nat /\ e.ts \in Nat /\ order.ts \in Nat
                    BY <2>2, <4>2, <5>1, EventKinds DEF Tables, ZoneRows, OrderRows
                <5> HIDE DEF p, z, w, order
                <5>5. w.ipz[<<p, z>>].ts >= order.ts
                    BY <5>2, <5>3, <5>4
                <5> QED BY <5>5 DEF p, z
            <4>4. /\ order.status = "NONE" => order.ts = 0
                  /\ order.status = "CREATED" => order.items # <<>>
                BY DEF OrdersBehindRows
            <4> HIDE DEF w, order
            <4> QED BY <4>1, <4>3, <4>4
        <3> QED BY <3>1, <3>2, <3>3
    <2> QED BY <2>1, <2>3 DEF OrdersBehindRows
<1> QED BY <1>1, <1>2

\* An order is created once and completed once, in that order, keeps its items
\* and grows its timestamp, however late or often its events are presented
\* (handlers.py:459-464, 513-525).
THEOREM OrderLifecycleHolds == Spec => OrderLifecycle
<1>1. TypeOK /\ OrdersBehindRows /\ [Next]_tables
        => [\A o \in Orders :
              LET old == tables.orders[o]
                  new == tables'.orders[o]
              IN  new # old =>
                    /\ new.ts > old.ts
                    /\ \/ old.status = "NONE" /\ new.status = "CREATED"
                       \/ /\ old.status = "CREATED" /\ new.status = "COMPLETED"
                          /\ new.items = old.items]_tables
    <2> SUFFICES ASSUME TypeOK, OrdersBehindRows, Next, NEW o \in Orders
                 PROVE  LET old == tables.orders[o]
                            new == tables'.orders[o]
                        IN  new # old =>
                              /\ new.ts > old.ts
                              /\ \/ old.status = "NONE" /\ new.status = "CREATED"
                                 \/ /\ old.status = "CREATED" /\ new.status = "COMPLETED"
                                    /\ new.items = old.items
        OBVIOUS
    <2>1. PICK e \in Events : Verdict(e, tables) = "apply" /\ tables' = Written(e, tables)
        BY NextApplies
    <2>2. tables \in Tables
        BY DEF TypeOK
    <2> DEFINE old == tables.orders[o]
               new == Written(e, tables).orders[o]
    <2>3. old \in OrderRows /\ e.ts \in Nat /\ e.ts > 0
        BY <2>2, EventKinds DEF Tables
    <2>4. CASE e.type = "ORDER_CREATED" /\ e.order = o
        <3>1. new = [status |-> "CREATED", items |-> e.items, ts |-> e.ts]
            BY <2>2, <2>4, OrderWritten
        <3>2. old.status = "NONE"
            BY <2>1, <2>2, <2>4, AppliedPassed DEF OrderRefused
        <3>3. old.ts = 0
            BY <3>2 DEF OrdersBehindRows
        <3> HIDE DEF old, new
        <3>4. new.ts > old.ts /\ new.status = "CREATED"
            BY <2>3, <3>1, <3>3
        <3> QED BY <2>1, <3>2, <3>4 DEF old, new
    <2>5. CASE e.type = "ORDER_COMPLETED" /\ e.order = o
        <3>1. new = [status |-> "COMPLETED", items |-> old.items, ts |-> e.ts]
            BY <2>2, <2>5, OrderWritten
        <3>2. old.status = "CREATED"
            <4>1. old.status # "NONE" /\ old.status # "COMPLETED"
                BY <2>1, <2>2, <2>5, AppliedPassed DEF OrderRefused, OrderAlreadyCompleted
            <4> HIDE DEF old
            <4> QED BY <2>3, <4>1 DEF OrderRows
        <3> DEFINE p == old.items[1].product
                   z == old.items[1].zone
        <3>3. 1 \in DOMAIN old.items /\ tables.ipz[<<p, z>>].ts >= old.ts
            <4>1. old.items # <<>>
                BY <3>2 DEF OrdersBehindRows
            <4>2. 1 \in DOMAIN old.items
                <5> HIDE DEF old
                <5> QED BY <2>3, <4>1 DEF OrderRows
            <4> QED BY <3>2, <4>2 DEF OrdersBehindRows
        <3>4. ~(tables.ipz[<<p, z>>].ts >= e.ts)
            <4>1. Legs(e, tables) = OrderCompletedLegs(e, tables)
                BY <2>5 DEF Legs
            <4>2. /\ 1 \in DOMAIN Legs(e, tables)
                  /\ Legs(e, tables)[1].product = p
                  /\ Legs(e, tables)[1].zone = z
                <5>1. OrderCompletedLegs(e, tables) =
                        [i \in DOMAIN old.items |->
                            Leg(old.items[i].product, old.items[i].zone,
                                0, -old.items[i].quantity)]
                    BY <2>5 DEF OrderCompletedLegs
                <5> HIDE DEF old
                <5> QED BY <3>3, <4>1, <5>1 DEF Leg
            <4> QED BY <2>1, <2>2, <4>2, AppliedPassed DEF StaleLeg
        <3>5. tables.ipz[<<p, z>>].ts \in Nat
            <4>1. p \in Products /\ z \in Zones
                <5> HIDE DEF old
                <5> QED BY <2>3, <3>3, ItemType DEF OrderRows, p, z
            <4> HIDE DEF p, z
            <4> QED BY <2>2, <4>1 DEF Tables, ZoneRows
        <3> HIDE DEF old, new, p, z
        <3>6. new.ts > old.ts /\ new.status = "COMPLETED" /\ new.items = old.items
            BY <2>3, <3>1, <3>3, <3>4, <3>5 DEF OrderRows
        <3> QED BY <2>1, <3>2, <3>6 DEF old, new
    <2>6. CASE ~(e.type \in {"ORDER_CREATED", "ORDER_COMPLETED"} /\ e.order = o)
        <3>1. new = old
            BY <2>2, <2>6, OrderWritten
        <3> HIDE DEF old, new
        <3> QED BY <2>1, <3>1 DEF old, new
    <2> QED BY <2>4, <2>5, <2>6
<1> QED BY <1>1, TypeCorrect, OrdersBehindRowsInit, OrdersBehindRowsNext, PTL
        DEF Spec, OrderLifecycle

-----------------------------------------------------------------------------
(* No event is applied twice.                                              *)

\* What the tables keep of an event that was applied, and every later event
\* leaves in place: a row at least as recent as the event, or the order's
\* status.
Settled(e, t) ==
    /\ e.type \in StockTypes \cup {"INVENTORY_COUNTED"} =>
          t.ipz[<<e.product, e.zone>>].ts >= e.ts
    /\ e.type = "PRODUCT_MOVED" => t.ipz[<<e.product, e.from>>].ts >= e.ts
    /\ e.type = "ORDER_CREATED" => t.orders[e.order].status # "NONE"
    /\ e.type = "ORDER_COMPLETED" => t.orders[e.order].status = "COMPLETED"

AppliedIsSettled == \A e \in Applied(tables) : Settled(e, tables)

\* The row a stock, move or count event is about is the row of its first leg.
LEMMA FirstLeg ==
    ASSUME NEW e \in Events, NEW t \in Tables,
           e.type \in StockTypes \cup {"INVENTORY_COUNTED", "PRODUCT_MOVED"}
    PROVE  /\ 1 \in DOMAIN Legs(e, t)
           /\ Legs(e, t)[1].product = e.product
           /\ Legs(e, t)[1].zone = IF e.type = "PRODUCT_MOVED" THEN e.from ELSE e.zone
<1>1. CASE e.type = "PRODUCT_RECEIVED"
    <2>1. Legs(e, t) = ReceivedLegs(e)
        BY <1>1 DEF Legs
    <2> QED BY <1>1, <2>1 DEF ReceivedLegs, Leg
<1>2. CASE e.type = "PRODUCT_SHIPPED"
    <2>1. Legs(e, t) = ShippedLegs(e)
        BY <1>2 DEF Legs
    <2> QED BY <1>2, <2>1 DEF ShippedLegs, Leg
<1>3. CASE e.type = "PRODUCT_MOVED"
    <2>1. Legs(e, t) = MovedLegs(e)
        BY <1>3 DEF Legs
    <2> QED BY <1>3, <2>1 DEF MovedLegs, Leg
<1>4. CASE e.type = "PRODUCT_RESERVED"
    <2>1. Legs(e, t) = ReservedLegs(e)
        BY <1>4 DEF Legs
    <2> QED BY <1>4, <2>1 DEF ReservedLegs, Leg
<1>5. CASE e.type = "PRODUCT_RELEASED"
    <2>1. Legs(e, t) = ReleasedLegs(e)
        BY <1>5 DEF Legs
    <2> QED BY <1>5, <2>1 DEF ReleasedLegs, Leg
<1>6. CASE e.type = "INVENTORY_COUNTED"
    <2>1. Legs(e, t) = CountedLegs(e, t)
        BY <1>6 DEF Legs
    <2> QED BY <1>6, <2>1 DEF CountedLegs, Leg
<1> QED BY <1>1, <1>2, <1>3, <1>4, <1>5, <1>6 DEF StockTypes

\* A settled event is refused.
LEMMA SettledRefused ==
    ASSUME NEW e \in Events, NEW t \in Tables, Settled(e, t)
    PROVE  Verdict(e, t) # "apply"
<1> SUFFICES ASSUME Verdict(e, t) = "apply" PROVE FALSE
    OBVIOUS
<1>1. CASE e.type \in StockTypes \cup {"INVENTORY_COUNTED", "PRODUCT_MOVED"}
    <2>1. ~StaleLeg(Legs(e, t)[1], e, t)
        BY <1>1, FirstLeg, AppliedPassed
    <2> QED BY <1>1, <2>1, FirstLeg DEF Settled, StaleLeg, StockTypes
<1>2. CASE e.type \in {"ORDER_CREATED", "ORDER_COMPLETED"}
    BY <1>2, AppliedPassed DEF Settled, OrderRefused, OrderAlreadyCompleted
<1>3. CASE e.type = "UNREADABLE"
    BY <1>3, AppliedPassed DEF Malformed
<1>4. e.type \in StockTypes \cup {"INVENTORY_COUNTED", "PRODUCT_MOVED", "ORDER_CREATED",
                                 "ORDER_COMPLETED", "UNREADABLE"}
    BY EventsAssumption DEF AllEvents, StockEvents, MoveEvents, CountEvents,
       OrderCreatedEvents, OrderCompletedEvents, UnreadableEvents
<1> QED BY <1>1, <1>2, <1>3, <1>4

\* An event is settled by being applied ...
LEMMA AppliedSettles ==
    ASSUME NEW e \in Events, NEW t \in Tables, Verdict(e, t) = "apply"
    PROVE  Settled(e, Written(e, t))
<1> DEFINE w == Written(e, t)
<1>1. CASE e.type \in StockTypes \cup {"INVENTORY_COUNTED", "PRODUCT_MOVED"}
    <2>1. /\ w.ipz[<<Legs(e, t)[1].product, Legs(e, t)[1].zone>>].ts = e.ts
          /\ e.ts \in Nat
        BY <1>1, FirstLeg, LegRowWritten, EventKinds
    <2> HIDE DEF w
    <2> QED BY <1>1, <2>1, FirstLeg DEF Settled, StockTypes, w
<1>2. CASE e.type = "ORDER_CREATED"
    <2>1. e.order \in Orders
        BY <1>2, EventKinds DEF OrderCreatedEvents
    <2>2. w.orders[e.order] = [status |-> "CREATED", items |-> e.items, ts |-> e.ts]
        BY <1>2, <2>1, OrderWritten
    <2> HIDE DEF w
    <2> QED BY <1>2, <2>2 DEF Settled, StockTypes, w
<1>3. CASE e.type = "ORDER_COMPLETED"
    <2>1. e.order \in Orders
        BY <1>3, EventKinds DEF OrderCompletedEvents
    <2>2. w.orders[e.order] = [status |-> "COMPLETED",
                               items |-> t.orders[e.order].items, ts |-> e.ts]
        BY <1>3, <2>1, OrderWritten
    <2> HIDE DEF w
    <2> QED BY <1>3, <2>2 DEF Settled, StockTypes, w
<1>4. CASE e.type \notin StockTypes \cup {"INVENTORY_COUNTED", "PRODUCT_MOVED",
                                         "ORDER_CREATED", "ORDER_COMPLETED"}
    BY <1>4 DEF Settled
<1> QED BY <1>1, <1>2, <1>3, <1>4

\* ... and stays settled whatever is applied later.
LEMMA SettledStays ==
    ASSUME NEW e \in Events, NEW t \in Tables, Settled(e, t),
           NEW d \in Events, Verdict(d, t) = "apply"
    PROVE  Settled(e, Written(d, t))
<1> DEFINE w == Written(d, t)
<1>1. ASSUME NEW p \in Products, NEW z \in Zones, t.ipz[<<p, z>>].ts >= e.ts
      PROVE  w.ipz[<<p, z>>].ts >= e.ts
    <2>1. \/ w.ipz[<<p, z>>] = t.ipz[<<p, z>>]
          \/ w.ipz[<<p, z>>].ts = d.ts /\ d.ts > t.ipz[<<p, z>>].ts
        BY RowAdvances
    <2>2. t.ipz[<<p, z>>].ts \in Nat /\ e.ts \in Nat /\ d.ts \in Nat
        BY EventKinds DEF Tables, ZoneRows
    <2> HIDE DEF w
    <2> QED BY <1>1, <2>1, <2>2
<1>2. CASE e.type \in StockTypes \cup {"INVENTORY_COUNTED"}
    <2>1. e.product \in Products /\ e.zone \in Zones
        BY <1>2, EventKinds DEF StockEvents, CountEvents
    <2>2. t.ipz[<<e.product, e.zone>>].ts >= e.ts
        BY <1>2 DEF Settled
    <2> HIDE DEF w
    <2> QED BY <1>1, <1>2, <2>1, <2>2 DEF Settled, StockTypes, w
<1>3. CASE e.type = "PRODUCT_MOVED"
    <2>1. e.product \in Products /\ e.from \in Zones
        BY <1>3, EventKinds DEF MoveEvents
    <2>2. t.ipz[<<e.product, e.from>>].ts >= e.ts
        BY <1>3 DEF Settled
    <2> HIDE DEF w
    <2> QED BY <1>1, <1>3, <2>1, <2>2 DEF Settled, StockTypes, w
<1>4. CASE e.type \in {"ORDER_CREATED", "ORDER_COMPLETED"}
    <2>1. e.order \in Orders
        BY <1>4, EventKinds DEF OrderCreatedEvents, OrderCompletedEvents
    <2> DEFINE old == t.orders[e.order]
               new == w.orders[e.order]
    <2>2. /\ old.status # "NONE"
          /\ e.type = "ORDER_COMPLETED" => old.status = "COMPLETED"
        BY <1>4 DEF Settled
    <2>3. CASE new = old
        BY <1>4, <2>2, <2>3 DEF Settled, StockTypes
    <2>4. CASE d.type = "ORDER_CREATED" /\ d.order = e.order
        BY <2>2, <2>4, AppliedPassed DEF OrderRefused
    <2>5. CASE d.type = "ORDER_COMPLETED" /\ d.order = e.order
        <3>1. new = [status |-> "COMPLETED", items |-> old.items, ts |-> d.ts]
            BY <2>1, <2>5, OrderWritten
        <3> HIDE DEF old, w
        <3>2. new.status = "COMPLETED"
            BY <3>1
        <3> QED BY <1>4, <3>2 DEF Settled, StockTypes, w
    <2>6. \/ new = old
          \/ d.type \in {"ORDER_CREATED", "ORDER_COMPLETED"} /\ d.order = e.order
        BY <2>1, OrderWritten
    <2> QED BY <2>3, <2>4, <2>5, <2>6
<1>5. CASE e.type \notin StockTypes \cup {"INVENTORY_COUNTED", "PRODUCT_MOVED",
                                         "ORDER_CREATED", "ORDER_COMPLETED"}
    BY <1>5 DEF Settled
<1> QED BY <1>2, <1>3, <1>4, <1>5

\* Nothing is applied in the empty tables.
LEMMA AppliedIsSettledInit == Init => AppliedIsSettled
BY DEF Init, EmptyTables, Applied, AppliedIsSettled

\* The events applied so far are settled, and so is the one applied next.
LEMMA AppliedIsSettledNext ==
    TypeOK /\ AppliedIsSettled /\ [Next]_tables => AppliedIsSettled'
<1> SUFFICES ASSUME TypeOK, AppliedIsSettled, [Next]_tables PROVE AppliedIsSettled'
    OBVIOUS
<1>1. CASE UNCHANGED tables
    BY <1>1 DEF AppliedIsSettled
<1>2. CASE Next
    <2>1. PICK d \in Events : Verdict(d, tables) = "apply" /\ tables' = Written(d, tables)
        BY <1>2, NextApplies
    <2>2. tables \in Tables
        BY DEF TypeOK
    <2>3. ASSUME NEW e \in Applied(Written(d, tables)) PROVE Settled(e, Written(d, tables))
        <3>1. CASE e \in Applied(tables)
            <4>1. e \in Events
                BY <2>2, <3>1 DEF Applied, Tables, HistoryRows
            <4> QED BY <2>1, <2>2, <3>1, <4>1, SettledStays DEF AppliedIsSettled
        <3>2. CASE e = d
            BY <2>1, <2>2, <3>2, AppliedSettles
        <3>3. e \in Applied(tables) \/ e = d
            BY <2>2, HistoryWritten DEF Applied
        <3> QED BY <3>1, <3>2, <3>3
    <2> QED BY <2>1, <2>3 DEF AppliedIsSettled
<1> QED BY <1>1, <1>2

\* An event that was applied is refused for ever, without any record of its id:
\* redelivering or republishing it after its row in processed_events expired
\* changes nothing (init.cql:70, 76; handlers.py:62-79, 460, 519).
THEOREM NeverReapplied == Spec => []NoReapplication
<1>1. TypeOK /\ AppliedIsSettled => NoReapplication
    <2> SUFFICES ASSUME TypeOK, AppliedIsSettled, NEW e \in Applied(tables)
                 PROVE  Verdict(e, tables) # "apply"
        BY DEF NoReapplication
    <2>1. tables \in Tables
        BY DEF TypeOK
    <2>2. e \in Events
        BY <2>1 DEF Applied, Tables, HistoryRows
    <2> QED BY <2>1, <2>2, SettledRefused DEF AppliedIsSettled
<1> QED BY <1>1, TypeCorrect, AppliedIsSettledInit, AppliedIsSettledNext, PTL DEF Spec

-----------------------------------------------------------------------------
(* The denormalised tables agree.                                          *)

\* No two places of a sequence of items, or of legs, name the same row.
Distinct(seq) ==
    \A i, j \in DOMAIN seq :
        seq[i].product = seq[j].product /\ seq[i].zone = seq[j].zone => i = j

\* The handler of ORDER_CREATED computes every item from the row as it was
\* read, so it counts an order with two items for one row wrongly.
NoRepeatedItems ==
    \A e \in Events : e.type = "ORDER_CREATED" => Distinct(e.items)

StoredItemsDistinct == \A o \in Orders : Distinct(tables.orders[o].items)

\* The legs of an applied event are of different rows: a move of a zone onto
\* itself is refused, and orders have different items.
LEMMA LegsDistinct ==
    ASSUME NoRepeatedItems, NEW e \in Events, NEW t \in Tables,
           Verdict(e, t) = "apply", \A o \in Orders : Distinct(t.orders[o].items)
    PROVE  Distinct(Legs(e, t))
<1>1. CASE e.type \in StockTypes \cup {"INVENTORY_COUNTED"}
    <2>1. \E leg : Legs(e, t) = <<leg>>
        BY <1>1 DEF Legs, StockTypes, ReceivedLegs, ShippedLegs, ReservedLegs,
                    ReleasedLegs, CountedLegs
    <2>2. DOMAIN Legs(e, t) = {1}
        BY <2>1
    <2> QED BY <2>2 DEF Distinct
<1>2. CASE e.type = "PRODUCT_MOVED"
    <2>1. e.from # e.to
        BY <1>2, AppliedPassed DEF Malformed
    <2>2. Legs(e, t) = MovedLegs(e)
        BY <1>2 DEF Legs
    <2> QED BY <2>1, <2>2 DEF Distinct, MovedLegs, Leg
<1>3. CASE e.type = "ORDER_CREATED"
    <2>1. Legs(e, t) = OrderCreatedLegs(e)
        BY <1>3 DEF Legs
    <2>2. Distinct(e.items)
        BY <1>3 DEF NoRepeatedItems
    <2> QED BY <2>1, <2>2 DEF Distinct, OrderCreatedLegs, Leg
<1>4. CASE e.type = "ORDER_COMPLETED"
    <2> DEFINE items == t.orders[e.order].items
    <2>1. Legs(e, t) = [i \in DOMAIN items |-> Leg(items[i].product, items[i].zone,
                                                  0, -items[i].quantity)]
        <3>1. Legs(e, t) = OrderCompletedLegs(e, t)
            BY <1>4 DEF Legs
        <3> QED BY <3>1 DEF OrderCompletedLegs
    <2>2. Distinct(items)
        BY <1>4, EventKinds DEF OrderCompletedEvents
    <2> HIDE DEF items
    <2> QED BY <2>1, <2>2 DEF Distinct, Leg
<1>5. CASE e.type = "UNREADABLE"
    BY <1>5, AppliedPassed DEF Malformed
<1>6. e.type \in StockTypes \cup {"INVENTORY_COUNTED", "PRODUCT_MOVED", "ORDER_CREATED",
                                 "ORDER_COMPLETED", "UNREADABLE"}
    BY EventsAssumption DEF AllEvents, StockEvents, MoveEvents, CountEvents,
       OrderCreatedEvents, OrderCompletedEvents, UnreadableEvents
<1> QED BY <1>1, <1>2, <1>3, <1>4, <1>5, <1>6

\* When the legs are of different rows, each changes its own row by exactly its
\* quantities.
LEMMA LegExact ==
    ASSUME NEW e \in Events, NEW t \in Tables, Distinct(Legs(e, t)),
           NEW i \in DOMAIN Legs(e, t)
    PROVE  LET leg == Legs(e, t)[i]
               k == <<leg.product, leg.zone>>
           IN  /\ Written(e, t).ipz[k].available = t.ipz[k].available + leg.available
               /\ Written(e, t).ipz[k].reserved = t.ipz[k].reserved + leg.reserved
<1> DEFINE legs == Legs(e, t)
           p == legs[i].product
           z == legs[i].zone
<1>1. p \in Products /\ z \in Zones
    BY LegRowWritten
<1>2. \A j \in At(legs, <<p, z>>) : j = i
    BY DEF At, Distinct
<1>3. At(legs, <<p, z>>) # {}
    BY DEF At
<1> HIDE DEF p, z
<1>4. \E j \in At(legs, <<p, z>>) :
        Written(e, t).ipz[<<p, z>>].available = t.ipz[<<p, z>>].available + legs[j].available
    BY <1>1, <1>3, RowWritten
<1>5. \E j \in At(legs, <<p, z>>) :
        Written(e, t).ipz[<<p, z>>].reserved = t.ipz[<<p, z>>].reserved + legs[j].reserved
    BY <1>1, <1>3, RowWritten
<1> QED BY <1>2, <1>4, <1>5 DEF p, z

\* Then the rows of a product over all zones change by what its legs add up to.
LEMMA ZonesChange ==
    ASSUME NEW e \in Events, NEW t \in Tables, Distinct(Legs(e, t)),
           Verdict(e, t) = "apply", NEW p \in Products
    PROVE  /\ SumFunctionOnSet([z \in Zones |-> Written(e, t).ipz[<<p, z>>].available], Zones)
                = SumFunctionOnSet([z \in Zones |-> t.ipz[<<p, z>>].available], Zones)
                    + AvailableDelta(Legs(e, t), p)
           /\ SumFunctionOnSet([z \in Zones |-> Written(e, t).ipz[<<p, z>>].reserved], Zones)
                = SumFunctionOnSet([z \in Zones |-> t.ipz[<<p, z>>].reserved], Zones)
                    + ReservedDelta(Legs(e, t), p)
<1> DEFINE legs == Legs(e, t)
           w == Written(e, t)
           I == ProductLegs(legs, p)
           h == [i \in DOMAIN legs |-> legs[i].zone]
<1>1. IsFiniteSet(Zones)
    BY ZonesAssumption
<1>2. IsFiniteSet(I) /\ \A i \in I : i \in DOMAIN legs /\ legs[i] \in LegRows /\ legs[i].product = p
    <2>1. legs \in Seq(LegRows)
        BY LegsType
    <2> HIDE DEF legs
    <2>2. IsFiniteSet(DOMAIN legs) /\ \A i \in DOMAIN legs : legs[i] \in LegRows
        BY <2>1, LegsFinite
    <2>3. \A i \in I : i \in DOMAIN legs /\ legs[i].product = p
        BY DEF ProductLegs
    <2>4. I \subseteq DOMAIN legs
        BY <2>3
    <2> HIDE DEF I
    <2> QED BY <2>2, <2>3, <2>4, FS_Subset
<1>3. /\ \A i \in I : h[i] \in Zones
      /\ \A i, j \in I : h[i] = h[j] => i = j
    <2>1. \A i \in I : h[i] \in Zones
        BY <1>2 DEF LegRows
    <2>2. \A i, j \in I : h[i] = h[j] => i = j
        BY <1>2 DEF Distinct
    <2> QED BY <2>1, <2>2
<1>4. \A z \in Zones : (\A i \in I : h[i] # z) => w.ipz[<<p, z>>] = t.ipz[<<p, z>>]
    <2> SUFFICES ASSUME NEW z \in Zones, \A i \in I : h[i] # z
                 PROVE  w.ipz[<<p, z>>] = t.ipz[<<p, z>>]
        OBVIOUS
    <2>1. At(legs, <<p, z>>) = {}
        BY DEF At, ProductLegs
    <2> QED BY <2>1, RowKept
<1>5. ASSUME NEW z \in Zones
      PROVE  /\ t.ipz[<<p, z>>].available \in Int /\ t.ipz[<<p, z>>].reserved \in Int
             /\ w.ipz[<<p, z>>].available \in Int /\ w.ipz[<<p, z>>].reserved \in Int
    <2>1. w \in Tables
        BY WrittenType
    <2> HIDE DEF w
    <2> QED BY <2>1 DEF Tables, ZoneRows
<1>6. SumFunctionOnSet([z \in Zones |-> w.ipz[<<p, z>>].available], Zones)
        = SumFunctionOnSet([z \in Zones |-> t.ipz[<<p, z>>].available], Zones)
            + AvailableDelta(legs, p)
    <2> DEFINE f == [z \in Zones |-> t.ipz[<<p, z>>].available]
               g == [z \in Zones |-> w.ipz[<<p, z>>].available]
               d == [i \in DOMAIN legs |-> legs[i].available]
    <2>1. \A z \in Zones : f[z] \in Int /\ g[z] \in Int
        BY <1>5
    <2>2. \A i \in I : d[i] \in Int
        BY <1>2 DEF LegRows
    <2>3. ASSUME NEW i \in I PROVE g[h[i]] = f[h[i]] + d[i]
        <3>1. i \in DOMAIN legs /\ legs[i].product = p /\ h[i] = legs[i].zone /\ h[i] \in Zones
            BY <1>2, <1>3
        <3>2. w.ipz[<<legs[i].product, legs[i].zone>>].available
                = t.ipz[<<legs[i].product, legs[i].zone>>].available + legs[i].available
            BY <3>1, LegExact
        <3> HIDE DEF w, legs, h, I
        <3> QED BY <3>1, <3>2
    <2>4. \A z \in Zones : (\A i \in I : h[i] # z) => g[z] = f[z]
        BY <1>4
    <2>5. AvailableDelta(legs, p) = SumFunctionOnSet(d, I)
        BY DEF AvailableDelta
    <2> HIDE DEF f, g, d, I, h
    <2>6. IsFiniteSet(I)
        BY <1>2
    <2>7. SumFunctionOnSet(g, Zones) = SumFunctionOnSet(f, Zones) + SumFunctionOnSet(d, I)
        BY ONLY <1>1, <2>6, <1>3, <2>1, <2>2, <2>3, <2>4, SumScatter
    <2> QED BY <2>5, <2>7 DEF f, g
<1>7. SumFunctionOnSet([z \in Zones |-> w.ipz[<<p, z>>].reserved], Zones)
        = SumFunctionOnSet([z \in Zones |-> t.ipz[<<p, z>>].reserved], Zones)
            + ReservedDelta(legs, p)
    <2> DEFINE f == [z \in Zones |-> t.ipz[<<p, z>>].reserved]
               g == [z \in Zones |-> w.ipz[<<p, z>>].reserved]
               d == [i \in DOMAIN legs |-> legs[i].reserved]
    <2>1. \A z \in Zones : f[z] \in Int /\ g[z] \in Int
        BY <1>5
    <2>2. \A i \in I : d[i] \in Int
        BY <1>2 DEF LegRows
    <2>3. ASSUME NEW i \in I PROVE g[h[i]] = f[h[i]] + d[i]
        <3>1. i \in DOMAIN legs /\ legs[i].product = p /\ h[i] = legs[i].zone /\ h[i] \in Zones
            BY <1>2, <1>3
        <3>2. w.ipz[<<legs[i].product, legs[i].zone>>].reserved
                = t.ipz[<<legs[i].product, legs[i].zone>>].reserved + legs[i].reserved
            BY <3>1, LegExact
        <3> HIDE DEF w, legs, h, I
        <3> QED BY <3>1, <3>2
    <2>4. \A z \in Zones : (\A i \in I : h[i] # z) => g[z] = f[z]
        BY <1>4
    <2>5. ReservedDelta(legs, p) = SumFunctionOnSet(d, I)
        BY DEF ReservedDelta
    <2> HIDE DEF f, g, d, I, h
    <2>6. IsFiniteSet(I)
        BY <1>2
    <2>7. SumFunctionOnSet(g, Zones) = SumFunctionOnSet(f, Zones) + SumFunctionOnSet(d, I)
        BY ONLY <1>1, <2>6, <1>3, <2>1, <2>2, <2>3, <2>4, SumScatter
    <2> QED BY <2>5, <2>7 DEF f, g
<1> QED BY <1>6, <1>7

\* Empty tables agree, and store no items.
LEMMA AgreementInit == Init => TablesAgree /\ StoredItemsDistinct
<1> SUFFICES ASSUME Init PROVE TablesAgree /\ StoredItemsDistinct
    OBVIOUS
<1>1. MirrorAgrees
    BY DEF Init, EmptyTables, NoStock, MirrorAgrees
<1>2. ASSUME NEW p \in Products
      PROVE  /\ tables.ip[p].available = 0 /\ tables.ip[p].reserved = 0
             /\ \A z \in Zones : tables.ipz[<<p, z>>].available = 0
             /\ \A z \in Zones : tables.ipz[<<p, z>>].reserved = 0
    BY DEF Init, EmptyTables, NoStock
<1>3. SumFunctionOnSet([z \in Zones |-> 0], Zones) = 0
    <2> DEFINE f == [z \in Zones |-> 0]
    <2>1. IsFiniteSet(Zones) /\ \A z \in Zones : f[z] = 0
        BY ZonesAssumption
    <2> HIDE DEF f
    <2>2. SumFunctionOnSet(f, Zones) = 0
        BY <2>1, SumZero
    <2> QED BY <2>2 DEF f
<1>4. TotalsAgree
    <2> SUFFICES ASSUME NEW p \in Products
                 PROVE  /\ tables.ip[p].available =
                             SumFunctionOnSet([z \in Zones |-> tables.ipz[<<p, z>>].available], Zones)
                        /\ tables.ip[p].reserved =
                             SumFunctionOnSet([z \in Zones |-> tables.ipz[<<p, z>>].reserved], Zones)
        BY DEF TotalsAgree
    <2>1. /\ [z \in Zones |-> tables.ipz[<<p, z>>].available] = [z \in Zones |-> 0]
          /\ [z \in Zones |-> tables.ipz[<<p, z>>].reserved] = [z \in Zones |-> 0]
        BY <1>2
    <2> QED BY <1>2, <1>3, <2>1
<1>5. StoredItemsDistinct
    BY DEF Init, EmptyTables, StoredItemsDistinct, Distinct
<1> QED BY <1>1, <1>4, <1>5 DEF TablesAgree

\* An applied event keeps the tables agreed, in their three parts.
LEMMA AgreementNext ==
    ASSUME NoRepeatedItems
    PROVE  TypeOK /\ TablesAgree /\ StoredItemsDistinct /\ [Next]_tables
             => TablesAgree' /\ StoredItemsDistinct'
<1> SUFFICES ASSUME TypeOK, TablesAgree, StoredItemsDistinct, [Next]_tables
             PROVE  TablesAgree' /\ StoredItemsDistinct'
    OBVIOUS
<1>1. CASE UNCHANGED tables
    BY <1>1 DEF TablesAgree, MirrorAgrees, TotalsAgree, StoredItemsDistinct
<1>2. CASE Next
    <2>1. PICK e \in Events : Verdict(e, tables) = "apply" /\ tables' = Written(e, tables)
        BY <1>2, NextApplies
    <2>2. tables \in Tables
        BY DEF TypeOK
    <2> DEFINE w == Written(e, tables)
    <2>3. MirrorAgrees'
        <3>1. ASSUME NEW p \in Products, NEW z \in Zones
              PROVE  w.iz[<<z, p>>] = [available |-> w.ipz[<<p, z>>].available,
                                       reserved |-> w.ipz[<<p, z>>].reserved,
                                       ts |-> w.ipz[<<p, z>>].ts]
            <4>1. CASE At(Legs(e, tables), <<p, z>>) = {}
                <5>1. w.ipz[<<p, z>>] = tables.ipz[<<p, z>>] /\ w.iz[<<z, p>>] = tables.iz[<<z, p>>]
                    BY <2>2, <4>1, RowKept
                <5> HIDE DEF w
                <5> QED BY <5>1 DEF TablesAgree, MirrorAgrees
            <4>2. CASE At(Legs(e, tables), <<p, z>>) # {}
                <5> DEFINE row == w.ipz[<<p, z>>]
                <5>1. row = [available |-> row.available, reserved |-> row.reserved,
                             ts |-> e.ts, supplier |-> row.supplier]
                    BY <2>2, <4>2, RowWritten
                <5>2. w.iz[<<z, p>>] = [available |-> row.available,
                                        reserved |-> row.reserved, ts |-> e.ts]
                    BY <2>2, <4>2, MirrorWritten
                <5> HIDE DEF row
                <5>3. row.ts = e.ts
                    BY <5>1
                <5> QED BY <5>2, <5>3 DEF row
            <4> QED BY <4>1, <4>2
        <3> QED BY <2>1, <3>1 DEF MirrorAgrees
    <2>4. TotalsAgree'
        <3>1. ASSUME NEW p \in Products
              PROVE  /\ w.ip[p].available =
                          SumFunctionOnSet([z \in Zones |-> w.ipz[<<p, z>>].available], Zones)
                     /\ w.ip[p].reserved =
                          SumFunctionOnSet([z \in Zones |-> w.ipz[<<p, z>>].reserved], Zones)
            <4>1. Distinct(Legs(e, tables))
                BY <2>1, <2>2, LegsDistinct DEF StoredItemsDistinct
            <4>2. /\ tables.ip[p].available =
                       SumFunctionOnSet([z \in Zones |-> tables.ipz[<<p, z>>].available], Zones)
                  /\ tables.ip[p].reserved =
                       SumFunctionOnSet([z \in Zones |-> tables.ipz[<<p, z>>].reserved], Zones)
                BY DEF TablesAgree, TotalsAgree
            <4>3. /\ w.ip[p].available = tables.ip[p].available + AvailableDelta(Legs(e, tables), p)
                  /\ w.ip[p].reserved = tables.ip[p].reserved + ReservedDelta(Legs(e, tables), p)
                BY <2>2, TotalsWritten
            <4>4. /\ SumFunctionOnSet([z \in Zones |-> w.ipz[<<p, z>>].available], Zones)
                       = SumFunctionOnSet([z \in Zones |-> tables.ipz[<<p, z>>].available], Zones)
                           + AvailableDelta(Legs(e, tables), p)
                  /\ SumFunctionOnSet([z \in Zones |-> w.ipz[<<p, z>>].reserved], Zones)
                       = SumFunctionOnSet([z \in Zones |-> tables.ipz[<<p, z>>].reserved], Zones)
                           + ReservedDelta(Legs(e, tables), p)
                BY <2>1, <2>2, <4>1, ZonesChange
            <4> QED BY ONLY <4>2, <4>3, <4>4
        <3> QED BY <2>1, <3>1 DEF TotalsAgree
    <2>5. StoredItemsDistinct'
        <3>1. ASSUME NEW o \in Orders PROVE Distinct(w.orders[o].items)
            <4>1. Distinct(tables.orders[o].items)
                BY DEF StoredItemsDistinct
            <4>2. e.type = "ORDER_CREATED" => Distinct(e.items)
                BY DEF NoRepeatedItems
            <4> DEFINE row == w.orders[o]
            <4>3. row = IF e.type = "ORDER_CREATED" /\ e.order = o
                        THEN [status |-> "CREATED", items |-> e.items, ts |-> e.ts]
                        ELSE IF e.type = "ORDER_COMPLETED" /\ e.order = o
                        THEN [status |-> "COMPLETED", items |-> tables.orders[o].items, ts |-> e.ts]
                        ELSE tables.orders[o]
                BY <2>2, OrderWritten
            <4> HIDE DEF row
            <4>4. \/ row.items = tables.orders[o].items
                  \/ e.type = "ORDER_CREATED" /\ row.items = e.items
                BY <4>3
            <4>5. Distinct(row.items)
                BY <4>1, <4>2, <4>4
            <4> QED BY <4>5 DEF row
        <3> QED BY <2>1, <3>1 DEF StoredItemsDistinct
    <2> QED BY <2>3, <2>4, <2>5 DEF TablesAgree
<1> QED BY <1>1, <1>2

\* As long as no order names a row twice, inventory_by_zone mirrors
\* inventory_by_product_zone and inventory_by_product sums it up, for any
\* number of products and zones, although every handler updates the three
\* tables by separate computations (init.cql:7-8, handlers.py:188-258).
THEOREM TablesStayAgreed ==
    ASSUME NoRepeatedItems
    PROVE  Spec => []TablesAgree
<1>1. Init => TablesAgree /\ StoredItemsDistinct
    BY AgreementInit
<1>2. TypeOK /\ TablesAgree /\ StoredItemsDistinct /\ [Next]_tables
        => TablesAgree' /\ StoredItemsDistinct'
    BY AgreementNext
<1> QED BY <1>1, <1>2, TypeCorrect, PTL DEF Spec

-----------------------------------------------------------------------------
(* The audit log explains the totals.                                      *)

\* The sums the property is stated with, over one more row of the log.  The
\* community operator takes the effect as an operator, SumLemmas as a function.
LEMMA AvailableSum ==
    ASSUME NEW S, IsFiniteSet(S)
    PROVE  MapThenSumSet(AvailableEffect, S) =
              SumFunctionOnSet([h \in S |-> AvailableEffect(h)], S)
<1> DEFINE f == [h \in S |-> AvailableEffect(h)]
           Solves(g) == g = [s \in SUBSET S |->
                                IF s = {} THEN 0
                                ELSE AvailableEffect(PickIndex(s)) + g[s \ {PickIndex(s)}]]
           g == CHOOSE g : Solves(g)
           k == CHOOSE k : SolvesSum(k, f, S)
<1>1. MapThenSumSet(AvailableEffect, S) = g[S]
    BY DEF MapThenSumSet, MapThenFoldSet, PickIndex
<1>2. SumFunctionOnSet(f, S) = k[S]
    BY SumIsSolution
<1>3. ASSUME NEW c PROVE Solves(c) <=> SolvesSum(c, f, S)
    <2>1. \A s \in SUBSET S : s # {} => f[PickIndex(s)] = AvailableEffect(PickIndex(s))
        BY PickMember
    <2> HIDE DEF f
    <2> QED BY <2>1 DEF SolvesSum
<1>4. SolvesSum(k, f, S)
    <2> HIDE DEF f
    <2> QED BY SolutionExists
<1>5. Solves(g)
    <2>1. Solves(k)
        BY <1>3, <1>4
    <2> HIDE DEF Solves, k
    <2> QED BY <2>1
<1>6. SolvesSum(g, f, S)
    BY <1>3, <1>5
<1>7. g[S] = k[S]
    <2> HIDE DEF g, k, f
    <2> QED BY <1>4, <1>6, SolutionsAgree
<1> QED BY <1>1, <1>2, <1>7

\* The same for the reserved quantity.
LEMMA ReservedSum ==
    ASSUME NEW S, IsFiniteSet(S)
    PROVE  MapThenSumSet(ReservedEffect, S) =
              SumFunctionOnSet([h \in S |-> ReservedEffect(h)], S)
<1> DEFINE f == [h \in S |-> ReservedEffect(h)]
           Solves(g) == g = [s \in SUBSET S |->
                                IF s = {} THEN 0
                                ELSE ReservedEffect(PickIndex(s)) + g[s \ {PickIndex(s)}]]
           g == CHOOSE g : Solves(g)
           k == CHOOSE k : SolvesSum(k, f, S)
<1>1. MapThenSumSet(ReservedEffect, S) = g[S]
    BY DEF MapThenSumSet, MapThenFoldSet, PickIndex
<1>2. SumFunctionOnSet(f, S) = k[S]
    BY SumIsSolution
<1>3. ASSUME NEW c PROVE Solves(c) <=> SolvesSum(c, f, S)
    <2>1. \A s \in SUBSET S : s # {} => f[PickIndex(s)] = ReservedEffect(PickIndex(s))
        BY PickMember
    <2> HIDE DEF f
    <2> QED BY <2>1 DEF SolvesSum
<1>4. SolvesSum(k, f, S)
    <2> HIDE DEF f
    <2> QED BY SolutionExists
<1>5. Solves(g)
    <2>1. Solves(k)
        BY <1>3, <1>4
    <2> HIDE DEF Solves, k
    <2> QED BY <2>1
<1>6. SolvesSum(g, f, S)
    BY <1>3, <1>5
<1>7. g[S] = k[S]
    <2> HIDE DEF g, k, f
    <2> QED BY <1>4, <1>6, SolutionsAgree
<1> QED BY <1>1, <1>2, <1>7


\* One more row adds its own effect.
LEMMA AvailableSumGrows ==
    ASSUME NEW S, IsFiniteSet(S), NEW r, r \notin S,
           \A h \in S \cup {r} : AvailableEffect(h) \in Int
    PROVE  /\ MapThenSumSet(AvailableEffect, S \cup {r}) =
                 MapThenSumSet(AvailableEffect, S) + AvailableEffect(r)
           /\ MapThenSumSet(AvailableEffect, S) \in Int
<1> DEFINE R == S \cup {r}
           f == [h \in R |-> AvailableEffect(h)]
           g == [h \in S |-> AvailableEffect(h)]
<1>1. IsFiniteSet(R) /\ R \ {r} = S /\ r \in R
    BY FS_AddElement
<1>2. \A h \in R : f[h] \in Int
    OBVIOUS
<1>3. f[r] = AvailableEffect(r) /\ \A h \in S : f[h] = g[h] /\ g[h] \in Int
    OBVIOUS
<1>4. /\ MapThenSumSet(AvailableEffect, R) = SumFunctionOnSet(f, R)
      /\ MapThenSumSet(AvailableEffect, S) = SumFunctionOnSet(g, S)
    BY <1>1, AvailableSum
<1> HIDE DEF f, g, R
<1>5. SumFunctionOnSet(f, R) = f[r] + SumFunctionOnSet(f, S)
    BY <1>1, <1>2, SumRemove
<1>6. SumFunctionOnSet(f, S) = SumFunctionOnSet(g, S) /\ SumFunctionOnSet(g, S) \in Int
    BY <1>3, SumEqual, SumType
<1>7. f[r] \in Int
    BY <1>1, <1>2
<1> QED BY <1>3, <1>4, <1>5, <1>6, <1>7 DEF R

\* One more row adds its own effect.
LEMMA ReservedSumGrows ==
    ASSUME NEW S, IsFiniteSet(S), NEW r, r \notin S,
           \A h \in S \cup {r} : ReservedEffect(h) \in Int
    PROVE  /\ MapThenSumSet(ReservedEffect, S \cup {r}) =
                 MapThenSumSet(ReservedEffect, S) + ReservedEffect(r)
           /\ MapThenSumSet(ReservedEffect, S) \in Int
<1> DEFINE R == S \cup {r}
           f == [h \in R |-> ReservedEffect(h)]
           g == [h \in S |-> ReservedEffect(h)]
<1>1. IsFiniteSet(R) /\ R \ {r} = S /\ r \in R
    BY FS_AddElement
<1>2. \A h \in R : f[h] \in Int
    OBVIOUS
<1>3. f[r] = ReservedEffect(r) /\ \A h \in S : f[h] = g[h] /\ g[h] \in Int
    OBVIOUS
<1>4. /\ MapThenSumSet(ReservedEffect, R) = SumFunctionOnSet(f, R)
      /\ MapThenSumSet(ReservedEffect, S) = SumFunctionOnSet(g, S)
    BY <1>1, ReservedSum
<1> HIDE DEF f, g, R
<1>5. SumFunctionOnSet(f, R) = f[r] + SumFunctionOnSet(f, S)
    BY <1>1, <1>2, SumRemove
<1>6. SumFunctionOnSet(f, S) = SumFunctionOnSet(g, S) /\ SumFunctionOnSet(g, S) \in Int
    BY <1>3, SumEqual, SumType
<1>7. f[r] \in Int
    BY <1>1, <1>2
<1> QED BY <1>3, <1>4, <1>5, <1>6, <1>7 DEF R

\* The row of the audit log that an event adds for a product.
LogRow(e, t, p) ==
    [product |-> p, event |-> e, quantity |-> HistoryQuantity(e, Legs(e, t), p)]

\* What the legs of an event add up to when it has one leg.
LEMMA OneLeg ==
    ASSUME NEW leg \in LegRows, NEW p, leg.product = p
    PROVE  AvailableDelta(<<leg>>, p) = leg.available /\ ReservedDelta(<<leg>>, p) = leg.reserved
<1> DEFINE av == [i \in DOMAIN <<leg>> |-> <<leg>>[i].available]
           rv == [i \in DOMAIN <<leg>> |-> <<leg>>[i].reserved]
<1>1. ProductLegs(<<leg>>, p) = {1}
    BY DEF ProductLegs
<1>2. av[1] = leg.available /\ rv[1] = leg.reserved /\ av[1] \in Int /\ rv[1] \in Int
    BY DEF LegRows
<1>3. /\ AvailableDelta(<<leg>>, p) = SumFunctionOnSet(av, {1})
      /\ ReservedDelta(<<leg>>, p) = SumFunctionOnSet(rv, {1})
    BY <1>1 DEF AvailableDelta, ReservedDelta
<1> HIDE DEF av, rv
<1> QED BY <1>2, <1>3, SumSingle

\* What the legs of a move add up to: nothing.
LEMMA TwoLegs ==
    ASSUME NEW p, NEW legs, DOMAIN legs = {1, 2},
           legs[1].product = p, legs[2].product = p,
           legs[1].available \in Int, legs[2].available = -legs[1].available,
           legs[1].reserved = 0, legs[2].reserved = 0
    PROVE  AvailableDelta(legs, p) = 0 /\ ReservedDelta(legs, p) = 0
<1> DEFINE av == [i \in DOMAIN legs |-> legs[i].available]
           rv == [i \in DOMAIN legs |-> legs[i].reserved]
<1>1. ProductLegs(legs, p) = {1, 2} /\ IsFiniteSet({1, 2}) /\ {1, 2} \ {1} = {2}
    <2>1. {1, 2} = {1} \cup {2} /\ IsFiniteSet({1})
        BY FS_Singleton
    <2>2. IsFiniteSet({1, 2})
        BY ONLY <2>1, FS_AddElement
    <2> QED BY <2>2 DEF ProductLegs
<1>2. av[1] \in Int /\ av[2] = -av[1] /\ \A i \in {1, 2} : av[i] \in Int /\ rv[i] = 0
    OBVIOUS
<1>3. /\ AvailableDelta(legs, p) = SumFunctionOnSet(av, {1, 2})
      /\ ReservedDelta(legs, p) = SumFunctionOnSet(rv, {1, 2})
    BY <1>1 DEF AvailableDelta, ReservedDelta
<1> HIDE DEF av, rv
<1>4. SumFunctionOnSet(av, {1, 2}) = av[1] + SumFunctionOnSet(av, {2})
    BY <1>1, <1>2, SumRemove
<1>5. SumFunctionOnSet(av, {2}) = av[2]
    BY <1>2, SumSingle
<1>6. SumFunctionOnSet(rv, {1, 2}) = 0
    BY <1>1, <1>2, SumZero
<1> QED BY <1>2, <1>3, <1>4, <1>5, <1>6

\* The legs of an order add up to opposite amounts, or change the reserved
\* quantity alone.
LEMMA OrderLegs ==
    ASSUME NEW legs \in Seq(LegRows), NEW p
    PROVE  /\ (\A i \in DOMAIN legs : legs[i].available = -legs[i].reserved)
                  => AvailableDelta(legs, p) = -ReservedDelta(legs, p)
           /\ (\A i \in DOMAIN legs : legs[i].available = 0) => AvailableDelta(legs, p) = 0
<1> DEFINE I == ProductLegs(legs, p)
           av == [i \in DOMAIN legs |-> legs[i].available]
           rv == [i \in DOMAIN legs |-> legs[i].reserved]
<1>1. IsFiniteSet(DOMAIN legs) /\ \A i \in DOMAIN legs : legs[i] \in LegRows
    BY LegsFinite
<1>2. IsFiniteSet(I) /\ I \subseteq DOMAIN legs
    BY <1>1, FS_Subset DEF ProductLegs
<1>3. AvailableDelta(legs, p) = SumFunctionOnSet(av, I) /\ ReservedDelta(legs, p) = SumFunctionOnSet(rv, I)
    BY DEF AvailableDelta, ReservedDelta
<1>4. ASSUME \A i \in DOMAIN legs : legs[i].available = -legs[i].reserved
      PROVE  SumFunctionOnSet(av, I) = -SumFunctionOnSet(rv, I)
    <2>1. \A i \in I : rv[i] \in Int /\ av[i] = -rv[i]
        BY <1>1, <1>2, <1>4 DEF LegRows
    <2> HIDE DEF I, av, rv
    <2> QED BY <1>2, <2>1, SumOpposite
<1>5. ASSUME \A i \in DOMAIN legs : legs[i].available = 0
      PROVE  SumFunctionOnSet(av, I) = 0
    <2>1. \A i \in I : av[i] = 0
        BY <1>2, <1>5
    <2> HIDE DEF I, av
    <2> QED BY <1>2, <2>1, SumZero
<1> QED BY <1>3, <1>4, <1>5

\* The row an event adds to the log for a product has the effect of the event
\* on the product's total, unless the event is a count.
LEMMA EffectRecorded ==
    ASSUME NEW e \in Events, NEW t \in Tables, NEW p \in Products,
           p \in {Legs(e, t)[i].product : i \in DOMAIN Legs(e, t)},
           e.type # "INVENTORY_COUNTED"
    PROVE  /\ AvailableEffect(LogRow(e, t, p)) = AvailableDelta(Legs(e, t), p)
           /\ ReservedEffect(LogRow(e, t, p)) = ReservedDelta(Legs(e, t), p)
<1> DEFINE legs == Legs(e, t)
           r == LogRow(e, t, p)
<1>1. /\ r.event.type = e.type
      /\ r.quantity = HistoryQuantity(e, legs, p)
    BY DEF LogRow
<1>2. PICK i \in DOMAIN legs : legs[i].product = p
    OBVIOUS
<1>3. CASE e.type \in StockTypes
    <2>1. e \in StockEvents /\ e.quantity \in Int /\ e.product \in Products /\ e.zone \in Zones
        BY <1>3, EventKinds DEF StockEvents
    <2>2. r.quantity = e.quantity
        BY <1>1, <1>3 DEF HistoryQuantity, StockTypes
    <2> DEFINE leg == legs[1]
    <2>3. /\ legs = <<leg>> /\ leg \in LegRows /\ leg.product = p
          /\ leg.available = IF e.type \in {"PRODUCT_RECEIVED", "PRODUCT_RELEASED"}
                             THEN e.quantity ELSE -e.quantity
          /\ leg.reserved = IF e.type = "PRODUCT_RESERVED" THEN e.quantity
                            ELSE IF e.type = "PRODUCT_RELEASED" THEN -e.quantity ELSE 0
        <3>1. \E a \in {e.quantity, -e.quantity}, b \in {0, e.quantity, -e.quantity} :
                 /\ legs = <<Leg(e.product, e.zone, a, b)>>
                 /\ a = IF e.type \in {"PRODUCT_RECEIVED", "PRODUCT_RELEASED"}
                        THEN e.quantity ELSE -e.quantity
                 /\ b = IF e.type = "PRODUCT_RESERVED" THEN e.quantity
                        ELSE IF e.type = "PRODUCT_RELEASED" THEN -e.quantity ELSE 0
            <4>1. CASE e.type = "PRODUCT_RECEIVED" BY <4>1 DEF Legs, ReceivedLegs
            <4>2. CASE e.type = "PRODUCT_SHIPPED" BY <4>2 DEF Legs, ShippedLegs
            <4>3. CASE e.type = "PRODUCT_RESERVED" BY <4>3 DEF Legs, ReservedLegs
            <4>4. CASE e.type = "PRODUCT_RELEASED" BY <4>4 DEF Legs, ReleasedLegs
            <4> QED BY <1>3, <4>1, <4>2, <4>3, <4>4 DEF StockTypes
        <3>2. PICK a \in {e.quantity, -e.quantity}, b \in {0, e.quantity, -e.quantity} :
                 /\ legs = <<Leg(e.product, e.zone, a, b)>>
                 /\ a = IF e.type \in {"PRODUCT_RECEIVED", "PRODUCT_RELEASED"}
                        THEN e.quantity ELSE -e.quantity
                 /\ b = IF e.type = "PRODUCT_RESERVED" THEN e.quantity
                        ELSE IF e.type = "PRODUCT_RELEASED" THEN -e.quantity ELSE 0
            BY <3>1
        <3>3. a \in Int /\ b \in Int
            BY <2>1
        <3> HIDE DEF legs
        <3>4. leg = Leg(e.product, e.zone, a, b) /\ legs = <<leg>> /\ leg.product = p
            BY <1>2, <3>2 DEF Leg
        <3> HIDE DEF leg
        <3> QED BY <2>1, <3>2, <3>3, <3>4 DEF Leg, LegRows
    <2> HIDE DEF leg, r
    <2>4. AvailableDelta(legs, p) = leg.available /\ ReservedDelta(legs, p) = leg.reserved
        <3> HIDE DEF legs
        <3> QED BY ONLY <2>3, OneLeg
    <2>5. AvailableEffect(r) = leg.available
        BY <1>1, <1>3, <2>2, <2>3 DEF AvailableEffect, StockTypes
    <2>6. ReservedEffect(r) = leg.reserved
        BY <1>1, <1>3, <2>2, <2>3 DEF ReservedEffect, StockTypes
    <2> QED BY <2>4, <2>5, <2>6 DEF r
<1>4. CASE e.type = "PRODUCT_MOVED"
    <2>1. e \in MoveEvents /\ e.quantity \in Int
        BY <1>4, EventKinds DEF MoveEvents
    <2>2. /\ DOMAIN legs = {1, 2} /\ legs[1].product = p /\ legs[2].product = p
          /\ legs[1].available \in Int /\ legs[2].available = -legs[1].available
          /\ legs[1].reserved = 0 /\ legs[2].reserved = 0
        <3>1. legs = <<Leg(e.product, e.from, -e.quantity, 0), Leg(e.product, e.to, e.quantity, 0)>>
            BY <1>4 DEF Legs, MovedLegs
        <3> QED BY <1>2, <2>1, <3>1 DEF Leg
    <2>3. AvailableDelta(legs, p) = 0 /\ ReservedDelta(legs, p) = 0
        <3> HIDE DEF legs
        <3> QED BY <2>2, TwoLegs
    <2>4. AvailableEffect(r) = 0 /\ ReservedEffect(r) = 0
        BY <1>1, <1>4 DEF AvailableEffect, ReservedEffect
    <2> QED BY <2>3, <2>4
<1>5. legs \in Seq(LegRows) /\ ReservedDelta(legs, p) \in Int
    BY LegsType, TotalsWritten
<1>6. CASE e.type = "ORDER_CREATED"
    <2>1. \A j \in DOMAIN legs : legs[j].available = -legs[j].reserved
        <3>1. legs = OrderCreatedLegs(e)
            BY <1>6 DEF Legs
        <3> QED BY <3>1 DEF OrderCreatedLegs, Leg
    <2>2. r.quantity = ReservedDelta(legs, p)
        BY <1>1, <1>6 DEF HistoryQuantity
    <2> HIDE DEF legs, r
    <2>3. AvailableDelta(legs, p) = -ReservedDelta(legs, p)
        BY <1>5, <2>1, OrderLegs
    <2>4. AvailableEffect(r) = -r.quantity /\ ReservedEffect(r) = r.quantity
        BY <1>1, <1>6 DEF AvailableEffect, ReservedEffect
    <2> QED BY <2>2, <2>3, <2>4 DEF legs, r
<1>7. CASE e.type = "ORDER_COMPLETED"
    <2>1. \A j \in DOMAIN legs : legs[j].available = 0
        <3> DEFINE items == t.orders[e.order].items
        <3>1. legs = [j \in DOMAIN items |->
                        Leg(items[j].product, items[j].zone, 0, -items[j].quantity)]
            BY <1>7 DEF Legs, OrderCompletedLegs
        <3> HIDE DEF legs, items
        <3> QED BY <3>1 DEF Leg
    <2>2. r.quantity = -ReservedDelta(legs, p)
        BY <1>1, <1>7 DEF HistoryQuantity
    <2> HIDE DEF legs, r
    <2>3. AvailableDelta(legs, p) = 0
        BY <1>5, <2>1, OrderLegs
    <2>4. AvailableEffect(r) = 0 /\ ReservedEffect(r) = -r.quantity
        BY <1>1, <1>7 DEF AvailableEffect, ReservedEffect
    <2> QED BY <1>5, <2>2, <2>3, <2>4 DEF legs, r
<1>8. e.type \in StockTypes \cup {"PRODUCT_MOVED", "ORDER_CREATED", "ORDER_COMPLETED"}
    <2>1. SUFFICES ASSUME e.type \notin StockTypes \cup {"PRODUCT_MOVED", "ORDER_CREATED",
                                                         "ORDER_COMPLETED"}
                   PROVE  FALSE
        OBVIOUS
    <2>2. legs = <<>>
        BY <2>1 DEF Legs, StockTypes
    <2> HIDE DEF legs
    <2> QED BY <1>2, <2>2
<1> QED BY <1>3, <1>4, <1>6, <1>7, <1>8

\* The log is finite and explains the totals.
LogExplains == IsFiniteSet(tables.history) /\ HistoryExplainsTotals

\* An event that is not in the log yet adds one row for each product it has
\* legs for, so that the sums change as the totals do.
LEMMA LogExplainsNext ==
    DistinctRows /\ TypeOK /\ AppliedIsSettled /\ LogExplains /\ [Next]_tables
        => LogExplains'
<1> SUFFICES ASSUME DistinctRows, TypeOK, AppliedIsSettled, LogExplains, Next PROVE LogExplains'
    BY DEF LogExplains, HistoryExplainsTotals
<1>1. PICK e \in Events : Verdict(e, tables) = "apply" /\ tables' = Written(e, tables)
    BY NextApplies
<1>2. tables \in Tables
    BY DEF TypeOK
<1> DEFINE legs == Legs(e, tables)
           w == Written(e, tables)
<1>5. e \notin Applied(tables)
    BY <1>1, <1>2, SettledRefused DEF AppliedIsSettled
<1>6. w.history = tables.history \cup HistoryOf(e, tables)
    BY <1>2, <1>5, HistoryAppended
<1>3. IsFiniteSet(w.history)
    <2>1. IsFiniteSet(HistoryOf(e, tables))
        <3>1. IsFiniteSet(DOMAIN legs)
            BY <1>2, LegsType, LegsFinite
        <3> DEFINE g == [i \in DOMAIN legs |-> LogRow(e, tables, legs[i].product)]
        <3>2. g \in Surjection(DOMAIN legs, HistoryOf(e, tables))
            BY DEF Surjection, HistoryOf, LogRow
        <3> HIDE DEF g, legs
        <3> QED BY <3>1, <3>2, FS_Surjection
    <2>2. w.history = tables.history \cup HistoryOf(e, tables)
        BY <1>6
    <2>3. IsFiniteSet(tables.history)
        BY DEF LogExplains
    <2>4. IsFiniteSet(tables.history \cup HistoryOf(e, tables))
        BY ONLY <2>1, <2>3, FS_Union
    <2> HIDE DEF w
    <2> QED BY ONLY <2>2, <2>4
<1>4. ASSUME NEW p \in Products,
             \A h \in {x \in w.history : x.product = p} : h.event.type # "INVENTORY_COUNTED"
      PROVE  /\ w.ip[p].available =
                   MapThenSumSet(AvailableEffect, {x \in w.history : x.product = p})
             /\ w.ip[p].reserved =
                   MapThenSumSet(ReservedEffect, {x \in w.history : x.product = p})
    <2> DEFINE rows == {x \in tables.history : x.product = p}
               after == {x \in w.history : x.product = p}
               r == LogRow(e, tables, p)
    <2>1. w.history = tables.history \cup HistoryOf(e, tables)
        BY <1>6
    <2>2. /\ tables.ip[p].available = MapThenSumSet(AvailableEffect, rows)
          /\ tables.ip[p].reserved = MapThenSumSet(ReservedEffect, rows)
        BY <1>4, <2>1 DEF LogExplains, HistoryExplainsTotals
    <2>3. /\ w.ip[p].available = tables.ip[p].available + AvailableDelta(legs, p)
          /\ w.ip[p].reserved = tables.ip[p].reserved + ReservedDelta(legs, p)
        BY <1>2, TotalsWritten
    <2>4. CASE p \in {legs[i].product : i \in DOMAIN legs}
        <3>1. after = rows \cup {r} /\ r \in HistoryOf(e, tables)
            BY <2>1, <2>4 DEF HistoryOf, LogRow
        <3>2. r \notin rows
            <4>1. r.event = e
                BY DEF LogRow
            <4> QED BY <1>5, <4>1 DEF Applied
        <3>3. IsFiniteSet(rows)
            BY FS_Subset DEF LogExplains
        <3>4. \A h \in rows \cup {r} : h.quantity \in Int
            <4>1. tables.history \subseteq HistoryRows /\ HistoryOf(e, tables) \subseteq HistoryRows
                BY <1>2, HistoryWritten DEF Tables
            <4> HIDE DEF r
            <4>2. rows \cup {r} \subseteq HistoryRows
                BY <3>1, <4>1
            <4> QED BY <4>2 DEF HistoryRows
        <3>5. \A h \in rows \cup {r} : AvailableEffect(h) \in Int /\ ReservedEffect(h) \in Int
            BY <3>4 DEF AvailableEffect, ReservedEffect
        <3>6. e.type # "INVENTORY_COUNTED"
            BY <1>4, <3>1 DEF LogRow
        <3>7. /\ AvailableEffect(r) = AvailableDelta(legs, p)
              /\ ReservedEffect(r) = ReservedDelta(legs, p)
            BY <1>2, <2>4, <3>6, EffectRecorded
        <3> HIDE DEF rows, after, r, legs, w
        <3>8. /\ MapThenSumSet(AvailableEffect, after) =
                    MapThenSumSet(AvailableEffect, rows) + AvailableEffect(r)
              /\ MapThenSumSet(ReservedEffect, after) =
                    MapThenSumSet(ReservedEffect, rows) + ReservedEffect(r)
            BY <3>1, <3>2, <3>3, <3>5, AvailableSumGrows, ReservedSumGrows
        <3>9. /\ w.ip[p].available = MapThenSumSet(AvailableEffect, after)
              /\ w.ip[p].reserved = MapThenSumSet(ReservedEffect, after)
            BY <2>2, <2>3, <3>7, <3>8
        <3> QED BY ONLY <3>9, Zenon DEF after
    <2>5. CASE p \notin {legs[i].product : i \in DOMAIN legs}
        <3>1. after = rows
            BY <2>1, <2>5 DEF HistoryOf
        <3>2. ProductLegs(legs, p) = {}
            BY <2>5 DEF ProductLegs
        <3>3. AvailableDelta(legs, p) = 0 /\ ReservedDelta(legs, p) = 0
            BY <3>2, SumEmpty DEF AvailableDelta, ReservedDelta
        <3>4. tables.ip[p].available \in Int /\ tables.ip[p].reserved \in Int
            BY <1>2 DEF Tables, TotalRows
        <3> HIDE DEF rows, after, legs, w
        <3>5. /\ w.ip[p].available = MapThenSumSet(AvailableEffect, after)
              /\ w.ip[p].reserved = MapThenSumSet(ReservedEffect, after)
            BY <2>2, <2>3, <3>1, <3>3, <3>4
        <3> QED BY ONLY <3>5, Zenon DEF after
    <2> QED BY <2>4, <2>5
<1> HIDE DEF w
<1> QED BY <1>1, <1>3, <1>4 DEF w, LogExplains, HistoryExplainsTotals

\* An empty log explains empty tables.
LEMMA LogExplainsInit == Init => LogExplains
<1> SUFFICES ASSUME Init PROVE LogExplains
    OBVIOUS
<1>1. tables.history = {} /\ IsFiniteSet({})
    BY FS_EmptySet DEF Init, EmptyTables
<1>2. MapThenSumSet(AvailableEffect, {}) = 0 /\ MapThenSumSet(ReservedEffect, {}) = 0
    BY <1>1, AvailableSum, ReservedSum, SumEmpty
<1>3. \A p \in Products : tables.ip[p].available = 0 /\ tables.ip[p].reserved = 0
    BY DEF Init, EmptyTables, NoStock
<1>4. \A p : {h \in tables.history : h.product = p} = {}
    BY <1>1
<1> QED BY <1>1, <1>2, <1>3, <1>4 DEF LogExplains, HistoryExplainsTotals

\* The audit log explains the totals of every product that was never counted,
\* for any number of products, zones, orders and events in any order and
\* presented any number of times, orders that name a row twice included: the
\* log gains a row exactly when the total changes, and by the same quantity
\* (handlers.py:188-258 and the batches the eight handlers return).  Two events
\* that agree in id and timestamp share a row of the log, whose key has nothing
\* else of them (init.cql:83-92): there must be none.
THEOREM LogExplainsTotals ==
    ASSUME DistinctRows PROVE Spec => []HistoryExplainsTotals
<1>1. LogExplains => HistoryExplainsTotals
    BY DEF LogExplains
<1>2. DistinctRows /\ TypeOK /\ AppliedIsSettled /\ LogExplains /\ [Next]_tables
        => LogExplains'
    BY LogExplainsNext
<1> QED BY <1>1, LogExplainsInit, LogExplainsNext, TypeCorrect,
           AppliedIsSettledInit, AppliedIsSettledNext, PTL DEF Spec
=============================================================================
