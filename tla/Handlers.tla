------------------------------ MODULE Handlers -------------------------------
(***************************************************************************)
(* The pure part of the consumer: what consumer/handlers.py decides about  *)
(* an event, given the rows it reads, and the batch of upserts it asks     *)
(* Cassandra to apply.                                                     *)
(*                                                                         *)
(* All eight handlers have one shape.  Each turns its event into a         *)
(* sequence of legs, one per (product, zone) row it changes, a leg being   *)
(* the change of that row; each leg is computed from the row AS READ, not  *)
(* from the result of an earlier leg of the same event.  The verdict says  *)
(* whether the event is applied, skipped as stale, rejected (dead letter   *)
(* queue) or raises an exception nothing handles.                          *)
(***************************************************************************)
EXTENDS WarehouseData, FiniteSetsExt

Verdicts == {"apply", "stale", "reject", "error"}

Leg(product, zone, available, reserved) ==
    [product |-> product, zone |-> zone,
     available |-> available, reserved |-> reserved]

-----------------------------------------------------------------------------
(* The eight handlers, as legs.                                            *)

ReceivedLegs(e) == << Leg(e.product, e.zone, e.quantity, 0) >>

ShippedLegs(e) == << Leg(e.product, e.zone, -e.quantity, 0) >>

MovedLegs(e) == << Leg(e.product, e.from, -e.quantity, 0),
                   Leg(e.product, e.to, e.quantity, 0) >>

ReservedLegs(e) == << Leg(e.product, e.zone, -e.quantity, e.quantity) >>

ReleasedLegs(e) == << Leg(e.product, e.zone, e.quantity, -e.quantity) >>

\* A count sets the quantity; as a leg it is the difference to the row read.
CountedLegs(e, t) ==
    << Leg(e.product, e.zone,
           e.counted - t.ipz[<<e.product, e.zone>>].available, 0) >>

OrderCreatedLegs(e) ==
    [i \in DOMAIN e.items |->
        Leg(e.items[i].product, e.items[i].zone,
            -e.items[i].quantity, e.items[i].quantity)]

\* Completion works from the items stored with the order.
OrderCompletedLegs(e, t) ==
    LET items == t.orders[e.order].items
    IN  [i \in DOMAIN items |->
            Leg(items[i].product, items[i].zone, 0, -items[i].quantity)]

Legs(e, t) ==
    CASE e.type = "PRODUCT_RECEIVED"  -> ReceivedLegs(e)
      [] e.type = "PRODUCT_SHIPPED"   -> ShippedLegs(e)
      [] e.type = "PRODUCT_MOVED"     -> MovedLegs(e)
      [] e.type = "PRODUCT_RESERVED"  -> ReservedLegs(e)
      [] e.type = "PRODUCT_RELEASED"  -> ReleasedLegs(e)
      [] e.type = "INVENTORY_COUNTED" -> CountedLegs(e, t)
      [] e.type = "ORDER_CREATED"     -> OrderCreatedLegs(e)
      [] e.type = "ORDER_COMPLETED"   -> OrderCompletedLegs(e, t)
      [] OTHER                        -> <<>>

-----------------------------------------------------------------------------
(* The verdict.                                                            *)

\* Payload validation, before anything is read.
Malformed(e) ==
    \/ e.type = "UNREADABLE"
    \/ e.type \in StockTypes /\ e.quantity <= 0
    \/ e.type = "PRODUCT_MOVED" /\ (e.quantity <= 0 \/ e.from = e.to)
    \/ e.type = "INVENTORY_COUNTED" /\ e.counted < 0
    \/ /\ e.type = "ORDER_CREATED"
       /\ \/ e.items = <<>>
          \/ \E i \in DOMAIN e.items : e.items[i].quantity <= 0

\* Mutant: an order may be created over an existing one.
OrderRefused_Recreates(e, t) ==
    e.type = "ORDER_COMPLETED" /\ t.orders[e.order].status = "NONE"

\* The order row contradicts the event: ORDER_ALREADY_EXISTS, ORDER_NOT_FOUND.
OrderRefused(e, t) ==
    \/ e.type = "ORDER_CREATED" /\ t.orders[e.order].status # "NONE"
    \/ e.type = "ORDER_COMPLETED" /\ t.orders[e.order].status = "NONE"

OrderAlreadyCompleted(e, t) ==
    e.type = "ORDER_COMPLETED" /\ t.orders[e.order].status = "COMPLETED"

\* Mutant: an event as old as the row passes.
StaleLeg_AdmitsEqual(leg, e, t) == t.ipz[<<leg.product, leg.zone>>].ts > e.ts

\* The row of the leg carries a timestamp newer than or equal to the event's.
StaleLeg(leg, e, t) == t.ipz[<<leg.product, leg.zone>>].ts >= e.ts

\* Mutant: the reserved quantity is not checked.
ShortLeg_AvailableOnly(leg, t) ==
    t.ipz[<<leg.product, leg.zone>>].available + leg.available < 0

\* INSUFFICIENT_STOCK or INSUFFICIENT_RESERVATION.
ShortLeg(leg, t) ==
    LET row == t.ipz[<<leg.product, leg.zone>>]
    IN  row.available + leg.available < 0 \/ row.reserved + leg.reserved < 0

\* Mutant: a move looks at the timestamp of the zone it leaves only.
StaleEvent_SourceOnly(e, t) ==
    LET legs == Legs(e, t)
    IN  \E i \in DOMAIN legs :
            /\ StaleLeg(legs[i], e, t)
            /\ e.type = "PRODUCT_MOVED" => i = 1
            /\ \A j \in 1..(i - 1) : ~ShortLeg(legs[j], t)

\* The legs are checked in order and the first failure decides, except that a
\* move compares the timestamps of both zones before it looks at the stock.
StaleEvent(e, t) ==
    LET legs == Legs(e, t)
    IN  \E i \in DOMAIN legs :
            /\ StaleLeg(legs[i], e, t)
            /\ \/ e.type = "PRODUCT_MOVED"
               \/ \A j \in 1..(i - 1) : ~ShortLeg(legs[j], t)

ShortEvent(e, t) ==
    LET legs == Legs(e, t) IN \E i \in DOMAIN legs : ShortLeg(legs[i], t)

-----------------------------------------------------------------------------
(* The batch.                                                              *)

\* Mutant: a later item of a product replaces what the earlier ones added up to.
ProductLegs_LastOnly(legs, p) ==
    {i \in DOMAIN legs :
        /\ legs[i].product = p
        /\ \A j \in DOMAIN legs : legs[j].product = p => j <= i}

\* What the legs of product p add up to in its row of inventory_by_product.
ProductLegs(legs, p) == {i \in DOMAIN legs : legs[i].product = p}

AvailableDelta(legs, p) ==
    SumFunctionOnSet([i \in DOMAIN legs |-> legs[i].available],
                     ProductLegs(legs, p))

ReservedDelta(legs, p) ==
    SumFunctionOnSet([i \in DOMAIN legs |-> legs[i].reserved],
                     ProductLegs(legs, p))

\* Mutant: a completion records its reservation delta without abs().
HistoryQuantity_Signed(e, legs, p) ==
    CASE e.type = "INVENTORY_COUNTED" -> e.counted
      [] e.type \in {"ORDER_CREATED", "ORDER_COMPLETED"} -> ReservedDelta(legs, p)
      [] OTHER -> e.quantity

\* The quantity column of event_history.
HistoryQuantity(e, legs, p) ==
    CASE e.type = "INVENTORY_COUNTED" -> e.counted
      [] e.type = "ORDER_CREATED"     -> ReservedDelta(legs, p)
      [] e.type = "ORDER_COMPLETED"   -> -ReservedDelta(legs, p)
      [] OTHER                        -> e.quantity

HistoryOf(e, t) ==
    LET legs == Legs(e, t)
    IN  {[product |-> p, event |-> e,
          quantity |-> HistoryQuantity(e, legs, p)] :
            p \in {legs[i].product : i \in DOMAIN legs}}

\* event_history.quantity is a 32-bit column: binding a larger value raises a
\* TypeError, which is neither a ValidationError nor a DriverException.
Unbindable(e, t) == \E h \in HistoryOf(e, t) : h.quantity > MaxInt

\* compute_batch, with the exceptions it ends with as verdicts.
Verdict(e, t) ==
    IF Malformed(e) \/ OrderRefused(e, t) THEN "reject"
    ELSE IF OrderAlreadyCompleted(e, t) \/ StaleEvent(e, t) THEN "stale"
    ELSE IF ShortEvent(e, t) THEN "reject"
    ELSE IF Unbindable(e, t) THEN "error"
    ELSE "apply"

\* Mutant: a receipt writes its supplier even when it has none.
ZoneUpserts_NullsSupplier(e, t) ==
    LET legs == Legs(e, t)
        at(k) == {i \in DOMAIN legs : <<legs[i].product, legs[i].zone>> = k}
    IN  [k \in {<<legs[i].product, legs[i].zone>> : i \in DOMAIN legs} |->
            [available |-> Max({t.ipz[k].available + legs[i].available : i \in at(k)}),
             reserved  |-> Max({t.ipz[k].reserved + legs[i].reserved : i \in at(k)}),
             ts        |-> e.ts,
             supplier  |-> IF e.type = "PRODUCT_RECEIVED" THEN e.supplier
                           ELSE t.ipz[k].supplier]]

\* Two upserts of one row in one batch carry the same write timestamp, and
\* Cassandra settles such a tie cell by cell in favour of the larger value.
ZoneUpserts(e, t) ==
    LET legs == Legs(e, t)
        at(k) == {i \in DOMAIN legs : <<legs[i].product, legs[i].zone>> = k}
    IN  [k \in {<<legs[i].product, legs[i].zone>> : i \in DOMAIN legs} |->
            [available |-> Max({t.ipz[k].available + legs[i].available : i \in at(k)}),
             reserved  |-> Max({t.ipz[k].reserved + legs[i].reserved : i \in at(k)}),
             ts        |-> e.ts,
             supplier  |-> IF e.type = "PRODUCT_RECEIVED" /\ e.supplier # NoSupplier
                           THEN e.supplier
                           ELSE t.ipz[k].supplier]]

MirrorUpserts(e, t) ==
    LET rows == ZoneUpserts(e, t)
    IN  [k \in {<<j[2], j[1]>> : j \in DOMAIN rows} |->
            [available |-> rows[<<k[2], k[1]>>].available,
             reserved  |-> rows[<<k[2], k[1]>>].reserved,
             ts        |-> e.ts]]

TotalUpserts(e, t) ==
    LET legs == Legs(e, t)
    IN  [p \in {legs[i].product : i \in DOMAIN legs} |->
            [available |-> t.ip[p].available + AvailableDelta(legs, p),
             reserved  |-> t.ip[p].reserved + ReservedDelta(legs, p),
             ts        |-> e.ts]]

OrderUpserts(e, t) ==
    CASE e.type = "ORDER_CREATED" ->
            [o \in {e.order} |->
                [status |-> "CREATED", items |-> e.items, ts |-> e.ts]]
      [] e.type = "ORDER_COMPLETED" ->
            [o \in {e.order} |->
                [status |-> "COMPLETED", items |-> t.orders[o].items, ts |-> e.ts]]
      [] OTHER -> [o \in {} |-> 0]

\* The statements an applied event adds to its batch.
Batch(e, t) ==
    [ipz |-> ZoneUpserts(e, t), iz |-> MirrorUpserts(e, t),
     ip |-> TotalUpserts(e, t), orders |-> OrderUpserts(e, t),
     history |-> HistoryOf(e, t)]

\* An INSERT overwrites the row of that key, if there is one.
Upsert(table, rows) ==
    [k \in DOMAIN table |-> IF k \in DOMAIN rows THEN rows[k] ELSE table[k]]

\* The primary key of event_history.
HistoryKey(h) == <<h.product, h.event.ts, h.event.id>>

\* The rows of the log whose keys are not among those of newer.
OtherHistory(history, newer) ==
    {h \in history : \A g \in newer : HistoryKey(g) # HistoryKey(h)}

\* execute_batch: a logged batch, all of it or none of it.
Write(t, batch) ==
    [ipz |-> Upsert(t.ipz, batch.ipz), iz |-> Upsert(t.iz, batch.iz),
     ip |-> Upsert(t.ip, batch.ip), orders |-> Upsert(t.orders, batch.orders),
     history |-> OtherHistory(t.history, batch.history) \cup batch.history]

\* A batch that arrives after a newer one: Cassandra keeps of each row what was
\* written with the later write timestamp, so the rows of the newer batch stay.
OtherRows(rows, newer) == [k \in DOMAIN rows \ DOMAIN newer |-> rows[k]]

Without(batch, newer) ==
    [ipz |-> OtherRows(batch.ipz, newer.ipz), iz |-> OtherRows(batch.iz, newer.iz),
     ip |-> OtherRows(batch.ip, newer.ip), orders |-> OtherRows(batch.orders, newer.orders),
     history |-> OtherHistory(batch.history, newer.history)]
=============================================================================
