----------------------------- MODULE Inventory -------------------------------
(***************************************************************************)
(* The warehouse state as its readers see it: the Cassandra tables, changed *)
(* by one event at a time, each event atomically.  An event may be          *)
(* presented at any moment and any number of times, in any order: nothing   *)
(* here remembers which event ids were processed.  What holds here holds by *)
(* the handlers alone, without the idempotency table.                       *)
(*                                                                         *)
(* This is also the abstract specification of the consumer: module Consumer *)
(* shows that polling, crashing and redelivering never make the tables do   *)
(* anything else.                                                           *)
(***************************************************************************)
EXTENDS Handlers

VARIABLE tables   \* the rows of the keyspace, an element of Tables

Init == tables = EmptyTables

-----------------------------------------------------------------------------
(* An event presented to compute_batch is applied when the verdict says so; *)
(* a stale, rejected or failing event leaves the tables as they are.        *)

Apply(e) ==
    /\ Verdict(e, tables) = "apply"
    /\ tables' = Write(tables, Batch(e, tables))

HandleProductReceived == \E e \in Events : e.type = "PRODUCT_RECEIVED" /\ Apply(e)

HandleProductShipped == \E e \in Events : e.type = "PRODUCT_SHIPPED" /\ Apply(e)

HandleProductMoved == \E e \in Events : e.type = "PRODUCT_MOVED" /\ Apply(e)

HandleProductReserved == \E e \in Events : e.type = "PRODUCT_RESERVED" /\ Apply(e)

HandleProductReleased == \E e \in Events : e.type = "PRODUCT_RELEASED" /\ Apply(e)

HandleInventoryCounted == \E e \in Events : e.type = "INVENTORY_COUNTED" /\ Apply(e)

HandleOrderCreated == \E e \in Events : e.type = "ORDER_CREATED" /\ Apply(e)

HandleOrderCompleted == \E e \in Events : e.type = "ORDER_COMPLETED" /\ Apply(e)

Next ==
    \/ HandleProductReceived
    \/ HandleProductShipped
    \/ HandleProductMoved
    \/ HandleProductReserved
    \/ HandleProductReleased
    \/ HandleInventoryCounted
    \/ HandleOrderCreated
    \/ HandleOrderCompleted

Spec == Init /\ [][Next]_tables

-----------------------------------------------------------------------------
(* Properties.                                                             *)

\* The tables hold rows of their types.  Quantities of a zone are naturals,
\* so no event, in whatever order, oversells a zone or releases a reservation
\* that is not there (the guards of handlers.py:212-223, 329, 482, 539).
TypeOK == tables \in Tables

\* The denormalised tables agree (init.cql:7-8): inventory_by_zone is
\* inventory_by_product_zone transposed, and the row of a product in
\* inventory_by_product is the sum of the product's rows over all zones,
\* although the consumer never reads the zones to compute it.
MirrorAgrees ==
    \A p \in Products, z \in Zones :
        LET row == tables.ipz[<<p, z>>]
        IN  tables.iz[<<z, p>>] = [available |-> row.available,
                                   reserved |-> row.reserved, ts |-> row.ts]

TotalsAgree ==
    \A p \in Products :
        /\ tables.ip[p].available =
              SumFunctionOnSet([z \in Zones |-> tables.ipz[<<p, z>>].available], Zones)
        /\ tables.ip[p].reserved =
              SumFunctionOnSet([z \in Zones |-> tables.ipz[<<p, z>>].reserved], Zones)

TablesAgree == MirrorAgrees /\ TotalsAgree

\* An event that was applied is never acceptable again: the timestamps of the
\* rows and the status of the order refuse it even after its id has expired
\* from processed_events (init.cql:70, 76; handlers.py:62-79, 460, 519).
NoReapplication == \A e \in Applied(tables) : Verdict(e, tables) # "apply"

\* The audit log explains the totals: for a product that was never counted,
\* the row of inventory_by_product is what the event_history rows of the
\* product add up to, whatever was refused or came late in between.
AvailableEffect(h) ==
    CASE h.event.type \in {"PRODUCT_RECEIVED", "PRODUCT_RELEASED"} -> h.quantity
      [] h.event.type \in {"PRODUCT_SHIPPED", "PRODUCT_RESERVED", "ORDER_CREATED"} -> -h.quantity
      [] OTHER -> 0

ReservedEffect(h) ==
    CASE h.event.type \in {"PRODUCT_RESERVED", "ORDER_CREATED"} -> h.quantity
      [] h.event.type \in {"PRODUCT_RELEASED", "ORDER_COMPLETED"} -> -h.quantity
      [] OTHER -> 0

HistoryExplainsTotals ==
    \A p \in Products :
        LET rows == {h \in tables.history : h.product = p}
        IN  (\A h \in rows : h.event.type # "INVENTORY_COUNTED") =>
                /\ tables.ip[p].available = MapThenSumSet(AvailableEffect, rows)
                /\ tables.ip[p].reserved = MapThenSumSet(ReservedEffect, rows)

\* A row of a zone is only ever replaced by one with a later event timestamp,
\* so the rows converge to the newest event however the events were ordered.
RowsOnlyAdvance ==
    [][\A k \in Products \X Zones :
          tables'.ipz[k] # tables.ipz[k] => tables'.ipz[k].ts > tables.ipz[k].ts]_tables

\* An order goes NONE -> CREATED -> COMPLETED and never back, keeps its items,
\* and its timestamp grows, although no handler compares the timestamp stored
\* with the order: the rows of its items do it (handlers.py:453-564).
OrderLifecycle ==
    [][\A o \in Orders :
          LET old == tables.orders[o]
              new == tables'.orders[o]
          IN  new # old =>
                /\ new.ts > old.ts
                /\ \/ old.status = "NONE" /\ new.status = "CREATED"
                   \/ /\ old.status = "CREATED" /\ new.status = "COMPLETED"
                      /\ new.items = old.items]_tables

\* A supplier that is known stays known: events of the v1 schema, moves, counts
\* and orders write the whole row and must not null it (handlers.py:208, 231).
SupplierNeverForgotten ==
    [][\A k \in Products \X Zones :
          tables.ipz[k].supplier # NoSupplier => tables'.ipz[k].supplier # NoSupplier]_tables
=============================================================================
