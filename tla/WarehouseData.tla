---------------------------- MODULE WarehouseData ----------------------------
(***************************************************************************)
(* The data of the warehouse consumer: the events of the Avro schema       *)
(* (schemas/warehouse_event_v2.avsc; v1 is v2 with no supplier) and the    *)
(* rows of the Cassandra tables (cassandra-init/init.cql).                 *)
(*                                                                         *)
(* Payload text, metadata columns (updated_at, created_at, last_event_id)  *)
(* and error messages are left out: nothing the consumer decides depends   *)
(* on them.                                                                *)
(***************************************************************************)
EXTENDS Integers, Sequences, FiniteSets

CONSTANTS
    Products,    \* product_id values
    Zones,       \* zone_id values
    Orders,      \* order_id values
    Suppliers,   \* supplier_id values
    NoSupplier,  \* the null supplier_id
    Events,      \* the events producers may publish
    MaxInt       \* largest value of a CQL int column and of an Avro int

-----------------------------------------------------------------------------
(* Events.  An absent or ill-typed quantity is one of the values <= 0: the *)
(* consumer treats the two alike.  Timestamps are positive, so that 0 can  *)
(* stand for "no timestamp yet" in a row that does not exist.              *)

Timestamps == Nat \ {0}

StockTypes == {"PRODUCT_RECEIVED", "PRODUCT_SHIPPED",
               "PRODUCT_RESERVED", "PRODUCT_RELEASED"}

StockEvents ==
    [type : StockTypes, id : Nat, ts : Timestamps, product : Products,
     zone : Zones, quantity : Int, supplier : Suppliers \cup {NoSupplier}]

MoveEvents ==
    [type : {"PRODUCT_MOVED"}, id : Nat, ts : Timestamps, product : Products,
     from : Zones, to : Zones, quantity : Int]

CountEvents ==
    [type : {"INVENTORY_COUNTED"}, id : Nat, ts : Timestamps,
     product : Products, zone : Zones, counted : Int]

OrderItems == [product : Products, zone : Zones, quantity : Int]

OrderCreatedEvents ==
    [type : {"ORDER_CREATED"}, id : Nat, ts : Timestamps, order : Orders,
     items : Seq(OrderItems)]

OrderCompletedEvents ==
    [type : {"ORDER_COMPLETED"}, id : Nat, ts : Timestamps, order : Orders]

\* A message that never becomes an event: undecodable bytes, a null value, a
\* missing event_id, or an event_type no handler is registered for.
UnreadableEvents == [type : {"UNREADABLE"}, id : Nat, ts : Timestamps]

AllEvents ==
    StockEvents \cup MoveEvents \cup CountEvents \cup
    OrderCreatedEvents \cup OrderCompletedEvents \cup UnreadableEvents

ASSUME EventsAssumption == \A e \in Events : e \in AllEvents
ASSUME MaxIntAssumption == MaxInt \in Nat

\* The warehouse has finitely many zones: a product's total is a finite sum.
ASSUME ZonesAssumption == IsFiniteSet(Zones)

-----------------------------------------------------------------------------
(* Tables.  A row that was never written reads as zero quantities with     *)
(* timestamp 0, which is how every handler treats a row that is None.      *)

ZoneRows == [available : Nat, reserved : Nat, ts : Nat,
             supplier : Suppliers \cup {NoSupplier}]
MirrorRows == [available : Nat, reserved : Nat, ts : Nat]
TotalRows == [available : Int, reserved : Int, ts : Nat]
OrderRows == [status : {"NONE", "CREATED", "COMPLETED"},
              items : Seq(OrderItems), ts : Nat]
HistoryRows == [product : Products, event : Events, quantity : Int]

\* ipz, iz and ip are the names the repository's prepared statements give
\* inventory_by_product_zone, inventory_by_zone and inventory_by_product.
Tables ==
    [ipz     : [Products \X Zones -> ZoneRows],
     iz      : [Zones \X Products -> MirrorRows],
     ip      : [Products -> TotalRows],
     orders  : [Orders -> OrderRows],
     history : SUBSET HistoryRows]

NoStock == [available |-> 0, reserved |-> 0, ts |-> 0]

EmptyTables ==
    [ipz     |-> [k \in Products \X Zones |->
                    [available |-> 0, reserved |-> 0, ts |-> 0,
                     supplier |-> NoSupplier]],
     iz      |-> [k \in Zones \X Products |-> NoStock],
     ip      |-> [p \in Products |-> NoStock],
     orders  |-> [o \in Orders |->
                    [status |-> "NONE", items |-> <<>>, ts |-> 0]],
     history |-> {}]

\* The events the audit log says were applied.
Applied(t) == {h.event : h \in t.history}
=============================================================================
