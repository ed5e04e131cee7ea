----------------------------- MODULE MCConsumer ------------------------------
(***************************************************************************)
(* Small instances of Consumer: event sets and partitioners for the runs.  *)
(***************************************************************************)
EXTENDS Consumer, TLC

CONSTANTS p1, p2, z1, z2, o1, s1, k1, k2, c1, c2

Stock(type, id, ts, p, z, q, supplier) ==
    [type |-> type, id |-> id, ts |-> ts, product |-> p, zone |-> z,
     quantity |-> q, supplier |-> supplier]

Item(p, z, q) == [product |-> p, zone |-> z, quantity |-> q]

Created(id, ts, o, items) ==
    [type |-> "ORDER_CREATED", id |-> id, ts |-> ts, order |-> o, items |-> items]

Completed(id, ts, o) ==
    [type |-> "ORDER_COMPLETED", id |-> id, ts |-> ts, order |-> o]

Received == Stock("PRODUCT_RECEIVED", 1, 1, p1, z1, 2, s1)
ReceivedLater == Stock("PRODUCT_RECEIVED", 2, 3, p1, z1, 1, NoSupplier)
Shipped == Stock("PRODUCT_SHIPPED", 3, 2, p1, z1, 1, NoSupplier)
Invalid == Stock("PRODUCT_RECEIVED", 4, 2, p1, z1, 0, s1)
Undecodable == [type |-> "UNREADABLE", id |-> 0, ts |-> 1]
Order == Created(5, 3, o1, << Item(p1, z1, 1) >>)
OrderDone == Completed(6, 4, o1)
OrderTooLarge == Created(10, 3, o1, << Item(p1, z1, 2), Item(p1, z1, 2) >>)
ReceivedOtherZone == Stock("PRODUCT_RECEIVED", 8, 1, p1, z2, 1, s1)
ReceivedOther == Stock("PRODUCT_RECEIVED", 7, 1, p2, z1, 1, s1)
OrderOther == Created(9, 3, o1, << Item(p2, z1, 1) >>)

\* The processes of the group are alike.
ConsumerSymmetry == Permutations(Consumers)

\* One partition: every message keeps its place behind the one before it.
OnePartition == [k \in Products \cup Orders \cup {NoKey} |-> k1]

\* Products and orders in different partitions, as their keys may well put them.
TwoPartitions == [k \in Products \cup Orders \cup {NoKey} |-> IF k \in Products THEN k1 ELSE k2]

\* Each product in a partition of its own, and the orders of p2 with it.
ByProduct == [k \in Products \cup Orders \cup {NoKey} |-> IF k = p1 THEN k1 ELSE k2]

\* Something to apply, ship, order, complete, arrive late, reject and fail to decode.
MixedEvents == {Received, Shipped, Order, OrderDone, Invalid, Undecodable}

\* The same, with an order whose quantities each fit an int and whose sum does not.
UnhandledEvents == (MixedEvents \ {Invalid}) \cup {OrderTooLarge}

\* A product and an order for it, rejected when it comes first.
ProductAndOrder == {Received, Order}

\* Nothing is rejected whatever the order: two receipts of one zone.
Receipts == {Received, ReceivedLater}

\* Two products, one of them in two zones, and an order of the other.
ProductEvents == {Received, ReceivedOtherZone, ReceivedOther, OrderOther}

\* Receipts of two zones of one product, and an order from one of them.
RacingEvents == {Received, Order, ReceivedOtherZone}
=============================================================================
