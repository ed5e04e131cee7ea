---------------------------- MODULE MCInventory ------------------------------
(***************************************************************************)
(* Small instances of Inventory: event sets for the runs.                  *)
(***************************************************************************)
EXTENDS Inventory

CONSTANTS p1, p2, z1, z2, o1, o2, s1, s2

Stock(type, id, ts, p, z, q, supplier) ==
    [type |-> type, id |-> id, ts |-> ts, product |-> p, zone |-> z,
     quantity |-> q, supplier |-> supplier]

Move(id, ts, p, from, to, q) ==
    [type |-> "PRODUCT_MOVED", id |-> id, ts |-> ts, product |-> p,
     from |-> from, to |-> to, quantity |-> q]

Count(id, ts, p, z, n) ==
    [type |-> "INVENTORY_COUNTED", id |-> id, ts |-> ts, product |-> p,
     zone |-> z, counted |-> n]

Item(p, z, q) == [product |-> p, zone |-> z, quantity |-> q]

Created(id, ts, o, items) ==
    [type |-> "ORDER_CREATED", id |-> id, ts |-> ts, order |-> o, items |-> items]

Completed(id, ts, o) ==
    [type |-> "ORDER_COMPLETED", id |-> id, ts |-> ts, order |-> o]

Unreadable(id) == [type |-> "UNREADABLE", id |-> id, ts |-> 1]

\* Every stock event of product p1 in either zone at three timestamps, so that
\* each operation meets rows that are older, as old as and newer than itself.
\* The ids, which Inventory does not look at, tell the events apart.
StockFlow ==
    { Stock("PRODUCT_RECEIVED", 100 + ts, ts, p1, z1, 2, s1) : ts \in {1, 3} }
    \cup { Stock("PRODUCT_RECEIVED", 102, 2, p1, z1, 2, NoSupplier) }
    \cup { Stock("PRODUCT_RECEIVED", 110 + ts, ts, p1, z2, 1, NoSupplier) : ts \in 1..2 }
    \cup { Stock("PRODUCT_SHIPPED", 120 + ts, ts, p1, z1, 1, NoSupplier) : ts \in 2..4 }
    \cup { Stock("PRODUCT_RESERVED", 130 + ts, ts, p1, z1, 2, NoSupplier) : ts \in 2..3 }
    \cup { Stock("PRODUCT_RELEASED", 140 + ts, ts, p1, z1, 1, NoSupplier) : ts \in 3..5 }
    \cup { Move(150 + ts, ts, p1, z1, z2, 1) : ts \in 2..3 }
    \cup { Move(160 + ts, ts, p1, z2, z1, 2) : ts \in 3..4 }
    \cup { Count(170 + ts, ts, p1, z2, ts - 2) : ts \in 2..4 }

\* Two orders over the same zones, one of them over two products, each with a
\* completion that may come in time, late, or before the order itself.
OrderFlow ==
    { Created(200 + ts, ts, o1, << Item(p1, z1, 1), Item(p1, z2, 1) >>) : ts \in 3..4 }
    \cup { Completed(210 + ts, ts, o1) : ts \in 3..5 }
    \cup { Stock("PRODUCT_RECEIVED", 220, 2, p2, z1, 1, s2),
           Created(221, 3, o2, << Item(p2, z1, 1), Item(p1, z1, 1) >>),
           Completed(222, 6, o2) }

\* Events the handlers must refuse: bad quantities, a move onto itself, an
\* empty order, a quantity that does not fit the history column, and bytes
\* that are not an event.
Refused ==
    { Stock("PRODUCT_RECEIVED", 321, 2, p1, z1, 0, s1),
      Move(322, 4, p1, z1, z1, 1),
      Created(323, 5, o2, << >>),
      Created(324, 5, o2, << Item(p1, z1, 1), Item(p1, z2, -1) >>),
      Created(325, 5, o2, << Item(p1, z1, 2), Item(p1, z2, 2) >>),
      Unreadable(326) }

MCEvents == StockFlow \cup OrderFlow \cup Refused

\* An order that names the same zone twice: the repository accepts it.
MCRepeatedItem ==
    { Stock("PRODUCT_RECEIVED", 1, ts, p1, z, 3, s1) : ts \in 1..2, z \in {z1, z2} }
    \cup { Created(2, ts, o1, << Item(p1, z1, q), Item(p1, z1, 1) >>) :
             ts \in 2..3, q \in 1..2 }
    \cup { Completed(3, 4, o1), Move(4, 3, p1, z1, z2, 1) }
=============================================================================
