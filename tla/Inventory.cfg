CONSTANTS
    p1 = p1
    p2 = p2
    z1 = z1
    z2 = z2
    o1 = o1
    o2 = o2
    s1 = s1
    s2 = s2
    Products = {p1, p2}
    Zones = {z1, z2}
    Orders = {o1, o2}
    Suppliers = {s1, s2}
    NoSupplier = NoSupplier
    MaxInt = 3
    Events <- MCEvents

SPECIFICATION Spec

INVARIANTS
    TypeOK
    TablesAgree
    NoReapplication
    HistoryExplainsTotals

PROPERTIES
    RowsOnlyAdvance
    OrderLifecycle
    SupplierNeverForgotten

\* When every event has been applied or is refused for good, nothing happens.
CHECK_DEADLOCK FALSE
