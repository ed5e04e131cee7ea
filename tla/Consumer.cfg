CONSTANTS
    p1 = p1
    p2 = p2
    z1 = z1
    z2 = z2
    o1 = o1
    s1 = s1
    k1 = k1
    k2 = k2
    c1 = c1
    c2 = c2
    Products = {p1}
    Zones = {z1}
    Orders = {o1}
    Suppliers = {s1}
    NoSupplier = NoSupplier
    MaxInt = 3
    NoConsumer = NoConsumer
    NoKey = NoKey
    Consumers = {c1}
    Partitions = {k1}
    Route <- OnePartition
    Events <- UnhandledEvents
    MaxLog = 3
    Faults = {"stop", "rebalance", "evict", "registry", "cassandra", "commit", "full", "ttl"}
    MaxFaults = 2

SPECIFICATION Spec

INVARIANTS
    TypeOK
    AppliedAtMostOnce

PROPERTIES
    ImplementsUntilOvertaken
    CommittedNeverRegresses

\* The producers stop after MaxLog messages and the loop then has nothing to do.
CHECK_DEADLOCK FALSE
