CONSTANTS
    n1 = n1
    n2 = n2
    n3 = n3
    z1 = z1
    z2 = z2
    Nodes = {n1, n2, n3}
    ReadCL = 2
    WriteCL = 2
    Zones = {z1, z2}
    Events <- Receipts
    ZoneOf <- TwoZones
    MaxPolls = 3
    MaxTimeouts = 1

SPECIFICATION Spec

INVARIANTS
    TypeOK
    ReadsSeeAcknowledged
    AcknowledgedLasts
    AtomicUntilAbandoned

SYMMETRY NodeSymmetry

\* The consumer stops after MaxPolls messages.
CHECK_DEADLOCK FALSE
