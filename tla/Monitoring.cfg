CONSTANTS
    Threads = {t1, t2}
    PollLimit = 3

SPECIFICATION FairSpec

PROPERTIES
    HangIsReported
    CassandraLossIsReported
    RecoveryIsReported
