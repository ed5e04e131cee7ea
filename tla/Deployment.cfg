CONSTANTS
    Main = main
    DLQ = dlq
    TOPIC_PARTITIONS = 3
    BrokerPartitions = 3
    Statements = 2
    MaxReruns = 2
    Threads = {t1}
    PollLimit = 3

SPECIFICATION Spec

INVARIANT ConsumerStartsPrepared

PROPERTY RerunIsNoOp
