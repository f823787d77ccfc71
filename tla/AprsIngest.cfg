SPECIFICATION FairSpec
CONSTANTS
    Packets <- MCPackets
    NoCall = {"n"}
    Garbled = {"g"}
    Key <- MCKey
    Weather = {"b1"}
    ProcessorCount = 2
    QueueSize = 1
    BatchSize = 1
    BatchStagger = 1
    StatsFlushInterval = 2
    StatsInterval = 2
    StatsModes = {TRUE, FALSE}
INVARIANTS TypeOK Conservation MemoryBounded CountersExact
PROPERTIES LedgerSpec ShutdownCompletes FullBatchLeaves
CHECK_DEADLOCK FALSE
