SPECIFICATION FairSpec
CONSTANTS
    Packets <- MCPackets
    CallOf <- MCCallOf
    NoPosition = {"y1"}
    Empty = {"x3"}
    QueueSize = 2
    BatchSize = 2
    MaxFaults = 2
INVARIANTS StationBehindReport WrittenAndCountedOnce
PROPERTIES ClearedOnlyIfWritten ReportsReachTable
CHECK_DEADLOCK FALSE
