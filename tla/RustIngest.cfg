SPECIFICATION FairSpec
CONSTANTS
    Packets <- MCPackets
    Garbled = {"g"}
    Key <- MCKey
    ChannelSize = 1
    BatchSize = 2
    StatsModes = {TRUE, FALSE}
    MaxFaults = 2
INVARIANTS StatsExact
PROPERTIES LedgerSpec ReceivedIsSettled
CHECK_DEADLOCK FALSE
