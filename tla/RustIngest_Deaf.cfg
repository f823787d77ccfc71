SPECIFICATION FairSpec
CONSTANTS
    Packets <- MCPackets
    Garbled = {"g"}
    Key <- MCKey
    ChannelSize = 1
    BatchSize = 2
    StatsModes = {FALSE}
    MaxFaults = 1
PROPERTY StaysSubscribed
CHECK_DEADLOCK FALSE
