SPECIFICATION FairConnectionSpec
CONSTANTS
    Clients = {c1, c2}
    NoClient = NoClient
    CheckInterval = 5
    EmptyPeriod = 30
    MessageTimeout = 120
    InitialDelay = 1
    MaxDelay = 8
    DialTime = 2
    ConnackLatency = 2
    MaxFaults = 3
INVARIANTS OneNetworkLoop ConnectedIsCurrent SilenceBounded StopIsPrompt
PROPERTIES PromptBrokerRecovers
CHECK_DEADLOCK FALSE
