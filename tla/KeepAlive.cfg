SPECIFICATION HealthSpec
CONSTANTS
    Processors <- OneProcessor
    Interval = 2
    MessageAgeLimit = 2
    FileAgeLimit = 4
    ZeroLimit = 2
    MaxDeaths = 1
    MaxMissed = 2
    LastingCap <- FirstOverdue
    Watched = {"outage", "silence", "stall", "fine"}
INVARIANTS TroubleReported RecoveryReported
