SPECIFICATION HealthSpec
CONSTANTS
    Processors <- OneProcessor
    Interval = 2
    MessageAgeLimit = 2
    FileAgeLimit = 2
    ZeroLimit = 2
    MaxDeaths = 1
    MaxMissed = 0
    LastingCap <- FirstOverdue
    Watched = {"death"}
INVARIANT DeathReported
