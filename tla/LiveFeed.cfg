SPECIFICATION FairFeedSpec
CONSTANTS
    Rows <- MCRows
    Arrivals <- MCArrivals
    CallOrder <- MCCallOrder
    CallOf <- MCCallOf
    CountryCode <- MCCountryCode
    NoCountry = "none"
    Browsers = {"b"}
    Limit = 2
    MaxSize = 1
    EvictCount = 1
    MaxFaults = 1
INVARIANTS FeedInOrder SkipsExplained CountryIsLastKnown
PROPERTY FeedProgresses
CHECK_DEADLOCK FALSE
