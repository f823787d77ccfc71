SPECIFICATION Spec
CONSTANTS
    Hour = 2
    DayHours = 2
    WeekDays = 2
    StartOffset = 4
    EndOffset = 1
    Shapes <- MCShapes
    PrefixCountry <- MCPrefixCountry
    Objects = {3}
    CountryAt <- MCCountryAt
    StateAt <- MCStateAt
    Stations <- MCStations
    Tile = 2
    MaxTiles = 2
    MaxRows = 2
    ParsedRows = 1
    None = None
    Threads = {t1, t2}
    Warmer = warmer
    Ttl <- MCTtl
    Spans = {1, 2}
    MinLimit = 1
    MaxLimit = 3
    WeekCap = 4
    Loads <- MCLoads
SYMMETRY Sym
INVARIANTS
    AnswersFresh
    MapAsAsked
    ReadyAfterWarming
PROPERTY BarsWhole
CHECK_DEADLOCK FALSE
