SPECIFICATION Spec
CONSTANTS
    Regions <- MCRegions
    Source <- MCSource
    Hypertables = {"weather_report", "aprs_packet"}
    Initial <- MCInitial
    Incoming <- MCIncoming
    Includes <- MCIncludes
    Excludes <- MCExcludes
    Together <- MCTogether
    Codes = {"US"}
    BatchSize = 2
    ReportDays = 0
    PacketDays = 0
    MaxToday = 1
    MaxFaults = 2
    None = None
INVARIANTS
    RegionsIndependent
    ProgressBounded
    PlainTablesCloned
CHECK_DEADLOCK FALSE
