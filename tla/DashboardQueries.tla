-------------------------- MODULE DashboardQueries --------------------------
(***************************************************************************)
(* What the dashboard reads (queries.py, state_queries.py): the packets,   *)
(* the hourly aggregates TimescaleDB keeps of them, the weather stations,  *)
(* and every query as an operator on these.                                *)
(*                                                                         *)
(* `log` holds the packets in the order they were received, each with its  *)
(* shape and its age in ticks; a packet is named by its place in the log.  *)
(* `phase` is the time of day.  Callsigns are numbers, in their order.     *)
(* Places are points of a grid with Tile points to the degree.             *)
(***************************************************************************)
EXTENDS Integers, Sequences, FiniteSets

CONSTANTS
    Hour,           \* ticks in an hour
    DayHours,       \* hours in a day
    WeekDays,       \* days of the daily chart
    StartOffset,    \* how far back a refresh of the aggregates looks
    EndOffset,      \* how much of the present it leaves out
    Shapes,         \* packets: [call, type, place, parsed, code]
    PrefixCountry,  \* call -> country of its first letters, or None
    Objects,        \* calls without a digit, names of objects
    CountryAt,      \* place -> country whose bounds hold it, or None
    StateAt,        \* place -> state, or None
    Stations,       \* weather stations: call -> place
    Tile,           \* grid points to a tile, which is a degree wide
    MaxTiles,       \* MAX_TILES_PER_REQUEST
    MaxRows,        \* max_rows of query_bbox_from_db
    ParsedRows,     \* packets get_station_detail tries to parse
    None

Day == DayHours * Hour
Views == {"stats", "station", "prefix"}

ASSUME DashboardQueriesAssumption ==
    /\ {Hour, DayHours, WeekDays, Tile, MaxTiles, MaxRows, ParsedRows} \subseteq Nat \ {0}
    /\ StartOffset \in Nat /\ EndOffset \in Nat
    /\ \A s \in Shapes : s.call \in DOMAIN PrefixCountry

VARIABLES
    load,       \* what happens in this behaviour, see Dashboard
    log,        \* aprs_packet: Seq([shape, age])
    aggregated, \* view -> packets its materialized buckets count
    wx,         \* weather station -> age of its newest report, or None
    phase       \* ticks since midnight

database == <<load, log, aggregated, wx, phase>>

Packets == DOMAIN log
Call(i) == log[i].shape.call
Place(i) == log[i].shape.place
Code(i) == log[i].shape.code
AgeLimit == load.oldest     \* ages are cut off where no query looks any more

-----------------------------------------------------------------------------
(* Helpers.                                                                *)

Smaller(a, b) == IF a < b THEN a ELSE b
Take(s, n) == SubSeq(s, 1, Smaller(n, Len(s)))
Page(s, offset, limit) == SubSeq(s, offset + 1, Smaller(offset + limit, Len(s)))
Ranked(S, Before(_, _)) ==
    [n \in 1..Cardinality(S) |-> CHOOSE x \in S : Cardinality({y \in S : Before(y, x)}) = n - 1]
Newest(S, n) == {i \in S : Cardinality({j \in S : j > i}) < n}
NewestOf(S) == IF S = {} THEN None ELSE CHOOSE i \in S : \A j \in S : j <= i
PerCall(S) == {i \in S : ~\E j \in S : j > i /\ Call(j) = Call(i)}
Calls(S) == {Call(i) : i \in S}

\* the most frequent first; of a tie, which SQL leaves open, the lower name
MostFrequent(X, Count(_)) ==
    Ranked(X, LAMBDA x, y : Count(x) > Count(y) \/ (Count(x) = Count(y) /\ x < y))

-----------------------------------------------------------------------------
(* Time windows: of the raw table by age, of the aggregates by the start   *)
(* of the hourly bucket.                                                   *)

Raw(hours) == {i \in Packets : log[i].age <= hours * Hour}
Bucket(i) == (phase - log[i].age) \div Hour
SinceStart(i) == phase - Bucket(i) * Hour
Materialized(view, hours) == {i \in aggregated[view] : SinceStart(i) <= hours * Hour}

\* upgrade, the refresh policies: buckets that lie in the window as a whole
Refreshable(view) ==
    {i \in Packets : SinceStart(i) <= StartOffset /\ SinceStart(i) - Hour >= EndOffset}

LastDay(view) == IF load.aggregates THEN Materialized(view, DayHours) ELSE Raw(DayHours)

-----------------------------------------------------------------------------
(* Summary figures.                                                        *)

WithReports == {s \in DOMAIN wx : wx[s] # None}
Summary(packets, calls) ==
    [packets |-> Cardinality(packets), stations |-> Cardinality(calls),
     weather |-> Cardinality(DOMAIN wx)]
StatsFromAggregates == Summary(Materialized("stats", DayHours), Calls(Materialized("station", DayHours)))
StatsFromRaw == Summary(Raw(DayHours), Calls(Raw(DayHours)))
DashboardStats == IF load.aggregates THEN StatsFromAggregates ELSE StatsFromRaw

CallCount(S, c) == Cardinality({i \in S : Call(i) = c})
Frequent(S, X) == MostFrequent(X, LAMBDA c : CallCount(S, c))
Counted(S, s) == [n \in DOMAIN s |-> [call |-> s[n], count |-> CallCount(S, s[n])]]
TopFromAggregates(limit) ==
    LET S == Materialized("station", DayHours) IN Counted(S, Take(Frequent(S, Calls(S)), limit))
TopFromRaw(limit) == LET S == Raw(DayHours) IN Counted(S, Take(Frequent(S, Calls(S)), limit))
TopStations(limit) == IF load.aggregates THEN TopFromAggregates(limit) ELSE TopFromRaw(limit)

\* packets by the country of the first letters; unknown letters are left out
Prefixed(S, country) == {i \in S : PrefixCountry[Call(i)] = country}
ByPrefix(S) ==
    LET found == {PrefixCountry[c] : c \in Calls(S)} \ {None}
        Count(x) == Cardinality(Prefixed(S, x))
        ranked == Ranked(found, LAMBDA x, y : Count(x) > Count(y) \/
                                   (Count(x) = Count(y) /\ NewestOf(Prefixed(S, x)) > NewestOf(Prefixed(S, y))))
    IN [n \in DOMAIN ranked |-> [country |-> ranked[n], count |-> Count(ranked[n])]]
BreakdownFromAggregates(limit) == Take(ByPrefix(Materialized("prefix", DayHours)), limit)
BreakdownFromRaw(limit) == Take(ByPrefix(Raw(DayHours)), limit)
CountryBreakdown(limit) ==
    IF load.aggregates THEN BreakdownFromAggregates(limit) ELSE BreakdownFromRaw(limit)
AllFromAggregates == ByPrefix(Materialized("prefix", DayHours))
AllFromRaw == ByPrefix(Raw(DayHours))
AllCountries == IF load.aggregates THEN AllFromAggregates ELSE AllFromRaw

-----------------------------------------------------------------------------
(* One country: by the country_code column as soon as one row has it, else *)
(* by the shapes of the countries, else by the prefixes of its callsigns.  *)

CodesFilled == \E i \in Packets : Code(i) # None
CountryWindow == {i \in Packets : log[i].age < DayHours * Hour}
InCountry(country) ==
    IF CodesFilled THEN {i \in CountryWindow : Code(i) = country}
                   ELSE {i \in CountryWindow : Place(i) # None /\ CountryAt[Place(i)] = country}
ByCallsign == ~CodesFilled /\ ~load.countries

CountryFigures(country) ==
    [packets |-> Cardinality(InCountry(country)), stations |-> Cardinality(Calls(InCountry(country)))]
CountryFiguresOf(top) ==
    [packets |-> Cardinality(UNION {{n} \X (1..top[n].count) : n \in DOMAIN top}), stations |-> Len(top)]

CountryTopByPrefix(country, limit) ==
    LET S == Prefixed(LastDay("station"), country) IN Counted(S, Take(Frequent(S, Calls(S)), limit))
CountryTop(country, limit) ==
    IF ByCallsign THEN CountryTopByPrefix(country, limit)
    ELSE LET S == InCountry(country) IN Counted(S, Take(Frequent(S, Calls(S)), limit))

-----------------------------------------------------------------------------
(* Charts.                                                                 *)

\* packets of the day that was `ago` days before today
OfDay(S, ago) == {i \in S : (phase - log[i].age) \div Day = 0 - ago}
Bars(S) == [ago \in 0..(WeekDays - 1) |-> Cardinality(OfDay(S, ago))]
DailyFromAggregates == Bars(Materialized("stats", WeekDays * DayHours))
DailyFromRaw == Bars(Raw(WeekDays * DayHours))
DailyPackets == IF load.aggregates THEN DailyFromAggregates ELSE DailyFromRaw

\* packets by the hour of the day, every bucket that overlaps the last day
HourOf(i) == Bucket(i) % DayHours
ByHour(S) == [h \in 0..(DayHours - 1) |-> Cardinality({i \in S : HourOf(i) = h})]
HourlyFromAggregates_WholeBuckets == ByHour(Materialized("stats", DayHours))   \* mutant
HourlyFromAggregates == ByHour({i \in aggregated["stats"] : SinceStart(i) - Hour < Day})
HourlyFromRaw == ByHour(Raw(DayHours))
HourlyDistribution == IF load.aggregates THEN HourlyFromAggregates ELSE HourlyFromRaw

-----------------------------------------------------------------------------
(* Packets and stations.                                                   *)

CountryFromCallsign(c) == IF c \in Objects THEN None ELSE PrefixCountry[c]
CountryFromCoords(p) == IF p = None THEN None ELSE CountryAt[p]
CountryOf(p, c) == IF CountryFromCoords(p) # None THEN CountryFromCoords(p) ELSE CountryFromCallsign(c)
PacketCountry(i) == IF Code(i) # None THEN Code(i) ELSE CountryFromCallsign(Call(i))

RecentPackets(q) ==
    LET matching == {i \in Raw(q.hours) : /\ q.call # None => Call(i) = q.call
                                          /\ q.country # None => Code(i) = q.country}
    IN [n \in DOMAIN Page(Ranked(matching, LAMBDA i, j : i > j), q.offset, q.limit) |->
          LET i == Page(Ranked(matching, LAMBDA x, y : x > y), q.offset, q.limit)[n]
          IN [packet |-> i, country |-> PacketCountry(i)]]

WeatherStations(q) ==
    LET listed == {s \in WithReports :
                      /\ q.recent => wx[s] <= Day
                      /\ q.country # None => CountryOf(Stations[s], s) = q.country
                      /\ q.state # None => StateAt[Stations[s]] = q.state}
    IN Page(Take(Ranked(listed, LAMBDA s, t : s < t), q.limit + q.offset), q.offset, q.limit)

WeatherCountries ==
    LET Count(x) == Cardinality({s \in WithReports : CountryOf(Stations[s], s) = x})
    IN {<<x, Count(x)>> : x \in {CountryOf(Stations[s], s) : s \in WithReports} \ {None}}

\* the newest packet with a position; else the newest of the last packets whose
\* text has one; else nothing.  A station may be known by its reports only.
Own(c) == {i \in Packets : Call(i) = c}
ParsedPositions(c) == {i \in Newest(Own(c), ParsedRows) : log[i].shape.parsed # None}
Position(c) ==
    LET placed == {i \in Own(c) : Place(i) # None}
    IN IF placed # {} THEN Place(NewestOf(placed))
       ELSE IF ParsedPositions(c) # {} THEN log[NewestOf(ParsedPositions(c))].shape.parsed ELSE None
Detail(c, p) ==
    [last |-> NewestOf(Own(c)), place |-> p, country |-> CountryOf(p, c),
     day |-> Cardinality(Own(c) \cap Raw(DayHours)),
     week |-> Cardinality(Own(c) \cap Raw(WeekDays * DayHours)), total |-> Cardinality(Own(c))]
StationDetail(c) ==
    IF Own(c) # {} THEN Detail(c, Position(c))
    ELSE IF c \in DOMAIN wx THEN Detail(c, Stations[c]) ELSE None

StationWeather(c) == IF c \in DOMAIN wx THEN [station |-> c, latest |-> wx[c]] ELSE None

StateCounts == {<<x, Cardinality({s \in DOMAIN wx : StateAt[Stations[s]] = x})>> :
                  x \in {StateAt[Stations[s]] : s \in DOMAIN wx} \ {None}}
StateStations(state) == {s \in WithReports : StateAt[Stations[s]] = state}
StateTrends(state) == {s \in StateStations(state) : wx[s] < Day}

-----------------------------------------------------------------------------
(* The map.                                                                *)

InBox(p, b) == p.lat \in b.south..b.north /\ p.lon \in b.west..b.east
TileOf(p) == [lat |-> p.lat \div Tile, lon |-> p.lon \div Tile]
TilesOf(b) == {TileOf([lat |-> y, lon |-> x]) : y \in b.south..b.north, x \in b.west..b.east}
TileBefore(t, u) == t.lat < u.lat \/ (t.lat = u.lat /\ t.lon < u.lon)
FirstTiles(b) == {t \in TilesOf(b) : Cardinality({u \in TilesOf(b) : TileBefore(u, t)}) < MaxTiles}

OfType(i, type) == type # None => log[i].shape.type = type
Located(hours, type) == {i \in Raw(hours) : Place(i) # None /\ OfType(i, type)}

BoxRows(b, hours, type) == {i \in Located(hours, type) : InBox(Place(i), b)}
QueryBox(b, hours, type) == PerCall(Newest(BoxRows(b, hours, type), MaxRows))

MapFast(hours, type, limit) == Newest(PerCall(Newest(Located(hours, type), limit * 10)), limit)

\* the newest position of each station, where that lies in the box, by callsign
MapTrails(q) ==
    LET latest == {i \in PerCall(Located(q.hours, q.type)) :
                      q.box # None => InBox(Place(i), q.box)}
        page == Page(Ranked(latest, LAMBDA i, j : Call(i) < Call(j)), q.offset, q.limit)
        Trail(c) == {i \in Located(q.hours, None) : Call(i) = c}
    IN [n \in DOMAIN page |-> [packet |-> page[n],
          trail |-> IF Cardinality(Trail(Call(page[n]))) > 1 THEN Trail(Call(page[n])) ELSE {}]]

=============================================================================
