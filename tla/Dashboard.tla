------------------------------ MODULE Dashboard ------------------------------
(***************************************************************************)
(* The dashboard's pages (routes.py, api.py) over its queries, memcached   *)
(* (cache.py, and the map's tiles in queries.py) and its start (app.py).   *)
(*                                                                         *)
(* A page asks for views, one after the other; a view is looked up in      *)
(* memcached and else queried and stored.  A lookup, a query and a store   *)
(* are steps of their own: threads interleave between them, and an entry   *)
(* may go at any time.  Warming is one more thread.                        *)
(*                                                                         *)
(* `held` and `partial` are history: how long ago the oldest read behind a *)
(* value was made, and whether a stored tile may lack packets of the tile. *)
(***************************************************************************)
EXTENDS DashboardQueries

CONSTANTS
    Threads,        \* threads that serve pages
    Warmer,         \* the thread that runs _warm_cache
    Ttl,            \* view -> lifetime of its entries, in ticks
    Spans,          \* values of `hours` the map takes
    MinLimit, MaxLimit, \* bounds of the map's `limit`
    WeekCap,        \* greatest `hours` of the packet list
    Loads           \* what happens: [pages, arrivals, packets, reporting, refreshing,
                    \*  aggregates, countries, charts, oldest, start,
                    \*  slow, busy, losses]; slow bounds the ticks a page takes,
                    \*  busy the pages served at once; losses: memcached
                    \*  loses entries

Workers == Threads \cup {Warmer}
CachedViews == {"stats", "top", "countries", "all_countries", "country", "country_top", "daily",
                "hourly", "wx", "wx_countries", "station", "state_stations", "state_trends"}

Routes == {"/", "/country", "stats", "top-stations", "countries", "hourly", "packets", "wx",
           "weather/countries", "station", "station/packets", "station/weather", "states", "state",
           "state/trends", "country/stats", "country/top-stations", "countries/all",
           "countries/all/json", "map/stations"}

\* `hours` of the map is one of a list, or a day
SpanOf(hours) == IF hours \in Spans THEN hours ELSE DayHours

ASSUME DashboardAssumption ==
    /\ Ttl \in [CachedViews \cup {"tile"} -> Nat \ {0}]
    /\ Warmer \notin Threads /\ Spans \subseteq Nat
    /\ MinLimit \in Nat /\ MaxLimit \in Nat /\ MinLimit <= MaxLimit

ASSUME LoadAssumption ==
    \A l \in Loads :
        /\ l.slow \in Nat /\ l.oldest \in Nat
        /\ l.start \in {"unconfigured", "warming", "warmed"}
        /\ \A p \in l.pages : "view" \in DOMAIN p /\ p.view \in Routes
        /\ \A p \in l.pages : p.view = "map/stations" =>
              /\ {"hours", "limit"} \subseteq DOMAIN p /\ p.limit \in Int
              /\ SpanOf(p.hours) * Hour < l.oldest
        /\ \A s \in l.arrivals : s.place # None => s.place.lat \in Int /\ s.place.lon \in Int

VARIABLES
    cache,      \* memcached: key -> [val, life, held]
    ready,      \* startup_state.ready
    th          \* worker -> what it is doing

vars == <<database, cache, ready, th>>

-----------------------------------------------------------------------------
(* Pages: the views each handler asks for.                                 *)

View(v) == [view |-> v]
Limited(v, n) == [view |-> v, limit |-> n]
Top(country, n) == [view |-> "country_top", country |-> country, limit |-> n]

WarmViews == <<View("stats"), Limited("top", 10), Limited("countries", 10), View("hourly")>>
Index(p) == <<View("stats"), View("hourly"), View("daily"), Limited("top", 10), Limited("countries", 10)>>
CountryDetail(p) == <<[view |-> "country", country |-> p.country], Top(p.country, 10)>>
Stats(p) == <<View("stats")>>
TopList(p) == <<Limited("top", p.limit)>>
Countries(p) == <<Limited("countries", p.limit)>>
Hourly(p) == <<View("hourly")>>
PacketList(p) == <<[p EXCEPT !.hours = Smaller(@, WeekCap)]>>
Weather(p) == <<p>>
WeatherCountryList(p) == <<View("wx_countries")>>
Station(p) == <<[view |-> "station", call |-> p.call]>>
StationPackets(p) == <<[p EXCEPT !.view = "packets", !.hours = DayHours]>>
StationReports(p) == <<[view |-> "station_weather", call |-> p.call]>>
StateList(p) == <<View("states")>>
State(p) == <<[view |-> "state_stations", state |-> p.state]>>
StateTrend(p) == <<[view |-> "state_trends", state |-> p.state]>>
CountryStats(p) == <<[view |-> "country", country |-> p.country]>>
CountryTopList(p) == <<Top(p.country, p.limit)>>
AllCountriesGrid(p) == <<View("all_countries")>>
AllCountriesJson(p) == <<View("all_countries"), View("stats")>>

Clamp(n) == IF n < MinLimit THEN MinLimit ELSE Smaller(n, MaxLimit)
MapPage(p) ==
    LET q == [p EXCEPT !.hours = SpanOf(@), !.limit = Clamp(@)]
        kind == CASE p.fast /\ p.box # None -> "map"
                  [] p.fast /\ p.box = None -> "map_fast"
                  [] OTHER -> "map_trails"
    IN <<[q EXCEPT !.view = kind]>>

Plan(p) ==
    CASE p.view = "/" -> Index(p)
      [] p.view = "/country" -> CountryDetail(p)
      [] p.view = "stats" -> Stats(p)
      [] p.view = "top-stations" -> TopList(p)
      [] p.view = "countries" -> Countries(p)
      [] p.view = "hourly" -> Hourly(p)
      [] p.view = "packets" -> PacketList(p)
      [] p.view = "wx" -> Weather(p)
      [] p.view = "weather/countries" -> WeatherCountryList(p)
      [] p.view = "station" -> Station(p)
      [] p.view = "station/packets" -> StationPackets(p)
      [] p.view = "station/weather" -> StationReports(p)
      [] p.view = "states" -> StateList(p)
      [] p.view = "state" -> State(p)
      [] p.view = "state/trends" -> StateTrend(p)
      [] p.view = "country/stats" -> CountryStats(p)
      [] p.view = "country/top-stations" -> CountryTopList(p)
      [] p.view = "countries/all" -> AllCountriesGrid(p)
      [] p.view = "countries/all/json" -> AllCountriesJson(p)
      [] p.view = "map/stations" -> MapPage(p)

-----------------------------------------------------------------------------
(* The cache: keys, lookups, stores.                                       *)

\* the template of the daily chart does not name `days`, which is always 7
Key(c) == c
TileKey_NoHours(c, t) == [view |-> "tile", hours |-> 1, type |-> c.type, tile |-> t]   \* mutant
TileKey(c, t) == [view |-> "tile", hours |-> c.hours, type |-> c.type, tile |-> t]
TtlOf(c) == Ttl[c.view]

Put(entries) == [k \in DOMAIN cache \cup DOMAIN entries |-> IF k \in DOMAIN entries THEN entries[k] ELSE cache[k]]
Entry(k, val, held) == [val |-> val, life |-> TtlOf(k), held |-> held]

\* rows with a datetime are no JSON: the set fails, and the view is never cached
Serializable(c) == c.view # "state_stations"

Idle == [pc |-> "idle", todo |-> <<>>, val |-> None, held |-> 0, outer |-> <<>>, slow |-> 0]
Doing(t) == Head(th[t].todo)
AtView(t, v) == th[t].todo # <<>> /\ Doing(t).view = v
Move(t, changed) == th' = [th EXCEPT ![t] = changed]
Answer(t, val, held) == Move(t, [th[t] EXCEPT !.pc = "answer", !.val = val, !.held = held])

\* create_app, before the warming thread runs ("warming") or long after it has
\* ("warmed"); without a config file there is no such thread ("unconfigured")
Init ==
    /\ load \in Loads
    /\ log = <<>> /\ wx = <<>> /\ phase \in IF load.charts THEN 0..(Day - 1) ELSE {0}
    /\ aggregated = [v \in Views |-> {}]
    /\ cache = <<>>
    /\ ready = (load.start = "warmed")
    /\ th = [t \in Workers |->
               IF t = Warmer /\ load.start = "warming" THEN [Idle EXCEPT !.pc = "look", !.todo = WarmViews] ELSE Idle]

\* check_startup: until the site is ready a page is sent to /loading
Ask(t) ==
    /\ ready
    /\ th[t].pc = "idle"
    /\ Cardinality({u \in Threads : th[u].pc # "idle"}) < load.busy
    /\ \E p \in load.pages : Move(t, [Idle EXCEPT !.pc = "look", !.todo = Plan(p)])
    /\ UNCHANGED <<database, cache, ready>>

-----------------------------------------------------------------------------
(* A view: cached(), and what it wraps.                                    *)

Hit_ExtendsLife(t) ==                                   \* mutant
    /\ th[t].pc = "look"
    /\ Key(Doing(t)) \in DOMAIN cache
    /\ LET e == cache[Key(Doing(t))] IN Answer(t, e.val, e.held)
    /\ cache' = [cache EXCEPT ![Key(Doing(t))].life = TtlOf(Doing(t))]
    /\ UNCHANGED <<database, ready>>

Hit(t) ==
    /\ th[t].pc = "look"
    /\ Key(Doing(t)) \in DOMAIN cache
    /\ LET e == cache[Key(Doing(t))] IN Answer(t, e.val, e.held)
    /\ UNCHANGED <<database, cache, ready>>

\* the key is not there, the cache does not answer, or the view is not cached
Miss(t) ==
    /\ th[t].pc = "look" /\ ~AtView(t, "map")
    /\ Key(Doing(t)) \in DOMAIN cache => load.losses
    /\ Move(t, [th[t] EXCEPT !.pc = "query"])
    /\ UNCHANGED <<database, cache, ready>>

Result(c) ==
    CASE c.view = "stats" -> DashboardStats
      [] c.view = "top" -> TopStations(c.limit)
      [] c.view = "countries" -> CountryBreakdown(c.limit)
      [] c.view = "all_countries" -> AllCountries
      [] c.view = "country_top" -> CountryTop(c.country, c.limit)
      [] c.view = "daily" -> DailyPackets
      [] c.view = "hourly" -> HourlyDistribution
      [] c.view = "packets" -> RecentPackets(c)
      [] c.view = "wx" -> WeatherStations(c)
      [] c.view = "wx_countries" -> WeatherCountries
      [] c.view = "station" -> StationDetail(c.call)
      [] c.view = "station_weather" -> StationWeather(c.call)
      [] c.view = "states" -> StateCounts
      [] c.view = "state_stations" -> StateStations(c.state)
      [] c.view = "state_trends" -> StateTrends(c.state)
      [] c.view = "map_fast" -> MapFast(c.hours, c.type, c.limit)
      [] c.view = "map_trails" -> MapTrails(c)

Composed == {"country", "map"}
Query(t) ==
    /\ th[t].pc = "query" /\ Doing(t).view \notin Composed
    /\ Move(t, [th[t] EXCEPT !.pc = "keep", !.val = Result(Doing(t)), !.held = 0])
    /\ UNCHANGED <<database, cache, ready>>

\* the figures of a country end with a call of another cached view; where the
\* figures come from callsign prefixes they also begin with one
CallTop(t, figures, held, n) ==
    Move(t, [th[t] EXCEPT !.pc = "look", !.todo = <<Top(Doing(t).country, n)>> \o @, !.val = None,
                          !.held = 0, !.outer = <<[figures |-> figures, held |-> held]>>])
QueryCountry(t) ==
    /\ th[t].pc = "query" /\ AtView(t, "country")
    /\ IF ByCallsign THEN CallTop(t, None, 0, 100)
                     ELSE CallTop(t, CountryFigures(Doing(t).country), 0, 1)
    /\ UNCHANGED <<database, cache, ready>>

Older(a, b) == IF a > b THEN a ELSE b
ReturnTop(t) ==
    /\ th[t].pc = "answer" /\ th[t].outer # <<>>
    /\ LET frame == Head(th[t].outer)
           top == th[t].val
           held == Older(frame.held, th[t].held)
           back == [th[t] EXCEPT !.todo = Tail(@), !.outer = <<>>]
       IN IF frame.figures = None
          THEN Move(t, [th[t] EXCEPT !.pc = "look", !.val = None, !.held = 0,
                          !.todo = <<[Head(@) EXCEPT !.limit = 1]>> \o Tail(@),
                          !.outer = <<[figures |-> CountryFiguresOf(top), held |-> held]>>])
          ELSE Move(t, [back EXCEPT !.pc = "keep", !.held = held,
                          !.val = [figures |-> frame.figures,
                                   top |-> IF top = <<>> THEN None ELSE top[1].call]])
    /\ UNCHANGED <<database, cache, ready>>

\* a result of None is not stored; a failing set is ignored
Stored(t) == Doing(t).view \in CachedViews /\ Serializable(Doing(t)) /\ th[t].val # None
Keep(t) ==
    /\ th[t].pc = "keep" /\ ~AtView(t, "map")
    /\ \/ ~Stored(t) /\ UNCHANGED cache
       \/ load.losses /\ UNCHANGED cache
       \/ /\ Stored(t)
          /\ cache' = Put([k \in {Key(Doing(t))} |-> Entry(Doing(t), th[t].val, th[t].held)])
    /\ Answer(t, th[t].val, th[t].held)
    /\ UNCHANGED <<database, ready>>

-----------------------------------------------------------------------------
(* The map, get_map_stations_tiled: the tiles that are cached, one query   *)
(* over the box for all the others, whose rows are then stored by tile.    *)

Whole(t, b) == \A y \in (t.lat * Tile)..(t.lat * Tile + Tile - 1), x \in (t.lon * Tile)..(t.lon * Tile + Tile - 1) :
                  InBox([lat |-> y, lon |-> x], b)
CachedTiles(c) == {u \in FirstTiles(c.box) : TileKey(c, u) \in DOMAIN cache}
FromCache(c, hits) == UNION {cache[TileKey(c, u)].val.ids : u \in hits}
ShownOf(c, ids) == Newest({i \in PerCall(ids) : InBox(Place(i), c.box)}, c.limit)
\* api_map_stations leaves out what lies at latitude or longitude 0
Features(ids) == {i \in ids : Place(i).lat # 0 /\ Place(i).lon # 0}
MapAnswer(c, ids, missing, partial) ==
    LET shown == ShownOf(c, ids)
    IN [ids |-> Features(shown), full |-> Cardinality(shown) >= c.limit, missing |-> missing, partial |-> partial]
OldestRead(c, hits) ==
    LET H == {cache[TileKey(c, u)].held : u \in hits}
    IN IF H = {} THEN 0 ELSE CHOOSE h \in H : \A g \in H : g <= h

\* a get that fails counts as a miss, as if the entry had gone
LookupTiles(t) ==
    /\ th[t].pc = "look" /\ AtView(t, "map")
    /\ LET   c == Doing(t)
              hits == CachedTiles(c)
              missing == FirstTiles(c.box) \ hits
              partial == {u \in hits : cache[TileKey(c, u)].val.partial}
              ids == FromCache(c, hits)
          IN IF missing = {}
             THEN Answer(t, MapAnswer(c, ids, {}, partial), OldestRead(c, hits))
             ELSE Move(t, [th[t] EXCEPT !.pc = "query", !.held = OldestRead(c, hits),
                             !.val = [ids |-> ids, missing |-> missing, partial |-> partial]])
    /\ UNCHANGED <<database, cache, ready>>

QueryTiles(t) ==
    /\ th[t].pc = "query" /\ AtView(t, "map")
    /\ LET c == Doing(t)
           rows == QueryBox(c.box, c.hours, c.type)
           cut == Cardinality(BoxRows(c.box, c.hours, c.type)) > MaxRows
       IN Move(t, [th[t] EXCEPT !.pc = "keep",
                     !.val = [ids |-> @.ids, missing |-> @.missing, partial |-> @.partial, rows |-> rows, cut |-> cut,
                              age |-> 0]])
    /\ UNCHANGED <<database, cache, ready>>

\* a set that fails is one whose entry goes at once
KeepTiles(t) ==
    /\ th[t].pc = "keep" /\ AtView(t, "map")
    /\ LET c == Doing(t)
           v == th[t].val
           Bucketed(u) == [ids |-> {i \in v.rows : TileOf(Place(i)) = u}, partial |-> v.cut \/ ~Whole(u, c.box)]
       IN /\ \/ cache' = Put([k \in {TileKey(c, u) : u \in v.missing} |-> Entry(k, Bucketed(k.tile), v.age)])
             \/ load.losses /\ UNCHANGED cache
          /\ Answer(t, MapAnswer(c, v.ids \cup v.rows, v.missing,
                                 v.partial \cup IF v.cut THEN v.missing ELSE {}), th[t].held)
    /\ UNCHANGED <<database, ready>>

-----------------------------------------------------------------------------
(* The end of a view and of a page.                                        *)

NextView(t) ==
    /\ th[t].pc = "answer" /\ th[t].outer = <<>> /\ Len(th[t].todo) > 1
    /\ Move(t, [Idle EXCEPT !.pc = "look", !.todo = Tail(th[t].todo), !.slow = th[t].slow])
    /\ UNCHANGED <<database, cache, ready>>

EndPage(t) ==
    /\ t # Warmer
    /\ th[t].pc = "answer" /\ th[t].outer = <<>> /\ Len(th[t].todo) = 1
    /\ Move(t, Idle)
    /\ UNCHANGED <<database, cache, ready>>

\* a query raises: the page answers with an error and gives its session back
QueryFails(t) ==
    /\ t # Warmer
    /\ th[t].pc = "query"
    /\ Move(t, Idle)
    /\ UNCHANGED <<database, cache, ready>>

\* after its queries _warm_cache fills the geo and the station cache, in which
\* it survives every error, and opens the site
EndWarming ==
    /\ th[Warmer].pc = "answer" /\ Len(th[Warmer].todo) = 1
    /\ Move(Warmer, Idle)
    /\ ready' = TRUE
    /\ UNCHANGED <<database, cache>>

WarmingFails_StaysClosed ==                             \* mutant
    /\ th[Warmer].pc \in {"look", "query"}
    /\ Move(Warmer, Idle)
    /\ UNCHANGED <<database, ready, cache>>

\* the database cannot be reached, or a query raises (the imports of _warm_cache,
\* which precede its try, are taken to succeed)
WarmingFails ==
    /\ th[Warmer].pc \in {"look", "query"}
    /\ Move(Warmer, Idle)
    /\ ready' = TRUE
    /\ UNCHANGED <<database, cache>>

-----------------------------------------------------------------------------
(* Everybody else.                                                         *)

Receive ==
    /\ Len(log) < load.packets
    /\ \E s \in load.arrivals : log' = Append(log, [shape |-> s, age |-> 0])
    /\ UNCHANGED <<load, aggregated, wx, phase, cache, ready, th>>

\* a station is added, or reports; the row of a station comes before its report
Report ==
    /\ \E s \in load.reporting :
          LET age == IF s \in DOMAIN wx THEN 0 ELSE None
          IN wx' = [r \in DOMAIN wx \cup {s} |-> IF r = s THEN age ELSE wx[r]]
    /\ UNCHANGED <<load, log, aggregated, phase, cache, ready, th>>

Refresh ==
    /\ \E v \in load.refreshing : aggregated' = [aggregated EXCEPT ![v] = @ \cup Refreshable(v)]
    /\ UNCHANGED <<load, log, wx, phase, cache, ready, th>>

\* memcached drops an entry when it needs the room, and all of them in a restart
Evict ==
    /\ load.losses
    /\ \E k \in DOMAIN cache : cache' = [j \in DOMAIN cache \ {k} |-> cache[j]]
    /\ UNCHANGED <<database, ready, th>>

Later(n) == Smaller(n + 1, AgeLimit)
HeldLater(v) == [v EXCEPT !.held = @ + 1]
RowsLater(v) == [v EXCEPT !.age = @ + 1]
Passed(e) ==
    LET nothing == e.pc = "look" \/ (e.pc = "query" /\ Head(e.todo).view # "map")  \* is held
        rows    == e.pc = "keep" /\ Head(e.todo).view = "map"       \* wait for their tiles
    IN IF e.pc = "idle" THEN e
       ELSE [e EXCEPT !.slow = @ + 1,
                      !.held = IF nothing THEN 0 ELSE @ + 1,
                      !.val = IF rows THEN RowsLater(@) ELSE @,
                      !.outer = [n \in DOMAIN e.outer |-> HeldLater(e.outer[n])]]
Tick ==
    /\ \A t \in Workers : th[t].pc # "answer" /\ (th[t].pc # "idle" => th[t].slow < load.slow)
    /\ phase' = IF load.charts THEN (phase + 1) % Day ELSE phase
    /\ log' = [i \in Packets |-> [log[i] EXCEPT !.age = Later(@)]]
    /\ wx' = [s \in DOMAIN wx |-> IF wx[s] = None THEN None ELSE Later(wx[s])]
    /\ cache' = [k \in {j \in DOMAIN cache : cache[j].life > 1} |->
                   [cache[k] EXCEPT !.life = @ - 1, !.held = @ + 1]]
    /\ th' = [t \in Workers |-> Passed(th[t])]
    /\ UNCHANGED <<load, aggregated, ready>>

Step(t) ==
    \/ Ask(t) \/ Hit(t) \/ Miss(t) \/ Query(t) \/ QueryCountry(t) \/ ReturnTop(t) \/ Keep(t)
    \/ LookupTiles(t) \/ QueryTiles(t) \/ KeepTiles(t) \/ NextView(t) \/ EndPage(t) \/ QueryFails(t)

Next ==
    \/ \E t \in Workers : Step(t)
    \/ EndWarming \/ WarmingFails
    \/ Receive \/ Report \/ Refresh \/ Evict \/ Tick

Spec == Init /\ [][Next]_vars

-----------------------------------------------------------------------------
(* Properties.                                                             *)

AnsweredMap(t) == th[t].pc = "answer" /\ AtView(t, "map")

\* The last tick of an entry in which it is read is one before its end.
LastHit(v) == Ttl[v] - 1

\* No answer rests on a database read older than its cache allows, whatever
\* threads stored in between: one lifetime, plus the time a page takes.  The
\* figures of a country contain another cached view, and are twice as old; the
\* map waits for its query with tiles in hand that have that age already.
AnswersFresh ==
    \A t \in Workers : th[t].pc = "answer" =>
        LET v == Doing(t).view
        IN th[t].held <= CASE v = "country" -> 2 * load.slow + LastHit("country") + LastHit("country_top")
                           [] v = "map" -> 2 * load.slow + LastHit("tile")
                           [] v \in CachedViews \ {"country"} -> load.slow + LastHit(v)
                           [] OTHER -> load.slow

MapShowsOnlyAsked ==
    \A t \in Threads : AnsweredMap(t) =>
        \A i \in th[t].val.ids :
            /\ InBox(Place(i), Doing(t).box)
            /\ OfType(i, Doing(t).type)
            /\ log[i].age <= Doing(t).hours * Hour + th[t].held

\* a station whose newest position lies in the box and was there before the
\* answer's oldest read, and the map, which had room for it, does not show it
Gaps(t) ==
    LET c == Doing(t)
    IN {i \in PerCall(Located(c.hours, c.type)) :
          /\ InBox(Place(i), c.box) /\ log[i].age > th[t].held
          /\ Place(i).lat # 0 /\ Place(i).lon # 0
          /\ i \notin th[t].val.ids /\ ~th[t].val.full}

MapGapsExplained ==
    \A t \in Threads : AnsweredMap(t) =>
        \A i \in Gaps(t) : LET u == TileOf(Place(i)) IN u \in th[t].val.partial \/ u \notin FirstTiles(Doing(t).box)

\* Though tiles are shared by requests, the map shows only what was asked for:
\* positions in the box, of the type, and within the hours when they were read.
\* And a station is missing only where its tile was stored by a query that did
\* not read the whole tile, or is beyond the greatest number of tiles.
MapAsAsked == MapShowsOnlyAsked /\ MapGapsExplained

\* The charts lose nothing at the edge of their window: a bar of a past day
\* counts that whole day, and the bars of the hours count every packet of the
\* last day, and none that is more than the broken hour older.
BarsWhole ==
    [][\A t \in Workers : th[t].pc = "query" /\ th'[t].pc = "keep" =>
          LET bars == th'[t].val
              source == IF load.aggregates THEN aggregated["stats"] ELSE Packets
              Within(h, age) == Cardinality({i \in source : log[i].age <= age /\ HourOf(i) = h})
          IN /\ AtView(t, "daily") =>
                  \A ago \in 1..(WeekDays - 1) : bars[ago] = Cardinality(OfDay(source, ago))
             /\ AtView(t, "hourly") =>
                  \A h \in 0..(DayHours - 1) :
                      bars[h] >= Within(h, Day) /\ bars[h] <= Within(h, Day + Hour - 1)]_vars

\* Whether the queries that warm the caches answer or raise, the site opens: where
\* there is a thread that warms, no page is sent to /loading once it has ended.
ReadyAfterWarming == load.start # "unconfigured" /\ th[Warmer].pc = "idle" => ready

=============================================================================
