---------------------------- MODULE MCDashboard ----------------------------
(* One degree of latitude is two grid points; a day has two hours of two   *)
(* ticks.  Each load asks for the pages of one part of the site.           *)
EXTENDS Dashboard, TLC

at(y) == [lat |-> y, lon |-> 3]
packet(c, p) == [call |-> c, type |-> "position", place |-> p, parsed |-> None, code |-> None]
weather(c, p) == [packet(c, p) EXCEPT !.type = "weather"]
coded(c, p, k) == [packet(c, p) EXCEPT !.code = k]
MCShapes == {packet(c, p) : c \in 1..3, p \in {at(2), at(3), at(4), at(6), None}}
MCPrefixCountry == <<"US", "US", None>>
MCCountryAt == [p \in {at(y) : y \in 2..7} |-> IF p.lat < 6 THEN "US" ELSE None]
MCStateAt == [p \in {at(y) : y \in 2..7} |-> IF p.lat < 4 THEN "VA" ELSE None]
MCStations == [c \in 1..3 |-> at(c + 1)]
MCTtl == [v \in CachedViews \cup {"tile"} |-> IF v \in {"country", "country_top", "wx", "station"} THEN 2 ELSE 1]

box(south, north) == [south |-> south, north |-> north, west |-> 2, east |-> 3]
tiled(b, h) == [view |-> "map/stations", box |-> b, hours |-> h, type |-> None, limit |-> 5, offset |-> 0, fast |-> TRUE]
typed(b, h) == [tiled(b, h) EXCEPT !.type = "weather"]
page(v) == [view |-> v]

Quiet == [pages |-> {}, arrivals |-> {}, packets |-> 0, reporting |-> {}, refreshing |-> {},
          aggregates |-> TRUE, charts |-> FALSE, countries |-> FALSE, oldest |-> 6, start |-> "warmed", slow |-> 0, busy |-> 1, losses |-> FALSE]

\* the map: boxes that share a tile; hours and types that share a place; more
\* tiles and rows than one request takes
PartialLoad == [Quiet EXCEPT !.pages = {tiled(box(2, 2), 1), tiled(box(2, 5), 1)}, !.oldest = 3,
                  !.arrivals = {packet(1, at(2)), packet(1, at(3)), packet(2, at(4))}, !.packets = 2]
HoursLoad == [Quiet EXCEPT !.pages = {tiled(box(2, 3), 2), tiled(box(2, 3), 1), typed(box(2, 3), 1)}, !.oldest = 5,
                !.arrivals = {packet(1, at(2)), weather(1, at(2))}, !.packets = 1, !.busy = 2]
WideLoad == [Quiet EXCEPT !.pages = {tiled(box(2, 7), 1)}, !.oldest = 4,
               !.arrivals = {packet(1, at(2)), packet(2, at(6)), packet(3, at(3))}, !.packets = 3]
SlowLoad == [Quiet EXCEPT !.pages = {tiled(box(2, 3), 1)}, !.oldest = 5, !.slow = 1, !.busy = 2,
               !.losses = TRUE, !.arrivals = {packet(1, at(2))}, !.packets = 1]
\* a station on the equator, which the map leaves out, before one that is not
ZeroLoad == [Quiet EXCEPT !.pages = {[tiled(box(0, 3), 1) EXCEPT !.limit = 1]}, !.oldest = 3,
               !.arrivals = {packet(1, at(2)), packet(2, at(0))}, !.packets = 2]
\* no config file: the site stays closed
ClosedLoad == [Quiet EXCEPT !.pages = {page("stats")}, !.start = "unconfigured", !.arrivals = {packet(1, None)}, !.packets = 1]
\* figures: two cached views behind one page; one view asked for by two threads
CountryLoad(p, shapes, slow) == [Quiet EXCEPT !.pages = {[view |-> "country/stats", country |-> "US"]}, !.arrivals = {p},
                     !.packets = 1, !.oldest = 5, !.slow = slow, !.countries = shapes, !.aggregates = FALSE]
TopLoad == [Quiet EXCEPT !.pages = {[view |-> "top-stations", limit |-> 1]}, !.arrivals = {packet(1, None), packet(2, None)},
              !.packets = 1, !.oldest = 5, !.slow = 1, !.busy = 2, !.losses = TRUE, !.refreshing = {"station"}]
ChartLoad(a) == [Quiet EXCEPT !.pages = {page("/")}, !.arrivals = {packet(1, None)}, !.packets = 1, !.charts = TRUE,
              !.refreshing = IF a THEN {"stats"} ELSE {}, !.aggregates = a, !.oldest = 9]
WarmLoad(a) == [Quiet EXCEPT !.pages = {page("stats")}, !.arrivals = {packet(1, at(2)), packet(3, None)}, !.packets = 1,
               !.start = "warming", !.aggregates = a, !.oldest = 5]
\* lists: most of them read once and not cached
asks(v) == [view |-> v, country |-> "US", call |-> 1, state |-> "VA", limit |-> 1, offset |-> 0, hours |-> 99, recent |-> TRUE]
packets(o, c, k) == [view |-> "packets", limit |-> 1, offset |-> o, hours |-> 99, call |-> c, country |-> k]
wxs(o, k, s) == [view |-> "wx", limit |-> 1, offset |-> o, country |-> k, state |-> s, recent |-> TRUE]
ListLoad == [Quiet EXCEPT
    !.pages = {packets(0, None, "US"), [packets(1, 1, None) EXCEPT !.view = "station/packets"],
               [tiled(None, 9) EXCEPT !.limit = 0], [tiled(box(2, 4), 1) EXCEPT !.fast = FALSE, !.limit = 9], asks("station")},
    !.arrivals = {coded(1, at(3), "US"), [packet(1, None) EXCEPT !.parsed = at(6)]},
    !.packets = 2, !.oldest = 5]
FigureLoad(pages, a) == [Quiet EXCEPT !.pages = pages, !.arrivals = {packet(2, None)}, !.packets = 1, !.oldest = 5,
                            !.refreshing = {"prefix"}, !.aggregates = a]
FigureLoads == {FigureLoad(pages, a) : a \in BOOLEAN, pages \in
    {{asks("country/top-stations"), asks("/country")}, {asks("countries"), asks("countries/all")},
     {asks("countries/all/json"), page("hourly")}}}
WeatherLoad(pages, names) == [Quiet EXCEPT !.pages = pages, !.reporting = names, !.oldest = 5]
WeatherLoads ==
    {WeatherLoad({wxs(0, None, None), wxs(1, "US", None), wxs(0, None, "VA")}, {1, 2}),
     WeatherLoad({asks("weather/countries"), asks("states"), asks("state"), asks("state/trends")}, {1}),
     WeatherLoad({asks("station"), asks("station/weather")}, {1})}

Sym == Permutations(Threads)
MCLoads ==
    {PartialLoad, HoursLoad, WideLoad, SlowLoad, ZeroLoad, ClosedLoad, TopLoad, ListLoad}
      \cup {CountryLoad(packet(1, None), FALSE, 1), CountryLoad(packet(1, at(2)), TRUE, 0),
            CountryLoad(coded(1, at(2), "US"), FALSE, 0)}
      \cup UNION {{ChartLoad(a), WarmLoad(a)} : a \in BOOLEAN}
      \cup FigureLoads \cup WeatherLoads
=============================================================================
