-------------------------- MODULE Dashboard_proofs --------------------------
(***************************************************************************)
(* Proofs about the dashboard: its pages, for every load, every number of  *)
(* threads, every lifetime of the cached entries and every bound on the    *)
(* map, and its live feed, for every set of rows, of browsers, every limit *)
(* of a poll and every size of the station cache.                          *)
(*                                                                         *)
(* Freshness.  ServeInv follows a value from the read it was made of,      *)
(* through memcached and the calls a page makes, to the answer: a value in *)
(* hand is as old as the call has taken, or as its entry was when it was   *)
(* hit, and what is stored lives on for no longer than its Ttl.            *)
(*                                                                         *)
(* The map.  DataInv says what the tables hold.  MapInv says of every tile *)
(* in memcached which packets it has for certain: all that are due and     *)
(* were there when it was read, unless it was cut.  A page that merges     *)
(* tiles therefore lacks none, whoever stored them and for whatever other  *)
(* page.                                                                   *)
(*                                                                         *)
(* The charts are operators of the packets; the lemmas say what buckets a  *)
(* window cuts.                                                            *)
(*                                                                         *)
(* The live feed (LiveFeed).  A poll is one step that loops over its rows: *)
(* the loop is a recursive function, and what holds of it is proved row by *)
(* row.  FeedInv: what was sent was emitted, nothing emitted is newer than *)
(* last_packet_time, no browser has two rooms that get the same row, and   *)
(* the station cache has the country of the last row that gave one.        *)
(***************************************************************************)
EXTENDS Dashboard, LiveFeed, SequenceLemmas

-----------------------------------------------------------------------------
(* The pages                                                               *)

Known == CachedViews \cup {"packets", "station_weather", "states", "map", "map_fast", "map_trails"}

(* A call of a view as the handlers make them *)
IsCall(c) ==
    /\ "view" \in DOMAIN c /\ c.view \in Known
    /\ c.view = "map" => c.limit \in Nat /\ c.hours \in Nat /\ c.hours * Hour < load.oldest

CallList(s) == s \in Seq(Range(s)) /\ s # <<>> /\ \A i \in 1 .. Len(s) : IsCall(s[i])

Points == {"idle", "look", "query", "keep", "answer"}
Fields == {"pc", "todo", "val", "held", "outer", "slow"}

(* The frame of a country's figures lies under a call of its top stations. *)
Framed(e) ==
    /\ e.outer \in Seq(Range(e.outer)) /\ Len(e.outer) = 1
    /\ DOMAIN e.outer[1] = {"figures", "held"} /\ e.outer[1].held \in Nat
    /\ Len(e.todo) > 1 /\ e.todo[1].view = "country_top" /\ e.todo[2].view = "country"

(* What a worker is doing: the shapes of its fields *)
WorkerTypes(e) ==
    /\ DOMAIN e = Fields /\ e.pc \in Points
    /\ e.held \in Nat /\ e.slow \in 0 .. load.slow
    /\ e.pc # "idle" => CallList(e.todo)
    /\ e.outer # <<>> => e.pc # "idle" /\ Framed(e)

(* How old a country's top stations, and the tiles of a map, are when the  *)
(* view goes on from them                                                  *)
TopBound == load.slow + LastHit("country_top")
TileBound == load.slow + LastHit("tile")

(* The bounds that AnswersFresh states *)
AnswerBound(v) ==
    CASE v = "country" -> 2 * load.slow + LastHit("country") + LastHit("country_top")
      [] v = "map" -> 2 * load.slow + LastHit("tile")
      [] v \in CachedViews \ {"country"} -> load.slow + LastHit(v)
      [] OTHER -> load.slow

(* How old what a worker holds can be, at each point of a view *)
WorkerFresh(e) ==
    /\ e.pc = "look" \/ (e.pc = "query" /\ Head(e.todo).view # "map") =>
          e.val = None /\ e.held = 0
    /\ e.pc \in {"query", "keep"} /\ Head(e.todo).view = "map" => e.held <= TileBound + e.slow
    /\ e.pc = "keep" /\ Head(e.todo).view = "map" =>
          "age" \in DOMAIN e.val /\ e.val.age \in Nat /\ e.val.age <= e.slow
    /\ e.pc = "keep" /\ Head(e.todo).view = "country" => e.held <= TopBound + e.slow
    /\ e.pc = "keep" /\ Head(e.todo).view \notin {"map", "country"} => e.held <= e.slow
    /\ e.pc = "answer" => e.held <= AnswerBound(Head(e.todo).view)
    /\ e.outer # <<>> => e.outer[1].held <= TopBound + e.slow

WorkerOk(e) == WorkerTypes(e) /\ WorkerFresh(e)

(* How old an entry can be when it ends: what it was when it was stored,   *)
(* and its lifetime                                                        *)
EntryBound(v) == IF v = "country" THEN 2 * load.slow + LastHit("country_top") + Ttl["country"]
                 ELSE load.slow + Ttl[v]

EntryOk(k, entry) ==
    /\ "view" \in DOMAIN k /\ k.view \in CachedViews \cup {"tile"}
    /\ DOMAIN entry = {"val", "life", "held"}
    /\ entry.life \in Nat \ {0} /\ entry.held \in Nat
    /\ entry.held + entry.life <= EntryBound(k.view)

(* Of the requests, and of memcached *)
ServeInv ==
    /\ load \in Loads /\ DOMAIN th = Workers
    /\ \A t \in Workers : WorkerOk(th[t])
    /\ \A k \in DOMAIN cache : EntryOk(k, cache[k])
    /\ ReadyAfterWarming

-----------------------------------------------------------------------------
LEMMA OverRange ==
    ASSUME NEW S, NEW s \in Seq(S)
    PROVE  s \in Seq(Range(s)) /\ (s = <<>> <=> Len(s) = 0) /\ (s # <<>> => Head(s) = s[1])
<1>1. Len(s) \in Nat /\ DOMAIN s = 1 .. Len(s) /\ s \in [1 .. Len(s) -> S]  OBVIOUS
<1>2. \A i \in 1 .. Len(s) : s[i] \in Range(s)  BY <1>1 DEF Range
<1>3. s \in [1 .. Len(s) -> Range(s)]  BY <1>1, <1>2
<1>4. s \in Seq(Range(s))  BY <1>1, <1>3, SeqDef
<1>5. QED BY <1>4, EmptySeq

LEMMA TailList ==
    ASSUME NEW s, CallList(s), Len(s) > 1
    PROVE  CallList(Tail(s)) /\ Len(Tail(s)) = Len(s) - 1 /\ Head(Tail(s)) = s[2]
<1>1. s \in Seq(Range(s)) /\ s # <<>> /\ \A i \in 1 .. Len(s) : IsCall(s[i])  BY DEF CallList
<1>2. /\ Tail(s) \in Seq(Range(s)) /\ Len(Tail(s)) = Len(s) - 1
      /\ \A i \in 1 .. Len(s) - 1 : Tail(s)[i] = s[i + 1]
  BY <1>1
<1>3. Len(s) \in Nat /\ \A i \in 1 .. Len(s) - 1 : i + 1 \in 1 .. Len(s)  BY <1>1
<1>4. Tail(s) \in Seq(Range(Tail(s)))  BY <1>2, OverRange
<1>5. \A i \in 1 .. Len(Tail(s)) : IsCall(Tail(s)[i])  BY <1>1, <1>2, <1>3
<1>6. Tail(s) # <<>> /\ Head(Tail(s)) = Tail(s)[1]
  <2>1. Len(s) - 1 # 0  BY <1>3
  <2>2. Len(Tail(s)) # 0  BY <1>2, <2>1
  <2>3. QED BY <1>2, <2>2, OverRange
<1>7. Tail(s)[1] = s[2]  BY <1>2, <1>3
<1>8. QED BY <1>2, <1>4, <1>5, <1>6, <1>7 DEF CallList

LEMMA HeadCall ==
    ASSUME NEW s, CallList(s)
    PROVE  Head(s) = s[1] /\ IsCall(Head(s)) /\ Len(s) \in Nat /\ Len(s) >= 1
BY DEF CallList

LEMMA PushList ==
    ASSUME NEW s, CallList(s), NEW c, IsCall(c)
    PROVE  /\ CallList(<<c>> \o s) /\ Len(<<c>> \o s) = Len(s) + 1
           /\ Head(<<c>> \o s) = c /\ (<<c>> \o s)[1] = c /\ (<<c>> \o s)[2] = Head(s)
<1> DEFINE S == Range(s) \cup {c}
           p == <<c>> \o s
<1>1. s \in Seq(Range(s)) /\ s # <<>> /\ \A i \in 1 .. Len(s) : IsCall(s[i])  BY DEF CallList
<1>2. s \in Seq(S) /\ <<c>> \in Seq(S) /\ Len(<<c>>) = 1 /\ <<c>>[1] = c
  <2>1. Seq(Range(s)) \subseteq Seq(S)  OBVIOUS
  <2>2. QED BY <1>1, <2>1
<1> HIDE DEF S
<1>3. /\ p \in Seq(S) /\ Len(p) = 1 + Len(s)
      /\ \A i \in 1 .. 1 + Len(s) : p[i] = IF i <= 1 THEN <<c>>[i] ELSE s[i - 1]
  BY <1>2, ConcatProperties
<1>4. Len(s) \in Nat /\ Len(s) >= 1 /\ Head(s) = s[1]  BY <1>1
<1>5. p[1] = c /\ p[2] = s[1]  BY <1>2, <1>3, <1>4
<1>6. \A i \in 2 .. 1 + Len(s) : p[i] = s[i - 1] /\ i - 1 \in 1 .. Len(s)  BY <1>3, <1>4
<1>7. \A i \in 1 .. Len(p) : IsCall(p[i])
  <2>1. \A i \in 1 .. Len(p) : i = 1 \/ i \in 2 .. 1 + Len(s)  BY <1>3, <1>4
  <2>2. QED BY <1>1, <1>5, <1>6, <2>1
<1>8. p \in Seq(Range(p))  BY <1>3, OverRange
<1>9. p # <<>> /\ Head(p) = p[1]  BY <1>3, <1>4
<1>10. CallList(p)  BY <1>7, <1>8, <1>9 DEF CallList
<1>11. QED BY <1>3, <1>4, <1>5, <1>9, <1>10

LEMMA OneList ==
    ASSUME NEW c, IsCall(c)
    PROVE  CallList(<<c>>)
<1>1. <<c>> \in Seq({c}) /\ Len(<<c>>) = 1 /\ <<c>>[1] = c  OBVIOUS
<1>2. <<c>> \in Seq(Range(<<c>>))  BY <1>1, OverRange
<1>3. \A i \in 1 .. Len(<<c>>) : IsCall(<<c>>[i])  BY <1>1
<1>4. QED BY <1>1, <1>2, <1>3 DEF CallList

LEMMA TwoList ==
    ASSUME NEW a, NEW b, IsCall(a), IsCall(b)
    PROVE  CallList(<<a, b>>)
<1> DEFINE s == <<a, b>>
<1>1. s \in Seq({a, b}) /\ Len(s) = 2  OBVIOUS
<1>2. s[1] = a /\ s[2] = b  OBVIOUS
<1> HIDE DEF s
<1>3. s \in Seq(Range(s)) /\ s # <<>>
  <2>1. Len(s) # 0  BY <1>1
  <2>2. QED BY <1>1, <2>1, OverRange
<1>4. \A i \in 1 .. Len(s) : i \in {1, 2}  BY <1>1
<1>5. \A i \in 1 .. Len(s) : IsCall(s[i])  BY <1>2, <1>4
<1>6. QED BY <1>3, <1>5 DEF CallList, s

LEMMA FourList ==
    ASSUME NEW a, NEW b, NEW c, NEW d, IsCall(a), IsCall(b), IsCall(c), IsCall(d)
    PROVE  CallList(<<a, b, c, d>>)
<1> DEFINE s == <<a, b, c, d>>
<1>1. s \in Seq({a, b, c, d}) /\ Len(s) = 4  OBVIOUS
<1>2. s[1] = a /\ s[2] = b /\ s[3] = c /\ s[4] = d  OBVIOUS
<1> HIDE DEF s
<1>3. s \in Seq(Range(s)) /\ s # <<>>
  <2>1. Len(s) # 0  BY <1>1
  <2>2. QED BY <1>1, <2>1, OverRange
<1>4. \A i \in 1 .. Len(s) : i \in {1, 2, 3, 4}  BY <1>1
<1>5. \A i \in 1 .. Len(s) : IsCall(s[i])  BY <1>2, <1>4
<1>6. QED BY <1>3, <1>5 DEF CallList, s

LEMMA FiveList ==
    ASSUME NEW a, NEW b, NEW c, NEW d, NEW e, IsCall(a), IsCall(b), IsCall(c), IsCall(d), IsCall(e)
    PROVE  CallList(<<a, b, c, d, e>>)
<1> DEFINE s == <<a, b, c, d, e>>
<1>1. s \in Seq({a, b, c, d, e}) /\ Len(s) = 5  OBVIOUS
<1>2. s[1] = a /\ s[2] = b /\ s[3] = c /\ s[4] = d /\ s[5] = e  OBVIOUS
<1> HIDE DEF s
<1>3. s \in Seq(Range(s)) /\ s # <<>>
  <2>1. Len(s) # 0  BY <1>1
  <2>2. QED BY <1>1, <2>1, OverRange
<1>4. \A i \in 1 .. Len(s) : i \in {1, 2, 3, 4, 5}  BY <1>1
<1>5. \A i \in 1 .. Len(s) : IsCall(s[i])  BY <1>2, <1>4
<1>6. QED BY <1>3, <1>5 DEF CallList, s

(* Calls with the arguments the handlers give themselves *)
LEMMA OwnCalls ==
    /\ \A v \in Known \ {"map"} : IsCall(View(v)) /\ View(v).view = v
    /\ \A v \in Known \ {"map"} : \A n : IsCall(Limited(v, n)) /\ Limited(v, n).view = v
    /\ \A c, n : IsCall(Top(c, n)) /\ Top(c, n).view = "country_top"
<1>1. \A v : DOMAIN View(v) = {"view"} /\ View(v).view = v  BY DEF View
<1>2. \A v, n : DOMAIN Limited(v, n) = {"view", "limit"} /\ Limited(v, n).view = v  BY DEF Limited
<1>3. \A c, n : DOMAIN Top(c, n) = {"view", "country", "limit"} /\ Top(c, n).view = "country_top"
  BY DEF Top
<1>4. "country_top" \in Known  BY DEF Known, CachedViews
<1> HIDE DEF View, Limited, Top, Known
<1>5. QED BY <1>1, <1>2, <1>3, <1>4 DEF IsCall

(* Every handler asks for a view, and the map for no more than the packets *)
(* that have kept their age.                                               *)
LEMMA PlanFacts ==
    ASSUME load \in Loads, NEW p \in load.pages
    PROVE  CallList(Plan(p))
<1>1. "view" \in DOMAIN p /\ p.view \in Routes  BY LoadAssumption
<1>2. {"stats", "hourly", "daily", "top", "countries", "wx_countries", "states", "all_countries"}
          \subseteq Known \ {"map"}
  BY DEF Known, CachedViews
<1> HIDE DEF Known
<1>3. /\ IsCall(View("stats")) /\ IsCall(View("hourly")) /\ IsCall(View("daily"))
      /\ IsCall(View("wx_countries")) /\ IsCall(View("states")) /\ IsCall(View("all_countries"))
      /\ \A n : IsCall(Limited("top", n)) /\ IsCall(Limited("countries", n))
      /\ \A c, n : IsCall(Top(c, n))
  BY <1>2, OwnCalls
<1>4. CASE p.view = "/"
  BY <1>3, <1>4, FiveList DEF Plan, Index
<1>5. CASE p.view = "countries/all/json"
  BY <1>3, <1>5, TwoList DEF Plan, AllCountriesJson
<1>6. CASE p.view = "stats"  BY <1>3, <1>6, OneList DEF Plan, Stats
<1>7. CASE p.view = "top-stations"  BY <1>3, <1>7, OneList DEF Plan, TopList
<1>8. CASE p.view = "countries"  BY <1>3, <1>8, OneList DEF Plan, Countries
<1>9. CASE p.view = "hourly"  BY <1>3, <1>9, OneList DEF Plan, Hourly
<1>10. CASE p.view = "weather/countries"  BY <1>3, <1>10, OneList DEF Plan, WeatherCountryList
<1>11. CASE p.view = "states"  BY <1>3, <1>11, OneList DEF Plan, StateList
<1>12. CASE p.view = "countries/all"  BY <1>3, <1>12, OneList DEF Plan, AllCountriesGrid
<1>13. CASE p.view = "country/top-stations"  BY <1>3, <1>13, OneList DEF Plan, CountryTopList
<1>14. CASE p.view \in {"/country", "country/stats", "station", "station/weather", "state", "state/trends"}
  <2>1. IsCall([view |-> "country", country |-> p.country])
        /\ IsCall([view |-> "station", call |-> p.call])
        /\ IsCall([view |-> "station_weather", call |-> p.call])
        /\ IsCall([view |-> "state_stations", state |-> p.state])
        /\ IsCall([view |-> "state_trends", state |-> p.state])
    BY DEF IsCall, Known, CachedViews
  <2>2. CASE p.view = "/country"  BY <1>3, <2>1, <2>2, TwoList DEF Plan, CountryDetail
  <2>3. CASE p.view = "country/stats"  BY <2>1, <2>3, OneList DEF Plan, CountryStats
  <2>4. CASE p.view = "station"  BY <2>1, <2>4, OneList DEF Plan, Station
  <2>5. CASE p.view = "station/weather"  BY <2>1, <2>5, OneList DEF Plan, StationReports
  <2>6. CASE p.view = "state"  BY <2>1, <2>6, OneList DEF Plan, State
  <2>7. CASE p.view = "state/trends"  BY <2>1, <2>7, OneList DEF Plan, StateTrend
  <2>8. QED BY <1>14, <2>2, <2>3, <2>4, <2>5, <2>6, <2>7
<1>15. CASE p.view = "packets"
  <2>1. IsCall([p EXCEPT !.hours = Smaller(@, WeekCap)])
    BY <1>1, <1>15 DEF IsCall, Known
  <2>2. QED BY <1>15, <2>1, OneList DEF Plan, PacketList
<1>16. CASE p.view = "wx"
  <2>1. IsCall(p)  BY <1>1, <1>16 DEF IsCall, Known, CachedViews
  <2>2. QED BY <1>16, <2>1, OneList DEF Plan, Weather
<1>17. CASE p.view = "station/packets"
  <2>1. IsCall([p EXCEPT !.view = "packets", !.hours = DayHours])
    BY <1>1 DEF IsCall, Known
  <2>2. QED BY <1>17, <2>1, OneList DEF Plan, StationPackets
<1>18. CASE p.view = "map/stations"
  <2>1. {"hours", "limit"} \subseteq DOMAIN p /\ p.limit \in Int
        /\ SpanOf(p.hours) * Hour < load.oldest
    BY <1>18, LoadAssumption
  <2>2. SpanOf(p.hours) \in Nat
    BY DashboardAssumption, DashboardQueriesAssumption DEF SpanOf
  <2>3. Clamp(p.limit) \in Nat  BY <2>1, DashboardAssumption DEF Clamp, Smaller
  <2> DEFINE q == [p EXCEPT !.hours = SpanOf(@), !.limit = Clamp(@)]
             kind == CASE p.fast /\ p.box # None -> "map"
                       [] p.fast /\ p.box = None -> "map_fast"
                       [] OTHER -> "map_trails"
             c == [q EXCEPT !.view = kind]
  <2>4. kind \in {"map", "map_fast", "map_trails"}  OBVIOUS
  <2> HIDE DEF kind
  <2>5. "view" \in DOMAIN c /\ c.view = kind /\ c.limit = Clamp(p.limit) /\ c.hours = SpanOf(p.hours)
    BY <1>1, <2>1
  <2> HIDE DEF c
  <2>6. IsCall(c)  BY <2>1, <2>2, <2>3, <2>4, <2>5 DEF IsCall, Known
  <2>7. Plan(p) = <<c>>  BY <1>18 DEF Plan, MapPage, c, q, kind
  <2>8. QED BY <2>6, <2>7, OneList
<1>19. QED BY <1>1, <1>4, <1>5, <1>6, <1>7, <1>8, <1>9, <1>10, <1>11, <1>12, <1>13, <1>14, <1>15, <1>16, <1>17, <1>18 DEF Routes

(* What _warm_cache asks for *)
LEMMA WarmFacts == CallList(WarmViews)
<1>1. {"stats", "hourly", "top", "countries"} \subseteq Known \ {"map"}
  BY DEF Known, CachedViews
<1> HIDE DEF Known
<1>2. IsCall(View("stats")) /\ IsCall(View("hourly"))
      /\ IsCall(Limited("top", 10)) /\ IsCall(Limited("countries", 10))
  BY <1>1, OwnCalls
<1>3. QED BY <1>2, FourList DEF WarmViews

-----------------------------------------------------------------------------
(* The workers                                                             *)

LEMMA BoundFacts ==
    ASSUME load \in Loads
    PROVE  /\ load.slow \in Nat /\ TopBound \in Nat /\ TileBound \in Nat
           /\ \A v \in CachedViews \cup {"tile"} :
                 Ttl[v] \in Nat /\ Ttl[v] >= 1 /\ LastHit(v) \in Nat /\ LastHit(v) = Ttl[v] - 1
           /\ TopBound = load.slow + LastHit("country_top")
           /\ TileBound = load.slow + LastHit("tile")
           /\ AnswerBound("country") = TopBound + load.slow + LastHit("country")
           /\ AnswerBound("map") = TileBound + load.slow
           /\ AnswerBound("country_top") = TopBound
           /\ \A v \in CachedViews \ {"country"} : AnswerBound(v) = load.slow + LastHit(v)
           /\ \A v \in Known : AnswerBound(v) \in Nat /\ load.slow <= AnswerBound(v)
<1>1. load.slow \in Nat  BY LoadAssumption
<1>2. \A v \in CachedViews \cup {"tile"} :
          Ttl[v] \in Nat /\ Ttl[v] >= 1 /\ LastHit(v) \in Nat /\ LastHit(v) = Ttl[v] - 1
  BY DashboardAssumption DEF LastHit
<1>3. {"country", "country_top"} \subseteq CachedViews /\ "map" \notin CachedViews  BY DEF CachedViews
<1>4. LastHit("country_top") \in Nat /\ LastHit("country") \in Nat /\ LastHit("tile") \in Nat
  BY <1>2, <1>3
<1> HIDE DEF LastHit, CachedViews
<1>5. TopBound \in Nat /\ TileBound \in Nat /\ TopBound = load.slow + LastHit("country_top")
      /\ TileBound = load.slow + LastHit("tile")
  BY <1>1, <1>4 DEF TopBound, TileBound
<1>6. AnswerBound("country") = TopBound + load.slow + LastHit("country")
  BY <1>1, <1>4, <1>5, <1>3 DEF AnswerBound
<1>7. AnswerBound("map") = TileBound + load.slow  BY <1>1, <1>4, <1>5, <1>3 DEF AnswerBound
<1>8. \A v \in CachedViews \ {"country"} : AnswerBound(v) = load.slow + LastHit(v)
  BY <1>3 DEF AnswerBound
<1>9. AnswerBound("country_top") = TopBound  BY <1>3, <1>5, <1>8
<1>10. ASSUME NEW v \in Known
       PROVE  AnswerBound(v) \in Nat /\ load.slow <= AnswerBound(v)
  <2>1. CASE v = "country"  BY <1>1, <1>4, <1>5, <1>6, <2>1
  <2>2. CASE v = "map"  BY <1>1, <1>4, <1>5, <1>7, <2>2
  <2>3. CASE v \in CachedViews \ {"country"}  BY <1>1, <1>2, <1>8, <2>3
  <2>4. CASE v \notin CachedViews \cup {"map"}
    <3>1. v # "country"  BY <1>3, <2>4
    <3>2. AnswerBound(v) = load.slow  BY <2>4, <3>1 DEF AnswerBound
    <3>3. QED BY <1>1, <3>2
  <2>5. QED BY <2>1, <2>2, <2>3, <2>4
<1>11. QED BY <1>1, <1>2, <1>5, <1>6, <1>7, <1>8, <1>9, <1>10

LEMMA SameLoad ==
    ASSUME load' = load
    PROVE  /\ \A e : WorkerOk(e)' <=> WorkerOk(e)
           /\ \A k, e : EntryOk(k, e)' <=> EntryOk(k, e)
<1>1. \A e : WorkerTypes(e)' <=> WorkerTypes(e)
  BY DEF WorkerTypes, CallList, IsCall, Framed
<1>2. \A e : WorkerFresh(e)' <=> WorkerFresh(e)
  <2>1. TopBound' = TopBound /\ TileBound' = TileBound  BY DEF TopBound, TileBound
  <2>2. \A v : AnswerBound(v)' = AnswerBound(v)  BY DEF AnswerBound
  <2> HIDE DEF TopBound, TileBound, AnswerBound
  <2>3. QED BY <2>1, <2>2 DEF WorkerFresh
<1>3. \A k, e : EntryOk(k, e)' <=> EntryOk(k, e)
  BY DEF EntryOk, EntryBound
<1>4. QED BY <1>1, <1>2, <1>3 DEF WorkerOk

(* One worker moves, and nothing else changes. *)
LEMMA WorkerMoves ==
    ASSUME ServeInv, NEW t \in Workers, NEW e, Move(t, e), WorkerOk(e),
           t = Warmer /\ e.pc = "idle" => ready, UNCHANGED <<load, cache, ready>>
    PROVE  ServeInv'
<1>1. /\ load \in Loads /\ DOMAIN th = Workers
      /\ \A u \in Workers : WorkerOk(th[u])
      /\ \A k \in DOMAIN cache : EntryOk(k, cache[k])
      /\ ReadyAfterWarming
  BY DEF ServeInv
<1>2. th' = [th EXCEPT ![t] = e] /\ load' = load /\ cache' = cache /\ ready' = ready
  BY DEF Move
<1>3. DOMAIN th' = Workers /\ \A u \in Workers : th'[u] = IF u = t THEN e ELSE th[u]
  BY <1>1, <1>2
<1>4. \A u \in Workers : WorkerOk(th[u])'
  <2>1. SUFFICES ASSUME NEW u \in Workers PROVE WorkerOk(th[u])'
    OBVIOUS
  <2>2. WorkerOk(th'[u])  BY <1>1, <1>3
  <2>3. QED BY <1>2, <2>2, SameLoad
<1>5. \A k \in DOMAIN cache' : EntryOk(k, cache[k])'
  <2>1. SUFFICES ASSUME NEW k \in DOMAIN cache' PROVE EntryOk(k, cache[k])'
    OBVIOUS
  <2>2. EntryOk(k, cache'[k])  BY <1>1, <1>2
  <2>3. QED BY <1>2, <2>2, SameLoad
<1>6. ReadyAfterWarming'
  <2>1. Warmer \in Workers  BY DEF Workers
  <2>2. QED BY <1>1, <1>2, <1>3, <2>1 DEF ReadyAfterWarming
<1>7. QED BY <1>1, <1>2, <1>3, <1>4, <1>5, <1>6 DEF ServeInv

LEMMA IdleOk ==
    ASSUME load \in Loads
    PROVE  WorkerOk(Idle)
<1>1. load.slow \in Nat  BY BoundFacts
<1>2. DOMAIN Idle = Fields /\ Idle.pc = "idle" /\ Idle.held = 0 /\ Idle.outer = <<>> /\ Idle.slow = 0
  BY DEF Idle, Fields
<1> HIDE DEF Idle
<1>3. WorkerTypes(Idle)  BY <1>1, <1>2 DEF WorkerTypes, Points
<1>4. WorkerFresh(Idle)  BY <1>2 DEF WorkerFresh
<1>5. QED BY <1>3, <1>4 DEF WorkerOk

(* A worker that begins with a list of views *)
LEMMA LookOk ==
    ASSUME load \in Loads, NEW e, DOMAIN e = Fields, e.pc = "look", CallList(e.todo),
           e.held = 0, e.val = None, e.outer = <<>>, e.slow \in 0 .. load.slow
    PROVE  WorkerOk(e)
<1>1. load.slow \in Nat  BY BoundFacts
<1>2. WorkerTypes(e)  BY <1>1 DEF WorkerTypes, Points
<1>3. WorkerFresh(e)  BY DEF WorkerFresh
<1>4. QED BY <1>2, <1>3 DEF WorkerOk

(* What is known of a worker that is at a view *)
LEMMA AtWork ==
    ASSUME ServeInv, NEW t \in Workers, th[t].pc # "idle"
    PROVE  /\ load \in Loads /\ WorkerOk(th[t]) /\ DOMAIN th[t] = Fields /\ CallList(th[t].todo)
           /\ Doing(t) = Head(th[t].todo) /\ Doing(t) = th[t].todo[1] /\ IsCall(Doing(t))
           /\ th[t].held \in Nat /\ th[t].slow \in Nat /\ th[t].slow <= load.slow
           /\ load.slow \in Nat
<1>1. WorkerOk(th[t]) /\ load \in Loads  BY DEF ServeInv
<1>2. WorkerTypes(th[t])  BY <1>1 DEF WorkerOk
<1>3. load.slow \in Nat  BY <1>1, BoundFacts
<1>4. CallList(th[t].todo)  BY <1>2 DEF WorkerTypes
<1>5. Head(th[t].todo) = th[t].todo[1] /\ IsCall(Head(th[t].todo))  BY <1>4, HeadCall
<1>6. DOMAIN th[t] = Fields /\ th[t].held \in Nat /\ th[t].slow \in 0 .. load.slow
  BY <1>2 DEF WorkerTypes
<1>7. QED BY <1>1, <1>3, <1>4, <1>5, <1>6 DEF Doing

LEMMA AskServes ==
    ASSUME ServeInv, NEW t \in Workers, Ask(t)
    PROVE  ServeInv'
<1>1. load \in Loads /\ load.slow \in Nat  BY BoundFacts DEF ServeInv
<1>2. PICK p \in load.pages : Move(t, [Idle EXCEPT !.pc = "look", !.todo = Plan(p)])
  BY DEF Ask
<1>3. UNCHANGED <<load, cache, ready>>  BY DEF Ask, database
<1>4. CallList(Plan(p))  BY <1>1, PlanFacts
<1> HIDE DEF Plan
<1> DEFINE e == [Idle EXCEPT !.pc = "look", !.todo = Plan(p)]
<1>5. /\ DOMAIN e = Fields /\ e.pc = "look" /\ e.todo = Plan(p) /\ e.held = 0
      /\ e.val = None /\ e.outer = <<>> /\ e.slow = 0
  BY DEF Idle, Fields
<1>6. Move(t, e)  BY <1>2
<1> HIDE DEF e
<1>7. WorkerOk(e)  BY <1>1, <1>4, <1>5, LookOk
<1>8. QED BY <1>3, <1>5, <1>6, <1>7, WorkerMoves

(* An answer that is not too old *)
LEMMA AnswerOk ==
    ASSUME ServeInv, NEW t \in Workers, th[t].pc \in {"look", "keep"},
           NEW val, NEW held \in Nat, held <= AnswerBound(Doing(t).view)
    PROVE  WorkerOk([th[t] EXCEPT !.pc = "answer", !.val = val, !.held = held])
<1> DEFINE e == [th[t] EXCEPT !.pc = "answer", !.val = val, !.held = held]
<1>1. /\ WorkerTypes(th[t]) /\ WorkerFresh(th[t]) /\ DOMAIN th[t] = Fields
      /\ Doing(t) = Head(th[t].todo)
  BY AtWork DEF WorkerOk
<1>2. /\ DOMAIN e = Fields /\ e.pc = "answer" /\ e.todo = th[t].todo /\ e.held = held
      /\ e.outer = th[t].outer /\ e.slow = th[t].slow
  BY <1>1 DEF Fields
<1> HIDE DEF e
<1>3. WorkerTypes(e)
  <2>1. Framed(th[t]) => Framed(e)  BY <1>2 DEF Framed
  <2>2. QED BY <1>1, <1>2, <2>1 DEF WorkerTypes, Points
<1>4. WorkerFresh(e)  BY <1>1, <1>2 DEF WorkerFresh
<1>5. QED BY <1>3, <1>4 DEF WorkerOk, e

LEMMA HitServes ==
    ASSUME ServeInv, NEW t \in Workers, Hit(t)
    PROVE  ServeInv'
<1> DEFINE k == Key(Doing(t))
           entry == cache[k]
<1>1. th[t].pc = "look" /\ k \in DOMAIN cache /\ Answer(t, entry.val, entry.held)
      /\ UNCHANGED <<load, cache, ready>>
  BY DEF Hit, database
<1>2. k = Doing(t) /\ IsCall(Doing(t)) /\ load \in Loads /\ load.slow \in Nat
  BY <1>1, AtWork DEF Key
<1>3. EntryOk(k, entry)  BY <1>1 DEF ServeInv
<1>4. Doing(t).view \in CachedViews
  <2>1. Doing(t).view \in CachedViews \cup {"tile"} /\ Doing(t).view \in Known
    BY <1>2, <1>3 DEF EntryOk, IsCall
  <2>2. "tile" \notin Known  BY DEF Known, CachedViews
  <2>3. QED BY <2>1, <2>2
<1>5. entry.held \in Nat /\ entry.life \in Nat \ {0}
      /\ entry.held + entry.life <= EntryBound(Doing(t).view)
  BY <1>2, <1>3 DEF EntryOk
<1> DEFINE v == Doing(t).view
<1> HIDE DEF k, entry, v
<1>6. /\ Ttl[v] \in Nat /\ LastHit(v) = Ttl[v] - 1
      /\ TopBound \in Nat /\ TopBound = load.slow + LastHit("country_top") /\ LastHit("country_top") \in Nat
      /\ AnswerBound("country") = TopBound + load.slow + LastHit("country")
      /\ v # "country" => AnswerBound(v) = load.slow + LastHit(v)
  <2>1. v \in CachedViews  BY <1>4 DEF v
  <2>2. "country_top" \in CachedViews  BY DEF CachedViews
  <2>3. QED BY <1>2, <2>1, <2>2, BoundFacts
<1>7. entry.held <= AnswerBound(v)
  <2>1. entry.held + entry.life <= EntryBound(v)  BY <1>5 DEF v
  <2> PICK S \in Nat : S = load.slow  BY <1>2
  <2> PICK T \in Nat : T = Ttl[v]  BY <1>6
  <2> PICK L \in Nat : L = LastHit("country_top")  BY <1>6
  <2> PICK h \in Nat : h = entry.held  BY <1>5
  <2> PICK n \in Nat \ {0} : n = entry.life  BY <1>5
  <2>2. CASE v = "country"
    <3>1. h + n <= 2 * S + L + T  BY <2>1, <2>2 DEF EntryBound
    <3>2. AnswerBound(v) = S + L + S + (T - 1)  BY <1>6, <2>2
    <3>3. h <= S + L + S + (T - 1)
      <4>1. 2 * S = S + S  OBVIOUS
      <4>2. PICK B \in Int : B = S + S + L + T  OBVIOUS
      <4>3. h + n <= B  BY <3>1, <4>1, <4>2
      <4>4. h <= B - 1  BY <4>3
      <4>5. QED BY <4>2, <4>4
    <3>4. QED BY <3>2, <3>3
  <2>3. CASE v # "country"
    <3>1. h + n <= S + T  BY <2>1, <2>3 DEF EntryBound
    <3>2. AnswerBound(v) = S + (T - 1)  BY <1>6, <2>3
    <3>3. h <= S + (T - 1)  BY <3>1
    <3>4. QED BY <3>2, <3>3
  <2>4. QED BY <2>2, <2>3
<1>8. WorkerOk([th[t] EXCEPT !.pc = "answer", !.val = entry.val, !.held = entry.held])
  BY <1>1, <1>5, <1>7, AnswerOk DEF v
<1>9. [th[t] EXCEPT !.pc = "answer", !.val = entry.val, !.held = entry.held].pc = "answer"
  BY <1>1, AtWork DEF Fields
<1>10. QED BY <1>1, <1>8, <1>9, WorkerMoves DEF Answer

LEMMA MissServes ==
    ASSUME ServeInv, NEW t \in Workers, Miss(t)
    PROVE  ServeInv'
<1> DEFINE e == [th[t] EXCEPT !.pc = "query"]
<1>1. th[t].pc = "look" /\ ~AtView(t, "map") /\ Move(t, e) /\ UNCHANGED <<load, cache, ready>>
  BY DEF Miss, database
<1>2. /\ WorkerTypes(th[t]) /\ WorkerFresh(th[t]) /\ DOMAIN th[t] = Fields
      /\ Doing(t) = Head(th[t].todo) /\ CallList(th[t].todo)
  BY <1>1, AtWork DEF WorkerOk
<1>3. Head(th[t].todo).view # "map"  BY <1>1, <1>2 DEF AtView, CallList
<1>4. /\ DOMAIN e = Fields /\ e.pc = "query" /\ e.todo = th[t].todo /\ e.held = th[t].held
      /\ e.val = th[t].val /\ e.outer = th[t].outer /\ e.slow = th[t].slow
  BY <1>2 DEF Fields
<1> HIDE DEF e
<1>5. WorkerTypes(e)
  <2>1. Framed(th[t]) => Framed(e)  BY <1>4 DEF Framed
  <2>2. QED BY <1>1, <1>2, <1>4, <2>1 DEF WorkerTypes, Points
<1>6. WorkerFresh(e)  BY <1>1, <1>2, <1>3, <1>4 DEF WorkerFresh
<1>7. QED BY <1>1, <1>4, <1>5, <1>6, WorkerMoves DEF WorkerOk

LEMMA QueryServes ==
    ASSUME ServeInv, NEW t \in Workers, Query(t)
    PROVE  ServeInv'
<1> DEFINE r == Result(Doing(t))
           e == [th[t] EXCEPT !.pc = "keep", !.val = r, !.held = 0]
<1>1. th[t].pc = "query" /\ Doing(t).view \notin Composed /\ Move(t, e)
      /\ UNCHANGED <<load, cache, ready>>
  BY DEF Query, database
<1> HIDE DEF r
<1>2. /\ WorkerTypes(th[t]) /\ WorkerFresh(th[t]) /\ DOMAIN th[t] = Fields
      /\ Doing(t) = Head(th[t].todo) /\ th[t].slow \in Nat
  BY <1>1, AtWork DEF WorkerOk
<1>3. /\ DOMAIN e = Fields /\ e.pc = "keep" /\ e.todo = th[t].todo /\ e.held = 0
      /\ e.outer = th[t].outer /\ e.slow = th[t].slow
  BY <1>2 DEF Fields
<1> HIDE DEF e
<1>4. WorkerTypes(e)
  <2>1. Framed(th[t]) => Framed(e)  BY <1>3 DEF Framed
  <2>2. QED BY <1>1, <1>2, <1>3, <2>1 DEF WorkerTypes, Points
<1>5. WorkerFresh(e)  BY <1>1, <1>2, <1>3 DEF WorkerFresh, Composed
<1>6. QED BY <1>1, <1>3, <1>4, <1>5, WorkerMoves DEF WorkerOk

LEMMA QueryCountryServes ==
    ASSUME ServeInv, NEW t \in Workers, QueryCountry(t)
    PROVE  ServeInv'
<1>1. th[t].pc = "query" /\ AtView(t, "country") /\ UNCHANGED <<load, cache, ready>>
  BY DEF QueryCountry, database
<1>2. PICK f, n : CallTop(t, f, 0, n)  BY DEF QueryCountry
<1> DEFINE c == Top(Doing(t).country, n)
           e == [th[t] EXCEPT !.pc = "look", !.todo = <<c>> \o @, !.val = None,
                              !.held = 0, !.outer = <<[figures |-> f, held |-> 0]>>]
<1>3. Move(t, e)  BY <1>2 DEF CallTop
<1>4. /\ WorkerTypes(th[t]) /\ DOMAIN th[t] = Fields /\ CallList(th[t].todo)
      /\ Doing(t) = Head(th[t].todo) /\ th[t].slow \in Nat /\ load \in Loads
  BY <1>1, AtWork DEF WorkerOk
<1>5. IsCall(c) /\ c.view = "country_top"  BY OwnCalls
<1> HIDE DEF c
<1>6. Head(th[t].todo).view = "country"  BY <1>1, <1>4 DEF AtView
<1> DEFINE s == <<c>> \o th[t].todo
<1>7. CallList(s) /\ Len(s) = Len(th[t].todo) + 1 /\ Head(s) = c /\ s[1] = c /\ s[2] = Head(th[t].todo)
  BY <1>4, <1>5, PushList
<1>8. Len(th[t].todo) \in Nat /\ Len(th[t].todo) >= 1  BY <1>4, HeadCall
<1> DEFINE frame == [figures |-> f, held |-> 0]
           o == <<frame>>
<1>9. DOMAIN frame = {"figures", "held"} /\ frame.held = 0  OBVIOUS
<1>10. o \in Seq(Range(o)) /\ Len(o) = 1 /\ o[1] = frame /\ o # <<>>
  <2>1. o \in Seq({frame}) /\ Len(o) = 1 /\ o[1] = frame  OBVIOUS
  <2> HIDE DEF o, frame
  <2>2. Len(o) # 0  BY <2>1
  <2>3. QED BY <2>1, <2>2, OverRange
<1>11. /\ DOMAIN e = Fields /\ e.pc = "look" /\ e.todo = s /\ e.held = 0
       /\ e.val = None /\ e.outer = o /\ e.slow = th[t].slow
  BY <1>4 DEF Fields
<1> HIDE DEF e, s, o, frame
<1>12. Framed(e)  BY <1>5, <1>6, <1>7, <1>8, <1>9, <1>10, <1>11 DEF Framed
<1>13. WorkerTypes(e)  BY <1>4, <1>7, <1>11, <1>12 DEF WorkerTypes, Points
<1>14. TopBound \in Nat  BY <1>4, BoundFacts
<1>15. WorkerFresh(e)  BY <1>4, <1>9, <1>10, <1>11, <1>14 DEF WorkerFresh
<1>16. QED BY <1>1, <1>3, <1>11, <1>13, <1>15, WorkerMoves DEF WorkerOk

LEMMA ReturnTopServes ==
    ASSUME ServeInv, NEW t \in Workers, ReturnTop(t)
    PROVE  ServeInv'
<1> DEFINE frame == Head(th[t].outer)
           top == th[t].val
           held == Older(frame.held, th[t].held)
           back == [th[t] EXCEPT !.todo = Tail(@), !.outer = <<>>]
           e1 == [th[t] EXCEPT !.pc = "look", !.val = None, !.held = 0,
                          !.todo = <<[Head(@) EXCEPT !.limit = 1]>> \o Tail(@),
                          !.outer = <<[figures |-> CountryFiguresOf(top), held |-> held]>>]
           e2 == [back EXCEPT !.pc = "keep", !.held = held,
                          !.val = [figures |-> frame.figures,
                                   top |-> IF top = <<>> THEN None ELSE top[1].call]]
<1>1. th[t].pc = "answer" /\ th[t].outer # <<>> /\ UNCHANGED <<load, cache, ready>>
      /\ (Move(t, e1) \/ Move(t, e2))
  BY DEF ReturnTop, database
<1>2. /\ WorkerTypes(th[t]) /\ WorkerFresh(th[t]) /\ DOMAIN th[t] = Fields /\ CallList(th[t].todo)
      /\ Doing(t) = Head(th[t].todo) /\ Doing(t) = th[t].todo[1]
      /\ th[t].slow \in Nat /\ load \in Loads /\ th[t].held \in Nat /\ load.slow \in Nat
  BY <1>1, AtWork DEF WorkerOk
<1>3. Framed(th[t])  BY <1>1, <1>2 DEF WorkerTypes
<1>4. frame = th[t].outer[1]  BY <1>1, <1>3, OverRange DEF Framed
<1>5. frame.held \in Nat /\ frame.held <= TopBound + th[t].slow
  BY <1>1, <1>2, <1>3, <1>4 DEF Framed, WorkerFresh
<1>6. TopBound \in Nat /\ AnswerBound("country_top") = TopBound  BY <1>2, BoundFacts
<1>7. Doing(t).view = "country_top" /\ th[t].todo[2].view = "country" /\ Len(th[t].todo) > 1
  BY <1>2, <1>3 DEF Framed
<1>8. th[t].held <= TopBound  BY <1>1, <1>2, <1>6, <1>7 DEF WorkerFresh
<1>9. held \in Nat /\ held <= TopBound + th[t].slow  BY <1>2, <1>5, <1>6, <1>8 DEF Older
<1>10. /\ CallList(Tail(th[t].todo)) /\ Head(Tail(th[t].todo)) = th[t].todo[2]
       /\ Len(Tail(th[t].todo)) = Len(th[t].todo) - 1 /\ Len(th[t].todo) \in Nat
  BY <1>2, <1>7, TailList, HeadCall
<1> HIDE DEF frame, held
<1>11. CASE Move(t, e1)
  <2> DEFINE c == [Head(th[t].todo) EXCEPT !.limit = 1]
             s == <<c>> \o Tail(th[t].todo)
             f == [figures |-> CountryFiguresOf(top), held |-> held]
             o == <<f>>
  <2>0. /\ DOMAIN e1 = Fields /\ e1.pc = "look" /\ e1.todo = s /\ e1.held = 0
        /\ e1.val = None /\ e1.outer = o /\ e1.slow = th[t].slow
    BY <1>2 DEF Fields
  <2>1. IsCall(c) /\ c.view = "country_top"
    <3>1. IsCall(Head(th[t].todo)) /\ Head(th[t].todo).view = "country_top"
      BY <1>2, <1>7, HeadCall
    <3>2. "view" \in DOMAIN c /\ c.view = "country_top"  BY <3>1 DEF IsCall
    <3>3. QED BY <3>1, <3>2 DEF IsCall
  <2> HIDE DEF c
  <2>2. CallList(s) /\ Len(s) = Len(Tail(th[t].todo)) + 1 /\ s[1] = c /\ s[2] = th[t].todo[2]
    BY <1>10, <2>1, PushList
  <2>3. DOMAIN f = {"figures", "held"} /\ f.held = held  OBVIOUS
  <2>4. o \in Seq(Range(o)) /\ Len(o) = 1 /\ o[1] = f /\ o # <<>>
    <3>1. o \in Seq({f}) /\ Len(o) = 1 /\ o[1] = f  OBVIOUS
    <3> HIDE DEF o, f
    <3>2. Len(o) # 0  BY <3>1
    <3>3. QED BY <3>1, <3>2, OverRange
  <2> HIDE DEF e1, e2, s, o, f
  <2>6. Framed(e1)  BY <1>7, <1>9, <1>10, <2>1, <2>2, <2>3, <2>4, <2>0 DEF Framed
  <2>7. WorkerTypes(e1)  BY <1>2, <2>2, <2>0, <2>6 DEF WorkerTypes, Points
  <2>8. WorkerFresh(e1)  BY <1>9, <2>3, <2>4, <2>0 DEF WorkerFresh
  <2>9. QED BY <1>1, <1>11, <2>0, <2>7, <2>8, WorkerMoves DEF WorkerOk
<1>12. CASE Move(t, e2)
  <2>1. /\ DOMAIN e2 = Fields /\ e2.pc = "keep" /\ e2.todo = Tail(th[t].todo) /\ e2.held = held
        /\ e2.outer = <<>> /\ e2.slow = th[t].slow
    BY <1>2 DEF Fields
  <2> HIDE DEF e1, e2
  <2>2. WorkerTypes(e2)  BY <1>2, <1>9, <1>10, <2>1 DEF WorkerTypes, Points
  <2>3. WorkerFresh(e2)  BY <1>7, <1>9, <1>10, <2>1 DEF WorkerFresh
  <2>4. QED BY <1>1, <1>12, <2>1, <2>2, <2>3, WorkerMoves DEF WorkerOk
<1>13. QED BY <1>1, <1>11, <1>12

(* What is to be known after a step *)
LEMMA Serves ==
    ASSUME ServeInv, load' = load, DOMAIN th' = Workers,
           \A u \in Workers : WorkerOk(th'[u]),
           \A k \in DOMAIN cache' : EntryOk(k, cache'[k]),
           ReadyAfterWarming'
    PROVE  ServeInv'
<1>1. \A u \in Workers : WorkerOk(th[u])'
  <2>1. SUFFICES ASSUME NEW u \in Workers PROVE WorkerOk(th[u])'
    OBVIOUS
  <2>2. WorkerOk(th'[u])  OBVIOUS
  <2>3. QED BY <2>2, SameLoad
<1>2. \A k \in DOMAIN cache' : EntryOk(k, cache[k])'
  <2>1. SUFFICES ASSUME NEW k \in DOMAIN cache' PROVE EntryOk(k, cache[k])'
    OBVIOUS
  <2>2. EntryOk(k, cache'[k])  OBVIOUS
  <2>3. QED BY <2>2, SameLoad
<1>3. load' \in Loads  BY DEF ServeInv
<1>4. QED BY <1>1, <1>2, <1>3 DEF ServeInv

(* One worker that is at work moves, and entries are stored. *)
LEMMA StoreMoves ==
    ASSUME ServeInv, NEW t \in Workers, NEW e, Move(t, e), WorkerOk(e), e.pc # "idle",
           UNCHANGED <<load, ready>>,
           \A k \in DOMAIN cache' : EntryOk(k, cache'[k])
    PROVE  ServeInv'
<1>1. DOMAIN th = Workers /\ \A u \in Workers : WorkerOk(th[u])  BY DEF ServeInv
<1>2. DOMAIN th' = Workers /\ \A u \in Workers : th'[u] = IF u = t THEN e ELSE th[u]
  BY <1>1 DEF Move
<1>3. \A u \in Workers : WorkerOk(th'[u])  BY <1>1, <1>2
<1>4. ReadyAfterWarming'
  <2>1. Warmer \in Workers /\ ReadyAfterWarming  BY DEF Workers, ServeInv
  <2>2. QED BY <1>2, <2>1 DEF ReadyAfterWarming
<1>5. QED BY <1>2, <1>3, <1>4, Serves

LEMMA KeepServes ==
    ASSUME ServeInv, NEW t \in Workers, Keep(t)
    PROVE  ServeInv'
<1> DEFINE v == Doing(t).view
           e == [th[t] EXCEPT !.pc = "answer", !.val = th[t].val, !.held = th[t].held]
           entry == Entry(Doing(t), th[t].val, th[t].held)
<1>1. /\ th[t].pc = "keep" /\ ~AtView(t, "map") /\ Move(t, e) /\ UNCHANGED <<load, ready>>
      /\ \/ cache' = cache
         \/ Stored(t) /\ cache' = Put([k \in {Key(Doing(t))} |-> entry])
  BY DEF Keep, Answer, database
<1>2. /\ WorkerTypes(th[t]) /\ WorkerFresh(th[t]) /\ DOMAIN th[t] = Fields
      /\ Doing(t) = Head(th[t].todo) /\ CallList(th[t].todo) /\ IsCall(Doing(t))
      /\ th[t].slow \in Nat /\ th[t].slow <= load.slow /\ load \in Loads
      /\ th[t].held \in Nat /\ load.slow \in Nat
  BY <1>1, AtWork DEF WorkerOk
<1>3. v # "map" /\ v \in Known  BY <1>1, <1>2 DEF AtView, CallList, IsCall
<1>4. /\ v = "country" => th[t].held <= TopBound + th[t].slow
      /\ v # "country" => th[t].held <= th[t].slow
  BY <1>1, <1>2, <1>3 DEF WorkerFresh
<1> HIDE DEF entry, e, v
<1>5. /\ TopBound \in Nat /\ TopBound = load.slow + LastHit("country_top")
      /\ LastHit("country") \in Nat /\ LastHit("country_top") \in Nat
      /\ AnswerBound("country") = TopBound + load.slow + LastHit("country")
      /\ AnswerBound(v) \in Nat /\ load.slow <= AnswerBound(v)
  <2>1. {"country", "country_top"} \subseteq CachedViews  BY DEF CachedViews
  <2>2. QED BY <1>2, <1>3, <2>1, BoundFacts
<1>6. th[t].held <= AnswerBound(v)
  <2>1. CASE v = "country"
    <3>1. th[t].held <= TopBound + load.slow  BY <1>2, <1>4, <1>5, <2>1
    <3>2. QED BY <1>2, <1>5, <2>1, <3>1
  <2>2. CASE v # "country"  BY <1>2, <1>4, <1>5, <2>2
  <2>3. QED BY <2>1, <2>2
<1>7. WorkerOk(e)  BY <1>1, <1>2, <1>6, AnswerOk DEF e, v
<1>8. e.pc = "answer"  BY <1>2 DEF e, Fields
<1>9. \A k \in DOMAIN cache : EntryOk(k, cache[k])  BY DEF ServeInv
<1>10. ASSUME Stored(t)  PROVE EntryOk(Doing(t), entry)
  <2>1. v \in CachedViews  BY <1>10 DEF Stored, v
  <2>2. Ttl[v] \in Nat \ {0}  BY <2>1, DashboardAssumption
  <2>3. /\ DOMAIN entry = {"val", "life", "held"} /\ entry.held = th[t].held
        /\ entry.life = Ttl[v]
    BY DEF Entry, TtlOf, entry, v
  <2>4. th[t].held + Ttl[v] <= EntryBound(v)
    <3> PICK S \in Nat : S = load.slow  BY <1>2
    <3> PICK T \in Nat : T = Ttl[v]  BY <2>2
    <3> PICK L \in Nat : L = LastHit("country_top")  BY <1>5
    <3> PICK h \in Nat : h = th[t].held  BY <1>2
    <3> PICK s \in Nat : s = th[t].slow  BY <1>2
    <3>1. s <= S  BY <1>2
    <3>2. CASE v = "country"
      <4>1. h <= S + L + s  BY <1>4, <1>5, <3>2
      <4>2. EntryBound(v) = 2 * S + L + T  BY <3>2 DEF EntryBound
      <4>3. h + T <= S + S + L + T  BY <3>1, <4>1
      <4>4. 2 * S = S + S  OBVIOUS
      <4>5. QED BY <4>2, <4>3, <4>4
    <3>3. CASE v # "country"
      <4>1. h <= s  BY <1>4, <3>3
      <4>2. EntryBound(v) = S + T  BY <3>3 DEF EntryBound
      <4>3. QED BY <3>1, <4>1, <4>2
    <3>4. QED BY <3>2, <3>3
  <2>5. "view" \in DOMAIN Doing(t) /\ Doing(t).view = v  BY <1>2 DEF IsCall, v
  <2>6. QED BY <1>2, <2>1, <2>2, <2>3, <2>4, <2>5 DEF EntryOk
<1>11. \A k \in DOMAIN cache' : EntryOk(k, cache'[k])
  <2>1. CASE cache' = cache  BY <1>9, <2>1
  <2>2. CASE Stored(t) /\ cache' = Put([k \in {Key(Doing(t))} |-> entry])
    <3>1. EntryOk(Doing(t), entry)  BY <1>10, <2>2
    <3>2. DOMAIN cache' = DOMAIN cache \cup {Doing(t)}
          /\ \A k \in DOMAIN cache' : cache'[k] = IF k = Doing(t) THEN entry ELSE cache[k]
      BY <2>2 DEF Put, Key
    <3>3. QED BY <1>9, <3>1, <3>2
  <2>3. QED BY <1>1, <2>1, <2>2
<1>12. QED BY <1>1, <1>7, <1>8, <1>11, StoreMoves

(* How long ago the tiles in hand were read *)
LEMMA OldestReadFacts ==
    ASSUME ServeInv, NEW c
    PROVE  OldestRead(c, CachedTiles(c)) \in Nat /\ OldestRead(c, CachedTiles(c)) <= TileBound
           /\ \A u \in CachedTiles(c) : /\ cache[TileKey(c, u)].held \in Nat
                                        /\ cache[TileKey(c, u)].held <= OldestRead(c, CachedTiles(c))
<1> DEFINE H == {cache[TileKey(c, u)].held : u \in CachedTiles(c)}
<1>1. load \in Loads /\ load.slow \in Nat /\ TileBound \in Nat /\ Ttl["tile"] \in Nat
      /\ TileBound = load.slow + LastHit("tile") /\ LastHit("tile") = Ttl["tile"] - 1
  BY BoundFacts DEF ServeInv
<1>2. \A u \in CachedTiles(c) :
          cache[TileKey(c, u)].held \in Nat /\ cache[TileKey(c, u)].held <= TileBound
  <2>1. SUFFICES ASSUME NEW u \in CachedTiles(c)
                 PROVE  cache[TileKey(c, u)].held \in Nat /\ cache[TileKey(c, u)].held <= TileBound
    OBVIOUS
  <2>2. TileKey(c, u) \in DOMAIN cache /\ TileKey(c, u).view = "tile"  BY DEF CachedTiles, TileKey
  <2>3. EntryOk(TileKey(c, u), cache[TileKey(c, u)])  BY <2>2 DEF ServeInv
  <2>4. EntryBound("tile") = load.slow + Ttl["tile"]  BY DEF EntryBound
  <2> DEFINE n == cache[TileKey(c, u)]
  <2> HIDE DEF n
  <2>5. n.life \in Nat \ {0} /\ n.held \in Nat /\ n.held + n.life <= load.slow + Ttl["tile"]
    BY <2>2, <2>3, <2>4 DEF EntryOk, n
  <2>6. n.held <= TileBound
    <3> PICK h \in Nat : h = n.held  BY <2>5
    <3> PICK l \in Nat \ {0} : l = n.life  BY <2>5
    <3> PICK S \in Nat : S = load.slow  BY <1>1
    <3> PICK T \in Nat : T = Ttl["tile"]  BY <1>1
    <3>1. h + l <= S + T  BY <2>5
    <3>2. h <= S + (T - 1)  BY <3>1
    <3>3. TileBound = S + (T - 1)  BY <1>1
    <3>4. QED BY <3>2, <3>3
  <2>7. QED BY <2>5, <2>6 DEF n
<1>3. CASE H = {}
  <2>1. OldestRead(c, CachedTiles(c)) = 0  BY <1>3 DEF OldestRead
  <2>2. \A u \in CachedTiles(c) : FALSE  BY <1>3
  <2>3. QED BY <1>1, <2>1, <2>2
<1>4. CASE H # {}
  <2>1. H \subseteq 0 .. TileBound  BY <1>1, <1>2
  <2> HIDE DEF H
  <2>2. \E h \in H : \A g \in H : g <= h  BY <1>1, <1>4, <2>1, GreatestNumber
  <2> DEFINE o == CHOOSE h \in H : \A g \in H : g <= h
  <2>3. o \in H /\ \A g \in H : g <= o  BY <2>2
  <2>4. OldestRead(c, CachedTiles(c)) = o  BY <1>4 DEF OldestRead, H
  <2> HIDE DEF o
  <2>5. \A u \in CachedTiles(c) : cache[TileKey(c, u)].held <= o  BY <2>3 DEF H
  <2>6. QED BY <1>1, <1>2, <2>1, <2>3, <2>4, <2>5
<1>5. QED BY <1>3, <1>4

LEMMA LookupTilesServes ==
    ASSUME ServeInv, NEW t \in Workers, LookupTiles(t)
    PROVE  ServeInv'
<1> DEFINE held == OldestRead(Doing(t), CachedTiles(Doing(t)))
<1>1. /\ th[t].pc = "look" /\ AtView(t, "map") /\ UNCHANGED <<load, cache, ready>>
      /\ \E val : \/ Answer(t, val, held)
                  \/ Move(t, [th[t] EXCEPT !.pc = "query", !.held = held, !.val = val])
  BY DEF LookupTiles, database
<1>2. PICK val : \/ Answer(t, val, held)
                 \/ Move(t, [th[t] EXCEPT !.pc = "query", !.held = held, !.val = val])
  BY <1>1
<1>3. held \in Nat /\ held <= TileBound  BY OldestReadFacts
<1> HIDE DEF held
<1>4. /\ WorkerTypes(th[t]) /\ WorkerFresh(th[t]) /\ DOMAIN th[t] = Fields
      /\ Doing(t) = Head(th[t].todo) /\ CallList(th[t].todo) /\ IsCall(Doing(t))
      /\ th[t].slow \in Nat /\ load \in Loads /\ load.slow \in Nat
  BY <1>1, AtWork DEF WorkerOk
<1>5. Doing(t).view = "map"  BY <1>1, <1>4 DEF AtView
<1>6. TileBound \in Nat /\ AnswerBound("map") = TileBound + load.slow  BY <1>4, BoundFacts
<1>7. CASE Answer(t, val, held)
  <2>1. held <= AnswerBound(Doing(t).view)  BY <1>3, <1>4, <1>5, <1>6
  <2> DEFINE e == [th[t] EXCEPT !.pc = "answer", !.val = val, !.held = held]
  <2>2. WorkerOk(e)  BY <1>1, <1>3, <2>1, AnswerOk
  <2>3. e.pc = "answer" /\ Move(t, e)  BY <1>4, <1>7 DEF Fields, Answer
  <2> HIDE DEF e
  <2>4. QED BY <1>1, <2>2, <2>3, WorkerMoves
<1>8. CASE Move(t, [th[t] EXCEPT !.pc = "query", !.held = held, !.val = val])
  <2> DEFINE e == [th[t] EXCEPT !.pc = "query", !.held = held, !.val = val]
  <2>1. /\ DOMAIN e = Fields /\ e.pc = "query" /\ e.todo = th[t].todo /\ e.held = held
        /\ e.outer = th[t].outer /\ e.slow = th[t].slow /\ Move(t, e)
    BY <1>4, <1>8 DEF Fields
  <2> HIDE DEF e
  <2>2. WorkerTypes(e)
    <3>1. Framed(th[t]) => Framed(e)  BY <2>1 DEF Framed
    <3>2. QED BY <1>1, <1>3, <1>4, <2>1, <3>1 DEF WorkerTypes, Points
  <2>3. WorkerFresh(e)
    <3>1. held <= TileBound + th[t].slow  BY <1>3, <1>4, <1>6
    <3>2. QED BY <1>4, <1>5, <2>1, <3>1 DEF WorkerFresh
  <2>4. QED BY <1>1, <2>1, <2>2, <2>3, WorkerMoves DEF WorkerOk
<1>9. QED BY <1>2, <1>7, <1>8

LEMMA QueryTilesServes ==
    ASSUME ServeInv, NEW t \in Workers, QueryTiles(t)
    PROVE  ServeInv'
<1>1. th[t].pc = "query" /\ AtView(t, "map") /\ UNCHANGED <<load, cache, ready>>
  BY DEF QueryTiles, database
<1>2. PICK rows, cut :
        Move(t, [th[t] EXCEPT !.pc = "keep",
                     !.val = [ids |-> @.ids, missing |-> @.missing, partial |-> @.partial, rows |-> rows,
                              cut |-> cut, age |-> 0]])
  BY DEF QueryTiles
<1> DEFINE val == [ids |-> th[t].val.ids, missing |-> th[t].val.missing, partial |-> th[t].val.partial,
                   rows |-> rows, cut |-> cut, age |-> 0]
           e == [th[t] EXCEPT !.pc = "keep", !.val = val]
<1>3. Move(t, e)  BY <1>2
<1>4. /\ WorkerTypes(th[t]) /\ WorkerFresh(th[t]) /\ DOMAIN th[t] = Fields
      /\ Doing(t) = Head(th[t].todo) /\ th[t].slow \in Nat
  BY <1>1, AtWork DEF WorkerOk
<1>5. Head(th[t].todo).view = "map"  BY <1>1, <1>4 DEF AtView
<1>6. "age" \in DOMAIN val /\ val.age = 0  OBVIOUS
<1> HIDE DEF val
<1>7. /\ DOMAIN e = Fields /\ e.pc = "keep" /\ e.todo = th[t].todo /\ e.held = th[t].held
      /\ e.outer = th[t].outer /\ e.slow = th[t].slow /\ e.val = val
  BY <1>4 DEF Fields
<1> HIDE DEF e
<1>8. WorkerTypes(e)
  <2>1. Framed(th[t]) => Framed(e)  BY <1>7 DEF Framed
  <2>2. QED BY <1>1, <1>4, <1>7, <2>1 DEF WorkerTypes, Points
<1>9. WorkerFresh(e)  BY <1>1, <1>4, <1>5, <1>6, <1>7 DEF WorkerFresh
<1>10. QED BY <1>1, <1>3, <1>7, <1>8, <1>9, WorkerMoves DEF WorkerOk

LEMMA KeepTilesServes ==
    ASSUME ServeInv, NEW t \in Workers, KeepTiles(t)
    PROVE  ServeInv'
<1> DEFINE c == Doing(t)
           v == th[t].val
           Bucketed(u) == [ids |-> {i \in v.rows : TileOf(Place(i)) = u}, partial |-> v.cut \/ ~Whole(u, c.box)]
           keys == {TileKey(c, u) : u \in v.missing}
<1>1. /\ th[t].pc = "keep" /\ AtView(t, "map") /\ UNCHANGED <<load, ready>>
      /\ \/ cache' = Put([k \in keys |-> Entry(k, Bucketed(k.tile), v.age)])
         \/ cache' = cache
      /\ \E val : Answer(t, val, th[t].held)
  BY DEF KeepTiles, database
<1>2. PICK val : Answer(t, val, th[t].held)  BY <1>1
<1> HIDE DEF Bucketed
<1>3. /\ WorkerTypes(th[t]) /\ WorkerFresh(th[t]) /\ DOMAIN th[t] = Fields
      /\ Doing(t) = Head(th[t].todo) /\ th[t].held \in Nat
      /\ th[t].slow \in Nat /\ th[t].slow <= load.slow /\ load \in Loads /\ load.slow \in Nat
  BY <1>1, AtWork DEF WorkerOk
<1>4. Head(th[t].todo).view = "map"  BY <1>1, <1>3 DEF AtView
<1>5. v.age \in Nat /\ v.age <= th[t].slow /\ th[t].held <= TileBound + th[t].slow
  BY <1>1, <1>3, <1>4 DEF WorkerFresh
<1>6. /\ TileBound \in Nat /\ AnswerBound("map") = TileBound + load.slow
      /\ Ttl["tile"] \in Nat \ {0}
  BY <1>3, BoundFacts, DashboardAssumption
<1>7. th[t].held <= AnswerBound(Doing(t).view)
  <2>1. th[t].held <= TileBound + load.slow  BY <1>3, <1>5, <1>6
  <2>2. QED BY <1>3, <1>4, <1>6, <2>1
<1>8. \A k \in keys : EntryOk(k, Entry(k, Bucketed(k.tile), v.age))
  <2>1. SUFFICES ASSUME NEW k \in keys PROVE EntryOk(k, Entry(k, Bucketed(k.tile), v.age))
    OBVIOUS
  <2>2. "view" \in DOMAIN k /\ k.view = "tile"  BY DEF TileKey
  <2> DEFINE entry == Entry(k, Bucketed(k.tile), v.age)
  <2>3. DOMAIN entry = {"val", "life", "held"} /\ entry.held = v.age /\ entry.life = Ttl["tile"]
    BY <2>2 DEF Entry, TtlOf
  <2> HIDE DEF entry, keys
  <2>4. v.age + Ttl["tile"] <= EntryBound("tile")  BY <1>3, <1>5, <1>6 DEF EntryBound
  <2>5. EntryOk(k, entry)  BY <1>5, <1>6, <2>2, <2>3, <2>4 DEF EntryOk
  <2>6. QED BY <2>5 DEF entry
<1>9. \A k \in DOMAIN cache : EntryOk(k, cache[k])  BY DEF ServeInv
<1> HIDE DEF keys
<1>10. \A k \in DOMAIN cache' : EntryOk(k, cache'[k])
  <2>1. CASE cache' = cache  BY <1>9, <2>1
  <2>2. CASE cache' = Put([k \in keys |-> Entry(k, Bucketed(k.tile), v.age)])
    <3>1. DOMAIN cache' = DOMAIN cache \cup keys
          /\ \A k \in DOMAIN cache' :
                cache'[k] = IF k \in keys THEN Entry(k, Bucketed(k.tile), v.age) ELSE cache[k]
      BY <2>2 DEF Put
    <3>2. QED BY <1>8, <1>9, <3>1
  <2>3. QED BY <1>1, <2>1, <2>2
<1> DEFINE e == [th[t] EXCEPT !.pc = "answer", !.val = val, !.held = th[t].held]
<1>11. WorkerOk(e)  BY <1>1, <1>3, <1>7, AnswerOk
<1>12. e.pc = "answer" /\ Move(t, e)  BY <1>2, <1>3 DEF Fields, Answer
<1> HIDE DEF e
<1>13. QED BY <1>1, <1>10, <1>11, <1>12, StoreMoves

LEMMA NextViewServes ==
    ASSUME ServeInv, NEW t \in Workers, NextView(t)
    PROVE  ServeInv'
<1> DEFINE e == [Idle EXCEPT !.pc = "look", !.todo = Tail(th[t].todo), !.slow = th[t].slow]
<1>1. /\ th[t].pc = "answer" /\ Len(th[t].todo) > 1 /\ Move(t, e) /\ UNCHANGED <<load, cache, ready>>
  BY DEF NextView, database
<1>2. CallList(th[t].todo) /\ th[t].slow \in 0 .. load.slow /\ load \in Loads
  BY <1>1, AtWork
<1>3. CallList(Tail(th[t].todo))  BY <1>1, <1>2, TailList
<1>4. /\ DOMAIN e = Fields /\ e.pc = "look" /\ e.todo = Tail(th[t].todo) /\ e.held = 0
      /\ e.val = None /\ e.outer = <<>> /\ e.slow = th[t].slow
  BY DEF Idle, Fields
<1> HIDE DEF e
<1>5. WorkerOk(e)  BY <1>2, <1>3, <1>4, LookOk
<1>6. QED BY <1>1, <1>4, <1>5, WorkerMoves

LEMMA EndPageServes ==
    ASSUME ServeInv, NEW t \in Workers, EndPage(t) \/ QueryFails(t)
    PROVE  ServeInv'
<1>1. t # Warmer /\ Move(t, Idle) /\ UNCHANGED <<load, cache, ready>>
  BY DEF EndPage, QueryFails, database
<1>2. WorkerOk(Idle)  BY IdleOk DEF ServeInv
<1> HIDE DEF Idle
<1>3. QED BY <1>1, <1>2, WorkerMoves

LEMMA WarmingServes ==
    ASSUME ServeInv, EndWarming \/ WarmingFails
    PROVE  ServeInv'
<1>1. Move(Warmer, Idle) /\ ready' = TRUE /\ UNCHANGED <<load, cache>>
  BY DEF EndWarming, WarmingFails, database
<1>2. WorkerOk(Idle)  BY IdleOk DEF ServeInv
<1> HIDE DEF Idle
<1>3. DOMAIN th = Workers /\ (\A u \in Workers : WorkerOk(th[u]))
      /\ \A k \in DOMAIN cache : EntryOk(k, cache[k])
  BY DEF ServeInv
<1>4. DOMAIN th' = Workers /\ \A u \in Workers : WorkerOk(th'[u])
  BY <1>1, <1>2, <1>3 DEF Move
<1>5. ReadyAfterWarming'  BY <1>1 DEF ReadyAfterWarming
<1>6. QED BY <1>1, <1>3, <1>4, <1>5, Serves

LEMMA DataServes ==
    ASSUME ServeInv, UNCHANGED <<load, cache, ready, th>>
    PROVE  ServeInv'
BY Serves DEF ServeInv, ReadyAfterWarming

LEMMA EvictServes ==
    ASSUME ServeInv, Evict
    PROVE  ServeInv'
<1>1. UNCHANGED <<load, ready, th>>  BY DEF Evict, database
<1>2. \A k \in DOMAIN cache' : k \in DOMAIN cache /\ cache'[k] = cache[k]  BY DEF Evict
<1>3. \A k \in DOMAIN cache' : EntryOk(k, cache'[k])  BY <1>2 DEF ServeInv
<1>4. QED BY <1>1, <1>3, Serves DEF ServeInv, ReadyAfterWarming

(* A tick makes everything that is held older, and every life shorter. *)
LEMMA PassedFields ==
    ASSUME NEW w, DOMAIN w = Fields, w.pc # "idle"
    PROVE  /\ DOMAIN Passed(w) = Fields
           /\ Passed(w).pc = w.pc /\ Passed(w).todo = w.todo /\ Passed(w).slow = w.slow + 1
           /\ Passed(w).held = IF w.pc = "look" \/ (w.pc = "query" /\ Head(w.todo).view # "map") THEN 0 ELSE w.held + 1
           /\ w.pc = "keep" /\ Head(w.todo).view = "map" => Passed(w).val = RowsLater(w.val)
           /\ ~(w.pc = "keep" /\ Head(w.todo).view = "map") => Passed(w).val = w.val
           /\ Passed(w).outer = [n \in DOMAIN w.outer |-> HeldLater(w.outer[n])]
<1> DEFINE h == IF w.pc = "look" \/ (w.pc = "query" /\ Head(w.todo).view # "map") THEN 0 ELSE w.held + 1
           v == IF w.pc = "keep" /\ Head(w.todo).view = "map" THEN RowsLater(w.val) ELSE w.val
           o == [n \in DOMAIN w.outer |-> HeldLater(w.outer[n])]
<1>1. Passed(w) = [w EXCEPT !.slow = w.slow + 1, !.held = h, !.val = v, !.outer = o]
  BY DEF Passed
<1> HIDE DEF h, v, o, Passed
<1>2. /\ DOMAIN Passed(w) = Fields /\ Passed(w).pc = w.pc /\ Passed(w).todo = w.todo
      /\ Passed(w).slow = w.slow + 1 /\ Passed(w).held = h /\ Passed(w).val = v /\ Passed(w).outer = o
  BY <1>1 DEF Fields
<1>3. QED BY <1>2 DEF h, v, o

LEMMA PassedOk ==
    ASSUME ServeInv, NEW t \in Workers, th[t].pc # "answer",
           th[t].pc # "idle" => th[t].slow < load.slow
    PROVE  WorkerOk(Passed(th[t])) /\ Passed(th[t]).pc = th[t].pc
<1> DEFINE w == th[t]
           e == Passed(w)
           nothing == w.pc = "look" \/ (w.pc = "query" /\ Head(w.todo).view # "map")
           rows == w.pc = "keep" /\ Head(w.todo).view = "map"
           outer == [n \in DOMAIN w.outer |-> HeldLater(w.outer[n])]
           val == IF rows THEN RowsLater(w.val) ELSE w.val
<1>1. WorkerOk(w)  BY DEF ServeInv
<1>2. CASE w.pc = "idle"  BY <1>1, <1>2 DEF Passed
<1>3. CASE w.pc # "idle"
  <2>1. /\ WorkerTypes(w) /\ WorkerFresh(w) /\ DOMAIN w = Fields /\ CallList(w.todo)
        /\ w.slow \in Nat /\ w.slow < load.slow /\ w.held \in Nat /\ load \in Loads /\ load.slow \in Nat
        /\ w.pc \in {"look", "query", "keep"}
    BY <1>1, <1>3, AtWork DEF WorkerOk, WorkerTypes, Points
  <2>2. TopBound \in Nat /\ TileBound \in Nat  BY <2>1, BoundFacts
  <2> HIDE DEF nothing, rows, outer, val, w
  <2>3. /\ DOMAIN e = Fields /\ e.pc = w.pc /\ e.todo = w.todo /\ e.slow = w.slow + 1
        /\ e.held = IF nothing THEN 0 ELSE w.held + 1
        /\ e.val = val /\ e.outer = outer
    BY <1>3, <2>1, PassedFields DEF nothing, rows, outer, val
  <2>4. w.outer = <<>> => outer = <<>>  BY DEF outer
  <2>5. ASSUME w.outer # <<>>
        PROVE  /\ outer \in Seq(Range(outer)) /\ Len(outer) = 1
               /\ DOMAIN outer[1] = {"figures", "held"} /\ outer[1].held = w.outer[1].held + 1
               /\ w.outer[1].held \in Nat /\ Framed(w)
    <3>1. Framed(w)  BY <2>1, <2>5 DEF WorkerTypes
    <3>2. w.outer \in Seq(Range(w.outer)) /\ Len(w.outer) = 1 /\ DOMAIN w.outer = 1 .. 1
          /\ DOMAIN w.outer[1] = {"figures", "held"} /\ w.outer[1].held \in Nat
      BY <3>1 DEF Framed
    <3>3. outer = [n \in 1 .. 1 |-> HeldLater(w.outer[n])]  BY <3>2 DEF outer
    <3>4. outer \in [1 .. 1 -> Range(outer)]  BY <3>3 DEF Range
    <3>5. outer \in Seq(Range(outer)) /\ Len(outer) = 1
      <4> HIDE DEF outer
      <4>1. DOMAIN outer = 1 .. 1  BY <3>3
      <4>2. outer \in Seq(Range(outer))  BY <3>4, SeqDef
      <4>3. QED BY <4>1, <4>2
    <3>6. outer[1] = HeldLater(w.outer[1])  BY <3>3
    <3>7. QED BY <3>1, <3>2, <3>5, <3>6 DEF HeldLater
  <2> HIDE DEF e
  <2>6. WorkerTypes(e)
    <3>1. w.outer # <<>> => Framed(e)  BY <2>3, <2>5 DEF Framed
    <3>2. e.slow \in 0 .. load.slow /\ e.held \in Nat  BY <2>1, <2>3
    <3>3. QED BY <2>1, <2>3, <2>4, <3>1, <3>2 DEF WorkerTypes, Points
  <2>7. WorkerFresh(e)
    <3>1. w.pc = "look" \/ (w.pc = "query" /\ Head(w.todo).view # "map")
             => e.val = None /\ e.held = 0
      BY <2>1, <2>3 DEF WorkerFresh, nothing, val, rows
    <3>2. e.held \in Nat /\ e.held <= w.held + 1  BY <2>1, <2>3
    <3>3. w.pc \in {"query", "keep"} /\ Head(w.todo).view = "map" => e.held <= TileBound + e.slow
      <4>1. SUFFICES ASSUME w.pc \in {"query", "keep"}, Head(w.todo).view = "map"
                     PROVE  e.held <= TileBound + e.slow
        OBVIOUS
      <4>2. w.held <= TileBound + w.slow  BY <2>1, <4>1 DEF WorkerFresh
      <4>3. QED BY <2>1, <2>2, <2>3, <3>2, <4>2
    <3>4. rows => "age" \in DOMAIN e.val /\ e.val.age \in Nat /\ e.val.age <= e.slow
      <4>1. SUFFICES ASSUME rows
                     PROVE  "age" \in DOMAIN e.val /\ e.val.age \in Nat /\ e.val.age <= e.slow
        OBVIOUS
      <4>2. "age" \in DOMAIN w.val /\ w.val.age \in Nat /\ w.val.age <= w.slow
        BY <2>1, <4>1 DEF WorkerFresh, rows
      <4>3. e.val = RowsLater(w.val)  BY <2>3, <4>1 DEF val
      <4>4. "age" \in DOMAIN e.val /\ e.val.age = w.val.age + 1  BY <4>2, <4>3 DEF RowsLater
      <4>5. QED BY <2>1, <2>3, <4>2, <4>4
    <3>5. w.pc = "keep" /\ Head(w.todo).view = "country" => e.held <= TopBound + e.slow
      <4>1. SUFFICES ASSUME w.pc = "keep", Head(w.todo).view = "country"
                     PROVE  e.held <= TopBound + e.slow
        OBVIOUS
      <4>2. w.held <= TopBound + w.slow  BY <2>1, <4>1 DEF WorkerFresh
      <4>3. QED BY <2>1, <2>2, <2>3, <3>2, <4>2
    <3>6. w.pc = "keep" /\ Head(w.todo).view \notin {"map", "country"} => e.held <= e.slow
      <4>1. SUFFICES ASSUME w.pc = "keep", Head(w.todo).view \notin {"map", "country"}
                     PROVE  e.held <= e.slow
        OBVIOUS
      <4>2. w.held <= w.slow  BY <2>1, <4>1 DEF WorkerFresh
      <4>3. QED BY <2>1, <2>3, <3>2, <4>2
    <3>7. e.outer # <<>> => e.outer[1].held <= TopBound + e.slow
      <4>1. SUFFICES ASSUME w.outer # <<>>
                     PROVE  e.outer[1].held <= TopBound + e.slow
        BY <2>3, <2>4
      <4>2. w.outer[1].held <= TopBound + w.slow  BY <2>1, <4>1 DEF WorkerFresh
      <4>3. QED BY <2>1, <2>2, <2>3, <2>5, <4>1, <4>2
    <3>8. QED BY <2>1, <2>3, <3>1, <3>3, <3>4, <3>5, <3>6, <3>7 DEF WorkerFresh, rows
  <2>8. QED BY <2>3, <2>6, <2>7 DEF WorkerOk, w, e
<1>4. QED BY <1>2, <1>3

LEMMA TickServes ==
    ASSUME ServeInv, Tick
    PROVE  ServeInv'
<1>1. /\ \A t \in Workers : th[t].pc # "answer" /\ (th[t].pc # "idle" => th[t].slow < load.slow)
      /\ cache' = [k \in {j \in DOMAIN cache : cache[j].life > 1} |->
                   [cache[k] EXCEPT !.life = @ - 1, !.held = @ + 1]]
      /\ th' = [t \in Workers |-> Passed(th[t])]
      /\ UNCHANGED <<load, ready>>
  BY DEF Tick
<1> HIDE DEF Passed
<1>2. DOMAIN th' = Workers /\ \A t \in Workers : WorkerOk(th'[t]) /\ th'[t].pc = th[t].pc
  BY <1>1, PassedOk
<1>3. ASSUME NEW k \in DOMAIN cache'  PROVE EntryOk(k, cache'[k])
  <2> DEFINE a == cache[k]
             b == cache'[k]
  <2>1. k \in DOMAIN cache /\ a.life > 1 /\ b = [a EXCEPT !.life = @ - 1, !.held = @ + 1]
    BY <1>1, <1>3
  <2>2. EntryOk(k, a)  BY <2>1 DEF ServeInv
  <2>3. /\ DOMAIN a = {"val", "life", "held"} /\ a.life \in Nat \ {0} /\ a.held \in Nat
        /\ a.held + a.life <= EntryBound(k.view)
    BY <2>2 DEF EntryOk
  <2>4. DOMAIN b = {"val", "life", "held"} /\ b.life = a.life - 1 /\ b.held = a.held + 1
    BY <2>1, <2>3
  <2> HIDE DEF a, b
  <2>5. b.life \in Nat \ {0} /\ b.held \in Nat /\ b.held + b.life = a.held + a.life
    BY <2>1, <2>3, <2>4
  <2>6. EntryOk(k, b)  BY <2>2, <2>3, <2>4, <2>5 DEF EntryOk
  <2>7. QED BY <2>6 DEF b
<1>4. ReadyAfterWarming'
  <2>1. Warmer \in Workers /\ ReadyAfterWarming  BY DEF Workers, ServeInv
  <2>2. QED BY <1>1, <1>2, <2>1 DEF ReadyAfterWarming
<1>5. QED BY <1>1, <1>2, <1>3, <1>4, Serves

LEMMA InitServes == Init => ServeInv
<1>1. SUFFICES ASSUME Init PROVE ServeInv
  OBVIOUS
<1>2. load \in Loads /\ cache = <<>> /\ ready = (load.start = "warmed")
      /\ th = [t \in Workers |->
               IF t = Warmer /\ load.start = "warming" THEN [Idle EXCEPT !.pc = "look", !.todo = WarmViews] ELSE Idle]
  BY <1>1 DEF Init
<1> DEFINE e == [Idle EXCEPT !.pc = "look", !.todo = WarmViews]
<1>3. /\ DOMAIN e = Fields /\ e.pc = "look" /\ e.todo = WarmViews /\ e.held = 0
      /\ e.val = None /\ e.outer = <<>> /\ e.slow = 0 /\ Idle.pc = "idle"
  BY DEF Idle, Fields
<1>4. WorkerOk(Idle) /\ load.slow \in Nat  BY <1>2, IdleOk, BoundFacts
<1> HIDE DEF e, Idle, WarmViews
<1>5. WorkerOk(e)  BY <1>2, <1>3, <1>4, WarmFacts, LookOk
<1>6. DOMAIN th = Workers /\ \A t \in Workers : WorkerOk(th[t])
  BY <1>2, <1>4, <1>5 DEF e
<1>7. \A k \in DOMAIN cache : EntryOk(k, cache[k])
  <2>1. DOMAIN cache = {}  BY <1>2
  <2>2. QED BY <2>1
<1>8. ReadyAfterWarming
  <2>1. load.start \in {"unconfigured", "warming", "warmed"}  BY <1>2, LoadAssumption
  <2>2. Warmer \in Workers  BY DEF Workers
  <2>3. load.start = "warming" => th[Warmer].pc # "idle"  BY <1>2, <1>3, <2>2 DEF e
  <2>4. QED BY <1>2, <2>1, <2>3 DEF ReadyAfterWarming
<1>9. QED BY <1>2, <1>6, <1>7, <1>8 DEF ServeInv

LEMMA ServeInvStep == ServeInv /\ [Next]_vars => ServeInv'
<1>1. SUFFICES ASSUME ServeInv, [Next]_vars PROVE ServeInv'
  OBVIOUS
<1>2. CASE UNCHANGED vars  BY <1>1, <1>2, DataServes DEF vars, database
<1>3. CASE \E t \in Workers : Step(t)
  <2>1. PICK t \in Workers : Step(t)  BY <1>3
  <2>2. QED BY <1>1, <2>1, AskServes, HitServes, MissServes, QueryServes, QueryCountryServes, ReturnTopServes,
               KeepServes, LookupTilesServes, QueryTilesServes, KeepTilesServes, NextViewServes, EndPageServes
            DEF Step
<1>4. CASE EndWarming \/ WarmingFails  BY <1>1, <1>4, WarmingServes
<1>5. CASE Receive \/ Report \/ Refresh
  <2>1. UNCHANGED <<load, cache, ready, th>>  BY <1>5 DEF Receive, Report, Refresh
  <2>2. QED BY <1>1, <2>1, DataServes
<1>6. CASE Evict  BY <1>1, <1>6, EvictServes
<1>7. CASE Tick  BY <1>1, <1>7, TickServes
<1>8. QED BY <1>1, <1>2, <1>3, <1>4, <1>5, <1>6, <1>7 DEF Next

(* The requests are as ServeInv says: a value in hand, and an entry of     *)
(* memcached, is never older than its place in the page allows             *)
(* (api.py, routes.py, cache.py: look up, query, store).                   *)
THEOREM ServeInvariant == Spec => []ServeInv
<1>1. Init => ServeInv  BY InitServes
<1>2. ServeInv /\ [Next]_vars => ServeInv'  BY ServeInvStep
<1>3. QED BY <1>1, <1>2, PTL DEF Spec

(* No page answers with data older than the lifetime of what it looked up  *)
(* and the time it took (cache.py: the TTLs; cached, around the queries).  *)
THEOREM AnswersAreFresh == Spec => []AnswersFresh
<1>1. ServeInv => AnswersFresh
  <2>1. SUFFICES ASSUME ServeInv, NEW t \in Workers, th[t].pc = "answer"
                 PROVE  th[t].held <= AnswerBound(Doing(t).view)
    BY DEF AnswersFresh, AnswerBound
  <2>2. WorkerFresh(th[t]) /\ Doing(t) = Head(th[t].todo)  BY <2>1, AtWork DEF WorkerOk
  <2>3. QED BY <2>1, <2>2 DEF WorkerFresh
<1>2. QED BY <1>1, ServeInvariant, PTL

(* Whether the queries of the warming answer or raise, the site opens      *)
(* (app.py, _warm_cache: ready is set at the end of its try and in its     *)
(* except; the redirect to /loading asks for it).                          *)
THEOREM SiteOpens == Spec => []ReadyAfterWarming
<1>1. ServeInv => ReadyAfterWarming  BY DEF ServeInv
<1>2. QED BY <1>1, ServeInvariant, PTL

-----------------------------------------------------------------------------
(* The packets                                                             *)

Rec == [shape : load.arrivals, age : 0 .. load.oldest]

(* Of the tables: packets are numbered from the oldest on. *)
DataInv ==
    /\ phase \in 0 .. Day - 1
    /\ log \in Seq(Rec)
    /\ \A i, j \in Packets : i < j => log[j].age <= log[i].age
    /\ aggregated \in [Views -> SUBSET Packets]

(* A packet that a map of these hours and this type may show *)
Fits(i, type, hours, held) ==
    i \in Packets /\ OfType(i, type) /\ Place(i) # None /\ log[i].age <= hours * Hour + held

(* The newest position of each station, as far as a read that long ago found it *)
Due(type, hours, held) == {i \in PerCall(Located(hours, type)) : log[i].age > held}

(* A stored tile has nothing that does not belong in it and, unless it may *)
(* lack packets, all that is due in it                                     *)
TileOk(k, e) ==
    /\ k.hours \in Nat /\ k.hours * Hour < load.oldest
    /\ \A i \in e.val.ids : Fits(i, k.type, k.hours, e.held)
    /\ ~e.val.partial => \A i \in Due(k.type, k.hours, e.held) : TileOf(Place(i)) = k.tile => i \in e.val.ids

(* What a map has in hand before its query *)
Gathered(c, v, held) ==
    /\ \A i \in v.ids : Fits(i, c.type, c.hours, held)
    /\ \A i \in Due(c.type, c.hours, held) :
          /\ InBox(Place(i), c.box) /\ TileOf(Place(i)) \in FirstTiles(c.box)
          /\ TileOf(Place(i)) \notin v.missing /\ TileOf(Place(i)) \notin v.partial
          => i \in v.ids

RowFields == {"ids", "missing", "partial", "rows", "cut", "age"}

(* What the query adds *)
Fetched(c, v, held) ==
    /\ DOMAIN v = RowFields /\ v.age <= held
    /\ \A i \in v.rows : Fits(i, c.type, c.hours, v.age)
    /\ ~v.cut => \A i \in Due(c.type, c.hours, v.age) : InBox(Place(i), c.box) => i \in v.rows

(* What is answered, the tiles and the rows of the query merged *)
Answered(c, v, held) ==
    /\ \A i \in v.ids : Fits(i, c.type, c.hours, held) /\ InBox(Place(i), c.box)
    /\ \A i \in Due(c.type, c.hours, held) :
          /\ InBox(Place(i), c.box) /\ Place(i).lat # 0 /\ Place(i).lon # 0
          /\ i \notin v.ids /\ ~v.full
          => TileOf(Place(i)) \in v.partial \/ TileOf(Place(i)) \notin FirstTiles(c.box)

MapOk(e) ==
    e.pc \in {"query", "keep", "answer"} /\ Head(e.todo).view = "map" =>
        LET c == Head(e.todo)
        IN /\ e.pc \in {"query", "keep"} => Gathered(c, e.val, e.held)
           /\ e.pc = "keep" => Fetched(c, e.val, e.held)
           /\ e.pc = "answer" => Answered(c, e.val, e.held)

(* Of the maps that are being answered, and of the tiles *)
MapInv ==
    /\ \A t \in Workers : MapOk(th[t])
    /\ \A k \in DOMAIN cache : k.view = "tile" => TileOk(k, cache[k])

-----------------------------------------------------------------------------
LEMMA DivFacts ==
    ASSUME NEW a \in Int, NEW d \in Nat \ {0}
    PROVE  /\ a \div d \in Int /\ (a \div d) * d <= a /\ a < (a \div d) * d + d
OBVIOUS

(* The newest n of a set: as many as there are, or n *)
LEMMA NewestFacts ==
    ASSUME NEW m \in Nat, NEW S, S \subseteq 1 .. m, NEW n \in Nat
    PROVE  /\ Newest(S, n) \subseteq S /\ Cardinality(Newest(S, n)) \in Nat
           /\ S # Newest(S, n) => Cardinality(Newest(S, n)) >= n
           /\ Cardinality(S) <= n => Newest(S, n) = S
<1> DEFINE N == Newest(S, n)
<1>1. IsFiniteSet(S)
  <2>1. IsFiniteSet(1 .. m)  BY FS_Interval
  <2>2. QED BY <2>1, FS_Subset
<1>2. N \subseteq S  BY DEF Newest
<1>3. IsFiniteSet(N) /\ Cardinality(N) \in Nat /\ Cardinality(S) \in Nat
  BY <1>1, <1>2, FS_Subset, FS_CardinalityType
<1>4. \A i \in S : i \in N <=> Cardinality({j \in S : j > i}) < n  BY DEF Newest
<1>5. \A i \in S : IsFiniteSet({j \in S : j > i}) /\ Cardinality({j \in S : j > i}) \in Nat
  <2>1. \A i \in S : {j \in S : j > i} \in SUBSET S  OBVIOUS
  <2>2. QED BY <1>1, <2>1, FS_Subset, FS_CardinalityType
<1> HIDE DEF N
<1>6. ASSUME S # N  PROVE Cardinality(N) >= n
  <2> DEFINE out == S \ N
  <2>1. out # {} /\ out \subseteq 0 .. m
    <3>1. out # {}  BY <1>2, <1>6
    <3>2. \A i \in 1 .. m : i \in 0 .. m  OBVIOUS
    <3>3. out \subseteq 0 .. m  BY <3>2
    <3>4. QED BY <3>1, <3>3
  <2> HIDE DEF out
  <2>2. PICK g \in out : \A k \in out : g >= k  BY <2>1, GreatestNumber
  <2> DEFINE U == {j \in S : j > g}
  <2>3. g \in S /\ g \notin N  BY <2>2 DEF out
  <2>4. Cardinality(U) >= n  BY <1>4, <1>5, <2>3
  <2>5. U \subseteq N
    <3>1. ASSUME NEW j \in S, j > g, j \notin N  PROVE FALSE
      <4>1. j \in out  BY <3>1 DEF out
      <4>2. j \in Nat /\ g \in Nat /\ g >= j  BY <2>1, <2>2, <4>1
      <4>3. QED BY <3>1, <4>2
    <3>2. QED BY <3>1
  <2>6. Cardinality(U) <= Cardinality(N) /\ Cardinality(U) \in Nat
    BY <1>3, <2>5, FS_Subset, FS_CardinalityType
  <2>7. QED BY <1>3, <2>4, <2>6
<1>7. ASSUME Cardinality(S) <= n  PROVE N = S
  <2>1. ASSUME NEW i \in S  PROVE i \in N
    <3> DEFINE U == {j \in S : j > i}
    <3>1. U \subseteq S \ {i}  BY <1>1
    <3>2. IsFiniteSet(S \ {i}) /\ Cardinality(S \ {i}) = Cardinality(S) - 1
      BY <1>1, <2>1, FS_RemoveElement
    <3>3. Cardinality(U) <= Cardinality(S \ {i})  BY <3>1, <3>2, FS_Subset
    <3>4. Cardinality(U) \in Nat  BY <1>5, <2>1
    <3> HIDE DEF U
    <3>5. Cardinality(U) < n  BY <1>3, <1>7, <3>2, <3>3, <3>4
    <3>6. QED BY <1>4, <2>1, <3>5 DEF U
  <2>2. QED BY <1>2, <2>1
<1>8. QED BY <1>2, <1>3, <1>6, <1>7 DEF N

-----------------------------------------------------------------------------
(* The log                                                                 *)

LEMMA DayFacts == Day \in Nat \ {0} /\ Hour \in Nat \ {0} /\ DayHours \in Nat \ {0}
<1>1. Hour \in Nat \ {0} /\ DayHours \in Nat \ {0}  BY DashboardQueriesAssumption
<1>2. DayHours * Hour \in Nat \ {0}
  <2> PICK a \in Nat \ {0} : a = Hour  BY <1>1
  <2> PICK b \in Nat \ {0} : b = DayHours  BY <1>1
  <2>1. b * a \in Nat \ {0}  OBVIOUS
  <2>2. QED BY <2>1
<1>3. QED BY <1>1, <1>2 DEF Day

LEMMA LogFacts ==
    ASSUME load \in Loads, DataInv
    PROVE  /\ Packets = 1 .. Len(log) /\ Len(log) \in Nat /\ load.oldest \in Nat
           /\ \A i \in Packets : /\ log[i] \in Rec /\ log[i].shape \in load.arrivals
                                 /\ log[i].age \in Nat /\ log[i].age <= load.oldest
           /\ \A i \in Packets : Place(i) # None => Place(i).lat \in Int /\ Place(i).lon \in Int
<1>1. load.oldest \in Nat  BY LoadAssumption
<1>2. log \in Seq(Rec)  BY DEF DataInv
<1>3. Packets = 1 .. Len(log) /\ Len(log) \in Nat  BY <1>2 DEF Packets
<1>4. \A i \in Packets : log[i] \in Rec  BY <1>2, <1>3
<1>5. \A i \in Packets : log[i].shape \in load.arrivals /\ log[i].age \in 0 .. load.oldest
  BY <1>4 DEF Rec
<1>6. \A i \in Packets : Place(i) # None => Place(i).lat \in Int /\ Place(i).lon \in Int
  BY <1>5, LoadAssumption DEF Place
<1>7. QED BY <1>1, <1>3, <1>4, <1>5, <1>6

LEMMA ReceiveData ==
    ASSUME load \in Loads, DataInv, Receive
    PROVE  /\ DataInv'
           /\ Len(log') = Len(log) + 1 /\ \A i \in Packets : log'[i] = log[i]
           /\ log'[Len(log) + 1].age = 0 /\ Packets' = 1 .. Len(log) + 1
<1>1. PICK s \in load.arrivals : log' = Append(log, [shape |-> s, age |-> 0])
  BY DEF Receive
<1>2. UNCHANGED <<load, aggregated, phase>>  BY DEF Receive
<1> DEFINE r == [shape |-> s, age |-> 0]
           n == Len(log)
<1>3. log \in Seq(Rec) /\ Packets = 1 .. n /\ n \in Nat /\ load.oldest \in Nat
      /\ \A i \in Packets : log[i].age \in Nat
  BY LogFacts DEF DataInv
<1>4. r \in Rec /\ r.age = 0  BY <1>3 DEF Rec
<1>5. log' = Append(log, r)  BY <1>1
<1> HIDE DEF r
<1>6. /\ log' \in Seq(Rec) /\ Len(log') = n + 1
      /\ \A i \in 1 .. n : log'[i] = log[i]
      /\ log'[n + 1] = r
  BY <1>3, <1>4, <1>5
<1> HIDE DEF n
<1>7. Rec' = Rec  BY <1>2 DEF Rec
<1>8. Packets' = 1 .. n + 1  BY <1>6 DEF Packets
<1>9. \A i, j \in Packets' : i < j => log'[j].age <= log'[i].age
  <2>1. SUFFICES ASSUME NEW i \in 1 .. n + 1, NEW j \in 1 .. n + 1, i < j
                 PROVE  log'[j].age <= log'[i].age
    BY <1>8
  <2>2. i \in 1 .. n  BY <1>3, <2>1
  <2>3. log'[i] = log[i] /\ log[i].age \in Nat  BY <1>3, <1>6, <2>2
  <2>4. CASE j = n + 1  BY <1>4, <1>6, <2>3, <2>4
  <2>5. CASE j \in 1 .. n  BY <1>3, <1>6, <2>1, <2>2, <2>3, <2>5 DEF DataInv
  <2>6. QED BY <1>3, <2>1, <2>4, <2>5
<1>10. phase' \in 0 .. Day - 1  BY <1>2 DEF DataInv
<1>11. aggregated' \in [Views -> SUBSET Packets']
  <2>1. Packets \subseteq Packets'  BY <1>3, <1>8
  <2> HIDE DEF Packets, Views
  <2>2. QED BY <1>2, <2>1 DEF DataInv
<1>12. DataInv'  BY <1>6, <1>7, <1>9, <1>10, <1>11 DEF DataInv
<1>13. QED BY <1>3, <1>4, <1>6, <1>8, <1>12 DEF n

LEMMA TickData ==
    ASSUME load \in Loads, DataInv, Tick
    PROVE  /\ DataInv' /\ Packets' = Packets
           /\ \A i \in Packets : /\ log'[i].shape = log[i].shape
                                 /\ log'[i].age = Later(log[i].age)
<1>1. /\ log' = [i \in Packets |-> [log[i] EXCEPT !.age = Later(@)]]
      /\ phase' = IF load.charts THEN (phase + 1) % Day ELSE phase
      /\ UNCHANGED <<load, aggregated>>
  BY DEF Tick
<1>2. /\ Packets = 1 .. Len(log) /\ Len(log) \in Nat /\ load.oldest \in Nat
      /\ \A i \in Packets : /\ log[i] \in Rec /\ log[i].age \in Nat /\ log[i].age <= load.oldest
  BY LogFacts
<1>3. \A a, b \in Nat : a <= b => Later(a) <= Later(b)
  BY <1>2 DEF Later, Smaller, AgeLimit
<1>4. \A a \in Nat : Later(a) \in 0 .. load.oldest  BY <1>2 DEF Later, Smaller, AgeLimit
<1>5. \A i \in Packets : [log[i] EXCEPT !.age = Later(@)] \in Rec
  <2>1. SUFFICES ASSUME NEW i \in Packets PROVE [log[i] EXCEPT !.age = Later(@)] \in Rec
    OBVIOUS
  <2>2. log[i] \in Rec /\ Later(log[i].age) \in 0 .. load.oldest  BY <1>2, <1>4
  <2> HIDE DEF Later
  <2>3. QED BY <2>2 DEF Rec
<1>6. log' \in [1 .. Len(log) -> Rec]  BY <1>1, <1>2, <1>5
<1>7. log' \in Seq(Rec)  BY <1>2, <1>6, SeqDef
<1>8. Packets' = Packets  BY <1>1 DEF Packets
<1>9. \A i \in Packets : log'[i].shape = log[i].shape /\ log'[i].age = Later(log[i].age)
  <2>1. SUFFICES ASSUME NEW i \in Packets
                 PROVE  log'[i].shape = log[i].shape /\ log'[i].age = Later(log[i].age)
    OBVIOUS
  <2>2. log'[i] = [log[i] EXCEPT !.age = Later(@)] /\ log[i] \in Rec  BY <1>1, <1>2
  <2> HIDE DEF Later
  <2>3. QED BY <2>2 DEF Rec
<1>10. \A i, j \in Packets' : i < j => log'[j].age <= log'[i].age
  <2>1. SUFFICES ASSUME NEW i \in Packets, NEW j \in Packets, i < j
                 PROVE  log'[j].age <= log'[i].age
    BY <1>8
  <2>2. log[j].age <= log[i].age  BY <2>1 DEF DataInv
  <2>3. QED BY <1>2, <1>3, <1>9, <2>1, <2>2
<1>11. phase' \in 0 .. Day - 1
  <2>1. Day \in Nat \ {0} /\ phase \in 0 .. Day - 1  BY DayFacts DEF DataInv
  <2>2. \A d \in Nat \ {0} : \A p \in 0 .. d - 1 : (p + 1) % d \in 0 .. d - 1  OBVIOUS
  <2>3. (phase + 1) % Day \in 0 .. Day - 1  BY <2>1, <2>2
  <2>4. QED BY <1>1, <2>1, <2>3
<1>12. Rec' = Rec  BY <1>1 DEF Rec
<1>13. DataInv'
  BY <1>1, <1>7, <1>8, <1>10, <1>11, <1>12 DEF DataInv
<1>14. QED BY <1>8, <1>9, <1>13

LEMMA RefreshData ==
    ASSUME load \in Loads, DataInv, Refresh
    PROVE  DataInv'
<1>1. PICK v \in load.refreshing : aggregated' = [aggregated EXCEPT ![v] = @ \cup Refreshable(v)]
  BY DEF Refresh
<1>2. UNCHANGED <<load, log, phase>>  BY DEF Refresh
<1>3. Refreshable(v) \subseteq Packets  BY DEF Refreshable
<1>4. aggregated \in [Views -> SUBSET Packets]  BY DEF DataInv
<1>5. Packets' = Packets /\ Rec' = Rec  BY <1>2 DEF Packets, Rec
<1> HIDE DEF Refreshable, Packets, Views
<1>6. aggregated' \in [Views -> SUBSET Packets]  BY <1>1, <1>3, <1>4
<1>7. QED BY <1>2, <1>5, <1>6 DEF DataInv

LEMMA InitData == Init => DataInv
<1>1. SUFFICES ASSUME Init PROVE DataInv
  OBVIOUS
<1>2. /\ log = <<>> /\ phase \in (IF load.charts THEN 0 .. (Day - 1) ELSE {0})
      /\ aggregated = [v \in Views |-> {}]
  BY <1>1 DEF Init
<1>3. Day \in Nat \ {0}  BY DayFacts
<1>4. Packets = {}  BY <1>2 DEF Packets
<1>5. log \in Seq(Rec)  BY <1>2
<1>6. phase \in 0 .. Day - 1  BY <1>2, <1>3
<1>7. aggregated \in [Views -> SUBSET Packets]  BY <1>2
<1>8. \A i, j \in Packets : i < j => log[j].age <= log[i].age  BY <1>4
<1>9. QED BY <1>5, <1>6, <1>7, <1>8 DEF DataInv

(* What a step changes at all: the packets, or the workers and the cache *)
LEMMA Frames ==
    ASSUME [Next]_vars
    PROVE  /\ load' = load
           /\ \/ Receive \/ Tick
              \/ log' = log /\ phase' = phase /\ (aggregated' = aggregated \/ Refresh)
           /\ Receive \/ Report \/ Refresh \/ Evict => UNCHANGED th
<1>1. CASE UNCHANGED vars  BY <1>1 DEF vars, database, Receive, Report, Refresh, Evict
<1>2. CASE \E t \in Workers : Step(t)
  <2>1. UNCHANGED database
    BY <1>2 DEF Step, Ask, Hit, Miss, Query, QueryCountry, ReturnTop, Keep,
                LookupTiles, QueryTiles, KeepTiles, NextView, EndPage, QueryFails
  <2>2. QED BY <2>1 DEF database, Receive, Report, Refresh, Evict
<1>3. CASE EndWarming \/ WarmingFails
  BY <1>3 DEF EndWarming, WarmingFails, database, Receive, Report, Refresh, Evict
<1>4. CASE Receive \/ Report \/ Refresh \/ Evict \/ Tick
  BY <1>4 DEF Receive, Report, Refresh, Evict, Tick, database
<1>5. QED BY <1>1, <1>2, <1>3, <1>4 DEF Next

LEMMA DataStep == load \in Loads /\ DataInv /\ [Next]_vars => DataInv'
<1>1. SUFFICES ASSUME load \in Loads, DataInv, [Next]_vars PROVE DataInv'
  OBVIOUS
<1>2. CASE Receive  BY <1>1, <1>2, ReceiveData
<1>3. CASE Tick  BY <1>1, <1>3, TickData
<1>4. CASE log' = log /\ phase' = phase /\ (aggregated' = aggregated \/ Refresh)
  <2>1. CASE Refresh  BY <1>1, <2>1, RefreshData
  <2>2. CASE aggregated' = aggregated
    <3>1. load' = load  BY <1>1, Frames
    <3>2. Packets' = Packets /\ Rec' = Rec  BY <1>4, <3>1 DEF Packets, Rec
    <3> HIDE DEF Packets, Rec, Views
    <3>3. QED BY <1>1, <1>4, <2>2, <3>1, <3>2 DEF DataInv
  <2>3. QED BY <1>4, <2>1, <2>2
<1>5. QED BY <1>1, <1>2, <1>3, <1>4, Frames

-----------------------------------------------------------------------------
(* What may be shown, and what must be found, as time passes               *)

LEMMA LocatedFacts ==
    ASSUME load \in Loads, DataInv, NEW type, NEW hours \in Nat, NEW i
    PROVE  i \in Located(hours, type) <=> Fits(i, type, hours, 0)
<1>1. hours * Hour \in Nat
  <2> PICK a \in Nat : a = Hour  BY DayFacts
  <2>1. hours * a \in Nat  OBVIOUS
  <2>2. QED BY <2>1
<1>2. hours * Hour + 0 = hours * Hour  BY <1>1
<1>3. QED BY <1>2 DEF Located, Raw, Fits

(* One tick, or one packet: nothing that fitted does not fit any more, and  *)
(* what is due was due before.                                             *)
LEMMA Ages ==
    ASSUME load \in Loads, DataInv, NEW type, NEW hours \in Nat, NEW held \in Nat,
           hours * Hour < load.oldest, Tick
    PROVE  /\ \A i : Fits(i, type, hours, held) => Fits(i, type, hours, held + 1)'
           /\ Due(type, hours, held + 1)' \subseteq Due(type, hours, held)
<1>1. /\ Packets' = Packets
      /\ \A i \in Packets : log'[i].shape = log[i].shape /\ log'[i].age = Later(log[i].age)
      /\ DataInv' /\ load' = load
  BY TickData DEF Tick
<1>2. load.oldest \in Nat /\ \A i \in Packets : log[i].age \in Nat /\ log[i].age <= load.oldest
  BY LogFacts
<1> DEFINE span == hours * Hour
<1>3. span \in Nat /\ span < load.oldest
  <2> PICK a \in Nat : a = Hour  BY DayFacts
  <2>1. hours * a \in Nat  OBVIOUS
  <2>2. QED BY <2>1
<1> HIDE DEF span
<1>4. \A i \in Packets : /\ log'[i].age \in Nat /\ log'[i].age <= log[i].age + 1
                         /\ log[i].age <= log'[i].age
                         /\ log'[i].age <= span => log'[i].age = log[i].age + 1
  <2>1. SUFFICES ASSUME NEW i \in Packets
                 PROVE  /\ log'[i].age \in Nat /\ log'[i].age <= log[i].age + 1
                        /\ log[i].age <= log'[i].age
                        /\ log'[i].age <= span => log'[i].age = log[i].age + 1
    OBVIOUS
  <2> PICK a \in Nat : a = log[i].age  BY <1>2
  <2> PICK b \in Nat : b = load.oldest  BY <1>2
  <2>2. a <= b /\ log'[i].age = (IF a + 1 < b THEN a + 1 ELSE b)
    BY <1>1, <1>2 DEF Later, Smaller, AgeLimit
  <2>3. QED BY <1>3, <2>2
<1>5. \A i \in Packets : /\ Place(i)' = Place(i) /\ Call(i)' = Call(i)
                         /\ OfType(i, type)' = OfType(i, type)
  BY <1>1 DEF Place, Call, OfType
<1>6. \A i \in Packets : Fits(i, type, hours, 0)' => Fits(i, type, hours, 0)
  BY <1>1, <1>2, <1>3, <1>4, <1>5 DEF Fits, span
<1>7. ASSUME NEW i, Fits(i, type, hours, held)
      PROVE  Fits(i, type, hours, held + 1)'
  <2>1. i \in Packets /\ log[i].age <= span + held  BY <1>7 DEF Fits, span
  <2>2. log'[i].age <= span + (held + 1)  BY <1>2, <1>3, <1>4, <2>1
  <2>3. QED BY <1>1, <1>5, <1>7, <2>1, <2>2 DEF Fits, span
<1> DEFINE L == Located(hours, type)
<1>8. \A i : i \in L <=> Fits(i, type, hours, 0)  BY LocatedFacts
<1>9. \A i : i \in L' <=> Fits(i, type, hours, 0)'
  <2>1. span + 0 = span  BY <1>3
  <2>2. QED BY <2>1 DEF Located, Raw, Fits, span
<1>10. ASSUME NEW i \in Due(type, hours, held + 1)'
       PROVE  i \in Due(type, hours, held)
  <2>1. i \in L' /\ log'[i].age > held + 1 /\ ~\E j \in L' : j > i /\ Call(j)' = Call(i)'
    BY DEF Due, PerCall
  <2> HIDE DEF L
  <2>2. i \in Packets /\ log'[i].age <= span /\ Fits(i, type, hours, 0)'
    <3>1. Fits(i, type, hours, 0)'  BY <1>9, <2>1
    <3>2. QED BY <1>1, <1>3, <3>1 DEF Fits, span
  <2>3. Fits(i, type, hours, 0) /\ i \in L  BY <1>6, <1>8, <2>2
  <2>4. log[i].age > held  BY <1>2, <1>4, <2>1, <2>2
  <2>5. ASSUME NEW j \in L, j > i, Call(j) = Call(i)  PROVE FALSE
    <3>1. Fits(j, type, hours, 0)  BY <1>8
    <3>2. j \in Packets  BY <3>1 DEF Fits
    <3>3. log'[j].age <= log'[i].age  BY <1>1, <2>2, <2>5, <3>2 DEF DataInv
    <3>4. log'[j].age <= span  BY <1>3, <1>4, <2>2, <3>2, <3>3
    <3>5. Fits(j, type, hours, 0)'  BY <1>1, <1>3, <1>5, <3>1, <3>2, <3>4 DEF Fits, span
    <3>6. j \in L'  BY <1>9, <3>5
    <3>7. QED BY <1>5, <2>1, <2>2, <2>5, <3>2, <3>6
  <2>6. QED BY <2>3, <2>4, <2>5 DEF Due, PerCall, L
<1>11. QED BY <1>7, <1>10

LEMMA Arrives ==
    ASSUME load \in Loads, DataInv, NEW type, NEW hours \in Nat, NEW held \in Nat, Receive
    PROVE  /\ \A i : Fits(i, type, hours, held) => Fits(i, type, hours, held)'
           /\ Due(type, hours, held)' \subseteq Due(type, hours, held)
<1> DEFINE n == Len(log)
<1>1. /\ DataInv' /\ load' = load
      /\ \A i \in Packets : log'[i] = log[i]
      /\ log'[n + 1].age = 0 /\ Packets' = 1 .. n + 1
  BY ReceiveData DEF Receive
<1>2. Packets = 1 .. n /\ n \in Nat /\ \A i \in Packets : log[i].age \in Nat
  BY LogFacts
<1> HIDE DEF n
<1>3. \A i \in Packets : /\ Place(i)' = Place(i) /\ Call(i)' = Call(i) /\ i \in Packets'
                         /\ OfType(i, type)' = OfType(i, type)
  BY <1>1, <1>2 DEF Place, Call, OfType
<1>4. \A i \in Packets : Fits(i, type, hours, 0)' <=> Fits(i, type, hours, 0)
  BY <1>1, <1>3 DEF Fits
<1>5. \A i : Fits(i, type, hours, held) => Fits(i, type, hours, held)'
  BY <1>1, <1>3 DEF Fits
<1> DEFINE L == Located(hours, type)
<1>6. hours * Hour \in Nat
  <2> PICK a \in Nat : a = Hour  BY DayFacts
  <2>1. hours * a \in Nat  OBVIOUS
  <2>2. QED BY <2>1
<1>7. \A i : i \in L <=> Fits(i, type, hours, 0)  BY LocatedFacts
<1>8. \A i : i \in L' <=> Fits(i, type, hours, 0)'
  <2>1. hours * Hour + 0 = hours * Hour  BY <1>6
  <2>2. QED BY <2>1 DEF Located, Raw, Fits
<1>9. ASSUME NEW i \in Due(type, hours, held)'
      PROVE  i \in Due(type, hours, held)
  <2>1. i \in L' /\ log'[i].age > held /\ ~\E j \in L' : j > i /\ Call(j)' = Call(i)'
    BY DEF Due, PerCall
  <2> HIDE DEF L
  <2>2. i \in Packets' /\ i # n + 1
    <3>1. Fits(i, type, hours, 0)'  BY <1>8, <2>1
    <3>2. QED BY <1>1, <2>1, <3>1 DEF Fits
  <2>3. i \in Packets  BY <1>1, <1>2, <2>2
  <2>4. i \in L /\ log[i].age > held  BY <1>1, <1>4, <1>7, <1>8, <2>1, <2>3
  <2>5. ASSUME NEW j \in L, j > i, Call(j) = Call(i)  PROVE FALSE
    <3>1. Fits(j, type, hours, 0)  BY <1>7
    <3>2. j \in Packets  BY <3>1 DEF Fits
    <3>3. j \in L'  BY <1>4, <1>8, <3>1, <3>2
    <3>4. QED BY <1>3, <2>1, <2>3, <2>5, <3>2, <3>3
  <2>6. QED BY <2>4, <2>5 DEF Due, PerCall, L
<1>10. QED BY <1>5, <1>9

-----------------------------------------------------------------------------
(* The steps of a map                                                      *)

(* What the map makes of the packets in hand *)
LEMMA AnswerMap ==
    ASSUME load \in Loads, DataInv, NEW c, c.limit \in Nat, c.hours \in Nat,
           NEW ids, NEW missing, NEW partial, NEW held \in Nat,
           \A i \in ids : Fits(i, c.type, c.hours, held),
           \A i \in Due(c.type, c.hours, held) :
              InBox(Place(i), c.box) /\ TileOf(Place(i)) \in FirstTiles(c.box) /\ TileOf(Place(i)) \notin partial
              => i \in ids
    PROVE  Answered(c, MapAnswer(c, ids, missing, partial), held)
<1> DEFINE S == {i \in PerCall(ids) : InBox(Place(i), c.box)}
           shown == Newest(S, c.limit)
           v == MapAnswer(c, ids, missing, partial)
<1>1. v.ids = Features(shown) /\ v.full = (Cardinality(shown) >= c.limit) /\ v.partial = partial
  BY DEF MapAnswer, ShownOf
<1>2. Packets = 1 .. Len(log) /\ Len(log) \in Nat /\ \A i \in Packets : log[i].age \in Nat
  BY LogFacts
<1>3. S \subseteq 1 .. Len(log)  BY <1>2 DEF PerCall, Fits
<1>4. /\ shown \subseteq S /\ Cardinality(shown) \in Nat
      /\ S # shown => Cardinality(shown) >= c.limit
  BY <1>2, <1>3, NewestFacts
<1> HIDE DEF v, shown
<1>5. \A i \in v.ids : Fits(i, c.type, c.hours, held) /\ InBox(Place(i), c.box)
  BY <1>1, <1>4 DEF Features, PerCall
<1>6. ASSUME NEW i \in Due(c.type, c.hours, held), InBox(Place(i), c.box),
             Place(i).lat # 0, Place(i).lon # 0, i \notin v.ids, ~v.full,
             TileOf(Place(i)) \in FirstTiles(c.box), TileOf(Place(i)) \notin partial
      PROVE  FALSE
  <2>1. i \in ids  BY <1>6
  <2>2. i \in Located(c.hours, c.type) /\ ~\E j \in Located(c.hours, c.type) : j > i /\ Call(j) = Call(i)
    BY DEF Due, PerCall
  <2>3. i \in Packets /\ log[i].age <= c.hours * Hour  BY <2>2 DEF Located, Raw
  <2>4. ASSUME NEW j \in ids, j > i  PROVE j \in Located(c.hours, c.type)
    <3>1. Fits(j, c.type, c.hours, held)  OBVIOUS
    <3>2. j \in Packets  BY <3>1 DEF Fits
    <3>3. log[j].age <= log[i].age  BY <1>2, <2>3, <2>4, <3>2 DEF DataInv
    <3> PICK h \in Nat : h = c.hours * Hour
      <4> PICK a \in Nat : a = Hour  BY DayFacts
      <4> PICK b \in Nat : b = c.hours  OBVIOUS
      <4>1. b * a \in Nat  OBVIOUS
      <4>2. QED BY <4>1
    <3>4. log[j].age <= c.hours * Hour  BY <1>2, <2>3, <3>2, <3>3
    <3>5. QED BY <3>1, <3>2, <3>4 DEF Fits, Located, Raw
  <2>5. i \in PerCall(ids)  BY <2>1, <2>2, <2>4 DEF PerCall
  <2>6. i \in S  BY <1>6, <2>5
  <2>7. i \notin shown  BY <1>1, <1>6 DEF Features
  <2>8. QED BY <1>1, <1>4, <1>6, <2>6, <2>7
<1>7. Answered(c, v, held)  BY <1>1, <1>5, <1>6 DEF Answered
<1>8. QED BY <1>7 DEF v

(* What a query of the box finds *)
LEMMA QueryBoxFacts ==
    ASSUME load \in Loads, DataInv, NEW type, NEW hours \in Nat, NEW box
    PROVE  /\ \A i \in QueryBox(box, hours, type) : Fits(i, type, hours, 0)
           /\ ~(Cardinality(BoxRows(box, hours, type)) > MaxRows) =>
                 \A i \in Due(type, hours, 0) : InBox(Place(i), box) => i \in QueryBox(box, hours, type)
<1> DEFINE B == BoxRows(box, hours, type)
           L == Located(hours, type)
<1>1. B = {i \in L : InBox(Place(i), box)}  BY DEF BoxRows
<1>2. \A i \in L : Fits(i, type, hours, 0)  BY LocatedFacts
<1>3. Packets = 1 .. Len(log) /\ Len(log) \in Nat  BY LogFacts
<1> HIDE DEF B, L
<1>4. B \subseteq 1 .. Len(log)  BY <1>1, <1>2, <1>3 DEF Fits
<1>5. MaxRows \in Nat  BY DashboardQueriesAssumption
<1>6. /\ Newest(B, MaxRows) \subseteq B
      /\ Cardinality(B) <= MaxRows => Newest(B, MaxRows) = B
  BY <1>3, <1>4, <1>5, NewestFacts
<1>7. QueryBox(box, hours, type) = PerCall(Newest(B, MaxRows))  BY DEF QueryBox, B
<1>8. Cardinality(B) \in Nat
  <2>1. IsFiniteSet(1 .. Len(log))  BY <1>3, FS_Interval
  <2>2. IsFiniteSet(B)  BY <1>4, <2>1, FS_Subset
  <2>3. QED BY <2>2, FS_CardinalityType
<1>9. \A i \in QueryBox(box, hours, type) : Fits(i, type, hours, 0)
  BY <1>1, <1>2, <1>6, <1>7 DEF PerCall
<1>10. ASSUME ~(Cardinality(B) > MaxRows), NEW i \in Due(type, hours, 0), InBox(Place(i), box)
       PROVE  i \in QueryBox(box, hours, type)
  <2>1. Newest(B, MaxRows) = B  BY <1>5, <1>6, <1>8, <1>10
  <2>2. i \in L /\ ~\E j \in L : j > i /\ Call(j) = Call(i)  BY DEF Due, PerCall, L
  <2>3. i \in PerCall(B)  BY <1>1, <1>10, <2>2 DEF PerCall
  <2>4. QED BY <1>7, <2>1, <2>3
<1>11. QED BY <1>9, <1>10 DEF B

(* A tile that lies in the box as a whole *)
LEMMA WholeTile ==
    ASSUME NEW p, p.lat \in Int, p.lon \in Int, NEW box, Whole(TileOf(p), box)
    PROVE  InBox(p, box)
<1> DEFINE u == TileOf(p)
<1>1. u.lat = p.lat \div Tile /\ u.lon = p.lon \div Tile  BY DEF TileOf
<1>2. Tile \in Nat \ {0}  BY DashboardQueriesAssumption
<1>3. ASSUME NEW a \in Int
      PROVE  a \in ((a \div Tile) * Tile) .. ((a \div Tile) * Tile + Tile - 1)
  <2>1. a \div Tile \in Int /\ (a \div Tile) * Tile <= a /\ a < (a \div Tile) * Tile + Tile
    BY <1>2, DivFacts
  <2>2. (a \div Tile) * Tile \in Int  BY <1>2, <2>1
  <2> DEFINE b == (a \div Tile) * Tile
  <2> HIDE DEF b
  <2>3. b \in Int /\ b <= a /\ a < b + Tile  BY <2>1, <2>2 DEF b
  <2>4. a \in b .. (b + Tile - 1)  BY <1>2, <2>3
  <2>5. QED BY <2>4 DEF b
<1>4. /\ p.lat \in (u.lat * Tile) .. (u.lat * Tile + Tile - 1)
      /\ p.lon \in (u.lon * Tile) .. (u.lon * Tile + Tile - 1)
  BY <1>1, <1>3
<1> HIDE DEF u
<1>5. InBox([lat |-> p.lat, lon |-> p.lon], box)  BY <1>4 DEF Whole, u
<1>6. QED BY <1>5 DEF InBox

-----------------------------------------------------------------------------
(* The steps                                                               *)

LEMMA SameLog ==
    ASSUME load' = load, log' = log
    PROVE  /\ \A e : MapOk(e)' <=> MapOk(e)
           /\ \A k, e : TileOk(k, e)' <=> TileOk(k, e)
<1>1. \A i, type, hours, held : Fits(i, type, hours, held)' <=> Fits(i, type, hours, held)
  BY DEF Fits, Packets, OfType, Place
<1>2. \A type, hours, held : Due(type, hours, held)' = Due(type, hours, held)
  BY DEF Due, PerCall, Located, Raw, Packets, OfType, Place, Call
<1>3. \A i : Place(i)' = Place(i)  BY DEF Place
<1> HIDE DEF Fits, Due, Place
<1>4. \A k, e : TileOk(k, e)' <=> TileOk(k, e)  BY <1>1, <1>2, <1>3 DEF TileOk
<1>5. \A c, v, held : Gathered(c, v, held)' <=> Gathered(c, v, held)
  BY <1>1, <1>2, <1>3 DEF Gathered
<1>6. \A c, v, held : Fetched(c, v, held)' <=> Fetched(c, v, held)
  BY <1>1, <1>2, <1>3 DEF Fetched
<1>7. \A c, v, held : Answered(c, v, held)' <=> Answered(c, v, held)
  BY <1>1, <1>2, <1>3 DEF Answered
<1>8. \A e : MapOk(e)' <=> MapOk(e)  BY <1>5, <1>6, <1>7 DEF MapOk
<1>9. QED BY <1>4, <1>8

LEMMA MapMoves ==
    ASSUME ServeInv, MapInv, NEW t \in Workers, NEW e, Move(t, e), MapOk(e),
           load' = load, log' = log,
           \A k \in DOMAIN cache' : k.view = "tile" => TileOk(k, cache'[k])
    PROVE  MapInv'
<1>1. DOMAIN th = Workers /\ \A u \in Workers : MapOk(th[u])  BY DEF ServeInv, MapInv
<1>2. DOMAIN th' = Workers /\ \A u \in Workers : th'[u] = IF u = t THEN e ELSE th[u]
  BY <1>1 DEF Move
<1>3. ASSUME NEW u \in Workers PROVE MapOk(th[u])'
  <2>1. MapOk(th'[u])  BY <1>1, <1>2
  <2>2. QED BY <2>1, SameLog
<1>4. ASSUME NEW k \in DOMAIN cache', k.view = "tile" PROVE TileOk(k, cache[k])'
  <2>1. TileOk(k, cache'[k])  BY <1>4
  <2>2. QED BY <2>1, SameLog
<1>5. QED BY <1>3, <1>4 DEF MapInv

(* A move to where no map has anything in hand *)
LEMMA PlainMoves ==
    ASSUME ServeInv, MapInv, NEW t \in Workers, NEW e, Move(t, e),
           e.pc \in {"idle", "look"} \/ Head(e.todo).view # "map",
           load' = load, log' = log, cache' = cache
    PROVE  MapInv'
<1>1. MapOk(e)  BY DEF MapOk
<1>2. \A k \in DOMAIN cache' : k.view = "tile" => TileOk(k, cache'[k])  BY DEF MapInv
<1>3. QED BY <1>1, <1>2, MapMoves

LEMMA PlainSteps ==
    ASSUME ServeInv, MapInv, NEW t \in Workers,
           \/ Ask(t) \/ Hit(t) \/ Miss(t) \/ Query(t) \/ QueryCountry(t) \/ ReturnTop(t)
           \/ NextView(t) \/ EndPage(t) \/ QueryFails(t)
    PROVE  MapInv'
<1>1. load' = load /\ log' = log /\ cache' = cache
  BY DEF Ask, Hit, Miss, Query, QueryCountry, ReturnTop, NextView, EndPage, QueryFails, database
<1>2. CASE Ask(t)
  <2>1. PICK p \in load.pages : Move(t, [Idle EXCEPT !.pc = "look", !.todo = Plan(p)])  BY <1>2 DEF Ask
  <2>2. [Idle EXCEPT !.pc = "look", !.todo = Plan(p)].pc = "look"  BY DEF Idle
  <2>3. QED BY <1>1, <2>1, <2>2, PlainMoves
<1>3. CASE Hit(t)
  <2> DEFINE k == Key(Doing(t))
             e == [th[t] EXCEPT !.pc = "answer", !.val = cache[k].val, !.held = cache[k].held]
  <2>1. th[t].pc = "look" /\ k \in DOMAIN cache /\ Move(t, e)  BY <1>3 DEF Hit, Answer
  <2>2. DOMAIN th[t] = Fields /\ Doing(t) = Head(th[t].todo) /\ k = Doing(t)  BY <2>1, AtWork DEF Key
  <2>3. EntryOk(k, cache[k])  BY <2>1 DEF ServeInv
  <2>4. Head(th[t].todo).view # "map"  BY <2>2, <2>3 DEF EntryOk, CachedViews
  <2>5. e.todo = th[t].todo  BY <2>2 DEF Fields
  <2> HIDE DEF e
  <2>6. QED BY <1>1, <2>1, <2>4, <2>5, PlainMoves
<1>4. CASE Miss(t)
  <2> DEFINE e == [th[t] EXCEPT !.pc = "query"]
  <2>1. th[t].pc = "look" /\ ~AtView(t, "map") /\ Move(t, e)  BY <1>4 DEF Miss
  <2>2. DOMAIN th[t] = Fields /\ Doing(t) = Head(th[t].todo) /\ CallList(th[t].todo)  BY <2>1, AtWork
  <2>3. e.todo = th[t].todo  BY <2>2 DEF Fields
  <2> HIDE DEF e
  <2>4. QED BY <1>1, <2>1, <2>2, <2>3, PlainMoves DEF AtView, CallList
<1>5. CASE Query(t)
  <2> DEFINE r == Result(Doing(t))
             e == [th[t] EXCEPT !.pc = "keep", !.val = r, !.held = 0]
  <2>1. th[t].pc = "query" /\ Doing(t).view \notin Composed /\ Move(t, e)  BY <1>5 DEF Query
  <2> HIDE DEF r
  <2>2. DOMAIN th[t] = Fields /\ Doing(t) = Head(th[t].todo)  BY <2>1, AtWork
  <2>3. e.todo = th[t].todo  BY <2>2 DEF Fields
  <2> HIDE DEF e
  <2>4. QED BY <1>1, <2>1, <2>2, <2>3, PlainMoves DEF Composed
<1>6. CASE QueryCountry(t)
  <2>1. PICK f, n : CallTop(t, f, 0, n)  BY <1>6 DEF QueryCountry
  <2> DEFINE e == [th[t] EXCEPT !.pc = "look", !.todo = <<Top(Doing(t).country, n)>> \o @, !.val = None,
                                !.held = 0, !.outer = <<[figures |-> f, held |-> 0]>>]
  <2>2. Move(t, e) /\ th[t].pc = "query"  BY <1>6, <2>1 DEF CallTop, QueryCountry
  <2>3. DOMAIN th[t] = Fields  BY <2>2, AtWork
  <2>4. e.pc = "look"  BY <2>3 DEF Fields
  <2> HIDE DEF e
  <2>5. QED BY <1>1, <2>2, <2>4, PlainMoves
<1>7. CASE ReturnTop(t)
  <2> DEFINE frame == Head(th[t].outer)
             top == th[t].val
             held == Older(frame.held, th[t].held)
             s1 == <<[Head(th[t].todo) EXCEPT !.limit = 1]>> \o Tail(th[t].todo)
             o1 == <<[figures |-> CountryFiguresOf(top), held |-> held]>>
             v2 == [figures |-> frame.figures, top |-> IF top = <<>> THEN None ELSE top[1].call]
             e1 == [th[t] EXCEPT !.pc = "look", !.val = None, !.held = 0, !.todo = s1, !.outer = o1]
             back == [th[t] EXCEPT !.todo = Tail(@), !.outer = <<>>]
             e2 == [back EXCEPT !.pc = "keep", !.held = held, !.val = v2]
  <2>1. th[t].pc = "answer" /\ th[t].outer # <<>> /\ (Move(t, e1) \/ Move(t, e2))
    BY <1>7 DEF ReturnTop
  <2> HIDE DEF frame, top, held, s1, o1, v2
  <2>2. DOMAIN th[t] = Fields /\ CallList(th[t].todo) /\ WorkerTypes(th[t])  BY <2>1, AtWork DEF WorkerOk
  <2>3. Framed(th[t])  BY <2>1, <2>2 DEF WorkerTypes
  <2>4. Head(Tail(th[t].todo)).view = "country"  BY <2>2, <2>3, TailList DEF Framed
  <2>5. e1.pc = "look" /\ e2.todo = Tail(th[t].todo)  BY <2>2 DEF Fields
  <2> HIDE DEF e1, e2
  <2>6. QED BY <1>1, <2>1, <2>4, <2>5, PlainMoves
<1>8. CASE NextView(t)
  <2> DEFINE e == [Idle EXCEPT !.pc = "look", !.todo = Tail(th[t].todo), !.slow = th[t].slow]
  <2>1. Move(t, e) /\ e.pc = "look"  BY <1>8 DEF NextView, Idle
  <2> HIDE DEF e
  <2>2. QED BY <1>1, <2>1, PlainMoves
<1>9. CASE EndPage(t) \/ QueryFails(t)
  <2>1. Move(t, Idle) /\ Idle.pc = "idle"  BY <1>9 DEF EndPage, QueryFails, Idle
  <2> HIDE DEF Idle
  <2>2. QED BY <1>1, <2>1, PlainMoves
<1>10. QED BY <1>2, <1>3, <1>4, <1>5, <1>6, <1>7, <1>8, <1>9

LEMMA WarmingMaps ==
    ASSUME ServeInv, MapInv, EndWarming \/ WarmingFails
    PROVE  MapInv'
<1>1. Move(Warmer, Idle) /\ Idle.pc = "idle" /\ load' = load /\ log' = log /\ cache' = cache
  BY DEF EndWarming, WarmingFails, Idle, database
<1>2. Warmer \in Workers  BY DEF Workers
<1> HIDE DEF Idle
<1>3. QED BY <1>1, <1>2, PlainMoves

LEMMA KeepMaps ==
    ASSUME ServeInv, MapInv, NEW t \in Workers, Keep(t)
    PROVE  MapInv'
<1> DEFINE e == [th[t] EXCEPT !.pc = "answer", !.val = th[t].val, !.held = th[t].held]
           entry == Entry(Doing(t), th[t].val, th[t].held)
<1>1. /\ th[t].pc = "keep" /\ ~AtView(t, "map") /\ Move(t, e) /\ load' = load /\ log' = log
      /\ \/ cache' = cache
         \/ Stored(t) /\ cache' = Put([k \in {Key(Doing(t))} |-> entry])
  BY DEF Keep, Answer, database
<1>2. DOMAIN th[t] = Fields /\ Doing(t) = Head(th[t].todo) /\ CallList(th[t].todo)  BY <1>1, AtWork
<1>3. e.todo = th[t].todo  BY <1>2 DEF Fields
<1>4. Head(th[t].todo).view # "map"  BY <1>1, <1>2 DEF AtView, CallList
<1> HIDE DEF entry, e
<1>5. \A k \in DOMAIN cache' : k.view = "tile" => k \in DOMAIN cache /\ cache'[k] = cache[k]
  <2>1. CASE cache' = cache  BY <2>1
  <2>2. CASE Stored(t) /\ cache' = Put([k \in {Key(Doing(t))} |-> entry])
    <3>1. Doing(t).view # "tile"  BY <2>2 DEF Stored, CachedViews
    <3>2. DOMAIN cache' = DOMAIN cache \cup {Doing(t)}
          /\ \A k \in DOMAIN cache' : cache'[k] = IF k = Doing(t) THEN entry ELSE cache[k]
      BY <2>2 DEF Put, Key
    <3>3. QED BY <3>1, <3>2
  <2>3. QED BY <1>1, <2>1, <2>2
<1>6. \A k \in DOMAIN cache' : k.view = "tile" => TileOk(k, cache'[k])  BY <1>5 DEF MapInv
<1>7. MapOk(e)  BY <1>3, <1>4 DEF MapOk
<1>8. QED BY <1>1, <1>6, <1>7, MapMoves

(* What fitted, or was not due, a while ago *)
LEMMA Longer ==
    ASSUME load \in Loads, DataInv, NEW type, NEW hours \in Nat, NEW m \in Nat, NEW n \in Nat, m <= n
    PROVE  /\ \A i : Fits(i, type, hours, m) => Fits(i, type, hours, n)
           /\ Due(type, hours, n) \subseteq Due(type, hours, m)
<1>1. \A i \in Packets : log[i].age \in Nat  BY LogFacts
<1> PICK h \in Nat : h = hours * Hour
  <2> PICK a \in Nat : a = Hour  BY DayFacts
  <2>1. hours * a \in Nat  OBVIOUS
  <2>2. QED BY <2>1
<1>2. \A i \in Packets : log[i].age <= h + m => log[i].age <= h + n  BY <1>1
<1>3. \A i : Fits(i, type, hours, m) => Fits(i, type, hours, n)  BY <1>2 DEF Fits
<1>4. \A i \in Due(type, hours, n) : i \in Packets  BY DEF Due, PerCall, Located, Raw
<1>5. \A i \in Packets : log[i].age > n => log[i].age > m  BY <1>1
<1>6. Due(type, hours, n) \subseteq Due(type, hours, m)  BY <1>4, <1>5 DEF Due
<1>7. QED BY <1>3, <1>6

LEMMA MapCall ==
    ASSUME ServeInv, NEW t \in Workers, th[t].pc # "idle", AtView(t, "map")
    PROVE  /\ load \in Loads /\ DOMAIN th[t] = Fields /\ Doing(t) = Head(th[t].todo)
           /\ Doing(t).view = "map" /\ Doing(t).limit \in Nat /\ Doing(t).hours \in Nat
           /\ Doing(t).hours * Hour < load.oldest /\ th[t].held \in Nat
<1>1. load \in Loads /\ DOMAIN th[t] = Fields /\ Doing(t) = Head(th[t].todo) /\ IsCall(Doing(t))
      /\ th[t].held \in Nat
  BY AtWork
<1>2. Doing(t).view = "map"  BY DEF AtView
<1>3. QED BY <1>1, <1>2 DEF IsCall

(* The tiles of a map that are in the cache *)
LEMMA HitFacts ==
    ASSUME ServeInv, DataInv, MapInv, NEW c, c.hours \in Nat
    PROVE  LET hits == CachedTiles(c)
               held == OldestRead(c, hits)
           IN /\ hits \subseteq FirstTiles(c.box)
              /\ \A i \in FromCache(c, hits) : Fits(i, c.type, c.hours, held)
              /\ \A i \in Due(c.type, c.hours, held) :
                    TileOf(Place(i)) \in hits /\ ~cache[TileKey(c, TileOf(Place(i)))].val.partial
                    => i \in FromCache(c, hits)
<1> DEFINE hits == CachedTiles(c)
           held == OldestRead(c, hits)
<1>1. held \in Nat /\ \A u \in hits : cache[TileKey(c, u)].held \in Nat /\ cache[TileKey(c, u)].held <= held
  BY OldestReadFacts
<1>2. hits \subseteq FirstTiles(c.box)  BY DEF CachedTiles
<1>3. load \in Loads  BY DEF ServeInv
<1>4. ASSUME NEW u \in hits
      PROVE  /\ \A i \in cache[TileKey(c, u)].val.ids : Fits(i, c.type, c.hours, held)
             /\ ~cache[TileKey(c, u)].val.partial =>
                   \A i \in Due(c.type, c.hours, held) :
                      TileOf(Place(i)) = u => i \in cache[TileKey(c, u)].val.ids
  <2> DEFINE k == TileKey(c, u)
             n == cache[k].held
  <2>1. k \in DOMAIN cache /\ k.view = "tile" /\ k.hours = c.hours /\ k.type = c.type /\ k.tile = u
    BY <1>4 DEF CachedTiles, TileKey
  <2>2. TileOk(k, cache[k])  BY <2>1 DEF MapInv
  <2>3. n \in Nat /\ n <= held  BY <1>1
  <2> HIDE DEF n, k, held, hits
  <2>4. /\ \A i : Fits(i, c.type, c.hours, n) => Fits(i, c.type, c.hours, held)
        /\ Due(c.type, c.hours, held) \subseteq Due(c.type, c.hours, n)
    BY <1>1, <1>3, <2>3, Longer
  <2>5. /\ \A i \in cache[k].val.ids : Fits(i, c.type, c.hours, n)
        /\ ~cache[k].val.partial => \A i \in Due(c.type, c.hours, n) : TileOf(Place(i)) = u => i \in cache[k].val.ids
    BY <2>1, <2>2 DEF TileOk, n
  <2>6. QED BY <2>4, <2>5 DEF k
<1> HIDE DEF hits, held
<1>5. \A i : i \in FromCache(c, hits) <=> \E u \in hits : i \in cache[TileKey(c, u)].val.ids
  BY DEF FromCache
<1>6. \A i \in FromCache(c, hits) : Fits(i, c.type, c.hours, held)  BY <1>4, <1>5
<1>7. ASSUME NEW i \in Due(c.type, c.hours, held), TileOf(Place(i)) \in hits,
             ~cache[TileKey(c, TileOf(Place(i)))].val.partial
      PROVE  i \in FromCache(c, hits)
  BY <1>4, <1>5, <1>7
<1>8. QED BY <1>2, <1>6, <1>7 DEF hits, held

LEMMA LookupMaps ==
    ASSUME ServeInv, DataInv, MapInv, NEW t \in Workers, LookupTiles(t)
    PROVE  MapInv'
<1> DEFINE c == Doing(t)
           hits == CachedTiles(c)
           missing == FirstTiles(c.box) \ hits
           partial == {u \in hits : cache[TileKey(c, u)].val.partial}
           ids == FromCache(c, hits)
           held == OldestRead(c, hits)
           val == [ids |-> ids, missing |-> missing, partial |-> partial]
           e1 == [th[t] EXCEPT !.pc = "answer", !.val = MapAnswer(c, ids, {}, partial), !.held = held]
           e2 == [th[t] EXCEPT !.pc = "query", !.held = held, !.val = val]
<1>1. /\ th[t].pc = "look" /\ AtView(t, "map") /\ load' = load /\ log' = log /\ cache' = cache
      /\ \/ missing = {} /\ Move(t, e1)
         \/ Move(t, e2)
  BY DEF LookupTiles, Answer, database
<1>2. /\ load \in Loads /\ DOMAIN th[t] = Fields /\ c = Head(th[t].todo) /\ c.view = "map"
      /\ c.limit \in Nat /\ c.hours \in Nat
  BY <1>1, MapCall
<1>3. held \in Nat  BY OldestReadFacts
<1>4. /\ hits \subseteq FirstTiles(c.box)
      /\ \A i \in ids : Fits(i, c.type, c.hours, held)
      /\ \A i \in Due(c.type, c.hours, held) : TileOf(Place(i)) \in hits \ partial => i \in ids
  BY <1>2, HitFacts
<1>5. val.ids = ids /\ val.missing = missing /\ val.partial = partial  OBVIOUS
<1>6. \A u \in FirstTiles(c.box) : u \in hits \/ u \in missing  OBVIOUS
<1> HIDE DEF c, hits, missing, partial, ids, held, val
<1>7. \A k \in DOMAIN cache' : k.view = "tile" => TileOk(k, cache'[k])  BY <1>1 DEF MapInv
<1>8. CASE missing = {} /\ Move(t, e1)
  <2>1. Answered(c, MapAnswer(c, ids, {}, partial), held)
    <3>1. \A i \in Due(c.type, c.hours, held) :
             InBox(Place(i), c.box) /\ TileOf(Place(i)) \in FirstTiles(c.box) /\ TileOf(Place(i)) \notin partial
             => i \in ids
      BY <1>4, <1>6, <1>8
    <3>2. QED BY <1>2, <1>3, <1>4, <3>1, AnswerMap
  <2> DEFINE v == MapAnswer(c, ids, {}, partial)
  <2> HIDE DEF v
  <2>2. e1.pc = "answer" /\ e1.todo = th[t].todo /\ e1.val = v /\ e1.held = held
    BY <1>2 DEF Fields, v
  <2> HIDE DEF e1
  <2>3. MapOk(e1)  BY <1>2, <2>1, <2>2 DEF MapOk, v
  <2>4. QED BY <1>1, <1>7, <1>8, <2>3, MapMoves
<1>9. CASE Move(t, e2)
  <2>1. Gathered(c, val, held)  BY <1>4, <1>5, <1>6 DEF Gathered
  <2>2. e2.pc = "query" /\ e2.todo = th[t].todo /\ e2.val = val /\ e2.held = held
    BY <1>2 DEF Fields
  <2> HIDE DEF e2
  <2>3. MapOk(e2)  BY <1>2, <2>1, <2>2 DEF MapOk
  <2>4. QED BY <1>1, <1>7, <1>9, <2>3, MapMoves
<1>10. QED BY <1>1, <1>8, <1>9

LEMMA QueryMaps ==
    ASSUME ServeInv, DataInv, MapInv, NEW t \in Workers, QueryTiles(t)
    PROVE  MapInv'
<1> DEFINE c == Doing(t)
           rows == QueryBox(c.box, c.hours, c.type)
           cut == Cardinality(BoxRows(c.box, c.hours, c.type)) > MaxRows
           v == th[t].val
           val == [ids |-> v.ids, missing |-> v.missing, partial |-> v.partial, rows |-> rows,
                   cut |-> cut, age |-> 0]
           e == [th[t] EXCEPT !.pc = "keep", !.val = val]
<1>1. /\ th[t].pc = "query" /\ AtView(t, "map") /\ load' = load /\ log' = log /\ cache' = cache
      /\ Move(t, e)
  BY DEF QueryTiles, database
<1>2. /\ load \in Loads /\ DOMAIN th[t] = Fields /\ c = Head(th[t].todo) /\ c.view = "map"
      /\ c.hours \in Nat /\ th[t].held \in Nat
  BY <1>1, MapCall
<1>3. Gathered(c, v, th[t].held)  BY <1>1, <1>2 DEF MapInv, MapOk
<1>4. /\ \A i \in rows : Fits(i, c.type, c.hours, 0)
      /\ ~cut => \A i \in Due(c.type, c.hours, 0) : InBox(Place(i), c.box) => i \in rows
  BY <1>2, QueryBoxFacts
<1> HIDE DEF c, rows, cut
<1>5. /\ DOMAIN val = RowFields /\ val.ids = v.ids /\ val.missing = v.missing /\ val.partial = v.partial
      /\ val.rows = rows /\ val.cut = cut /\ val.age = 0
  BY DEF RowFields
<1> HIDE DEF val, v
<1>6. Gathered(c, val, th[t].held)  BY <1>3, <1>5 DEF Gathered
<1>7. Fetched(c, val, th[t].held)  BY <1>2, <1>4, <1>5 DEF Fetched
<1>8. e.pc = "keep" /\ e.todo = th[t].todo /\ e.val = val /\ e.held = th[t].held
  BY <1>2 DEF Fields
<1> HIDE DEF e
<1>9. MapOk(e)  BY <1>2, <1>6, <1>7, <1>8 DEF MapOk
<1>10. \A k \in DOMAIN cache' : k.view = "tile" => TileOk(k, cache'[k])  BY <1>1 DEF MapInv
<1>11. QED BY <1>1, <1>9, <1>10, MapMoves

LEMMA KeepTilesMaps ==
    ASSUME ServeInv, DataInv, MapInv, NEW t \in Workers, KeepTiles(t)
    PROVE  MapInv'
<1> DEFINE c == Doing(t)
           v == th[t].val
           held == th[t].held
           Bucketed(u) == [ids |-> {i \in v.rows : TileOf(Place(i)) = u}, partial |-> v.cut \/ ~Whole(u, c.box)]
           keys == {TileKey(c, u) : u \in v.missing}
           ids == v.ids \cup v.rows
           partial == v.partial \cup (IF v.cut THEN v.missing ELSE {})
           answer == MapAnswer(c, ids, v.missing, partial)
           e == [th[t] EXCEPT !.pc = "answer", !.val = answer, !.held = held]
<1>1. /\ th[t].pc = "keep" /\ AtView(t, "map") /\ load' = load /\ log' = log
      /\ \/ cache' = Put([k \in keys |-> Entry(k, Bucketed(k.tile), v.age)])
         \/ cache' = cache
      /\ Move(t, e)
  BY DEF KeepTiles, Answer, database
<1>2. /\ load \in Loads /\ DOMAIN th[t] = Fields /\ c = Head(th[t].todo) /\ c.view = "map"
      /\ c.limit \in Nat /\ c.hours \in Nat /\ c.hours * Hour < load.oldest /\ held \in Nat
  BY <1>1, MapCall
<1>3. Gathered(c, v, held) /\ Fetched(c, v, held)  BY <1>1, <1>2 DEF MapInv, MapOk
<1>4. v.age \in Nat
  <2>1. WorkerOk(th[t])  BY DEF ServeInv
  <2>2. QED BY <1>1, <1>2, <2>1 DEF WorkerOk, WorkerFresh
<1>5. v.age <= held  BY <1>3 DEF Fetched
<1> HIDE DEF c, v, held, Bucketed
<1>6. /\ \A i : Fits(i, c.type, c.hours, v.age) => Fits(i, c.type, c.hours, held)
      /\ Due(c.type, c.hours, held) \subseteq Due(c.type, c.hours, v.age)
  BY <1>2, <1>4, <1>5, Longer
<1>7. \A i \in ids : Fits(i, c.type, c.hours, held)  BY <1>3, <1>6 DEF Gathered, Fetched
<1>8. ASSUME NEW i \in Due(c.type, c.hours, held), InBox(Place(i), c.box),
             TileOf(Place(i)) \in FirstTiles(c.box), TileOf(Place(i)) \notin partial
      PROVE  i \in ids
  <2>1. CASE TileOf(Place(i)) \in v.missing
    <3>1. ~v.cut  BY <1>8, <2>1
    <3>2. i \in v.rows  BY <1>3, <1>6, <1>8, <3>1 DEF Fetched
    <3>3. QED BY <3>2
  <2>2. CASE TileOf(Place(i)) \notin v.missing
    <3>1. TileOf(Place(i)) \notin v.partial  BY <1>8
    <3>2. i \in v.ids  BY <1>3, <1>8, <2>2, <3>1 DEF Gathered
    <3>3. QED BY <3>2
  <2>3. QED BY <2>1, <2>2
<1> HIDE DEF ids, partial
<1>9. Answered(c, MapAnswer(c, ids, v.missing, partial), held)
  BY <1>2, <1>7, <1>8, AnswerMap
<1> HIDE DEF answer
<1>10. e.pc = "answer" /\ e.todo = th[t].todo /\ e.val = answer /\ e.held = held
  BY <1>2 DEF Fields
<1> HIDE DEF e
<1>11. MapOk(e)  BY <1>2, <1>9, <1>10 DEF MapOk, answer
<1>12. ASSUME NEW u \in v.missing
       PROVE  TileOk(TileKey(c, u), Entry(TileKey(c, u), Bucketed(TileKey(c, u).tile), v.age))
  <2> DEFINE k == TileKey(c, u)
             b == Bucketed(u)
             entry == Entry(k, b, v.age)
  <2>1. k.hours = c.hours /\ k.type = c.type /\ k.tile = u  BY DEF TileKey
  <2>2. b.ids = {i \in v.rows : TileOf(Place(i)) = u} /\ b.partial = (v.cut \/ ~Whole(u, c.box))
    BY DEF Bucketed
  <2>3. entry.val = b /\ entry.held = v.age  BY DEF Entry
  <2> HIDE DEF k, b, entry
  <2>4. \A i \in b.ids : Fits(i, c.type, c.hours, v.age)  BY <1>3, <2>2 DEF Fetched
  <2>5. ASSUME ~b.partial, NEW i \in Due(c.type, c.hours, v.age), TileOf(Place(i)) = u
        PROVE  i \in b.ids
    <3>1. ~v.cut /\ Whole(u, c.box)  BY <2>2, <2>5
    <3>2. i \in Located(c.hours, c.type)  BY <2>5 DEF Due, PerCall
    <3>3. i \in Packets /\ Place(i) # None  BY <3>2 DEF Located, Raw
    <3>4. Place(i).lat \in Int /\ Place(i).lon \in Int  BY <1>2, <3>3, LogFacts
    <3>5. InBox(Place(i), c.box)  BY <2>5, <3>1, <3>4, WholeTile
    <3>6. i \in v.rows  BY <1>3, <2>5, <3>1, <3>5 DEF Fetched
    <3>7. QED BY <2>2, <2>5, <3>6
  <2>6. TileOk(k, entry)  BY <1>2, <2>1, <2>3, <2>4, <2>5 DEF TileOk
  <2>7. QED BY <2>1, <2>6 DEF k, b, entry
<1>13. \A k \in keys : TileOk(k, Entry(k, Bucketed(k.tile), v.age))  BY <1>12
<1> HIDE DEF keys
<1>14. \A k \in DOMAIN cache' : k.view = "tile" => TileOk(k, cache'[k])
  <2>1. CASE cache' = cache  BY <2>1 DEF MapInv
  <2>2. CASE cache' = Put([k \in keys |-> Entry(k, Bucketed(k.tile), v.age)])
    <3>1. DOMAIN cache' = DOMAIN cache \cup keys
          /\ \A k \in DOMAIN cache' :
                cache'[k] = IF k \in keys THEN Entry(k, Bucketed(k.tile), v.age) ELSE cache[k]
      BY <2>2 DEF Put
    <3>2. QED BY <1>13, <3>1 DEF MapInv
  <2>3. QED BY <1>1, <2>1, <2>2
<1>15. QED BY <1>1, <1>11, <1>14, MapMoves

-----------------------------------------------------------------------------
(* The environment                                                         *)

(* Packets come, and time passes: held is what it was, and d more. *)
Passing(d) ==
    /\ d \in {0, 1} /\ load' = load
    /\ \A type : \A hours, held \in Nat : hours * Hour < load.oldest =>
          /\ \A i : Fits(i, type, hours, held) => Fits(i, type, hours, held + d)'
          /\ Due(type, hours, held + d)' \subseteq Due(type, hours, held)
    /\ \A i \in Packets : Place(i)' = Place(i)

LEMMA PassingFacts ==
    ASSUME load \in Loads, DataInv
    PROVE  /\ Tick => Passing(1)
           /\ Receive => Passing(0)
<1>1. ASSUME Tick PROVE Passing(1)
  <2>1. \A i \in Packets : Place(i)' = Place(i)  BY <1>1, TickData DEF Place
  <2>2. load' = load  BY <1>1 DEF Tick
  <2>3. QED BY <1>1, <2>1, <2>2, Ages DEF Passing
<1>2. ASSUME Receive PROVE Passing(0)
  <2>1. \A i \in Packets : Place(i)' = Place(i)  BY <1>2, ReceiveData DEF Place
  <2>2. load' = load  BY <1>2 DEF Receive
  <2>3. \A held \in Nat : held + 0 = held  OBVIOUS
  <2>4. QED BY <1>2, <2>1, <2>2, <2>3, Arrives DEF Passing
<1>3. QED BY <1>1, <1>2

LEMMA TilePasses ==
    ASSUME load \in Loads, DataInv, NEW d, Passing(d), NEW k, NEW e, TileOk(k, e), e.held \in Nat,
           NEW f, f.val = e.val, f.held = e.held + d
    PROVE  TileOk(k, f)'
<1>1. k.hours \in Nat /\ k.hours * Hour < load.oldest  BY DEF TileOk
<1>2. /\ \A i : Fits(i, k.type, k.hours, e.held) => Fits(i, k.type, k.hours, f.held)'
      /\ Due(k.type, k.hours, f.held)' \subseteq Due(k.type, k.hours, e.held)
      /\ \A i \in Packets : Place(i)' = Place(i)
      /\ load' = load
  BY <1>1 DEF Passing
<1>3. \A i \in Due(k.type, k.hours, e.held) : i \in Packets  BY DEF Due, PerCall, Located, Raw
<1> HIDE DEF Fits, Due, Packets, Place
<1>4. \A i \in f.val.ids : Fits(i, k.type, k.hours, f.held)'  BY <1>2 DEF TileOk
<1>5. ~f.val.partial => \A i \in Due(k.type, k.hours, f.held)' : TileOf(Place(i)') = k.tile => i \in f.val.ids
  BY <1>2, <1>3 DEF TileOk
<1>6. QED BY <1>1, <1>2, <1>4, <1>5 DEF TileOk

LEMMA MapPasses ==
    ASSUME load \in Loads, DataInv, NEW d, Passing(d), NEW e, MapOk(e), e.held \in Nat,
           e.pc \in {"query", "keep", "answer"} /\ Head(e.todo).view = "map" =>
              Head(e.todo).hours \in Nat /\ Head(e.todo).hours * Hour < load.oldest,
           NEW f, f.pc = e.pc, f.todo = e.todo, f.held = e.held + d,
           e.pc # "keep" => f.val = e.val,
           e.pc = "keep" /\ Head(e.todo).view = "map" =>
              /\ e.val.age \in Nat /\ f.val.age = e.val.age + d /\ DOMAIN f.val = DOMAIN e.val
              /\ f.val.ids = e.val.ids /\ f.val.missing = e.val.missing /\ f.val.partial = e.val.partial
              /\ f.val.rows = e.val.rows /\ f.val.cut = e.val.cut
    PROVE  MapOk(f)'
<1> DEFINE c == Head(e.todo)
<1> SUFFICES ASSUME e.pc \in {"query", "keep", "answer"}, c.view = "map" PROVE MapOk(f)'
  BY DEF MapOk
<1>1. c.hours \in Nat /\ c.hours * Hour < load.oldest /\ c = Head(f.todo) /\ d \in {0, 1}
  BY DEF Passing
<1> HIDE DEF c
<1>2. \A held \in Nat :
         /\ \A i : Fits(i, c.type, c.hours, held) => Fits(i, c.type, c.hours, held + d)'
         /\ Due(c.type, c.hours, held + d)' \subseteq Due(c.type, c.hours, held)
  BY <1>1 DEF Passing
<1>3. /\ \A i : Fits(i, c.type, c.hours, e.held) => Fits(i, c.type, c.hours, f.held)'
      /\ Due(c.type, c.hours, f.held)' \subseteq Due(c.type, c.hours, e.held)
  BY <1>2
<1>4. \A i \in Packets : Place(i)' = Place(i)  BY DEF Passing
<1>5. \A held, i : i \in Due(c.type, c.hours, held) => i \in Packets  BY DEF Due, PerCall, Located, Raw
<1>6. \A held, i : Fits(i, c.type, c.hours, held) => i \in Packets  BY DEF Fits
<1> HIDE DEF Fits, Due, Packets, Place
<1>7. ASSUME e.pc \in {"query", "keep"}
      PROVE  Gathered(c, f.val, f.held)'
  <2>1. Gathered(c, e.val, e.held)  BY <1>7 DEF MapOk, c
  <2>2. f.val.ids = e.val.ids /\ f.val.missing = e.val.missing /\ f.val.partial = e.val.partial
    BY <1>7 DEF c
  <2>3. \A i \in f.val.ids : Fits(i, c.type, c.hours, f.held)'  BY <1>3, <2>1, <2>2 DEF Gathered
  <2>4. \A i \in Due(c.type, c.hours, f.held)' :
           /\ InBox(Place(i)', c.box) /\ TileOf(Place(i)') \in FirstTiles(c.box)
           /\ TileOf(Place(i)') \notin f.val.missing /\ TileOf(Place(i)') \notin f.val.partial
           => i \in f.val.ids
    BY <1>3, <1>4, <1>5, <2>1, <2>2 DEF Gathered
  <2>5. QED BY <2>3, <2>4 DEF Gathered
<1>8. ASSUME e.pc = "keep"
      PROVE  Fetched(c, f.val, f.held)'
  <2> DEFINE a == e.val
             b == f.val
  <2>1. Fetched(c, a, e.held)  BY <1>8 DEF MapOk, c
  <2>2. a.age \in Nat /\ b.age = a.age + d /\ DOMAIN b = DOMAIN a /\ b.rows = a.rows /\ b.cut = a.cut
    BY <1>8 DEF c
  <2> HIDE DEF a, b
  <2>3. DOMAIN a = RowFields /\ a.age <= e.held  BY <2>1 DEF Fetched
  <2>4. b.age <= f.held  BY <1>1, <2>2, <2>3
  <2>5. /\ \A i : Fits(i, c.type, c.hours, a.age) => Fits(i, c.type, c.hours, b.age)'
        /\ Due(c.type, c.hours, b.age)' \subseteq Due(c.type, c.hours, a.age)
    BY <1>2, <2>2
  <2>6. \A i \in b.rows : Fits(i, c.type, c.hours, b.age)'  BY <2>1, <2>2, <2>5 DEF Fetched
  <2>7. ~b.cut => \A i \in Due(c.type, c.hours, b.age)' : InBox(Place(i)', c.box) => i \in b.rows
    BY <1>4, <1>5, <2>1, <2>2, <2>5 DEF Fetched
  <2>8. Fetched(c, b, f.held)'  BY <2>2, <2>3, <2>4, <2>6, <2>7 DEF Fetched
  <2>9. QED BY <2>8 DEF b
<1>9. ASSUME e.pc = "answer"
      PROVE  Answered(c, f.val, f.held)'
  <2> DEFINE v == e.val
  <2>1. Answered(c, v, e.held) /\ f.val = v  BY <1>9 DEF MapOk, c
  <2> HIDE DEF v
  <2>2. \A i \in v.ids : Fits(i, c.type, c.hours, f.held)' /\ InBox(Place(i)', c.box)
    BY <1>3, <1>4, <1>6, <2>1 DEF Answered
  <2>3. \A i \in Due(c.type, c.hours, f.held)' :
           /\ InBox(Place(i)', c.box) /\ Place(i)'.lat # 0 /\ Place(i)'.lon # 0
           /\ i \notin v.ids /\ ~v.full
           => TileOf(Place(i)') \in v.partial \/ TileOf(Place(i)') \notin FirstTiles(c.box)
    BY <1>3, <1>4, <1>5, <2>1 DEF Answered
  <2>4. Answered(c, v, f.held)'  BY <2>2, <2>3 DEF Answered
  <2>5. QED BY <2>1, <2>4
<1>10. QED BY <1>1, <1>7, <1>8, <1>9 DEF MapOk

(* What a map has in hand, and how old it is *)
LEMMA HeldFacts ==
    ASSUME ServeInv, NEW t \in Workers
    PROVE  /\ th[t].held \in Nat /\ DOMAIN th[t] = Fields
           /\ th[t].pc \in {"query", "keep", "answer"} /\ Head(th[t].todo).view = "map" =>
                 /\ Head(th[t].todo).hours \in Nat
                 /\ Head(th[t].todo).hours * Hour < load.oldest
           /\ th[t].pc = "keep" /\ Head(th[t].todo).view = "map" =>
                 "age" \in DOMAIN th[t].val /\ th[t].val.age \in Nat
<1>1. WorkerTypes(th[t]) /\ WorkerFresh(th[t])  BY DEF ServeInv, WorkerOk
<1>2. th[t].held \in Nat /\ DOMAIN th[t] = Fields  BY <1>1 DEF WorkerTypes
<1>3. ASSUME th[t].pc \in {"query", "keep", "answer"}, Head(th[t].todo).view = "map"
      PROVE  Head(th[t].todo).hours \in Nat /\ Head(th[t].todo).hours * Hour < load.oldest
  BY <1>3, AtWork DEF IsCall
<1>4. th[t].pc = "keep" /\ Head(th[t].todo).view = "map" =>
                 "age" \in DOMAIN th[t].val /\ th[t].val.age \in Nat
  BY <1>1 DEF WorkerFresh
<1>5. QED BY <1>2, <1>3, <1>4

LEMMA ReceiveMaps ==
    ASSUME ServeInv, DataInv, MapInv, Receive
    PROVE  MapInv'
<1>1. load \in Loads /\ Passing(0) /\ th' = th /\ cache' = cache
  BY PassingFacts DEF ServeInv, Receive
<1>2. ASSUME NEW t \in Workers PROVE MapOk(th[t])'
  <2>1. MapOk(th[t])  BY DEF MapInv
  <2>2. th[t].held + 0 = th[t].held  BY HeldFacts
  <2>3. th[t].pc = "keep" /\ Head(th[t].todo).view = "map" =>
           th[t].val.age \in Nat /\ th[t].val.age = th[t].val.age + 0
    BY HeldFacts
  <2>4. th'[t] = th[t]  BY <1>1
  <2>5. QED BY <1>1, <2>1, <2>2, <2>3, <2>4, HeldFacts, MapPasses DEF DataInv
<1>3. ASSUME NEW k \in DOMAIN cache, k.view = "tile" PROVE TileOk(k, cache[k])'
  <2>1. TileOk(k, cache[k]) /\ EntryOk(k, cache[k])  BY <1>3 DEF MapInv, ServeInv
  <2>2. cache[k].held \in Nat /\ cache[k].held + 0 = cache[k].held  BY <2>1 DEF EntryOk
  <2>3. cache'[k] = cache[k]  BY <1>1
  <2>4. QED BY <1>1, <2>1, <2>2, <2>3, TilePasses
<1>4. QED BY <1>1, <1>2, <1>3 DEF MapInv

LEMMA TickMaps ==
    ASSUME ServeInv, DataInv, MapInv, Tick
    PROVE  MapInv'
<1>1. /\ \A t \in Workers : th[t].pc # "answer"
      /\ cache' = [k \in {j \in DOMAIN cache : cache[j].life > 1} |->
                   [cache[k] EXCEPT !.life = @ - 1, !.held = @ + 1]]
      /\ th' = [t \in Workers |-> Passed(th[t])]
  BY DEF Tick
<1>2. load \in Loads /\ Passing(1)  BY PassingFacts DEF ServeInv
<1>3. ASSUME NEW t \in Workers PROVE MapOk(th[t])'
  <2> DEFINE e == th[t]
             f == th'[t]
  <2>1. f = Passed(e) /\ DOMAIN e = Fields /\ e.held \in Nat /\ MapOk(e) /\ e.pc # "answer"
    BY <1>1, HeldFacts DEF MapInv
  <2>2. /\ e.pc \in {"query", "keep", "answer"} /\ Head(e.todo).view = "map" =>
              Head(e.todo).hours \in Nat /\ Head(e.todo).hours * Hour < load.oldest
        /\ e.pc = "keep" /\ Head(e.todo).view = "map" => "age" \in DOMAIN e.val /\ e.val.age \in Nat
    BY HeldFacts
  <2>3. e.pc = "keep" /\ Head(e.todo).view = "map" => DOMAIN e.val = RowFields
    BY <2>1 DEF MapOk, Fetched
  <2>4. CASE e.pc \in {"query", "keep"} /\ Head(e.todo).view = "map"
    <3> HIDE DEF e
    <3>1. /\ f.pc = e.pc /\ f.todo = e.todo /\ f.held = e.held + 1
          /\ e.pc = "query" => f.val = e.val
          /\ e.pc = "keep" => f.val = RowsLater(e.val)
      <4>1. f = Passed(e) /\ DOMAIN e = Fields /\ e.pc # "idle"  BY <2>1, <2>4
      <4>2. /\ Passed(e).pc = e.pc /\ Passed(e).todo = e.todo /\ Passed(e).held = e.held + 1
            /\ e.pc = "query" => Passed(e).val = e.val
            /\ e.pc = "keep" => Passed(e).val = RowsLater(e.val)
        BY <2>4, <4>1, PassedFields
      <4>3. QED BY <4>1, <4>2
    <3>2. e.pc = "keep" => /\ e.val.age \in Nat /\ f.val.age = e.val.age + 1 /\ DOMAIN f.val = DOMAIN e.val
                           /\ f.val.ids = e.val.ids /\ f.val.missing = e.val.missing
                           /\ f.val.partial = e.val.partial
                           /\ f.val.rows = e.val.rows /\ f.val.cut = e.val.cut
      <4>1. \A v : DOMAIN v = RowFields => /\ RowsLater(v).age = v.age + 1 /\ DOMAIN RowsLater(v) = DOMAIN v
                                           /\ RowsLater(v).ids = v.ids /\ RowsLater(v).missing = v.missing
                                           /\ RowsLater(v).partial = v.partial
                                           /\ RowsLater(v).rows = v.rows /\ RowsLater(v).cut = v.cut
        BY DEF RowsLater, RowFields
      <4>2. QED BY <2>2, <2>3, <2>4, <3>1, <4>1
    <3>3. /\ MapOk(e) /\ e.held \in Nat
          /\ e.pc \in {"query", "keep", "answer"} /\ Head(e.todo).view = "map" =>
                Head(e.todo).hours \in Nat /\ Head(e.todo).hours * Hour < load.oldest
          /\ e.pc # "keep" => f.val = e.val
      BY <2>1, <2>2, <2>4, <3>1
    <3>4. QED BY <1>2, <3>1, <3>2, <3>3, MapPasses
  <2>5. CASE ~(e.pc \in {"query", "keep"} /\ Head(e.todo).view = "map")
    <3>1. f.pc = e.pc /\ (e.pc # "idle" => f.todo = e.todo)
      <4>1. CASE e.pc = "idle"  BY <2>1, <4>1 DEF Passed
      <4>2. CASE e.pc # "idle"  BY <2>1, <4>2, PassedFields
      <4>3. QED BY <4>1, <4>2
    <3>2. QED BY <2>1, <2>5, <3>1 DEF MapOk
  <2>6. QED BY <2>4, <2>5
<1>4. ASSUME NEW k \in DOMAIN cache', k.view = "tile" PROVE TileOk(k, cache[k])'
  <2> DEFINE a == cache[k]
             b == cache'[k]
  <2>1. k \in DOMAIN cache /\ b = [a EXCEPT !.life = @ - 1, !.held = @ + 1]  BY <1>1, <1>4
  <2>2. TileOk(k, a) /\ EntryOk(k, a)  BY <1>4, <2>1 DEF MapInv, ServeInv
  <2>3. DOMAIN a = {"val", "life", "held"} /\ a.held \in Nat  BY <2>2 DEF EntryOk
  <2>4. b.val = a.val /\ b.held = a.held + 1  BY <2>1, <2>3
  <2>5. QED BY <1>2, <2>2, <2>3, <2>4, TilePasses
<1>5. QED BY <1>3, <1>4 DEF MapInv

LEMMA MapStays ==
    ASSUME MapInv, load' = load, log' = log, th' = th,
           \A k \in DOMAIN cache' : k \in DOMAIN cache /\ cache'[k] = cache[k]
    PROVE  MapInv'
<1>1. ASSUME NEW t \in Workers PROVE MapOk(th[t])'
  <2>1. MapOk(th'[t])  BY DEF MapInv
  <2>2. QED BY <2>1, SameLog
<1>2. ASSUME NEW k \in DOMAIN cache', k.view = "tile" PROVE TileOk(k, cache[k])'
  <2>1. TileOk(k, cache'[k])  BY <1>2 DEF MapInv
  <2>2. QED BY <2>1, SameLog
<1>3. QED BY <1>1, <1>2 DEF MapInv

LEMMA MapStep == ServeInv /\ DataInv /\ MapInv /\ [Next]_vars => MapInv'
<1>1. SUFFICES ASSUME ServeInv, DataInv, MapInv, [Next]_vars PROVE MapInv'
  OBVIOUS
<1>2. CASE UNCHANGED vars  BY <1>1, <1>2, MapStays DEF vars, database
<1>3. CASE \E t \in Workers : Step(t)
  <2>1. PICK t \in Workers : Step(t)  BY <1>3
  <2>2. QED BY <1>1, <2>1, PlainSteps, KeepMaps, LookupMaps, QueryMaps, KeepTilesMaps DEF Step
<1>4. CASE EndWarming \/ WarmingFails  BY <1>1, <1>4, WarmingMaps
<1>5. CASE Receive  BY <1>1, <1>5, ReceiveMaps
<1>6. CASE Report \/ Refresh
  <2>1. UNCHANGED <<load, log, cache, th>>  BY <1>6 DEF Report, Refresh
  <2>2. QED BY <1>1, <2>1, MapStays
<1>7. CASE Evict
  <2>1. UNCHANGED <<load, log, th>>  BY <1>7 DEF Evict, database
  <2>2. \A k \in DOMAIN cache' : k \in DOMAIN cache /\ cache'[k] = cache[k]  BY <1>7 DEF Evict
  <2>3. QED BY <1>1, <2>1, <2>2, MapStays
<1>8. CASE Tick  BY <1>1, <1>8, TickMaps
<1>9. QED BY <1>1, <1>2, <1>3, <1>4, <1>5, <1>6, <1>7, <1>8 DEF Next

LEMMA InitMaps == Init => MapInv
<1>1. SUFFICES ASSUME Init PROVE MapInv
  OBVIOUS
<1>2. \A t \in Workers : th[t].pc \in {"idle", "look"}  BY <1>1 DEF Init, Idle
<1>3. DOMAIN cache = {}  BY <1>1 DEF Init
<1>4. QED BY <1>2, <1>3 DEF MapInv, MapOk

(* The three invariants together: the requests, the tables and the tiles.  *)
THEOREM DashboardInvariant == Spec => [](ServeInv /\ DataInv /\ MapInv)
<1>1. Init => ServeInv /\ DataInv /\ MapInv  BY InitServes, InitData, InitMaps
<1>2. ServeInv /\ DataInv /\ MapInv /\ [Next]_vars => (ServeInv /\ DataInv /\ MapInv)'
  <2>1. ServeInv => load \in Loads  BY DEF ServeInv
  <2>2. QED BY <2>1, ServeInvStep, DataStep, MapStep
<1>3. QED BY <1>1, <1>2, PTL DEF Spec

(* The map shows only positions that were asked for, and lacks one only    *)
(* where a tile was cut or none was taken (queries.py,                     *)
(* get_map_stations_tiled, with tiles shared by all requests).             *)
THEOREM MapShowsWhatWasAsked == Spec => []MapAsAsked
<1>1. ServeInv /\ DataInv /\ MapInv => MapAsAsked
  <2>1. SUFFICES ASSUME ServeInv, MapInv, NEW t \in Threads, AnsweredMap(t)
                 PROVE  /\ \A i \in th[t].val.ids :
                               /\ InBox(Place(i), Doing(t).box)
                               /\ OfType(i, Doing(t).type)
                               /\ log[i].age <= Doing(t).hours * Hour + th[t].held
                        /\ \A i \in Gaps(t) : \/ TileOf(Place(i)) \in th[t].val.partial
                                              \/ TileOf(Place(i)) \notin FirstTiles(Doing(t).box)
    BY DEF MapAsAsked, MapShowsOnlyAsked, MapGapsExplained
  <2>2. t \in Workers /\ th[t].pc = "answer"  BY <2>1 DEF Workers, AnsweredMap
  <2>3. Doing(t) = Head(th[t].todo) /\ Doing(t).view = "map"  BY <2>1, <2>2, MapCall DEF AnsweredMap
  <2>4. Answered(Doing(t), th[t].val, th[t].held)  BY <2>1, <2>2, <2>3 DEF MapInv, MapOk
  <2>5. \A i \in Gaps(t) : i \in Due(Doing(t).type, Doing(t).hours, th[t].held)  BY DEF Gaps, Due
  <2>6. QED BY <2>4, <2>5 DEF Answered, Fits, Gaps
<1>2. QED BY <1>1, DashboardInvariant, PTL

-----------------------------------------------------------------------------
(* The charts                                                              *)

LEMMA QueryResult ==
    ASSUME ServeInv, [Next]_vars, NEW t \in Workers, th[t].pc = "query", th'[t].pc = "keep",
           AtView(t, "daily") \/ AtView(t, "hourly")
    PROVE  Query(t)
<1>1. DOMAIN th = Workers  BY DEF ServeInv
<1>2. \A u \in Workers : \A e : Move(u, e) => th'[t] = IF u = t THEN e ELSE th[t]
  BY <1>1 DEF Move
<1>3. CASE UNCHANGED vars  BY <1>3 DEF vars
<1>4. ASSUME NEW u \in Workers, Step(u)
      PROVE  Query(t)
  <2>1. \E e : Move(u, e)
    BY <1>4 DEF Step, Ask, Hit, Answer, Miss, Query, QueryCountry, CallTop, ReturnTop, Keep,
                LookupTiles, QueryTiles, KeepTiles, NextView, EndPage, QueryFails
  <2>2. u = t  BY <1>2, <2>1
  <2>3. Query(t) \/ QueryCountry(t) \/ QueryTiles(t) \/ QueryFails(t)
    BY <1>4, <2>2 DEF Step, Ask, Hit, Miss, ReturnTop, Keep, LookupTiles, KeepTiles, NextView, EndPage
  <2>4. ~QueryCountry(t) /\ ~QueryTiles(t)  BY DEF QueryCountry, QueryTiles, AtView
  <2>5. ~QueryFails(t)  BY <1>2 DEF QueryFails, Idle
  <2>6. QED BY <2>3, <2>4, <2>5
<1>5. CASE EndWarming \/ WarmingFails
  <2>1. Move(Warmer, Idle) /\ Warmer \in Workers /\ Idle.pc = "idle"
    BY <1>5 DEF EndWarming, WarmingFails, Workers, Idle
  <2> HIDE DEF Idle
  <2>2. QED BY <1>2, <2>1
<1>6. CASE Receive \/ Report \/ Refresh \/ Evict  BY <1>6 DEF Receive, Report, Refresh, Evict
<1>7. CASE Tick
  <2>1. th'[t] = Passed(th[t]) /\ DOMAIN th[t] = Fields  BY <1>7, HeldFacts DEF Tick
  <2> DEFINE w == th[t]
  <2>2. DOMAIN w = Fields /\ w.pc = "query"  BY <2>1
  <2> HIDE DEF w
  <2>3. Passed(w).pc = w.pc  BY <2>2, PassedFields
  <2>4. QED BY <2>1, <2>2, <2>3 DEF w
<1>8. QED BY <1>3, <1>4, <1>5, <1>6, <1>7 DEF Next

(* How long ago the bucket of a packet began *)
LEMMA BucketFacts ==
    ASSUME load \in Loads, DataInv, NEW i \in Packets
    PROVE  /\ SinceStart(i) \in Int /\ Bucket(i) \in Int
           /\ log[i].age <= SinceStart(i) /\ SinceStart(i) < log[i].age + Hour
<1>1. Hour \in Nat \ {0} /\ Day \in Nat /\ phase \in Nat /\ log[i].age \in Nat
  BY DayFacts, LogFacts DEF DataInv
<1> DEFINE x == phase - log[i].age
           b == x \div Hour
<1>2. x \in Int  BY <1>1
<1>3. b \in Int /\ b * Hour <= x /\ x < b * Hour + Hour  BY <1>1, <1>2, DivFacts
<1>4. Bucket(i) = b /\ SinceStart(i) = phase - b * Hour  BY DEF Bucket, SinceStart
<1> HIDE DEF b
<1> PICK p \in Int : p = b * Hour
  <2> PICK h \in Nat : h = Hour  BY <1>1
  <2>1. b * h \in Int  BY <1>3
  <2>2. QED BY <2>1
<1>5. QED BY <1>1, <1>3, <1>4

LEMMA WeekFacts ==
    ASSUME load \in Loads, DataInv, NEW i \in Packets, NEW ago \in 1 .. (WeekDays - 1),
           (phase - log[i].age) \div Day = 0 - ago
    PROVE  /\ log[i].age <= WeekDays * DayHours * Hour
           /\ SinceStart(i) <= WeekDays * DayHours * Hour
<1>1. /\ Hour \in Nat \ {0} /\ DayHours \in Nat \ {0} /\ WeekDays \in Nat \ {0}
      /\ Day \in Nat \ {0} /\ Day = DayHours * Hour
      /\ phase \in Nat /\ phase < Day /\ log[i].age \in Nat
  BY DayFacts, LogFacts, DashboardQueriesAssumption DEF DataInv, Day
<1> DEFINE x == phase - log[i].age
           b == x \div Hour
<1>2. x \in Int  BY <1>1
<1>3. b \in Int /\ b * Hour <= x /\ x < b * Hour + Hour  BY <1>1, <1>2, DivFacts
<1>4. (0 - ago) * Day <= x
  <2>1. (x \div Day) * Day <= x  BY <1>1, <1>2, DivFacts
  <2>2. QED BY <2>1
<1>5. SinceStart(i) = phase - b * Hour  BY DEF SinceStart, Bucket
<1> HIDE DEF b
<1> PICK H \in Nat \ {0} : H = Hour  BY <1>1
<1> PICK D \in Nat \ {0} : D = DayHours  BY <1>1
<1> PICK W \in Nat \ {0} : W = WeekDays  BY <1>1
<1> PICK a \in Nat \ {0} : a = ago  BY <1>1
<1> PICK B \in Int : B = b  BY <1>3
<1> PICK X \in Int : X = x  BY <1>2
<1>6. a + 1 <= W  BY <1>1
<1> PICK L \in Nat \ {0} : L = D * H  BY <1>1
<1>7. (0 - a) * L <= X /\ B * H <= X /\ X < B * H + H  BY <1>1, <1>3, <1>4
<1>8. (0 - a) * L = 0 - a * L  OBVIOUS
<1> PICK A \in Nat : A = a * L  OBVIOUS
<1>9. 0 - A <= X  BY <1>7, <1>8
<1>10. W * D * H = W * L
  <2>1. \A u, v, w \in Nat : u * v * w = u * (v * w)  OBVIOUS
  <2>2. W * D * H = W * (D * H)  BY <2>1
  <2>3. QED BY <2>2
<1>11. A + L <= W * L
  <2>1. \A u, v, w \in Nat : u + 1 <= v => u * w + w <= v * w  OBVIOUS
  <2>2. a * L + L <= W * L  BY <1>6, <2>1
  <2>3. QED BY <2>2
<1>12. log[i].age <= W * L
  <2>1. log[i].age = phase - X  BY <1>1
  <2>2. log[i].age < L + A  BY <1>1, <1>9, <2>1
  <2> PICK M \in Nat : M = W * L  OBVIOUS
  <2>3. QED BY <1>1, <1>11, <2>2
<1>13. 0 - A <= B * H
  <2>1. A = (a * D) * H
    <3>1. \A u, v, w \in Nat : u * (v * w) = (u * v) * w  OBVIOUS
    <3>2. QED BY <3>1
  <2> PICK c \in Nat : c = a * D  OBVIOUS
  <2>2. A = c * H  BY <2>1
  <2>3. 0 - c * H < B * H + H  BY <1>7, <1>9, <2>2
  <2>4. \A u, v \in Int : \A w \in Nat \ {0} : 0 - u * w < v * w + w => 0 - u * w <= v * w
    <3>1. ASSUME NEW u \in Int, NEW v \in Int, NEW w \in Nat \ {0}, 0 - u * w < v * w + w
          PROVE  0 - u * w <= v * w
      <4>1. 0 < (u + v + 1) * w
        <5>1. (u + v + 1) * w = u * w + v * w + w  OBVIOUS
        <5> PICK m \in Int : m = u * w  OBVIOUS
        <5> PICK n \in Int : n = v * w  OBVIOUS
        <5>2. QED BY <3>1, <5>1
      <4>2. u + v + 1 > 0
        <5>1. \A r \in Int : r <= 0 => r * w <= 0  OBVIOUS
        <5>2. QED BY <4>1, <5>1
      <4>3. (u + v) * w >= 0
        <5>1. \A r \in Int : r >= 0 => r * w >= 0  OBVIOUS
        <5>2. u + v >= 0  BY <4>2
        <5>3. QED BY <5>1, <5>2
      <4>4. (u + v) * w = u * w + v * w  OBVIOUS
      <4> PICK m \in Int : m = u * w  OBVIOUS
      <4> PICK n \in Int : n = v * w  OBVIOUS
      <4>5. QED BY <4>3, <4>4
    <3>2. QED BY <3>1
  <2>5. QED BY <2>2, <2>3, <2>4
<1>14. SinceStart(i) <= W * L
  <2> PICK p \in Int : p = B * H  OBVIOUS
  <2>1. SinceStart(i) = phase - p  BY <1>5
  <2> PICK M \in Nat : M = W * L  OBVIOUS
  <2>2. phase - p <= phase + A  BY <1>1, <1>13
  <2>3. phase + A < L + A  BY <1>1
  <2>4. QED BY <1>1, <1>11, <2>1, <2>2, <2>3
<1>15. QED BY <1>10, <1>12, <1>14

(* The packets that the charts count *)
Source == IF load.aggregates THEN aggregated["stats"] ELSE Packets

LEMMA SourceFacts ==
    ASSUME load \in Loads, DataInv
    PROVE  Source \subseteq Packets /\ IsFiniteSet(Packets)
<1>1. Packets = 1 .. Len(log) /\ Len(log) \in Nat  BY LogFacts
<1>2. IsFiniteSet(1 .. Len(log))  BY <1>1, FS_Interval
<1>3. aggregated["stats"] \subseteq Packets  BY DEF DataInv, Views
<1>4. QED BY <1>1, <1>2, <1>3 DEF Source

LEMMA DailyFacts ==
    ASSUME load \in Loads, DataInv, NEW ago \in 1 .. (WeekDays - 1)
    PROVE  DailyPackets[ago] = Cardinality(OfDay(Source, ago))
<1>1. WeekDays \in Nat \ {0}  BY DashboardQueriesAssumption
<1>2. ago \in 0 .. (WeekDays - 1)  BY <1>1
<1>3. ASSUME NEW S, S \subseteq Source,
             \A i \in Source : (phase - log[i].age) \div Day = 0 - ago => i \in S
      PROVE  Bars(S)[ago] = Cardinality(OfDay(Source, ago))
  <2>1. OfDay(S, ago) = OfDay(Source, ago)  BY <1>3 DEF OfDay
  <2>2. QED BY <1>2, <2>1 DEF Bars
<1>4. \A i \in Source : (phase - log[i].age) \div Day = 0 - ago =>
         log[i].age <= WeekDays * DayHours * Hour /\ SinceStart(i) <= WeekDays * DayHours * Hour
  BY SourceFacts, WeekFacts
<1>5. CASE load.aggregates
  <2> DEFINE S == Materialized("stats", WeekDays * DayHours)
  <2>1. Source = aggregated["stats"]  BY <1>5 DEF Source
  <2>2. S = {i \in Source : SinceStart(i) <= WeekDays * DayHours * Hour}
    BY <2>1 DEF Materialized
  <2>3. DailyPackets = Bars(S)  BY <1>5 DEF DailyPackets, DailyFromAggregates
  <2> HIDE DEF S
  <2>4. S \subseteq Source /\ \A i \in Source : (phase - log[i].age) \div Day = 0 - ago => i \in S
    BY <1>4, <2>2
  <2>5. QED BY <1>3, <2>3, <2>4
<1>6. CASE ~load.aggregates
  <2> DEFINE S == Raw(WeekDays * DayHours)
  <2>1. Source = Packets  BY <1>6 DEF Source
  <2>2. S = {i \in Source : log[i].age <= WeekDays * DayHours * Hour}
    BY <2>1 DEF Raw
  <2>3. DailyPackets = Bars(S)  BY <1>6 DEF DailyPackets, DailyFromRaw
  <2> HIDE DEF S
  <2>4. S \subseteq Source /\ \A i \in Source : (phase - log[i].age) \div Day = 0 - ago => i \in S
    BY <1>4, <2>2
  <2>5. QED BY <1>3, <2>3, <2>4
<1>7. QED BY <1>5, <1>6

Within(h, age) == {i \in Source : log[i].age <= age /\ HourOf(i) = h}

LEMMA HourlyFacts ==
    ASSUME load \in Loads, DataInv, NEW h \in 0 .. (DayHours - 1)
    PROVE  /\ HourlyDistribution[h] >= Cardinality(Within(h, Day))
           /\ HourlyDistribution[h] <= Cardinality(Within(h, Day + Hour - 1))
<1>1. Day \in Nat \ {0} /\ Hour \in Nat \ {0} /\ DayHours * Hour = Day  BY DayFacts DEF Day
<1>2. Source \subseteq Packets /\ IsFiniteSet(Packets)  BY SourceFacts
<1>3. \A i \in Packets : log[i].age \in Nat  BY LogFacts
<1>4. \A i \in Packets : /\ SinceStart(i) \in Int /\ log[i].age <= SinceStart(i)
                         /\ SinceStart(i) < log[i].age + Hour
  BY BucketFacts
<1>5. ASSUME NEW S, S \subseteq Source,
             \A i \in Source : log[i].age <= Day => i \in S,
             \A i \in S : log[i].age <= Day + Hour - 1
      PROVE  /\ ByHour(S)[h] >= Cardinality(Within(h, Day))
             /\ ByHour(S)[h] <= Cardinality(Within(h, Day + Hour - 1))
  <2> DEFINE bar == {i \in S : HourOf(i) = h}
  <2>1. ByHour(S)[h] = Cardinality(bar)  BY DEF ByHour
  <2>2. Within(h, Day) \subseteq bar /\ bar \subseteq Within(h, Day + Hour - 1)
    BY <1>5 DEF Within
  <2>3. bar \subseteq Packets /\ Within(h, Day + Hour - 1) \subseteq Packets
    BY <1>2, <1>5 DEF Within
  <2> HIDE DEF bar
  <2>4. IsFiniteSet(bar) /\ IsFiniteSet(Within(h, Day + Hour - 1))  BY <1>2, <2>3, FS_Subset
  <2>5. Cardinality(Within(h, Day)) <= Cardinality(bar)
        /\ Cardinality(bar) <= Cardinality(Within(h, Day + Hour - 1))
    BY <2>2, <2>4, FS_Subset
  <2>6. Cardinality(Within(h, Day)) \in Nat /\ Cardinality(bar) \in Nat
    BY <2>2, <2>4, FS_Subset, FS_CardinalityType
  <2>7. QED BY <2>1, <2>5, <2>6
<1>6. CASE load.aggregates
  <2> DEFINE S == {i \in aggregated["stats"] : SinceStart(i) - Hour < Day}
  <2>1. S = {i \in Source : SinceStart(i) - Hour < Day}  BY <1>6 DEF Source
  <2>2. HourlyDistribution = ByHour(S)  BY <1>6 DEF HourlyDistribution, HourlyFromAggregates
  <2> HIDE DEF S
  <2>3. \A i \in Source : log[i].age <= Day => SinceStart(i) - Hour < Day
    BY <1>1, <1>2, <1>3, <1>4
  <2>4. \A i \in Source : SinceStart(i) - Hour < Day => log[i].age <= Day + Hour - 1
    BY <1>1, <1>2, <1>3, <1>4
  <2>5. QED BY <1>5, <2>1, <2>2, <2>3, <2>4
<1>7. CASE ~load.aggregates
  <2> DEFINE S == Raw(DayHours)
  <2>1. S = {i \in Source : log[i].age <= Day}  BY <1>1, <1>7 DEF Source, Raw
  <2>2. HourlyDistribution = ByHour(S)  BY <1>7 DEF HourlyDistribution, HourlyFromRaw
  <2> HIDE DEF S
  <2>3. \A i \in Source : log[i].age <= Day => log[i].age <= Day + Hour - 1
    BY <1>1, <1>2, <1>3
  <2>4. QED BY <1>5, <2>1, <2>2, <2>3
<1>8. QED BY <1>6, <1>7

(* The charts lose nothing at the edge of their window: whole days, and    *)
(* the whole of the last 24 hours (queries.py, get_daily_packet_counts and *)
(* get_hourly_distribution).                                               *)
THEOREM BarsAreWhole == Spec => BarsWhole
<1> DEFINE Whole7 ==
              \A t \in Workers : th[t].pc = "query" /\ th'[t].pc = "keep" =>
                 /\ AtView(t, "daily") =>
                       \A ago \in 1 .. (WeekDays - 1) : th'[t].val[ago] = Cardinality(OfDay(Source, ago))
                 /\ AtView(t, "hourly") =>
                       \A h \in 0 .. (DayHours - 1) :
                          /\ th'[t].val[h] >= Cardinality(Within(h, Day))
                          /\ th'[t].val[h] <= Cardinality(Within(h, Day + Hour - 1))
<1>1. ASSUME ServeInv, DataInv, [Next]_vars, NEW t \in Workers, th[t].pc = "query", th'[t].pc = "keep"
      PROVE  /\ AtView(t, "daily") =>
                   \A ago \in 1 .. (WeekDays - 1) : th'[t].val[ago] = Cardinality(OfDay(Source, ago))
             /\ AtView(t, "hourly") =>
                   \A h \in 0 .. (DayHours - 1) :
                      /\ th'[t].val[h] >= Cardinality(Within(h, Day))
                      /\ th'[t].val[h] <= Cardinality(Within(h, Day + Hour - 1))
  <2>1. load \in Loads /\ DOMAIN th = Workers  BY <1>1 DEF ServeInv
  <2>2. DOMAIN th[t] = Fields  BY <1>1, HeldFacts
  <2>3. ASSUME AtView(t, "daily") \/ AtView(t, "hourly")
        PROVE  th'[t].val = Result(Doing(t))
    <3>1. Query(t)  BY <1>1, <2>3, QueryResult
    <3> DEFINE r == Result(Doing(t))
               e == [th[t] EXCEPT !.pc = "keep", !.val = r, !.held = 0]
    <3>2. Move(t, e)  BY <3>1 DEF Query
    <3> HIDE DEF r
    <3>3. e.val = r  BY <2>2 DEF Fields
    <3> HIDE DEF e
    <3>4. th'[t] = e  BY <2>1, <3>2 DEF Move
    <3>5. QED BY <3>3, <3>4 DEF r
  <2>4. AtView(t, "daily") => Result(Doing(t)) = DailyPackets  BY DEF AtView, Result
  <2>5. AtView(t, "hourly") => Result(Doing(t)) = HourlyDistribution  BY DEF AtView, Result
  <2>6. QED BY <1>1, <2>1, <2>3, <2>4, <2>5, DailyFacts, HourlyFacts
<1>2. ServeInv /\ DataInv /\ [Next]_vars => Whole7  BY <1>1
<1>3. Whole7 =>
        \A t \in Workers : th[t].pc = "query" /\ th'[t].pc = "keep" =>
          LET bars == th'[t].val
              source == IF load.aggregates THEN aggregated["stats"] ELSE Packets
              Inside(h, age) == Cardinality({i \in source : log[i].age <= age /\ HourOf(i) = h})
          IN /\ AtView(t, "daily") =>
                  \A ago \in 1..(WeekDays - 1) : bars[ago] = Cardinality(OfDay(source, ago))
             /\ AtView(t, "hourly") =>
                  \A h \in 0..(DayHours - 1) :
                      bars[h] >= Inside(h, Day) /\ bars[h] <= Inside(h, Day + Hour - 1)
  BY DEF Source, Within
<1> HIDE DEF Whole7
<1>4. QED BY <1>2, <1>3, DashboardInvariant, PTL DEF Spec, BarsWhole

-----------------------------------------------------------------------------
(* The live feed                                                           *)

Locations == [call : {call.base : call \in Range(CallOrder)}, country : RowCountries]
Showings == [packet : aprs_packet, country : RowCountries \cup {NoCountry}]

FeedTypes ==
    /\ received_at \in Arrivals
    /\ aprs_packet \subseteq Rows /\ IsFiniteSet(aprs_packet)
    /\ last_packet_time \in Nat
    /\ emitted \in Seq(Showings) /\ warmed_after \in 0 .. Len(emitted)
    /\ feed \in [Browsers -> Seq(Rows)]
    /\ rooms \in [Browsers -> SUBSET ({"own", "live_feed"} \cup RowCountries)]

(* A browser in the room of a country has left the feed of all. *)
RoomsInv == \A b \in Browsers : "live_feed" \in rooms[b] => rooms[b] \cap RowCountries = {}

(* The rows shown are those up to last_packet_time, and one of that time. *)
ShownInv ==
    /\ \A b \in Browsers : Range(feed[b]) \subseteq Emitted
    /\ \A m \in Emitted : received_at[m] <= last_packet_time
    /\ last_packet_time = 0 \/ \E m \in Emitted : received_at[m] = last_packet_time

(* A cache that has a station once at most *)
StationsOnce(stations) ==
    /\ stations \in Seq(Locations)
    /\ \A i, j \in DOMAIN stations : stations[i].call = stations[j].call => i = j

(* Row m tells the country of the station. *)
Locates(m, base) == Base(m) = base /\ CountryCode[m] # NoCountry

(* The country is that of a visible row of the station, and of the last    *)
(* row that located it among the first n shown, if warming came before.    *)
LocationTrue(e, shown, n) ==
    /\ \E m \in aprs_packet : Locates(m, e.call) /\ CountryCode[m] = e.country
    /\ \A i \in warmed_after + 1 .. n :
          /\ Locates(shown[i].packet, e.call)
          /\ \A j \in i + 1 .. n : ~ Locates(shown[j].packet, e.call)
          => e.country = CountryCode[shown[i].packet]

StationInv ==
    /\ StationsOnce(station_cache)
    /\ \A e \in Range(station_cache) : LocationTrue(e, emitted, Len(emitted))

FeedInv ==
    /\ FeedTypes /\ RoomsInv /\ ShownInv /\ StationInv
    /\ FeedInOrder /\ SkipsExplained /\ CountryIsLastKnown

-----------------------------------------------------------------------------
LEMMA RowFacts ==
    ASSUME NEW m \in Rows, CountryCode[m] # NoCountry
    PROVE  [call |-> Base(m), country |-> CountryCode[m]] \in Locations /\ CountryCode[m] \in RowCountries
<1>1. CallOf[m] \in Range(CallOrder)  BY FeedAssumption
<1>2. CountryCode[m] \in RowCountries  BY <1>1 DEF RowCountries
<1>3. Base(m) \in {call.base : call \in Range(CallOrder)}  BY <1>1 DEF Base
<1>4. QED BY <1>2, <1>3 DEF Locations

(* What taking one element out does to the others *)
LEMMA RemoveFacts ==
    ASSUME NEW S, NEW s \in Seq(S), NEW i \in 1 .. Len(s)
    PROVE  /\ RemoveAt(s, i) \in Seq(S)
           /\ \A j \in DOMAIN RemoveAt(s, i) : \E k \in 1 .. Len(s) :
                 /\ k # i /\ k = (IF j < i THEN j ELSE j + 1)
                 /\ RemoveAt(s, i)[j] = s[k]
<1> DEFINE front == SubSeq(s, 1, i - 1)
           back == SubSeq(s, i + 1, Len(s))
<1>1. Len(s) \in Nat /\ i \in Nat  OBVIOUS
<1>2. /\ front \in Seq(S) /\ Len(front) = i - 1
      /\ \A j \in 1 .. i - 1 : front[j] = s[j]
  <2>1. 1 \in 1 .. Len(s) + 1 /\ i - 1 \in 1 - 1 .. Len(s)  BY <1>1
  <2>2. /\ SubSeq(s, 1, i - 1) \in Seq(S)
        /\ Len(SubSeq(s, 1, i - 1)) = (i - 1) - 1 + 1
        /\ \A j \in 1 .. (i - 1) - 1 + 1 : SubSeq(s, 1, i - 1)[j] = s[1 + j - 1]
    BY <2>1, PartFacts
  <2>3. QED BY <1>1, <2>2
<1>3. /\ back \in Seq(S) /\ Len(back) = Len(s) - i
      /\ \A j \in 1 .. Len(s) - i : back[j] = s[i + j]
  <2>1. i + 1 \in 1 .. Len(s) + 1 /\ Len(s) \in (i + 1) - 1 .. Len(s)  BY <1>1
  <2>2. /\ SubSeq(s, i + 1, Len(s)) \in Seq(S)
        /\ Len(SubSeq(s, i + 1, Len(s))) = Len(s) - (i + 1) + 1
        /\ \A j \in 1 .. Len(s) - (i + 1) + 1 : SubSeq(s, i + 1, Len(s))[j] = s[(i + 1) + j - 1]
    BY <2>1, PartFacts
  <2>3. QED BY <1>1, <2>2
<1>4. RemoveAt(s, i) = front \o back  BY DEF RemoveAt
<1> HIDE DEF front, back
<1>5. /\ front \o back \in Seq(S) /\ Len(front \o back) = Len(s) - 1
      /\ DOMAIN (front \o back) = 1 .. Len(s) - 1
      /\ \A j \in 1 .. Len(s) - 1 : (front \o back)[j] = IF j <= i - 1 THEN front[j] ELSE back[j - (i - 1)]
  <2>1. /\ front \o back \in Seq(S) /\ Len(front \o back) = Len(front) + Len(back)
        /\ \A j \in 1 .. Len(front) + Len(back) :
              (front \o back)[j] = IF j <= Len(front) THEN front[j] ELSE back[j - Len(front)]
    BY <1>2, <1>3, ConcatProperties
  <2> DEFINE both == front \o back
  <2> HIDE DEF both
  <2>2. Len(both) = Len(s) - 1 /\ both \in Seq(S)  BY <1>1, <1>2, <1>3, <2>1 DEF both
  <2>3. DOMAIN both = 1 .. Len(s) - 1  BY <2>2
  <2>4. \A j \in 1 .. Len(s) - 1 : both[j] = IF j <= i - 1 THEN front[j] ELSE back[j - (i - 1)]
    <3>1. Len(front) + Len(back) = Len(s) - 1  BY <1>1, <1>2, <1>3
    <3>2. QED BY <1>2, <2>1, <3>1 DEF both
  <2>5. QED BY <2>2, <2>3, <2>4 DEF both
<1>6. ASSUME NEW j \in DOMAIN RemoveAt(s, i)
      PROVE  \E k \in 1 .. Len(s) :
                 /\ k # i /\ k = (IF j < i THEN j ELSE j + 1)
                 /\ RemoveAt(s, i)[j] = s[k]
  <2>1. j \in 1 .. Len(s) - 1  BY <1>4, <1>5
  <2>2. CASE j < i  BY <1>1, <1>2, <1>4, <1>5, <2>1, <2>2
  <2>3. CASE ~ (j < i)
    <3>1. j - (i - 1) \in 1 .. Len(s) - i /\ i + (j - (i - 1)) = j + 1 /\ j + 1 \in 1 .. Len(s)
      BY <1>1, <2>1, <2>3
    <3>2. RemoveAt(s, i)[j] = s[j + 1]
      <4>1. ~ (j <= i - 1)  BY <1>1, <2>1, <2>3
      <4>2. (front \o back)[j] = back[j - (i - 1)]  BY <1>5, <2>1, <4>1
      <4>3. back[j - (i - 1)] = s[i + (j - (i - 1))]  BY <1>3, <3>1
      <4>4. QED BY <1>4, <3>1, <4>2, <4>3
    <3>3. QED BY <1>1, <2>1, <2>3, <3>1, <3>2
  <2>4. QED BY <2>2, <2>3
<1>7. QED BY <1>4, <1>5, <1>6

(* update() *)
LEMMA UpdateFacts ==
    ASSUME NEW c \in Seq(Locations), NEW l \in Locations
    PROVE  LET u == UpdateCache(c, l.call, l.country)
           IN /\ u \in Seq(Locations)
              /\ StationsOnce(c) =>
                    /\ StationsOnce(u)
                    /\ \A e \in Range(u) : e = l \/ (e \in Range(c) /\ e.call # l.call)
<1> DEFINE kept == IF Places(c, l.call) # {}
                   THEN RemoveAt(c, CHOOSE i \in Places(c, l.call) : TRUE)
                   ELSE IF Len(c) >= MaxSize THEN Evicted(c) ELSE c
           Only(s) == /\ s \in Seq(Locations)
                      /\ StationsOnce(c) =>
                            /\ \A i, j \in 1 .. Len(s) : s[i].call = s[j].call => i = j
                            /\ \A i \in 1 .. Len(s) : s[i] \in Range(c) /\ s[i].call # l.call
<1>1. l = [call |-> l.call, country |-> l.country]  BY DEF Locations
<1>2. UpdateCache(c, l.call, l.country) = Append(kept, l)  BY <1>1 DEF UpdateCache
<1>3. DOMAIN c = 1 .. Len(c) /\ Len(c) \in Nat /\ \A i \in 1 .. Len(c) : c[i] \in Range(c)
  BY DEF Range
<1>4. Only(kept)
  <2>1. CASE Places(c, l.call) # {}
    <3> DEFINE p == CHOOSE i \in Places(c, l.call) : TRUE
    <3>1. p \in 1 .. Len(c) /\ c[p].call = l.call  BY <1>3, <2>1 DEF Places
    <3> HIDE DEF p
    <3> DEFINE r == RemoveAt(c, p)
    <3>2. /\ r \in Seq(Locations)
          /\ \A j \in DOMAIN r : \E k \in 1 .. Len(c) :
                 /\ k # p /\ k = (IF j < p THEN j ELSE j + 1) /\ r[j] = c[k]
      BY <3>1, RemoveFacts
    <3> HIDE DEF r
    <3>3. DOMAIN r = 1 .. Len(r) /\ Len(r) \in Nat  BY <3>2
    <3>4. ASSUME StationsOnce(c), NEW i \in 1 .. Len(r)
          PROVE  r[i] \in Range(c) /\ r[i].call # l.call
      <4>1. PICK k \in 1 .. Len(c) : k # p /\ r[i] = c[k]  BY <3>2, <3>3
      <4>2. QED BY <1>3, <3>1, <3>4, <4>1 DEF StationsOnce
    <3>5. ASSUME StationsOnce(c), NEW i \in 1 .. Len(r), NEW j \in 1 .. Len(r), r[i].call = r[j].call
          PROVE  i = j
      <4>1. PICK k \in 1 .. Len(c) : k # p /\ k = (IF i < p THEN i ELSE i + 1) /\ r[i] = c[k]  BY <3>2, <3>3
      <4>2. PICK n \in 1 .. Len(c) : n # p /\ n = (IF j < p THEN j ELSE j + 1) /\ r[j] = c[n]  BY <3>2, <3>3
      <4>3. k = n  BY <1>3, <3>5, <4>1, <4>2 DEF StationsOnce
      <4>4. QED BY <3>1, <3>3, <4>1, <4>2, <4>3
    <3>6. kept = r  BY <2>1 DEF r, p
    <3> HIDE DEF kept
    <3>7. QED BY <3>2, <3>4, <3>5, <3>6
  <2>2. CASE Places(c, l.call) = {} /\ ~ (Len(c) >= MaxSize)
    BY <1>3, <2>2 DEF Places, StationsOnce
  <2>3. CASE Places(c, l.call) = {} /\ Len(c) >= MaxSize
    <3>1. kept = SubSeq(c, EvictCount + 1, Len(c))  BY <2>3 DEF Evicted
    <3>2. EvictCount \in Nat \ {0}  BY FeedAssumption
    <3> HIDE DEF kept
    <3>3. CASE EvictCount <= Len(c)
      <4>1. EvictCount + 1 \in 1 .. Len(c) + 1 /\ Len(c) \in (EvictCount + 1) - 1 .. Len(c)
        BY <1>3, <3>2, <3>3
      <4>2. /\ kept \in Seq(Locations) /\ Len(kept) = Len(c) - (EvictCount + 1) + 1
            /\ \A i \in 1 .. Len(c) - (EvictCount + 1) + 1 : kept[i] = c[(EvictCount + 1) + i - 1]
        BY <3>1, <4>1, PartFacts
      <4>3. \A i \in 1 .. Len(kept) : EvictCount + i \in 1 .. Len(c) /\ kept[i] = c[EvictCount + i]
        BY <1>3, <3>2, <3>3, <4>2
      <4>4. ASSUME StationsOnce(c), NEW i \in 1 .. Len(kept), NEW j \in 1 .. Len(kept),
                   kept[i].call = kept[j].call
            PROVE  i = j
        <5>1. EvictCount + i = EvictCount + j  BY <1>3, <4>3, <4>4 DEF StationsOnce
        <5>2. i \in Int /\ j \in Int  BY <4>2
        <5>3. QED BY <3>2, <5>1, <5>2
      <4>5. \A i \in 1 .. Len(kept) : kept[i] \in Range(c) /\ kept[i].call # l.call
        BY <1>3, <2>3, <4>3 DEF Places
      <4>6. QED BY <4>2, <4>4, <4>5
    <3>4. CASE EvictCount > Len(c)
      <4>1. kept = <<>>  BY <1>3, <3>1, <3>2, <3>4, SubSeqEmpty
      <4>2. kept \in Seq(Locations) /\ Len(kept) = 0  BY <4>1
      <4>3. QED BY <4>2
    <3>5. QED BY <1>3, <3>2, <3>3, <3>4
  <2>4. QED BY <2>1, <2>2, <2>3
<1> HIDE DEF kept
<1> DEFINE u == Append(kept, l)
<1>5. /\ u \in Seq(Locations) /\ Len(u) = Len(kept) + 1 /\ DOMAIN u = 1 .. Len(kept) + 1
      /\ Len(kept) \in Nat
      /\ u[Len(kept) + 1] = l /\ \A i \in 1 .. Len(kept) : u[i] = kept[i]
  BY <1>4, AppendProperties
<1> HIDE DEF u
<1>6. ASSUME StationsOnce(c)
      PROVE  StationsOnce(u) /\ \A e \in Range(u) : e = l \/ (e \in Range(c) /\ e.call # l.call)
  <2>1. ASSUME NEW i \in DOMAIN u, NEW j \in DOMAIN u, u[i].call = u[j].call PROVE i = j
    BY <1>4, <1>5, <1>6, <2>1
  <2>2. ASSUME NEW i \in DOMAIN u
        PROVE  u[i] = l \/ (u[i] \in Range(c) /\ u[i].call # l.call)
    BY <1>4, <1>5, <1>6
  <2>3. QED BY <1>5, <2>1, <2>2 DEF StationsOnce, Range
<1>7. QED BY <1>2, <1>5, <1>6 DEF u

-----------------------------------------------------------------------------
(* The recursive functions of a poll *)

CacheAfter(batch) ==
    LET stations[n \in 0 .. Len(batch)] ==
            IF n = 0 THEN station_cache ELSE Learn(stations[n - 1], batch[n])
    IN stations

ShowingsOf(batch) ==
    [i \in DOMAIN batch |->
        [packet |-> batch[i], country |-> LastCountry(CacheAfter(batch)[i], Base(batch[i]))]]

FeedAfter(batch, b) ==
    LET sent[n \in 0 .. Len(batch)] ==
            IF n = 0 THEN feed[b] ELSE sent[n - 1] \o Copies(ShowingsOf(batch)[n], b)
    IN sent

LEMMA EmitFacts ==
    ASSUME NEW batch, Emit(batch)
    PROVE  /\ station_cache' = CacheAfter(batch)[Len(batch)]
           /\ emitted' = emitted \o ShowingsOf(batch)
           /\ feed' = [b \in Browsers |-> FeedAfter(batch, b)[Len(batch)]]
           /\ last_packet_time' = Max({last_packet_time} \cup {received_at[m] : m \in Range(batch)})
BY DEF Emit, CacheAfter, ShowingsOf, FeedAfter

LEMMA LearnTypes ==
    ASSUME NEW c \in Seq(Locations), NEW m \in Rows
    PROVE  Learn(c, m) \in Seq(Locations)
<1>1. CASE CountryCode[m] = NoCountry  BY <1>1 DEF Learn
<1>2. CASE CountryCode[m] # NoCountry
  <2> DEFINE l == [call |-> Base(m), country |-> CountryCode[m]]
  <2>1. l \in Locations  BY <1>2, RowFacts
  <2>2. l.call = Base(m) /\ l.country = CountryCode[m]  OBVIOUS
  <2> HIDE DEF l
  <2>3. UpdateCache(c, l.call, l.country) \in Seq(Locations)  BY <2>1, UpdateFacts
  <2>4. QED BY <1>2, <2>2, <2>3 DEF Learn
<1>3. QED BY <1>1, <1>2

LEMMA CacheSteps ==
    ASSUME station_cache \in Seq(Locations), NEW batch \in Seq(Rows)
    PROVE  LET c == CacheAfter(batch)
           IN /\ c[0] = station_cache
              /\ \A n \in 0 .. Len(batch) : c[n] \in Seq(Locations)
              /\ \A n \in 1 .. Len(batch) : c[n] = Learn(c[n - 1], batch[n])
<1> DEFINE N == Len(batch)
           V == Seq(Locations)
           step == [n \in 1 .. N |-> [x \in V |-> Learn(x, batch[n])]]
           Follows(g) == g = [n \in 0 .. N |-> IF n = 0 THEN station_cache ELSE Learn(g[n - 1], batch[n])]
           c == CHOOSE g : Follows(g)
<1>1. N \in Nat /\ \A n \in 1 .. N : batch[n] \in Rows  OBVIOUS
<1>2. step \in [1 .. N -> [V -> V]]
  <2>1. ASSUME NEW n \in 1 .. N, NEW x \in V PROVE Learn(x, batch[n]) \in V
    BY <1>1, LearnTypes
  <2>2. QED BY <2>1
<1>3. \A n \in 1 .. N, x \in V : step[n][x] = Learn(x, batch[n])  OBVIOUS
<1> HIDE DEF step, N
<1>4. PICK g \in [0 .. N -> V] : Iteration(g, N, station_cache, step)
  <2>1. station_cache \in V  OBVIOUS
  <2> HIDE DEF V
  <2>2. QED BY <1>1, <1>2, <2>1, Iterates
<1>5. Follows(g)
  <2>1. \A n \in 0 .. N : g[n] = IF n = 0 THEN station_cache ELSE Learn(g[n - 1], batch[n])
    <3>1. ASSUME NEW n \in 0 .. N PROVE g[n] = IF n = 0 THEN station_cache ELSE Learn(g[n - 1], batch[n])
      <4>1. n # 0 => n \in 1 .. N /\ g[n - 1] \in V  BY <1>1, <1>4
      <4>2. g[n] = IF n = 0 THEN station_cache ELSE step[n][g[n - 1]]  BY <1>4, <4>1 DEF Iteration
      <4>3. QED BY <1>3, <4>1, <4>2
    <3>2. QED BY <3>1
  <2>2. g = [n \in 0 .. N |-> g[n]]  BY <1>4
  <2>3. QED BY <2>1, <2>2
<1>6. Follows(c)
  <2> HIDE DEF Follows
  <2>1. QED BY <1>5
<1>7. CacheAfter(batch) = c  BY DEF CacheAfter, N
<1> HIDE DEF c
<1>8. c[0] = station_cache /\ \A n \in 1 .. N : c[n] = Learn(c[n - 1], batch[n])
  BY <1>1, <1>6
<1> DEFINE Good == {n \in 0 .. N : c[n] \in V}
<1>9. \A n \in 0 .. N : n \in Good
  <2>1. 0 \in Good  BY <1>1, <1>8
  <2>2. \A n \in 1 .. N : n - 1 \in Good => n \in Good
    <3>1. ASSUME NEW n \in 1 .. N, c[n - 1] \in V PROVE c[n] \in V
      BY <1>1, <1>8, <3>1, LearnTypes
    <3>2. QED BY <1>1, <3>1
  <2> HIDE DEF Good
  <2>3. QED BY <1>1, <2>1, <2>2, Climb
<1>10. QED BY <1>7, <1>8, <1>9 DEF N

-----------------------------------------------------------------------------
(* Warming *)

LocatedBy(call) == {m \in aprs_packet : CallOf[m] = call /\ CountryCode[m] # NoCountry}

AddCall(stations, call) ==
    IF LocatedBy(call) = {} THEN stations
    ELSE UpdateCache(stations, call.base, CountryCode[NewestRow(LocatedBy(call))])

WarmCache ==
    LET stations[n \in 0 .. Len(CallOrder)] ==
            IF n = 0 THEN station_cache ELSE AddCall(stations[n - 1], CallOrder[n])
    IN stations

LEMMA WarmEffect ==
    ASSUME Warm
    PROVE  station_cache' = WarmCache[Len(CallOrder)]
BY DEF Warm, WarmCache, AddCall, LocatedBy

LEMMA AddFacts ==
    ASSUME FeedTypes, NEW c \in Seq(Locations), NEW call \in Range(CallOrder)
    PROVE  /\ AddCall(c, call) \in Seq(Locations)
           /\ StationsOnce(c) =>
                 /\ StationsOnce(AddCall(c, call))
                 /\ \A e \in Range(AddCall(c, call)) :
                       \/ e \in Range(c)
                       \/ \E m \in aprs_packet : Locates(m, e.call) /\ CountryCode[m] = e.country
<1> DEFINE S == LocatedBy(call)
<1>1. CASE S = {}  BY <1>1 DEF AddCall
<1>2. CASE S # {}
  <2> DEFINE m == NewestRow(S)
             l == [call |-> Base(m), country |-> CountryCode[m]]
  <2>1. m \in S
    <3>1. IsFiniteSet(S) /\ \A n \in S : received_at[n] \in Nat
      <4>1. S \subseteq aprs_packet /\ S \subseteq Rows  BY DEF LocatedBy, FeedTypes
      <4>2. received_at \in [Rows -> Nat \ {0}]  BY FeedAssumption DEF FeedTypes
      <4>3. IsFiniteSet(aprs_packet)  BY DEF FeedTypes
      <4>4. QED BY <4>1, <4>2, <4>3, FS_Subset
    <3>2. \E x \in S : \A n \in S : received_at[n] <= received_at[x]
      <4> HIDE DEF S
      <4>1. QED BY <1>2, <3>1, GreatestValue
    <3>3. QED BY <3>2 DEF NewestRow
  <2> HIDE DEF m
  <2>2. m \in aprs_packet /\ m \in Rows /\ CountryCode[m] # NoCountry /\ Base(m) = call.base
    BY <2>1 DEF LocatedBy, FeedTypes, Base
  <2>3. l \in Locations  BY <2>2, RowFacts
  <2>4. l.call = call.base /\ l.country = CountryCode[m] /\ Locates(m, l.call)
    BY <2>2 DEF Locates
  <2>5. AddCall(c, call) = UpdateCache(c, l.call, l.country)  BY <1>2, <2>4 DEF AddCall, m
  <2> HIDE DEF l
  <2>6. QED BY <2>2, <2>3, <2>4, <2>5, UpdateFacts
<1>3. QED BY <1>1, <1>2

LEMMA WarmSteps ==
    ASSUME FeedTypes, station_cache \in Seq(Locations)
    PROVE  /\ WarmCache[0] = station_cache
           /\ \A n \in 0 .. Len(CallOrder) : WarmCache[n] \in Seq(Locations)
           /\ \A n \in 1 .. Len(CallOrder) : WarmCache[n] = AddCall(WarmCache[n - 1], CallOrder[n])
<1> DEFINE N == Len(CallOrder)
           V == Seq(Locations)
           step == [n \in 1 .. N |-> [x \in V |-> AddCall(x, CallOrder[n])]]
           Follows(g) == g = [n \in 0 .. N |-> IF n = 0 THEN station_cache ELSE AddCall(g[n - 1], CallOrder[n])]
           c == CHOOSE g : Follows(g)
<1>1. N \in Nat /\ \A n \in 1 .. N : CallOrder[n] \in Range(CallOrder)
  BY FeedAssumption DEF Range
<1>2. step \in [1 .. N -> [V -> V]]
  <2>1. ASSUME NEW n \in 1 .. N, NEW x \in V PROVE AddCall(x, CallOrder[n]) \in V
    BY <1>1, AddFacts
  <2>2. QED BY <2>1
<1>3. \A n \in 1 .. N, x \in V : step[n][x] = AddCall(x, CallOrder[n])  OBVIOUS
<1> HIDE DEF step, N
<1>4. PICK g \in [0 .. N -> V] : Iteration(g, N, station_cache, step)
  <2>1. station_cache \in V  OBVIOUS
  <2> HIDE DEF V
  <2>2. QED BY <1>1, <1>2, <2>1, Iterates
<1>5. Follows(g)
  <2>1. ASSUME NEW n \in 0 .. N PROVE g[n] = IF n = 0 THEN station_cache ELSE AddCall(g[n - 1], CallOrder[n])
    <3>1. n # 0 => n \in 1 .. N /\ g[n - 1] \in V  BY <1>1, <1>4
    <3>2. g[n] = IF n = 0 THEN station_cache ELSE step[n][g[n - 1]]  BY <1>4, <3>1 DEF Iteration
    <3>3. QED BY <1>3, <3>1, <3>2
  <2>2. g = [n \in 0 .. N |-> g[n]]  BY <1>4
  <2>3. QED BY <2>1, <2>2
<1>6. Follows(c)
  <2> HIDE DEF Follows
  <2>1. QED BY <1>5
<1>7. WarmCache = c  BY DEF WarmCache, N
<1> HIDE DEF c
<1>8. c[0] = station_cache /\ \A n \in 1 .. N : c[n] = AddCall(c[n - 1], CallOrder[n])
  BY <1>1, <1>6
<1> DEFINE Good == {n \in 0 .. N : c[n] \in V}
<1>9. \A n \in 0 .. N : n \in Good
  <2>1. 0 \in Good  BY <1>1, <1>8
  <2>2. \A n \in 1 .. N : n - 1 \in Good => n \in Good
    <3>1. ASSUME NEW n \in 1 .. N, c[n - 1] \in V PROVE c[n] \in V
      BY <1>1, <1>8, <3>1, AddFacts
    <3>2. QED BY <1>1, <3>1
  <2> HIDE DEF Good
  <2>3. QED BY <1>1, <2>1, <2>2, Climb
<1>10. QED BY <1>7, <1>8, <1>9 DEF N

LEMMA WarmStations ==
    ASSUME FeedTypes, StationInv, Warm
    PROVE  StationInv'
<1> DEFINE N == Len(CallOrder)
           Told(e) == \E m \in aprs_packet : Locates(m, e.call) /\ CountryCode[m] = e.country
           Good == {n \in 0 .. N : StationsOnce(WarmCache[n]) /\ \A e \in Range(WarmCache[n]) : Told(e)}
<1>1. N \in Nat /\ \A n \in 1 .. N : CallOrder[n] \in Range(CallOrder)
  BY FeedAssumption DEF Range
<1>2. /\ WarmCache[0] = station_cache
      /\ \A n \in 0 .. N : WarmCache[n] \in Seq(Locations)
      /\ \A n \in 1 .. N : WarmCache[n] = AddCall(WarmCache[n - 1], CallOrder[n])
  BY WarmSteps DEF StationInv, StationsOnce
<1>3. 0 \in Good  BY <1>1, <1>2 DEF StationInv, LocationTrue
<1>4. ASSUME NEW n \in 1 .. N, n - 1 \in Good PROVE n \in Good
  <2>1. n - 1 \in 0 .. N /\ n \in 0 .. N  BY <1>1
  <2>2. WarmCache[n - 1] \in Seq(Locations) /\ CallOrder[n] \in Range(CallOrder)  BY <1>1, <1>2, <2>1
  <2>3. /\ StationsOnce(AddCall(WarmCache[n - 1], CallOrder[n]))
        /\ \A e \in Range(AddCall(WarmCache[n - 1], CallOrder[n])) : e \in Range(WarmCache[n - 1]) \/ Told(e)
    BY <1>4, <2>2, AddFacts
  <2> HIDE DEF Told
  <2>4. QED BY <1>2, <1>4, <2>1, <2>3
<1>5. N \in Good
  <2>1. \A n \in 1 .. N : n - 1 \in Good => n \in Good  BY <1>4
  <2> HIDE DEF Good, N
  <2>2. \A n \in 0 .. N : n \in Good  BY <1>1, <1>3, <2>1, Climb
  <2>3. QED BY <1>1, <2>2
<1>6. station_cache' = WarmCache[N]  BY WarmEffect
<1>7. warmed_after' = Len(emitted) /\ emitted' = emitted /\ aprs_packet' = aprs_packet
  BY DEF Warm, poller
<1>8. StationsOnce(station_cache') /\ \A e \in Range(station_cache') : Told(e)
  BY <1>5, <1>6
<1>9. Len(emitted) \in Nat  BY DEF FeedTypes
<1>10. ASSUME NEW e, Told(e)  PROVE LocationTrue(e, emitted, Len(emitted))'
  <2>1. (warmed_after' + 1) .. Len(emitted)' = {}  BY <1>7, <1>9
  <2>2. (\E m \in aprs_packet : Locates(m, e.call) /\ CountryCode[m] = e.country)'
    BY <1>7, <1>10 DEF Locates, Base
  <2>3. QED BY <2>1, <2>2 DEF LocationTrue
<1> HIDE DEF Told
<1>11. \A e \in Range(station_cache') : LocationTrue(e, emitted, Len(emitted))'  BY <1>8, <1>10
<1>12. StationsOnce(station_cache)'  BY <1>8 DEF StationsOnce
<1>13. QED BY <1>11, <1>12 DEF StationInv

-----------------------------------------------------------------------------
(* The cache and the countries over a poll *)

LEMMA ShownFacts ==
    ASSUME FeedTypes, NEW batch \in Seq(Rows)
    PROVE  LET both == emitted \o ShowingsOf(batch)
               K == Len(emitted)
           IN /\ K \in Nat /\ Len(batch) \in Nat
              /\ Len(both) = K + Len(batch) /\ DOMAIN both = 1 .. K + Len(batch)
              /\ \A i \in 1 .. K : both[i] = emitted[i]
              /\ \A i \in 1 .. Len(batch) :
                    /\ both[K + i].packet = batch[i]
                    /\ both[K + i].country = LastCountry(CacheAfter(batch)[i], Base(batch[i]))
<1> DEFINE shown == ShowingsOf(batch)
           K == Len(emitted)
           N == Len(batch)
<1>1. shown = [i \in 1 .. N |->
                 [packet |-> batch[i], country |-> LastCountry(CacheAfter(batch)[i], Base(batch[i]))]]
  BY DEF ShowingsOf
<1>2. K \in Nat /\ N \in Nat /\ emitted \in Seq(Range(emitted) \cup Range(shown))
  <2>1. emitted \in Seq(Showings)  BY DEF FeedTypes
  <2>2. Len(emitted) \in Nat /\ DOMAIN emitted = 1 .. Len(emitted)
        /\ emitted = [i \in 1 .. Len(emitted) |-> emitted[i]]
    BY <2>1
  <2>3. emitted \in [1 .. Len(emitted) -> Range(emitted) \cup Range(shown)]
    BY <2>2 DEF Range
  <2>4. QED BY <2>2, <2>3, SeqDef
<1>3. shown \in Seq(Range(emitted) \cup Range(shown)) /\ Len(shown) = N
  <2>1. DOMAIN shown = 1 .. N  BY <1>1
  <2>2. shown \in [1 .. N -> Range(emitted) \cup Range(shown)]  BY <1>1, <2>1 DEF Range
  <2>3. shown \in Seq(Range(emitted) \cup Range(shown))  BY <1>2, <2>2, SeqDef
  <2>4. QED BY <1>2, <2>1, <2>3
<1> HIDE DEF shown, K, N
<1>4. /\ emitted \o shown \in Seq(Range(emitted) \cup Range(shown))
      /\ Len(emitted \o shown) = K + N
      /\ \A i \in 1 .. K + N : (emitted \o shown)[i] = IF i <= K THEN emitted[i] ELSE shown[i - K]
  <2> DEFINE T == Range(emitted) \cup Range(shown)
  <2> HIDE DEF T
  <2>1. emitted \in Seq(T) /\ shown \in Seq(T)  BY <1>2, <1>3 DEF T
  <2>2. QED BY <1>3, <2>1, ConcatProperties DEF K, T
<1>5. \A i \in 1 .. N : K + i \in 1 .. K + N /\ ~ (K + i <= K) /\ (K + i) - K = i  BY <1>2
<1>6. \A i \in 1 .. N : (emitted \o shown)[K + i] = shown[i]  BY <1>4, <1>5
<1>7. \A i \in 1 .. K : (emitted \o shown)[i] = emitted[i]
  <2>1. \A i \in 1 .. K : i \in 1 .. K + N /\ i <= K  BY <1>2
  <2>2. QED BY <1>4, <2>1
<1>8. DOMAIN (emitted \o shown) = 1 .. K + N  BY <1>4
<1>9. \A i \in 1 .. N :
         /\ shown[i].packet = batch[i]
         /\ shown[i].country = LastCountry(CacheAfter(batch)[i], Base(batch[i]))
  BY <1>1
<1>10. QED BY <1>2, <1>4, <1>6, <1>7, <1>8, <1>9 DEF shown, K, N

(* Rows of the batch are learnt one by one: the cache after n of them is    *)
(* true of the rows shown up to there.                                      *)
LEMMA CacheHolds ==
    ASSUME FeedTypes, StationInv, NEW batch \in Seq(Rows), Range(batch) \subseteq aprs_packet
    PROVE  \A n \in 0 .. Len(batch) :
              /\ StationsOnce(CacheAfter(batch)[n])
              /\ \A e \in Range(CacheAfter(batch)[n]) :
                    LocationTrue(e, emitted \o ShowingsOf(batch), Len(emitted) + n)
<1> DEFINE N == Len(batch)
           K == Len(emitted)
           c == CacheAfter(batch)
           both == emitted \o ShowingsOf(batch)
           Good == {n \in 0 .. N : StationsOnce(c[n]) /\ \A e \in Range(c[n]) : LocationTrue(e, both, K + n)}
<1>1. /\ c[0] = station_cache
      /\ \A n \in 0 .. N : c[n] \in Seq(Locations)
      /\ \A n \in 1 .. N : c[n] = Learn(c[n - 1], batch[n])
  BY CacheSteps DEF StationInv, StationsOnce
<1>2. /\ K \in Nat /\ N \in Nat
      /\ \A i \in 1 .. K : both[i] = emitted[i]
      /\ \A i \in 1 .. N : both[K + i].packet = batch[i]
  BY ShownFacts
<1>3. /\ warmed_after \in Nat
      /\ \A n \in 1 .. N : batch[n] \in Rows /\ batch[n] \in aprs_packet
  <2>1. warmed_after \in 0 .. Len(emitted) /\ Len(emitted) \in Nat  BY <1>2 DEF FeedTypes
  <2>2. QED BY <2>1 DEF Range
<1> HIDE DEF both, K, c, N
<1>4. 0 \in Good
  <2>1. StationsOnce(c[0])  BY <1>1 DEF StationInv
  <2>2. ASSUME NEW e \in Range(c[0])  PROVE LocationTrue(e, both, K + 0)
    <3>1. LocationTrue(e, emitted, K)  BY <1>1, <2>2 DEF StationInv, K
    <3>2. K + 0 = K /\ \A i \in warmed_after + 1 .. K : i \in 1 .. K /\ \A j \in i + 1 .. K : j \in 1 .. K
      BY <1>2, <1>3
    <3>3. QED BY <1>2, <3>1, <3>2 DEF LocationTrue
  <2>3. QED BY <1>2, <2>1, <2>2
<1>5. ASSUME NEW n \in 1 .. N, n - 1 \in Good PROVE n \in Good
  <2> DEFINE m == batch[n]
             l == [call |-> Base(m), country |-> CountryCode[m]]
  <2>1. n \in 0 .. N /\ n - 1 \in 0 .. N /\ K + (n - 1) = (K + n) - 1 /\ K + n \in Nat  BY <1>2
  <2>2. StationsOnce(c[n - 1]) /\ \A e \in Range(c[n - 1]) : LocationTrue(e, both, (K + n) - 1)
    BY <1>5, <2>1
  <2>3. c[n] = Learn(c[n - 1], m) /\ c[n - 1] \in Seq(Locations)  BY <1>1, <2>1
  <2>4. m \in Rows /\ m \in aprs_packet /\ both[K + n].packet = m  BY <1>2, <1>3
  <2> HIDE DEF m
  <2>5. ASSUME NEW e, LocationTrue(e, both, (K + n) - 1), ~ Locates(m, e.call)
        PROVE  LocationTrue(e, both, K + n)
    <3>1. ASSUME NEW i \in warmed_after + 1 .. K + n, Locates(both[i].packet, e.call),
                 \A j \in i + 1 .. K + n : ~ Locates(both[j].packet, e.call)
          PROVE  e.country = CountryCode[both[i].packet]
      <4>1. i # K + n  BY <2>4, <2>5, <3>1
      <4>2. i \in warmed_after + 1 .. (K + n) - 1  BY <1>3, <2>1, <4>1
      <4>3. \A j \in i + 1 .. (K + n) - 1 : j \in i + 1 .. K + n  BY <1>3, <2>1
      <4>4. QED BY <2>5, <3>1, <4>2, <4>3 DEF LocationTrue
    <3>2. QED BY <2>5, <3>1 DEF LocationTrue
  <2>6. CASE CountryCode[m] = NoCountry
    <3>1. c[n] = c[n - 1]  BY <2>3, <2>6 DEF Learn
    <3>2. \A e : ~ Locates(m, e.call)  BY <2>6 DEF Locates
    <3>3. QED BY <2>1, <2>2, <2>5, <3>1, <3>2
  <2>7. CASE CountryCode[m] # NoCountry
    <3>1. l \in Locations  BY <2>4, <2>7, RowFacts
    <3>2. l.call = Base(m) /\ l.country = CountryCode[m]  OBVIOUS
    <3> HIDE DEF l
    <3>3. c[n] = UpdateCache(c[n - 1], l.call, l.country)  BY <2>3, <2>7, <3>2 DEF Learn
    <3>4. StationsOnce(c[n]) /\ \A e \in Range(c[n]) : e = l \/ (e \in Range(c[n - 1]) /\ e.call # l.call)
      BY <2>2, <2>3, <3>1, <3>3, UpdateFacts
    <3>5. LocationTrue(l, both, K + n)
      <4>1. Locates(m, l.call)  BY <2>7, <3>2 DEF Locates
      <4>2. ASSUME NEW i \in warmed_after + 1 .. K + n,
                   \A j \in i + 1 .. K + n : ~ Locates(both[j].packet, l.call)
            PROVE  l.country = CountryCode[both[i].packet]
        <5>1. ~ (K + n \in i + 1 .. K + n)  BY <2>4, <4>1, <4>2
        <5>2. i = K + n  BY <1>3, <2>1, <5>1
        <5>3. QED BY <2>4, <3>2, <5>2
      <4>3. QED BY <2>4, <3>2, <4>1, <4>2 DEF LocationTrue
    <3>6. \A e \in Range(c[n]) : LocationTrue(e, both, K + n)
      <4>1. ASSUME NEW e \in Range(c[n - 1]), e.call # l.call  PROVE LocationTrue(e, both, K + n)
        <5>1. ~ Locates(m, e.call)  BY <3>2, <4>1 DEF Locates
        <5>2. QED BY <2>2, <2>5, <5>1
      <4>2. QED BY <3>4, <3>5, <4>1
    <3>7. QED BY <2>1, <3>4, <3>6
  <2>8. QED BY <2>6, <2>7
<1>6. \A n \in 0 .. N : n \in Good
  <2>1. \A n \in 1 .. N : n - 1 \in Good => n \in Good  BY <1>5
  <2> HIDE DEF Good
  <2>2. QED BY <1>2, <1>4, <2>1, Climb
<1>7. QED BY <1>6 DEF both, K, c, N

(* The countries that the rows are shown in *)
LEMMA CountriesHold ==
    ASSUME FeedTypes, StationInv, CountryIsLastKnown,
           NEW batch \in Seq(Rows), Range(batch) \subseteq aprs_packet, Emit(batch),
           UNCHANGED <<aprs_packet, warmed_after>>
    PROVE  /\ StationInv' /\ CountryIsLastKnown'
           /\ \A i \in 1 .. Len(batch) : ShowingsOf(batch)[i].country \in RowCountries \cup {NoCountry}
<1> DEFINE N == Len(batch)
           K == Len(emitted)
           c == CacheAfter(batch)
           both == emitted \o ShowingsOf(batch)
<1>1. station_cache' = c[N] /\ emitted' = both  BY EmitFacts
<1>2. /\ K \in Nat /\ N \in Nat /\ Len(both) = K + N /\ DOMAIN both = 1 .. K + N
      /\ \A i \in 1 .. K : both[i] = emitted[i]
      /\ \A i \in 1 .. N : both[K + i].packet = batch[i] /\ both[K + i].country = LastCountry(c[i], Base(batch[i]))
  BY ShownFacts
<1>3. \A n \in 0 .. N : StationsOnce(c[n]) /\ \A e \in Range(c[n]) : LocationTrue(e, both, K + n)
  BY CacheHolds
<1>4. warmed_after \in Nat  
  <2>1. warmed_after \in 0 .. Len(emitted) /\ Len(emitted) \in Nat  BY <1>2 DEF FeedTypes
  <2>2. QED BY <2>1
<1>5. \A n \in 1 .. N : ShowingsOf(batch)[n].country = LastCountry(c[n], Base(batch[n]))
  BY DEF ShowingsOf
<1> HIDE DEF both, K, c, N
<1>6. StationInv'
  <2>1. StationsOnce(c[N]) /\ \A e \in Range(c[N]) : LocationTrue(e, both, Len(both))  BY <1>2, <1>3
  <2>2. StationsOnce(station_cache)'  BY <1>1, <2>1 DEF StationsOnce
  <2>3. ASSUME NEW e, LocationTrue(e, both, Len(both))
        PROVE  LocationTrue(e, emitted, Len(emitted))'
    BY <1>1, <2>3 DEF LocationTrue, Locates, Base
  <2>4. \A e \in Range(station_cache') : LocationTrue(e, emitted, Len(emitted))'
    BY <1>1, <2>1, <2>3
  <2>5. QED BY <2>2, <2>4 DEF StationInv
<1>7. ASSUME NEW n \in 1 .. N, LastCountry(c[n], Base(batch[n])) # NoCountry
      PROVE  \E e \in Range(c[n]) : /\ e.call = Base(batch[n])
                                    /\ e.country = LastCountry(c[n], Base(batch[n]))
                                    /\ e \in Locations
  <2>1. c[n] \in Seq(Locations)  BY <1>2, <1>3 DEF StationsOnce
  <2>2. Places(c[n], Base(batch[n])) # {}  BY <1>7 DEF LastCountry
  <2> DEFINE i == CHOOSE i \in Places(c[n], Base(batch[n])) : TRUE
  <2>3. i \in Places(c[n], Base(batch[n]))  BY <2>2
  <2>4. LastCountry(c[n], Base(batch[n])) = c[n][i].country  BY <2>2 DEF LastCountry
  <2> HIDE DEF i
  <2>5. i \in DOMAIN c[n] /\ c[n][i].call = Base(batch[n])  BY <2>3 DEF Places
  <2>6. c[n][i] \in Range(c[n]) /\ c[n][i] \in Locations  BY <2>1, <2>5 DEF Range
  <2>7. QED BY <2>4, <2>5, <2>6
<1>8. \A i \in 1 .. N : ShowingsOf(batch)[i].country \in RowCountries \cup {NoCountry}
  <2>1. ASSUME NEW i \in 1 .. N, LastCountry(c[i], Base(batch[i])) # NoCountry
        PROVE  LastCountry(c[i], Base(batch[i])) \in RowCountries
    <3>1. PICK e \in Range(c[i]) : e.country = LastCountry(c[i], Base(batch[i])) /\ e \in Locations
      BY <1>7, <2>1
    <3>2. QED BY <3>1 DEF Locations
  <2>2. QED BY <1>5, <2>1
<1> DEFINE Heard(i) == {j \in warmed_after + 1 .. i - 1 :
                           /\ Base(both[j].packet) = Base(both[i].packet)
                           /\ CountryCode[both[j].packet] # NoCountry}
<1>9. ASSUME NEW i \in 1 .. K + N, CountryCode[both[i].packet] = NoCountry, both[i].country # NoCountry
      PROVE  /\ \E m \in aprs_packet : Base(m) = Base(both[i].packet) /\ CountryCode[m] = both[i].country
             /\ Heard(i) # {} => both[i].country = CountryCode[both[Max(Heard(i))].packet]
  <2>1. CASE i \in 1 .. K
    <3> DEFINE Before == {j \in warmed_after + 1 .. i - 1 :
                             /\ Base(emitted[j].packet) = Base(emitted[i].packet)
                             /\ CountryCode[emitted[j].packet] # NoCountry}
    <3>1. i \in DOMAIN emitted /\ DOMAIN emitted = 1 .. K  BY <2>1 DEF FeedTypes, K
    <3>2. \A j \in warmed_after + 1 .. i - 1 : j \in 1 .. K  BY <1>2, <1>4, <2>1
    <3>3. Heard(i) = Before /\ both[i] = emitted[i]  BY <1>2, <2>1, <3>2
    <3>4. Before # {} => Max(Before) \in Before
      <4>1. Before \subseteq 0 .. i /\ i \in Nat  BY <1>2, <1>4, <2>1
      <4> HIDE DEF Before
      <4>2. Before # {} => \E m \in Before : \A k \in Before : m >= k  BY <4>1, GreatestNumber
      <4>3. QED BY <4>2 DEF Max
    <3>5. /\ \E m \in aprs_packet : Base(m) = Base(emitted[i].packet) /\ CountryCode[m] = emitted[i].country
          /\ Before # {} => emitted[i].country = CountryCode[emitted[Max(Before)].packet]
      BY <1>9, <3>1, <3>3 DEF CountryIsLastKnown
    <3>6. Before # {} => both[Max(Before)] = emitted[Max(Before)]
      <4>1. Before # {} => Max(Before) \in warmed_after + 1 .. i - 1  BY <3>4
      <4> HIDE DEF Before
      <4>2. QED BY <1>2, <3>2, <4>1
    <3> HIDE DEF Heard, Before
    <3>7. QED BY <3>3, <3>5, <3>6
  <2>2. CASE i \notin 1 .. K
    <3> DEFINE n == i - K
               m == batch[n]
    <3>1. n \in 1 .. N /\ i = K + n  BY <1>2, <2>2
    <3> HIDE DEF n
    <3>2. both[i].packet = m /\ both[i].country = LastCountry(c[n], Base(m))  BY <1>2, <3>1
    <3>3. PICK e \in Range(c[n]) : e.call = Base(m) /\ e.country = both[i].country
      BY <1>7, <1>9, <3>1, <3>2
    <3>4. LocationTrue(e, both, i)  BY <1>2, <1>3, <3>1
    <3>5. \E p \in aprs_packet : Base(p) = Base(m) /\ CountryCode[p] = both[i].country
      BY <3>3, <3>4 DEF LocationTrue, Locates
    <3>6. ASSUME Heard(i) # {}  PROVE both[i].country = CountryCode[both[Max(Heard(i))].packet]
      <4> DEFINE H == Heard(i)
      <4>1. H \subseteq 0 .. i /\ i \in Nat  BY <1>2, <1>4, <3>1
      <4>2. \E x \in H : \A k \in H : x >= k
        <5> HIDE DEF H, Heard
        <5>1. H # {}  BY <3>6 DEF H
        <5>2. QED BY <4>1, <5>1, GreatestNumber
      <4> DEFINE g == Max(H)
      <4>3. g \in H /\ \A k \in H : g >= k
        <5> HIDE DEF H, Heard
        <5>1. QED BY <4>2 DEF Max
      <4>4. g \in warmed_after + 1 .. i - 1 /\ Locates(both[g].packet, e.call)
        <5> HIDE DEF g
        <5>1. QED BY <3>2, <3>3, <4>3 DEF Locates
      <4>5. ASSUME NEW j \in g + 1 .. i, Locates(both[j].packet, e.call) PROVE FALSE
        <5> HIDE DEF g
        <5>1. j # i  BY <1>9, <4>5 DEF Locates
        <5>2. j \in warmed_after + 1 .. i - 1 /\ ~ (g >= j)  BY <1>4, <4>1, <4>4, <4>5, <5>1
        <5>3. j \in H  BY <3>2, <3>3, <4>5, <5>2 DEF Locates
        <5>4. QED BY <4>3, <5>2, <5>3
      <4> HIDE DEF g
      <4>6. g \in warmed_after + 1 .. i  BY <1>4, <4>1, <4>4
      <4>7. e.country = CountryCode[both[g].packet]  BY <3>4, <4>4, <4>5, <4>6 DEF LocationTrue
      <4>8. QED BY <3>3, <4>7 DEF g, H
    <3> HIDE DEF Heard
    <3>7. QED BY <3>2, <3>5, <3>6
  <2>3. QED BY <2>1, <2>2
<1>10. CountryIsLastKnown'
  <2>1. \A i \in DOMAIN both :
           LET m       == both[i].packet
               country == both[i].country
               known   == {j \in warmed_after + 1 .. i - 1 :
                              /\ Base(both[j].packet) = Base(m)
                              /\ CountryCode[both[j].packet] # NoCountry}
           IN CountryCode[m] = NoCountry /\ country # NoCountry =>
              /\ \E p \in aprs_packet : Base(p) = Base(m) /\ CountryCode[p] = country
              /\ known # {} => country = CountryCode[both[Max(known)].packet]
    BY <1>2, <1>9
  <2>2. emitted' = both /\ warmed_after' = warmed_after /\ aprs_packet' = aprs_packet  BY <1>1
  <2>3. QED BY <2>1, <2>2 DEF CountryIsLastKnown
<1>11. QED BY <1>6, <1>8, <1>10 DEF N

-----------------------------------------------------------------------------
(* What the browsers are sent *)

(* A poll takes visible rows that are newer than the last, oldest first.   *)
OfBatch(batch) ==
    /\ batch \in Seq(Rows) /\ Range(batch) \subseteq Fresh /\ IsInjective(batch)
    /\ \A i, j \in 1 .. Len(batch) : i < j => received_at[batch[i]] <= received_at[batch[j]]

SentInOrder(s) ==
    \A i, j \in DOMAIN s : i < j => s[i] # s[j] /\ received_at[s[i]] <= received_at[s[j]]

LEMMA TimeFacts ==
    ASSUME FeedTypes
    PROVE  \A m \in Rows : received_at[m] \in Nat \ {0}
BY FeedAssumption DEF FeedTypes

LEMMA LaterInOrder ==
    ASSUME NEW s \in Seq(Rows), SentInOrder(s), NEW m \in Rows, m \notin Range(s),
           \A x \in Range(s) : received_at[x] <= received_at[m]
    PROVE  s \o <<m>> \in Seq(Rows) /\ SentInOrder(s \o <<m>>) /\ Range(s \o <<m>>) = Range(s) \cup {m}
<1> DEFINE t == Append(s, m)
<1>1. s \o <<m>> = t  BY AppendIsConcat
<1>2. t \in Seq(Rows) /\ Range(t) = Range(s) \cup {m}  BY AppendFacts
<1>3. /\ DOMAIN t = 1 .. Len(s) + 1 /\ Len(s) \in Nat /\ DOMAIN s = 1 .. Len(s)
      /\ t[Len(s) + 1] = m /\ \A i \in 1 .. Len(s) : t[i] = s[i]
  OBVIOUS
<1> HIDE DEF t
<1>4. ASSUME NEW i \in DOMAIN t, NEW j \in DOMAIN t, i < j
      PROVE  t[i] # t[j] /\ received_at[t[i]] <= received_at[t[j]]
  <2>1. i \in 1 .. Len(s) /\ t[i] = s[i] /\ s[i] \in Range(s)  BY <1>3, <1>4 DEF Range
  <2>2. CASE j = Len(s) + 1  BY <1>3, <2>1, <2>2
  <2>3. CASE j # Len(s) + 1
    <3>1. j \in 1 .. Len(s) /\ t[j] = s[j]  BY <1>3, <2>3
    <3>2. QED BY <1>3, <1>4, <2>1, <3>1 DEF SentInOrder
  <2>4. QED BY <2>2, <2>3
<1>5. QED BY <1>1, <1>2, <1>4 DEF SentInOrder

(* Never two copies *)
LEMMA CopyFacts ==
    ASSUME FeedTypes, RoomsInv, NEW b \in Browsers, NEW e, e.country \in RowCountries \cup {NoCountry}
    PROVE  Copies(e, b) \in {<<>>, <<e.packet>>}
<1>1. rooms[b] \subseteq {"own", "live_feed"} \cup RowCountries  BY DEF FeedTypes
<1>2. NoCountry \notin {"own", "live_feed"}  BY FeedAssumption
<1>3. NoCountry \notin RowCountries  BY DEF RowCountries
<1>4. "live_feed" \in rooms[b] => e.country \notin rooms[b]  BY <1>1, <1>2, <1>3 DEF RoomsInv
<1> DEFINE one == <<e.packet>>
<1>5. one \in Seq({e.packet})  OBVIOUS
<1> HIDE DEF one
<1>6. <<>> \o <<>> = <<>> /\ <<>> \o one = one /\ one \o <<>> = one
  <2>1. <<>> \in Seq({e.packet})  OBVIOUS
  <2>2. QED BY <1>5, <2>1, ConcatEmptySeq
<1>7. CASE "live_feed" \in rooms[b]  BY <1>4, <1>6, <1>7 DEF Copies, one
<1>8. CASE "live_feed" \notin rooms[b]  BY <1>6, <1>8 DEF Copies, one
<1>9. QED BY <1>7, <1>8

LEMMA SentSteps ==
    ASSUME FeedTypes, RoomsInv, NEW b \in Browsers, NEW batch \in Seq(Rows),
           \A i \in 1 .. Len(batch) : ShowingsOf(batch)[i].country \in RowCountries \cup {NoCountry}
    PROVE  LET s == FeedAfter(batch, b)
           IN /\ s[0] = feed[b]
              /\ \A n \in 0 .. Len(batch) : s[n] \in Seq(Rows)
              /\ \A n \in 1 .. Len(batch) : s[n] \in {s[n - 1], s[n - 1] \o <<batch[n]>>}
<1> DEFINE N == Len(batch)
           V == Seq(Rows)
           copy(n) == Copies(ShowingsOf(batch)[n], b)
           step == [n \in 1 .. N |-> [x \in V |-> x \o copy(n)]]
           Follows(g) == g = [n \in 0 .. N |-> IF n = 0 THEN feed[b] ELSE g[n - 1] \o copy(n)]
           c == CHOOSE g : Follows(g)
<1>1. N \in Nat /\ \A n \in 1 .. N : batch[n] \in Rows /\ ShowingsOf(batch)[n].packet = batch[n]
  BY DEF ShowingsOf
<1>2. \A n \in 1 .. N : copy(n) \in {<<>>, <<batch[n]>>} /\ copy(n) \in V
  <2>1. ASSUME NEW n \in 1 .. N PROVE copy(n) \in {<<>>, <<batch[n]>>}
    BY <1>1, CopyFacts
  <2>2. <<>> \in V /\ \A n \in 1 .. N : <<batch[n]>> \in V  BY <1>1
  <2> HIDE DEF copy, V, N
  <2>3. QED BY <2>1, <2>2
<1> HIDE DEF copy
<1>3. step \in [1 .. N -> [V -> V]]
  <2>1. ASSUME NEW n \in 1 .. N, NEW x \in V PROVE x \o copy(n) \in V
    BY <1>2, ConcatProperties
  <2>2. QED BY <2>1
<1>4. \A n \in 1 .. N, x \in V : step[n][x] = x \o copy(n)  OBVIOUS
<1> HIDE DEF step, N
<1>5. feed[b] \in V  BY DEF FeedTypes
<1>6. PICK g \in [0 .. N -> V] : Iteration(g, N, feed[b], step)
  <2> HIDE DEF V
  <2>1. QED BY <1>1, <1>3, <1>5, Iterates
<1>7. Follows(g)
  <2>1. ASSUME NEW n \in 0 .. N PROVE g[n] = IF n = 0 THEN feed[b] ELSE g[n - 1] \o copy(n)
    <3>1. n # 0 => n \in 1 .. N /\ g[n - 1] \in V  BY <1>1, <1>6
    <3>2. g[n] = IF n = 0 THEN feed[b] ELSE step[n][g[n - 1]]  BY <1>6, <3>1 DEF Iteration
    <3>3. QED BY <1>4, <3>1, <3>2
  <2>2. g = [n \in 0 .. N |-> g[n]]  BY <1>6
  <2>3. QED BY <2>1, <2>2
<1>8. Follows(c)
  <2> HIDE DEF Follows
  <2>1. QED BY <1>7
<1>9. FeedAfter(batch, b) = c  BY DEF FeedAfter, N, copy
<1> HIDE DEF c
<1>10. c[0] = feed[b] /\ \A n \in 1 .. N : c[n] = c[n - 1] \o copy(n)
  <2>1. \A n \in 0 .. N : c[n] = IF n = 0 THEN feed[b] ELSE c[n - 1] \o copy(n)  BY <1>8
  <2>2. 0 \in 0 .. N /\ \A n \in 1 .. N : n \in 0 .. N /\ n # 0  BY <1>1
  <2> HIDE DEF Follows
  <2>3. QED BY <2>1, <2>2
<1> DEFINE Good == {n \in 0 .. N : c[n] \in V}
<1>11. \A n \in 0 .. N : n \in Good
  <2>1. 0 \in Good  BY <1>1, <1>5, <1>10
  <2>2. \A n \in 1 .. N : n - 1 \in Good => n \in Good
    <3>1. ASSUME NEW n \in 1 .. N, c[n - 1] \in V PROVE c[n] \in V
      <4>1. copy(n) \in Seq(Rows) /\ c[n - 1] \in Seq(Rows)  BY <1>2, <3>1
      <4>2. c[n - 1] \o copy(n) \in Seq(Rows)  BY <4>1, ConcatProperties
      <4>3. QED BY <1>10, <4>2
    <3>2. QED BY <1>1, <3>1
  <2> HIDE DEF Good
  <2>3. QED BY <1>1, <2>1, <2>2, Climb
<1>12. ASSUME NEW n \in 1 .. N  PROVE c[n] \in {c[n - 1], c[n - 1] \o <<batch[n]>>}
  <2>1. c[n - 1] \in V  BY <1>1, <1>11
  <2>2. c[n - 1] \o <<>> = c[n - 1]  BY <2>1, ConcatEmptySeq
  <2>3. QED BY <1>2, <1>10, <2>2
<1>13. QED BY <1>9, <1>10, <1>11, <1>12 DEF N

LEMMA FeedHolds ==
    ASSUME FeedTypes, RoomsInv, ShownInv, FeedInOrder, NEW batch, OfBatch(batch), NEW b \in Browsers,
           \A i \in 1 .. Len(batch) : ShowingsOf(batch)[i].country \in RowCountries \cup {NoCountry}
    PROVE  LET s == FeedAfter(batch, b)[Len(batch)]
           IN s \in Seq(Rows) /\ SentInOrder(s) /\ Range(s) \subseteq Emitted \cup Range(batch)
<1> DEFINE N == Len(batch)
           c == FeedAfter(batch, b)
           Taken(n) == {batch[i] : i \in 1 .. n}
           Good == {n \in 0 .. N : SentInOrder(c[n]) /\ Range(c[n]) \subseteq Emitted \cup Taken(n)}
<1>1. batch \in Seq(Rows) /\ N \in Nat /\ DOMAIN batch = 1 .. N  BY DEF OfBatch
<1>2. /\ c[0] = feed[b]
      /\ \A n \in 0 .. N : c[n] \in Seq(Rows)
      /\ \A n \in 1 .. N : c[n] \in {c[n - 1], c[n - 1] \o <<batch[n]>>}
  BY <1>1, SentSteps
<1> HIDE DEF c, N
<1>3. 0 \in Good  BY <1>1, <1>2 DEF FeedInOrder, SentInOrder, ShownInv
<1>4. ASSUME NEW n \in 1 .. N, n - 1 \in Good PROVE n \in Good
  <2>1. n \in 0 .. N /\ n - 1 \in 0 .. N  BY <1>1
  <2>2. SentInOrder(c[n - 1]) /\ Range(c[n - 1]) \subseteq Emitted \cup Taken(n - 1) /\ c[n - 1] \in Seq(Rows)
    BY <1>2, <1>4, <2>1
  <2>3. Taken(n) = Taken(n - 1) \cup {batch[n]}
    <3>1. 1 .. n = (1 .. n - 1) \cup {n}  BY <1>1
    <3>2. QED BY <3>1
  <2>4. CASE c[n] = c[n - 1]  BY <2>1, <2>2, <2>3, <2>4
  <2>5. CASE c[n] = c[n - 1] \o <<batch[n]>>
    <3> DEFINE m == batch[n]
    <3>1. m \in Rows /\ m \in Fresh /\ m \in Range(batch)  BY <1>1 DEF OfBatch, Range
    <3>2. \A x \in Emitted : received_at[x] <= last_packet_time /\ received_at[x] \in Nat
      <4>1. emitted \in Seq(Showings) /\ aprs_packet \subseteq Rows  BY DEF FeedTypes
      <4>2. \A e \in Showings : e.packet \in Rows  BY <4>1 DEF Showings
      <4>3. Range(emitted) \subseteq Showings  BY <4>1, RangeFacts
      <4>4. QED BY <4>2, <4>3, TimeFacts DEF ShownInv, Emitted
    <3>3. received_at[m] > last_packet_time /\ received_at[m] \in Nat /\ last_packet_time \in Nat
      BY <3>1, TimeFacts DEF Fresh, FeedTypes
    <3>4. \A x \in Emitted : x # m /\ received_at[x] <= received_at[m]  BY <3>2, <3>3
    <3>5. \A x \in Taken(n - 1) : x # m /\ received_at[x] <= received_at[m]
      <4>1. ASSUME NEW i \in 1 .. n - 1  PROVE batch[i] # m /\ received_at[batch[i]] <= received_at[m]
        <5>1. i \in 1 .. N /\ i < n  BY <1>1
        <5>2. QED BY <1>1, <5>1 DEF OfBatch, IsInjective, N
      <4>2. QED BY <4>1
    <3> HIDE DEF Taken, m
    <3>6. m \notin Range(c[n - 1]) /\ \A x \in Range(c[n - 1]) : received_at[x] <= received_at[m]
      BY <2>2, <3>4, <3>5
    <3>7. SentInOrder(c[n - 1] \o <<m>>) /\ Range(c[n - 1] \o <<m>>) = Range(c[n - 1]) \cup {m}
      BY <2>2, <3>1, <3>6, LaterInOrder
    <3>8. QED BY <2>1, <2>2, <2>3, <2>5, <3>7 DEF m
  <2>6. QED BY <1>2, <2>4, <2>5
<1>5. N \in Good
  <2>1. \A n \in 1 .. N : n - 1 \in Good => n \in Good  BY <1>4
  <2> HIDE DEF Good
  <2>2. \A n \in 0 .. N : n \in Good  BY <1>1, <1>3, <2>1, Climb
  <2>3. QED BY <1>1, <2>2
<1>6. Taken(N) = Range(batch)  BY <1>1 DEF Range
<1>7. c[N] \in Seq(Rows)  BY <1>1, <1>2
<1> HIDE DEF Taken
<1>8. QED BY <1>5, <1>6, <1>7 DEF c, N

-----------------------------------------------------------------------------
(* A poll as a whole *)

LEMMA EmittedGrows ==
    ASSUME FeedTypes, NEW batch \in Seq(Rows), Emit(batch)
    PROVE  Emitted' = Emitted \cup Range(batch)
<1> DEFINE both == emitted \o ShowingsOf(batch)
           K == Len(emitted)
           N == Len(batch)
<1>1. emitted' = both  BY EmitFacts
<1>2. /\ K \in Nat /\ N \in Nat /\ DOMAIN both = 1 .. K + N
      /\ \A i \in 1 .. K : both[i] = emitted[i]
      /\ \A i \in 1 .. N : both[K + i].packet = batch[i]
  BY ShownFacts
<1>3. DOMAIN emitted = 1 .. K /\ DOMAIN batch = 1 .. N  BY DEF FeedTypes
<1> HIDE DEF both, K, N
<1>4. {both[i].packet : i \in 1 .. K + N} = {emitted[i].packet : i \in 1 .. K} \cup {batch[i] : i \in 1 .. N}
  <2>1. ASSUME NEW i \in 1 .. K + N
        PROVE  both[i].packet \in {emitted[j].packet : j \in 1 .. K} \cup {batch[j] : j \in 1 .. N}
    <3>1. CASE i \in 1 .. K  BY <1>2, <3>1
    <3>2. CASE i \notin 1 .. K
      <4>1. i - K \in 1 .. N /\ i = K + (i - K)  BY <1>2, <3>2
      <4>2. both[K + (i - K)].packet = batch[i - K]  BY <1>2, <4>1
      <4>3. QED BY <4>1, <4>2
    <3>3. QED BY <3>1, <3>2
  <2>2. ASSUME NEW i \in 1 .. K  PROVE emitted[i].packet \in {both[j].packet : j \in 1 .. K + N}
    <3>1. i \in 1 .. K + N  BY <1>2
    <3>2. QED BY <1>2, <3>1
  <2>3. ASSUME NEW i \in 1 .. N  PROVE batch[i] \in {both[j].packet : j \in 1 .. K + N}
    <3>1. K + i \in 1 .. K + N  BY <1>2
    <3>2. QED BY <1>2, <3>1
  <2>4. QED BY <2>1, <2>2, <2>3
<1>5. {e.packet : e \in Range(both)} = {both[i].packet : i \in 1 .. K + N}  BY <1>2 DEF Range
<1>6. Emitted = {emitted[i].packet : i \in 1 .. K}  BY <1>3 DEF Emitted, Range
<1>7. Range(batch) = {batch[i] : i \in 1 .. N}  BY <1>3 DEF Range
<1>8. Emitted' = {e.packet : e \in Range(both)}  BY <1>1 DEF Emitted
<1>9. QED BY <1>4, <1>5, <1>6, <1>7, <1>8

(* The last row of the batch is the newest. *)
LEMMA TimeMoves ==
    ASSUME FeedTypes, NEW batch, OfBatch(batch), Emit(batch)
    PROVE  /\ Len(batch) = 0 => last_packet_time' = last_packet_time
           /\ Len(batch) # 0 => /\ batch[Len(batch)] \in Range(batch)
                                /\ last_packet_time' = received_at[batch[Len(batch)]]
           /\ last_packet_time' \in Nat /\ last_packet_time <= last_packet_time'
           /\ \A m \in Range(batch) : received_at[m] <= last_packet_time'
<1> DEFINE T == {last_packet_time} \cup {received_at[m] : m \in Range(batch)}
           N == Len(batch)
<1>1. last_packet_time' = Max(T)  BY EmitFacts
<1>2. N \in Nat /\ DOMAIN batch = 1 .. N /\ \A i \in 1 .. N : batch[i] \in Range(batch)
  BY DEF OfBatch, Range
<1>3. last_packet_time \in Nat
      /\ \A m \in Range(batch) : received_at[m] \in Nat /\ received_at[m] > last_packet_time
  <2>1. Fresh \subseteq Rows  BY DEF Fresh, FeedTypes
  <2>2. Range(batch) \subseteq Fresh  BY DEF OfBatch
  <2>3. QED BY <2>1, <2>2, TimeFacts DEF Fresh, FeedTypes
<1>4. \A x \in T : x \in Nat  BY <1>3
<1>5. ASSUME NEW x \in T, \A y \in T : x >= y  PROVE Max(T) = x
  <2>1. Max(T) \in T /\ \A y \in T : Max(T) >= y
    <3> HIDE DEF T
    <3>1. QED BY <1>5 DEF Max
  <2> HIDE DEF T
  <2>2. QED BY <1>4, <1>5, <2>1
<1>6. CASE N = 0
  <2>1. Range(batch) = {}  BY <1>2, <1>6 DEF Range
  <2>2. T = {last_packet_time}  BY <2>1
  <2>3. Max(T) = last_packet_time  BY <1>3, <1>5, <2>2
  <2>4. QED BY <1>1, <1>3, <1>6, <2>1, <2>3
<1>7. CASE N # 0
  <2> DEFINE m == batch[N]
  <2>1. N \in 1 .. N /\ m \in Range(batch)  BY <1>2, <1>7
  <2>2. \A i \in 1 .. N : received_at[batch[i]] <= received_at[m]
    <3>1. ASSUME NEW i \in 1 .. N, i # N  PROVE received_at[batch[i]] <= received_at[m]
      <4>1. i < N
        <5>1. i \in Int /\ i <= N /\ N \in Int  BY <1>2
        <5> HIDE DEF N, m, T
        <5>2. QED BY <3>1, <5>1
      <4>2. QED BY <2>1, <4>1 DEF OfBatch
    <3>2. received_at[m] \in Nat  BY <1>3, <2>1
    <3>3. QED BY <3>1, <3>2
  <2> HIDE DEF m
  <2>3. \A x \in Range(batch) : received_at[x] <= received_at[m]  BY <1>2, <2>2 DEF Range
  <2>4. received_at[m] \in T /\ \A y \in T : received_at[m] >= y  BY <1>3, <2>1, <2>3
  <2>5. Max(T) = received_at[m]
    <3> HIDE DEF T
    <3>1. QED BY <1>5, <2>4
  <2>6. last_packet_time' = received_at[m]  BY <1>1, <2>5
  <2> HIDE DEF T, N
  <2>7. QED BY <1>3, <1>7, <2>1, <2>3, <2>6 DEF N, m
<1>8. QED BY <1>6, <1>7

PollKeeps ==
    FeedTypes /\ RoomsInv /\ ShownInv /\ StationInv /\ FeedInOrder /\ CountryIsLastKnown

LEMMA EmitHolds ==
    ASSUME PollKeeps, NEW batch, OfBatch(batch), Emit(batch),
           UNCHANGED <<received_at, aprs_packet, warmed_after, rooms>>
    PROVE  PollKeeps'
<1>1. batch \in Seq(Rows) /\ Range(batch) \subseteq aprs_packet /\ Len(batch) \in Nat
  BY DEF OfBatch, Fresh
<1>2. /\ StationInv' /\ CountryIsLastKnown'
      /\ \A i \in 1 .. Len(batch) : ShowingsOf(batch)[i].country \in RowCountries \cup {NoCountry}
  BY <1>1, CountriesHold DEF PollKeeps
<1>3. feed' = [b \in Browsers |-> FeedAfter(batch, b)[Len(batch)]]  BY EmitFacts
<1>4. \A b \in Browsers : feed'[b] \in Seq(Rows) /\ SentInOrder(feed'[b]) /\ Range(feed'[b]) \subseteq Emitted \cup Range(batch)
  BY <1>2, <1>3, FeedHolds DEF PollKeeps
<1>5. Emitted' = Emitted \cup Range(batch)  BY <1>1, EmittedGrows DEF PollKeeps
<1>6. /\ Len(batch) = 0 => last_packet_time' = last_packet_time
      /\ Len(batch) # 0 => /\ batch[Len(batch)] \in Range(batch)
                           /\ last_packet_time' = received_at[batch[Len(batch)]]
      /\ last_packet_time' \in Nat /\ last_packet_time <= last_packet_time'
      /\ \A m \in Range(batch) : received_at[m] <= last_packet_time'
  BY TimeMoves DEF PollKeeps
<1>7. FeedTypes'
  <2>1. received_at' \in Arrivals /\ aprs_packet' \subseteq Rows /\ IsFiniteSet(aprs_packet')
    BY DEF PollKeeps, FeedTypes
  <2>2. emitted' \in Seq(Showings) /\ Len(emitted') = Len(emitted) + Len(batch) /\ Len(emitted) \in Nat
    <3>1. emitted' = emitted \o ShowingsOf(batch)  BY EmitFacts
    <3>2. emitted \in Seq(Showings)  BY DEF PollKeeps, FeedTypes
    <3>3. \A i \in 1 .. Len(batch) : ShowingsOf(batch)[i] \in Showings
      <4>1. DOMAIN batch = 1 .. Len(batch)  BY <1>1
      <4>2. ASSUME NEW i \in 1 .. Len(batch)  PROVE ShowingsOf(batch)[i] \in Showings
        <5> DEFINE co == LastCountry(CacheAfter(batch)[i], Base(batch[i]))
        <5>1. ShowingsOf(batch)[i] = [packet |-> batch[i], country |-> co]  BY <4>1 DEF ShowingsOf
        <5>2. co \in RowCountries \cup {NoCountry}  BY <1>2, <5>1
        <5> HIDE DEF co
        <5>3. batch[i] \in aprs_packet  BY <1>1, <4>1 DEF Range
        <5>4. QED BY <5>1, <5>2, <5>3 DEF Showings
      <4>3. QED BY <4>2
    <3>4. DOMAIN ShowingsOf(batch) = 1 .. Len(batch) /\ ShowingsOf(batch) = [i \in 1 .. Len(batch) |-> ShowingsOf(batch)[i]]
      BY <1>1 DEF ShowingsOf
    <3>5. ShowingsOf(batch) \in [1 .. Len(batch) -> Showings]  BY <3>3, <3>4
    <3>6. ShowingsOf(batch) \in Seq(Showings)  BY <1>1, <3>5, SeqDef
    <3>7. Len(ShowingsOf(batch)) = Len(batch)  BY <1>1, <3>4, <3>6
    <3>8. /\ emitted \o ShowingsOf(batch) \in Seq(Showings)
          /\ Len(emitted \o ShowingsOf(batch)) = Len(emitted) + Len(ShowingsOf(batch))
      BY <3>2, <3>6, ConcatProperties
    <3>9. Len(emitted) \in Nat  BY <3>2
    <3>10. QED BY <3>1, <3>7, <3>8, <3>9
  <2>3. Showings' = Showings  BY DEF Showings
  <2>4. warmed_after' \in 0 .. Len(emitted')
    <3>1. warmed_after \in 0 .. Len(emitted)  BY DEF PollKeeps, FeedTypes
    <3>2. warmed_after' = warmed_after  OBVIOUS
    <3>3. QED BY <1>1, <2>2, <3>1, <3>2
  <2>5. feed' \in [Browsers -> Seq(Rows)]
    <3>1. DOMAIN feed' = Browsers /\ feed' = [b \in Browsers |-> feed'[b]]  BY <1>3
    <3>2. QED BY <1>4, <3>1
  <2>6. rooms' \in [Browsers -> SUBSET ({"own", "live_feed"} \cup RowCountries)]
    BY DEF PollKeeps, FeedTypes
  <2>7. QED BY <1>6, <2>1, <2>2, <2>3, <2>4, <2>5, <2>6 DEF FeedTypes
<1>8. RoomsInv'  BY DEF PollKeeps, RoomsInv
<1>9. FeedInOrder'  BY <1>4 DEF FeedInOrder, SentInOrder
<1>10. ShownInv'
  <2>1. \A b \in Browsers : Range(feed'[b]) \subseteq Emitted'  BY <1>4, <1>5
  <2>2. \A m \in Emitted' : received_at'[m] <= last_packet_time'
    <3>1. ASSUME NEW m \in Emitted  PROVE received_at[m] <= last_packet_time'
      <4>1. received_at[m] <= last_packet_time  BY DEF PollKeeps, ShownInv
      <4>2. received_at[m] \in Nat /\ last_packet_time \in Nat
        <5>1. emitted \in Seq(Showings) /\ aprs_packet \subseteq Rows  BY DEF PollKeeps, FeedTypes
        <5>2. \A e \in Showings : e.packet \in Rows  BY <5>1 DEF Showings
        <5>3. Range(emitted) \subseteq Showings  BY <5>1, RangeFacts
        <5>4. m \in Rows  BY <5>2, <5>3 DEF Emitted
        <5>5. QED BY <5>4, TimeFacts DEF PollKeeps, FeedTypes
      <4>3. QED BY <1>6, <4>1, <4>2
    <3>2. received_at' = received_at  OBVIOUS
    <3>3. QED BY <1>5, <1>6, <3>1, <3>2
  <2>3. last_packet_time' = 0 \/ \E m \in Emitted' : received_at'[m] = last_packet_time'
    <3>1. CASE Len(batch) = 0  BY <1>5, <1>6, <3>1 DEF PollKeeps, ShownInv
    <3>2. CASE Len(batch) # 0  BY <1>5, <1>6, <3>2
    <3>3. QED BY <3>1, <3>2
  <2>4. QED BY <2>1, <2>2, <2>3 DEF ShownInv
<1>11. QED BY <1>2, <1>7, <1>8, <1>9, <1>10 DEF PollKeeps

-----------------------------------------------------------------------------
(* Which rows are skipped *)

Crowd == {m \in Fresh :
    Cardinality({n \in Fresh \ {m} : received_at[n] >= received_at[m]}) >= Limit}

(* A row that the query does not answer has Limit others before it. *)
LEMMA BatchFacts ==
    ASSUME FeedTypes, NEW batch \in Batches
    PROVE  OfBatch(batch) /\ Fresh \ Range(batch) \subseteq Crowd
<1> DEFINE k == Min({Limit, Cardinality(Fresh)})
<1>1. PICK S \in kSubset(k, Fresh) : batch \in SetToSeqs(S)  BY DEF Batches
<1>2. /\ \A i, j \in DOMAIN batch : i < j => received_at[batch[i]] <= received_at[batch[j]]
      /\ \A i \in DOMAIN batch, m \in Fresh \ Range(batch) : received_at[m] <= received_at[batch[i]]
  BY DEF Batches
<1>3. Fresh \subseteq Rows /\ IsFiniteSet(Fresh) /\ Cardinality(Fresh) \in Nat
  <2>1. Fresh \subseteq aprs_packet /\ aprs_packet \subseteq Rows /\ IsFiniteSet(aprs_packet)
    BY DEF Fresh, FeedTypes
  <2>2. QED BY <2>1, FS_Subset, FS_CardinalityType
<1>4. Limit \in Nat \ {0}  BY FeedAssumption
<1>5. k \in {Limit, Cardinality(Fresh)} /\ k <= Limit /\ k <= Cardinality(Fresh)
  <2>1. \E x \in {Limit, Cardinality(Fresh)} : \A y \in {Limit, Cardinality(Fresh)} : x =< y
    <3>1. CASE Limit <= Cardinality(Fresh)  BY <1>3, <1>4, <3>1
    <3>2. CASE ~ (Limit <= Cardinality(Fresh))  BY <1>3, <1>4, <3>2
    <3>3. QED BY <3>1, <3>2
  <2>2. QED BY <2>1 DEF Min
<1> HIDE DEF k
<1>6. S \subseteq Fresh /\ Cardinality(S) = k /\ k \in Nat  BY <1>1, <1>3, <1>4, <1>5 DEF kSubset
<1>7. batch \in [1 .. k -> S] /\ \A i, j \in 1 .. k : i # j => batch[i] # batch[j]
  BY <1>1, <1>6 DEF SetToSeqs
<1>8. batch \in Seq(S) /\ DOMAIN batch = 1 .. k /\ Len(batch) = k /\ IsInjective(batch)
  <2>1. batch \in Seq(S)  BY <1>6, <1>7, SeqDef
  <2>2. DOMAIN batch = 1 .. k  BY <1>7
  <2>3. Len(batch) = k  BY <1>6, <2>1, <2>2
  <2>4. IsInjective(batch)  BY <1>7, <2>2 DEF IsInjective
  <2>5. QED BY <2>1, <2>2, <2>3, <2>4
<1>9. Range(batch) \subseteq S /\ IsFiniteSet(Range(batch)) /\ Cardinality(Range(batch)) = k
  BY <1>8, RangeFacts, RangeSize
<1>10. OfBatch(batch)
  <2>1. batch \in Seq(Rows)
    <3>1. batch \in [1 .. k -> Rows]  BY <1>3, <1>6, <1>7
    <3>2. QED BY <1>6, <3>1, SeqDef
  <2>2. QED BY <1>2, <1>6, <1>8, <1>9, <2>1 DEF OfBatch
<1>11. ASSUME NEW m \in Fresh \ Range(batch)  PROVE m \in Crowd
  <2> DEFINE W == {n \in Fresh \ {m} : received_at[n] >= received_at[m]}
  <2>1. Range(batch) \subseteq W
    <3>1. ASSUME NEW i \in DOMAIN batch  PROVE batch[i] \in W
      <4>1. batch[i] \in Range(batch) /\ batch[i] \in Fresh /\ batch[i] # m
        BY <1>6, <1>9, <1>11 DEF Range
      <4>2. received_at[m] <= received_at[batch[i]]  BY <1>2, <1>11
      <4>3. received_at[m] \in Nat /\ received_at[batch[i]] \in Nat  BY <1>3, <4>1, TimeFacts
      <4>4. QED BY <4>1, <4>2, <4>3
    <3> HIDE DEF W
    <3>2. QED BY <3>1 DEF Range
  <2>2. W \subseteq Fresh /\ IsFiniteSet(W) /\ Cardinality(W) \in Nat
    <3>1. W \subseteq Fresh  OBVIOUS
    <3> HIDE DEF W
    <3>2. QED BY <1>3, <3>1, FS_Subset, FS_CardinalityType
  <2>3. k <= Cardinality(W)
    <3> HIDE DEF W
    <3>1. QED BY <1>9, <2>1, <2>2, FS_Subset
  <2>4. k = Limit
    <3>1. CASE k = Cardinality(Fresh)
      <4>1. Range(batch) \subseteq Fresh  BY <1>6, <1>9
      <4>2. Range(batch) = Fresh  BY <1>3, <1>9, <3>1, <4>1, FS_Subset
      <4>3. QED BY <1>11, <4>2
    <3>2. QED BY <1>5, <3>1
  <2> HIDE DEF W
  <2>5. Cardinality(W) >= Limit  BY <1>4, <2>2, <2>3, <2>4
  <2>6. QED BY <2>5 DEF W, Crowd
<1>12. QED BY <1>10, <1>11

LEMMA PrefixFacts ==
    ASSUME NEW batch, OfBatch(batch), NEW n \in 0 .. Len(batch)
    PROVE  LET part == SubSeq(batch, 1, n)
           IN /\ OfBatch(part) /\ Len(part) = n /\ Range(part) = {batch[i] : i \in 1 .. n}
              /\ \A i \in 1 .. n : part[i] = batch[i]
<1> DEFINE part == SubSeq(batch, 1, n)
<1>1. batch \in Seq(Rows) /\ Len(batch) \in Nat /\ DOMAIN batch = 1 .. Len(batch)  BY DEF OfBatch
<1>2. 1 \in 1 .. Len(batch) + 1 /\ n \in 1 - 1 .. Len(batch)  BY <1>1
<1>3. /\ part \in Seq(Rows) /\ Len(part) = n - 1 + 1
      /\ \A i \in 1 .. n - 1 + 1 : part[i] = batch[1 + i - 1]
  BY <1>1, <1>2, PartFacts
<1> HIDE DEF part
<1>4. n - 1 + 1 = n /\ \A i \in 1 .. n : 1 + i - 1 = i /\ i \in 1 .. Len(batch)  BY <1>1
<1>5. part \in Seq(Rows) /\ Len(part) = n /\ DOMAIN part = 1 .. n /\ \A i \in 1 .. n : part[i] = batch[i]
  BY <1>3, <1>4
<1>6. Range(part) = {batch[i] : i \in 1 .. n}  BY <1>5 DEF Range
<1>7. Range(part) \subseteq Range(batch)  BY <1>1, <1>4, <1>6 DEF Range
<1>8. OfBatch(part)  BY <1>1, <1>4, <1>5, <1>7 DEF OfBatch, IsInjective
<1>9. QED BY <1>5, <1>6, <1>8 DEF part

(* The rows that a poll leaves out, be it that it takes only n of them *)
LEMMA SkipsHold ==
    ASSUME PollKeeps, SkipsExplained, NEW batch \in Batches, NEW n \in 0 .. Len(batch),
           NEW part, part = SubSeq(batch, 1, n), Emit(part), NoteCrowd,
           UNCHANGED <<received_at, aprs_packet, late>>
    PROVE  SkipsExplained'
<1>1. OfBatch(batch) /\ Fresh \ Range(batch) \subseteq Crowd  BY BatchFacts DEF PollKeeps
<1>2. OfBatch(part) /\ Len(part) = n /\ Range(part) = {batch[i] : i \in 1 .. n}
      /\ \A i \in 1 .. n : part[i] = batch[i]
  BY <1>1, PrefixFacts
<1>3. part \in Seq(Rows) /\ n \in Nat /\ DOMAIN batch = 1 .. Len(batch) /\ Len(batch) \in Nat
  <2>1. batch \in Seq(Rows) /\ part \in Seq(Rows)  BY <1>1, <1>2 DEF OfBatch
  <2>2. Len(batch) \in Nat  BY <2>1
  <2>3. QED BY <2>1, <2>2
<1>4. Emitted' = Emitted \cup Range(part)  BY <1>3, EmittedGrows DEF PollKeeps
<1>5. /\ Len(part) = 0 => last_packet_time' = last_packet_time
      /\ Len(part) # 0 => /\ part[Len(part)] \in Range(part)
                          /\ last_packet_time' = received_at[part[Len(part)]]
  BY <1>2, TimeMoves DEF PollKeeps
<1>6. crowded' = crowded \cup Crowd  BY DEF NoteCrowd, Crowd
<1>7. SUFFICES ASSUME NEW m \in aprs_packet, m \notin Emitted, m \notin Range(part),
                      received_at[m] <= last_packet_time'
               PROVE  \/ m \in late
                      \/ \E x \in Emitted' : received_at[x] = received_at[m]
                      \/ m \in crowded'
  BY <1>4 DEF SkipsExplained
<1>8. CASE received_at[m] <= last_packet_time
  BY <1>4, <1>6, <1>7, <1>8 DEF SkipsExplained
<1>9. CASE ~ (received_at[m] <= last_packet_time)
  <2>1. m \in Rows /\ received_at[m] \in Nat /\ last_packet_time \in Nat
    BY TimeFacts DEF PollKeeps, FeedTypes
  <2>2. m \in Fresh  BY <1>9, <2>1 DEF Fresh
  <2>3. CASE m \notin Range(batch)  BY <1>1, <1>6, <2>2, <2>3
  <2>4. CASE m \in Range(batch)
    <3>1. PICK j \in 1 .. Len(batch) : m = batch[j]  BY <1>3, <2>4 DEF Range
    <3>2. j > n  BY <1>2, <1>3, <1>7, <3>1
    <3>3. n # 0  BY <1>2, <1>5, <1>7, <1>9
    <3>4. n \in 1 .. Len(batch) /\ n < j  BY <1>3, <3>2, <3>3
    <3>5. received_at[batch[n]] <= received_at[m]  BY <1>1, <3>1, <3>4 DEF OfBatch
    <3>6. part[n] = batch[n] /\ batch[n] \in Range(part) /\ last_packet_time' = received_at[batch[n]]
      BY <1>2, <1>5, <3>3, <3>4
    <3>7. received_at[batch[n]] \in Nat
      <4>1. batch[n] \in Rows  BY <1>1, <3>4 DEF OfBatch
      <4>2. QED BY <4>1, TimeFacts DEF PollKeeps
    <3>8. received_at[batch[n]] = received_at[m]  BY <1>7, <2>1, <3>5, <3>6, <3>7
    <3>9. QED BY <1>4, <3>6, <3>8
  <2>5. QED BY <2>3, <2>4
<1>10. QED BY <1>8, <1>9

-----------------------------------------------------------------------------
LEMMA PollHolds ==
    ASSUME FeedInv, Poll \/ PollFails
    PROVE  FeedInv'
<1>1. PollKeeps /\ SkipsExplained  BY DEF FeedInv, PollKeeps
<1>2. NoteCrowd /\ UNCHANGED <<received_at, aprs_packet, warmed_after, rooms, late>>
  BY DEF Poll, PollFails
<1>3. \E batch \in Batches : \E n \in 0 .. Len(batch) : Emit(SubSeq(batch, 1, n))
  <2>1. \A batch \in Batches : batch \in Seq(Rows)
    BY <1>1, BatchFacts DEF PollKeeps, OfBatch
  <2>2. CASE Poll
    <3>1. PICK batch \in Batches : Emit(batch)  BY <2>2 DEF Poll
    <3>2. SubSeq(batch, 1, Len(batch)) = batch /\ Len(batch) \in 0 .. Len(batch)
      BY <2>1, SubSeqFull
    <3>3. QED BY <3>1, <3>2
  <2>3. CASE PollFails
    <3>1. PICK batch \in Batches : \E n \in {0} \cup 1 .. Len(batch) - 1 : Emit(SubSeq(batch, 1, n))
      BY <2>3 DEF PollFails
    <3>2. Len(batch) \in Nat  BY <2>1
    <3>3. QED BY <3>1, <3>2
  <2>4. QED BY <2>2, <2>3
<1>4. PICK batch \in Batches : \E n \in 0 .. Len(batch) : Emit(SubSeq(batch, 1, n))  BY <1>3
<1>5. PICK n \in 0 .. Len(batch) : Emit(SubSeq(batch, 1, n))  BY <1>4
<1> DEFINE part == SubSeq(batch, 1, n)
<1>6. OfBatch(part)  BY <1>1, BatchFacts, PrefixFacts DEF PollKeeps
<1>7. Emit(part)  BY <1>5
<1>8. SkipsExplained'  BY <1>1, <1>2, <1>7, SkipsHold
<1> HIDE DEF part
<1>9. PollKeeps'  BY <1>1, <1>2, <1>6, <1>7, EmitHolds
<1>10. QED BY <1>8, <1>9 DEF FeedInv, PollKeeps

LEMMA CommitHolds ==
    ASSUME FeedInv, NEW m \in Rows, Commit(m)
    PROVE  FeedInv'
<1>1. /\ aprs_packet' = aprs_packet \cup {m}
      /\ UNCHANGED <<received_at, last_packet_time, emitted, crowded, station_cache, warmed_after, rooms, feed>>
  BY DEF Commit, poller, cacheVars, sockets
<1>2. FeedTypes /\ RoomsInv /\ ShownInv /\ StationInv /\ FeedInOrder /\ SkipsExplained /\ CountryIsLastKnown
  BY DEF FeedInv
<1>3. Emitted' = Emitted  BY <1>1 DEF Emitted
<1>4. FeedTypes'
  <2>1. aprs_packet' \subseteq Rows /\ IsFiniteSet(aprs_packet')
    BY <1>1, <1>2, FS_AddElement DEF FeedTypes
  <2>2. emitted' \in Seq(Showings')
    <3>1. Showings \subseteq Showings'  BY <1>1 DEF Showings
    <3>2. emitted \in Seq(Showings)  BY <1>2 DEF FeedTypes
    <3>3. emitted \in Seq(Showings')  BY <3>1, <3>2, SeqMonotonic
    <3>4. QED BY <1>1, <3>3
  <2>3. QED BY <1>1, <1>2, <2>1, <2>2 DEF FeedTypes
<1>5. RoomsInv' /\ FeedInOrder'  BY <1>1, <1>2 DEF RoomsInv, FeedInOrder
<1>6. ShownInv'  BY <1>1, <1>2, <1>3 DEF ShownInv
<1>7. StationInv'
  <2>1. \A e : LocationTrue(e, emitted, Len(emitted)) => LocationTrue(e, emitted, Len(emitted))'
    BY <1>1 DEF LocationTrue, Locates, Base
  <2>2. QED BY <1>1, <1>2, <2>1 DEF StationInv, StationsOnce
<1>8. CountryIsLastKnown'
  <2>1. \A i : \A country :
           (\E p \in aprs_packet : Base(p) = Base(emitted[i].packet) /\ CountryCode[p] = country)
           => \E p \in aprs_packet' : Base(p) = Base(emitted[i].packet) /\ CountryCode[p] = country
    BY <1>1
  <2>2. \A i \in DOMAIN emitted :
           LET country == emitted[i].country
               known   == {j \in warmed_after + 1 .. i - 1 :
                              /\ Base(emitted[j].packet) = Base(emitted[i].packet)
                              /\ CountryCode[emitted[j].packet] # NoCountry}
           IN CountryCode[emitted[i].packet] = NoCountry /\ country # NoCountry =>
              /\ \E p \in aprs_packet' : Base(p) = Base(emitted[i].packet) /\ CountryCode[p] = country
              /\ known # {} => country = CountryCode[emitted[Max(known)].packet]
    BY <1>2, <2>1 DEF CountryIsLastKnown
  <2>3. emitted' = emitted /\ warmed_after' = warmed_after  BY <1>1
  <2>4. QED BY <2>2, <2>3 DEF CountryIsLastKnown
<1>9. SkipsExplained'
  <2>1. SUFFICES ASSUME NEW p \in aprs_packet', p \notin Emitted, received_at[p] <= last_packet_time
                 PROVE  \/ p \in late'
                        \/ \E x \in Emitted : received_at[x] = received_at[p]
                        \/ p \in crowded'
    BY <1>1, <1>3 DEF SkipsExplained
  <2>2. late \subseteq late'  BY DEF Commit
  <2>3. CASE p \in aprs_packet
    BY <1>1, <1>2, <2>1, <2>2, <2>3 DEF SkipsExplained
  <2>4. CASE p \notin aprs_packet
    <3>1. p = m  BY <1>1, <2>4
    <3>2. received_at[m] \in Nat \ {0} /\ last_packet_time \in Nat
      BY <1>2, TimeFacts DEF FeedTypes
    <3>3. PICK x \in Emitted : received_at[x] = last_packet_time
      BY <1>2, <2>1, <3>1, <3>2 DEF ShownInv
    <3>4. PICK e \in Range(emitted) : x = e.packet  BY <3>3 DEF Emitted
    <3>5. PICK i \in DOMAIN emitted : e = emitted[i]  BY <3>4 DEF Range
    <3>6. CASE received_at[x] = received_at[p]  BY <3>6
    <3>7. CASE received_at[x] # received_at[p]
      <4>1. received_at[emitted[i].packet] > received_at[m]
        BY <2>1, <3>1, <3>2, <3>3, <3>4, <3>5, <3>7
      <4>2. m \in late'  BY <4>1 DEF Commit
      <4>3. QED BY <3>1, <4>2
    <3>8. QED BY <3>6, <3>7
  <2>5. QED BY <2>3, <2>4
<1>10. QED BY <1>4, <1>5, <1>6, <1>7, <1>8, <1>9 DEF FeedInv

LEMMA WarmHolds ==
    ASSUME FeedInv, Warm
    PROVE  FeedInv'
<1>1. /\ warmed_after' = Len(emitted)
      /\ UNCHANGED <<received_at, aprs_packet, last_packet_time, emitted, crowded, late, rooms, feed>>
  BY DEF Warm, poller, sockets
<1>2. FeedTypes /\ RoomsInv /\ ShownInv /\ StationInv /\ FeedInOrder /\ SkipsExplained /\ CountryIsLastKnown
  BY DEF FeedInv
<1>3. emitted \in Seq(Showings) /\ Len(emitted) \in Nat /\ DOMAIN emitted = 1 .. Len(emitted)
  BY <1>2 DEF FeedTypes
<1>4. Emitted' = Emitted /\ Showings' = Showings  BY <1>1 DEF Emitted, Showings
<1>5. FeedTypes'  BY <1>1, <1>2, <1>3, <1>4 DEF FeedTypes
<1>6. RoomsInv' /\ FeedInOrder' /\ ShownInv' /\ SkipsExplained'
  BY <1>1, <1>2, <1>4 DEF RoomsInv, FeedInOrder, ShownInv, SkipsExplained
<1>7. StationInv'  BY <1>2, WarmStations
<1>8. CountryIsLastKnown'
  <2>1. ASSUME NEW i \in DOMAIN emitted, CountryCode[emitted[i].packet] = NoCountry, emitted[i].country # NoCountry
        PROVE  /\ \E p \in aprs_packet : Base(p) = Base(emitted[i].packet) /\ CountryCode[p] = emitted[i].country
               /\ Len(emitted) + 1 .. i - 1 = {}
    <3>1. \E p \in aprs_packet : Base(p) = Base(emitted[i].packet) /\ CountryCode[p] = emitted[i].country
      BY <1>2, <2>1 DEF CountryIsLastKnown
    <3>2. Len(emitted) + 1 .. i - 1 = {}  BY <1>3
    <3>3. QED BY <3>1, <3>2
  <2>2. emitted' = emitted /\ warmed_after' = Len(emitted) /\ aprs_packet' = aprs_packet  BY <1>1
  <2>3. QED BY <2>1, <2>2 DEF CountryIsLastKnown
<1>9. QED BY <1>5, <1>6, <1>7, <1>8 DEF FeedInv

LEMMA HandlerHolds ==
    ASSUME FeedInv, NEW b \in Browsers, Handler(b)
    PROVE  FeedInv'
<1>1. /\ UNCHANGED <<received_at, aprs_packet, last_packet_time, emitted, crowded, late, station_cache, warmed_after>>
      /\ feed' = feed \/ feed' = [feed EXCEPT ![b] = <<>>]
  BY DEF Handler, HandleConnect, HandleDisconnect, HandleJoinCountry, HandleLeaveCountry, poller, cacheVars
<1>2. FeedTypes /\ RoomsInv /\ ShownInv /\ StationInv /\ FeedInOrder /\ SkipsExplained /\ CountryIsLastKnown
  BY DEF FeedInv
<1>3. Emitted' = Emitted /\ Showings' = Showings  BY <1>1 DEF Emitted, Showings
<1>4. /\ rooms' \in [Browsers -> SUBSET ({"own", "live_feed"} \cup RowCountries)]
      /\ RoomsInv'
  <2>1. rooms \in [Browsers -> SUBSET ({"own", "live_feed"} \cup RowCountries)]  BY <1>2 DEF FeedTypes
  <2>2. \E r \in SUBSET ({"own", "live_feed"} \cup RowCountries) :
           /\ rooms' = [rooms EXCEPT ![b] = r]
           /\ "live_feed" \in r => r \cap RowCountries = {}
    <3>1. CASE HandleConnect(b)
      <4>1. {"own", "live_feed"} \cap RowCountries = {}  BY FeedAssumption
      <4>2. QED BY <3>1, <4>1 DEF HandleConnect
    <3>2. CASE HandleDisconnect(b)
      <4>1. {} \in SUBSET ({"own", "live_feed"} \cup RowCountries) /\ "live_feed" \notin {}  OBVIOUS
      <4>2. rooms' = [rooms EXCEPT ![b] = {}]  BY <3>2 DEF HandleDisconnect
      <4>3. QED BY <4>1, <4>2
    <3>3. ASSUME NEW country \in RowCountries, HandleJoinCountry(b, country)
          PROVE  \E r \in SUBSET ({"own", "live_feed"} \cup RowCountries) :
                    /\ rooms' = [rooms EXCEPT ![b] = r]
                    /\ "live_feed" \in r => r \cap RowCountries = {}
      <4> DEFINE r == (rooms[b] \ {"live_feed"}) \cup {country}
      <4>1. rooms' = [rooms EXCEPT ![b] = r]  BY <2>1, <3>3 DEF HandleJoinCountry
      <4>2. r \in SUBSET ({"own", "live_feed"} \cup RowCountries)  BY <2>1
      <4>3. "live_feed" \notin r  BY FeedAssumption
      <4> HIDE DEF r
      <4>4. QED BY <4>1, <4>2, <4>3
    <3>4. ASSUME NEW country \in RowCountries, HandleLeaveCountry(b, country)
          PROVE  \E r \in SUBSET ({"own", "live_feed"} \cup RowCountries) :
                    /\ rooms' = [rooms EXCEPT ![b] = r]
                    /\ "live_feed" \in r => r \cap RowCountries = {}
      <4> DEFINE r == rooms[b] \ {country}
      <4>1. rooms' = [rooms EXCEPT ![b] = r]  BY <2>1, <3>4 DEF HandleLeaveCountry
      <4>2. r \in SUBSET ({"own", "live_feed"} \cup RowCountries)  BY <2>1
      <4>3. "live_feed" \in r => r \cap RowCountries = {}  BY <1>2 DEF RoomsInv
      <4> HIDE DEF r
      <4>4. QED BY <4>1, <4>2, <4>3
    <3>5. QED BY <3>1, <3>2, <3>3, <3>4 DEF Handler
  <2>3. PICK r \in SUBSET ({"own", "live_feed"} \cup RowCountries) :
           /\ rooms' = [rooms EXCEPT ![b] = r]
           /\ "live_feed" \in r => r \cap RowCountries = {}
    BY <2>2
  <2>4. QED BY <1>2, <2>1, <2>3 DEF RoomsInv
<1>5. \A c \in Browsers : feed'[c] \in {feed[c], <<>>}  BY <1>1, <1>2 DEF FeedTypes
<1>6. feed' \in [Browsers -> Seq(Rows)]
  <2>1. feed \in [Browsers -> Seq(Rows)]  BY <1>2 DEF FeedTypes
  <2>2. <<>> \in Seq(Rows)  OBVIOUS
  <2>3. DOMAIN feed' = Browsers /\ feed' = [c \in Browsers |-> feed'[c]]  BY <1>1, <2>1
  <2>4. \A c \in Browsers : feed'[c] \in Seq(Rows)  BY <1>5, <2>1, <2>2
  <2>5. QED BY <2>3, <2>4
<1>7. FeedTypes'  BY <1>1, <1>2, <1>3, <1>4, <1>6 DEF FeedTypes
<1>8. DOMAIN <<>> = {} /\ Range(<<>>) = {}  BY DEF Range
<1>9. FeedInOrder'
  <2>1. \A c \in Browsers : feed'[c] = feed[c] \/ DOMAIN feed'[c] = {}  BY <1>5, <1>8
  <2>2. QED BY <1>1, <1>2, <2>1 DEF FeedInOrder
<1>10. ShownInv'
  <2>1. \A c \in Browsers : Range(feed'[c]) \subseteq Emitted  BY <1>2, <1>5, <1>8 DEF ShownInv
  <2>2. QED BY <1>1, <1>2, <1>3, <2>1 DEF ShownInv
<1>11. SkipsExplained' /\ StationInv' /\ CountryIsLastKnown'
  <2>1. SkipsExplained'  BY <1>1, <1>2, <1>3 DEF SkipsExplained
  <2>2. \A e : LocationTrue(e, emitted, Len(emitted)) => LocationTrue(e, emitted, Len(emitted))'
    BY <1>1 DEF LocationTrue, Locates, Base
  <2>3. StationInv'  BY <1>1, <1>2, <2>2 DEF StationInv, StationsOnce
  <2>4. emitted' = emitted /\ warmed_after' = warmed_after /\ aprs_packet' = aprs_packet  BY <1>1
  <2>5. CountryIsLastKnown'  BY <1>2, <2>4 DEF CountryIsLastKnown
  <2>6. QED BY <2>1, <2>3, <2>5
<1>12. QED BY <1>4, <1>7, <1>9, <1>10, <1>11 DEF FeedInv

LEMMA FeedStarts == FeedInit => FeedInv
<1> SUFFICES ASSUME FeedInit PROVE FeedInv
  OBVIOUS
<1>1. aprs_packet = {} /\ emitted = <<>> /\ station_cache = <<>> /\ last_packet_time = 0 /\ warmed_after = 0
      /\ received_at \in Arrivals /\ rooms = [b \in Browsers |-> {}] /\ feed = [b \in Browsers |-> <<>>]
  BY DEF FeedInit
<1>2. DOMAIN <<>> = {} /\ Range(<<>>) = {} /\ Len(<<>>) = 0  BY DEF Range
<1>3. IsFiniteSet({})  BY FS_EmptySet
<1>4. \A b \in Browsers : rooms[b] = {} /\ feed[b] = <<>>  BY <1>1
<1>5. Emitted = {}  BY <1>1, <1>2 DEF Emitted
<1>6. FeedTypes
  <2>1. emitted \in Seq(Showings)  BY <1>1
  <2>2. feed \in [Browsers -> Seq(Rows)]  BY <1>1
  <2>3. QED BY <1>1, <1>2, <1>3, <2>1, <2>2 DEF FeedTypes
<1>7. StationInv  BY <1>1, <1>2 DEF StationInv, StationsOnce
<1>8. RoomsInv /\ ShownInv /\ FeedInOrder  BY <1>1, <1>2, <1>4, <1>5 DEF RoomsInv, ShownInv, FeedInOrder
<1>9. SkipsExplained /\ CountryIsLastKnown  BY <1>1, <1>2 DEF SkipsExplained, CountryIsLastKnown
<1>10. QED BY <1>6, <1>7, <1>8, <1>9 DEF FeedInv

LEMMA FeedStays == FeedInv /\ UNCHANGED feedVars => FeedInv'
<1> SUFFICES ASSUME FeedInv, UNCHANGED feedVars PROVE FeedInv'
  OBVIOUS
<1>1. UNCHANGED <<received_at, aprs_packet, last_packet_time, emitted, crowded, late, station_cache,
                  warmed_after, rooms, feed>>
  BY DEF feedVars, poller, cacheVars, sockets
<1>2. FeedTypes' /\ RoomsInv' /\ ShownInv' /\ FeedInOrder'
  BY <1>1 DEF FeedInv, FeedTypes, RoomsInv, ShownInv, FeedInOrder, Emitted, Showings
<1>3. \A e : LocationTrue(e, emitted, Len(emitted)) => LocationTrue(e, emitted, Len(emitted))'
  BY <1>1 DEF LocationTrue, Locates, Base
<1>4. StationInv'  BY <1>1, <1>3 DEF FeedInv, StationInv, StationsOnce
<1>5. SkipsExplained'  BY <1>1 DEF FeedInv, SkipsExplained, Emitted
<1>6. emitted' = emitted /\ warmed_after' = warmed_after /\ aprs_packet' = aprs_packet  BY <1>1
<1>7. CountryIsLastKnown'  BY <1>6 DEF FeedInv, CountryIsLastKnown
<1>8. QED BY <1>2, <1>4, <1>5, <1>7 DEF FeedInv

LEMMA FeedStep == FeedInv /\ [FeedNext]_feedVars => FeedInv'
<1> SUFFICES ASSUME FeedInv, [FeedNext]_feedVars PROVE FeedInv'
  OBVIOUS
<1>1. ASSUME NEW m \in Rows, Commit(m) PROVE FeedInv'  BY <1>1, CommitHolds
<1>2. CASE Warm  BY <1>2, WarmHolds
<1>3. CASE Poll \/ PollFails  BY <1>3, PollHolds
<1>4. ASSUME NEW b \in Browsers, Handler(b) PROVE FeedInv'  BY <1>4, HandlerHolds
<1>5. CASE UNCHANGED feedVars  BY <1>5, FeedStays
<1>6. QED BY <1>1, <1>2, <1>3, <1>4, <1>5 DEF FeedNext

(* The feed is as FeedInv says: what was sent is what was emitted, up to   *)
(* last_packet_time, and the station cache knows what was heard last.      *)
THEOREM FeedInvariant == FeedSpec => []FeedInv
<1>1. FeedInit => FeedInv  BY FeedStarts
<1>2. FeedInv /\ [FeedNext]_feedVars => FeedInv'  BY FeedStep
<1>3. QED BY <1>1, <1>2, PTL DEF FeedSpec

(* A browser is sent no row twice and none after a newer one, whatever     *)
(* rooms it joins and whatever polls fail (websocket.py, broadcast_packet  *)
(* to the rooms of handle_connect and handle_join_country).                *)
THEOREM FeedIsInOrder == FeedSpec => []FeedInOrder
<1>1. FeedInv => FeedInOrder  BY DEF FeedInv
<1>2. QED BY <1>1, FeedInvariant, PTL

(* The feed skips a row only if it came late, at the very time of one that *)
(* was shown, or in a crowd (websocket.py, poll_packets: newest first, a   *)
(* LIMIT, and a time that moves row by row).                               *)
THEOREM SkipsAreExplained == FeedSpec => []SkipsExplained
<1>1. FeedInv => SkipsExplained  BY DEF FeedInv
<1>2. QED BY <1>1, FeedInvariant, PTL

(* A row without country is shown in the country of the last row of that   *)
(* operator (station_cache.py, its docstring; eviction and warming at any  *)
(* moment).                                                                *)
THEOREM CountriesAreLastKnown == FeedSpec => []CountryIsLastKnown
<1>1. FeedInv => CountryIsLastKnown  BY DEF FeedInv
<1>2. QED BY <1>1, FeedInvariant, PTL

=============================================================================
