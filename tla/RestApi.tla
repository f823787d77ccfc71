------------------------------ MODULE RestApi ------------------------------
(***************************************************************************)
(* The REST API (flask.py) with its database calls (db.py) and its cache   *)
(* of query results (caching_query.py, a dogpile region).  Requests run in *)
(* threads of one process; create_app has built the session factory and    *)
(* the region before the first of them, so Init is the state after it.     *)
(*                                                                         *)
(* A table is the set of the numbers of its committed rows, in the order   *)
(* of their ids.  This process writes the two request logs; Ingested rows  *)
(* (packets, reports, repeaters) are written by others.  A cached query is *)
(* a table and a page size: the newest rows, which is also what the        *)
(* "latest report" and "latest position" queries ask for with size 1.      *)
(***************************************************************************)
EXTENDS Integers, Sequences, FiniteSets

CONSTANTS
    Threads,        \* worker threads of the server
    Logs,           \* "request", "wx_request": tables the handlers write
    Ingested,       \* tables other processes write, read through the region
    Keys,           \* cached queries: [table, size]
    Expire,         \* memcached.expire_time, in ticks
    Ttl,            \* lifetime of the wx_stations answer, in ticks
    Hold,           \* bound: ticks between a database read and its store
    Loads,          \* what the world does: the requests the clients send and, as
                    \* bounds, the rows written to each table, the weather stations
    Day,            \* length of a day in units of time
    MaxDays,        \* MAX_DATE_RANGE_DAYS
    MaxCallsigns,   \* MAX_CALLSIGNS
    Fields,         \* VALID_WX_FIELDS
    None

Tables == Logs \cup Ingested
Handlers == {"nearest", "wxnearest", "requests", "wxrequests", "stations", "wxstation_report",
             "aprsfi_location", "location", "wx_stations", "wx_history"}
Horizon == Expire + Hold + 1
WxHorizon == Ttl + Hold

ASSUME RestApiAssumption ==
    /\ Keys \subseteq [table: Tables, size: Nat \ {0}]
    /\ \A l \in Loads : /\ l.rows \in [Tables -> Nat] /\ l.stations \in Nat
                         /\ \A in \in l.inputs : in.handler \in Handlers
    /\ Expire \in Nat \ {0} /\ Ttl \in Nat \ {0} /\ Hold \in Nat
    /\ Day \in Nat \ {0} /\ MaxDays \in Nat
    /\ Logs = {"request", "wx_request"} /\ None \notin Threads \cup Logs

VARIABLES
    load,       \* the load of this run, one of Loads
    rows,       \* table -> committed rows
    next,       \* table -> rows numbered so far (the id sequence)
    age,        \* table -> row -> ticks since its commit, up to Horizon, while it is not due
    stations,   \* age of the weather stations' rows, by number, up to WxHorizon
    region,     \* key -> cached value, or None
    mutex,      \* key -> thread that regenerates it, or None
    ttlCache,   \* the cached wx_stations answer, or None
    due,        \* key -> rows every lookup that starts now has to show
    th          \* thread -> what it is doing

vars == <<load, rows, next, age, stations, region, mutex, ttlCache, due, th>>

Newest(S, n) == {r \in S : Cardinality({s \in S : s > r}) < n}
Query(k) == Newest(rows[k.table], k.size)
AgeOf(tab, r) == IF r \in DOMAIN age[tab] THEN age[tab][r] ELSE 0
Older(a, bound) == IF a < bound THEN a + 1 ELSE bound

----------------------------------------------------------------------------
(* Validation.  A JSON or query value is <<>> when absent, <<"text">> when *)
(* it cannot be converted, <<"num", n>> when it can.                       *)

IsNumber(v) == Len(v) = 2
ValidLatLon(lat, lon) ==
    /\ IsNumber(lat) /\ lat[2] \in -90..90
    /\ IsNumber(lon) /\ lon[2] \in -180..180
ValidCount(c) == c = <<>> \/ (IsNumber(c) /\ c[2] \in 1..100)
CountOf(c) == IF c = <<>> THEN 1 ELSE c[2]
ValidNumber(n) == n = <<>> \/ IsNumber(n)
Clamped(n) == IF n < 1 THEN 1 ELSE IF n > 500 THEN 500 ELSE n
PageSize(n) == IF n = <<>> THEN 25 ELSE Clamped(n[2])
ValidCallsigns(names) == Len(names) \in 1..MaxCallsigns
ValidTimestamp(v) == IsNumber(v)               \* a date without a time is "text"
ValidWxFields(f) == f # {} /\ f \subseteq Fields
ValidDateRange(start, end) == start < end /\ (end - start) \div Day <= MaxDays

(* require_appkey, and the key as a parameter in _validate_apikey_param:   *)
(* CONF.web.api_key is set and the request carries it.                     *)
RequireAppkey(in) == in.key = "ok"
ValidateApikeyParam(in) == in.key = "ok"

----------------------------------------------------------------------------
Idle == [pc |-> "idle", todo |-> <<>>, log |-> None, val |-> {}, need |-> {},
         missing |-> {}, row |-> 0, held |-> 0]

Init ==
    /\ load \in Loads
    /\ rows = [t \in Tables |-> {}]
    /\ next = [t \in Tables |-> 0]
    /\ age = [tab \in Tables |-> [r \in {} |-> 0]]
    /\ stations = <<>>
    /\ region = [k \in Keys |-> None]
    /\ mutex = [k \in Keys |-> None]
    /\ ttlCache = None
    /\ due = [k \in Keys |-> {}]
    /\ th = [t \in Threads |-> Idle]

Answer(t) == th' = [th EXCEPT ![t] = Idle]
db == <<load, rows, next, age, stations>>
caches == <<region, mutex, ttlCache, due>>

(* What a handler is going to do: its cached queries in order and the      *)
(* table it logs to.  A refused request has no plan; it is answered and    *)
(* changes nothing.                                                        *)
Plan(valid, todos, log) ==
    IF valid THEN {[pc |-> "", todo |-> todo, log |-> log] : todo \in todos} ELSE {}
NoQuery == {<<>>}
OneOf(tables) == {<<k>> : k \in {key \in Keys : key.table \in tables}}

Nearest(in) ==
    Plan(RequireAppkey(in) /\ in.body = "given" /\ ValidLatLon(in.lat, in.lon)
         /\ ValidCount(in.count), NoQuery, "request")
WxNearest(in) ==   \* one latest report per station found
    Plan(RequireAppkey(in) /\ in.body = "given" /\ ValidLatLon(in.lat, in.lon)
         /\ ValidCount(in.count),
         UNION {[1..n -> {k \in Keys : k.table \in Ingested}] : n \in 0..CountOf(in.count)},
         "wx_request")
Requests(in) ==
    Plan(in.body # "garbled" /\ ValidNumber(in.count),
         {<<[table |-> "request", size |-> PageSize(in.count)]>>}, None)
WxRequests(in) ==
    Plan(RequireAppkey(in) /\ in.body # "garbled" /\ ValidNumber(in.count),
         {<<[table |-> "wx_request", size |-> PageSize(in.count)]>>}, None)
Stations(in) == Plan(in.body = "given" /\ in.names # <<>>, OneOf(Ingested), None)
WxStationReport(in) ==
    Plan(RequireAppkey(in) /\ IsNumber(in.count), OneOf(Ingested), None)
AprsfiLocation(in) ==
    Plan(ValidateApikeyParam(in) /\ ValidCallsigns(in.names), OneOf(Ingested), None)
Location(in) ==
    Plan(RequireAppkey(in) /\ ValidCallsigns(in.names), OneOf(Ingested), None)
WxStations(in) ==
    {[p EXCEPT !.pc = "ttl"] : p \in Plan(RequireAppkey(in), NoQuery, None)}
WxHistory(in) ==
    {[p EXCEPT !.pc = "history"] :
        p \in Plan(/\ RequireAppkey(in) /\ in.names # <<>>
                   /\ ValidTimestamp(in.lat) /\ ValidTimestamp(in.lon)
                   /\ ValidDateRange(in.lat[2], in.lon[2])
                   /\ ValidWxFields(in.fields), NoQuery, None)}

Plans(in) ==
    CASE in.handler = "nearest"          -> Nearest(in)
      [] in.handler = "wxnearest"        -> WxNearest(in)
      [] in.handler = "requests"         -> Requests(in)
      [] in.handler = "wxrequests"       -> WxRequests(in)
      [] in.handler = "stations"         -> Stations(in)
      [] in.handler = "wxstation_report" -> WxStationReport(in)
      [] in.handler = "aprsfi_location"  -> AprsfiLocation(in)
      [] in.handler = "location"         -> Location(in)
      [] in.handler = "wx_stations"      -> WxStations(in)
      [] in.handler = "wx_history"       -> WxHistory(in)

(* Numbers are whole here; the region takes whatever query a handler makes.*)
ASSUME InputAssumption ==
    \A l \in Loads : \A in \in l.inputs :
        /\ \A v \in {in.lat, in.lon} : IsNumber(v) => v[2] \in Int
        /\ \A p \in Plans(in) : p.todo \in Seq(Keys)

(* Bound: no request that would log starts when the log has no row left.   *)
RoomFor(l) == l # None =>
    next[l] + Cardinality({u \in Threads : th[u].log = l /\ th[u].row = 0}) < load.rows[l]

(* Where a handler goes on: the next cached query, else its log entry.     *)
Rest(todo, log) == IF todo # <<>> THEN "get" ELSE IF log # None THEN "log" ELSE "idle"

Begin(t, in) ==
    /\ th[t].pc = "idle"
    /\ \E p \in Plans(in) :
          /\ RoomFor(p.log)
          /\ th' = [th EXCEPT ![t] = [Idle EXCEPT
                        !.pc = IF p.pc # "" THEN p.pc ELSE Rest(p.todo, p.log),
                        !.todo = p.todo, !.log = p.log]]
    /\ UNCHANGED <<db, caches>>

SendHistory(t) ==
    /\ th[t].pc = "history"
    /\ Answer(t)
    /\ UNCHANGED <<db, caches>>

----------------------------------------------------------------------------
(* ORMCache._do_orm_execute with dogpile's get_or_create.  An entry that   *)
(* expired or was invalidated is regenerated by the first thread that asks;*)
(* the others get the old value meanwhile, which may be of any age.        *)
(* Without a value they wait.                                              *)
(* life is the time an entry has left; an invalidated one has none.        *)

Expired(e) == e.life = 0
Demand(k) == due[k] \cup {r \in rows[k.table] : AgeOf(k.table, r) = Horizon}
Missing(val, k, S) == {r \in S \ val : Cardinality({v \in val : v > r}) < k.size}

(* The lookup of t ends with val: missing is what it had to show and does  *)
(* not.  A thread that meets an expired value keeps it while it tries for  *)
(* the mutex.                                                              *)
Found(t, val) ==
    th' = [th EXCEPT ![t] = [Idle EXCEPT
            !.pc = "found", !.todo = th[t].todo, !.log = th[t].log,
            !.missing = Missing(val, Head(th[t].todo), th[t].need)]]

Get(t) ==
    /\ th[t].pc = "get"
    /\ LET k == Head(th[t].todo)
           e == region[k]
       IN  \/ /\ e = None
              /\ th' = [th EXCEPT ![t].pc = "wait", ![t].need = Demand(k)]
           \/ /\ e # None /\ Expired(e)
              /\ th' = [th EXCEPT ![t].pc = "try", ![t].need = Demand(k), ![t].val = e.val]
           \/ /\ e # None /\ ~ Expired(e)
              /\ th' = [th EXCEPT ![t].pc = "found", ![t].missing = Missing(e.val, k, Demand(k))]
    /\ UNCHANGED <<db, caches>>

(* Who had no value looks again under the mutex: there may be one by now.  *)
Enter(t) ==
    LET k == Head(th[t].todo)
        e == region[k]
    IN  IF th[t].pc = "wait" /\ e # None /\ ~ Expired(e)
        THEN Found(t, e.val) /\ UNCHANGED mutex
        ELSE /\ th' = [th EXCEPT ![t].pc = "create", ![t].val = {}]
             /\ mutex' = [mutex EXCEPT ![k] = t]

Acquire(t) ==
    /\ th[t].pc \in {"wait", "try"}
    /\ mutex[Head(th[t].todo)] = None
    /\ Enter(t)
    /\ UNCHANGED <<db, region, ttlCache, due>>

InProgressElsewhere(t) ==
    /\ th[t].pc = "try"
    /\ mutex[Head(th[t].todo)] # None
    /\ Found(t, th[t].val)
    /\ UNCHANGED <<db, caches>>

Create(t) ==
    /\ th[t].pc = "create"
    /\ th' = [th EXCEPT ![t].pc = "store", ![t].val = Query(Head(th[t].todo))]
    /\ UNCHANGED <<db, caches>>

(* The query fails: the mutex is released, the request ends with a 500.    *)
CreateFails_KeepsMutex(t) ==
    /\ th[t].pc = "create"
    /\ Answer(t)
    /\ UNCHANGED <<db, caches>>
CreateFails(t) ==
    /\ th[t].pc = "create"
    /\ mutex' = [mutex EXCEPT ![Head(th[t].todo)] = None]
    /\ Answer(t)
    /\ UNCHANGED <<db, region, ttlCache, due>>

Store(t) ==
    /\ th[t].pc = "store"
    /\ LET k == Head(th[t].todo)
       IN  /\ region' = [region EXCEPT ![k] = [val |-> th[t].val, life |-> Expire + 1]]
           /\ mutex' = [mutex EXCEPT ![k] = None]
           /\ due' = [due EXCEPT ![k] = @ \cup th[t].val]
    /\ Found(t, th[t].val)
    /\ UNCHANGED <<db, ttlCache>>

(* The handler has the rows and goes on with the rest of its work.         *)
Use(t) ==
    /\ th[t].pc = "found"
    /\ th' = [th EXCEPT ![t] = [Idle EXCEPT
                !.pc = Rest(Tail(th[t].todo), th[t].log),
                !.todo = Tail(th[t].todo), !.log = th[t].log]]
    /\ UNCHANGED <<db, caches>>

----------------------------------------------------------------------------
(* log_request and log_wx_request.  The id is drawn when the row is sent,  *)
(* before the commit; a failed commit leaves a gap in the ids.             *)
Flush(t) ==
    /\ th[t].pc = "log"
    /\ next' = [next EXCEPT ![th[t].log] = @ + 1]
    /\ th' = [th EXCEPT ![t].pc = "commit", ![t].row = next[th[t].log] + 1]
    /\ UNCHANGED <<load, rows, age, stations, caches>>

Commit(t) ==
    /\ th[t].pc = "commit"
    /\ rows' = [rows EXCEPT ![th[t].log] = @ \cup {th[t].row}]
    /\ th' = [th EXCEPT ![t].pc = "invalidate"]
    /\ UNCHANGED <<load, next, age, stations, caches>>

CommitFails(t) ==
    /\ th[t].pc = "commit"
    /\ Answer(t)
    /\ UNCHANGED <<db, caches>>

(* A soft invalidation marks every value of the region.  From now on a     *)
(* lookup has to show the new row, unless a thread that read the table     *)
(* before is about to store what it read.                                  *)
Reading(k) == mutex[k] # None /\ th[mutex[k]].pc = "store"
Invalidate_OnePageSize(t) ==
    /\ th[t].pc = "invalidate"
    /\ region' = [k \in Keys |-> IF region[k] = None \/ k.size > 1 THEN region[k]
                                 ELSE [region[k] EXCEPT !.life = 0]]
    /\ due' = [k \in Keys |-> IF k.table = th[t].log /\ ~ Reading(k)
                              THEN due[k] \cup {th[t].row} ELSE due[k]]
    /\ Answer(t)
    /\ UNCHANGED <<db, mutex, ttlCache>>
Invalidate(t) ==
    /\ th[t].pc = "invalidate"
    /\ region' = [k \in Keys |-> IF region[k] = None THEN None
                                 ELSE [region[k] EXCEPT !.life = 0]]
    /\ due' = [k \in Keys |-> IF k.table = th[t].log /\ ~ Reading(k)
                              THEN due[k] \cup {th[t].row} ELSE due[k]]
    /\ Answer(t)
    /\ UNCHANGED <<db, mutex, ttlCache>>

----------------------------------------------------------------------------
(* wx_stations: one answer for all clients, kept by an unlocked TTLCache.  *)
TtlGet_ExtendsLife(t) ==
    /\ th[t].pc = "ttl"
    /\ IF ttlCache # None
       THEN /\ th' = [th EXCEPT ![t].pc = "listed", ![t].val = ttlCache.val]
            /\ ttlCache' = [ttlCache EXCEPT !.age = 0]
       ELSE th' = [th EXCEPT ![t].pc = "ttlRead"] /\ UNCHANGED ttlCache
    /\ UNCHANGED <<db, region, mutex, due>>
TtlGet(t) ==
    /\ th[t].pc = "ttl"
    /\ IF ttlCache # None
       THEN /\ th' = [th EXCEPT ![t].pc = "listed", ![t].val = ttlCache.val]
       ELSE th' = [th EXCEPT ![t].pc = "ttlRead"]
    /\ UNCHANGED <<db, caches>>
TtlRead(t) ==
    /\ th[t].pc = "ttlRead"
    /\ th' = [th EXCEPT ![t].pc = "ttlStore", ![t].val = DOMAIN stations]
    /\ UNCHANGED <<db, caches>>
TtlStore(t) ==
    /\ th[t].pc = "ttlStore"
    /\ ttlCache' = [val |-> th[t].val, age |-> 0]
    /\ th' = [th EXCEPT ![t].pc = "listed", ![t].held = 0]
    /\ UNCHANGED <<db, region, mutex, due>>
TtlUse(t) ==
    /\ th[t].pc = "listed"
    /\ Answer(t)
    /\ UNCHANGED <<db, caches>>

----------------------------------------------------------------------------
(* Other processes write rows and stations; time passes.                   *)
IngestRow(tab) ==
    /\ next[tab] < load.rows[tab]
    /\ next' = [next EXCEPT ![tab] = @ + 1]
    /\ rows' = [rows EXCEPT ![tab] = @ \cup {next[tab] + 1}]
    /\ UNCHANGED <<load, age, stations, caches, th>>
NewStation ==
    /\ Len(stations) < load.stations
    /\ stations' = Append(stations, 0)
    /\ UNCHANGED <<load, rows, next, age, caches, th>>

(* What a thread has read is stored, and what it found is used, within     *)
(* Hold ticks.                                                             *)
InFlight(t) == th[t].pc \in {"store", "ttlStore"}
Tick ==
    /\ \A t \in Threads : /\ th[t].pc \notin {"found", "listed"}
                          /\ InFlight(t) => th[t].held < Hold
    /\ th' = [t \in Threads |-> IF InFlight(t) THEN [th[t] EXCEPT !.held = @ + 1] ELSE th[t]]
    /\ age' = [tab \in Tables |-> [r \in rows[tab] |->
                IF \E k \in Keys : k.table = tab /\ r \notin due[k]
                THEN Older(AgeOf(tab, r), Horizon) ELSE 0]]
    /\ stations' = [i \in DOMAIN stations |-> Older(stations[i], WxHorizon)]
    /\ region' = [k \in Keys |-> IF region[k] = None THEN None
                                 ELSE [region[k] EXCEPT !.life = IF @ = 0 THEN 0 ELSE @ - 1]]
    /\ ttlCache' = IF ttlCache = None \/ ttlCache.age + 1 >= Ttl THEN None
                   ELSE [ttlCache EXCEPT !.age = @ + 1]
    /\ UNCHANGED <<load, rows, next, mutex, due>>

Step(t) ==
    \/ SendHistory(t) \/ Get(t) \/ Acquire(t) \/ InProgressElsewhere(t) \/ Create(t)
    \/ CreateFails(t) \/ Store(t) \/ Use(t) \/ Flush(t) \/ Commit(t) \/ CommitFails(t)
    \/ Invalidate(t) \/ TtlGet(t) \/ TtlRead(t) \/ TtlStore(t) \/ TtlUse(t)

Next ==
    \/ \E t \in Threads : Step(t) \/ \E in \in load.inputs : Begin(t, in)
    \/ \E tab \in Ingested : IngestRow(tab)
    \/ NewStation \/ Tick

Spec == Init /\ [][Next]_vars

----------------------------------------------------------------------------
(* A listing of logged requests, or of ingested rows, that a handler gets  *)
(* from the region shows, up to its page size, every row that was due when *)
(* the lookup started: those whose log_request had invalidated the region  *)
(* while no thread was about to store an older answer, those an earlier    *)
(* answer for the same query showed, and those older than the expiry time  *)
(* of an answer.  The one exception is an old value handed out while       *)
(* another thread regenerates it: it may lack due rows of any age, but     *)
(* only such as that thread has read, or would read now.                   *)
LookupEnds(t) == th[t].pc # "found" /\ th'[t].pc = "found"
Coming(k) == IF th[mutex[k]].pc = "store" THEN th[mutex[k]].val ELSE Query(k)
ShowsDue(t) ==
    LET k == Head(th[t].todo)
    IN  th'[t].missing # {} => /\ mutex[k] \notin {None, t}
                               /\ Missing(Coming(k), k, th'[t].missing) = {}
ListingsShowLogged == [][\A t \in Threads : LookupEnds(t) => ShowsDue(t)]_vars

(* The list of weather stations a client gets lacks no station that was    *)
(* in the table for the lifetime of the cached answer and the time a       *)
(* thread may take to store one, although no lock orders the threads that  *)
(* fill the cache (wx_stations).                                           *)
WxListBounded ==
    \A t \in Threads : th[t].pc = "listed"
        => \A i \in DOMAIN stations : stations[i] = WxHorizon => i \in th[t].val

(* A creation mutex is only ever held by the thread that regenerates that  *)
(* very answer and will release it, whatever lookup or commit fails: no    *)
(* handler ends with a mutex, and one that makes several lookups, as       *)
(* wxnearest does, never waits for one mutex while it holds another.       *)
MutexHasWorker ==
    \A k \in Keys : mutex[k] # None =>
        LET t == mutex[k]
        IN  th[t].pc \in {"create", "store"} /\ th[t].todo # <<>> /\ Head(th[t].todo) = k
============================================================================
