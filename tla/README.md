# Verification of haminfo

TLA+ models of haminfo, checked with TLC on small instances and, where it says so, proved
with TLAPS for every value of the constants. haminfo receives APRS packets over MQTT, writes
them to PostgreSQL, and serves them and a repeater database through a REST API and a dashboard.

1. [The system](#1-the-system): components, state, interactions, what is hard about them
2. [Modules](#2-modules): which module models what, and how it corresponds to the code
3. [Runs](#3-runs): what is checked, the bounds, the fairness
4. [Where code and documents disagree](#4-where-code-and-documents-disagree)
5. [Proofs](#5-proofs)
6. [Not modelled](#6-not-modelled)
7. [Plan](#7-plan)

Paths without a prefix are relative to `src/haminfo/`; `PROJECT.json` maps each definition to the
file and the lines it stands for.

## 1. The system

```
             MQTT broker
              |       \
  MQTTThread (Python)  mqtt task (Rust)
   |  aprs_queues[i]      |  channel
   |  weather_queue       v
   v        v          processor task
  APRS    Weather          |
  processors processor     |
       \     |            /
        v    v           v
            PostgreSQL  <-------- maintenance commands
             ^       ^
       REST API     dashboard ---- browsers (HTTP, socket.io)
```

### 1.1 Python ingest: `haminfo wx-mqtt-ingest`

| Component | State | Operations | What makes it correct |
|---|---|---|---|
| APRS processors (`mqtt/processors.py`) | a bounded queue, a batch, local counters per thread; shared statistics under a lock | `loop`, `_save_packets_if_needed` (COPY, falling back to INSERT), `_flush_local_stats`, `_print_stats`, `_cleanup` | no packet vanishes or is written twice, counters are exact, memory is bounded, a shutdown writes the batch |
| MQTT connection (`mqtt/thread.py`) | client object, `connected`, `subscribed`, backoff, check counters | callbacks on the network thread, health check and reconnect on its own thread, `stop` in the signal handler | one network loop, flags not stale, a silent connection is replaced, stop is prompt, the connection comes back |
| Thread registry and main program (`threads/my_thread.py`, `cmds/mqtt_ingest.py`) | list of threads, lock, stop flags | `add`, `remove`, `stop_all`, ordered joins, `signal_handler` | the registry is exact, nobody is skipped, a signal or a dead MQTT thread ends the program |
| KeepAlive and health check (`threads/keep_alive.py`, `cmds/mqtt_healthcheck.py`) | counters of intervals, gathered data, a JSON file | gather, a dump that may fail, and another process judging the file | lasting trouble is reported, lasting health is not reported as trouble |
| Weather processor (`mqtt/processors.py`, `mqtt/filters.py`, `db/caching_query.py`) | a queue, a batch of reports, a cache of station lookups | filter, find or create a station, retried batch | a report has its station, is written once, is not dropped |

Threads interact through bounded queues (`on_message` puts without blocking and drops when a
queue is full), through the statistics dictionary and its lock, through the registry and
its lock, through flags without a lock (`connected`, `thread_stop`) and through the database.
Hard: two processors committing rows with one key, a COPY that reports an error after it
took effect, callbacks of a client that was replaced, a signal handler that takes a lock its
own thread may hold, a keepalive file that is a minute old and sometimes empty, a negative
cache entry for a station that exists by now.

### 1.2 Rust ingest: `rust-mqtt-ingest`

Two tokio tasks with a bounded channel; `main` aborts them at any `await`. State: channel,
batch, time of the last flush, statistics, the session with the broker. It promises the same as
the Python processors. Hard: cancellation in the middle of an insert, reconnection with
a clean session, back pressure through the channel.

### 1.3 Dashboard

One process of gevent greenlets: HTTP routes over read-only queries with a memcached cache
(`cache.py`, `queries.py`), tiles with a cache of their own, a start-up thread that warms
caches (`app.py`), and the live feed (`websocket.py`, `station_cache.py`): a greenlet
polls the table for new rows and emits them to socket.io rooms.

| Component | State | Operations | What makes it correct |
|---|---|---|---|
| Pages, caches, start-up (`routes.py`, `api.py`, `queries.py`, `cache.py`, `app.py`) | memcached entries by key, tiles, TimescaleDB aggregates, `startup_state` | a page asks for views, each looked up, queried, stored; aggregates are refreshed by a policy; `_warm_cache` | no answer is older than its cache allows, the map shows what was asked for, charts lose nothing at their edge, the site opens |
| Live feed | last time seen, rooms, station cache | poll, emit, subscribe, warm, evict | in order, nothing twice, gaps explained |

Hard: rows become visible in another order than they were received in, a poll can fail in the
middle, browsers change rooms between polls, the station cache evicts, is overwritten and is warmed
while the feed runs; a view contains another cached view; one box query fills several tiles and
may not cover them; a page looks, queries and stores with other threads in between.

### 1.4 REST API

Flask handlers (`flask.py`) over `db/db.py` and the dogpile query cache (`db/caching_query.py`).
State: the cache region with a creation mutex for each query, an unlocked `TTLCache` with
the list of weather stations, and the tables, of which the handlers write the two request logs.
Correct if a listing shows the rows that were logged, lists are late by a bounded time, an answer has a
bounded size, and no request waits for a mutex for ever. Hard: a request fills the cache with what
it read before another request committed and invalidated; a query that fails while others wait.

### 1.5 Maintenance commands

`db/clone.py` (truncate, dump and restore table by table), `cmds/fetch_repeaterbook.py`
(one request per region, one commit per repeater), `cmds/db.py` (country codes in batches, cleaning of old
rows). Each is a process on the tables the others use. Correct if a region that fails costs the other
regions nothing, a failed commit costs one batch, and success is reported only when it is one. Hard:
a step of several fails after earlier ones were committed, beside an ingest that writes the same tables.

### 1.6 Rest

Packet parsing and database models, decoder and geography helpers, MCP server with its SQL filter,
migrations, configuration, logging, scripts. Pure conversions or input and output, see
[section 6](#6-not-modelled). The legacy command `cmds/mqtt_injest.py` is the
predecessor of `wx-mqtt-ingest` and is no longer registered.

## 2. Modules

| Module | Models | Composition |
|---|---|---|
| `PacketLedger` | the abstract promise of both ingest services: the stages a packet goes through | implemented by `AprsIngest` and `RustIngest` |
| `AprsIngest` | `on_message` dispatch, N processors, shared statistics, COPY and INSERT, `_cleanup`, `stop_all` | weather queue feeds `WeatherIngest` |
| `MqttConnection` | `MQTTThread` with its clients, the network and the broker | its flags and socket are `link` of `KeepAlive` |
| `Shutdown` | `wx_mqtt_ingest`, `MyThread.run`, `MyThreadList`, signals | stops what the other modules call threads |
| `KeepAlive` | `KeepAliveThread` and `mqtt_healthcheck` | watches the threads of the others |
| `WeatherIngest` | the weather processor, its filter and the station cache | takes what `AprsIngest` puts into the weather queue |
| `RustIngest` | the Rust service with its client library | alternative to `AprsIngest` |
| `LiveFeed` | poll, rooms and station cache of the dashboard | reads what the ingest services commit |
| `DashboardQueries` | the dashboard's tables, aggregates and queries | extended by `Dashboard` |
| `Dashboard` | pages, memcached, tiles, warming | reads what the ingest services commit |
| `RestApi` | the handlers, the dogpile region, the `TTLCache`, the request logs | reads what the ingest services commit |
| `Maintenance` | repeater fetch, country codes, clone, cleaning, beside the ingest | writes what all others read |
| `SequenceLemmas` | facts on queues, on parts of a sequence, on sets of numbers, on recursion over them and on sums over a finite set | used by the proofs |
| `AprsIngest_proofs`, `WeatherIngest_proofs`, `RustIngest_proofs`, `RestApi_proofs`, `Maintenance_proofs` | theorems about the module of that name | |
| `Threads_proofs` | theorems about `Shutdown`, `MqttConnection` and `KeepAlive` | the threads of one process |
| `Dashboard_proofs` | theorems about `Dashboard` with `DashboardQueries`, and about `LiveFeed` | the two halves of the dashboard |
| `MC*` | the constants of the small instances | |

Definitions carry the names of the source: `packet_dicts` is `self.packet_dicts`,
`OnMessage` is `on_message`. A definition whose name is that of another with a suffix
(`Full_OffByOne`) is a plausible bug; it is used by nothing, and its purpose is that the
property which `PROJECT.json` pairs it with fails when it takes the other's place.

### AprsIngest

A packet is one delivery; a redelivery is another packet with the same `Key`, the unique
`(from_call, timestamp)` of the table. Program points of a processor (`pc`) are the places where it
touches something shared: `check` (the stop flag), `get` (its queue), `save` (is the batch due?), `copy` and `insert` (a
transaction each), `flush`, `print`, `report` (the statistics lock), `cleanup`, `done`. What
lies between two points is thread-local and belongs to one step.

| Code | Model |
|---|---|
| `aprs_queues[rr_index % N].put(block=False)`, `queue.Full` | `OnMessagePacket`: append, or `fate` becomes `"dropped"` |
| `BATCH_SIZE + BATCH_STAGGER * i` | `Threshold(p)` |
| `_flush_local_stats`, with its early return | `FlushLocalStats` |
| `INSERT ... SELECT ... ON CONFLICT DO NOTHING` from the staging table | `NewRows`: of each new key the first packet of the batch |
| COPY raises before, or after, its commit took effect | `Raised`, which may leave rows behind; they are recorded in `unacked` |
| the INSERT fallback, returning 0 on an error | `Insert` |
| `stop_all`, one thread after the other | `StopNext` |

`fate` and `unacked` are history: how a packet without a row ended, and which rows were committed
although the client saw an error.

### MqttConnection

A tick is a second, the unit in which `loop()` and `_reconnect` sleep. Time also passes in the calls that block,
up to `LongestCall`: `connect()` (`dial`, at most `DialTime`), `loop_stop()`, which joins a network loop that may be in a read or a redial
of its own (`teardown`, `DialTime + 1`), and the two sleeps of half a second (`disconnect`, `settle`), a tick or none each. The dial of the
constructor comes before the thread exists; it is the initial state, and a signal may meet it there. Time stamps
are ages (`silence`, `since_check`), cut off where no test can tell larger values apart. The client
library is modelled from how the code uses it: a client has a session (`session`), a network loop
that may run (`looping`), redials by itself, and delivers callbacks one at a time. `stop()` is three
steps at any moment (`StopTest`, `StopLoop`, `StopDisconnect`), because it runs in the signal handler.

### Shutdown

The main thread is a stack of frames, the program at the bottom and a handler for each nested signal
above it; only the topmost runs. `MyThreadList.lock` belongs to a frame, so a handler that wants a
lock its own program holds waits for ever. Workers build, start, run, crash and leave the registry
in the order of the code.

### KeepAlive

`Gather` is the part of the loop under `self.cntr % 60 == 0`, `DumpOpen` and `DumpWrite` the two halves of
the dump at the end of the minute, `DumpFails` its except branch: an open that failed leaves the last file, a write that
failed leaves the truncated one, and the loop goes on. `missed` counts an interval for each dump failed since the last one that did not.
`link` is what `MQTTThread` answers: its flags are down, they are set but paho's connection is closed, or all is up. `Second` is the one-second sleep. Each behaviour watches one
condition (`watch`) and counts how long it has lasted (`lasting`), so that a bound on the delay of an
alarm is an invariant.

### WeatherIngest

`Check`, `Get`, `FindStation`, `CreateStation`, `CreateReport`, `SaveSucceeds` and `SaveFails` follow one
packet through `WeatherPacketFilter.filter` and the batch through `_save_reports`; `CountOnly` is
stats-only mode. `cache` is the dogpile
region, in which a callsign is unknown, missing (remembered as having no row) or found.

### RustIngest

Program points are the `await`s of the two tasks, the places where `abort()` takes effect:
the MQTT task polls, sends or sleeps; the processor receives or inserts. `reply` separates what an insert
did in the database from what the service learns of it.

### LiveFeed

A poll is one step: the greenlet gives way in `gevent.sleep(2)` only, and the database driver does not
yield. `received_at` of each row is chosen at the start, the order of the commits is
free, so rows appear out of order. `rooms[b]` contains a room of the connection's own, as
socket.io keeps it. `station_cache` is a sequence, the oldest entry first, of which `_evict_oldest` drops the front; `Places` is
where a station is in it. Left out: `state:` rooms (no handler joins one), the lookup of a US state, the
24 hours that warming looks back.

### DashboardQueries and Dashboard

`log` is the packet table, a sequence of shapes (callsign, type, place, parsed place, country code) with ages in ticks;
a query is an operator that returns positions of the log, so that a property can say which packets an answer
counts. Time of day is `phase`, because hours and days are cut at the clock, not at the present. The continuous aggregates are the sets of
packets they contain (`aggregated`), which `Refresh` extends by what the policy's window contains at that moment.

A page is a list of views (`Plan`). For each view a worker looks (`Hit`, `Miss`), queries (`Query`,
`QueryCountry`, which pushes a frame for the cached view it calls, `ReturnTop`) and stores (`Keep`). The map looks up all
its tiles, queries once for those missing and stores one entry for each (`LookupTiles`, `QueryTiles`, `KeepTiles`). `Evict` and `load.losses` are
memcached. `EndWarming` and `WarmingFails` are the ends of `_warm_cache`. `held` counts the ticks since the oldest
database read behind a value, `partial` remembers that a tile was stored by a query that did not cover it.

### RestApi

Requests are inputs (handler, key, body, coordinates, count, names, fields), of which each handler's operator makes a
plan: cached queries in order and the log it writes; `wx_history` queries the reports beside the cache. A refused
input has no plan. Then a thread goes through dogpile's `get_or_create`:

| Code | Model |
|---|---|
| entry found and valid | `Get` to `found` |
| no entry: wait for the mutex; expired entry: try it, else use the old value, which the thread has kept | `Acquire`, `InProgressElsewhere` |
| under the mutex, the entry is looked at again by a thread that had to wait | `Enter` |
| run the query, store, release; the query raises | `Create`, `Store`, `CreateFails` |
| `log_request`: flush (draws an id), commit, soft invalidation | `Flush`, `Commit`, `CommitFails`, `Invalidate` |
| `cachetools.cached` without a lock | `TtlGet`, `TtlRead`, `TtlStore` |

`due`, `need` and `missing` are history: what an answer had to show when its lookup began, and what it did not.

### Maintenance

A table is a set of rows. `fetch`, `populate` and `clone` are records of a program point and what the command
has in memory; `open` says that its session holds a transaction, which keeps `Truncate` waiting. `fetch.session` becomes `"broken"` after a
refused commit, since nothing rolls back. `CopyTable`, `PsqlFails` and `DumpFails` are the ways the
pipeline of one table ends; `dump` and `psql` keep the exit status of either process. `Hypertables` are the tables whose rows TimescaleDB keeps in
chunks, of which the dump of the table alone carries none (`Dumped`). Which rows go in is decided by
`Fits`: primary keys and the foreign key of a report.

## 3. Runs

A run is a configuration file and an `MC` module. Each run finishes within five minutes with two workers.
Deadlock is not checked where a system really stops: packets are finite, threads end after a stop, commands end, clients
may be idle. `KeepAlive`, whose clock ticks on, is checked for it.

| Run | Question | Bounds |
|---|---|---|
| `AprsIngest` | does the pool keep its promises, in both modes, while COPY and INSERT fail at will and a stop comes at any moment? | 2 processors, 4 deliveries: two of one key (one of them weather), one without a callsign, one garbled; queues of 1, batches of 1 and 2 |
| `MqttConnection` | is there one loop, no stale flag, no long silence, a prompt stop, and recovery? | 2 clients (one current, one discarded), the real periods of 5, 30 and 120 s, backoff 1, 2, 4, 8 s, dials and joins of up to 2 s, a broker that takes up to 2 s, 3 faults; 582,143 states |
| `Shutdown` | is the registry exact and the walk complete, and does one signal, or the death of the MQTT thread, end everything? | 5 workers, 2 signals, crashes of all |
| `KeepAlive` | how late is an alarm, and how long a false one? | an interval of 2 ticks, ages of 2 and 4, 1 death, 1 dump in a row that fails, each condition followed up to the first tick at which its report is overdue; 6,691,826 states |
| `WeatherIngest` | is a report written once, behind a station, counted and not dropped, in both modes? | 4 packets of two stations, one without position and one without data, 2 failing database calls; 536,388 states |
| `RustIngest` | the promises of `AprsIngest`, for the Rust service | 4 publications with a shared key and a garbled one, channel of 1, batches of 2, 2 faults |
| `LiveFeed` | is nothing sent twice or out of order, is each skipped row explained, is the country the last known? | 4 rows, 4 arrival orders with ties, a poll of 2 rows, a cache of 1 station, 1 failing poll, 1 browser; 70,285 states |
| `Dashboard` | how old is an answer, what does a map of shared tiles show, what do charts lose, does the site open? | 2 threads (symmetric) and warming; 24 loads, each the pages of one part of the site with up to 3 packets; 2 ticks an hour, 2 hours a day, 2 days a week; 2 tiles and 2 rows at most; 1.47 million states |
| `RestApi` | does a listing show what was logged, how late are lists, is a mutex ever left? | 2 threads, 4 cached queries, 3 loads: page sizes of one log, several lookups in a request with both logs, stations and refusals; ages of 1 and 2, up to 2 rows a table; 1,924,424 states |
| `Maintenance` | what does a failure in the middle of a command cost? | 2 states and 2 countries, one of them without an answer, with 7 repeaters, 3 stations in batches of 2, 4 tables, two of them hypertables; fetch or population beside a clone, the cleaning and the ingest; 2 faults; 280,910 states |
| `KeepAlive_Death`, `RustIngest_Deaf` | the disagreements of [section 4](#4-where-code-and-documents-disagree) | as small as shows them |

### Properties

*AprsIngest.* `Conservation`: a packet is with the broker, in one queue, in one batch, in the
table or ended, never in two of these (the one overlap is a COPY that committed and reported an error)
and never in none. `MemoryBounded`: queues keep to their size, batches to their threshold, failed saves included.
`CountersExact`: shared plus thread-local counters are exactly the
packets that joined a batch, and the rows. `LedgerSpec`: the pool implements `PacketLedger`.
`ShutdownCompletes`, `FullBatchLeaves`: liveness.

*MqttConnection.* `OneNetworkLoop`, `ConnectedIsCurrent`; `SilenceBounded`: `EmptyPeriod` and three checks, and the time the teardown itself
blocks; `StopIsPrompt`: one dial and three seconds, which is 8 s with the 5 s that paho gives an address, within the "up to 10 seconds" that
`cmds/mqtt_ingest.py:40` tells the operator; and `PromptBrokerRecovers`: a broker that from some time on acknowledges within the second gets its
subscriber back, also when the wait is as long as the check interval.

*Shutdown.* `RegistryExact`, `WalkSkipsNobody` (workers leave the list while a handler
walks it), `LoneSignalEndsAll`, `MqttDeathEndsAll`.

*KeepAlive.* `TroubleReported` bounds the delay of each alarm (outage, silence, stall) in
intervals, while the thread lives one more for each dump in a row that failed, and in any case until the file is too old. `RecoveryReported` says that two intervals after
all is well and the last dump failed the check passes, unless the file is just being rewritten; before, it fails for a broken or too old file only.

*WeatherIngest.* `StationBehindReport`, `WrittenAndCountedOnce`, `ClearedOnlyIfWritten` (an action
property), `ReportsReachTable`.

*RustIngest.* `StatsExact`, `LedgerSpec`, `ReceivedIsSettled`.

*LiveFeed.* `FeedInOrder`, `SkipsExplained` (a row is skipped only if it was committed late, shares its time
with one shown, or was in a burst larger than a poll), `CountryIsLastKnown`, `FeedProgresses`.

*Dashboard.* `AnswersFresh`: less than a lifetime plus the time a page takes; the figures of a country contain another cached
view and may have the lifetime of both, and the map may wait for its query with cached tiles in hand. `MapAsAsked`: positions in the box,
of the type, within the hours; and a station (not at latitude or longitude 0) is missing from an answer that is not full only in
a tile that was stored incomplete or is beyond the greatest number of tiles. `BarsWhole`: the bar of a past day
counts the whole day, those of the hours no less than the last day. `ReadyAfterWarming`.

*RestApi.* `ListingsShowLogged`, an action property of each lookup that ends: the answer shows every row that was due when the lookup began, or another thread
holds the mutex of the query, and what that one has read, or would read now, shows what is missing. `WxListBounded`, `MutexHasWorker`.

*Maintenance.* `RegionsIndependent`, `ProgressBounded` ("to avoid losing progress"), `PlainTablesCloned`: a clone that reports success has
every row of every plain table, and of a hypertable none.

### Why the bounds are enough

The hazards need two processors with one key, a queue that is full, a batch below, at and
above its threshold, two flushes of the statistics around one report: queues of one and
batches of one and two reach them all with three packets. A stale callback needs
one discarded client. A dial of 2 s is longer than a turn of the loop, a backoff of 8 s longer than the check interval, and an
acknowledgement of 2 s comes after the check that is then due. Handlers nest to a depth that two signals reach. A silence of
30 s and of 120 s is checked at the real values, because the arithmetic of `CONNECTION_CHECK_INTERVAL` is
what the property is about; the interval of `KeepAlive` is 2 instead of 60 ticks, because its
bounds are stated in intervals; one dump that fails after another that worked leaves a file older than the next, or a broken one. With one APRS processor in `KeepAlive`, the rule that of several
threads of a class the last one registered decides is modelled and not exercised. The faults are bounded so that
liveness speaks of what happens after them; safety needs one or two to reach each error path,
and a third in `MqttConnection` to fail while another failure is being handled.
`LiveFeed` needs three rows to overflow a poll of two and a second operator to evict the first.

`MaxFaults`, `MaxDeaths`, `MaxMissed`, `MaxSignals` bound what goes wrong; `SilenceCap` and the other cut-offs keep
ages finite where no test in the code can distinguish larger ones.

`Dashboard` and `RestApi` choose a load at the start, because the product of all pages with all
packets is out of reach and most pages share nothing: pages are together in a load when they share cache
entries or tiles. Two threads are enough to have an answer replaced between a lookup and a store. A day of two
hours of two ticks has broken and whole hours, and a week of two such days a past day at the edge of
the window. In `Maintenance` the second fault comes while the effect of the first is still felt.

### Fairness

Weak fairness is given to threads that the operating system or the event loop schedules and that
wait for nothing but time: each processor thread, the MQTT thread, the network loop answering and
reporting losses, the tokio tasks and their timer, the poll greenlet, the main thread. `StopNext` is fair once a
stop has begun. None is given to the broker's publications, to signals, to browsers, to
commits of other processes, or to faults. `Dashboard`, `RestApi` and
`Maintenance` have no liveness property and no fairness: a request or a command may end, or stay, at every point.

## 4. Where code and documents disagree

Two have a run that finds a counterexample.

- `DeathReported`: the health check says "Verify all threads are running". A thread that dies leaves the
  registry, so the gather does not visit it, and its last entry, `True`, stays in the file.
- `StaysSubscribed`: the Rust service "subscribes to an MQTT topic", once, and with a clean session. After a
  reconnect it is subscribed to nothing.

Noticed while modelling, without a run of their own.

Python and Rust ingest:

- The design of the parallel consumers (`docs/superpowers/specs/2026-03-27-parallel-mqtt-consumers-design.md`, line 198) says
  "Each APRS processor drains its queue and flushes final batch". The loop ends as soon as `thread_stop` is
  set, and the cleanup saves the batch only; queued packets are lost (`mqtt/processors.py:564`).
- The docstring of `MQTTThread` promises "automatic reconnection with exponential
  backoff". Once a wait is as long as the check interval of 5 s, the health check is due one second after the
  new client has dialled. A broker that takes longer to acknowledge finds its connection torn down, on every
  attempt (`mqtt/thread.py:217`). With a backoff of 8 s and a broker that takes 2 s, TLC finds that lasso for
  `ConnectionRecovers`; `PromptBrokerRecovers` is what the code keeps of it.
- "Handle SIGINT/SIGTERM for graceful shutdown" (`cmds/mqtt_ingest.py:35`): the handler is installed before the
  threads are built. An early signal misses those not yet registered; a signal in the middle of `add()`,
  or a second one in the middle of `stop_all`, waits for a lock its own thread holds. This is why `LoneSignalEndsAll` speaks
  of one signal after the start.
- The early return of `_flush_local_stats` looks at the packet count only, so the rows saved
  by the last batch of a cleanup can stay in the local counter (`mqtt/processors.py:230`).
- An INSERT that failed is logged as a batch of duplicates (`mqtt/processors.py:489`, `354`).
- A refused connection resets the backoff like a lost one (`mqtt/thread.py:375`).
- "3 consecutive 30-second periods" is three checks, about 40 s in all (`mqtt/thread.py:289`).
- `stop()` during a reconnect stops the client it sees; one created after that keeps its network loop
  (`mqtt/thread.py:542`).
- The first packet of a new station gives no report: the station object is used after its session is closed
  (`mqtt/filters.py:208`).
- The station lookup remembers that a station does not exist (`mqtt/filters.py:147`). Where it has been created since, its packets give no report until
  the cache forgets, because each tries to create it again and meets the unique callsign. `StationBehindReport` checks only
  that, whatever the cache says, no report is without a station.
- ctrl-c aborts the Rust processor with packets in its batch and its channel (`main.rs:124`).

REST API:

- An answer that was read before a request was logged, and stored after the invalidation, counts as fresh until it expires or
  the next request is logged (`db/db.py:313`). `ListingsShowLogged` calls such a row due only when it is older than the expiry time and the time an answer is
  held, or when an answer for the same query has shown it.
- While one thread regenerates an expired or invalidated answer, every other thread is handed the old one, of whatever age (`db/caching_query.py:75`, the library's
  rule). A client may so miss rows that were logged long before it asked. `ListingsShowLogged` allows it only what the regenerating thread is about to show.
- `wx_history` compares `delta.days > 30` (`flask.py:563`), which lets 30 days, 23 hours and 59 minutes pass. Its error text
  (`flask.py:565`, "maximum of 30 days"), the design (`docs/superpowers/specs/2026-03-24-wx-history-api-design.md`, line 67, "`end - start` ≤ 30 days")
  and the README of the repository (line 241, "max 30 days from start") say at most 30 days. The answer then has up to 24 hourly buckets more than they allow.

Dashboard:

- "When a packet with coordinates arrives, the station's country is updated" (`station_cache.py:5`), and the tests of the live feed
  (`haminfo-dashboard/tests/test_websocket.py`, lines 35-50, 54-69 and 114-134) send a row with coordinates and without `country_code` to the room of the country it is in.
  `websocket.py:175-205` looks at `country_code` and else at the cache, at coordinates only for the state of a US row. The ingest writes rows without a country code (migration `f2a3b4c5d6e7`, lines 7-9, has it
  "determined at insert time"), and `populate-country-codes` gives one to stations, not to packets; such rows reach only `live_feed`. `CountryIsLastKnown` is about the country code of rows; `LiveFeed` has no
  coordinates because the code does not choose a country by them.
- A tile of which a box covers only a part is stored as if it were whole, and later boxes find it incomplete (`queries.py:359`; the
  design `docs/superpowers/specs/2026-03-29-map-tile-caching-design.md`, lines 69-73 and 92, queries by tile). A box of more than 100 tiles loses the
  rest, a query of more rows than its limit the older ones.
- Without a configuration file no thread is started that would ever make the site ready (`app.py:211`; the dashboard's README starts it
  so, lines 37-40).
- `get_state_stations` is never cached: its rows contain a datetime, and the JSON serializer refuses it.
- Where the country column is missing, the fallback of the country queries runs in a transaction PostgreSQL has aborted.
- The second page of the weather list is cached apart from the first; when the first is newer, a station may be on neither.
- Stations at latitude or longitude 0 are left off the map.
- Statistics from the aggregates lack the current hour, and whatever a missed refresh did not bring; those of the last 24 hours lose
  the oldest, broken hour.
- `get_tile_stations`, `query_tile_from_db`, `get_map_stations` and `count_map_stations` are called by nothing.
- A browser that leaves a country is not put back into `live_feed`; warming the station cache
  takes the last SSID in alphabetical order, not the newest packet, of an operator; the start-up
  progress goes up to 120 % (`websocket.py:79`, `station_cache.py:177`, `app.py:350`).

Maintenance:

- `clone-from` copies a table with `pg_dump --data-only --table=...` (`db/clone.py:119-135`). `weather_report` and `aprs_packet` are hypertables (migrations
  `c3d4e5f6a7b8` and `d5e6f7a8b9c0`, line 14): their rows are in chunks of another schema, which the option does not select, so pg_dump writes none and exits
  with 0. The tables were truncated before, and the clone reports success with both empty. `PlainTablesCloned` promises nothing of them but that.
- A refused commit leaves the session waiting for a rollback nobody makes, so that every later repeater is lost, although the
  comment at `cmds/fetch_repeaterbook.py:156` says that others are committed; and a country that raises ends the whole fetch.
- `updated` of `populate-country-codes` counts codes whose commit failed.
- `clone-from --tables station,weather_station`, the example in the help (`cmds/db.py:349`), empties `weather_report` by CASCADE and
  does not fill it again. A clone that fails leaves the tables it was at partly filled.
- The loop that sets sequences fails at `aprs_packet`, which has no `id`; the transaction is aborted and the others are lost
  with it (`pg_dump` restores sequences anyway). `session_replication_role` is set on a connection `psql` does not use.
- `clean_empty_wx_stations` and `delete_USA_state_repeaters` are called by nothing.

## 5. Proofs

Thirty-two theorems, each for every value of the constants; all but one state a property that a run also checks.

| Theorem | States | Argument |
|---|---|---|
| `AprsIngest_proofs!TypeCorrect` | `[]TypeOK` | inductive as it stands; one lemma per handler and for each way a save ends |
| `AprsIngest_proofs!BoundedMemory` | `[]MemoryBounded` | from `BoundInv` |
| `AprsIngest_proofs!CleanupLeavesNothing` | `[]CleanupEmptiesBatch` | from `BoundInv` |
| `AprsIngest_proofs!PacketsConserved` | `[]Conservation` | inductive together with `TypeOK` |
| `AprsIngest_proofs!PipelineImplementsLedger` | `LedgerSpec` | step by step, from `Conservation` and `UniqueKeys` |
| `AprsIngest_proofs!CountersAreExact` | `[]CountersExact` | `CountInv`, sums over the processors |
| `Threads_proofs!OneLoopDelivers` | `[]OneNetworkLoop` | from `ConnectionInv` |
| `Threads_proofs!FlagsAreCurrent` | `[]ConnectedIsCurrent` | from `ConnectionInv` |
| `Threads_proofs!SilenceIsBounded` | `[]SilenceBounded` | from `SilenceInv` |
| `Threads_proofs!StopEndsThread` | `[]StopIsPrompt` | from `StopInv` |
| `Threads_proofs!RegistryIsExact` | `[]RegistryExact` | inductive with `LockInv` and `ProgressInv` |
| `Threads_proofs!WalkReachesAll` | `[]WalkSkipsNobody` | from `WalkInv` and `LockInv` |
| `Threads_proofs!TroubleIsReported` | `[]TroubleReported` | from `FileInv`, `CountInv` and `ReportInv` |
| `Threads_proofs!RecoveryIsReported` | `[]RecoveryReported` | from `FileInv`, `FlowInv` and `CleanInv` |
| `WeatherIngest_proofs!ReportsHaveStations` | `[]StationBehindReport` | from `StationInv` |
| `WeatherIngest_proofs!ReportsOnce` | `[]WrittenAndCountedOnce` | from `OnceInv` |
| `WeatherIngest_proofs!BatchClearedOnlyIfWritten` | `ClearedOnlyIfWritten` | an action property; every step, from `Typed` |
| `RustIngest_proofs!StatsAreExact` | `[]StatsExact` | from `IngestInv` |
| `RustIngest_proofs!RustImplementsLedger` | `LedgerSpec` | step by step, from `IngestInv` |
| `RestApi_proofs!MutexNeverLeaks` | `[]MutexHasWorker` | from `MutexInv` |
| `RestApi_proofs!ListingsAreCurrent` | `ListingsShowLogged` | an action property; every end of a lookup, from `ListInv` |
| `RestApi_proofs!WxListIsBounded` | `[]WxListBounded` | from `WxListInv` |
| `Maintenance_proofs!SuccessMeansCopied` | `[]PlainTablesCloned` | from `CloneInv` |
| `Maintenance_proofs!RegionsAreIndependent` | `[]RegionsIndependent` | from `FetchInv` |
| `Maintenance_proofs!ProgressIsBounded` | `[]ProgressBounded` | from `PopulateInv` |
| `Dashboard_proofs!AnswersAreFresh` | `[]AnswersFresh` | from `ServeInv` |
| `Dashboard_proofs!SiteOpens` | `[]ReadyAfterWarming` | from `ServeInv` |
| `Dashboard_proofs!MapShowsWhatWasAsked` | `[]MapAsAsked` | from `ServeInv`, `DataInv` and `MapInv` |
| `Dashboard_proofs!BarsAreWhole` | `BarsWhole` | an action property; from the queries and `DataInv` |
| `Dashboard_proofs!FeedIsInOrder` | `[]FeedInOrder` | from `FeedInv`: `RoomsInv`, `ShownInv` |
| `Dashboard_proofs!SkipsAreExplained` | `[]SkipsExplained` | from `FeedInv`: `ShownInv` |
| `Dashboard_proofs!CountriesAreLastKnown` | `[]CountryIsLastKnown` | from `FeedInv`: `StationInv` |

**Safety is proved completely**: every invariant, action property and refinement that a passing run checks has a theorem.
No proof uses fairness.

### Induction without induction theorems

The library's induction theorems take an operator as a parameter, which none of the provers can instantiate. Two facts take
their place in `SequenceLemmas`. `LeastNumber`: a non-empty set of naturals has a least element. `SubsetInduction`: a *set* of subsets
of a finite set that contains the empty one, and with each set the set with one element more, contains them all; the predicate is the set it
separates, an ordinary value. In the same way `Climb` goes from 0 up to a number, and `Iterates` gives a value that is changed step by step, which
is how a recursive function over the rows of a poll, or the callsigns of a warm-up, is known to have the values its equation says. From `SubsetInduction`
come existence and uniqueness of a sum over a finite set (`IsSum`, `SumExists`), and how a sum changes with one of its terms (`SumChange`), which is what the counters need.

### AprsIngest

For every set of packets, number of processors, queue size, batch size, stagger and statistics interval. The proofs rest on `PacketAssumption` and
`SizeAssumption` (positive sizes, `Key` defined on the packets).

`MemoryBounded` is not inductive: it says that a batch is below its threshold where the loop takes another
packet, but not how a save that is under way must leave it. `BoundInv` adds that (`BatchControl`): at every point
other than `flush`, `save`, `copy` and `insert` the batch is below the threshold, the mode `cleanup`
belongs to the last save, and a processor that is done has an empty batch.

`Conservation` holds in four kinds of step, each a lemma: a packet arrives (`ArriveQueued`, `ArriveEnds`),
is taken off a queue (`GetPacketConserves`, `GetRejectedConserves`), its batch leaves memory with some of it as
new rows (`BatchLeavesConserves`), or a COPY commits and raises (`CopyRaisedConserves`), which is why
the invariant lets a batch and the table overlap between `copy` and `insert` and nowhere else.

The refinement maps a packet to the stage of the ledger it is in (`Stage`). A packet of a batch whose COPY committed and raised is
stored already, so the table goes before the batch in `Stage`. A step is one of the ledger's, a single packet that moves (`OneMoves`) or
several that are settled together (`SettleStep`), or leaves all stages alone (`StutterStep`); that the two keep different keys apart is `UniqueKeys`.

`CountInv` says of the sums over the processors what `CountersExact` says of the totals, and which counts may wait locally:
`FlushTotals` moves a term from a sum to the shared total, `BatchLeavesProcessed` keeps the set the count is about.

### MqttConnection

For every number of client objects, every interval and every bound on the faults, from `ClientAssumption` and `TimingAssumption`.

`OneNetworkLoop` alone allows a client to be replaced under a running loop. `ConnectionInv` says where the client is already gone
(`Cleared`) and that from `reset` to `start` no loop runs (`Unlooped`): then nothing can set `connected` there, and what is set elsewhere is
set by the current client. `CallInv` says that no call outlasts the time it may block, and `StopInv` adds up what a thread told to stop still has to sit through: its age since `stop()` and
`Remaining`, the ticks that the rest of its way may take from where it is, are together at most a dial and three seconds. `SilenceInv` counts the checks: one that
finds the connection silent moves an interval from `since_check` to `consecutive_empty_checks`, of which there are at most three; the teardown that follows adds the ticks it has blocked. That the bound holds
for every `MESSAGE_TIMEOUT`, a shorter one than the empty period included, is what the proof adds to the run.

### Shutdown

For every list of workers (each built once, KeepAlive last) and number of signals. Whether the registry is exact hangs on who holds its lock. `LockInv`: frame 0 holds
it exactly in the middle of `add`, a handler exactly while it walks. `ProgressInv` follows construction and start, which go through the workers in two
different orders. `WalkInv`: whatever is before the position of a walk has been told to stop; since the walking frame has the lock, nobody leaves the
list under it, and a worker that leaves when the walk is over takes one element out (`RemoveFacts`).

### KeepAlive

For every number of processors, interval of at least two ticks, limit, and cap on the history, from `KeepAliveAssumption`; it asks that a file
is not thrown away before the next is due (`Interval <= FileAgeLimit`), as the code's 60 and 300 s are. A bound on the delay of an alarm adds up the stations of the
news: `SinceGather` and `SinceDump` say how old gathered data and file are at each point of the loop, the dumps that failed since included (`missed`); `FileInv` says that the file's time stamp says no more, and
that a file that cannot be read is being written or its last dump failed.
`CountInv` says how much of the trouble the counters have seen, an interval for each gathering that found nothing. `ReportInv` then
bounds how long the trouble may have lasted while data or file do not show it, `CleanInv` how long health has lasted, counted from the last dump that failed, before both show nothing else; for the
latter `FlowInv` says that a counter that stood still at a gathering did so while nothing flowed. The run had checked `RecoveryReported` with three
intervals; the proof shows two.

### WeatherIngest

A report joins the batch on the word of the cache, so `StationBehindReport` needs `CacheTrue`: the cache says
"found" only of a callsign that has a row. What it says of missing rows may be stale and does no harm. `QuietStep` serves the steps that leave the
batch, the reports and the cache alone, `WriteStep` both ends of a write. `OnceInv` adds that a packet is in one place
(`OnePlace`) and what the counter has counted (`Counting`); each step moves one packet (`ShiftStep`), a batch (`SaveOnce`) or none (`StillStep`).
The proofs rest on `WeatherAssumption` (each packet has a
callsign), and on stations never being deleted while the ingest runs, as in the module.

### RustIngest

`IngestInv` has five parts: types, one place for each packet, unique keys, what an insert in progress has done and what of it is known
(`InsertInv`), and the counters (`CountInv`). The last two say between them what `StatsExact` says only of the ends of a step. `MoveStep` serves the packets
that move, `QuietStep` the rest. The refinement is that of `AprsIngest`, with the rows written by an insert that is not answered yet as the stage that differs.

### RestApi

A mutex is released under the query at the head of the thread's list, so `MutexInv` adds the shape of the state and
that a thread that looks something up has a query on its list. A step changes one thread: one that holds nothing (`FreeThread`),
one that lets go of its mutex (`Release`) or one that takes it.

`ListInv` is what `ListingsShowLogged` rests on: rows and ages (`TablesInv`), what an entry of the cache has to show (`EntryOk`) and what a thread
in the middle of a lookup has to (`LookupOk`), each by its age. One lemma says what the step of a thread does to its own lookup (`StepSelf`), one what it
does to those of the others (`StepOthers`), one what it does to the region (`StepRegion`), and three what time does. `NewestShows`
is the reason a page is enough: of a set of rows, the newest *n* leave out only rows older than all of them. `EndsByStep` says which steps end a lookup, and
`LookupShowsDue` that each shows what is due; for an old value handed out by `InProgressElsewhere`, `ComingShows` says that the holder of the mutex has
all that is due, in hand or in the table. `WxListInv` is the same for the unlocked cache.

The proofs use that requests go to one of the
`Handlers`, that the log tables are the two of the source, that `None` is no thread and no table, and that a coordinate that is a number has an integer for
it and a plan's queries are among `Keys` (`InputAssumption`).

### Maintenance

`PlainTablesCloned` speaks of the last moment of the command; `CloneInv` says what has been copied at each moment
before it: what the dump carries of every table no longer to be copied, as long as neither process has failed. `OtherStep` serves the commands beside it.
`FetchInv` adds to `RegionsIndependent` where the fetch can be (`FetchPlace`); a region that is left is complete (`FetchLeavesRegion`), and a row that is saved
keeps the earlier ones, because an id names one repeater in whichever region it is (`RegionAssumption`). `PopulateInv` counts:
`Remainder` is the arithmetic modulo `BatchSize`, `CodesKept` says where a code that was found is (`PlaceAssumption`: a station is a callsign and a code).
The attempt to prove `RegionsIndependent` showed that the model had no region with an empty answer, which the code leaves alone; it has one now, and so does the run.

### Dashboard

For every number of threads, every lifetime, load and bound of the map, from `DashboardAssumption`, `LoadAssumption` and what `DashboardQueries` assumes of its
constants. `LoadAssumption` gives the pages their fields and says that an age is counted beyond every period a map asks for, so that cutting ages off changes no answer.

`ServeInv` follows a value from the read it was made of to the answer. While a thread looks it holds nothing; what it queried is as old as the page has
taken (`WorkerFresh`); an entry's age and what is left of its life add up to a constant (`EntryOk`), which time leaves alone (`TickServes`). One lemma serves each action,
and `Serves` the steps of one thread. `SiteOpens` is the last conjunct.

`DataInv` orders the packets by age. `MapInv` says of each stored tile that it has nothing but packets that fit it, and, unless marked `partial`, every packet
that was due when it was read (`TileOk`); of a thread, the same for the tiles it merged (`Gathered`) and the rows it queried (`Fetched`). A query that is not
cut and covers a tile finds all that is due in it (`WholeTile`), a newer position of the same station meanwhile moves it elsewhere (`Arrives`), time
lets packets leave the window and none enter it (`TilePasses`, `MapPasses`), and the answer takes the newest of what is merged (`NewestFacts`, `AnswerMap`).

The charts do not depend on the state of the threads: `WeekFacts` says that no packet of the six
past days is too old for the window of a week, by its own age or by that of its bucket, `HourlyFacts` that the buckets of the last day have every packet of it and none
that is more than the broken hour older.

Three of the properties were wrong where the small instance did not look, and the proofs found it: on a slow page the time of the page counts twice
for a map (once for the page that stored a tile, once for the one that hit it and then waits for its query; the bound had one), a station at latitude 0 is left out although
the answer has room, and `ReadyAfterWarming` was claimed where no warming thread exists. The properties now say so, and the run has loads with a slow page, a
station on the equator and no configuration.

### LiveFeed

For every set of rows, arrival times, browsers, callsigns, page size, cache size and number of failing polls, from `FeedAssumption`: rows have
callsigns the database orders, and no country is called like a room. A poll loops over its rows, and a poll that fails does so over a first part of
them (`PrefixFacts`), so what a poll does is proved of each row in turn (`EmitHolds`). `ShownInv`: what a browser was sent was emitted, nothing emitted is newer than
`last_packet_time`, and unless that is 0 one emitted row has exactly this time. Rows of a poll are newer than all of these; with `RoomsInv`, no browser is in `live_feed`
and in the room of a country, so that each row reaches it once (`CopyFacts`). A row that becomes visible behind `last_packet_time` is late or as old as a shown one; a
poll moves past a row only if it took it or Limit others are as new (`BatchFacts`, `SkipsHold`). `StationInv`: the cache has a station once, with the country of the last row since warming
that had one (`LocationTrue`); replacing, evicting and forgetting keep that (`UpdateFacts`), and a row without country changes nothing.

### Model-checked only

- Liveness (`ShutdownCompletes`, `FullBatchLeaves`, `PromptBrokerRecovers`, `LoneSignalEndsAll`, `MqttDeathEndsAll`, `ReportsReachTable`, `ReceivedIsSettled`,
  `FeedProgresses`): fairness and `ENABLED` are beyond the prover.
- `DeathReported` and `StaysSubscribed` are refuted by their runs, see [section 4](#4-where-code-and-documents-disagree).
- What the queries of `DashboardQueries` and the plans of `RestApi` return is proved as far as the theorems above speak of it; their other results
  (rankings, lists, details of a station) are exercised by the runs and stated by no property.

## 6. Not modelled

- Pure conversions: packet parsing in Python and Rust, field validation, decoder, coordinates. The ingest modules
  choose their outcome (accepted, rejected, without callsign). Bounded strings would show little: the code is one expression per field.
- Templates, static files, the weather alerts (thresholds over the stations of a state) and the decode page of the dashboard.
- The legacy ingest command: `cmds/mqtt_ingest.py:148` makes its name an alias of the new command, nothing starts the old one.
- MCP server and SQL filter: text processing without state.
- A `session.rollback()` that raises itself (`mqtt/processors.py:486`): it is not guarded, so the exception would reach `loop()` (lines 308-311), which logs it and keeps the
  batch. The imports at the top of `_warm_cache` (`app.py:303-311`), which its `try` does not enclose: an ImportError would leave the site closed, and `ReadyAfterWarming` speaks of queries that fail.
  A commit of the REST API that takes effect and is reported as failed.
- Migrations, configuration, logging, tracing, command line, one-off scripts: input and output.
- In the modelled parts: log texts, the histogram and callsign set of the statistics (merged in the same locked
  section as the counters), the ping that does nothing, distances (which station is nearest is a fixed order), the fields of a report, the country
  code of a new station, sequences and the two request logs in a clone, the rate limit of the repeater fetch, `state:` rooms and
  the filter echo of the live feed. A packet of the dashboard has one age, where the raw windows look at
  `received_at` and the aggregates at `timestamp`, which for live traffic are seconds apart. Keys of the dashboard's cache differ whenever their arguments do; as strings, `None` and `'None'` coincide
  (`cache.py:136`).

## 7. Plan

The modules planned exist, and every safety property a run checks is proved. What could follow:

1. Composing `AprsIngest` with `MqttConnection`, so that a packet's way starts at the broker; today the flags and the queues are the seam.
2. A property with time in it for the continuous aggregates: how long a missed refresh shows in the statistics.
3. The two request logs and the sequences in a clone, which `Maintenance` leaves out.
