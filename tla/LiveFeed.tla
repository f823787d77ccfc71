------------------------------ MODULE LiveFeed ------------------------------
(***************************************************************************)
(* The live feed of the dashboard: one greenlet polls the table that the   *)
(* ingest processes fill and emits new rows to the rooms the browsers are  *)
(* in; a station cache gives rows without a country the country their      *)
(* operator was last heard from.                                           *)
(*                                                                         *)
(* Rows carry the time they were received at and become visible when their *)
(* batch commits, in another order.  The greenlet only gives way to the    *)
(* handlers in gevent.sleep(2), and the database driver does not yield: a  *)
(* poll is one step.  Left out: the `state:` rooms, which no handler       *)
(* joins, and with them the state codes of the cache; the fields of a row  *)
(* that are only shown.  Its coordinates are among them: the code finds a  *)
(* country for a row by its country_code or its callsign and never by      *)
(* where it is, although the tests and the docstring of the station cache  *)
(* have it otherwise (README, section 4).                                  *)
(***************************************************************************)
EXTENDS Integers, Sequences, FiniteSets, SequencesExt, FiniteSetsExt

CONSTANTS
    Rows,         \* rows the ingest processes write
    Arrivals,     \* the possible received_at, functions from Rows to times
    CallOrder,    \* the callsigns [base, ssid], in the order of the database
    CallOf,       \* CallOf[m]: from_call
    CountryCode,  \* CountryCode[m]: country_code, or NoCountry
    NoCountry,
    Browsers,     \* socket connections
    Limit,        \* rows a poll takes (10)
    MaxSize,      \* of the station cache (100 000)
    EvictCount,   \* stations evicted at a time (1000)
    MaxFaults     \* bound on the polls that raise

RowCountries == {CountryCode[m] : m \in Rows} \ {NoCountry}

ASSUME FeedAssumption ==
    /\ Arrivals # {} /\ Arrivals \subseteq [Rows -> Nat \ {0}]
    /\ DOMAIN CallOf = Rows /\ DOMAIN CountryCode = Rows
    /\ CallOrder \in Seq(Range(CallOrder))
    /\ \A m \in Rows : CallOf[m] \in Range(CallOrder)
    /\ Limit \in Nat \ {0} /\ MaxSize \in Nat \ {0} /\ EvictCount \in Nat \ {0}
    /\ MaxFaults \in Nat
    /\ {"own", "live_feed"} \cap (RowCountries \cup {NoCountry}) = {}

VARIABLES
    received_at,       \* fixed when the packet is received
    aprs_packet,       \* rows that are visible
    polling,           \* the greenlet was spawned
    last_packet_time,  \* _last_packet_time; 0 is None
    station_cache,     \* [call, country] records, the oldest updated_at first
    warmed,            \* warm_station_cache is over
    rooms,             \* rooms of each browser; {} when it is not connected
    feed,              \* what a browser was sent since it connected
    faults,
    emitted, late, crowded, warmed_after
                       \* history, see Emit, Commit, NoteCrowd, Warm

cacheVars == <<station_cache, warmed, warmed_after>>
sockets   == <<rooms, feed>>
poller    == <<polling, last_packet_time, emitted, crowded, faults>>
feedVars == <<received_at, aprs_packet, poller, cacheVars, sockets, late>>

-----------------------------------------------------------------------------
(* StationLocationCache, keyed by the callsign without its SSID *)

Base(m) == CallOf[m].base

Places(cache, base) == {i \in DOMAIN cache : cache[i].call = base}

(* get; a station has one place at most. *)
LastCountry(cache, base) ==
    IF Places(cache, base) = {} THEN NoCountry
    ELSE cache[CHOOSE i \in Places(cache, base) : TRUE].country

(* _evict_oldest *)
Evicted(cache) == SubSeq(cache, EvictCount + 1, Len(cache))

UpdateCache_KeepsFirst(cache, base, country) ==        \* mutant
    LET location == [call |-> base, country |-> country]
    IN IF Places(cache, base) # {} THEN cache
       ELSE Append(IF Len(cache) >= MaxSize THEN Evicted(cache) ELSE cache, location)

(* update: the new location replaces the old one and is the youngest. *)
UpdateCache(cache, base, country) ==
    LET location == [call |-> base, country |-> country]
        kept == IF Places(cache, base) # {}
                THEN RemoveAt(cache, CHOOSE i \in Places(cache, base) : TRUE)
                ELSE IF Len(cache) >= MaxSize THEN Evicted(cache) ELSE cache
    IN Append(kept, location)

(* DISTINCT ON (from_call) ... ORDER BY from_call, received_at DESC: the   *)
(* newest located row of a callsign, any of them if two are equally new.   *)
NewestRow(rows) ==
    CHOOSE m \in rows : \A n \in rows : received_at[n] <= received_at[m]

(* warm_station_cache, run once while the application starts, takes those  *)
(* rows callsign by callsign: of several SSIDs the last one stays.         *)
Warm ==
    LET rows(call) == {m \in aprs_packet : CallOf[m] = call /\ CountryCode[m] # NoCountry}
        cache[n \in 0 .. Len(CallOrder)] ==
            IF n = 0 THEN station_cache
            ELSE IF rows(CallOrder[n]) = {} THEN cache[n - 1]
            ELSE UpdateCache(cache[n - 1], CallOrder[n].base,
                             CountryCode[NewestRow(rows(CallOrder[n]))])
    IN
    /\ ~warmed /\ warmed' = TRUE
    /\ station_cache' = cache[Len(CallOrder)]
    /\ warmed_after' = Len(emitted)
    /\ UNCHANGED <<received_at, aprs_packet, poller, sockets, late>>

-----------------------------------------------------------------------------
(* The ingest processes: a row becomes visible. *)
Commit(m) ==
    /\ m \notin aprs_packet
    /\ aprs_packet' = aprs_packet \cup {m}
    /\ late' = IF \E i \in DOMAIN emitted :
                      received_at[emitted[i].packet] > received_at[m]
               THEN late \cup {m} ELSE late
    /\ UNCHANGED <<received_at, poller, cacheVars, sockets>>

-----------------------------------------------------------------------------
(* poll_packets and broadcast_packet *)

Fresh == {m \in aprs_packet : received_at[m] > last_packet_time}

(* What the query may answer: the newest Limit rows; equal times come in   *)
(* any order.  The loop takes them oldest first.                           *)
Batches ==
    {batch \in UNION {SetToSeqs(S) : S \in kSubset(Min({Limit, Cardinality(Fresh)}), Fresh)} :
        /\ \A i, j \in DOMAIN batch : i < j =>
              received_at[batch[i]] <= received_at[batch[j]]
        /\ \A i \in DOMAIN batch, m \in Fresh \ Range(batch) :
              received_at[m] <= received_at[batch[i]]}

(* broadcast_packet: a row with a country updates the cache ...            *)
Learn(cache, m) ==
    IF CountryCode[m] = NoCountry THEN cache
    ELSE UpdateCache(cache, Base(m), CountryCode[m])

(* ... and each row goes to live_feed and to the room of the country that  *)
(* the cache then has.  A browser in both is sent two copies.              *)
Copies(e, b) == (IF "live_feed" \in rooms[b] THEN <<e.packet>> ELSE <<>>)
                \o (IF e.country \in rooms[b] THEN <<e.packet>> ELSE <<>>)

Emit(batch) ==
    LET cache[n \in 0 .. Len(batch)] ==
            IF n = 0 THEN station_cache ELSE Learn(cache[n - 1], batch[n])
        shown == [i \in DOMAIN batch |->
                    [packet |-> batch[i], country |-> LastCountry(cache[i], Base(batch[i]))]]
        Sent(b) == LET sent[n \in 0 .. Len(batch)] ==
                           IF n = 0 THEN feed[b] ELSE sent[n - 1] \o Copies(shown[n], b)
                   IN sent[Len(batch)]
    IN /\ station_cache' = cache[Len(batch)]
       /\ feed' = [b \in Browsers |-> Sent(b)]
       /\ emitted' = emitted \o shown
       /\ last_packet_time' =
              Max({last_packet_time} \cup {received_at[m] : m \in Range(batch)})

(* Rows with Limit others that are as new, all of them waiting *)
NoteCrowd ==
    crowded' = crowded \cup {m \in Fresh :
        Cardinality({n \in Fresh \ {m} : received_at[n] >= received_at[m]}) >= Limit}

Poll ==
    /\ polling
    /\ NoteCrowd
    /\ \E batch \in Batches : Emit(batch)
    /\ UNCHANGED <<received_at, aprs_packet, polling, faults, warmed,
                   warmed_after, rooms, late>>

PollFails_Dies ==                                      \* mutant
    /\ polling /\ polling' = FALSE
    /\ faults < MaxFaults /\ faults' = faults + 1
    /\ UNCHANGED <<received_at, aprs_packet, last_packet_time, emitted,
                   crowded, cacheVars, sockets, late>>

PollFails_AdvancesFirst ==                             \* mutant
    /\ polling
    /\ faults < MaxFaults /\ faults' = faults + 1
    /\ Fresh # {}
    /\ last_packet_time' = Max({received_at[m] : m \in Fresh})
    /\ UNCHANGED <<received_at, aprs_packet, polling, emitted, crowded, cacheVars,
                   sockets, late>>

(* The query raises, or the handling of a row before it is emitted: the    *)
(* rows before it are out, and the next poll starts with it.               *)
PollFails ==
    /\ polling
    /\ faults < MaxFaults /\ faults' = faults + 1
    /\ NoteCrowd
    /\ \E batch \in Batches : \E n \in {0} \cup 1 .. Len(batch) - 1 :
          Emit(SubSeq(batch, 1, n))
    /\ UNCHANGED <<received_at, aprs_packet, polling, warmed, warmed_after,
                   rooms, late>>

-----------------------------------------------------------------------------
(* The socket handlers, for browser b *)

(* socket.io keeps every connection in a room of its own. *)
Connected(b) == rooms[b] # {}

HandleConnect(b) ==
    /\ ~Connected(b)
    /\ rooms' = [rooms EXCEPT ![b] = {"own", "live_feed"}]
    /\ polling' = TRUE                                 \* start_polling
    /\ UNCHANGED <<received_at, aprs_packet, last_packet_time, emitted, crowded,
                   faults, cacheVars, feed, late>>

(* socket.io takes a browser that is gone out of all rooms; it may come    *)
(* back as a new connection.                                               *)
HandleDisconnect(b) ==
    /\ Connected(b)
    /\ rooms' = [rooms EXCEPT ![b] = {}]
    /\ feed' = [feed EXCEPT ![b] = <<>>]
    /\ UNCHANGED <<received_at, aprs_packet, poller, cacheVars, late>>

HandleJoinCountry_StaysInLiveFeed(b, country) ==       \* mutant
    /\ Connected(b)
    /\ rooms' = [rooms EXCEPT ![b] = @ \cup {country}]
    /\ UNCHANGED <<received_at, aprs_packet, poller, cacheVars, feed, late>>

HandleJoinCountry(b, country) ==
    /\ Connected(b)
    /\ rooms' = [rooms EXCEPT ![b] = (@ \ {"live_feed"}) \cup {country}]
    /\ UNCHANGED <<received_at, aprs_packet, poller, cacheVars, feed, late>>

(* The browser is not put back into live_feed. *)
HandleLeaveCountry(b, country) ==
    /\ country \in rooms[b]
    /\ rooms' = [rooms EXCEPT ![b] = @ \ {country}]
    /\ UNCHANGED <<received_at, aprs_packet, poller, cacheVars, feed, late>>

-----------------------------------------------------------------------------
FeedInit ==
    /\ received_at \in Arrivals
    /\ aprs_packet = {} /\ late = {}
    /\ polling = FALSE /\ last_packet_time = 0 /\ faults = 0
    /\ emitted = <<>> /\ crowded = {}
    /\ station_cache = <<>> /\ warmed = FALSE /\ warmed_after = 0
    /\ rooms = [b \in Browsers |-> {}] /\ feed = [b \in Browsers |-> <<>>]

Handler(b) ==
    \/ HandleConnect(b) \/ HandleDisconnect(b)
    \/ \E country \in RowCountries :
          HandleJoinCountry(b, country) \/ HandleLeaveCountry(b, country)

FeedNext ==
    \/ \E m \in Rows : Commit(m)
    \/ Warm \/ Poll \/ PollFails
    \/ \E b \in Browsers : Handler(b)

FeedSpec == FeedInit /\ [][FeedNext]_feedVars

(* The greenlet wakes up after its sleep.  Nobody has to connect or write. *)
FairFeedSpec == FeedSpec /\ WF_feedVars(Poll)

-----------------------------------------------------------------------------
(* Properties *)

(* Whatever rooms a browser goes through, and whatever polls fail, it is   *)
(* sent each packet at most once and never an older one after a newer one. *)
FeedInOrder ==
    \A b \in Browsers : \A i, j \in DOMAIN feed[b] : i < j =>
        /\ feed[b][i] # feed[b][j]
        /\ received_at[feed[b][i]] <= received_at[feed[b][j]]

Emitted == {e.packet : e \in Range(emitted)}

(* The feed skips a row only if it was committed after a newer one had     *)
(* been shown, if one of exactly its time has been, or if a poll found     *)
(* more rows than it takes: a poll that fails in the middle loses nothing. *)
SkipsExplained ==
    \A m \in aprs_packet \ Emitted :
        received_at[m] <= last_packet_time =>
            \/ m \in late
            \/ \E n \in Emitted : received_at[n] = received_at[m]
            \/ m \in crowded

(* "the last known country_code for each callsign": a row without code,    *)
(* with coordinates or without, is shown in the country of the row of that *)
(* operator emitted last, and in none that no row of the operator came     *)
(* from.                                                                   *)
CountryIsLastKnown ==
    \A i \in DOMAIN emitted :
        LET m       == emitted[i].packet
            country == emitted[i].country
            known   == {j \in warmed_after + 1 .. i - 1 :
                            /\ Base(emitted[j].packet) = Base(m)
                            /\ CountryCode[emitted[j].packet] # NoCountry}
        IN CountryCode[m] = NoCountry /\ country # NoCountry =>
            /\ \E n \in aprs_packet : Base(n) = Base(m) /\ CountryCode[n] = country
            /\ known # {} => country = CountryCode[emitted[Max(known)].packet]

(* The feed does not get stuck: once somebody has connected, each row is   *)
(* shown or overtaken, however the polls before failed.                    *)
FeedProgresses ==
    \A m \in Rows :
        (m \in aprs_packet /\ \E b \in Browsers : Connected(b))
            ~> last_packet_time >= received_at[m]

=============================================================================
