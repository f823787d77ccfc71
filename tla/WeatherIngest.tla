--------------------------- MODULE WeatherIngest ----------------------------
(***************************************************************************)
(* The weather processor: WeatherPacketProcessorThread takes packets off   *)
(* the weather queue that AprsIngest fills, WeatherPacketFilter finds the  *)
(* station of each or creates it, and the reports are written in batches.  *)
(*                                                                         *)
(* The station lookup goes through the dogpile cache, which also remembers *)
(* for its expiration time that a callsign had no row.  Every database     *)
(* call may fail; a commit that reports an error may have taken effect.    *)
(* In stats-only mode packets are counted and no database is involved.     *)
(***************************************************************************)
EXTENDS Integers, Sequences, FiniteSets, Functions

CONSTANTS
    Packets,      \* weather packets, by delivery
    CallOf,       \* CallOf[m]: the callsign m comes from
    NoPosition,   \* packets WeatherStation.from_json makes no station of
    Empty,        \* packets whose report is all zeros: is_valid() is False
    QueueSize, BatchSize,
    MaxFaults     \* bound on failing database calls

Calls == Range(CallOf)

ASSUME WeatherAssumption ==
    /\ DOMAIN CallOf = Packets
    /\ NoPosition \subseteq Packets /\ Empty \subseteq Packets
    /\ QueueSize \in Nat \ {0} /\ BatchSize \in Nat \ {0} /\ MaxFaults \in Nat

VARIABLES
    inbound,          \* packets on_message has not offered yet
    packet_queue,
    pc,
    packet,           \* the set with the packet filter() is at work on, or {}
    cache,            \* the dogpile region: "unknown", "missing" or "found"
    weather_station,  \* callsigns with a row
    reports,          \* the batch, in order
    weather_report,   \* weather_report[m]: rows written for m
    report_counter,   \* stats['report_counter'], without the initial value
    fate,             \* history: why a packet has no report
    thread_stop, stats_only,
    faults, unclear   \* faults so far; reports with a commit of unknown outcome

vars == <<inbound, packet_queue, pc, packet, cache, weather_station, reports,
          weather_report, report_counter, fate, thread_stop, stats_only, faults, unclear>>

database == <<weather_station, weather_report>>
control  == <<thread_stop, stats_only>>

Goto(point) == pc' = point
Fault == faults < MaxFaults /\ faults' = faults + 1
Ends(m, how) == fate' = [fate EXCEPT ![m] = how]

-----------------------------------------------------------------------------
(* MQTTThread.on_message offers weather packets with put_nowait. *)
Offer(m) ==
    /\ m \in inbound
    /\ inbound' = inbound \ {m}
    /\ IF Len(packet_queue) >= QueueSize
       THEN Ends(m, "dropped") /\ UNCHANGED packet_queue
       ELSE packet_queue' = Append(packet_queue, m) /\ UNCHANGED fate
    /\ UNCHANGED <<pc, packet, cache, database, reports, report_counter,
                   control, faults, unclear>>

(* MyThread.run *)
Check ==
    /\ pc = "check"
    /\ Goto(IF thread_stop THEN "cleanup" ELSE "get")
    /\ UNCHANGED <<inbound, packet_queue, packet, cache, database, reports,
                   report_counter, fate, control, faults, unclear>>

Get ==
    /\ pc = "get" /\ packet_queue # <<>>
    /\ packet' = {Head(packet_queue)}
    /\ packet_queue' = Tail(packet_queue)
    /\ Goto("find")
    /\ UNCHANGED <<inbound, cache, database, reports, report_counter, fate,
                   control, faults, unclear>>

GetEmpty_OnlyFullBatch ==                              \* mutant
    /\ pc = "get" /\ packet_queue = <<>>
    /\ Goto(IF Len(reports) >= BatchSize THEN "save" ELSE "check")
    /\ UNCHANGED <<inbound, packet_queue, packet, cache, database, reports,
                   report_counter, fate, control, faults, unclear>>

(* queue.Empty: whatever there is gets saved. *)
GetEmpty ==
    /\ pc = "get" /\ packet_queue = <<>>
    /\ Goto(IF reports = <<>> THEN "check" ELSE "save")
    /\ UNCHANGED <<inbound, packet_queue, packet, cache, database, reports,
                   report_counter, fate, control, faults, unclear>>

-----------------------------------------------------------------------------
(* WeatherPacketFilter.filter *)

(* filter() is done with m; the loop looks at the size of the batch next. *)
FilterReturns(n) ==
    /\ packet' = {}
    /\ Goto(IF n >= BatchSize THEN "save" ELSE "check")

Refuse(m, how) ==
    /\ Ends(m, how)
    /\ FilterReturns(Len(reports))
    /\ UNCHANGED <<reports, report_counter>>

(* _convert_packet_to_dict fails. *)
CannotConvert(m) ==
    /\ pc = "find" /\ m \in packet
    /\ Refuse(m, "garbled")
    /\ UNCHANGED <<inbound, packet_queue, cache, database, control, faults, unclear>>

(* Stats-only mode: whatever there is to say of a station or a position,    *)
(* the packet is counted.                                                   *)
CountOnly(m) ==
    /\ pc = "find" /\ m \in packet /\ stats_only
    /\ Ends(m, "counted")
    /\ report_counter' = report_counter + 1
    /\ FilterReturns(Len(reports))
    /\ UNCHANGED <<inbound, packet_queue, cache, database, reports, control,
                   faults, unclear>>

(* _create_report with a station whose id can be read *)
CreateReport(m) ==
    IF m \in Empty THEN Refuse(m, "empty")
    ELSE /\ reports' = Append(reports, m)
         /\ report_counter' = report_counter + 1
         /\ FilterReturns(Len(reports) + 1)
         /\ UNCHANGED fate

(* find_station_by_callsign: the cache answers if it knows, otherwise the  *)
(* table, and the cache keeps the answer, "no row" included.               *)
FindStationByCallsign(call) ==
    IF cache[call] # "unknown" THEN cache[call]
    ELSE IF call \in weather_station THEN "found" ELSE "missing"

FindStation(m) ==
    LET call   == CallOf[m]
        answer == FindStationByCallsign(call)
    IN
    /\ pc = "find" /\ m \in packet /\ ~stats_only
    /\ cache' = [cache EXCEPT ![call] = answer]
    /\ CASE answer = "found"  -> CreateReport(m)
         [] answer = "missing" /\ m \in NoPosition -> Refuse(m, "no_station")
         [] OTHER -> Goto("create") /\ UNCHANGED <<packet, reports, report_counter, fate>>
    /\ UNCHANGED <<inbound, packet_queue, database, control, faults, unclear>>

(* The lookup had to ask the database, and that failed. *)
FindStationFails(m) ==
    /\ pc = "find" /\ m \in packet /\ ~stats_only
    /\ cache[CallOf[m]] = "unknown"
    /\ Fault
    /\ Refuse(m, "db_error")
    /\ UNCHANGED <<inbound, packet_queue, cache, database, control, unclear>>

CreateStation_Unchecked(m) ==                          \* mutant
    /\ pc = "create" /\ m \in packet
    /\ \/ weather_station' = weather_station \cup {CallOf[m]} /\ UNCHANGED faults
       \/ Fault /\ UNCHANGED weather_station
    /\ CreateReport(m)
    /\ UNCHANGED <<inbound, packet_queue, cache, weather_report, control, unclear>>

(* session.add, commit.  The callsign is unique.  After the commit the new *)
(* object is expired and the session is closed, so that _create_report     *)
(* fails to read station.id and there is no report.                        *)
CreateStation(m) ==
    /\ pc = "create" /\ m \in packet
    /\ \/ /\ CallOf[m] \in weather_station
          /\ Refuse(m, "conflict")
          /\ UNCHANGED <<weather_station, faults>>
       \/ /\ CallOf[m] \notin weather_station
          /\ weather_station' = weather_station \cup {CallOf[m]}
          /\ Refuse(m, "detached")
          /\ UNCHANGED faults
       \/ /\ Fault
          /\ weather_station' \in {weather_station, weather_station \cup {CallOf[m]}}
          /\ Refuse(m, "db_error")
    /\ UNCHANGED <<inbound, packet_queue, cache, weather_report, control, unclear>>

(* The region's expiration_time passes for one callsign. *)
CacheExpires(call) ==
    /\ cache[call] # "unknown"
    /\ cache' = [cache EXCEPT ![call] = "unknown"]
    /\ UNCHANGED <<inbound, packet_queue, pc, packet, database, reports,
                   report_counter, fate, control, faults, unclear>>

-----------------------------------------------------------------------------
(* _save_reports and _cleanup *)

Written == [m \in Packets |->
               weather_report[m] + IF m \in Range(reports) THEN 1 ELSE 0]

AfterSave == IF pc = "cleanup" THEN "done" ELSE "check"

SaveSucceeds_NoClear ==                                \* mutant
    /\ pc = "save" \/ (pc = "cleanup" /\ reports # <<>>)
    /\ weather_report' = Written
    /\ Goto(AfterSave)
    /\ UNCHANGED <<inbound, packet_queue, packet, cache, weather_station, reports,
                   report_counter, fate, control, faults, unclear>>

SaveSucceeds ==
    /\ pc = "save" \/ (pc = "cleanup" /\ reports # <<>>)
    /\ weather_report' = Written
    /\ reports' = <<>>
    /\ Goto(AfterSave)
    /\ UNCHANGED <<inbound, packet_queue, packet, cache, weather_station,
                   report_counter, fate, control, faults, unclear>>

SaveFails_Clears ==                                    \* mutant
    /\ pc = "save" \/ (pc = "cleanup" /\ reports # <<>>)
    /\ Fault
    /\ reports' = <<>>
    /\ Goto(AfterSave)
    /\ UNCHANGED <<inbound, packet_queue, packet, cache, database, report_counter,
                   fate, control, unclear>>

(* An exception: the batch is kept, to be written again. *)
SaveFails ==
    /\ pc = "save" \/ (pc = "cleanup" /\ reports # <<>>)
    /\ Fault
    /\ \/ UNCHANGED <<weather_report, unclear>>
       \/ weather_report' = Written /\ unclear' = unclear \cup Range(reports)
    /\ Goto(AfterSave)
    /\ UNCHANGED <<inbound, packet_queue, packet, cache, weather_station, reports,
                   report_counter, fate, control>>

CleanupNothing ==
    /\ pc = "cleanup" /\ reports = <<>>
    /\ Goto("done")
    /\ UNCHANGED <<inbound, packet_queue, packet, cache, database, reports,
                   report_counter, fate, control, faults, unclear>>

Stop ==
    /\ ~thread_stop /\ thread_stop' = TRUE
    /\ UNCHANGED <<stats_only, inbound, packet_queue, pc, packet, cache, database, reports,
                   report_counter, fate, faults, unclear>>

-----------------------------------------------------------------------------
(* A station may be known from an earlier run of the program. *)
Init ==
    /\ inbound = Packets /\ packet_queue = <<>>
    /\ pc = "check" /\ packet = {}
    /\ cache = [call \in Calls |-> "unknown"]
    /\ weather_station \in SUBSET Calls
    /\ reports = <<>> /\ weather_report = [m \in Packets |-> 0]
    /\ report_counter = 0
    /\ fate = [m \in Packets |-> "live"]
    /\ thread_stop = FALSE /\ stats_only \in BOOLEAN /\ faults = 0 /\ unclear = {}

Filter(m) ==
    \/ CannotConvert(m) \/ CountOnly(m)
    \/ FindStation(m) \/ FindStationFails(m) \/ CreateStation(m)

Thread ==
    \/ Check \/ Get \/ GetEmpty \/ (\E m \in Packets : Filter(m))
    \/ SaveSucceeds \/ SaveFails \/ CleanupNothing

Next ==
    \/ Thread \/ Stop
    \/ \E m \in Packets : Offer(m)
    \/ \E call \in Calls : CacheExpires(call)

Spec == Init /\ [][Next]_vars

(* The thread is scheduled; faults end because there are MaxFaults of them. *)
FairSpec == Spec /\ WF_vars(Thread)

-----------------------------------------------------------------------------
(* Properties *)

Pending == Range(reports)
Stored  == {m \in Packets : weather_report[m] > 0}
Counted == {m \in Packets : fate[m] = "counted"}

(* Every report in the batch or in the table belongs to a station that has *)
(* a row, whatever the cache says and however the creation went: the       *)
(* foreign key of a batch cannot fail.                                     *)
StationBehindReport == \A m \in Pending \cup Stored : CallOf[m] \in weather_station

WrittenOnce ==
    \A m \in Packets :
        /\ weather_report[m] > 1 => m \in unclear
        /\ m \in Pending /\ weather_report[m] > 0 => m \in unclear

(* "Only clear on success - failed batches will be retried": a report      *)
(* leaves the batch only into the table, also in _cleanup.                 *)
ClearedOnlyIfWritten ==
    [][\A m \in Pending \ Range(reports') : weather_report'[m] > weather_report[m]]_vars

ReportCounterExact == report_counter = Cardinality(Pending \cup Stored \cup Counted)

(* A report is written once, except after a commit of unknown outcome, and *)
(* report_counter counts each report that reached the batch once, however  *)
(* often its batch is retried; in stats-only mode, each packet.            *)
WrittenAndCountedOnce == WrittenOnce /\ ReportCounterExact

(* A report in the batch reaches the table, however the database calls     *)
(* before it failed, unless the program is stopped first.                  *)
ReportsReachTable ==
    \A m \in Packets : (m \in Pending) ~> (m \in Stored \/ thread_stop)

=============================================================================
