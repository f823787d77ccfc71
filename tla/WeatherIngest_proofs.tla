------------------------ MODULE WeatherIngest_proofs ------------------------
(* Proofs about WeatherIngest, for every set of packets and callsigns,      *)
(* queue size, batch size and number of faults.                             *)
(*                                                                          *)
(* A report joins the batch on the word of the cache, so that a report has  *)
(* its station only because the cache never says "found" of a callsign      *)
(* without a row: CacheTrue.  What it says of missing rows may be stale.    *)
EXTENDS WeatherIngest, SequenceLemmas

Typed ==
    /\ inbound \subseteq Packets /\ packet \subseteq Packets
    /\ packet_queue \in Seq(Packets) /\ reports \in Seq(Packets)
    /\ weather_report \in [Packets -> Nat]
    /\ cache \in [Calls -> {"unknown", "missing", "found"}]

CacheTrue == \A call \in Calls : cache[call] = "found" => call \in weather_station

StationInv == Typed /\ CacheTrue /\ StationBehindReport

-----------------------------------------------------------------------------
(* Each packet has one of the callsigns. *)
LEMMA CallFacts == \A m \in Packets : CallOf[m] \in Calls
BY WeatherAssumption DEF Calls, Range

LEMMA InitStationInv == Init => StationInv
<1> SUFFICES ASSUME Init PROVE StationInv
  OBVIOUS
<1>1. Typed  BY DEF Init, Typed
<1>2. CacheTrue  BY DEF Init, CacheTrue
<1>3. Pending = {} /\ Stored = {}
  <2>1. Range(<<>>) = {}  BY DEF Range
  <2>2. QED BY <2>1 DEF Init, Pending, Stored
<1>4. QED BY <1>1, <1>2, <1>3 DEF StationInv, StationBehindReport

(* Steps that leave the batch, the table of reports and the cache alone and *)
(* take no station away.                                                    *)
LEMMA QuietStep ==
    ASSUME StationInv, UNCHANGED <<reports, weather_report, cache>>,
           weather_station \subseteq weather_station',
           inbound' \subseteq Packets, packet' \subseteq Packets,
           packet_queue' \in Seq(Packets)
    PROVE  StationInv'
<1>1. Typed'  BY DEF StationInv, Typed
<1>2. CacheTrue'  BY DEF StationInv, CacheTrue
<1>3. Pending' = Pending /\ Stored' = Stored  BY DEF Pending, Stored
<1>4. StationBehindReport'  BY <1>3 DEF StationInv, StationBehindReport
<1>5. QED BY <1>1, <1>2, <1>4 DEF StationInv

(* A write stores what is in the batch, which stays or is cleared.          *)
LEMMA WriteStep ==
    ASSUME StationInv, weather_report' = Written, reports' \in {reports, <<>>},
           UNCHANGED <<inbound, packet_queue, packet, cache, weather_station>>
    PROVE  StationInv'
<1>1. Typed'
  <2>1. ASSUME NEW m \in Packets PROVE weather_report[m] + (IF m \in Range(reports) THEN 1 ELSE 0) \in Nat
    BY DEF StationInv, Typed
  <2>2. Written \in [Packets -> Nat]  BY <2>1 DEF Written
  <2>3. reports' \in Seq(Packets)
    <3>1. reports \in Seq(Packets) /\ <<>> \in Seq(Packets)  BY DEF StationInv, Typed
    <3>2. QED BY <3>1
  <2>4. QED BY <2>2, <2>3 DEF StationInv, Typed
<1>2. CacheTrue'  BY DEF StationInv, CacheTrue
<1>3. Pending' \subseteq Pending
  <2>1. CASE reports' = reports  BY <2>1 DEF Pending
  <2>2. CASE reports' = <<>>
    <3>1. Range(<<>>) = {}  BY DEF Range
    <3>2. QED BY <2>2, <3>1 DEF Pending
  <2>3. QED BY <2>1, <2>2
<1>4. Stored' \subseteq Stored \cup Pending
  BY DEF StationInv, Typed, Stored, Pending, Written
<1>5. StationBehindReport'  BY <1>3, <1>4 DEF StationInv, StationBehindReport
<1>6. QED BY <1>1, <1>2, <1>5 DEF StationInv

LEMMA FindStationInv ==
    ASSUME StationInv, NEW m \in Packets, FindStation(m)
    PROVE  StationInv'
<1> DEFINE call == CallOf[m]
           answer == FindStationByCallsign(call)
<1>1. /\ call \in Calls
      /\ cache' = [cache EXCEPT ![call] = answer]
      /\ UNCHANGED <<inbound, packet_queue, weather_station, weather_report>>
  BY CallFacts DEF FindStation, database
<1>2. /\ answer \in {"unknown", "missing", "found"}
      /\ answer = "found" => call \in weather_station
  BY <1>1 DEF FindStationByCallsign, StationInv, Typed, CacheTrue
<1>3. \/ UNCHANGED reports /\ packet' \subseteq Packets
      \/ answer = "found" /\ reports' = Append(reports, m) /\ packet' = {}
  <2>1. CASE answer = "found"
    <3>1. CreateReport(m)  BY <2>1 DEF FindStation
    <3>2. QED BY <2>1, <3>1 DEF CreateReport, Refuse, FilterReturns
  <2>2. CASE answer = "missing" /\ m \in NoPosition
    <3>1. Refuse(m, "no_station")  BY <2>2 DEF FindStation
    <3>2. QED BY <3>1 DEF Refuse, FilterReturns
  <2>3. CASE answer # "found" /\ ~(answer = "missing" /\ m \in NoPosition)
    <3>1. UNCHANGED <<packet, reports>>  BY <2>3 DEF FindStation
    <3>2. QED BY <3>1 DEF StationInv, Typed
  <2>4. QED BY <2>1, <2>2, <2>3
<1> HIDE DEF call, answer
<1>4. cache' \in [Calls -> {"unknown", "missing", "found"}] /\ CacheTrue'
  BY <1>1, <1>2 DEF StationInv, Typed, CacheTrue
<1>5. reports \in Seq(Packets)  BY DEF StationInv, Typed
<1>6. reports' \in Seq(Packets) /\ Pending' \subseteq Pending \cup (IF answer = "found" THEN {m} ELSE {})
  <2>1. CASE UNCHANGED reports  BY <1>5, <2>1 DEF Pending
  <2>2. CASE answer = "found" /\ reports' = Append(reports, m)
    <3>1. reports' \in Seq(Packets) /\ Range(reports') = Range(reports) \cup {m}
      BY <1>5, <2>2, AppendFacts
    <3>2. QED BY <2>2, <3>1 DEF Pending
  <2>3. QED BY <1>3, <2>1, <2>2
<1>7. Typed'  BY <1>1, <1>3, <1>4, <1>6 DEF StationInv, Typed
<1>8. Stored' = Stored  BY <1>1 DEF Stored
<1>9. StationBehindReport'
  BY <1>1, <1>2, <1>6, <1>8 DEF StationInv, StationBehindReport, call
<1>10. QED BY <1>4, <1>7, <1>9 DEF StationInv

LEMMA FilterInv ==
    ASSUME StationInv, NEW m \in Packets, Filter(m)
    PROVE  StationInv'
<1>1. CASE FindStation(m)  BY <1>1, FindStationInv
<1>2. CASE FindStationFails(m)
  BY <1>2, QuietStep DEF FindStationFails, Refuse, FilterReturns, database, StationInv, Typed
<1>3. CASE CreateStation(m)
  <2>1. /\ UNCHANGED <<inbound, packet_queue, cache, weather_report, reports>>
        /\ weather_station \subseteq weather_station' /\ packet' = {}
    BY <1>3 DEF CreateStation, Refuse, FilterReturns
  <2>2. QED BY <2>1, QuietStep DEF StationInv, Typed
<1>4. CASE CannotConvert(m) \/ CountOnly(m)
  <2>1. UNCHANGED <<inbound, packet_queue, reports, cache, database>> /\ packet' = {}
    BY <1>4 DEF CannotConvert, CountOnly, Refuse, FilterReturns
  <2>2. QED BY <2>1, QuietStep DEF database, StationInv, Typed
<1>5. QED BY <1>1, <1>2, <1>3, <1>4 DEF Filter

LEMMA ThreadInv ==
    ASSUME StationInv, Thread
    PROVE  StationInv'
<1>1. CASE Check \/ GetEmpty \/ CleanupNothing
  BY <1>1, QuietStep DEF Check, GetEmpty, CleanupNothing, database, StationInv, Typed
<1>2. CASE Get
  <2>1. Head(packet_queue) \in Packets /\ Tail(packet_queue) \in Seq(Packets)
    BY <1>2, TailFacts DEF Get, StationInv, Typed
  <2>2. QED BY <1>2, <2>1, QuietStep DEF Get, database, StationInv, Typed
<1>3. CASE \E m \in Packets : Filter(m)  BY <1>3, FilterInv
<1>4. CASE SaveSucceeds  BY <1>4, WriteStep DEF SaveSucceeds
<1>5. CASE SaveFails
  <2>1. CASE weather_report' = Written  BY <1>5, <2>1, WriteStep DEF SaveFails
  <2>2. CASE UNCHANGED weather_report
    BY <1>5, <2>2, QuietStep DEF SaveFails, StationInv, Typed
  <2>3. QED BY <1>5, <2>1, <2>2 DEF SaveFails
<1>6. QED BY <1>1, <1>2, <1>3, <1>4, <1>5 DEF Thread

LEMMA NextStationInv == StationInv /\ [Next]_vars => StationInv'
<1> SUFFICES ASSUME StationInv, [Next]_vars PROVE StationInv'
  OBVIOUS
<1>1. CASE Thread  BY <1>1, ThreadInv
<1>2. CASE Stop  BY <1>2, QuietStep DEF Stop, database, StationInv, Typed
<1>3. ASSUME NEW m \in Packets, Offer(m) PROVE StationInv'
  <2>1. packet_queue' \in Seq(Packets)
    <3>1. packet_queue \in Seq(Packets)  BY DEF StationInv, Typed
    <3>2. Append(packet_queue, m) \in Seq(Packets)  BY <3>1, AppendFacts
    <3>3. QED BY <1>3, <3>1, <3>2 DEF Offer
  <2>2. QED BY <1>3, <2>1, QuietStep DEF Offer, database, StationInv, Typed
<1>4. ASSUME NEW call \in Calls, CacheExpires(call) PROVE StationInv'
  <2>1. Typed' /\ CacheTrue'
    BY <1>4 DEF CacheExpires, database, StationInv, Typed, CacheTrue
  <2>2. Pending' = Pending /\ Stored' = Stored /\ UNCHANGED weather_station
    BY <1>4 DEF CacheExpires, database, Pending, Stored
  <2>3. QED BY <2>1, <2>2 DEF StationInv, StationBehindReport
<1>5. CASE UNCHANGED vars
  BY <1>5, QuietStep DEF vars, database, StationInv, Typed
<1>6. QED BY <1>1, <1>2, <1>3, <1>4, <1>5 DEF Next

(* Every report in the batch or in the table has its station, whatever the  *)
(* cache still says and whichever call failed: the foreign key of a batch   *)
(* cannot fail (filters.py, WeatherPacketFilter.filter).                    *)
THEOREM ReportsHaveStations == Spec => []StationBehindReport
<1>1. StationInv => StationBehindReport  BY DEF StationInv
<1>2. QED BY <1>1, InitStationInv, NextStationInv, PTL DEF Spec

-----------------------------------------------------------------------------
(* A report is written and counted once because a packet is in one place:   *)
(* what waits has never been kept, whether in the batch, in the table or in *)
(* the counter of stats-only mode.                                          *)

Waiting == inbound \cup Range(packet_queue) \cup packet
Kept    == Pending \cup Stored \cup Counted

OnePlace ==
    /\ pc \notin {"find", "create"} => packet = {}
    /\ IsInjective(packet_queue)
    /\ inbound \cap Range(packet_queue) = {}
    /\ packet \cap (inbound \cup Range(packet_queue)) = {}
    /\ Waiting \cap Kept = {}

Fates == {"live", "dropped", "garbled", "counted", "empty", "no_station",
          "db_error", "conflict", "detached"}

Counting ==
    /\ IsFiniteSet(Kept) /\ report_counter = Cardinality(Kept)
    /\ fate \in [Packets -> Fates]

OnceInv == OnePlace /\ Counting /\ WrittenOnce

LEMMA InitOnceInv == Init => OnceInv
<1> SUFFICES ASSUME Init PROVE OnceInv
  OBVIOUS
<1>1. Range(<<>>) = {} /\ IsInjective(<<>>)  BY DEF Range, IsInjective
<1>2. Kept = {}  BY <1>1 DEF Init, Kept, Pending, Stored, Counted
<1>3. OnePlace  BY <1>1, <1>2 DEF Init, OnePlace
<1>4. Counting  BY <1>2, FS_EmptySet DEF Init, Counting, Fates
<1>5. WrittenOnce  BY DEF Init, WrittenOnce
<1>6. QED BY <1>3, <1>4, <1>5 DEF OnceInv

(* Steps that move no packet. *)
LEMMA StillStep ==
    ASSUME OnceInv, pc' \notin {"find", "create"} => packet' = {},
           UNCHANGED <<inbound, packet_queue, packet, reports, weather_report,
                       report_counter, fate, unclear>>
    PROVE  OnceInv'
<1>1. Waiting' = Waiting /\ Kept' = Kept
  BY DEF Waiting, Kept, Pending, Stored, Counted
<1>2. QED BY <1>1 DEF OnceInv, OnePlace, Counting, WrittenOnce, Pending

(* Steps that keep nothing more. *)
LEMMA ShiftStep ==
    ASSUME OnceInv, OnePlace', fate' \in [Packets -> Fates], Counted' = Counted,
           UNCHANGED <<reports, weather_report, report_counter, unclear>>
    PROVE  OnceInv'
<1>1. Kept' = Kept  BY DEF Kept, Pending, Stored
<1>2. QED BY <1>1 DEF OnceInv, Counting, WrittenOnce, Pending

LEMMA RefuseStep ==
    ASSUME OnceInv, NEW m \in packet, m \in Packets, NEW how \in Fates, how # "counted",
           Refuse(m, how), UNCHANGED <<inbound, packet_queue, weather_report, unclear>>
    PROVE  OnceInv'
<1>1. /\ packet' = {} /\ pc' \in {"save", "check"} /\ fate' = [fate EXCEPT ![m] = how]
      /\ UNCHANGED <<reports, report_counter>>
  BY DEF Refuse, FilterReturns, Goto, Ends
<1>2. m \notin Kept  BY DEF OnceInv, OnePlace, Waiting
<1>3. fate' \in [Packets -> Fates] /\ Counted' = Counted
  BY <1>1, <1>2 DEF OnceInv, Counting, Counted, Kept
<1>4. Waiting' \subseteq Waiting /\ Kept' = Kept
  BY <1>1, <1>3 DEF Waiting, Kept, Pending, Stored
<1>5. OnePlace'  BY <1>1, <1>4 DEF OnceInv, OnePlace
<1>6. QED BY <1>1, <1>3, <1>5, ShiftStep

(* The packet at hand is kept, and counted with it. *)
LEMMA KeepStep ==
    ASSUME OnceInv, NEW m \in packet, Kept' = Kept \cup {m},
           report_counter' = report_counter + 1, fate' \in [Packets -> Fates],
           packet' = {}, UNCHANGED <<inbound, packet_queue>>
    PROVE  OnePlace' /\ Counting' /\ m \notin Kept
<1>1. m \notin Kept  BY DEF OnceInv, OnePlace, Waiting
<1>2. Counting'
  <2>1. IsFiniteSet(Kept')  BY FS_AddElement DEF OnceInv, Counting
  <2>2. Cardinality(Kept') = Cardinality(Kept) + 1  BY <1>1, FS_AddElement DEF OnceInv, Counting
  <2>3. QED BY <2>1, <2>2 DEF OnceInv, Counting
<1>3. Waiting' = Waiting \ packet
  BY DEF OnceInv, OnePlace, Waiting
<1>4. OnePlace'  BY <1>3 DEF OnceInv, OnePlace
<1>5. QED BY <1>1, <1>2, <1>4

LEMMA CountOnlyOnce ==
    ASSUME OnceInv, NEW m \in Packets, CountOnly(m) PROVE OnceInv'
<1>1. /\ m \in packet /\ packet' = {} /\ fate' = [fate EXCEPT ![m] = "counted"]
      /\ report_counter' = report_counter + 1
      /\ UNCHANGED <<inbound, packet_queue, reports, weather_report, unclear>>
  BY DEF CountOnly, FilterReturns, Goto, Ends, database
<1>2. fate' \in [Packets -> Fates] /\ Counted' = Counted \cup {m}
  BY <1>1 DEF OnceInv, Counting, Fates, Counted
<1>3. Kept' = Kept \cup {m}  BY <1>1, <1>2 DEF Kept, Pending, Stored
<1>4. OnePlace' /\ Counting'  BY <1>1, <1>2, <1>3, KeepStep
<1>5. WrittenOnce'  BY <1>1 DEF OnceInv, WrittenOnce, Pending
<1>6. QED BY <1>4, <1>5 DEF OnceInv

LEMMA CreateReportOnce ==
    ASSUME Typed, OnceInv, NEW m \in Packets, m \in packet, CreateReport(m),
           UNCHANGED <<inbound, packet_queue, weather_report, unclear>>
    PROVE  OnceInv'
<1>1. CASE m \in Empty  BY <1>1, RefuseStep DEF Fates, CreateReport
<1>2. CASE m \notin Empty
  <2>1. /\ packet' = {} /\ UNCHANGED fate /\ report_counter' = report_counter + 1
        /\ reports' = Append(reports, m)
    BY <1>2 DEF CreateReport, FilterReturns
  <2>2. Pending' = Pending \cup {m}  BY <2>1, AppendFacts DEF Pending, Typed
  <2>3. Kept' = Kept \cup {m}  BY <2>1, <2>2 DEF Kept, Stored, Counted
  <2>4. fate' \in [Packets -> Fates]  BY <2>1 DEF OnceInv, Counting
  <2>5. OnePlace' /\ Counting' /\ m \notin Kept  BY <2>1, <2>3, <2>4, KeepStep
  <2>6. weather_report[m] = 0  BY <2>5 DEF Kept, Stored, Typed
  <2>7. WrittenOnce'  BY <2>2, <2>6 DEF OnceInv, WrittenOnce
  <2>8. QED BY <2>5, <2>7 DEF OnceInv
<1>3. QED BY <1>1, <1>2

LEMMA FilterOnce ==
    ASSUME Typed, OnceInv, NEW m \in Packets, Filter(m) PROVE OnceInv'
<1>1. CASE CannotConvert(m)  BY <1>1, RefuseStep DEF Fates, CannotConvert, database
<1>2. CASE CountOnly(m)  BY <1>2, CountOnlyOnce
<1>3. CASE FindStation(m)
  <2> DEFINE answer == FindStationByCallsign(CallOf[m])
  <2>1. m \in packet /\ UNCHANGED <<inbound, packet_queue, weather_report, unclear>>
    BY <1>3 DEF FindStation, database
  <2>2. CASE answer = "found"
    <3>1. CreateReport(m)  BY <1>3, <2>2 DEF FindStation
    <3>2. QED BY <2>1, <3>1, CreateReportOnce
  <2>3. CASE answer = "missing" /\ m \in NoPosition
    <3>1. Refuse(m, "no_station")  BY <1>3, <2>3 DEF FindStation
    <3>2. QED BY <2>1, <3>1, RefuseStep DEF Fates
  <2>4. CASE answer # "found" /\ ~(answer = "missing" /\ m \in NoPosition)
    <3>1. pc' = "create" /\ UNCHANGED <<packet, reports, report_counter, fate>>
      BY <1>3, <2>4 DEF FindStation, Goto
    <3>2. QED BY <2>1, <3>1, StillStep
  <2>5. QED BY <2>2, <2>3, <2>4
<1>4. CASE FindStationFails(m)  BY <1>4, RefuseStep DEF Fates, FindStationFails, database
<1>5. CASE CreateStation(m)
  <2>1. /\ m \in packet /\ UNCHANGED <<inbound, packet_queue, weather_report, unclear>>
        /\ Refuse(m, "conflict") \/ Refuse(m, "detached") \/ Refuse(m, "db_error")
    BY <1>5 DEF CreateStation
  <2>2. QED BY <2>1, RefuseStep DEF Fates
<1>6. QED BY <1>1, <1>2, <1>3, <1>4, <1>5 DEF Filter

(* A write moves the batch into the table, or leaves the packets in both,   *)
(* marked as unclear. *)
LEMMA SaveOnce ==
    ASSUME Typed, OnceInv, weather_report' = Written,
           \/ reports' = <<>> /\ UNCHANGED unclear
           \/ UNCHANGED reports /\ unclear' = unclear \cup Range(reports),
           pc' \notin {"find", "create"}, pc \notin {"find", "create"},
           UNCHANGED <<inbound, packet_queue, packet, report_counter, fate>>
    PROVE  OnceInv'
<1>1. Pending \subseteq Packets  BY RangeFacts DEF Pending, Typed
<1>2. \A m \in Packets : weather_report'[m] = weather_report[m] + IF m \in Pending THEN 1 ELSE 0
  BY DEF Written, Pending
<1>3. Stored' = Stored \cup Pending  BY <1>1, <1>2 DEF Stored, Typed
<1>4. Pending' = {} \/ Pending' = Pending
  <2>1. Range(<<>>) = {}  BY DEF Range
  <2>2. QED BY <2>1 DEF Pending
<1>5. Kept' = Kept  BY <1>3, <1>4 DEF Kept, Counted
<1>6. OnePlace'  BY <1>5 DEF OnceInv, OnePlace, Waiting
<1>7. Counting'  BY <1>5 DEF OnceInv, Counting
<1>8. WrittenOnce'
  <2>1. CASE reports' = <<>> /\ UNCHANGED unclear
    <3>1. Pending' = {}
      <4>1. Range(<<>>) = {}  BY DEF Range
      <4>2. QED BY <2>1, <4>1 DEF Pending
    <3>2. QED BY <3>1, <2>1, <1>2 DEF OnceInv, WrittenOnce, Typed
  <2>2. CASE UNCHANGED reports /\ unclear' = unclear \cup Range(reports)
    <3>1. Pending' = Pending /\ unclear' = unclear \cup Pending  BY <2>2 DEF Pending
    <3>2. QED BY <3>1, <1>2 DEF OnceInv, WrittenOnce, Typed
  <2>3. QED BY <2>1, <2>2
<1>9. QED BY <1>6, <1>7, <1>8 DEF OnceInv

LEMMA ThreadOnce == ASSUME Typed, OnceInv, Thread PROVE OnceInv'
<1>1. CASE Check \/ GetEmpty \/ CleanupNothing
  BY <1>1, StillStep DEF Check, GetEmpty, CleanupNothing, Goto, database, OnceInv, OnePlace
<1>2. CASE Get
  <2> DEFINE m == Head(packet_queue)
  <2>1. /\ Range(packet_queue) = {m} \cup Range(Tail(packet_queue))
        /\ IsInjective(Tail(packet_queue)) /\ m \notin Range(Tail(packet_queue))
    BY <1>2, TailFacts DEF Get, Typed, OnceInv, OnePlace
  <2>2. /\ packet = {} /\ packet' = {m} /\ packet_queue' = Tail(packet_queue) /\ pc' = "find"
        /\ UNCHANGED <<inbound, reports, weather_report, report_counter, fate, unclear>>
    BY <1>2 DEF Get, Goto, database, OnceInv, OnePlace
  <2> HIDE DEF m
  <2>3. Waiting' = Waiting /\ Kept' = Kept
    BY <2>1, <2>2 DEF Waiting, Kept, Pending, Stored, Counted
  <2>4. OnePlace'  BY <2>1, <2>2, <2>3 DEF OnceInv, OnePlace
  <2>5. QED BY <2>2, <2>4, ShiftStep DEF Counted, OnceInv, Counting
<1>3. CASE \E m \in Packets : Filter(m)  BY <1>3, FilterOnce
<1>4. CASE SaveSucceeds  BY <1>4, SaveOnce DEF SaveSucceeds, Goto, AfterSave
<1>5. CASE SaveFails
  <2>1. /\ pc \notin {"find", "create"} /\ pc' \notin {"find", "create"}
        /\ UNCHANGED <<inbound, packet_queue, packet, reports, report_counter, fate>>
    BY <1>5 DEF SaveFails, Goto, AfterSave
  <2>2. CASE weather_report' = Written /\ unclear' = unclear \cup Range(reports)
    BY <2>1, <2>2, SaveOnce
  <2>3. CASE UNCHANGED <<weather_report, unclear>>
    BY <2>1, <2>3, StillStep DEF OnceInv, OnePlace
  <2>4. QED BY <1>5, <2>2, <2>3 DEF SaveFails
<1>6. QED BY <1>1, <1>2, <1>3, <1>4, <1>5 DEF Thread

LEMMA OfferOnce == ASSUME Typed, OnceInv, NEW m \in Packets, Offer(m) PROVE OnceInv'
<1>1. /\ m \in inbound /\ inbound' = inbound \ {m}
      /\ UNCHANGED <<pc, packet, reports, weather_report, report_counter, unclear>>
  BY DEF Offer, database
<1>2. m \notin Kept  BY <1>1 DEF OnceInv, OnePlace, Waiting
<1>3. fate' \in [Packets -> Fates] /\ Counted' = Counted
  <2>1. UNCHANGED fate \/ fate' = [fate EXCEPT ![m] = "dropped"]  BY DEF Offer, Ends
  <2>2. QED BY <2>1, <1>2 DEF OnceInv, Counting, Fates, Counted, Kept
<1>4. Kept' = Kept  BY <1>1, <1>3 DEF Kept, Pending, Stored
<1>5. OnePlace'
  <2>1. CASE UNCHANGED packet_queue
    <3>1. Waiting' \subseteq Waiting  BY <1>1, <2>1 DEF Waiting
    <3>2. QED BY <3>1, <1>1, <1>4, <2>1 DEF OnceInv, OnePlace
  <2>2. CASE packet_queue' = Append(packet_queue, m)
    <3>1. m \notin Range(packet_queue) \cup packet  BY <1>1 DEF OnceInv, OnePlace
    <3>2. /\ Range(packet_queue') = Range(packet_queue) \cup {m} /\ IsInjective(packet_queue')
      BY <3>1, <2>2, AppendFacts DEF Typed, OnceInv, OnePlace
    <3>3. Waiting' = Waiting  BY <1>1, <3>2 DEF Waiting
    <3>4. QED BY <1>1, <1>4, <3>1, <3>2, <3>3 DEF OnceInv, OnePlace
  <2>3. QED BY <2>1, <2>2 DEF Offer
<1>6. QED BY <1>1, <1>3, <1>5, ShiftStep

LEMMA NextOnceInv == Typed /\ OnceInv /\ [Next]_vars => OnceInv'
<1> SUFFICES ASSUME Typed, OnceInv, [Next]_vars PROVE OnceInv'
  OBVIOUS
<1>1. CASE Thread  BY <1>1, ThreadOnce
<1>2. CASE Stop
  BY <1>2, StillStep DEF Stop, database, OnceInv, OnePlace
<1>3. ASSUME NEW m \in Packets, Offer(m) PROVE OnceInv'  BY <1>3, OfferOnce
<1>4. ASSUME NEW call \in Calls, CacheExpires(call) PROVE OnceInv'
  BY <1>4, StillStep DEF CacheExpires, database, OnceInv, OnePlace
<1>5. CASE UNCHANGED vars
  BY <1>5, StillStep DEF vars, database, OnceInv, OnePlace
<1>6. QED BY <1>1, <1>2, <1>3, <1>4, <1>5 DEF Next

(* A report is written once, but for a commit of unknown outcome, and       *)
(* report_counter counts what reached the batch, however often a write is   *)
(* retried (wx_ingest.py, _save_reports; filters.py, _create_report).       *)
THEOREM ReportsOnce == Spec => []WrittenAndCountedOnce
<1>1. Spec => []StationInv  BY InitStationInv, NextStationInv, PTL DEF Spec
<1>2. StationInv => Typed  BY DEF StationInv
<1>3. Spec => []OnceInv  BY <1>1, <1>2, InitOnceInv, NextOnceInv, PTL DEF Spec
<1>4. OnceInv => WrittenAndCountedOnce
  BY DEF OnceInv, Counting, WrittenAndCountedOnce, ReportCounterExact, Kept
<1>5. QED BY <1>3, <1>4, PTL

-----------------------------------------------------------------------------
(* What one step does to the batch: it is left alone, grows by one report,  *)
(* or is written and cleared.                                               *)
LEMMA BatchStep ==
    ASSUME [Next]_vars
    PROVE  \/ UNCHANGED reports
           \/ \E m \in Packets : reports' = Append(reports, m)
           \/ weather_report' = Written
<1>1. ASSUME NEW m \in Packets, FindStation(m)
      PROVE  UNCHANGED reports \/ reports' = Append(reports, m)
  <2> DEFINE answer == FindStationByCallsign(CallOf[m])
  <2>1. CASE answer = "found"
    <3>1. CreateReport(m)  BY <1>1, <2>1 DEF FindStation
    <3>2. QED BY <3>1 DEF CreateReport, Refuse
  <2>2. CASE answer = "missing" /\ m \in NoPosition
    <3>1. Refuse(m, "no_station")  BY <1>1, <2>2 DEF FindStation
    <3>2. QED BY <3>1 DEF Refuse
  <2>3. CASE answer # "found" /\ ~(answer = "missing" /\ m \in NoPosition)
    BY <1>1, <2>3 DEF FindStation
  <2>4. QED BY <2>1, <2>2, <2>3
<1>2. ASSUME NEW m \in Packets,
             CannotConvert(m) \/ CountOnly(m) \/ FindStationFails(m) \/ CreateStation(m)
      PROVE  UNCHANGED reports
  BY <1>2 DEF CannotConvert, CountOnly, FindStationFails, CreateStation, Refuse
<1>3. CASE Check \/ Get \/ GetEmpty \/ SaveFails \/ CleanupNothing \/ Stop \/ UNCHANGED vars
  BY <1>3 DEF Check, Get, GetEmpty, SaveFails, CleanupNothing, Stop, vars
<1>4. CASE SaveSucceeds  BY <1>4 DEF SaveSucceeds
<1>5. ASSUME NEW m \in Packets, Offer(m) PROVE UNCHANGED reports  BY <1>5 DEF Offer
<1>6. ASSUME NEW call \in Calls, CacheExpires(call) PROVE UNCHANGED reports
  BY <1>6 DEF CacheExpires
<1>7. QED BY <1>1, <1>2, <1>3, <1>4, <1>5, <1>6 DEF Next, Thread, Filter

(* "Only clear on success - failed batches will be retried"                 *)
(* (wx_ingest.py, _save_reports): a report leaves the batch only by a write.*)
THEOREM BatchClearedOnlyIfWritten == Spec => ClearedOnlyIfWritten
<1> DEFINE Cleared == \A m \in Pending \ Range(reports') : weather_report'[m] > weather_report[m]
<1>1. Typed /\ [Next]_vars => [Cleared]_vars
  <2> SUFFICES ASSUME Typed, [Next]_vars, NEW m \in Pending \ Range(reports')
               PROVE  weather_report'[m] > weather_report[m]
    OBVIOUS
  <2>1. m \in Packets /\ weather_report[m] \in Nat /\ m \in Range(reports)
    BY RangeFacts DEF Typed, Pending
  <2>2. weather_report' = Written
    <3>1. ~ UNCHANGED reports  BY DEF Pending
    <3>2. ASSUME NEW n \in Packets, reports' = Append(reports, n) PROVE FALSE
      BY <3>2, AppendFacts DEF Typed, Pending
    <3>3. QED BY <3>1, <3>2, BatchStep
  <2>3. weather_report'[m] = weather_report[m] + 1  BY <2>1, <2>2 DEF Written
  <2>4. QED BY <2>1, <2>3
<1>2. Spec => []Typed
  <2>1. StationInv => Typed  BY DEF StationInv
  <2>2. QED BY <2>1, InitStationInv, NextStationInv, PTL DEF Spec
<1>3. Spec => [][Next]_vars  BY DEF Spec
<1>4. Spec => [][Cleared]_vars  BY <1>1, <1>2, <1>3, PTL
<1>5. QED BY <1>4 DEF ClearedOnlyIfWritten

=============================================================================
