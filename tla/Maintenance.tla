----------------------------- MODULE Maintenance -----------------------------
(***************************************************************************)
(* The commands an operator or cron starts beside the services:            *)
(* fetch-all-repeaters (fetch_repeaterbook.py), populate-country-codes,    *)
(* clone-from (clone.py) and the cleaning of old rows (db.py).  Each is a  *)
(* process of its own on the tables all of them share, and each may fail   *)
(* in the middle.                                                          *)
(*                                                                         *)
(* A table is a set of rows.  An open transaction that has read a table    *)
(* keeps TRUNCATE waiting.  The dump's setval calls are left out: ids are  *)
(* the keys of the rows here.                                              *)
(***************************************************************************)
EXTENDS Integers, Sequences, FiniteSets

CONSTANTS
    Regions,        \* what RepeaterBook holds: Seq([kind, rows]); kind is "state"
                    \*  or "country", a row [id, data, extra, frequency, bad]
    Source,         \* the database clone_from reads: table -> rows
    Hypertables,    \* tables TimescaleDB has split into chunks
    Initial,        \* the tables at the start
    Incoming,       \* rows the ingest processes may write: {<<table, row>>}
    Includes, Excludes, \* values of --tables and of --exclude-tables
    Together,       \* commands that are run, by behaviour
    Codes,          \* country codes Nominatim knows
    BatchSize,      \* stations between two commits
    ReportDays, PacketDays, \* what the cleaning keeps
    MaxToday, MaxFaults,    \* bounds on days and on failures
    None

Tables == {"station", "weather_station", "weather_report", "aprs_packet"}
CopyOrder == [station |-> 1, weather_station |-> 2, weather_report |-> 3, aprs_packet |-> 4]

ASSUME MaintenanceAssumption ==
    /\ BatchSize \in Nat \ {0} /\ ReportDays \in Nat /\ PacketDays \in Nat
    /\ DOMAIN Source = Tables /\ DOMAIN Initial = Tables /\ Hypertables \subseteq Tables
    /\ None \notin {"garbled", "refused"}
    /\ Excludes \subseteq SUBSET Tables /\ Includes \subseteq SUBSET Tables

\* the list of regions is written in the source; an id, (state_id, repeater_id),
\* names one repeater, however many regions it is in
ASSUME RegionAssumption ==
    /\ Len(Regions) \in Nat \ {0} /\ DOMAIN Regions = 1 .. Len(Regions)
    /\ \A r \in DOMAIN Regions :
          /\ Len(Regions[r].rows) \in Nat /\ DOMAIN Regions[r].rows = 1 .. Len(Regions[r].rows)
          /\ \A q \in DOMAIN Regions : \A n \in DOMAIN Regions[r].rows, k \in DOMAIN Regions[q].rows :
                Regions[r].rows[n].id = Regions[q].rows[k].id
                    => Regions[r].rows[n].data = Regions[q].rows[k].data

\* what a row of weather_station holds here
Place(row) == row = [call |-> row.call, code |-> row.code]
ASSUME PlaceAssumption ==
    /\ \A row \in Initial["weather_station"] : Place(row)
    /\ \A entry \in Incoming : entry[1] = "weather_station" => Place(entry[2])

VARIABLES
    db,         \* table -> rows
    today, faults,
    fetch,      \* [pc, region, row, session, open, answered]
    populate,   \* [pc, left, done, dirty, open, found, lost]; found and lost are history
    clone       \* [pc, tables, todo, loaded, dump, psql]

vars == <<db, today, faults, fetch, populate, clone>>

Fault == faults < MaxFaults /\ faults' = faults + 1
Rows(t) == db[t]
WithCall(call) == {r \in Rows("weather_station") : r.call = call}

-----------------------------------------------------------------------------
(* fetch-all-repeaters: one request per region, one commit per repeater.   *)

Region == Regions[fetch.region]
Repeater == Region.rows[fetch.row]

NextRegion(f) == [f EXCEPT !.row = 1, !.region = @ + 1,
                           !.pc = IF f.region = Len(Regions) THEN "done" ELSE "request"]
NextRow(f) == IF f.row = Len(Region.rows) THEN NextRegion(f) ELSE [f EXCEPT !.row = @ + 1]

\* of an exception: a state is logged and left, a country ends the command
Raises(f) == IF Region.kind = "state" THEN NextRegion(f) ELSE [f EXCEPT !.pc = "done", !.open = FALSE]

\* no answer, another status than 200, or no JSON: nothing to load
FetchFails ==
    /\ fetch.pc = "request" /\ Fault
    /\ fetch' = NextRegion(fetch)
    /\ UNCHANGED <<db, today, populate, clone>>

FetchRepeaters ==
    /\ fetch.pc = "request"
    /\ LET f == [fetch EXCEPT !.answered = @ \cup {fetch.region}]
       IN fetch' = IF Len(Region.rows) = 0 THEN NextRegion(f) ELSE [f EXCEPT !.pc = "rows"]
    /\ UNCHANGED <<db, today, faults, populate, clone>>

NoFrequency ==
    /\ fetch.pc = "rows" /\ ~Repeater.frequency
    /\ fetch' = NextRow(fetch)
    /\ UNCHANGED <<db, today, faults, populate, clone>>

\* Station.from_json and update_from_json: what the answer leaves out keeps its
\* value, or gets a default in a new row
StationRow(row) ==
    LET old == {s \in Rows("station") : s.id = row.id}
    IN [id |-> row.id, data |-> row.data,
        extra |-> IF row.extra # None THEN row.extra
                  ELSE IF old = {} THEN "default" ELSE (CHOOSE s \in old : TRUE).extra]

Merged(row) == {s \in Rows("station") : s.id # row.id} \cup {StationRow(row)}

SaveRepeater_CommitsNothing ==                          \* mutant
    /\ fetch.pc = "rows" /\ Repeater.frequency
    /\ fetch.session = "ok" /\ Repeater.bad = None
    /\ \/ fetch.row = Len(Region.rows) /\ db' = [db EXCEPT !["station"] = Merged(Repeater)]
       \/ fetch.row < Len(Region.rows) /\ UNCHANGED db
    /\ fetch' = [NextRow(fetch) EXCEPT !.open = FALSE]
    /\ UNCHANGED <<today, faults, populate, clone>>

SaveRepeater ==
    /\ fetch.pc = "rows" /\ Repeater.frequency
    /\ fetch.session = "ok" /\ Repeater.bad = None
    /\ db' = [db EXCEPT !["station"] = Merged(Repeater)]
    /\ fetch' = [NextRow(fetch) EXCEPT !.open = FALSE]
    /\ UNCHANGED <<today, faults, populate, clone>>

\* a field is missing or is no number
RepeaterGarbled ==
    /\ fetch.pc = "rows" /\ Repeater.frequency
    /\ fetch.session = "ok" /\ Repeater.bad = "garbled"
    /\ fetch' = Raises([fetch EXCEPT !.open = TRUE])
    /\ UNCHANGED <<db, today, faults, populate, clone>>

\* the commit fails, and nobody rolls back: the session refuses from now on
CommitRepeaterFails ==
    /\ fetch.pc = "rows" /\ Repeater.frequency
    /\ fetch.session = "ok"
    /\ \/ Repeater.bad = "refused" /\ UNCHANGED faults
       \/ Repeater.bad = None /\ Fault
    /\ fetch' = Raises([fetch EXCEPT !.session = "broken", !.open = FALSE])
    /\ UNCHANGED <<db, today, populate, clone>>

SessionRefuses ==
    /\ fetch.pc = "rows" /\ Repeater.frequency
    /\ fetch.session = "broken"
    /\ fetch' = Raises(fetch)
    /\ UNCHANGED <<db, today, faults, populate, clone>>

Fetch == FetchFails \/ FetchRepeaters \/ NoFrequency \/ SaveRepeater \/ RepeaterGarbled
            \/ CommitRepeaterFails \/ SessionRefuses

-----------------------------------------------------------------------------
(* populate-country-codes: the stations without a code, one after another, *)
(* a commit after every BatchSize of them and one at the end.              *)

ListStations ==
    /\ populate.pc = "idle"
    /\ LET found == {s.call : s \in {r \in Rows("weather_station") : r.code = None}}
       IN populate' = [populate EXCEPT !.left = found, !.open = (found # {}),
                                       !.pc = IF found = {} THEN "done" ELSE "geocode"]
    /\ UNCHANGED <<db, today, faults, fetch, clone>>

CommitDue_FirstOfBatch(n) == n % BatchSize = 1 % BatchSize    \* mutant
CommitDue(n) == n % BatchSize = 0

Answer(call, code) == IF code = None THEN {} ELSE {[call |-> call, code |-> code]}

\* after a commit or a rollback a station is read again; if it is gone that raises
Geocode(call) ==
    /\ populate.pc = "geocode" /\ call \in populate.left
    /\ populate.open \/ WithCall(call) # {}
    /\ \E code \in Codes \cup {None} :
          populate' = [populate EXCEPT !.left = @ \ {call}, !.done = @ + 1, !.open = TRUE,
                         !.dirty = @ \cup Answer(call, code), !.found = @ \cup Answer(call, code),
                         !.pc = IF CommitDue(populate.done + 1) THEN "commit"
                                ELSE IF populate.left = {call} THEN "final" ELSE "geocode"]
    /\ UNCHANGED <<db, today, faults, fetch, clone>>

StationGone(call) ==
    /\ populate.pc = "geocode" /\ call \in populate.left
    /\ ~populate.open /\ WithCall(call) = {}
    /\ populate' = [populate EXCEPT !.pc = "failed"]
    /\ UNCHANGED <<db, today, faults, fetch, clone>>

Coded == {IF \E d \in populate.dirty : d.call = s.call
          THEN [s EXCEPT !.code = (CHOOSE d \in populate.dirty : d.call = s.call).code] ELSE s :
            s \in Rows("weather_station")}
AfterCommit == CASE populate.pc = "final" -> "done"
                 [] populate.pc = "commit" /\ populate.left = {} -> "final"
                 [] OTHER -> "geocode"
Committed == [populate EXCEPT !.dirty = {}, !.open = FALSE, !.pc = AfterCommit]

CommitCodes ==
    /\ populate.pc \in {"commit", "final"}
    /\ db' = [db EXCEPT !["weather_station"] = Coded]
    /\ populate' = Committed
    /\ UNCHANGED <<today, faults, fetch, clone>>

CommitCodesFails ==
    /\ populate.pc \in {"commit", "final"} /\ Fault
    /\ populate' = [Committed EXCEPT !.lost = @ \cup populate.dirty,
                      !.pc = IF populate.pc = "final" THEN "failed" ELSE @]
    /\ UNCHANGED <<db, today, fetch, clone>>

Populate == ListStations \/ (\E call \in populate.left : Geocode(call) \/ StationGone(call))
               \/ CommitCodes \/ CommitCodesFails

-----------------------------------------------------------------------------
(* clone-from: TRUNCATE, then pg_dump | psql table by table.               *)

TableList(include, exclude) == IF include # {} THEN include ELSE Tables \ exclude

\* TRUNCATE ... CASCADE empties what refers to the table as well
Emptied == clone.tables \cup IF "weather_station" \in clone.tables THEN {"weather_report"} ELSE {}

Locked == (IF fetch.open THEN {"station"} ELSE {}) \cup (IF populate.open THEN {"weather_station"} ELSE {})

Truncate ==
    /\ clone.pc = "start" /\ Emptied \cap Locked = {}
    /\ db' = [t \in Tables |-> IF t \in Emptied THEN {} ELSE db[t]]
    /\ clone' = [clone EXCEPT !.pc = "copy", !.todo = clone.tables]
    /\ UNCHANGED <<today, faults, fetch, populate>>

KeyOf(t, row) == IF t = "station" THEN row.id ELSE IF t = "weather_station" THEN row.call ELSE row
Fits(t, rows) ==
    /\ \A new \in rows, old \in db[t] : KeyOf(t, new) # KeyOf(t, old)
    /\ t = "weather_report" => \A r \in rows : WithCall(r.call) # {}

Load(t, rows) == db' = [db EXCEPT ![t] = @ \cup rows]

\* pg_dump writes a table after those it refers to
Copying(t) ==
    /\ clone.pc = "copy" /\ t \in clone.todo
    /\ \A other \in clone.todo : CopyOrder[t] <= CopyOrder[other]

\* the rows of a hypertable are in its chunks, tables of another schema that
\* --table does not select: pg_dump writes an empty table and ends well
Dumped(t) == IF t \in Hypertables THEN {} ELSE Source[t]

CopyTable(t) ==
    /\ Copying(t)
    /\ Fits(t, Dumped(t)) /\ Load(t, Dumped(t))
    /\ clone' = [clone EXCEPT !.todo = @ \ {t}, !.loaded[t] = Dumped(t)]
    /\ UNCHANGED <<today, faults, fetch, populate>>

\* a row is refused, or psql loses its server; pg_dump dies of the closed pipe,
\* or had written everything already
PsqlFails(t) ==
    /\ Copying(t)
    /\ \/ ~Fits(t, Dumped(t)) /\ UNCHANGED faults
       \/ Fault
    /\ \E dump \in {"ok", "failed"} : clone' = [clone EXCEPT !.pc = "end", !.psql = "failed", !.dump = dump]
    /\ UNCHANGED <<db, today, fetch, populate>>

\* pg_dump fails: psql takes the end of its input for the end of the data
DumpFails(t) ==
    /\ Copying(t) /\ Fault
    /\ \E rows \in SUBSET Dumped(t) :
          /\ Fits(t, rows) /\ Load(t, rows)
          /\ clone' = [clone EXCEPT !.pc = "end", !.dump = "failed", !.loaded[t] = rows]
    /\ UNCHANGED <<today, fetch, populate>>

CopyEnds ==
    /\ clone.pc = "copy" /\ clone.todo = {}
    /\ clone' = [clone EXCEPT !.pc = "end"]
    /\ UNCHANGED <<db, today, faults, fetch, populate>>

CloneEnds_IgnoresDump ==                                \* mutant
    /\ clone.pc = "end"
    /\ clone' = [clone EXCEPT !.pc = IF clone.psql = "failed" THEN "error" ELSE "success"]
    /\ UNCHANGED <<db, today, faults, fetch, populate>>

CloneEnds ==
    /\ clone.pc = "end"
    /\ clone' = [clone EXCEPT !.pc = IF clone.dump = "failed" \/ clone.psql = "failed" THEN "error" ELSE "success"]
    /\ UNCHANGED <<db, today, faults, fetch, populate>>

Clone == Truncate \/ (\E t \in clone.todo : CopyTable(t) \/ PsqlFails(t) \/ DumpFails(t))
            \/ CopyEnds \/ CloneEnds

-----------------------------------------------------------------------------
(* Cleaning, and the ingest processes.                                     *)

CleanWeatherReports ==
    /\ db' = [db EXCEPT !["weather_report"] = {r \in @ : today - r.day <= ReportDays}]
    /\ UNCHANGED <<today, faults, fetch, populate, clone>>

CleanAprsPackets ==
    /\ db' = [db EXCEPT !["aprs_packet"] = {r \in @ : today - r.day <= PacketDays}]
    /\ UNCHANGED <<today, faults, fetch, populate, clone>>

\* today's row of a service, if its keys allow it
Ingest ==
    /\ \E entry \in Incoming :
          /\ "day" \in DOMAIN entry[2] => entry[2].day = today
          /\ Fits(entry[1], {entry[2]})
          /\ db' = [db EXCEPT ![entry[1]] = @ \cup {entry[2]}]
    /\ UNCHANGED <<today, faults, fetch, populate, clone>>

Midnight ==
    /\ today < MaxToday /\ today' = today + 1
    /\ UNCHANGED <<db, faults, fetch, populate, clone>>

Init ==
    /\ db = Initial /\ today = 0 /\ faults = 0
    /\ \E commands \in Together, include \in Includes, exclude \in Excludes :
          LET First(name, point, never) == IF name \in commands THEN point ELSE never
          IN /\ fetch = [pc |-> First("fetch", "request", "done"), region |-> 1, row |-> 1,
                         session |-> "ok", open |-> FALSE, answered |-> {}]
             /\ populate = [pc |-> First("populate", "idle", "done"), left |-> {}, done |-> 0, dirty |-> {},
                            open |-> FALSE, found |-> {}, lost |-> {}]
             /\ clone = [pc |-> First("clone", "start", "never"), tables |-> TableList(include, exclude),
                         todo |-> {}, loaded |-> [t \in Tables |-> {}], dump |-> "ok", psql |-> "ok"]

Next == Fetch \/ Populate \/ Clone \/ CleanWeatherReports \/ CleanAprsPackets \/ Ingest \/ Midnight
Spec == Init /\ [][Next]_vars

-----------------------------------------------------------------------------
(* Properties.                                                             *)

Replaced(t) == clone.pc \notin {"start", "never"} /\ t \in Emptied

\* the repeaters of a region that come before the first one that raises
Loadable(r) ==
    {n \in DOMAIN Regions[r].rows :
        /\ Regions[r].rows[n].frequency
        /\ \A k \in 1..n : Regions[r].rows[k].frequency => Regions[r].rows[k].bad = None}

\* A region that does not answer, or a repeater that cannot be read, costs no
\* other repeater that precedes it or belongs to another state: as long as no
\* commit failed, what was behind the fetch is in the table, in its last form.
RegionsIndependent ==
    fetch.session = "ok" /\ ~Replaced("station") =>
        \A r \in fetch.answered : \A n \in Loadable(r) :
            (r < fetch.region \/ n < fetch.row \/ fetch.pc = "done") =>
                LET row == Regions[r].rows[n]
                IN \E s \in db["station"] : s.id = row.id /\ s.data = row.data

\* "to avoid losing progress": between two commits no more codes are at stake
\* than stations were looked at since, and every other code that was found is in
\* the table, was in a commit that failed, or its station was replaced.
ProgressBounded ==
    /\ Cardinality(populate.dirty) <= IF populate.pc = "commit" THEN BatchSize ELSE populate.done % BatchSize
    /\ Replaced("weather_station") \/ populate.found \subseteq populate.dirty \cup populate.lost \cup Rows("weather_station")

\* clone-from reports success only if every row of every plain table was copied:
\* the end of either process counts, and a partial table is an error.  It is no
\* promise about a hypertable, of which a successful clone has copied nothing.
PlainTablesCloned ==
    clone.pc = "success" =>
        /\ \A t \in clone.tables \ Hypertables : clone.loaded[t] = Source[t]
        /\ \A t \in clone.tables \cap Hypertables : clone.loaded[t] = {}

=============================================================================
