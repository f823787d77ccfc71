------------------------- MODULE Maintenance_proofs -------------------------
(* Proofs about Maintenance: the outcome clone-from reports, what a fetch   *)
(* has saved and what populate-country-codes may lose, for every content of *)
(* the databases and of RepeaterBook, and whatever runs beside them.        *)
EXTENDS Maintenance, FiniteSetTheorems, TLAPS

(* clone-from.  PlainTablesCloned is about the last moment of the command;  *)
(* the invariant says what has been copied at every moment before: each     *)
(* table that is no longer to be copied, as long as neither process failed. *)

Slots == {"pc", "tables", "todo", "loaded", "dump", "psql"}

Shape ==
    /\ clone = [f \in Slots |-> clone[f]]
    /\ clone.loaded = [t \in Tables |-> clone.loaded[t]]
    /\ clone.tables \subseteq Tables /\ clone.todo \subseteq clone.tables

Unfailed == clone.dump # "failed" /\ clone.psql # "failed"
Copied(tables) == \A t \in tables : clone.loaded[t] = Dumped(t)

CloneInv ==
    /\ Shape
    /\ clone.pc = "copy" => Copied(clone.tables \ clone.todo)
    /\ clone.pc = "end" /\ Unfailed => Copied(clone.tables)
    /\ PlainTablesCloned

-----------------------------------------------------------------------------
LEMMA InitCloneInv == Init => CloneInv
<1> SUFFICES ASSUME Init PROVE CloneInv
  OBVIOUS
<1>1. PICK point \in {"start", "never"}, include \in Includes, exclude \in Excludes :
         clone = [pc |-> point, tables |-> TableList(include, exclude), todo |-> {},
                  loaded |-> [t \in Tables |-> {}], dump |-> "ok", psql |-> "ok"]
  BY DEF Init
<1>2. TableList(include, exclude) \subseteq Tables
  BY MaintenanceAssumption DEF TableList
<1>3. Shape
  BY <1>1, <1>2 DEF Shape, Slots
<1>4. QED BY <1>1, <1>3 DEF CloneInv, PlainTablesCloned

(* Steps of the other commands, of the cleaning and of the ingest.          *)
LEMMA OtherStep ==
    ASSUME CloneInv, UNCHANGED clone
    PROVE  CloneInv'
BY DEF CloneInv, Shape, Unfailed, Copied, PlainTablesCloned

LEMMA CloneStep ==
    ASSUME CloneInv, Clone
    PROVE  CloneInv'
<1>1. CASE Truncate
  <2>1. clone' = [clone EXCEPT !.pc = "copy", !.todo = clone.tables]
    BY <1>1 DEF Truncate
  <2>2. Shape' /\ clone'.pc = "copy" /\ clone'.tables \ clone'.todo = {}
    BY <2>1 DEF CloneInv, Shape, Slots
  <2>3. QED BY <2>2 DEF CloneInv, Copied, PlainTablesCloned
<1>2. ASSUME NEW t \in clone.todo, CopyTable(t) PROVE CloneInv'
  <2>1. clone.pc = "copy" /\ clone' = [clone EXCEPT !.todo = @ \ {t}, !.loaded[t] = Dumped(t)]
    BY <1>2 DEF CopyTable, Copying
  <2>2. /\ Shape' /\ clone'.pc = "copy" /\ clone'.tables = clone.tables
        /\ clone'.todo = clone.todo \ {t}
        /\ \A u \in Tables : clone'.loaded[u] = IF u = t THEN Dumped(t) ELSE clone.loaded[u]
    BY <2>1 DEF CloneInv, Shape, Slots
  <2>3. Copied(clone.tables \ clone.todo) /\ clone.tables \subseteq Tables
    BY <2>1 DEF CloneInv, Shape
  <2>4. \A u \in clone'.tables \ clone'.todo : clone'.loaded[u] = Dumped(u)
    BY <2>2, <2>3 DEF Copied
  <2>5. QED BY <2>2, <2>4 DEF CloneInv, Copied, PlainTablesCloned
<1>3. ASSUME NEW t \in clone.todo, PsqlFails(t) PROVE CloneInv'
  <2>1. PICK dump : clone' = [clone EXCEPT !.pc = "end", !.psql = "failed", !.dump = dump]
    BY <1>3 DEF PsqlFails
  <2>2. Shape' /\ clone'.pc = "end" /\ clone'.psql = "failed"
    BY <2>1 DEF CloneInv, Shape, Slots
  <2>3. QED BY <2>2 DEF CloneInv, Unfailed, PlainTablesCloned
<1>4. ASSUME NEW t \in clone.todo, DumpFails(t) PROVE CloneInv'
  <2>1. PICK rows : clone' = [clone EXCEPT !.pc = "end", !.dump = "failed", !.loaded[t] = rows]
    BY <1>4 DEF DumpFails
  <2>2. Shape' /\ clone'.pc = "end" /\ clone'.dump = "failed"
    BY <2>1 DEF CloneInv, Shape, Slots
  <2>3. QED BY <2>2 DEF CloneInv, Unfailed, PlainTablesCloned
<1>5. CASE CopyEnds
  <2>1. clone.pc = "copy" /\ clone.todo = {} /\ clone' = [clone EXCEPT !.pc = "end"]
    BY <1>5 DEF CopyEnds
  <2>2. /\ Shape' /\ clone'.pc = "end"
        /\ clone'.tables = clone.tables /\ clone'.loaded = clone.loaded
    BY <2>1 DEF CloneInv, Shape, Slots
  <2>3. QED BY <2>1, <2>2 DEF CloneInv, Copied, PlainTablesCloned
<1>6. CASE CloneEnds
  <2>1. /\ clone.pc = "end"
        /\ clone' = [clone EXCEPT !.pc = IF clone.dump = "failed" \/ clone.psql = "failed"
                                         THEN "error" ELSE "success"]
    BY <1>6 DEF CloneEnds
  <2>2. /\ Shape' /\ clone'.tables = clone.tables /\ clone'.loaded = clone.loaded
        /\ clone'.pc \in {"error", "success"} /\ (clone'.pc = "success" => Unfailed)
    BY <2>1 DEF CloneInv, Shape, Slots, Unfailed
  <2>3. clone'.pc = "success" => \A t \in clone'.tables : clone'.loaded[t] = Dumped(t)
    BY <2>1, <2>2 DEF CloneInv, Copied
  <2>4. PlainTablesCloned'
    BY <2>3 DEF PlainTablesCloned, Dumped
  <2>5. QED BY <2>2, <2>4 DEF CloneInv
<1>7. QED BY <1>1, <1>2, <1>3, <1>4, <1>5, <1>6 DEF Clone

LEMMA NextCloneInv == CloneInv /\ [Next]_vars => CloneInv'
<1> SUFFICES ASSUME CloneInv, [Next]_vars PROVE CloneInv'
  OBVIOUS
<1>1. CASE Fetch
  BY <1>1, OtherStep DEF Fetch, FetchFails, FetchRepeaters, NoFrequency, SaveRepeater, RepeaterGarbled,
                         CommitRepeaterFails, SessionRefuses
<1>2. CASE Populate
  BY <1>2, OtherStep DEF Populate, ListStations, Geocode, StationGone, CommitCodes, CommitCodesFails
<1>3. CASE Clone  BY <1>3, CloneStep
<1>4. CASE CleanWeatherReports \/ CleanAprsPackets \/ Ingest \/ Midnight
  BY <1>4, OtherStep DEF CleanWeatherReports, CleanAprsPackets, Ingest, Midnight
<1>5. CASE UNCHANGED vars  BY <1>5, OtherStep DEF vars
<1>6. QED BY <1>1, <1>2, <1>3, <1>4, <1>5 DEF Next

LEMMA CloneInvariant == Spec => []CloneInv
<1>1. QED BY InitCloneInv, NextCloneInv, PTL DEF Spec

(* clone-from reports success only if every row of every chosen table that  *)
(* is no hypertable was loaded: an error of pg_dump or of psql, at any      *)
(* table and in either order, ends as an error (clone.py, clone_database).  *)
(* Of a hypertable it has then copied nothing.                              *)
THEOREM SuccessMeansCopied == Spec => []PlainTablesCloned
<1>1. CloneInv => PlainTablesCloned  BY DEF CloneInv
<1>2. QED BY <1>1, CloneInvariant, PTL

-----------------------------------------------------------------------------
(* What the other commands, the cleaning and the ingest do to the two       *)
(* tables that fetch and populate write: until clone-from has emptied it, a *)
(* table only gains rows of the ingest.                                     *)

Watched == {"station", "weather_station"}

LEMMA OtherTables ==
    ASSUME CloneInv, DOMAIN db = Tables, NEW t \in Watched,
           Clone \/ CleanWeatherReports \/ CleanAprsPackets \/ Ingest \/ Midnight \/ UNCHANGED vars
    PROVE  /\ DOMAIN db' = Tables
           /\ Replaced(t) => Replaced(t)'
           /\ ~Replaced(t)' =>
                  \/ db'[t] = db[t]
                  \/ \E entry \in Incoming : entry[1] = t /\ db'[t] = db[t] \cup {entry[2]}
<1> USE DEF Watched, Tables
<1>0. Shape  BY DEF CloneInv
<1>1. CASE Truncate
  <2>1. /\ clone.pc = "start" /\ clone' = [clone EXCEPT !.pc = "copy", !.todo = clone.tables]
        /\ db' = [u \in Tables |-> IF u \in Emptied THEN {} ELSE db[u]]
    BY <1>1 DEF Truncate
  <2>2. clone'.pc = "copy" /\ clone'.tables = clone.tables
    BY <1>0, <2>1 DEF Shape, Slots
  <2>3. Emptied' = Emptied  BY <2>2 DEF Emptied
  <2>4. QED BY <2>1, <2>2, <2>3 DEF Replaced
<1>2. ASSUME NEW u \in clone.todo, CopyTable(u) \/ PsqlFails(u) \/ DumpFails(u)
      PROVE  /\ DOMAIN db' = Tables
             /\ Replaced(t) => Replaced(t)'
             /\ ~Replaced(t)' => db'[t] = db[t]
  <2>1. clone.pc = "copy" /\ u \in clone.tables
    BY <1>0, <1>2 DEF CopyTable, PsqlFails, DumpFails, Copying, Shape
  <2>2. clone'.tables = clone.tables /\ clone'.pc \in {"copy", "end"}
    <3>1. CASE CopyTable(u)
      BY <1>0, <2>1, <3>1 DEF CopyTable, Shape, Slots
    <3>2. CASE PsqlFails(u)
      BY <1>0, <3>2 DEF PsqlFails, Shape, Slots
    <3>3. CASE DumpFails(u)
      BY <1>0, <3>3 DEF DumpFails, Shape, Slots
    <3>4. QED BY <1>2, <3>1, <3>2, <3>3
  <2>3. Emptied' = Emptied /\ u \in Emptied  BY <2>1, <2>2 DEF Emptied
  <2>4. Replaced(t) => Replaced(t)'  BY <2>2, <2>3 DEF Replaced
  <2>5. UNCHANGED db \/ \E rows : db' = [db EXCEPT ![u] = @ \cup rows]
    BY <1>2 DEF CopyTable, PsqlFails, DumpFails, Load
  <2>6. DOMAIN db' = Tables /\ (t # u => db'[t] = db[t])
    BY <2>5
  <2>7. ~Replaced(t)' => t # u  BY <2>2, <2>3 DEF Replaced
  <2>8. QED BY <2>4, <2>6, <2>7
<1>3. CASE CopyEnds \/ CloneEnds
  <2>1. /\ UNCHANGED db /\ clone.pc \in {"copy", "end"}
        /\ clone'.tables = clone.tables /\ clone'.pc \notin {"start", "never"}
    BY <1>0, <1>3 DEF CopyEnds, CloneEnds, Shape, Slots
  <2>2. Emptied' = Emptied  BY <2>1 DEF Emptied
  <2>3. QED BY <2>1, <2>2 DEF Replaced
<1>4. CASE CleanWeatherReports \/ CleanAprsPackets \/ Ingest \/ Midnight \/ UNCHANGED vars
  <2>1. UNCHANGED clone
    BY <1>4 DEF CleanWeatherReports, CleanAprsPackets, Ingest, Midnight, vars
  <2>2. Replaced(t)' = Replaced(t)  BY <2>1 DEF Replaced, Emptied
  <2>3. CASE CleanWeatherReports \/ CleanAprsPackets \/ Midnight \/ UNCHANGED vars
    BY <2>2, <2>3 DEF CleanWeatherReports, CleanAprsPackets, Midnight, vars
  <2>4. CASE Ingest
    <3>1. PICK entry \in Incoming : db' = [db EXCEPT ![entry[1]] = @ \cup {entry[2]}]
      BY <2>4 DEF Ingest
    <3>2. QED BY <2>2, <3>1
  <2>5. QED BY <1>4, <2>3, <2>4
<1>5. QED BY <1>1, <1>2, <1>3, <1>4 DEF Clone

-----------------------------------------------------------------------------
(* fetch-all-repeaters.  Where in the list of regions the command is, and   *)
(* that everything loadable before that place is in the table.              *)

FetchSlots == {"pc", "region", "row", "session", "open", "answered"}

Saved(r, n) ==
    \E s \in db["station"] : /\ s.id = Regions[r].rows[n].id
                             /\ s.data = Regions[r].rows[n].data

FetchPlace ==
    /\ fetch = [f \in FetchSlots |-> fetch[f]]
    /\ fetch.pc \in {"request", "rows", "done"}
    /\ fetch.region \in Nat \ {0} /\ fetch.row \in Nat \ {0}
    /\ fetch.pc # "done" => fetch.region \in DOMAIN Regions
    /\ fetch.pc = "request" => fetch.row = 1
    /\ fetch.pc = "rows" => fetch.row \in DOMAIN Regions[fetch.region].rows
    /\ fetch.answered \subseteq DOMAIN Regions
    /\ \A r \in fetch.answered :
          r <= fetch.region /\ (fetch.pc = "request" => r < fetch.region)

FetchInv == FetchPlace /\ RegionsIndependent /\ DOMAIN db = Tables

LEMMA RegionsRead ==
    RegionsIndependent <=>
        (fetch.session = "ok" /\ ~Replaced("station") =>
            \A r \in fetch.answered : \A n \in Loadable(r) :
                r < fetch.region \/ n < fetch.row \/ fetch.pc = "done" => Saved(r, n))
BY DEF RegionsIndependent, Saved

LEMMA InitFetchInv == Init => FetchInv
<1> SUFFICES ASSUME Init PROVE FetchInv
  OBVIOUS
<1>1. PICK point \in {"request", "done"} :
         fetch = [pc |-> point, region |-> 1, row |-> 1, session |-> "ok", open |-> FALSE,
                  answered |-> {}]
  BY DEF Init
<1>2. /\ fetch = [f \in FetchSlots |-> fetch[f]]
      /\ fetch.pc \in {"request", "done"} /\ fetch.region = 1 /\ fetch.row = 1 /\ fetch.answered = {}
  BY <1>1 DEF FetchSlots
<1>6. 1 \in DOMAIN Regions  BY RegionAssumption
<1>7. FetchPlace  BY <1>2, <1>6 DEF FetchPlace
<1>3. RegionsIndependent  BY <1>1 DEF RegionsIndependent
<1>4. DOMAIN db = Tables  BY MaintenanceAssumption DEF Init
<1>5. QED BY <1>7, <1>3, <1>4 DEF FetchInv

(* Steps that are not of the fetch. *)
LEMMA FetchKept ==
    ASSUME FetchInv, UNCHANGED fetch, DOMAIN db' = Tables,
           Replaced("station") => Replaced("station")',
           ~Replaced("station")' => db["station"] \subseteq db'["station"]
    PROVE  FetchInv'
<1>1. FetchPlace'  BY DEF FetchInv, FetchPlace
<1>2. ASSUME fetch.session = "ok", ~Replaced("station")',
             NEW r \in fetch.answered, NEW n \in Loadable(r),
             r < fetch.region \/ n < fetch.row \/ fetch.pc = "done"
      PROVE  Saved(r, n)'
  <2>1. Saved(r, n)  BY <1>2, RegionsRead DEF FetchInv
  <2>2. QED BY <1>2, <2>1 DEF Saved
<1>3. RegionsIndependent'
  BY <1>2 DEF RegionsIndependent, Saved
<1>4. QED BY <1>1, <1>3 DEF FetchInv

(* A step of the fetch goes on to another place g, where what is loadable   *)
(* and newly behind the fetch is saved.                                     *)
LEMMA FetchMoves ==
    ASSUME FetchInv, FetchPlace', UNCHANGED clone, DOMAIN db' = Tables,
           fetch'.session = "ok" => fetch.session = "ok",
           fetch'.session = "ok" =>
               /\ \A r \in fetch.answered : \A n \in Loadable(r) : Saved(r, n) => Saved(r, n)'
               /\ \A r \in fetch'.answered : \A n \in Loadable(r) :
                      r < fetch'.region \/ n < fetch'.row \/ fetch'.pc = "done" =>
                          \/ /\ r \in fetch.answered
                             /\ r < fetch.region \/ n < fetch.row \/ fetch.pc = "done"
                          \/ Saved(r, n)'
    PROVE  FetchInv'
<1>1. ASSUME fetch'.session = "ok", ~Replaced("station")',
             NEW r \in fetch'.answered, NEW n \in Loadable(r),
             r < fetch'.region \/ n < fetch'.row \/ fetch'.pc = "done"
      PROVE  Saved(r, n)'
  <2>1. ~Replaced("station")  BY <1>1 DEF Replaced, Emptied
  <2>2. CASE /\ r \in fetch.answered
             /\ r < fetch.region \/ n < fetch.row \/ fetch.pc = "done"
    <3>1. Saved(r, n)  BY <1>1, <2>1, <2>2, RegionsRead DEF FetchInv
    <3>2. QED BY <1>1, <2>2, <3>1
  <2>3. QED BY <1>1, <2>2
<1>2. RegionsIndependent'
  BY <1>1 DEF RegionsIndependent, Saved
<1>3. QED BY <1>2 DEF FetchInv

(* Where the fetch is after NextRegion and after NextRow.                   *)
LEMMA NextRegionFacts ==
    ASSUME FetchPlace, fetch.pc # "done", NEW session, NEW open, NEW answered,
           fetch' = [NextRegion(fetch) EXCEPT !.session = session, !.open = open, !.answered = answered]
    PROVE  /\ fetch' = [f \in FetchSlots |-> fetch'[f]]
           /\ fetch'.pc = IF fetch.region = Len(Regions) THEN "done" ELSE "request"
           /\ fetch'.region = fetch.region + 1 /\ fetch'.row = 1
           /\ fetch'.session = session /\ fetch'.answered = answered
           /\ fetch'.pc # "done" => fetch'.region \in DOMAIN Regions
<1>1. /\ fetch' = [f \in FetchSlots |-> fetch'[f]]
      /\ fetch'.pc = IF fetch.region = Len(Regions) THEN "done" ELSE "request"
      /\ fetch'.region = fetch.region + 1 /\ fetch'.row = 1
      /\ fetch'.session = session /\ fetch'.answered = answered
  BY DEF FetchPlace, FetchSlots, NextRegion
<1>2. /\ fetch.region \in 1 .. Len(Regions) /\ Len(Regions) \in Nat
      /\ DOMAIN Regions = 1 .. Len(Regions)
  BY RegionAssumption DEF FetchPlace
<1>3. QED BY <1>1, <1>2

(* The next region: everything loadable of the region that is left is       *)
(* saved, or the region is not among those that answered.                   *)
LEMMA FetchLeavesRegion ==
    ASSUME FetchInv, fetch.pc # "done", UNCHANGED clone, DOMAIN db' = Tables,
           NEW session, NEW open, NEW answered,
           answered \in {fetch.answered, fetch.answered \cup {fetch.region}},
           fetch' = [NextRegion(fetch) EXCEPT !.session = session, !.open = open, !.answered = answered],
           session = "ok" => fetch.session = "ok",
           session = "ok" =>
               /\ \A r \in fetch.answered : \A n \in Loadable(r) : Saved(r, n) => Saved(r, n)'
               /\ \A r \in answered : \A n \in Loadable(r) :
                      r = fetch.region =>
                          (r \in fetch.answered /\ n < fetch.row) \/ Saved(r, n)'
    PROVE  FetchInv'
<1>1. FetchPlace  BY DEF FetchInv
<1>2. /\ fetch' = [f \in FetchSlots |-> fetch'[f]]
      /\ fetch'.pc = IF fetch.region = Len(Regions) THEN "done" ELSE "request"
      /\ fetch'.region = fetch.region + 1 /\ fetch'.row = 1
      /\ fetch'.session = session /\ fetch'.answered = answered
      /\ fetch'.pc # "done" => fetch'.region \in DOMAIN Regions
  BY <1>1, NextRegionFacts
<1>3. fetch.region \in DOMAIN Regions /\ fetch.region \in Nat \ {0}
  BY <1>1 DEF FetchPlace
<1>4. \A r \in answered : r \in DOMAIN Regions /\ r <= fetch.region
  BY <1>1, <1>3 DEF FetchPlace
<1>5. \A r \in DOMAIN Regions : r \in Nat  BY RegionAssumption
<1>6. \A r \in fetch'.answered : r <= fetch'.region /\ r < fetch'.region
  BY <1>2, <1>3, <1>4, <1>5
<1>7. fetch'.pc \in {"request", "done"}  BY <1>2
<1>8. FetchPlace'
  BY <1>2, <1>3, <1>4, <1>6, <1>7 DEF FetchPlace
<1>9. ASSUME session = "ok", NEW r \in fetch'.answered, NEW n \in Loadable(r)
      PROVE  \/ r \in fetch.answered /\ (r < fetch.region \/ n < fetch.row \/ fetch.pc = "done")
             \/ Saved(r, n)'
  <2>1. r <= fetch.region /\ r \in Nat  BY <1>2, <1>4, <1>5
  <2>2. CASE r = fetch.region
    BY <1>2, <1>9, <2>2
  <2>3. CASE r # fetch.region
    <3>1. r < fetch.region  BY <1>3, <2>1, <2>3
    <3>2. r \in fetch.answered  BY <1>2, <1>9, <2>3
    <3>3. QED BY <3>1, <3>2
  <2>4. QED BY <2>2, <2>3
<1>10. QED BY <1>2, <1>8, <1>9, FetchMoves

(* The next repeater: the one that is left is saved, or is not loadable.    *)
LEMMA FetchLeavesRow ==
    ASSUME FetchInv, fetch.pc = "rows", UNCHANGED clone, DOMAIN db' = Tables,
           NEW open, fetch' = [NextRow(fetch) EXCEPT !.open = open],
           \A r \in fetch.answered : \A n \in Loadable(r) : Saved(r, n) => Saved(r, n)',
           \A r \in fetch.answered : \A n \in Loadable(r) :
               r = fetch.region /\ n = fetch.row => Saved(r, n)'
    PROVE  FetchInv'
<1>1. FetchPlace  BY DEF FetchInv
<1>2. /\ fetch.region \in DOMAIN Regions /\ fetch.row \in DOMAIN Region.rows
      /\ fetch.region \in Nat \ {0} /\ fetch.row \in Nat \ {0}
  BY <1>1 DEF FetchPlace, Region
<1>3. /\ Len(Region.rows) \in Nat /\ DOMAIN Region.rows = 1 .. Len(Region.rows)
  BY <1>2, RegionAssumption DEF Region
<1>4. fetch.region \in fetch.answered \/ fetch.region \notin fetch.answered  OBVIOUS
<1>5. CASE fetch.row = Len(Region.rows)
  <2>1. fetch' = [NextRegion(fetch) EXCEPT !.session = fetch.session, !.open = open,
                                           !.answered = fetch.answered]
    BY <1>1, <1>5 DEF NextRow, NextRegion, FetchPlace, FetchSlots
  <2>2. ASSUME NEW r \in fetch.answered, NEW n \in Loadable(r), r = fetch.region
        PROVE  n < fetch.row \/ Saved(r, n)'
    <3>1. n \in 1 .. Len(Region.rows)  BY <1>3, <2>2 DEF Loadable, Region
    <3>2. CASE n = fetch.row  BY <2>2, <3>2
    <3>3. CASE n # fetch.row  BY <1>3, <1>5, <3>1, <3>3
    <3>4. QED BY <3>2, <3>3
  <2>3. QED BY <2>1, <2>2, FetchLeavesRegion
<1>6. CASE fetch.row # Len(Region.rows)
  <2>1. fetch' = [fetch EXCEPT !.row = @ + 1, !.open = open]
    BY <1>1, <1>6 DEF NextRow, FetchPlace, FetchSlots
  <2>2. /\ fetch' = [f \in FetchSlots |-> fetch'[f]]
        /\ fetch'.pc = "rows" /\ fetch'.region = fetch.region /\ fetch'.row = fetch.row + 1
        /\ fetch'.session = fetch.session /\ fetch'.answered = fetch.answered
    BY <1>1, <2>1 DEF FetchPlace, FetchSlots
  <2>3. fetch'.row \in 1 .. Len(Region.rows)  BY <1>2, <1>3, <1>6, <2>2
  <2>4. FetchPlace'
    <3>1. fetch'.row \in DOMAIN Regions[fetch'.region].rows
      BY <1>3, <2>2, <2>3 DEF Region
    <3>2. \A r \in fetch'.answered : r <= fetch'.region
      BY <1>1, <2>2 DEF FetchPlace
    <3>3. /\ fetch'.region \in Nat \ {0} /\ fetch'.row \in Nat \ {0}
          /\ fetch'.region \in DOMAIN Regions
      BY <1>2, <2>2
    <3>6. fetch.answered \subseteq DOMAIN Regions  BY <1>1 DEF FetchPlace
    <3>7. fetch'.answered \subseteq DOMAIN Regions  BY <2>2, <3>6
    <3>4. fetch'.pc # "request" /\ fetch'.pc \in {"request", "rows", "done"}  BY <2>2
    <3>5. QED BY <2>2, <3>1, <3>2, <3>3, <3>4, <3>7 DEF FetchPlace
  <2>5. ASSUME NEW r \in fetch'.answered, NEW n \in Loadable(r),
               r < fetch'.region \/ n < fetch'.row \/ fetch'.pc = "done"
        PROVE  \/ r \in fetch.answered /\ (r < fetch.region \/ n < fetch.row \/ fetch.pc = "done")
               \/ Saved(r, n)'
    <3>1. r \in DOMAIN Regions /\ r <= fetch.region  BY <1>1, <2>2 DEF FetchPlace
    <3>2. r \in Nat /\ n \in Nat
      BY <3>1, RegionAssumption DEF Loadable
    <3>3. CASE r < fetch.region \/ n < fetch.row  BY <2>2, <3>3
    <3>4. CASE ~(r < fetch.region \/ n < fetch.row)
      <4>1. r = fetch.region /\ n = fetch.row  BY <1>2, <2>2, <2>5, <3>1, <3>2, <3>4
      <4>2. QED BY <2>2, <2>5, <4>1
    <3>5. QED BY <3>3, <3>4
  <2>6. QED BY <2>2, <2>4, <2>5, FetchMoves
<1>7. QED BY <1>5, <1>6

(* Nothing from a repeater on that cannot be read counts as loadable.       *)
LEMMA NotLoadable ==
    ASSUME FetchPlace, fetch.pc = "rows", NEW n \in Loadable(fetch.region),
           Repeater.frequency, Repeater.bad # None
    PROVE  n < fetch.row
<1>1. /\ fetch.region \in DOMAIN Regions /\ fetch.row \in Nat \ {0}
      /\ fetch.row \in DOMAIN Regions[fetch.region].rows
  BY DEF FetchPlace
<1>2. n \in Nat  BY <1>1, RegionAssumption DEF Loadable
<1>3. SUFFICES ASSUME fetch.row <= n PROVE FALSE  BY <1>1, <1>2
<1>4. fetch.row \in 1 .. n  BY <1>1, <1>2, <1>3
<1>5. QED BY <1>4 DEF Loadable, Repeater, Region

LEMMA FetchStep ==
    ASSUME FetchInv, Fetch
    PROVE  FetchInv'
<1> USE DEF FetchSlots
<1>0. /\ FetchPlace /\ fetch = [f \in FetchSlots |-> fetch[f]] /\ DOMAIN db = Tables
  BY DEF FetchInv, FetchPlace
<1>1. CASE FetchFails
  <2>1. /\ fetch.pc = "request" /\ fetch' = NextRegion(fetch) /\ UNCHANGED <<db, clone>>
    BY <1>1 DEF FetchFails
  <2>2. fetch' = [NextRegion(fetch) EXCEPT !.session = fetch.session, !.open = fetch.open,
                                           !.answered = fetch.answered]
    BY <1>0, <2>1 DEF NextRegion
  <2>3. \A r, n : Saved(r, n) => Saved(r, n)'  BY <2>1 DEF Saved
  <2>4. fetch.region \notin fetch.answered
    BY <1>0, <2>1 DEF FetchPlace
  <2>5. \A r \in fetch.answered : r # fetch.region  BY <2>4
  <2>6. QED BY <1>0, <2>1, <2>2, <2>3, <2>5, FetchLeavesRegion
<1>2. CASE FetchRepeaters
  <2>1. /\ fetch.pc = "request" /\ UNCHANGED <<db, clone>> /\ fetch.region \in DOMAIN Regions
        /\ fetch.row = 1 /\ fetch.region \in Nat \ {0}
    BY <1>0, <1>2 DEF FetchRepeaters, FetchPlace
  <2>2. Len(Region.rows) \in Nat /\ DOMAIN Region.rows = 1 .. Len(Region.rows)
    BY <2>1, RegionAssumption DEF Region
  <2>3. \A r, n : Saved(r, n) => Saved(r, n)'  BY <2>1 DEF Saved
  <2>4. CASE Len(Region.rows) = 0
    <3>1. fetch' = NextRegion([fetch EXCEPT !.answered = @ \cup {fetch.region}])
      BY <1>2, <2>4 DEF FetchRepeaters
    <3>2. fetch' = [NextRegion(fetch) EXCEPT !.session = fetch.session, !.open = fetch.open,
                                             !.answered = fetch.answered \cup {fetch.region}]
      BY <1>0, <3>1 DEF NextRegion
    <3>3. Loadable(fetch.region) = {}  BY <2>2, <2>4 DEF Loadable, Region
    <3>4. QED BY <1>0, <2>1, <2>3, <3>2, <3>3, FetchLeavesRegion
  <2>5. CASE Len(Region.rows) # 0
    <3>1. fetch' = [fetch EXCEPT !.answered = @ \cup {fetch.region}, !.pc = "rows"]
      BY <1>0, <1>2, <2>5 DEF FetchRepeaters
    <3>2. /\ fetch' = [f \in FetchSlots |-> fetch'[f]] /\ fetch'.pc = "rows"
          /\ fetch'.region = fetch.region /\ fetch'.row = 1 /\ fetch'.session = fetch.session
          /\ fetch'.answered = fetch.answered \cup {fetch.region}
      BY <1>0, <2>1, <3>1
    <3>3. 1 \in DOMAIN Regions[fetch'.region].rows  BY <2>2, <2>5, <3>2 DEF Region
    <3>4. fetch.answered \subseteq DOMAIN Regions /\ \A r \in fetch.answered : r <= fetch.region
      BY <1>0 DEF FetchPlace
    <3>5. /\ fetch'.answered \subseteq DOMAIN Regions
          /\ \A r \in fetch'.answered : r <= fetch'.region
      BY <2>1, <3>2, <3>4
    <3>6. FetchPlace'  BY <2>1, <3>2, <3>3, <3>5 DEF FetchPlace
    <3>7. ASSUME NEW r \in fetch'.answered, NEW n \in Loadable(r),
                 r < fetch'.region \/ n < fetch'.row \/ fetch'.pc = "done"
          PROVE  r \in fetch.answered /\ r < fetch.region
      <4>1. r \in DOMAIN Regions /\ r \in Nat  BY <3>5, RegionAssumption
      <4>2. n \in Nat /\ n >= 1  BY <4>1, RegionAssumption DEF Loadable
      <4>3. r < fetch.region  BY <3>2, <3>7, <4>2
      <4>4. QED BY <2>1, <3>2, <4>1, <4>3
    <3>8. QED BY <1>0, <2>1, <2>3, <3>2, <3>6, <3>7, FetchMoves
  <2>6. QED BY <2>4, <2>5
<1>3. CASE NoFrequency
  <2>1. /\ fetch.pc = "rows" /\ ~Repeater.frequency /\ fetch' = NextRow(fetch)
        /\ UNCHANGED <<db, clone>>
    BY <1>3 DEF NoFrequency
  <2>2. fetch' = [NextRow(fetch) EXCEPT !.open = fetch.open]
    BY <1>0, <2>1 DEF NextRow, NextRegion
  <2>3. \A r, n : Saved(r, n) => Saved(r, n)'  BY <2>1 DEF Saved
  <2>4. fetch.row \notin Loadable(fetch.region)
    BY <2>1 DEF Loadable, Repeater, Region
  <2>5. QED BY <1>0, <2>1, <2>2, <2>3, <2>4, FetchLeavesRow
<1>4. CASE SaveRepeater
  <2>1. /\ fetch.pc = "rows" /\ fetch' = [NextRow(fetch) EXCEPT !.open = FALSE] /\ UNCHANGED clone
        /\ db' = [db EXCEPT !["station"] = Merged(Repeater)]
    BY <1>4 DEF SaveRepeater
  <2>2. DOMAIN db' = Tables /\ db'["station"] = Merged(Repeater)
    BY <1>0, <2>1 DEF Tables
  <2>3. PICK r0, n0, new : r0 = fetch.region /\ n0 = fetch.row /\ new = StationRow(Repeater)
    OBVIOUS
  <2>4. /\ new \in db'["station"] /\ new.id = Regions[r0].rows[n0].id
        /\ new.data = Regions[r0].rows[n0].data
    BY <2>2, <2>3 DEF Merged, StationRow, Repeater, Region
  <2>5. r0 \in DOMAIN Regions /\ n0 \in DOMAIN Regions[r0].rows
    BY <1>0, <2>1, <2>3 DEF FetchPlace
  <2>6. ASSUME NEW r \in fetch.answered, NEW n \in Loadable(r), Saved(r, n)
        PROVE  Saved(r, n)'
    <3>1. r \in DOMAIN Regions /\ n \in DOMAIN Regions[r].rows
      BY <1>0, <2>6 DEF FetchPlace, Loadable
    <3>2. PICK s \in db["station"] : s.id = Regions[r].rows[n].id /\ s.data = Regions[r].rows[n].data
      BY <2>6 DEF Saved
    <3>3. CASE s.id = Repeater.id
      <4>1. Regions[r0].rows[n0].id = Regions[r].rows[n].id
        BY <2>3, <3>2, <3>3 DEF Repeater, Region
      <4>2. Regions[r0].rows[n0].data = Regions[r].rows[n].data
        BY <2>5, <3>1, <4>1, RegionAssumption
      <4>3. QED BY <2>4, <4>1, <4>2 DEF Saved
    <3>4. CASE s.id # Repeater.id
      <4>1. s \in db'["station"]  BY <2>2, <3>4 DEF Merged, Rows
      <4>2. QED BY <3>2, <4>1 DEF Saved
    <3>5. QED BY <3>3, <3>4
  <2>7. Saved(r0, n0)'  BY <2>4 DEF Saved
  <2>8. \A r \in fetch.answered : \A n \in Loadable(r) :
            r = fetch.region /\ n = fetch.row => Saved(r, n)'
    BY <2>3, <2>7
  <2>9. QED BY <1>0, <2>1, <2>2, <2>6, <2>8, FetchLeavesRow
<1>5. CASE RepeaterGarbled
  <2>1. /\ fetch.pc = "rows" /\ Repeater.frequency /\ Repeater.bad = "garbled"
        /\ fetch' = Raises([fetch EXCEPT !.open = TRUE]) /\ UNCHANGED <<db, clone>>
    BY <1>5 DEF RepeaterGarbled
  <2>2. \A n \in Loadable(fetch.region) : n < fetch.row
    BY <1>0, <2>1, NotLoadable, MaintenanceAssumption
  <2>3. \A r, n : Saved(r, n) => Saved(r, n)'  BY <2>1 DEF Saved
  <2>4. CASE Region.kind = "state"
    <3>1. fetch' = [NextRegion(fetch) EXCEPT !.session = fetch.session, !.open = TRUE,
                                             !.answered = fetch.answered]
      BY <1>0, <2>1, <2>4 DEF Raises, NextRegion
    <3>2. QED BY <1>0, <2>1, <2>2, <2>3, <3>1, FetchLeavesRegion
  <2>5. CASE Region.kind # "state"
    <3>1. fetch' = [fetch EXCEPT !.pc = "done", !.open = FALSE]
      BY <1>0, <2>1, <2>5 DEF Raises
    <3>2. /\ fetch' = [f \in FetchSlots |-> fetch'[f]] /\ fetch'.pc = "done"
          /\ fetch'.region = fetch.region /\ fetch'.row = fetch.row /\ fetch'.session = fetch.session
          /\ fetch'.answered = fetch.answered
      BY <1>0, <3>1
    <3>3. FetchPlace'  BY <1>0, <3>2 DEF FetchPlace
    <3>4. ASSUME NEW r \in fetch'.answered, NEW n \in Loadable(r)
          PROVE  r \in fetch.answered /\ (r < fetch.region \/ n < fetch.row)
      <4>1. r \in DOMAIN Regions /\ r <= fetch.region  BY <1>0, <3>2 DEF FetchPlace
      <4>2. r \in Nat /\ fetch.region \in Nat  BY <1>0, <4>1, RegionAssumption DEF FetchPlace
      <4>3. QED BY <2>2, <3>2, <3>4, <4>1, <4>2
    <3>5. QED BY <1>0, <2>1, <2>3, <3>2, <3>3, <3>4, FetchMoves
  <2>6. QED BY <2>4, <2>5
<1>6. CASE CommitRepeaterFails \/ SessionRefuses
  <2>1. PICK open : /\ fetch.pc = "rows" /\ UNCHANGED <<db, clone>>
                    /\ fetch' = Raises([fetch EXCEPT !.session = "broken", !.open = open])
    <3>1. CASE CommitRepeaterFails
      BY <3>1 DEF CommitRepeaterFails
    <3>2. CASE SessionRefuses
      <4>1. fetch = [fetch EXCEPT !.session = "broken", !.open = fetch.open]
        BY <1>0, <3>2 DEF SessionRefuses
      <4>2. QED BY <3>2, <4>1 DEF SessionRefuses
    <3>3. QED BY <1>6, <3>1, <3>2
  <2>2. CASE Region.kind = "state"
    <3>1. fetch' = [NextRegion(fetch) EXCEPT !.session = "broken", !.open = open,
                                             !.answered = fetch.answered]
      BY <1>0, <2>1, <2>2 DEF Raises, NextRegion
    <3>2. PICK broken : broken = "broken" /\ broken # "ok"  OBVIOUS
    <3>3. fetch' = [NextRegion(fetch) EXCEPT !.session = broken, !.open = open,
                                             !.answered = fetch.answered]
      BY <3>1, <3>2
    <3>4. fetch.pc # "done" /\ DOMAIN db' = Tables /\ UNCHANGED clone  BY <1>0, <2>1
    <3>5. QED BY <3>2, <3>3, <3>4, FetchLeavesRegion
  <2>3. CASE Region.kind # "state"
    <3>1. /\ fetch' = [f \in FetchSlots |-> fetch'[f]] /\ fetch'.pc = "done"
          /\ fetch'.region = fetch.region /\ fetch'.row = fetch.row /\ fetch'.session = "broken"
          /\ fetch'.answered = fetch.answered
      BY <1>0, <2>1, <2>3 DEF Raises
    <3>2. FetchPlace'  BY <1>0, <3>1 DEF FetchPlace
    <3>3. QED BY <1>0, <2>1, <3>1, <3>2, FetchMoves
  <2>4. QED BY <2>2, <2>3
<1>7. QED BY <1>1, <1>2, <1>3, <1>4, <1>5, <1>6 DEF Fetch

LEMMA NextFetchInv == CloneInv /\ FetchInv /\ [Next]_vars => FetchInv'
<1> SUFFICES ASSUME CloneInv, FetchInv, [Next]_vars PROVE FetchInv'
  OBVIOUS
<1>0. DOMAIN db = Tables  BY DEF FetchInv
<1>1. CASE Fetch  BY <1>1, FetchStep
<1>2. CASE Populate
  <2>1. UNCHANGED <<fetch, clone>> /\ DOMAIN db' = Tables /\ db'["station"] = db["station"]
    <3>1. CASE CommitCodes  BY <1>0, <3>1 DEF CommitCodes
    <3>2. CASE ListStations \/ (\E call \in populate.left : Geocode(call) \/ StationGone(call))
                  \/ CommitCodesFails
      BY <1>0, <3>2 DEF ListStations, Geocode, StationGone, CommitCodesFails
    <3>3. QED BY <1>2, <3>1, <3>2 DEF Populate
  <2>2. Replaced("station") => Replaced("station")'  BY <2>1 DEF Replaced, Emptied
  <2>3. QED BY <2>1, <2>2, FetchKept
<1>3. CASE Clone \/ CleanWeatherReports \/ CleanAprsPackets \/ Ingest \/ Midnight \/ UNCHANGED vars
  <2>1. UNCHANGED fetch
    BY <1>3 DEF Clone, Truncate, CopyTable, PsqlFails, DumpFails, CopyEnds, CloneEnds,
                CleanWeatherReports, CleanAprsPackets, Ingest, Midnight, vars
  <2>2. PICK t \in Watched : t = "station"  BY DEF Watched
  <2>3. /\ DOMAIN db' = Tables
        /\ Replaced(t) => Replaced(t)'
        /\ ~Replaced(t)' =>
               \/ db'[t] = db[t]
               \/ \E entry \in Incoming : entry[1] = t /\ db'[t] = db[t] \cup {entry[2]}
    BY <1>0, <1>3, OtherTables
  <2>4. ~Replaced(t)' => db[t] \subseteq db'[t]  BY <2>3
  <2>5. QED BY <2>1, <2>2, <2>3, <2>4, FetchKept
<1>4. QED BY <1>1, <1>2, <1>3 DEF Next

(* A region that does not answer and a repeater that cannot be read cost no *)
(* other repeater: whatever else writes the tables beside it, all that is   *)
(* behind the fetch and could be loaded is in the station table, in its     *)
(* last form, until a commit fails or clone-from empties the table          *)
(* (fetch_repeaterbook.py, fetch_repeaters and what calls it region by       *)
(* region).                                                                 *)
THEOREM RegionsAreIndependent == Spec => []RegionsIndependent
<1>1. FetchInv => RegionsIndependent  BY DEF FetchInv
<1>2. QED BY <1>1, InitFetchInv, NextFetchInv, CloneInvariant, PTL DEF Spec

-----------------------------------------------------------------------------
(* populate-country-codes.  The first part of the invariant is about the    *)
(* command alone: a station has one code at most, and what is not committed *)
(* was found since the last commit.  The second says what the table still   *)
(* holds, until clone-from empties it.                                      *)

PopulateSlots == {"pc", "left", "done", "dirty", "open", "found", "lost"}
AtStake == IF populate.pc = "commit" THEN BatchSize ELSE populate.done % BatchSize
Held(call) == \E row \in db["weather_station"] : row.call = call

CodesFound ==
    /\ populate = [f \in PopulateSlots |-> populate[f]]
    /\ populate.done \in Nat
    /\ IsFiniteSet(populate.dirty) /\ Cardinality(populate.dirty) <= AtStake
    /\ populate.dirty \subseteq populate.found
    /\ \A d \in populate.found : Place(d) /\ d.call \notin populate.left
    /\ \A d, e \in populate.found : d.call = e.call => d = e
    /\ populate.pc = "idle" => populate.found = {}

CodesKept ==
    ~Replaced("weather_station") =>
        /\ \A row \in db["weather_station"] : Place(row)
        /\ \A call \in populate.left : Held(call)
        /\ \A d \in populate.dirty : Held(d.call)
        /\ populate.found \subseteq populate.dirty \cup populate.lost \cup db["weather_station"]

PopulateInv == CodesFound /\ CodesKept

(* What a batch still lacks does not depend on how many came before.        *)
LEMMA Remainder ==
    ASSUME NEW n \in Nat, NEW b \in Nat \ {0}
    PROVE  /\ n % b \in 0 .. b - 1
           /\ (n + 1) % b # 0 => (n + 1) % b = (n % b) + 1
<1>1. \A m \in Nat, q \in Int, r \in 0 .. b - 1 : m = b * q + r => r = m % b
  <2>1. ASSUME NEW m \in Nat, NEW q \in Int, NEW r \in 0 .. b - 1, m = b * q + r
        PROVE  r = m % b
    BY <2>1
  <2>2. QED BY <2>1
<1>2. PICK q \in Int, r \in 0 .. b - 1 : n = b * q + r /\ r = n % b
  <2>1. n \div b \in Int /\ n % b \in 0 .. b - 1 /\ n = b * (n \div b) + (n % b)
    OBVIOUS
  <2>2. QED BY <2>1
<1>3. CASE r = b - 1
  <2>1. b * (q + 1) = b * q + b  OBVIOUS
  <2>2. PICK m \in Nat, p \in Int, zero \in 0 .. b - 1 : m = n + 1 /\ p = q + 1 /\ zero = 0
    OBVIOUS
  <2>3. m = b * p + zero  BY <1>2, <1>3, <2>1, <2>2
  <2>4. zero = m % b  BY <1>1, <2>3
  <2>5. QED BY <2>2, <2>4
<1>4. CASE r # b - 1
  <2>1. PICK m \in Nat, s \in 0 .. b - 1 : m = n + 1 /\ s = r + 1  BY <1>4
  <2>2. m = b * q + s
    <3>1. PICK k \in Int : k = b * q  OBVIOUS
    <3>2. n = k + r /\ k \in Int /\ r \in Int  BY <1>2, <3>1
    <3>3. m = n + 1 /\ s = r + 1  BY <2>1
    <3>4. m = k + s  BY <3>2, <3>3
    <3>5. QED BY <3>1, <3>4
  <2>3. s = m % b  BY <1>1, <2>2
  <2>4. QED BY <1>2, <2>1, <2>3
<1>5. QED BY <1>3, <1>4

LEMMA InitPopulateInv == Init => PopulateInv
<1> SUFFICES ASSUME Init PROVE PopulateInv
  OBVIOUS
<1>1. PICK point \in {"idle", "done"} :
         populate = [pc |-> point, left |-> {}, done |-> 0, dirty |-> {}, open |-> FALSE,
                     found |-> {}, lost |-> {}]
  BY DEF Init
<1>2. /\ populate = [f \in PopulateSlots |-> populate[f]] /\ populate.pc \in {"idle", "done"}
      /\ populate.left = {} /\ populate.done = 0 /\ populate.dirty = {} /\ populate.found = {}
  BY <1>1 DEF PopulateSlots
<1>3. AtStake \in Nat
  BY <1>2, Remainder, MaintenanceAssumption DEF AtStake
<1>4. IsFiniteSet({}) /\ Cardinality({}) = 0  BY FS_EmptySet
<1>5. CodesFound  BY <1>2, <1>3, <1>4 DEF CodesFound
<1>6. CodesKept  BY <1>2, PlaceAssumption DEF CodesKept, Init
<1>7. QED BY <1>5, <1>6 DEF PopulateInv

(* Steps that are not of the command. *)
LEMMA PopulateKept ==
    ASSUME PopulateInv, UNCHANGED populate,
           Replaced("weather_station") => Replaced("weather_station")',
           ~Replaced("weather_station")' =>
               \/ db'["weather_station"] = db["weather_station"]
               \/ \E row : Place(row) /\ db'["weather_station"] = db["weather_station"] \cup {row}
    PROVE  PopulateInv'
<1>1. CodesFound'  BY DEF PopulateInv, CodesFound, AtStake
<1>2. CodesKept'
  <2>1. SUFFICES ASSUME ~Replaced("weather_station")' PROVE
            /\ \A row \in db'["weather_station"] : Place(row)
            /\ db["weather_station"] \subseteq db'["weather_station"]
    BY DEF PopulateInv, CodesKept, Held
  <2>2. QED BY <2>1 DEF PopulateInv, CodesKept
<1>3. QED BY <1>1, <1>2 DEF PopulateInv

(* What a commit writes: every row keeps its station, a station with a new  *)
(* code has it, and the others stay as they were.                           *)
LEMMA CodedFacts ==
    ASSUME CodesFound, \A row \in db["weather_station"] : Place(row)
    PROVE  /\ \A row \in Coded : Place(row)
           /\ \A call : Held(call) => \E row \in Coded : row.call = call
           /\ \A d \in populate.dirty : Held(d.call) => d \in Coded
           /\ \A row \in db["weather_station"] : row \in populate.found => row \in Coded
<1> DEFINE New(s) == CHOOSE d \in populate.dirty : d.call = s.call
           Row(s) == IF \E d \in populate.dirty : d.call = s.call THEN [s EXCEPT !.code = New(s).code] ELSE s
<1>1. Coded = {Row(s) : s \in db["weather_station"]}  BY DEF Coded, Rows
<1>2. ASSUME NEW s \in db["weather_station"], NEW d \in populate.dirty, d.call = s.call
      PROVE  Row(s) = d
  <2>1. New(s) \in populate.dirty /\ New(s).call = s.call  BY <1>2
  <2>2. New(s) = d  BY <1>2, <2>1 DEF CodesFound
  <2>3. /\ Row(s) = [s EXCEPT !.code = d.code] /\ s = [call |-> s.call, code |-> s.code]
        /\ d = [call |-> d.call, code |-> d.code]
    BY <1>2, <2>2 DEF CodesFound, Place
  <2>4. QED BY <1>2, <2>3
<1>3. ASSUME NEW s \in db["weather_station"]
      PROVE  /\ Row(s).call = s.call /\ Place(Row(s))
             /\ s \in populate.found => Row(s) = s
  <2>1. CASE \E d \in populate.dirty : d.call = s.call
    <3>1. PICK d \in populate.dirty : d.call = s.call  BY <2>1
    <3>2. Row(s) = d  BY <1>2, <3>1
    <3>3. Place(d) /\ d \in populate.found  BY DEF CodesFound
    <3>4. s \in populate.found => d = s  BY <3>1, <3>3 DEF CodesFound
    <3>5. QED BY <3>1, <3>2, <3>3, <3>4
  <2>2. CASE ~\E d \in populate.dirty : d.call = s.call
    BY <2>2
  <2>3. QED BY <2>1, <2>2
<1>4. ASSUME NEW s \in db["weather_station"]
      PROVE  Row(s) \in Coded
  BY <1>1
<1> HIDE DEF Row, New
<1>5. \A row \in Coded : Place(row)  BY <1>1, <1>3
<1>6. \A call : Held(call) => \E row \in Coded : row.call = call  BY <1>3, <1>4 DEF Held
<1>7. \A d \in populate.dirty : Held(d.call) => d \in Coded
  <2>1. SUFFICES ASSUME NEW d \in populate.dirty, Held(d.call) PROVE d \in Coded  OBVIOUS
  <2>2. PICK s \in db["weather_station"] : s.call = d.call  BY <2>1 DEF Held
  <2>3. QED BY <1>2, <1>4, <2>2
<1>8. \A row \in db["weather_station"] : row \in populate.found => row \in Coded
  BY <1>3, <1>4
<1>9. QED BY <1>5, <1>6, <1>7, <1>8

LEMMA PopulateStep ==
    ASSUME PopulateInv, DOMAIN db = Tables, Populate
    PROVE  PopulateInv'
<1> USE DEF PopulateSlots
<1>0. /\ populate = [f \in PopulateSlots |-> populate[f]] /\ CodesFound /\ CodesKept
      /\ UNCHANGED clone
  BY DEF PopulateInv, CodesFound, Populate, ListStations, Geocode, StationGone, CommitCodes, CommitCodesFails
<1>1. Replaced("weather_station")' = Replaced("weather_station")
  BY <1>0 DEF Replaced, Emptied
<1>2. populate.done % BatchSize \in Nat
  BY <1>0, Remainder, MaintenanceAssumption DEF CodesFound
<1>3. IsFiniteSet({}) /\ Cardinality({}) = 0  BY FS_EmptySet
<1>4. CASE ListStations
  <2>1. PICK calls, open, pc :
            /\ calls = {s.call : s \in {r \in Rows("weather_station") : r.code = None}}
            /\ pc \in {"done", "geocode"}
            /\ populate' = [populate EXCEPT !.left = calls, !.open = open, !.pc = pc]
    BY <1>4 DEF ListStations
  <2>2. populate.pc = "idle" /\ UNCHANGED db  BY <1>4 DEF ListStations
  <2>3. populate.found = {} /\ populate.dirty = {}  BY <1>0, <2>2 DEF CodesFound
  <2>4. /\ populate' = [f \in PopulateSlots |-> populate'[f]] /\ populate'.pc \in {"done", "geocode"}
        /\ populate'.found = {} /\ populate'.dirty = {} /\ populate'.done = populate.done
        /\ populate'.left = calls
    BY <1>0, <2>1, <2>3
  <2>5. CodesFound'  BY <1>0, <1>2, <1>3, <2>4 DEF CodesFound, AtStake
  <2>6. \A call \in calls : Held(call)'  BY <2>1, <2>2 DEF Held, Rows
  <2>7. CodesKept'  BY <1>0, <1>1, <2>2, <2>4, <2>6 DEF CodesKept
  <2>8. QED BY <2>5, <2>7 DEF PopulateInv
<1>5. ASSUME NEW call \in populate.left, Geocode(call) PROVE PopulateInv'
  <2>1. PICK code : populate' =
            [populate EXCEPT !.left = @ \ {call}, !.done = @ + 1, !.open = TRUE,
                !.dirty = @ \cup Answer(call, code), !.found = @ \cup Answer(call, code),
                !.pc = IF CommitDue(populate.done + 1) THEN "commit"
                       ELSE IF populate.left = {call} THEN "final" ELSE "geocode"]
    BY <1>5 DEF Geocode
  <2>2. PICK answer, d : /\ answer = Answer(call, code) /\ d = [call |-> call, code |-> code]
                         /\ answer \in {{}, {d}}
    BY DEF Answer
  <2>3. /\ populate' = [f \in PopulateSlots |-> populate'[f]]
        /\ populate'.done = populate.done + 1 /\ populate'.left = populate.left \ {call}
        /\ populate'.dirty = populate.dirty \cup answer /\ populate'.found = populate.found \cup answer
        /\ populate'.lost = populate.lost
        /\ populate'.pc = IF CommitDue(populate.done + 1) THEN "commit"
                          ELSE IF populate.left = {call} THEN "final" ELSE "geocode"
    BY <1>0, <2>1, <2>2
  <2>4. UNCHANGED db /\ populate.pc = "geocode"  BY <1>5 DEF Geocode
  <2>5. Place(d) /\ d.call = call  BY <2>2 DEF Place
  <2>6. populate.done \in Nat /\ populate'.done \in Nat  BY <1>0, <2>3 DEF CodesFound
  <2>7. IsFiniteSet(populate'.dirty) /\ Cardinality(populate'.dirty) <= AtStake'
    <3>1. /\ IsFiniteSet(populate.dirty) /\ Cardinality(populate.dirty) <= populate.done % BatchSize
      BY <1>0, <2>4 DEF CodesFound, AtStake
    <3>2. /\ IsFiniteSet(populate.dirty \cup {d}) /\ Cardinality(populate.dirty) \in Nat
          /\ Cardinality(populate.dirty \cup {d}) \in {Cardinality(populate.dirty), Cardinality(populate.dirty) + 1}
      BY <3>1, FS_AddElement, FS_CardinalityType
    <3>3. /\ IsFiniteSet(populate'.dirty)
          /\ Cardinality(populate'.dirty) <= (populate.done % BatchSize) + 1
          /\ Cardinality(populate'.dirty) \in Nat
      <4>1. CASE answer = {}
        BY <1>2, <2>3, <3>1, <3>2, <4>1
      <4>2. CASE answer = {d}
        BY <1>2, <2>3, <3>1, <3>2, <4>2
      <4>3. QED BY <2>2, <4>1, <4>2
    <3>4. /\ populate.done % BatchSize \in 0 .. BatchSize - 1
          /\ (populate.done + 1) % BatchSize # 0
                => (populate.done + 1) % BatchSize = (populate.done % BatchSize) + 1
      BY <2>6, Remainder, MaintenanceAssumption
    <3>5. CASE CommitDue(populate.done + 1)
      <4>1. AtStake' = BatchSize  BY <2>3, <3>5 DEF AtStake
      <4>2. QED BY <3>3, <3>4, <4>1, MaintenanceAssumption
    <3>6. CASE ~CommitDue(populate.done + 1)
      <4>1. populate'.pc # "commit"  BY <2>3, <3>6
      <4>2. AtStake' = (populate.done + 1) % BatchSize  BY <2>3, <4>1 DEF AtStake
      <4>3. (populate.done + 1) % BatchSize # 0  BY <3>6 DEF CommitDue
      <4>4. AtStake' = (populate.done % BatchSize) + 1  BY <3>4, <4>2, <4>3
      <4>5. QED BY <3>3, <4>4
    <3>7. QED BY <3>5, <3>6
  <2>8. /\ populate'.dirty \subseteq populate'.found
        /\ \A e \in populate'.found : Place(e) /\ e.call \notin populate'.left
    BY <1>0, <2>2, <2>3, <2>5 DEF CodesFound
  <2>9. \A e \in populate.found : e.call # call  BY <1>0, <1>5 DEF CodesFound
  <2>10. \A e, g \in populate'.found : e.call = g.call => e = g
    <3>1. SUFFICES ASSUME NEW e \in populate.found \cup {d}, NEW g \in populate.found \cup {d},
                          e.call = g.call
                   PROVE e = g
      BY <2>2, <2>3
    <3>2. QED BY <1>0, <2>5, <2>9, <3>1 DEF CodesFound
  <2>11. populate'.pc # "idle"  BY <2>3
  <2>12. CodesFound'  BY <2>3, <2>6, <2>7, <2>8, <2>10, <2>11 DEF CodesFound
  <2>13. \A c : Held(c)' = Held(c)  BY <2>4 DEF Held
  <2>14. CodesKept'
    <3>1. SUFFICES ASSUME ~Replaced("weather_station")' PROVE
              /\ \A row \in db'["weather_station"] : Place(row)
              /\ \A c \in populate'.left : Held(c)
              /\ \A e \in populate'.dirty : Held(e.call)
              /\ populate'.found \subseteq populate'.dirty \cup populate'.lost \cup db'["weather_station"]
      BY <2>13 DEF CodesKept
    <3>2. /\ \A row \in db["weather_station"] : Place(row)
          /\ \A c \in populate.left : Held(c)
          /\ \A e \in populate.dirty : Held(e.call)
          /\ populate.found \subseteq populate.dirty \cup populate.lost \cup db["weather_station"]
      BY <1>0, <1>1, <3>1 DEF CodesKept
    <3>3. Held(d.call)  BY <1>5, <2>5, <3>2
    <3>4. QED BY <2>2, <2>3, <2>4, <3>2, <3>3
  <2>15. QED BY <2>12, <2>14 DEF PopulateInv
<1>6. ASSUME NEW call \in populate.left, StationGone(call) PROVE PopulateInv'
  <2>1. populate' = [populate EXCEPT !.pc = "failed"] /\ UNCHANGED db /\ populate.pc = "geocode"
    BY <1>6 DEF StationGone
  <2>2. /\ populate' = [f \in PopulateSlots |-> populate'[f]] /\ populate'.pc = "failed"
        /\ populate'.found = populate.found /\ populate'.dirty = populate.dirty
        /\ populate'.done = populate.done /\ populate'.left = populate.left
        /\ populate'.lost = populate.lost
    BY <1>0, <2>1
  <2>3. AtStake' = AtStake  BY <2>1, <2>2 DEF AtStake
  <2>4. CodesFound'  BY <1>0, <2>2, <2>3 DEF CodesFound
  <2>5. CodesKept'  BY <1>0, <1>1, <2>1, <2>2 DEF CodesKept, Held
  <2>6. QED BY <2>4, <2>5 DEF PopulateInv
<1>7. CASE CommitCodes \/ CommitCodesFails
  <2>1. PICK lost, pc : /\ pc \in {"done", "final", "geocode", "failed"}
                        /\ populate' = [populate EXCEPT !.dirty = {}, !.open = FALSE, !.pc = pc, !.lost = lost]
                        /\ \/ lost = populate.lost /\ db' = [db EXCEPT !["weather_station"] = Coded]
                           \/ lost = populate.lost \cup populate.dirty /\ UNCHANGED db
    <3>1. AfterCommit \in {"done", "final", "geocode", "failed"}  BY DEF AfterCommit
    <3>2. CASE CommitCodes
      BY <1>0, <3>1, <3>2 DEF CommitCodes, Committed
    <3>3. CASE CommitCodesFails
      BY <1>0, <3>1, <3>3 DEF CommitCodesFails, Committed
    <3>4. QED BY <1>7, <3>2, <3>3
  <2>2. /\ populate' = [f \in PopulateSlots |-> populate'[f]]
        /\ populate'.pc \in {"done", "final", "geocode", "failed"}
        /\ populate'.found = populate.found /\ populate'.dirty = {}
        /\ populate'.done = populate.done /\ populate'.left = populate.left
        /\ populate'.lost = lost
    BY <1>0, <2>1
  <2>3. CodesFound'  BY <1>0, <1>2, <1>3, <2>2 DEF CodesFound, AtStake
  <2>4. CASE lost = populate.lost \cup populate.dirty /\ UNCHANGED db
    <3>1. CodesKept'  BY <1>0, <1>1, <2>2, <2>4 DEF CodesKept, Held
    <3>2. QED BY <2>3, <3>1 DEF PopulateInv
  <2>5. CASE lost = populate.lost /\ db' = [db EXCEPT !["weather_station"] = Coded]
    <3>1. db'["weather_station"] = Coded  BY <2>5 DEF Tables
    <3>2. SUFFICES ASSUME ~Replaced("weather_station") PROVE CodesKept'
      BY <1>1, <2>3 DEF CodesKept, PopulateInv
    <3>3. /\ \A row \in Coded : Place(row)
          /\ \A call : Held(call) => \E row \in Coded : row.call = call
          /\ \A d \in populate.dirty : Held(d.call) => d \in Coded
          /\ \A row \in db["weather_station"] : row \in populate.found => row \in Coded
      BY <1>0, <3>2, CodedFacts DEF CodesKept
    <3>4. \A call \in populate.left : Held(call)'
      BY <1>0, <3>1, <3>2, <3>3 DEF CodesKept, Held
    <3>5. populate.found \subseteq lost \cup Coded
      BY <1>0, <2>5, <3>2, <3>3 DEF CodesKept
    <3>6. QED BY <2>2, <3>1, <3>3, <3>4, <3>5 DEF CodesKept
  <2>6. QED BY <2>1, <2>4, <2>5
<1>8. QED BY <1>4, <1>5, <1>6, <1>7 DEF Populate

LEMMA NextPopulateInv == CloneInv /\ FetchInv /\ PopulateInv /\ [Next]_vars => PopulateInv'
<1> SUFFICES ASSUME CloneInv, FetchInv, PopulateInv, [Next]_vars PROVE PopulateInv'
  OBVIOUS
<1>0. DOMAIN db = Tables  BY DEF FetchInv
<1>1. CASE Populate  BY <1>0, <1>1, PopulateStep
<1>2. CASE Fetch
  <2>1. UNCHANGED <<populate, clone>> /\ db'["weather_station"] = db["weather_station"]
    <3>1. CASE SaveRepeater  BY <1>0, <3>1 DEF SaveRepeater
    <3>2. CASE FetchFails \/ FetchRepeaters \/ NoFrequency \/ RepeaterGarbled
                  \/ CommitRepeaterFails \/ SessionRefuses
      BY <3>2 DEF FetchFails, FetchRepeaters, NoFrequency, RepeaterGarbled, CommitRepeaterFails,
                  SessionRefuses
    <3>3. QED BY <1>2, <3>1, <3>2 DEF Fetch
  <2>2. Replaced("weather_station") => Replaced("weather_station")'  BY <2>1 DEF Replaced, Emptied
  <2>3. QED BY <2>1, <2>2, PopulateKept
<1>3. CASE Clone \/ CleanWeatherReports \/ CleanAprsPackets \/ Ingest \/ Midnight \/ UNCHANGED vars
  <2>1. UNCHANGED populate
    BY <1>3 DEF Clone, Truncate, CopyTable, PsqlFails, DumpFails, CopyEnds, CloneEnds,
                CleanWeatherReports, CleanAprsPackets, Ingest, Midnight, vars
  <2>2. PICK t \in Watched : t = "weather_station"  BY DEF Watched
  <2>3. /\ DOMAIN db' = Tables
        /\ Replaced(t) => Replaced(t)'
        /\ ~Replaced(t)' =>
               \/ db'[t] = db[t]
               \/ \E entry \in Incoming : entry[1] = t /\ db'[t] = db[t] \cup {entry[2]}
    BY <1>0, <1>3, OtherTables
  <2>4. \A entry \in Incoming : entry[1] = t => Place(entry[2])  BY <2>2, PlaceAssumption
  <2>5. ~Replaced(t)' => \/ db'[t] = db[t]
                         \/ \E row : Place(row) /\ db'[t] = db[t] \cup {row}
    BY <2>3, <2>4
  <2>6. QED BY <2>1, <2>2, <2>3, <2>5, PopulateKept
<1>4. QED BY <1>1, <1>2, <1>3 DEF Next

(* Between two commits no more codes are at stake than stations were looked *)
(* at since the last one, and every other code that was found is in the     *)
(* table, was in a commit that failed, or clone-from emptied the table      *)
(* (db.py, populate_country_codes).                                         *)
THEOREM ProgressIsBounded == Spec => []ProgressBounded
<1>1. PopulateInv => ProgressBounded
  BY DEF PopulateInv, CodesFound, CodesKept, AtStake, ProgressBounded, Rows
<1>2. QED BY <1>1, InitPopulateInv, NextPopulateInv, InitFetchInv, NextFetchInv, CloneInvariant, PTL DEF Spec

=============================================================================
