----------------------------- MODULE AprsIngest -----------------------------
(***************************************************************************)
(* The APRS ingest pipeline of `haminfo wx-mqtt-ingest`:                   *)
(*                                                                         *)
(*   broker --on_message--> aprs_queues[0..N-1] --> N processor threads    *)
(*                      \-> weather_queue            |                     *)
(*                                                   v                     *)
(*                                     table aprs_packet, shared stats     *)
(*                                                                         *)
(* A packet is one delivery of one MQTT message (a redelivery is another   *)
(* packet with the same key).  Program points of a processor thread are    *)
(* the places where it touches something shared: the stop flag, its queue, *)
(* the stats lock, a database transaction.  Everything between two such    *)
(* points works on thread-local data and belongs to the same step.         *)
(*                                                                         *)
(* Left out because no property looks at it: the callsign set, the packet  *)
(* type histogram and pending_per_thread, which are merged into the shared *)
(* stats by the same locked section as the counters, and the texts logged. *)
(***************************************************************************)
EXTENDS Integers, Sequences, FiniteSets, Functions

CONSTANTS
    Packets,            \* deliveries the broker may make
    Garbled,            \* those on_message cannot turn into a packet object
    NoCall,             \* those _prepare_insert_dict rejects (no from_call)
    Weather,            \* those that are WeatherPacket instances
    Key,                \* Key[m]: the unique (from_call, timestamp) of m
    ProcessorCount,     \* CONF.mqtt.processor_count
    QueueSize,          \* maxsize of every queue (5000)
    BatchSize,          \* BATCH_SIZE (500)
    BatchStagger,       \* BATCH_STAGGER (25)
    StatsFlushInterval, \* STATS_FLUSH_INTERVAL (100)
    StatsInterval,      \* STATS_INTERVAL (500)
    StatsModes          \* values of CONF.mqtt.stats_only to start with

Processors == 0 .. ProcessorCount - 1

ASSUME PacketAssumption ==
    /\ Garbled \subseteq Packets
    /\ NoCall \subseteq Packets
    /\ Weather \subseteq Packets
    /\ DOMAIN Key = Packets

ASSUME SizeAssumption ==
    /\ ProcessorCount \in Nat \ {0}
    /\ QueueSize \in Nat \ {0}
    /\ BatchSize \in Nat \ {0}
    /\ BatchStagger \in Nat
    /\ StatsFlushInterval \in Nat \ {0}
    /\ StatsInterval \in Nat \ {0}
    /\ StatsModes \subseteq BOOLEAN

VARIABLES
    inbound,             \* packets the broker has not delivered yet
    rr_index,            \* MQTTThread.rr_index
    aprs_queues,         \* one bounded FIFO per processor
    weather_queue,       \* the bounded FIFO of the weather processor
    pc,                  \* program point of each processor thread
    mode,                \* why the current save runs: "busy" | "idle" | "cleanup"
    packet_dicts,        \* the batch a processor is accumulating
    local_packet_count,  \* _local_packet_count
    local_packets_saved, \* _local_packets_saved
    stats,               \* the shared stats dict, guarded by stats_lock
    aprs_packet,         \* the packets that have a row in the table
    thread_stop,         \* MyThread.thread_stop of each processor
    stopped,             \* threads stop_all has called stop() on, in registry order
    stats_only,          \* stats_only of every processor, fixed at start
    fate,                \* history: how a packet without a row ended
    unacked              \* history: rows whose commit was reported as an error

netVars   == <<inbound, rr_index, weather_queue>>
localVars == <<local_packet_count, local_packets_saved>>
stopVars  == <<thread_stop, stopped, stats_only>>
history   == <<fate, unacked>>
vars == <<netVars, aprs_queues, pc, mode, packet_dicts, localVars, stats,
          aprs_packet, stopVars, history>>

ProgramPoints == {"check", "get", "flush", "save", "copy", "insert", "print",
                  "report", "cleanup", "done"}
Fates == {"live", "dropped", "rejected", "duplicate", "lost", "discarded"}

(* batch_save_threshold: staggered so that the processors do not commit at once *)
Threshold(p) == BatchSize + p * BatchStagger

Full_OffByOne(q) == Len(q) > QueueSize      \* mutant
Full(q) == Len(q) >= QueueSize
Stored  == {Key[m] : m \in aprs_packet}

NewRows_NoConflictClause(batch) == Range(batch)   \* mutant

(* The rows ON CONFLICT (from_call, timestamp) DO NOTHING lets through:    *)
(* keys the table does not have, and the first of equal keys in the batch. *)
NewRows(batch) ==
    {batch[i] : i \in {j \in DOMAIN batch :
        /\ Key[batch[j]] \notin Stored
        /\ \A k \in 1 .. j - 1 : Key[batch[k]] # Key[batch[j]]}}

(* `how` is what becomes of the packets of S. *)
Ends(S, how) == fate' = [m \in Packets |-> IF m \in S THEN how ELSE fate[m]]

-----------------------------------------------------------------------------
(* MQTTThread.on_message, run by the paho network thread.  It may run at   *)
(* any time: MqttConnection shows that a client can outlive stop().        *)

OnMessageGarbled(m) ==
    /\ m \in inbound \cap Garbled
    /\ Ends({m}, "rejected")
    /\ inbound' = inbound \ {m}
    /\ UNCHANGED <<rr_index, aprs_queues, weather_queue>>

(* rr_index advances whether or not the chosen queue had room. *)
OnMessagePacket(m) ==
    LET p == rr_index % ProcessorCount IN
    /\ m \in inbound \ Garbled
    /\ inbound' = inbound \ {m}
    /\ rr_index' = rr_index + 1
    /\ IF Full(aprs_queues[p])
       THEN Ends({m}, "dropped") /\ UNCHANGED aprs_queues
       ELSE /\ aprs_queues' = [aprs_queues EXCEPT ![p] = Append(@, m)]
            /\ UNCHANGED fate
    /\ weather_queue' = IF m \in Weather /\ ~Full(weather_queue)
                        THEN Append(weather_queue, m) ELSE weather_queue

OnMessage(m) ==
    /\ OnMessageGarbled(m) \/ OnMessagePacket(m)
    /\ UNCHANGED <<pc, mode, packet_dicts, localVars, stats, aprs_packet,
                   stopVars, unacked>>

(* The weather processor takes a packet; WeatherIngest models what follows. *)
WeatherGet ==
    /\ weather_queue # <<>>
    /\ weather_queue' = Tail(weather_queue)
    /\ UNCHANGED <<inbound, rr_index, aprs_queues, pc, mode, packet_dicts,
                   localVars, stats, aprs_packet, stopVars, history>>

-----------------------------------------------------------------------------
(* APRSPacketProcessorThread: run(), loop() and what they call.            *)

Goto(p, point) == pc' = [pc EXCEPT ![p] = point]

FlushLocalStats_Subtract(p) ==       \* mutant: takes the interval off, not all
    /\ stats' = [packet_counter |-> stats.packet_counter + local_packet_count[p],
                 packets_saved  |-> stats.packets_saved + local_packets_saved[p]]
    /\ local_packet_count' = [local_packet_count EXCEPT ![p] = @ - StatsFlushInterval]
    /\ local_packets_saved' = [local_packets_saved EXCEPT ![p] = 0]

FlushLocalStats_NoReset(p) ==        \* mutant: the counter is not reset
    /\ stats' = [packet_counter |-> stats.packet_counter + local_packet_count[p],
                 packets_saved  |-> stats.packets_saved + local_packets_saved[p]]
    /\ local_packets_saved' = [local_packets_saved EXCEPT ![p] = 0]
    /\ UNCHANGED local_packet_count

(* _flush_local_stats: returns at once when no packet was counted. *)
FlushLocalStats(p) ==
    IF local_packet_count[p] = 0
    THEN UNCHANGED <<stats, localVars>>
    ELSE /\ stats' = [packet_counter |-> stats.packet_counter + local_packet_count[p],
                      packets_saved  |-> stats.packets_saved + local_packets_saved[p]]
         /\ local_packet_count' = [local_packet_count EXCEPT ![p] = 0]
         /\ local_packets_saved' = [local_packets_saved EXCEPT ![p] = 0]

(* The while condition of run(). *)
Check(p) ==
    /\ pc[p] = "check"
    /\ Goto(p, IF thread_stop[p] THEN "cleanup" ELSE "get")
    /\ UNCHANGED <<netVars, aprs_queues, mode, packet_dicts, localVars, stats,
                   aprs_packet, stopVars, history>>

(* queue.get returned a packet that has no from_call. *)
GetRejected(p) ==
    /\ pc[p] = "get"
    /\ aprs_queues[p] # <<>>
    /\ Head(aprs_queues[p]) \in NoCall
    /\ aprs_queues' = [aprs_queues EXCEPT ![p] = Tail(@)]
    /\ Ends({Head(aprs_queues[p])}, "rejected")
    /\ Goto(p, "check")
    /\ UNCHANGED <<netVars, mode, packet_dicts, localVars, stats, aprs_packet,
                   stopVars, unacked>>

(* queue.get returned a packet: it joins the batch and is counted locally. *)
GetPacket(p) ==
    /\ pc[p] = "get"
    /\ aprs_queues[p] # <<>>
    /\ Head(aprs_queues[p]) \notin NoCall
    /\ aprs_queues' = [aprs_queues EXCEPT ![p] = Tail(@)]
    /\ packet_dicts' = [packet_dicts EXCEPT ![p] = Append(@, Head(aprs_queues[p]))]
    /\ local_packet_count' = [local_packet_count EXCEPT ![p] = @ + 1]
    /\ mode' = [mode EXCEPT ![p] = "busy"]
    /\ Goto(p, IF local_packet_count[p] + 1 >= StatsFlushInterval
               THEN "flush" ELSE "save")
    /\ UNCHANGED <<netVars, local_packets_saved, stats, aprs_packet, stopVars,
                   history>>

(* queue.get timed out: queue.Empty. *)
GetEmpty(p) ==
    /\ pc[p] = "get"
    /\ aprs_queues[p] = <<>>
    /\ mode' = [mode EXCEPT ![p] = "idle"]
    /\ Goto(p, IF local_packet_count[p] > 0 THEN "flush" ELSE "save")
    /\ UNCHANGED <<netVars, aprs_queues, packet_dicts, localVars, stats,
                   aprs_packet, stopVars, history>>

Flush(p) ==
    /\ pc[p] = "flush"
    /\ FlushLocalStats(p)
    /\ Goto(p, "save")
    /\ UNCHANGED <<netVars, aprs_queues, mode, packet_dicts, aprs_packet,
                   stopVars, history>>

(* Where control goes when a save is over: thread 0 looks at the print     *)
(* interval, but only after it processed a packet.                         *)
AfterSave(p) == CASE mode[p] = "cleanup"         -> "done"
                  [] mode[p] = "busy" /\ p = 0   -> "print"
                  [] OTHER                       -> "check"

(* _save_packets_if_needed: not yet due, ... *)
SaveNotDue(p) ==
    /\ pc[p] = "save"
    /\ Len(packet_dicts[p]) < Threshold(p)
    /\ Goto(p, AfterSave(p))
    /\ UNCHANGED <<netVars, aprs_queues, mode, packet_dicts, localVars, stats,
                   aprs_packet, stopVars, history>>

(* ... or due in stats-only mode, where the batch is counted and thrown away, *)
SaveDiscard(p) ==
    /\ pc[p] = "save"
    /\ Len(packet_dicts[p]) >= Threshold(p)
    /\ stats_only
    /\ local_packets_saved' =
           [local_packets_saved EXCEPT ![p] = @ + Len(packet_dicts[p])]
    /\ Ends(Range(packet_dicts[p]), "discarded")
    /\ packet_dicts' = [packet_dicts EXCEPT ![p] = <<>>]
    /\ Goto(p, AfterSave(p))
    /\ UNCHANGED <<netVars, aprs_queues, mode, local_packet_count, stats,
                   aprs_packet, stopVars, unacked>>

(* ... or due: the database comes next. *)
SaveBegin(p) ==
    /\ pc[p] = "save"
    /\ Len(packet_dicts[p]) >= Threshold(p)
    /\ ~stats_only
    /\ Goto(p, "copy")
    /\ UNCHANGED <<netVars, aprs_queues, mode, packet_dicts, localVars, stats,
                   aprs_packet, stopVars, history>>

SaveIfNeeded(p) == SaveNotDue(p) \/ SaveDiscard(p) \/ SaveBegin(p)

FinishSave_KeepBatch(p, n) ==        \* mutant: the batch is not cleared
    /\ local_packets_saved' = [local_packets_saved EXCEPT ![p] = @ + n]
    /\ Goto(p, AfterSave(p))
    /\ UNCHANGED <<netVars, aprs_queues, mode, packet_dicts, local_packet_count,
                   stats, stopVars>>

(* A save that the caller takes for a success: `n` rows are counted, in    *)
(* _cleanup straight into the shared stats, and the batch is cleared.      *)
FinishSave(p, n) ==
    /\ packet_dicts' = [packet_dicts EXCEPT ![p] = <<>>]
    /\ IF mode[p] = "cleanup"
       THEN /\ stats' = [stats EXCEPT !.packets_saved = @ + n]
            /\ UNCHANGED local_packets_saved
       ELSE /\ local_packets_saved' = [local_packets_saved EXCEPT ![p] = @ + n]
            /\ UNCHANGED stats
    /\ Goto(p, AfterSave(p))
    /\ UNCHANGED <<netVars, aprs_queues, mode, local_packet_count, stopVars>>

(* What becomes of the packets of a cleared batch that have no row. *)
Settle(p) ==
    fate' = [m \in Packets |->
        IF m \notin Range(packet_dicts[p]) \ aprs_packet' THEN fate[m]
        ELSE IF Key[m] \in Stored' THEN "duplicate" ELSE "lost"]

(* A transaction that inserted the batch and reported how many rows. *)
Commit(p) ==
    LET new == NewRows(packet_dicts[p]) IN
    /\ aprs_packet' = aprs_packet \cup new
    /\ Settle(p)
    /\ UNCHANGED unacked
    /\ FinishSave(p, Cardinality(new))

(* A transaction that raised; the rows are there if only the answer to the *)
(* commit was lost.                                                        *)
Raised(p) ==
    \/ UNCHANGED <<aprs_packet, unacked>>
    \/ /\ aprs_packet' = aprs_packet \cup NewRows(packet_dicts[p])
       /\ unacked' = unacked \cup NewRows(packet_dicts[p])

(* _save_with_copy: -1 on any exception, and then INSERT is tried. *)
Copy(p) ==
    /\ pc[p] = "copy"
    /\ \/ Commit(p)
       \/ /\ Raised(p)
          /\ Goto(p, "insert")
          /\ UNCHANGED <<netVars, aprs_queues, mode, packet_dicts, localVars,
                         stats, stopVars, fate>>

Insert_KeepOnFailure(p) ==           \* mutant: a failed INSERT is retried later
    /\ pc[p] = "insert"
    /\ \/ Commit(p)
       \/ /\ Goto(p, AfterSave(p))
          /\ UNCHANGED <<netVars, aprs_queues, mode, packet_dicts, localVars,
                         stats, aprs_packet, stopVars, history>>

(* _save_with_insert: 0 on any exception, which the caller cannot tell     *)
(* from "all duplicates": the batch is cleared.                            *)
Insert(p) ==
    /\ pc[p] = "insert"
    /\ \/ Commit(p)
       \/ /\ Raised(p)
          /\ Settle(p)
          /\ FinishSave(p, 0)

(* Thread 0, after a packet: the counter is read under the lock, ... *)
PrintDue(p) ==
    /\ pc[p] = "print"
    /\ Goto(p, IF stats.packet_counter > 0 /\ stats.packet_counter % StatsInterval = 0
               THEN "report" ELSE "check")
    /\ UNCHANGED <<netVars, aprs_queues, mode, packet_dicts, localVars, stats,
                   aprs_packet, stopVars, history>>

(* ... and _print_stats takes it again to flush before it reports. *)
PrintReport(p) ==
    /\ pc[p] = "report"
    /\ FlushLocalStats(p)
    /\ Goto(p, "check")
    /\ UNCHANGED <<netVars, aprs_queues, mode, packet_dicts, aprs_packet,
                   stopVars, history>>

PrintStats(p) == PrintDue(p) \/ PrintReport(p)

(* _cleanup, run once after the while loop of run(): what is left is       *)
(* thrown away in stats-only mode and saved otherwise.                     *)
CleanupDiscard(p) ==
    /\ packet_dicts[p] = <<>> \/ stats_only
    /\ Goto(p, "done")
    /\ Ends(Range(packet_dicts[p]), "discarded")
    /\ packet_dicts' = [packet_dicts EXCEPT ![p] = <<>>]

CleanupSave(p) ==
    /\ packet_dicts[p] # <<>> /\ ~stats_only
    /\ Goto(p, "copy")
    /\ UNCHANGED <<packet_dicts, fate>>

Cleanup(p) ==
    /\ pc[p] = "cleanup"
    /\ FlushLocalStats(p)
    /\ mode' = [mode EXCEPT ![p] = "cleanup"]
    /\ CleanupDiscard(p) \/ CleanupSave(p)
    /\ UNCHANGED <<netVars, aprs_queues, aprs_packet, stopVars, unacked>>

-----------------------------------------------------------------------------
StopNext_SkipsFirst ==               \* mutant: the walk misses a thread
    /\ stopped <= ProcessorCount
    /\ stopped' = stopped + 1
    /\ thread_stop' = [p \in Processors |-> thread_stop[p] \/ p = stopped + 1]
    /\ UNCHANGED <<netVars, aprs_queues, pc, mode, packet_dicts, localVars, stats,
                   aprs_packet, stats_only, history>>

(* signal_handler: MyThreadList.stop_all walks the registry, where the     *)
(* processors come first and the weather processor and MQTTThread next;    *)
(* Shutdown models the walk itself.                                        *)
StopNext ==
    /\ stopped <= ProcessorCount
    /\ stopped' = stopped + 1
    /\ thread_stop' = [p \in Processors |-> thread_stop[p] \/ p = stopped]
    /\ UNCHANGED <<netVars, aprs_queues, pc, mode, packet_dicts, localVars, stats,
                   aprs_packet, stats_only, history>>

Init ==
    /\ inbound = Packets
    /\ rr_index = 0
    /\ aprs_queues = [p \in Processors |-> <<>>]
    /\ weather_queue = <<>>
    /\ pc = [p \in Processors |-> "check"]
    /\ mode = [p \in Processors |-> "idle"]
    /\ packet_dicts = [p \in Processors |-> <<>>]
    /\ local_packet_count = [p \in Processors |-> 0]
    /\ local_packets_saved = [p \in Processors |-> 0]
    /\ stats = [packet_counter |-> 0, packets_saved |-> 0]
    /\ aprs_packet = {}
    /\ thread_stop = [p \in Processors |-> FALSE]
    /\ stopped = 0
    /\ stats_only \in StatsModes
    /\ fate = [m \in Packets |-> "live"]
    /\ unacked = {}

Step(p) ==
    \/ Check(p) \/ GetRejected(p) \/ GetPacket(p) \/ GetEmpty(p) \/ Flush(p)
    \/ SaveIfNeeded(p) \/ Copy(p) \/ Insert(p) \/ PrintStats(p) \/ Cleanup(p)

Next ==
    \/ \E m \in Packets : OnMessage(m)
    \/ WeatherGet
    \/ \E p \in Processors : Step(p)
    \/ StopNext

(* The operating system schedules every started thread, and stop_all runs  *)
(* to its end once a signal started it.  Nothing forces the broker to      *)
(* deliver or anyone to send the signal.                                   *)
Fairness ==
    /\ \A p \in Processors : WF_vars(Step(p))
    /\ WF_vars(stopped > 0 /\ StopNext)

Spec == Init /\ [][Next]_vars
FairSpec == Spec /\ Fairness

-----------------------------------------------------------------------------
(* Properties *)

(* Types: every variable has the type the code gives it, and the counters  *)
(* never become negative, the shared ones flushed by every thread included. *)
TypeOK ==
    /\ inbound \subseteq Packets
    /\ rr_index \in Nat
    /\ aprs_queues \in [Processors -> Seq(Packets)]
    /\ weather_queue \in Seq(Weather)
    /\ pc \in [Processors -> ProgramPoints]
    /\ mode \in [Processors -> {"busy", "idle", "cleanup"}]
    /\ packet_dicts \in [Processors -> Seq(Packets)]
    /\ local_packet_count \in [Processors -> Nat]
    /\ local_packets_saved \in [Processors -> Nat]
    /\ stats \in [packet_counter : Nat, packets_saved : Nat]
    /\ aprs_packet \subseteq Packets
    /\ thread_stop \in [Processors -> BOOLEAN]
    /\ stopped \in 0 .. ProcessorCount + 1
    /\ stats_only \in BOOLEAN
    /\ fate \in [Packets -> Fates]
    /\ unacked \subseteq aprs_packet

Queued  == UNION {Range(aprs_queues[p]) : p \in Processors}
Batched == UNION {Range(packet_dicts[p]) : p \in Processors}
Ended   == {m \in Packets : fate[m] # "live"}
Saving  == {p \in Processors : pc[p] = "insert"}

(* No packet vanishes, and none is in two places: it is with the broker,   *)
(* in one queue, in one batch, in the table, or ended.  The one overlap is *)
(* a batch whose COPY committed but reported an error, until the INSERT    *)
(* that follows has found the rows there.                                  *)
Conservation ==
    /\ Packets = inbound \cup Queued \cup Batched \cup aprs_packet \cup Ended
    /\ inbound \cap (Queued \cup Batched \cup aprs_packet \cup Ended) = {}
    /\ Queued \cap (Batched \cup aprs_packet \cup Ended) = {}
    /\ (Batched \cup aprs_packet) \cap Ended = {}
    /\ \A p \in Processors \ Saving : Range(packet_dicts[p]) \cap aprs_packet = {}
    /\ \A p, q \in Processors : p # q =>
        /\ Range(aprs_queues[p]) \cap Range(aprs_queues[q]) = {}
        /\ Range(packet_dicts[p]) \cap Range(packet_dicts[q]) = {}
    /\ \A p \in Processors : IsInjective(aprs_queues[p]) /\ IsInjective(packet_dicts[p])

(* Memory is bounded whatever the database does: a queue never exceeds     *)
(* maxsize, and a batch is below its threshold whenever its processor is   *)
(* about to take another packet, failed saves included.                    *)
MemoryBounded ==
    /\ Len(weather_queue) <= QueueSize
    /\ \A p \in Processors :
        /\ Len(aprs_queues[p]) <= QueueSize
        /\ Len(packet_dicts[p]) <= Threshold(p)
        /\ pc[p] \in {"check", "get"} => Len(packet_dicts[p]) < Threshold(p)

Processed == Batched \cup aprs_packet
             \cup {m \in Packets : fate[m] \in {"duplicate", "lost", "discarded"}}

ProcessedCountExact ==
    stats.packet_counter + SumFunction(local_packet_count) = Cardinality(Processed)

SavedCountExact ==
    LET saved == stats.packets_saved + SumFunction(local_packets_saved) IN
    IF stats_only
    THEN aprs_packet = {} /\ saved <= Cardinality({m \in Packets : fate[m] = "discarded"})
    ELSE saved + Cardinality(unacked) = Cardinality(aprs_packet)

(* Shared and thread-local counters together tell the truth across every   *)
(* interleaving of the flushes: each packet that joined a batch counts     *)
(* once, and the saved ones are the rows, up to rows whose commit reported *)
(* an error (in stats-only mode, never more than was thrown away).         *)
CountersExact == ProcessedCountExact /\ SavedCountExact

(* A processor that ended has nothing left in its batch, so whatever it    *)
(* had taken from the queue has been written or given up by _cleanup.      *)
CleanupEmptiesBatch ==
    \A p \in Processors : pc[p] = "done" => packet_dicts[p] = <<>>

(* Where a packet is, in the terms of PacketLedger. *)
Stage(m) ==
    CASE m \in aprs_packet           -> "stored"
      [] m \in Ended                 -> fate[m]
      [] m \in inbound               -> "inbound"
      [] m \in Queued                -> "queued"
      [] m \in Batched \ aprs_packet -> "batched"
      [] OTHER                       -> "vanished"

Ledger == INSTANCE PacketLedger WITH stage <- [m \in Packets |-> Stage(m)]

(* The pipeline implements the ledger: packets only move forward, rows are *)
(* never rewritten, keys in the table are unique whichever processors      *)
(* commit in whatever order, "duplicate" is only said of keys in the table.*)
LedgerSpec == Ledger!Spec

(* After a signal every processor runs its cleanup and ends. *)
ShutdownCompletes ==
    (stopped > 0) ~> (\A p \in Processors : pc[p] = "done")

(* A batch that reached its threshold leaves memory. *)
FullBatchLeaves ==
    \A p \in Processors :
        (Len(packet_dicts[p]) >= Threshold(p)) ~> (packet_dicts[p] = <<>>)

=============================================================================
