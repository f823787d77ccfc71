----------------------------- MODULE RustIngest -----------------------------
(***************************************************************************)
(* The Rust ingest service, the alternative to AprsIngest: an MQTT task    *)
(* sends what it receives into a bounded channel, a processor task parses, *)
(* batches and inserts, and main aborts both on Ctrl+C.                    *)
(*                                                                         *)
(* A task can be cancelled where it awaits: polling the broker, sending,   *)
(* sleeping, receiving, inserting; these are the program points.           *)
(***************************************************************************)
EXTENDS Integers, Sequences, FiniteSets, Functions

CONSTANTS
    Packets,      \* publications of the broker
    Garbled,      \* those from_slice or from_json refuses
    Key,          \* Key[m]: the unique (from_call, timestamp) of m
    ChannelSize,  \* mpsc::channel (10000)
    BatchSize,    \* ingest.batch_size
    StatsModes,   \* values of ingest.stats_only to start with
    MaxFaults     \* bound on connection and database errors

ASSUME RustAssumption ==
    /\ Garbled \subseteq Packets /\ DOMAIN Key = Packets
    /\ ChannelSize \in Nat \ {0} /\ BatchSize \in Nat \ {0}
    /\ StatsModes \subseteq BOOLEAN /\ MaxFaults \in Nat

VARIABLES
    inbound,       \* packets not received
    mqtt,          \* program point of the MQTT task
    connected,     \* the event loop has a network connection
    request,       \* the SUBSCRIBE request is not sent yet
    subscribed,    \* the broker's (clean) session holds the subscription
    sending,       \* the set with the message tx.send() is about to deliver, or {}
    channel,
    pc,            \* program point of the processor task
    closing,       \* the processor flushes because the channel was closed
    batch,
    elapsed,       \* last_flush.elapsed() >= batch_timeout
    reply,         \* of the INSERT under way: "none", "error" or "ok"
    new_rows,      \* rows that INSERT wrote
    stats,
    aprs_packet,   \* packets that have a row
    main,          \* program point of main
    stats_only,    \* settings.ingest.stats_only
    fate, unacked, \* history: as in AprsIngest
    faults

link == <<mqtt, connected, request, subscribed>>
proc == <<pc, closing, batch, elapsed, reply, new_rows>>
vars == <<inbound, link, sending, channel, proc, stats, aprs_packet, main,
          stats_only, fate, unacked, faults>>

Stored == {Key[m] : m \in aprs_packet}
Ends(S, how) == fate' = [m \in Packets |-> IF m \in S THEN how ELSE fate[m]]
Fault == faults < MaxFaults /\ faults' = faults + 1

NewRows_NoConflictClause == Range(batch)               \* mutant

(* The rows ON CONFLICT (from_call, timestamp) DO NOTHING lets through. *)
NewRows ==
    {batch[i] : i \in {j \in DOMAIN batch :
        /\ Key[batch[j]] \notin Stored
        /\ \A k \in 1 .. j - 1 : Key[batch[k]] # Key[batch[j]]}}

-----------------------------------------------------------------------------
(* MqttClient::run *)

linkOnly == UNCHANGED <<channel, proc, stats, aprs_packet, main, stats_only, fate,
                        unacked>>

(* poll() connects; with clean_session the broker's session is new.  The   *)
(* ConnAck is only logged.                                                 *)
PollConnects ==
    /\ mqtt = "poll" /\ ~connected
    /\ connected' = TRUE
    /\ subscribed' = FALSE
    /\ linkOnly /\ UNCHANGED <<inbound, mqtt, request, sending, faults>>

(* poll() sends the request subscribe() left with the event loop. *)
PollSubscribes ==
    /\ mqtt = "poll" /\ connected /\ request
    /\ request' = FALSE
    /\ subscribed' = TRUE
    /\ linkOnly /\ UNCHANGED <<inbound, mqtt, connected, sending, faults>>

PollPublish(m) ==
    /\ mqtt = "poll" /\ connected /\ subscribed
    /\ m \in inbound
    /\ inbound' = inbound \ {m}
    /\ sending' = {m}
    /\ mqtt' = "send"
    /\ linkOnly /\ UNCHANGED <<connected, request, subscribed, faults>>

(* poll() fails: the connection is gone, and with it the session.  A       *)
(* request that is still unsent is taken to survive, the best case.        *)
PollError ==
    /\ mqtt = "poll"
    /\ Fault
    /\ connected' = FALSE
    /\ subscribed' = FALSE
    /\ mqtt' = "sleep"
    /\ linkOnly /\ UNCHANGED <<inbound, request, sending>>

Slept ==
    /\ mqtt = "sleep"
    /\ mqtt' = "poll"
    /\ linkOnly /\ UNCHANGED <<inbound, connected, request, subscribed, sending, faults>>

(* tx.send() waits for room in the channel, ... *)
Send ==
    /\ mqtt = "send"
    /\ pc \in {"recv", "insert"}
    /\ Len(channel) < ChannelSize
    /\ \E m \in sending : channel' = Append(channel, m)
    /\ sending' = {}
    /\ mqtt' = "poll"
    /\ UNCHANGED <<inbound, connected, request, subscribed, proc, stats,
                   aprs_packet, main, stats_only, fate, unacked, faults>>

(* ... and is an error when the receiver is gone. *)
SendFails ==
    /\ mqtt = "send"
    /\ pc \in {"done", "gone"}
    /\ mqtt' = "done"
    /\ linkOnly
    /\ UNCHANGED <<inbound, connected, request, subscribed, sending, faults>>

-----------------------------------------------------------------------------
(* process_packets and flush_batch *)

procOnly == UNCHANGED <<inbound, link, sending, main, stats_only>>

(* The end of a turn with `packets` in the batch: flush if full or timed out. *)
EndTurn_OnlyWhenFull(packets) ==                       \* mutant
    IF Len(packets) < BatchSize
    THEN pc' = "recv" /\ batch' = packets /\ UNCHANGED <<elapsed, stats>>
    ELSE pc' = "insert" /\ batch' = packets /\ UNCHANGED <<elapsed, stats>>

EndTurn(packets) ==
    IF packets = <<>> \/ (Len(packets) < BatchSize /\ ~elapsed)
    THEN pc' = "recv" /\ batch' = packets /\ UNCHANGED <<elapsed, stats>>
    ELSE IF stats_only
    THEN /\ pc' = "recv" /\ batch' = <<>> /\ elapsed' = FALSE
         /\ stats' = [stats EXCEPT !.inserted = @ + Len(packets)]
    ELSE pc' = "insert" /\ batch' = packets /\ UNCHANGED <<elapsed, stats>>

(* A batch that stats-only mode counts away in this step is discarded. *)
Discards(packets) ==
    IF stats_only /\ batch' = <<>> THEN Ends(Range(packets), "discarded")
                                  ELSE UNCHANGED fate

Receive ==
    /\ pc = "recv" /\ channel # <<>> /\ Head(channel) \notin Garbled
    /\ channel' = Tail(channel)
    /\ EndTurn(Append(batch, Head(channel)))
    /\ Discards(Append(batch, Head(channel)))
    /\ procOnly /\ UNCHANGED <<closing, reply, new_rows, aprs_packet, unacked, faults>>

(* from_slice or from_json fails; the batch may be due all the same. *)
ReceiveGarbled ==
    /\ pc = "recv" /\ channel # <<>> /\ Head(channel) \in Garbled
    /\ channel' = Tail(channel)
    /\ EndTurn(batch)
    /\ fate' = [m \in Packets |->
           IF m = Head(channel) THEN "rejected"
           ELSE IF batch' = <<>> /\ m \in Range(batch) THEN "discarded" ELSE fate[m]]
    /\ procOnly /\ UNCHANGED <<closing, reply, new_rows, aprs_packet, unacked, faults>>

TimePasses ==
    /\ pc = "recv" /\ ~elapsed
    /\ elapsed' = TRUE
    /\ procOnly
    /\ UNCHANGED <<channel, pc, closing, batch, reply, new_rows, stats,
                   aprs_packet, fate, unacked, faults>>

(* recv() timed out, which takes as long as the batch may wait. *)
ReceiveTimeout ==
    /\ pc = "recv" /\ channel = <<>> /\ mqtt \notin {"done", "gone"}
    /\ elapsed /\ batch # <<>>
    /\ EndTurn(batch)
    /\ Discards(batch)
    /\ procOnly
    /\ UNCHANGED <<channel, closing, reply, new_rows, aprs_packet, unacked, faults>>

(* recv() returned None: every sender is gone.  A last flush, except in    *)
(* stats-only mode, where the batch is dropped uncounted.                  *)
ReceiveClosed ==
    /\ pc = "recv" /\ channel = <<>> /\ mqtt \in {"done", "gone"}
    /\ closing' = TRUE
    /\ pc' = IF batch = <<>> \/ stats_only THEN "done" ELSE "insert"
    /\ procOnly
    /\ UNCHANGED <<channel, batch, elapsed, reply, new_rows, stats, aprs_packet,
                   fate, unacked, faults>>

(* The database executes the INSERT ... *)
InsertExecutes ==
    /\ pc = "insert" /\ reply = "none"
    /\ reply' = "ok"
    /\ new_rows' = NewRows
    /\ aprs_packet' = aprs_packet \cup NewRows
    /\ procOnly
    /\ UNCHANGED <<channel, pc, closing, batch, elapsed, stats, fate, unacked, faults>>

(* ... or there is an error, perhaps only of the connection, afterwards. *)
InsertFails ==
    /\ pc = "insert" /\ reply = "none"
    /\ Fault
    /\ reply' = "error"
    /\ \/ UNCHANGED <<aprs_packet, unacked>>
       \/ aprs_packet' = aprs_packet \cup NewRows /\ unacked' = unacked \cup NewRows
    /\ procOnly
    /\ UNCHANGED <<channel, pc, closing, batch, elapsed, new_rows, stats, fate>>

Account_LossAsDuplicate ==                             \* mutant
    stats' = [stats EXCEPT
        !.inserted  = @ + Cardinality(new_rows),
        !.duplicate = @ + Len(batch) - Cardinality(new_rows)]

(* add_inserted and add_duplicate; a failed batch is not counted. *)
Account ==
    stats' = IF reply = "error" THEN stats
             ELSE [stats EXCEPT
                 !.inserted  = @ + Cardinality(new_rows),
                 !.duplicate = @ + Len(batch) - Cardinality(new_rows)]

(* insert_batch().await returns; the batch is cleared in either case. *)
FlushBatch ==
    /\ pc = "insert" /\ reply # "none"
    /\ Account
    /\ fate' = [m \in Packets |->
           IF m \notin Range(batch) \ aprs_packet THEN fate[m]
           ELSE IF Key[m] \in Stored THEN "duplicate" ELSE "lost"]
    /\ batch' = <<>> /\ reply' = "none" /\ new_rows' = {}
    /\ elapsed' = FALSE
    /\ pc' = IF closing THEN "done" ELSE "recv"
    /\ procOnly
    /\ UNCHANGED <<channel, closing, aprs_packet, unacked, faults>>

-----------------------------------------------------------------------------
(* main *)

mainOnly == UNCHANGED <<inbound, connected, request, subscribed, sending, channel,
                        closing, batch, elapsed, reply, new_rows, stats,
                        aprs_packet, stats_only, fate, unacked, faults>>

CtrlC ==
    /\ main = "running"
    /\ main' = "abort_mqtt"
    /\ mainOnly /\ UNCHANGED <<mqtt, pc>>

AbortMqtt ==
    /\ main = "abort_mqtt"
    /\ main' = "abort_processor"
    /\ mainOnly /\ UNCHANGED <<mqtt, pc>>

AbortProcessor ==
    /\ main = "abort_processor"
    /\ main' = "returned"
    /\ mainOnly /\ UNCHANGED <<mqtt, pc>>

(* An aborted task ends at one of its awaits; its tx or rx is dropped. *)
CancelMqtt ==
    /\ main \in {"abort_processor", "returned"}
    /\ mqtt \in {"poll", "send", "sleep"}
    /\ mqtt' = "gone"
    /\ mainOnly /\ UNCHANGED <<main, pc>>

CancelProcessor ==
    /\ main = "returned"
    /\ pc \in {"recv", "insert"}
    /\ pc' = "gone"
    /\ mainOnly /\ UNCHANGED <<main, mqtt>>

Init ==
    /\ inbound = Packets
    /\ mqtt = "poll" /\ connected = FALSE /\ request = TRUE /\ subscribed = FALSE
    /\ sending = {} /\ channel = <<>>
    /\ pc = "recv" /\ closing = FALSE /\ batch = <<>> /\ elapsed = FALSE
    /\ reply = "none" /\ new_rows = {}
    /\ stats = [inserted |-> 0, duplicate |-> 0]
    /\ aprs_packet = {} /\ main = "running" /\ stats_only \in StatsModes
    /\ fate = [m \in Packets |-> "live"] /\ unacked = {} /\ faults = 0

MqttTask ==
    \/ PollConnects \/ PollSubscribes \/ PollError \/ Slept \/ Send \/ SendFails
    \/ \E m \in Packets : PollPublish(m)

Processor ==
    \/ Receive \/ ReceiveGarbled \/ ReceiveTimeout \/ ReceiveClosed
    \/ InsertExecutes \/ InsertFails \/ FlushBatch

Main == CtrlC \/ AbortMqtt \/ AbortProcessor \/ CancelMqtt \/ CancelProcessor

Next == MqttTask \/ Processor \/ TimePasses \/ Main

Spec == Init /\ [][Next]_vars

(* The runtime polls both tasks, and time passes.  Reconnecting succeeds   *)
(* in the end because there are MaxFaults errors at most.  Nobody has to   *)
(* publish or to press Ctrl+C.                                             *)
Fairness ==
    /\ WF_vars(Processor) /\ WF_vars(TimePasses)
    /\ WF_vars(PollConnects \/ PollSubscribes \/ Slept \/ Send \/ SendFails)

FairSpec == Spec /\ Fairness

-----------------------------------------------------------------------------
(* Properties *)

Fated(how) == {m \in Packets : fate[m] = how}

(* The counters tell the truth about the table: packets_inserted is the    *)
(* number of rows whose INSERT was answered, packets_duplicate the number  *)
(* of packets skipped, and a failed batch is in neither, except that rows  *)
(* an INSERT wrote before reporting an error make no duplicates.           *)
StatsExact ==
    IF stats_only
    THEN stats = [inserted |-> Cardinality(Fated("discarded")), duplicate |-> 0]
    ELSE /\ stats.inserted = Cardinality(aprs_packet) - Cardinality(unacked \cup new_rows)
         /\ stats.duplicate <= Cardinality(Fated("duplicate"))
         /\ faults = 0 => stats.duplicate = Cardinality(Fated("duplicate"))

Stage(m) ==
    CASE m \in aprs_packet                      -> "stored"
      [] fate[m] # "live"                       -> fate[m]
      [] m \in inbound                          -> "inbound"
      [] m \in sending \cup Range(channel)      -> "queued"
      [] m \in Range(batch) \ aprs_packet       -> "batched"
      [] OTHER                                  -> "vanished"

Ledger == INSTANCE PacketLedger WITH stage <- [m \in Packets |-> Stage(m)]

(* The Rust service implements the ledger the Python pipeline implements:  *)
(* packets only move forward, through cancellation at any await, keys are  *)
(* unique and "duplicate" is only said of keys in the table.               *)
LedgerSpec == Ledger!Spec

(* "Use timeout to ensure we flush periodically even with low traffic":    *)
(* a packet that was received is settled, unless the service is stopped.   *)
ReceivedIsSettled ==
    \A m \in Packets :
        Stage(m) \in {"queued", "batched"}
            ~> (Stage(m) \notin {"queued", "batched"} \/ main # "running")

(* "This service subscribes to an MQTT topic" and on an error "Try to      *)
(* reconnect after a brief delay": once the errors are over the service    *)
(* has its subscription, unless it is stopped.                             *)
StaysSubscribed == []<>(subscribed \/ main # "running")

=============================================================================
