----------------------------- MODULE KeepAlive ------------------------------
(***************************************************************************)
(* The health report of the ingest process: KeepAliveThread gathers, once  *)
(* per Interval of its one-second loop, what it can see of the other       *)
(* threads, writes it to the keepalive file at the end of the Interval,    *)
(* and `haminfo mqtt-healthcheck`, another process, judges the file at any *)
(* moment.  A tick is one turn of the loop.                                *)
(*                                                                         *)
(* `link` stands for what MqttConnection models: MQTTThread's flags        *)
(* connected and subscribed are not both set ("down"), they are but paho's *)
(* connection is closed ("closed"), or messages can come ("up").           *)
(* MQTTThread itself does not die here: its death ends the program         *)
(* (Shutdown).  No keepalive file of an earlier run is lying around.       *)
(***************************************************************************)
EXTENDS Integers, Sequences, FiniteSets, SequencesExt

CONSTANTS
    Processors,       \* the APRS processors, in the order of the registry
    Interval,         \* 60 turns of the loop
    MessageAgeLimit,  \* 120 seconds in mqtt_healthcheck
    FileAgeLimit,     \* MAX_FILE_AGE_MINUTES, 300 seconds
    ZeroLimit,        \* MAX_ZERO_INTERVALS and STALE_CONNECTION_INTERVALS (2)
    MaxDeaths,        \* bound on the threads that die
    MaxMissed,        \* bound on the dumps in a row that fail, in ticks
    Watched,          \* the conditions looked at
    LastingCap        \* bound on the history variable `lasting`, per condition

(* What can be watched for how long it lasts, see Holds. *)
Conditions == {"outage", "silence", "stall", "death", "fine"}

ASSUME KeepAliveAssumption ==
    /\ Watched \subseteq Conditions
    /\ Processors # <<>>
    /\ Processors \in Seq(Range(Processors))
    /\ Range(Processors) \cap {"weather", "mqtt", "keepalive", "PacketFlow"} = {}
    /\ Interval \in Nat \ {0, 1} /\ MessageAgeLimit \in Nat \ {0}
    /\ FileAgeLimit \in Nat /\ Interval <= FileAgeLimit
    /\ ZeroLimit \in Nat \ {0}
    /\ MaxDeaths \in Nat /\ MaxMissed \in Nat /\ LastingCap \in [Conditions -> Nat]

(* The registry's order: processors, weather processor, MQTTThread, KeepAlive *)
Registry == Processors \o <<"weather", "mqtt", "keepalive">>
Threads  == Range(Registry)

(* data['threads'] has one entry per class, not per thread. *)
Classes == {"APRSPacketProcessorThread", "weather", "mqtt", "keepalive", "PacketFlow"}
ClassOf(t) == IF t \in Range(Processors) THEN "APRSPacketProcessorThread" ELSE t

VARIABLES
    life,          \* "new", "running" or "gone"; a gone thread is unregistered
    link,          \* see above
    message_age,   \* now - last_message_time, up to the limit
    counted,       \* packet_counter grew since the last gathering
    last_positive, \* last_packet_count > 0
    idle,          \* history: ticks since packet_counter grew, up to 2
    kpc, cntr,     \* KeepAliveThread: program point, cntr % Interval
    zero_packet_intervals,
    data,          \* KeepAliveThread.data
    file,          \* the data last dumped
    readable,      \* FALSE while no file is there, or a truncated one
    file_age,
    missed,        \* history: an Interval for each dump that has failed
                   \* since the last one that did not
    watch, lasting \* history: a condition, and the ticks it has held

traffic == <<message_age, counted, idle>>
keeper  == <<kpc, cntr, last_positive, zero_packet_intervals, data>>
disk    == <<file, readable, file_age, missed>>
healthVars == <<life, link, traffic, keeper, disk, watch, lasting>>

CutOff(n, limit) == IF n > limit THEN limit ELSE n

-----------------------------------------------------------------------------
(* The other threads *)

(* wx_mqtt_ingest starts the threads in the registry's order. *)
StartThread(t) ==
    /\ life[t] = "new"
    /\ \A i, j \in DOMAIN Registry :
        Registry[j] = t /\ i < j => life[Registry[i]] # "new"
    /\ life' = [life EXCEPT ![t] = "running"]
    /\ UNCHANGED <<link, traffic, keeper, disk>>

(* MyThread.run ends with an exception and takes the thread off the registry. *)
Die(t) ==
    /\ t # "mqtt" /\ life[t] = "running"
    /\ Cardinality({x \in Threads : life[x] = "gone"}) < MaxDeaths
    /\ life' = [life EXCEPT ![t] = "gone"]
    /\ UNCHANGED <<link, traffic, keeper, disk>>

LinkChanges ==
    /\ link' \in {"down", "closed", "up"} \ {link}
    /\ UNCHANGED <<life, traffic, keeper, disk>>

(* A message arrives and the processor it goes to counts it, if it lives. *)
Message(t) ==
    /\ link = "up" /\ t \in Range(Processors)
    /\ message_age' = 0
    /\ counted' = (counted \/ life[t] = "running")
    /\ idle' = IF life[t] = "running" THEN 0 ELSE idle
    /\ UNCHANGED <<life, link, keeper, disk>>

-----------------------------------------------------------------------------
(* KeepAliveThread.loop *)

(* zero_packet_intervals after a gathering; the count matters up to ZeroLimit. *)
ZeroNext ==
    IF counted \/ ~last_positive THEN 0
    ELSE CutOff(zero_packet_intervals + 1, ZeroLimit)

IsAlive_ByFlags(t) == life[t] = "running" /\ (t = "mqtt" => link # "down") \* mutant

(* MQTTThread answers for its flags and for _connection_closed(). *)
IsAlive(t) == life[t] = "running" /\ (t = "mqtt" => link = "up")

(* Where the registry holds threads of the class *)
Registered(class) ==
    {i \in DOMAIN Registry : ClassOf(Registry[i]) = class /\ life[Registry[i]] # "gone"}

LastAlive(class) == IsAlive(Registry[Max(Registered(class))])

ClassEntry_StaysDown(class) ==                                          \* mutant
    IF class = "PacketFlow" THEN IF ZeroNext < ZeroLimit THEN "up" ELSE "down"
    ELSE IF Registered(class) = {} THEN data.threads[class]
    ELSE IF LastAlive(class) /\ data.threads[class] # "down"
         THEN "up" ELSE "down"

(* The last registered thread of a class decides; the entry of a class     *)
(* without one stays as it was.                                            *)
ClassEntry(class) ==
    IF class = "PacketFlow" THEN IF ZeroNext < ZeroLimit THEN "up" ELSE "down"
    ELSE IF Registered(class) = {} THEN data.threads[class]
    ELSE IF LastAlive(class) THEN "up" ELSE "down"

(* Of the age and of the count the healthcheck asks only this. *)
MqttEntry == [up |-> link # "down", silent |-> message_age > MessageAgeLimit]

(* The rest of the turn: the counter, and the dump when an interval is over. *)
CountTurn ==
    /\ cntr' = (cntr + 1) % Interval
    /\ kpc' = IF cntr' = 0 THEN "open" ELSE "sleep"

Gather ==
    /\ kpc = "loop" /\ life["keepalive"] = "running"
    /\ cntr = 0
    /\ data' = [threads |-> [class \in Classes |-> ClassEntry(class)],
                mqtt    |-> MqttEntry,
                stalled |-> ZeroNext >= ZeroLimit]
    /\ zero_packet_intervals' = ZeroNext
    /\ last_positive' = (last_positive \/ counted)
    /\ counted' = FALSE
    /\ CountTurn
    /\ UNCHANGED <<life, link, message_age, idle, disk>>

NoGather ==
    /\ kpc = "loop" /\ life["keepalive"] = "running"
    /\ cntr # 0
    /\ CountTurn
    /\ UNCHANGED <<life, link, traffic, last_positive,
                   zero_packet_intervals, data, disk>>

(* _dump_keepalive: open(file, 'w+') truncates ... *)
DumpOpen ==
    /\ kpc = "open" /\ life["keepalive"] = "running"
    /\ readable' = FALSE
    /\ file_age' = 0
    /\ kpc' = "write"
    /\ UNCHANGED <<life, link, traffic, cntr, last_positive,
                   zero_packet_intervals, data, file, missed>>

(* ... and json.dump writes. *)
DumpWrite ==
    /\ kpc = "write" /\ life["keepalive"] = "running"
    /\ file' = data
    /\ readable' = TRUE
    /\ file_age' = 0
    /\ missed' = 0
    /\ kpc' = "sleep"
    /\ UNCHANGED <<life, link, traffic, cntr, last_positive,
                   zero_packet_intervals, data>>

(* The except branch logs, and the loop goes on all the same: an open that *)
(* failed leaves the last file, a write that failed leaves the truncated   *)
(* one.                                                                    *)
DumpFails ==
    /\ kpc \in {"open", "write"} /\ life["keepalive"] = "running"
    /\ missed < MaxMissed
    /\ missed' = missed + Interval
    /\ kpc' = "sleep"
    /\ UNCHANGED <<life, link, traffic, cntr, last_positive,
                   zero_packet_intervals, data, file, readable, file_age>>

(* time.sleep(1), or time passing after KeepAliveThread died *)
Second ==
    /\ kpc = "sleep" \/ life["keepalive"] = "gone"
    /\ kpc' = IF kpc = "sleep" THEN "loop" ELSE kpc
    /\ message_age' = CutOff(message_age + 1, MessageAgeLimit + 1)
    /\ file_age' = CutOff(file_age + 1, FileAgeLimit + 1)
    /\ idle' = CutOff(idle + 1, 2)
    /\ UNCHANGED <<life, link, counted, cntr, last_positive,
                   zero_packet_intervals, data, file, readable, missed>>

-----------------------------------------------------------------------------
(* mqtt_healthcheck on the file as it is now *)

FileIsRecent == readable /\ file_age <= FileAgeLimit

HealthcheckPasses ==
    /\ FileIsRecent
    /\ \A class \in Classes : file.threads[class] # "down"
    /\ file.mqtt.up
    /\ ~file.mqtt.silent
    /\ ~file.stalled

-----------------------------------------------------------------------------
(* History: one condition is watched in each behaviour. *)

Holds ==
    CASE watch = "outage"  -> link # "up"
      [] watch = "silence" -> message_age > 0
      [] watch = "stall"   -> last_positive /\ idle > 0
      [] watch = "death"   -> \E t \in Threads : life[t] = "gone"
      [] watch = "fine"    -> /\ link = "up" /\ message_age <= 1 /\ idle <= 1
                              /\ \A t \in Threads : life[t] = "running"

Observe(ticks) ==
    /\ UNCHANGED watch
    /\ lasting' = IF Holds' THEN CutOff(lasting + ticks, LastingCap[watch]) ELSE 0

NothingGathered ==
    [threads |-> [class \in Classes |-> "absent"],
     mqtt    |-> [up |-> FALSE, silent |-> FALSE],
     stalled |-> FALSE]

(* KeepAliveThread was constructed, which dumps or fails to, and started;  *)
(* the rest is about to start.                                             *)
HealthInit ==
    /\ life = [t \in Threads |-> IF t = "keepalive" THEN "running" ELSE "new"]
    /\ link = "down" /\ message_age = 0 /\ counted = FALSE /\ idle = 0
    /\ last_positive = FALSE /\ zero_packet_intervals = 0
    /\ kpc = "loop" /\ cntr = 0
    /\ data = NothingGathered /\ file = NothingGathered
    /\ readable \in BOOLEAN /\ file_age = 0
    /\ missed = IF readable THEN 0 ELSE Interval
    /\ watch \in Watched /\ lasting = 0

World == (\E t \in Threads : StartThread(t) \/ Die(t) \/ Message(t)) \/ LinkChanges
Keeper == Gather \/ NoGather \/ DumpOpen \/ DumpWrite \/ DumpFails

HealthNext ==
    \/ (World \/ Keeper) /\ Observe(0)
    \/ Second /\ Observe(1)

HealthSpec == HealthInit /\ [][HealthNext]_healthVars

-----------------------------------------------------------------------------
(* Properties *)

KeeperLives == life["keepalive"] = "running"

(* The watched trouble has lasted longer than its report may take: one     *)
(* interval until it is gathered, and one until the file says so or, if    *)
(* KeepAliveThread died or cannot write, until the file is too old.        *)
Overdue(slack) ==
    \/ lasting > slack + Interval + FileAgeLimit
    \/ KeeperLives /\ lasting > slack + 2 * Interval + missed

(* Lasting trouble fails the health check within a bound, whichever dumps  *)
(* fail: a connection that is not up, one that is up but silent, and       *)
(* counters that stand still, say because every processor died.            *)
TroubleReported ==
    HealthcheckPasses =>
        /\ watch = "outage"  => ~Overdue(0)
        /\ watch = "silence" => ~Overdue(MessageAgeLimit)
        /\ watch = "stall"   => ~Overdue(ZeroLimit * Interval)

(* No lasting false alarm: when all threads run, the connection is up and  *)
(* packets flow, the healthcheck passes two intervals after the last dump  *)
(* that failed, except for the moment in which the file is rewritten.      *)
(* Before, it fails for no other reason than a broken or too old file.     *)
RecoveryReported ==
    watch = "fine" /\ lasting >= 2 * Interval + missed /\ kpc # "write" =>
        HealthcheckPasses \/ (missed > 0 /\ ~FileIsRecent)

(* mqtt_healthcheck, "Check 3: Verify all threads are running": a thread   *)
(* that died is reported.                                                  *)
DeathReported ==
    watch = "death" /\ lasting > FileAgeLimit + 2 * Interval => ~HealthcheckPasses

=============================================================================
