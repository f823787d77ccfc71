--------------------------- MODULE MqttConnection ---------------------------
(***************************************************************************)
(* MQTTThread: three threads share one connection to the broker.           *)
(*   - the thread's own loop() checks the connection's health and replaces *)
(*     the client when it looks dead;                                      *)
(*   - the network loop of each paho client runs the callbacks and, by     *)
(*     itself, redials a lost connection;                                  *)
(*   - the signal handler calls stop().                                    *)
(* A tick is one second.  Time passes in the one-second sleeps of loop()   *)
(* and of the backoff, in connect(), in loop_stop(), which joins a network *)
(* loop, and in the two sleeps of half a second, which take a tick or none. *)
(*                                                                         *)
(* Ages replace the time.time() stamps.  `silence` is now -                *)
(* last_message_time, kept while `connected` only: on_connect restarts it. *)
(* `since_check` is now - last_connection_check, cut off where it is due.  *)
(* The condition "after 30 seconds of runtime" is left out:                *)
(* last_message_time is never before start_time, so a silence above 30     *)
(* implies it.  _send_ping is a no-op.                                     *)
(***************************************************************************)
EXTENDS Integers, FiniteSets

CONSTANTS
    Clients,          \* mqtt.Client objects; a discarded one is reused
    NoClient,         \* None
    CheckInterval,    \* CONNECTION_CHECK_INTERVAL (5)
    EmptyPeriod,      \* the literal 30 of the early warning
    MessageTimeout,   \* MESSAGE_TIMEOUT (120)
    InitialDelay,     \* INITIAL_RECONNECT_DELAY (1)
    MaxDelay,         \* MAX_RECONNECT_DELAY (60)
    DialTime,         \* longest connect(): paho gives an address 5 seconds
    ConnackLatency,   \* ticks within which the broker answers a CONNECT
    MaxFaults         \* bound on what the network and the broker do wrong

ASSUME ClientAssumption == NoClient \notin Clients

ASSUME TimingAssumption ==
    /\ CheckInterval \in Nat \ {0} /\ EmptyPeriod \in Nat \ {0}
    /\ MessageTimeout \in Nat /\ DialTime \in Nat
    /\ InitialDelay \in Nat \ {0} /\ MaxDelay \in Nat /\ InitialDelay <= MaxDelay
    /\ ConnackLatency \in Nat /\ MaxFaults \in Nat

VARIABLES
    pc,                       \* program point of the MQTTThread
    client,                   \* self.client
    connected, subscribed,    \* the flags callbacks set and the loop reads
    reconnecting,             \* guarded by reconnect_lock
    reconnect_delay,
    consecutive_empty_checks,
    waited,                   \* `slept`, or ticks spent in the call at pc
    silence, since_check,     \* ages, see above
    looping,                  \* clients whose network loop runs
    session,                  \* TCP and MQTT state of each client
    suback,                   \* clients whose SUBSCRIBE is not answered yet
    connack_age,              \* ticks the current CONNECT has been unanswered
    mqtt_thread_stop,         \* the thread's thread_stop
    stopper,                  \* where stop() is
    faults,                   \* faults so far
    stop_age                  \* history: ticks since stop()

flags    == <<connected, subscribed>>
ages     == <<silence, since_check, connack_age, stop_age>>
timers   == <<waited, ages>>
network  == <<looping, session, suback>>
stopping == <<mqtt_thread_stop, stopper>>
connectionVars == <<pc, client, flags, reconnecting, reconnect_delay, consecutive_empty_checks,
                   timers, network, stopping, faults>>

(* "closed" is a client disconnect() was called on, or one not dialled;    *)
(* "lost" a socket found dead whose on_disconnect is still to run;         *)
(* "redial" one that paho will dial again.                                 *)
Sessions == {"closed", "connecting", "up", "lost", "redial"}
ReconnectPoints == {"teardown", "disconnect", "reset", "wait", "second",
                    "connect", "dial", "start", "settle"}
ProgramPoints == {"run", "check", "reconnect", "sleep", "done"} \cup ReconnectPoints

Lesser(a, b) == IF a < b THEN a ELSE b

Goto(point) == pc' = point
Down == connected' = FALSE /\ subscribed' = FALSE
Fault == faults < MaxFaults /\ faults' = faults + 1

-----------------------------------------------------------------------------
(* run() and loop() *)

Run ==
    /\ pc = "run"
    /\ Goto(IF mqtt_thread_stop THEN "done" ELSE "check")
    /\ UNCHANGED <<client, flags, reconnecting, reconnect_delay,
                   consecutive_empty_checks, timers, network, stopping, faults>>

(* _check_connection_health, first half: the connection itself. *)
LooksAlive ==
    /\ client # NoClient
    /\ connected
    /\ subscribed
    /\ session[client] = "up"         \* otherwise paho's _sock is None

CheckNotDue ==
    /\ pc = "check"
    /\ since_check < CheckInterval \/ reconnecting
    /\ since_check' = IF since_check < CheckInterval THEN since_check ELSE 0
    /\ Goto("sleep")
    /\ UNCHANGED <<client, flags, reconnecting, reconnect_delay, consecutive_empty_checks,
                   waited, silence, connack_age, stop_age, network, stopping, faults>>

CheckDue ==
    /\ pc = "check"
    /\ since_check >= CheckInterval /\ ~reconnecting
    /\ since_check' = 0
    /\ UNCHANGED <<client, flags, reconnecting, reconnect_delay, waited, silence,
                   connack_age, stop_age, network, stopping, faults>>

CheckDead ==
    /\ CheckDue
    /\ ~LooksAlive
    /\ Goto("reconnect")
    /\ UNCHANGED consecutive_empty_checks

(* Second half: the age of the last message. *)
Patience_Four(n) == n > 3                              \* mutant
Patience(n) == n >= 3

TooSilent ==
    \/ silence > MessageTimeout
    \/ silence > EmptyPeriod /\ Patience(consecutive_empty_checks + 1)

CheckSilent ==
    /\ CheckDue
    /\ LooksAlive
    /\ TooSilent
    /\ consecutive_empty_checks' = IF silence > MessageTimeout
                                   THEN consecutive_empty_checks
                                   ELSE consecutive_empty_checks + 1
    /\ Goto("reconnect")

CheckHealthy ==
    /\ CheckDue
    /\ LooksAlive
    /\ ~TooSilent
    /\ consecutive_empty_checks' = IF silence > EmptyPeriod
                                   THEN consecutive_empty_checks + 1 ELSE 0
    /\ Goto("sleep")

-----------------------------------------------------------------------------
(* _reconnect and _connect *)

ReconnectEnter ==
    /\ pc = "reconnect"
    /\ IF mqtt_thread_stop THEN Goto("sleep") /\ UNCHANGED reconnecting
                           ELSE Goto("teardown") /\ reconnecting' = TRUE
    /\ UNCHANGED <<client, flags, reconnect_delay, consecutive_empty_checks, timers,
                   network, stopping, faults>>

(* client.loop_stop() joins the network loop, hence waits for a callback,   *)
(* for the read it blocks in and for a redial.                             *)
JoinLoop(c) ==
    /\ session[c] # "lost"
    /\ looping' = looping \ {c}

Teardown_ForgetsClient ==                              \* mutant
    /\ pc = "teardown"
    /\ client' = NoClient
    /\ Goto("reset")
    /\ UNCHANGED <<flags, reconnecting, reconnect_delay, consecutive_empty_checks,
                   timers, network, stopping, faults>>

Teardown ==
    /\ pc = "teardown"
    /\ IF client = NoClient THEN Goto("reset") /\ UNCHANGED looping
                            ELSE Goto("disconnect") /\ JoinLoop(client)
    /\ waited' = 0
    /\ UNCHANGED <<client, flags, reconnecting, reconnect_delay, consecutive_empty_checks,
                   ages, session, suback, stopping, faults>>

(* client.disconnect(): on_disconnect(rc = 0) if the socket was open, and  *)
(* one that was about to run for a lost socket still does.  A network loop *)
(* that runs, because it was started after loop_stop, ends.                *)
DisconnectClient(c) ==
    /\ looping' = looping \ {c}
    /\ session' = [session EXCEPT ![c] = "closed"]
    /\ suback' = suback \ {c}
    /\ IF session[c] \in {"connecting", "up", "lost"} THEN Down ELSE UNCHANGED flags

(* time.sleep(0.5) comes first. *)
Disconnect ==
    /\ pc = "disconnect"
    /\ DisconnectClient(client)
    /\ client' = NoClient
    /\ Goto("reset")
    /\ UNCHANGED <<reconnecting, reconnect_delay, consecutive_empty_checks, timers,
                   stopping, faults>>

Reset ==
    /\ pc = "reset"
    /\ Down
    /\ consecutive_empty_checks' = 0
    /\ waited' = 0
    /\ Goto("wait")
    /\ UNCHANGED <<client, reconnecting, reconnect_delay, ages, network, stopping, faults>>

(* The wait is cut into one-second sleeps that look at thread_stop. *)
Waiting_Deaf == waited < Lesser(reconnect_delay, MaxDelay)             \* mutant
Waiting == waited < Lesser(reconnect_delay, MaxDelay) /\ ~mqtt_thread_stop

EndReconnect_OnlyOnStop == IF mqtt_thread_stop THEN reconnecting' = FALSE    \* mutant
                                          ELSE UNCHANGED reconnecting
EndReconnect == reconnecting' = FALSE                  \* the finally block

NextDelay == Lesser(reconnect_delay * 2, MaxDelay)

(* time.sleep(1), from which Tick returns *)
WaitSecond ==
    /\ pc = "wait"
    /\ Waiting
    /\ Goto("second")
    /\ UNCHANGED <<client, flags, reconnecting, reconnect_delay, consecutive_empty_checks,
                   timers, network, stopping, faults>>

WaitOver ==
    /\ pc = "wait"
    /\ ~Waiting
    /\ waited' = 0
    /\ IF mqtt_thread_stop
       THEN Goto("sleep") /\ EndReconnect /\ UNCHANGED reconnect_delay
       ELSE Goto("connect") /\ reconnect_delay' = NextDelay /\ UNCHANGED reconnecting
    /\ UNCHANGED <<client, flags, consecutive_empty_checks, ages, network, stopping, faults>>

(* self.client = mqtt.Client(...), visible to stop() from here on. *)
NewClient(c) ==
    /\ pc = "connect"
    /\ c \notin looping
    /\ client' = c
    /\ session' = [session EXCEPT ![c] = "closed"]
    /\ Goto("dial")
    /\ UNCHANGED <<flags, reconnecting, reconnect_delay, consecutive_empty_checks, timers,
                   looping, suback, stopping, faults>>

(* client.connect() blocks until the socket is open and CONNECT is sent. *)
DialSucceeds ==
    /\ pc = "dial"
    /\ session' = [session EXCEPT ![client] = "connecting"]
    /\ connack_age' = 0
    /\ waited' = 0
    /\ Goto("start")
    /\ UNCHANGED <<client, flags, reconnecting, reconnect_delay, consecutive_empty_checks,
                   silence, since_check, stop_age, looping, suback, stopping, faults>>

(* It raised, at once or when it timed out: the except branches drop the   *)
(* client.                                                                 *)
DialFails ==
    /\ pc = "dial"
    /\ Fault
    /\ Down
    /\ client' = NoClient
    /\ EndReconnect
    /\ waited' = 0
    /\ Goto("sleep")
    /\ UNCHANGED <<reconnect_delay, consecutive_empty_checks, ages, network, stopping>>

(* client.loop_start(); a network loop ends at once on a closed client. *)
LoopStart ==
    /\ pc = "start"
    /\ looping' = IF session[client] = "closed" THEN looping ELSE looping \cup {client}
    /\ Goto("settle")
    /\ UNCHANGED <<client, flags, reconnecting, reconnect_delay, consecutive_empty_checks,
                   timers, session, suback, stopping, faults>>

(* time.sleep(0.5) is over: _connect returns, and _reconnect with it. *)
Settled ==
    /\ pc = "settle"
    /\ EndReconnect
    /\ waited' = 0
    /\ Goto("sleep")
    /\ UNCHANGED <<client, flags, reconnect_delay, consecutive_empty_checks, ages,
                   network, stopping, faults>>

-----------------------------------------------------------------------------
(* The network loop of client c, and the callbacks it runs. *)

netUnchanged == UNCHANGED <<pc, client, reconnecting, waited, since_check,
                            stop_age, looping, stopping>>

(* on_connect, accepted.  client.subscribe may send its packet, answer an  *)
(* error code, or raise: then `connected` is taken back.                   *)
SubscribeOutcomes == {"sent", "failed", "raised"}

OnConnect(c, subscribe) ==
    /\ c \in looping /\ session[c] = "connecting"
    /\ session' = [session EXCEPT ![c] = "up"]
    /\ connected' = (subscribe # "raised")
    /\ subscribed' = (subscribe = "sent")
    /\ suback' = IF subscribe = "sent" THEN suback \cup {c} ELSE suback
    /\ reconnect_delay' = InitialDelay
    /\ silence' = 0
    /\ consecutive_empty_checks' = 0
    /\ IF subscribe = "sent" THEN UNCHANGED faults ELSE Fault
    /\ netUnchanged /\ UNCHANGED connack_age

(* on_connect with a failure code: paho then treats the connection as lost. *)
OnConnectRefused(c) ==
    /\ c \in looping /\ session[c] = "connecting"
    /\ Fault
    /\ session' = [session EXCEPT ![c] = "lost"]
    /\ Down
    /\ netUnchanged
    /\ UNCHANGED <<reconnect_delay, consecutive_empty_checks, silence, connack_age, suback>>

(* The socket dies; paho notices and will run on_disconnect. *)
ConnectionLost(c) ==
    /\ c \in looping /\ session[c] \in {"connecting", "up"}
    /\ Fault
    /\ session' = [session EXCEPT ![c] = "lost"]
    /\ suback' = suback \ {c}
    /\ netUnchanged
    /\ UNCHANGED <<flags, reconnect_delay, consecutive_empty_checks, silence, connack_age>>

OnDisconnect_KeepsFlags(c) ==                          \* mutant
    /\ c \in looping /\ session[c] = "lost"
    /\ session' = [session EXCEPT ![c] = "redial"]
    /\ netUnchanged
    /\ UNCHANGED <<flags, reconnect_delay, faults, consecutive_empty_checks, silence,
                   connack_age, suback>>

(* on_disconnect(rc # 0) *)
OnDisconnect(c) ==
    /\ c \in looping /\ session[c] = "lost"
    /\ session' = [session EXCEPT ![c] = "redial"]
    /\ Down
    /\ reconnect_delay' = InitialDelay
    /\ netUnchanged
    /\ UNCHANGED <<faults, consecutive_empty_checks, silence,
                   connack_age, suback>>

(* paho's own redial *)
Redial(c) ==
    /\ c \in looping /\ session[c] = "redial"
    /\ session' = [session EXCEPT ![c] = "connecting"]
    /\ connack_age' = 0
    /\ netUnchanged
    /\ UNCHANGED <<flags, reconnect_delay, faults, consecutive_empty_checks, silence, suback>>

(* on_connect_fail: paho's redial failed. *)
OnConnectFail(c) ==
    /\ c \in looping /\ session[c] = "redial"
    /\ Fault
    /\ Down
    /\ netUnchanged
    /\ UNCHANGED <<reconnect_delay, consecutive_empty_checks, silence, connack_age,
                   session, suback>>

OnSubscribe(c, ok) ==
    /\ c \in looping \cap suback /\ session[c] = "up"
    /\ suback' = suback \ {c}
    /\ subscribed' = ok
    /\ silence' = IF ok THEN 0 ELSE silence
    /\ IF ok THEN UNCHANGED faults ELSE Fault
    /\ netUnchanged
    /\ UNCHANGED <<connected, reconnect_delay, consecutive_empty_checks, connack_age, session>>

(* on_message, as far as the connection is concerned *)
OnMessage(c) ==
    /\ c \in looping /\ session[c] = "up"
    /\ silence' = 0
    /\ netUnchanged
    /\ UNCHANGED <<flags, reconnect_delay, faults, consecutive_empty_checks, connack_age,
                   session, suback>>

-----------------------------------------------------------------------------
(* stop(), called by the signal handler *)

StopFlag ==
    /\ stopper = "none"
    /\ mqtt_thread_stop' = TRUE
    /\ stopper' = "test"
    /\ UNCHANGED <<pc, client, flags, reconnecting, reconnect_delay,
                   consecutive_empty_checks, timers, network, faults>>

(* if self.client: ... *)
StopTest ==
    /\ stopper = "test"
    /\ stopper' = IF client = NoClient THEN "done" ELSE "loop_stop"
    /\ UNCHANGED <<pc, client, flags, reconnecting, reconnect_delay, mqtt_thread_stop,
                   consecutive_empty_checks, timers, network, faults>>

(* self.client may have become None: the AttributeError is caught. *)
StopLoop ==
    /\ stopper = "loop_stop"
    /\ stopper' = "disconnect"
    /\ IF client = NoClient THEN UNCHANGED looping ELSE JoinLoop(client)
    /\ UNCHANGED <<pc, client, flags, reconnecting, reconnect_delay, mqtt_thread_stop,
                   consecutive_empty_checks, timers, session, suback, faults>>

StopDisconnect ==
    /\ stopper = "disconnect"
    /\ stopper' = "done"
    /\ IF client = NoClient THEN UNCHANGED <<flags, network>>
                          ELSE DisconnectClient(client)
    /\ UNCHANGED <<pc, client, reconnecting, reconnect_delay, mqtt_thread_stop,
                   consecutive_empty_checks, timers, faults>>

-----------------------------------------------------------------------------
(* No test and no property tells silences above this one apart. *)
SilenceCap == MessageTimeout + EmptyPeriod + 3 * CheckInterval + DialTime + 3

Unanswered == \E c \in looping : session[c] = "connecting"

(* How long a call at pc may block: loop_stop() behind one read of the     *)
(* network loop and a redial, the sleeps of half a second, connect().      *)
LongestCall ==
    CASE pc = "teardown" /\ client \in looping -> DialTime + 1
      [] pc \in {"disconnect", "settle"}        -> 1
      [] pc = "dial"                            -> DialTime
      [] OTHER                                  -> 0

(* Time passes while the thread sleeps or is in a call that blocks, and    *)
(* not over an answer that is due.                                         *)
Tick ==
    /\ pc \in {"sleep", "second"} \/ waited < LongestCall
    /\ Unanswered => connack_age < ConnackLatency
    /\ pc' = CASE pc = "sleep" -> "run" [] pc = "second" -> "wait" [] OTHER -> pc
    /\ waited' = IF pc = "sleep" THEN waited ELSE waited + 1
    /\ silence' = IF connected THEN Lesser(silence + 1, SilenceCap) ELSE 0
    /\ since_check' = Lesser(since_check + 1, CheckInterval)
    /\ connack_age' = IF Unanswered THEN connack_age + 1 ELSE 0
    /\ stop_age' = IF mqtt_thread_stop THEN stop_age + 1 ELSE stop_age
    /\ UNCHANGED <<client, flags, reconnecting, reconnect_delay, consecutive_empty_checks,
                   network, stopping, faults>>

(* The constructor calls _connect before the thread is started. *)
ConnectionInit ==
    /\ pc = "connect"
    /\ client = NoClient
    /\ connected = FALSE /\ subscribed = FALSE /\ reconnecting = FALSE
    /\ reconnect_delay = InitialDelay
    /\ consecutive_empty_checks = 0
    /\ waited = 0 /\ silence = 0 /\ since_check = CheckInterval
    /\ looping = {} /\ session = [c \in Clients |-> "closed"] /\ suback = {}
    /\ connack_age = 0
    /\ mqtt_thread_stop = FALSE /\ stopper = "none"
    /\ faults = 0
    /\ stop_age = 0

Thread ==
    \/ Run \/ CheckNotDue \/ CheckDead \/ CheckSilent \/ CheckHealthy
    \/ ReconnectEnter \/ Teardown \/ Disconnect \/ Reset \/ WaitSecond \/ WaitOver
    \/ (\E c \in Clients : NewClient(c)) \/ DialSucceeds \/ DialFails
    \/ LoopStart \/ Settled

Network(c) ==
    \/ \E subscribe \in SubscribeOutcomes : OnConnect(c, subscribe)
    \/ \E ok \in BOOLEAN : OnSubscribe(c, ok)
    \/ OnConnectRefused(c) \/ ConnectionLost(c) \/ OnDisconnect(c)
    \/ Redial(c) \/ OnConnectFail(c) \/ OnMessage(c)

Stop == StopFlag \/ StopTest \/ StopLoop \/ StopDisconnect

ConnectionNext == Thread \/ (\E c \in Clients : Network(c)) \/ Stop \/ Tick

ConnectionSpec == ConnectionInit /\ [][ConnectionNext]_connectionVars

(* The operating system runs the thread and the network loops, time passes, *)
(* and the broker answers every CONNECT.  No message has to arrive, no      *)
(* signal has to be sent.                                                   *)
ConnectionFairness ==
    /\ WF_connectionVars(Thread)
    /\ WF_connectionVars(Tick)
    /\ \A c \in Clients :
        /\ WF_connectionVars(OnConnect(c, "sent"))
        /\ WF_connectionVars(OnDisconnect(c))

FairConnectionSpec == ConnectionSpec /\ ConnectionFairness

-----------------------------------------------------------------------------
(* Properties *)

(* However teardowns, redials and stop() interleave, at most one network   *)
(* loop feeds the queues, and it is the one of self.client: messages are   *)
(* neither delivered twice nor by a client nobody can stop.                *)
OneNetworkLoop == \A c \in looping : c = client

(* The flags the health check trusts are not stale: outside a teardown,    *)
(* `connected` is set only while the current client's socket is up or its  *)
(* loss is being reported.                                                 *)
ConnectedIsCurrent ==
    connected /\ pc \notin ReconnectPoints =>
        client # NoClient /\ session[client] \in {"up", "lost"}

(* A connection that has gone quiet is replaced: none the thread believes  *)
(* in is silent for longer than the period and three checks, plus the time *)
(* its own teardown blocks.                                                *)
TeardownTime == IF pc \in {"teardown", "disconnect"} THEN DialTime + 2 ELSE 0

SilenceBounded ==
    connected /\ ~mqtt_thread_stop =>
        silence <= EmptyPeriod + 3 * CheckInterval + TeardownTime

(* After stop() the thread ends within one dial and three seconds, from    *)
(* wherever it is: also in a long backoff, in connect() to a broker that   *)
(* does not answer, and behind a network loop that redials such a broker.  *)
StopIsPrompt == stop_age <= DialTime + 3

(* Class docstring, "automatic reconnection": once the faults are over,    *)
(* the thread is connected and subscribed again and again, unless stopped. *)
ConnectionRecovers == []<>((connected /\ subscribed) \/ mqtt_thread_stop)

(* What the code keeps of it: a broker that from some time on answers a    *)
(* CONNECT within the second gets its subscriber back.                     *)
PromptBrokerRecovers == <>[](connack_age = 0) => ConnectionRecovers

=============================================================================
