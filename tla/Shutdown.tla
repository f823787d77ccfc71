------------------------------ MODULE Shutdown ------------------------------
(***************************************************************************)
(* Start and end of `haminfo wx-mqtt-ingest`: the main thread builds and   *)
(* starts the worker threads and joins them, each worker takes itself off  *)
(* the registry MyThreadList when it ends, and a signal makes the main     *)
(* thread run signal_handler on top of whatever it was doing.  A second    *)
(* signal interrupts the first handler in the same way, so the main thread *)
(* is a stack of frames of which only the last one runs, and the           *)
(* registry's lock, a plain threading.Lock, belongs to a frame: frame 0 is *)
(* the program and frame k the handler of the k-th nested signal.          *)
(*                                                                         *)
(* A worker takes and drops the lock in one step: nothing interrupts it.   *)
(***************************************************************************)
EXTENDS Integers, Sequences, FiniteSets, SequencesExt

CONSTANTS
    BuildOrder,    \* the workers in the order of their construction
    MqttThread, KeepAlive,
    MaxSignals     \* bound on the signals sent

Workers == Range(BuildOrder)

ASSUME WorkerAssumption ==
    /\ BuildOrder \in Seq(Workers) /\ IsInjective(BuildOrder)
    /\ BuildOrder # <<>> /\ Last(BuildOrder) = KeepAlive
    /\ MqttThread \in Workers \ {KeepAlive}
    /\ MaxSignals \in Nat

(* KeepAlive is built last and started first. *)
StartOrder == <<KeepAlive>> \o Front(BuildOrder)

VARIABLES
    main,          \* program point of wx_mqtt_ingest
    done_count,    \* how many threads the current phase has dealt with
    handlers,      \* the signal_handler frames, outermost first
    lock,          \* owner of MyThreadList.lock: a frame number, or Free
    threads_list,  \* MyThreadList.threads_list
    state,         \* life of each worker
    thread_stop,   \* MyThread.thread_stop
    signals        \* signals sent so far

vars == <<main, done_count, handlers, lock, threads_list, state, thread_stop, signals>>

Free == -1
Phases == <<"construct", "adding", "start", "join_mqtt", "stop_others",
            "join_others", "stop_keepalive", "join_keepalive", "returned">>

Starting == main \in {"construct", "adding", "start"}

Top == Len(handlers)
Handler == handlers[Top]

-----------------------------------------------------------------------------
(* wx_mqtt_ingest, frame 0 *)

Program(from, to) == handlers = <<>> /\ main = from /\ main' = to

(* MyThread.__init__: add, inside the lock *)
AddAcquire ==
    /\ Program("construct", "adding")
    /\ done_count < Len(BuildOrder)
    /\ lock = Free /\ lock' = 0
    /\ UNCHANGED <<done_count, handlers, threads_list, state, thread_stop, signals>>

AddRelease ==
    LET w == BuildOrder[done_count + 1] IN
    /\ Program("adding", "construct")
    /\ threads_list' = Append(threads_list, w)
    /\ state' = [state EXCEPT ![w] = "new"]
    /\ lock' = Free
    /\ done_count' = done_count + 1
    /\ UNCHANGED <<handlers, thread_stop, signals>>

AllBuilt ==
    /\ Program("construct", "start")
    /\ done_count = Len(BuildOrder)
    /\ done_count' = 0
    /\ UNCHANGED <<handlers, lock, threads_list, state, thread_stop, signals>>

StartNext ==
    /\ done_count < Len(StartOrder)
    /\ Program("start", IF done_count + 1 = Len(StartOrder) THEN "join_mqtt" ELSE "start")
    /\ state' = [state EXCEPT ![StartOrder[done_count + 1]] = "running"]
    /\ done_count' = done_count + 1
    /\ UNCHANGED <<handlers, lock, threads_list, thread_stop, signals>>

JoinMqtt ==
    /\ Program("join_mqtt", "stop_others")
    /\ state[MqttThread] = "gone"
    /\ UNCHANGED <<done_count, handlers, lock, threads_list, state, thread_stop, signals>>

StopOthers_OnlyFirst ==                                \* mutant
    /\ Program("stop_others", "join_others")
    /\ thread_stop' = [thread_stop EXCEPT ![BuildOrder[1]] = TRUE]
    /\ UNCHANGED <<done_count, handlers, lock, threads_list, state, signals>>

(* the processors and the weather processor *)
StopOthers ==
    /\ Program("stop_others", "join_others")
    /\ thread_stop' = [w \in Workers |-> thread_stop[w] \/ w \notin {MqttThread, KeepAlive}]
    /\ UNCHANGED <<done_count, handlers, lock, threads_list, state, signals>>

(* join(timeout=5) returns whether or not the thread has ended *)
JoinOthers ==
    /\ Program("join_others", "stop_keepalive")
    /\ UNCHANGED <<done_count, handlers, lock, threads_list, state, thread_stop, signals>>

StopKeepAlive ==
    /\ Program("stop_keepalive", "join_keepalive")
    /\ thread_stop' = [thread_stop EXCEPT ![KeepAlive] = TRUE]
    /\ UNCHANGED <<done_count, handlers, lock, threads_list, state, signals>>

JoinKeepAlive ==
    /\ Program("join_keepalive", "returned")
    /\ state[KeepAlive] = "gone"
    /\ UNCHANGED <<done_count, handlers, lock, threads_list, state, thread_stop, signals>>

-----------------------------------------------------------------------------
(* signal_handler and MyThreadList.stop_all, frame Top *)

(* A signal reaches the main thread as long as the program has not returned. *)
Signal ==
    /\ signals < MaxSignals
    /\ main # "returned"
    /\ signals' = signals + 1
    /\ handlers' = Append(handlers, [at |-> "acquire", next |-> 1])
    /\ UNCHANGED <<main, done_count, lock, threads_list, state, thread_stop>>

HandlerMoves(h) == handlers' = [handlers EXCEPT ![Top] = h]

StopAllAcquire ==
    /\ Top > 0 /\ Handler.at = "acquire"
    /\ lock = Free /\ lock' = Top
    /\ HandlerMoves([at |-> "walk", next |-> 1])
    /\ UNCHANGED <<main, done_count, threads_list, state, thread_stop, signals>>

(* for th in self.threads_list: th.stop() *)
StopAllStep ==
    /\ Top > 0 /\ Handler.at = "walk"
    /\ Handler.next <= Len(threads_list)
    /\ thread_stop' = [thread_stop EXCEPT ![threads_list[Handler.next]] = TRUE]
    /\ HandlerMoves([Handler EXCEPT !.next = @ + 1])
    /\ UNCHANGED <<main, done_count, lock, threads_list, state, signals>>

StopAllRelease_KeepsLock ==                            \* mutant
    /\ Top > 0 /\ Handler.at = "walk"
    /\ Handler.next > Len(threads_list)
    /\ HandlerMoves([Handler EXCEPT !.at = "sleep"])
    /\ UNCHANGED <<main, done_count, lock, threads_list, state, thread_stop, signals>>

StopAllRelease ==
    /\ Top > 0 /\ Handler.at = "walk"
    /\ Handler.next > Len(threads_list)
    /\ lock' = Free
    /\ HandlerMoves([Handler EXCEPT !.at = "sleep"])
    /\ UNCHANGED <<main, done_count, threads_list, state, thread_stop, signals>>

HandlerReturns ==
    /\ Top > 0 /\ Handler.at = "sleep"
    /\ handlers' = Front(handlers)
    /\ UNCHANGED <<main, done_count, lock, threads_list, state, thread_stop, signals>>

-----------------------------------------------------------------------------
(* MyThread.run of worker w *)

(* The while loop ends, by stop() or by an exception loop() let through. *)
Leave(w) ==
    /\ state[w] = "running"
    /\ thread_stop[w]
    /\ state' = [state EXCEPT ![w] = "leaving"]
    /\ UNCHANGED <<main, done_count, handlers, lock, threads_list, thread_stop, signals>>

Crash_SkipsFinally(w) ==                               \* mutant
    /\ state[w] = "running"
    /\ state' = [state EXCEPT ![w] = "gone"]
    /\ UNCHANGED <<main, done_count, handlers, lock, threads_list, thread_stop, signals>>

Crash(w) ==
    /\ state[w] = "running"
    /\ state' = [state EXCEPT ![w] = "leaving"]
    /\ UNCHANGED <<main, done_count, handlers, lock, threads_list, thread_stop, signals>>

Unregister_Unlocked(w) ==                                  \* mutant
    /\ state[w] = "leaving"
    /\ threads_list' = RemoveFirst(threads_list, w)
    /\ state' = [state EXCEPT ![w] = "gone"]
    /\ UNCHANGED <<main, done_count, handlers, lock, thread_stop, signals>>

(* finally: MyThreadList().remove(self) *)
Unregister(w) ==
    /\ state[w] = "leaving"
    /\ lock = Free
    /\ threads_list' = RemoveFirst(threads_list, w)
    /\ state' = [state EXCEPT ![w] = "gone"]
    /\ UNCHANGED <<main, done_count, handlers, lock, thread_stop, signals>>

-----------------------------------------------------------------------------
Init ==
    /\ main = "construct" /\ done_count = 0
    /\ handlers = <<>> /\ lock = Free /\ threads_list = <<>>
    /\ state = [w \in Workers |-> "unbuilt"]
    /\ thread_stop = [w \in Workers |-> FALSE]
    /\ signals = 0

MainThread ==
    \/ AddAcquire \/ AddRelease \/ AllBuilt \/ StartNext
    \/ JoinMqtt \/ StopOthers \/ JoinOthers \/ StopKeepAlive \/ JoinKeepAlive
    \/ StopAllAcquire \/ StopAllStep \/ StopAllRelease \/ HandlerReturns

Worker(w) == Leave(w) \/ Unregister(w)

Next == MainThread \/ Signal \/ \E w \in Workers : Worker(w) \/ Crash(w)

Spec == Init /\ [][Next]_vars

(* Every thread is scheduled.  Nobody has to send a signal or to crash. *)
Fairness == WF_vars(MainThread) /\ \A w \in Workers : WF_vars(Worker(w))
FairSpec == Spec /\ Fairness

-----------------------------------------------------------------------------
(* Properties *)

(* The registry holds each worker that is built and not gone, once: a      *)
(* worker that crashed is not asked to stop, one that lives is.            *)
RegistryExact ==
    /\ IsInjective(threads_list)
    /\ Range(threads_list) = {w \in Workers : state[w] \in {"new", "running", "leaving"}}

(* Workers leave the registry while a handler walks it, and yet the walk   *)
(* of stop_all skips none: when it is over every registered worker has     *)
(* been told to stop.                                                      *)
WalkSkipsNobody ==
    Top > 0 /\ Handler.at = "sleep" =>
        \A w \in Range(threads_list) : thread_stop[w]

Ended == main = "returned" /\ \A w \in Workers : state[w] = "gone"

(* What the code keeps of it: a signal that comes when every thread has    *)
(* been started, and is not followed by another one, ends the program and  *)
(* all its threads, whatever crashes meanwhile.                            *)
LoneSignalEndsAll ==
    handlers # <<>> /\ signals = 1 /\ ~Starting ~> Ended \/ signals > 1

(* Also without a signal: when MQTTThread dies of an exception, the        *)
(* program stops the other threads and ends rather than idle on.           *)
MqttDeathEndsAll ==
    main = "join_mqtt" /\ state[MqttThread] = "gone" ~> Ended \/ signals > 1

=============================================================================
