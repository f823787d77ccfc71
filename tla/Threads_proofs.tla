----------------------------- MODULE Threads_proofs -------------------------
(***************************************************************************)
(* Proofs about the threads of the ingest process, for every list of       *)
(* workers, number of client objects, interval, limit and bound on faults. *)
(*                                                                         *)
(* The thread registry (Shutdown).  Whether it is exact, and whether a walk *)
(* of stop_all misses somebody, hangs on who has the lock: LockInv says    *)
(* which frame of the main thread does.  While a handler walks nobody      *)
(* changes the list, so that whatever is before its position has been told *)
(* to stop: WalkInv.                                                       *)
(*                                                                         *)
(* The MQTT connection (MqttConnection).  ConnectionInv says who may hold  *)
(* what at which point of _reconnect: a client is dialled only after its   *)
(* predecessor is gone and before a network loop runs, and from Reset to   *)
(* LoopStart nothing can set `connected`.  SilenceInv counts: a check that *)
(* finds the connection silent moves one interval from since_check to      *)
(* consecutive_empty_checks.                                               *)
(*                                                                         *)
(* The health report (KeepAlive).  The program point and the counter of    *)
(* KeepAliveThread say how long ago it gathered and dumped (SinceGather,   *)
(* SinceDump); ReportInv says how long a trouble may have lasted that the  *)
(* data, and the file, do not show, and CleanInv from when on they show a  *)
(* program in which all is well.                                           *)
(***************************************************************************)
EXTENDS Shutdown, MqttConnection, KeepAlive, SequenceLemmas

-----------------------------------------------------------------------------
(* The thread registry *)

Frames == [at : {"acquire", "walk", "sleep"}, next : Nat]
Lives  == {"unbuilt", "new", "running", "leaving", "gone"}

RegistryTypes ==
    /\ done_count \in 0 .. Len(BuildOrder)
    /\ handlers \in Seq(Frames) /\ lock \in Int
    /\ threads_list \in Seq(Workers)
    /\ state \in [Workers -> Lives]
    /\ thread_stop \in [Workers -> BOOLEAN]

(* A frame has the lock exactly while it adds or walks. *)
LockInv ==
    /\ lock = Free \/ lock \in 0 .. Len(handlers)
    /\ lock = 0 <=> main = "adding"
    /\ \A k \in 1 .. Len(handlers) : lock = k <=> handlers[k].at = "walk"

(* What the walks of the nested handlers have told to stop. *)
WalkInv ==
    \A k \in 1 .. Len(handlers) : \A i \in 1 .. Len(threads_list) :
        \/ handlers[k].at = "sleep"
        \/ handlers[k].at = "walk" /\ i < handlers[k].next
        => thread_stop[threads_list[i]]

(* Construction and start deal with the workers in their order. *)
ProgressInv ==
    /\ main \in {"construct", "adding"} =>
          \A i \in 1 .. Len(BuildOrder) :
              state[BuildOrder[i]] = IF i <= done_count THEN "new" ELSE "unbuilt"
    /\ main = "adding" => done_count < Len(BuildOrder)
    /\ main = "start" =>
          \A i \in 1 .. Len(StartOrder) : done_count < i => state[StartOrder[i]] = "new"

RegistryInv == RegistryTypes /\ LockInv /\ WalkInv /\ ProgressInv /\ RegistryExact

-----------------------------------------------------------------------------
(* list.remove takes one element out of a list without duplicates. *)
LEMMA RemoveFacts ==
    ASSUME NEW S, NEW s \in Seq(S), IsInjective(s), NEW e \in Range(s)
    PROVE  /\ RemoveFirst(s, e) \in Seq(S)
           /\ IsInjective(RemoveFirst(s, e))
           /\ Range(RemoveFirst(s, e)) = Range(s) \ {e}
<1>1. PICK j \in 1 .. Len(s) : s[j] = e  BY DEF Range
<1>2. Len(s) \in Nat /\ DOMAIN s = 1 .. Len(s) /\ \A i \in 1 .. Len(s) : s[i] \in S
  OBVIOUS
<1>3. {i \in 1 .. Len(s) : s[i] = e} = {j}  BY <1>1, <1>2 DEF IsInjective
<1>4. Min({j}) = j  BY <1>1 DEF Min
<1> DEFINE r == RemoveFirst(s, e)
           p == SubSeq(s, 1, j - 1)
           q == SubSeq(s, j + 1, Len(s))
<1>5. r = p \o q
  BY <1>1, <1>3, <1>4 DEF RemoveFirst, RemoveAt, SelectInSeq
<1>6. p \in Seq(S) /\ Len(p) = j - 1 /\ \A i \in 1 .. j - 1 : p[i] = s[i]
  <2>1. 1 \in 1 .. Len(s) + 1 /\ j - 1 \in 1 - 1 .. Len(s)  BY <1>1, <1>2
  <2>2. /\ p \in Seq(S) /\ Len(p) = (j - 1) - 1 + 1
        /\ \A i \in 1 .. (j - 1) - 1 + 1 : p[i] = s[1 + i - 1]
    BY <2>1, PartFacts
  <2>3. QED BY <2>2, <1>1, <1>2
<1>7. q \in Seq(S) /\ Len(q) = Len(s) - j /\ \A i \in 1 .. Len(s) - j : q[i] = s[j + i]
  <2>1. j + 1 \in 1 .. Len(s) + 1 /\ Len(s) \in (j + 1) - 1 .. Len(s)  BY <1>1, <1>2
  <2>2. /\ q \in Seq(S) /\ Len(q) = Len(s) - (j + 1) + 1
        /\ \A i \in 1 .. Len(s) - (j + 1) + 1 : q[i] = s[(j + 1) + i - 1]
    BY <2>1, PartFacts
  <2> HIDE DEF q
  <2>3. QED BY <2>2, <1>1, <1>2
<1> HIDE DEF p, q
<1>8. /\ r \in Seq(S) /\ Len(r) = Len(s) - 1 /\ DOMAIN r = 1 .. Len(s) - 1
      /\ \A i \in 1 .. Len(s) - 1 : r[i] = IF i < j THEN s[i] ELSE s[i + 1]
  <2> HIDE DEF r
  <2>1. /\ r \in Seq(S) /\ Len(r) = Len(p) + Len(q)
        /\ \A i \in 1 .. Len(p) + Len(q) :
              r[i] = IF i <= Len(p) THEN p[i] ELSE q[i - Len(p)]
    BY <1>5, <1>6, <1>7, ConcatProperties
  <2>2. Len(r) = Len(s) - 1 /\ DOMAIN r = 1 .. Len(s) - 1
    BY <2>1, <1>1, <1>2, <1>6, <1>7
  <2>3. \A i \in 1 .. Len(s) - 1 : r[i] = IF i <= j - 1 THEN p[i] ELSE q[i - (j - 1)]
    <3>1. Len(p) + Len(q) = Len(s) - 1  BY <1>1, <1>2, <1>6, <1>7
    <3>2. Len(p) = j - 1  BY <1>6
    <3>3. QED BY ONLY <2>1, <3>1, <3>2
  <2>4. ASSUME NEW i \in 1 .. Len(s) - 1 PROVE r[i] = IF i < j THEN s[i] ELSE s[i + 1]
    <3>1. CASE i < j
      <4>1. i \in 1 .. j - 1 /\ i <= j - 1  BY <3>1, <1>1, <1>2
      <4>2. QED BY <4>1, <2>3, <1>6, <3>1
    <3>2. CASE i >= j
      <4>1. i - (j - 1) \in 1 .. Len(s) - j /\ ~ (i <= j - 1) /\ j + (i - (j - 1)) = i + 1
        BY <3>2, <1>1, <1>2
      <4>2. q[i - (j - 1)] = s[i + 1]  BY <4>1, <1>7
      <4>3. r[i] = q[i - (j - 1)]  BY <4>1, <2>3
      <4>4. QED BY <4>2, <4>3, <3>2, <1>1, <1>2
    <3>3. QED BY <3>1, <3>2, <1>1, <1>2
  <2>5. QED BY <2>1, <2>2, <2>4
<1> HIDE DEF r
<1>9. IsInjective(r)
  <2> DEFINE from(i) == IF i < j THEN i ELSE i + 1
  <2>1. \A i \in 1 .. Len(s) - 1 : from(i) \in 1 .. Len(s) /\ r[i] = s[from(i)]
    BY <1>1, <1>2, <1>8
  <2>2. \A i, k \in 1 .. Len(s) : s[i] = s[k] => i = k  BY <1>2 DEF IsInjective
  <2>3. \A i, k \in 1 .. Len(s) - 1 : from(i) = from(k) => i = k  BY <1>1, <1>2
  <2> HIDE DEF from
  <2>4. \A i, k \in 1 .. Len(s) - 1 : r[i] = r[k] => i = k  BY <2>1, <2>2, <2>3
  <2>5. QED BY <1>8, <2>4 DEF IsInjective
<1>10. Range(r) = Range(s) \ {e}
  <2>1. ASSUME NEW i \in 1 .. Len(s) - 1 PROVE r[i] \in Range(s) \ {e}
    <3>1. PICK k \in 1 .. Len(s) : k # j /\ r[i] = s[k]
      <4>1. CASE i < j  BY <4>1, <1>1, <1>2, <1>8
      <4>2. CASE i >= j  BY <4>2, <1>1, <1>2, <1>8
      <4>3. QED BY <4>1, <4>2, <1>1, <1>2
    <3>2. s[k] # s[j]  BY <3>1, <1>1, <1>2 DEF IsInjective
    <3>3. QED BY <3>1, <3>2, <1>1, <1>2 DEF Range
  <2>2. ASSUME NEW i \in 1 .. Len(s), i # j PROVE s[i] \in Range(r)
    <3>1. CASE i < j  BY <3>1, <1>1, <1>2, <1>8 DEF Range
    <3>2. CASE i > j
      <4>1. i - 1 \in DOMAIN r /\ r[i - 1] = s[i]  BY <3>2, <1>1, <1>2, <1>8
      <4>2. QED BY <4>1 DEF Range
    <3>3. QED BY <2>2, <3>1, <3>2, <1>1, <1>2
  <2>3. ASSUME NEW x \in Range(r) PROVE x \in Range(s) \ {e}
    <3>1. PICK i \in 1 .. Len(s) - 1 : x = r[i]  BY <1>8 DEF Range
    <3>2. QED BY <2>1, <3>1
  <2>4. ASSUME NEW x \in Range(s) \ {e} PROVE x \in Range(r)
    <3>1. PICK i \in 1 .. Len(s) : x = s[i]  BY <1>2 DEF Range
    <3>2. QED BY <2>2, <3>1, <1>1
  <2>5. QED BY <2>3, <2>4
<1>11. QED BY <1>8, <1>9, <1>10 DEF r

(* Front takes the last element off. *)
LEMMA FrontFacts ==
    ASSUME NEW S, NEW s \in Seq(S), s # <<>>
    PROVE  /\ Front(s) \in Seq(S) /\ Len(Front(s)) = Len(s) - 1
           /\ \A i \in 1 .. Len(s) - 1 : Front(s)[i] = s[i]
<1>1. Len(s) \in Nat \ {0}  OBVIOUS
<1>2. 1 \in 1 .. Len(s) + 1 /\ Len(s) - 1 \in 1 - 1 .. Len(s)  BY <1>1
<1>3. /\ Front(s) \in Seq(S) /\ Len(Front(s)) = (Len(s) - 1) - 1 + 1
      /\ \A i \in 1 .. (Len(s) - 1) - 1 + 1 : Front(s)[i] = s[1 + i - 1]
  BY <1>2, PartFacts DEF Front
<1>4. QED BY <1>1, <1>3

(* Both orders name every worker once. *)
LEMMA OrderFacts ==
    /\ Len(BuildOrder) \in Nat \ {0}
    /\ \A i \in 1 .. Len(BuildOrder) : BuildOrder[i] \in Workers
    /\ \A i, j \in 1 .. Len(BuildOrder) : BuildOrder[i] = BuildOrder[j] => i = j
    /\ \A w \in Workers : \E i \in 1 .. Len(BuildOrder) : BuildOrder[i] = w
    /\ Len(StartOrder) = Len(BuildOrder)
    /\ \A i \in 1 .. Len(StartOrder) : StartOrder[i] \in Workers
    /\ \A i, j \in 1 .. Len(StartOrder) : StartOrder[i] = StartOrder[j] => i = j
    /\ MqttThread \in Workers /\ KeepAlive \in Workers
<1>1. /\ Len(BuildOrder) \in Nat \ {0} /\ DOMAIN BuildOrder = 1 .. Len(BuildOrder)
      /\ \A i \in 1 .. Len(BuildOrder) : BuildOrder[i] \in Workers
      /\ \A i, j \in 1 .. Len(BuildOrder) : BuildOrder[i] = BuildOrder[j] => i = j
      /\ \A w \in Workers : \E i \in 1 .. Len(BuildOrder) : BuildOrder[i] = w
  BY WorkerAssumption DEF IsInjective, Workers, Range
<1>2. KeepAlive = BuildOrder[Len(BuildOrder)]  BY WorkerAssumption DEF Last
<1>3. KeepAlive \in Workers /\ MqttThread \in Workers  BY <1>1, <1>2, WorkerAssumption
<1>4. /\ Front(BuildOrder) \in Seq(Workers) /\ Len(Front(BuildOrder)) = Len(BuildOrder) - 1
      /\ \A i \in 1 .. Len(BuildOrder) - 1 : Front(BuildOrder)[i] = BuildOrder[i]
  BY WorkerAssumption, FrontFacts
<1>5. <<KeepAlive>> \in Seq(Workers) /\ Len(<<KeepAlive>>) = 1 /\ <<KeepAlive>>[1] = KeepAlive
  BY <1>3
<1> DEFINE first == <<KeepAlive>>
           rest  == Front(BuildOrder)
<1>6. StartOrder = first \o rest  BY DEF StartOrder
<1> HIDE DEF first, rest
<1>7. Len(StartOrder) = Len(BuildOrder)
  <2>1. Len(first \o rest) = Len(first) + Len(rest)  BY <1>4, <1>5, ConcatProperties DEF first, rest
  <2>2. Len(first) = 1 /\ Len(rest) = Len(BuildOrder) - 1  BY <1>4, <1>5 DEF first, rest
  <2>3. QED BY <2>1, <2>2, <1>1, <1>6
<1>8. \A i \in 1 .. Len(BuildOrder) :
          StartOrder[i] = IF i = 1 THEN KeepAlive ELSE BuildOrder[i - 1]
  <2>1. \A i \in 1 .. Len(first) + Len(rest) :
            StartOrder[i] = IF i <= Len(first) THEN first[i] ELSE rest[i - Len(first)]
    BY <1>4, <1>5, <1>6, ConcatProperties DEF first, rest
  <2>2. Len(first) = 1 /\ Len(first) + Len(rest) = Len(BuildOrder) /\ first[1] = KeepAlive
    BY <1>1, <1>4, <1>5 DEF first, rest
  <2>3. \A i \in 1 .. Len(BuildOrder) - 1 : rest[i] = BuildOrder[i]
    BY <1>4 DEF rest
  <2>4. QED BY <2>1, <2>2, <2>3, <1>1
<1>9. \A i \in 1 .. Len(StartOrder) : StartOrder[i] \in Workers
  BY <1>1, <1>3, <1>7, <1>8
<1>10. ASSUME NEW i \in 1 .. Len(StartOrder), NEW j \in 1 .. Len(StartOrder),
              StartOrder[i] = StartOrder[j]
       PROVE  i = j
  <2> DEFINE n == Len(BuildOrder)
             place(k) == IF k = 1 THEN n ELSE k - 1
  <2>1. \A k \in 1 .. n : place(k) \in 1 .. n /\ StartOrder[k] = BuildOrder[place(k)]
    BY <1>1, <1>2, <1>8
  <2>2. place(i) = place(j)
    <3>1. i \in 1 .. n /\ j \in 1 .. n  BY <1>7
    <3>2. BuildOrder[place(i)] = BuildOrder[place(j)]  BY <2>1, <3>1, <1>10
    <3>3. \A k, l \in 1 .. n : BuildOrder[k] = BuildOrder[l] => k = l  BY <1>1
    <3>4. QED BY <2>1, <3>1, <3>2, <3>3
  <2>3. QED BY <2>2, <1>1, <1>7
<1>11. QED BY <1>1, <1>3, <1>7, <1>9, <1>10

(* What replacing the last frame by another one does to the stack. *)
LEMMA FrameFacts ==
    ASSUME handlers \in Seq(Frames), Top > 0, NEW h \in Frames, HandlerMoves(h)
    PROVE  /\ handlers' \in Seq(Frames) /\ Len(handlers') = Len(handlers)
           /\ Top \in 1 .. Len(handlers) /\ handlers'[Top] = h
           /\ \A k \in 1 .. Len(handlers) : k # Top => handlers'[k] = handlers[k]
<1>1. Len(handlers) \in Nat /\ Top \in 1 .. Len(handlers)  BY DEF Top
<1>2. handlers' = [handlers EXCEPT ![Top] = h]  BY DEF HandlerMoves
<1> HIDE DEF Top
<1>3. /\ [handlers EXCEPT ![Top] = h] \in Seq(Frames)
      /\ Len([handlers EXCEPT ![Top] = h]) = Len(handlers)
      /\ \A k \in 1 .. Len(handlers) :
            [handlers EXCEPT ![Top] = h][k] = IF k = Top THEN h ELSE handlers[k]
  BY <1>1, ExceptSeq
<1>4. QED BY <1>1, <1>2, <1>3

-----------------------------------------------------------------------------
LEMMA InitRegistryInv == Init => RegistryInv
<1> SUFFICES ASSUME Init PROVE RegistryInv  OBVIOUS
<1>1. threads_list = <<>> /\ handlers = <<>> /\ Len(threads_list) = 0 /\ Len(handlers) = 0
  BY DEF Init
<1>2. RegistryTypes  BY <1>1, OrderFacts DEF Init, RegistryTypes, Free, Lives
<1>3. LockInv  BY <1>1 DEF Init, LockInv, Free
<1>4. WalkInv  BY <1>1 DEF WalkInv
<1>5. ProgressInv  BY OrderFacts DEF Init, ProgressInv
<1>6. RegistryExact
  <2>1. Range(threads_list) = {} /\ IsInjective(threads_list)
    BY <1>1, <1>2, RangeFacts DEF RegistryTypes
  <2>2. QED BY <2>1 DEF Init, RegistryExact
<1>7. QED BY <1>2, <1>3, <1>4, <1>5, <1>6 DEF RegistryInv

(* The constructor of a worker that was not built yet puts it on the list. *)
LEMMA AddReleaseKeepsInv == RegistryInv /\ AddRelease => RegistryInv'
<1> SUFFICES ASSUME RegistryInv, AddRelease PROVE RegistryInv'  OBVIOUS
<1> DEFINE w == BuildOrder[done_count + 1]
<1> USE DEF RegistryInv
<1>1. /\ handlers = <<>> /\ handlers' = <<>> /\ Len(handlers) = 0 /\ Len(handlers') = 0
      /\ main = "adding" /\ main' = "construct" /\ lock' = Free
      /\ done_count \in Nat /\ done_count < Len(BuildOrder) /\ done_count' = done_count + 1
      /\ w \in Workers /\ state[w] = "unbuilt"
      /\ threads_list' = Append(threads_list, w)
      /\ state' = [state EXCEPT ![w] = "new"] /\ thread_stop' = thread_stop
  BY OrderFacts DEF AddRelease, Program, ProgressInv, RegistryTypes
<1>2. w \notin Range(threads_list)  BY <1>1 DEF RegistryExact
<1>3. /\ threads_list' \in Seq(Workers) /\ IsInjective(threads_list')
      /\ Range(threads_list') = Range(threads_list) \cup {w}
  BY <1>1, <1>2, AppendFacts DEF RegistryTypes, RegistryExact
<1>4. RegistryTypes'  BY <1>1, <1>3, OrderFacts DEF RegistryTypes, Lives, Free
<1>5. LockInv'  BY <1>1 DEF LockInv, Free
<1>6. WalkInv'  BY <1>1 DEF WalkInv
<1>7. ProgressInv'
  <2> SUFFICES ASSUME NEW i \in 1 .. Len(BuildOrder)
               PROVE  state'[BuildOrder[i]] = IF i <= done_count' THEN "new" ELSE "unbuilt"
    BY <1>1 DEF ProgressInv
  <2>1. BuildOrder[i] = w <=> i = done_count + 1  BY <1>1, OrderFacts
  <2>2. BuildOrder[i] \in Workers  BY OrderFacts
  <2>3. state[BuildOrder[i]] = IF i <= done_count THEN "new" ELSE "unbuilt"
    BY <1>1 DEF ProgressInv
  <2>4. QED BY <1>1, <2>1, <2>2, <2>3 DEF RegistryTypes
<1>8. RegistryExact'  BY <1>1, <1>3 DEF RegistryExact, RegistryTypes
<1>9. QED BY <1>4, <1>5, <1>6, <1>7, <1>8

(* The other steps of the program leave the registry as it is. *)
LEMMA StartNextKeepsInv == RegistryInv /\ StartNext => RegistryInv'
<1> SUFFICES ASSUME RegistryInv, StartNext PROVE RegistryInv'  OBVIOUS
<1> DEFINE w == StartOrder[done_count + 1]
<1> USE DEF RegistryInv
<1>1. /\ handlers = <<>> /\ handlers' = <<>> /\ Len(handlers) = 0 /\ Len(handlers') = 0
      /\ main = "start" /\ main' \in {"start", "join_mqtt"} /\ lock' = lock
      /\ done_count \in Nat /\ done_count < Len(BuildOrder) /\ done_count' = done_count + 1
      /\ w \in Workers /\ state[w] = "new"
      /\ threads_list' = threads_list
      /\ state' = [state EXCEPT ![w] = "running"] /\ thread_stop' = thread_stop
  <2>1. done_count \in Nat /\ done_count + 1 \in 1 .. Len(StartOrder)
    BY OrderFacts DEF StartNext, RegistryTypes
  <2>2. QED BY <2>1, OrderFacts DEF StartNext, Program, ProgressInv
<1>2. RegistryTypes'  BY <1>1, OrderFacts DEF RegistryTypes, Lives
<1>3. LockInv'  BY <1>1 DEF LockInv, Free
<1>4. WalkInv'  BY <1>1 DEF WalkInv
<1>5. ProgressInv'
  <2> SUFFICES ASSUME NEW i \in 1 .. Len(StartOrder), done_count + 1 < i
               PROVE  state'[StartOrder[i]] = "new"
    BY <1>1 DEF ProgressInv
  <2>1. StartOrder[i] # w /\ StartOrder[i] \in Workers  BY <1>1, OrderFacts
  <2>2. state[StartOrder[i]] = "new"  BY <1>1, OrderFacts DEF ProgressInv
  <2>3. QED BY <1>1, <2>1, <2>2 DEF RegistryTypes
<1>6. RegistryExact'  BY <1>1 DEF RegistryExact, RegistryTypes
<1>7. QED BY <1>2, <1>3, <1>4, <1>5, <1>6

LEMMA ProgramKeepsInv ==
    /\ RegistryInv
    /\ \/ AddAcquire \/ AllBuilt
       \/ JoinMqtt \/ StopOthers \/ JoinOthers \/ StopKeepAlive \/ JoinKeepAlive
    => RegistryInv'
<1> SUFFICES ASSUME RegistryInv,
                    \/ AddAcquire \/ AllBuilt
                    \/ JoinMqtt \/ StopOthers \/ JoinOthers \/ StopKeepAlive \/ JoinKeepAlive
             PROVE  RegistryInv'
  OBVIOUS
<1>1. CASE AddAcquire
  <2> USE DEF RegistryInv
  <2>1. handlers = <<>> /\ handlers' = <<>> /\ Len(handlers) = 0 /\ Len(handlers') = 0
    BY <1>1 DEF AddAcquire, Program
  <2>2. RegistryTypes' /\ RegistryExact'  BY <1>1 DEF AddAcquire, RegistryTypes, RegistryExact
  <2>3. LockInv' /\ WalkInv'
    BY <1>1, <2>1 DEF AddAcquire, Program, LockInv, WalkInv, Free
  <2>4. ProgressInv'  BY <1>1, <2>1 DEF AddAcquire, Program, ProgressInv
  <2>5. QED BY <2>2, <2>3, <2>4
<1>2. CASE AllBuilt
  <2> USE DEF RegistryInv
  <2>1. handlers = <<>> /\ handlers' = <<>> /\ Len(handlers) = 0 /\ Len(handlers') = 0
    BY <1>2 DEF AllBuilt, Program
  <2>2. RegistryTypes' /\ RegistryExact'
    BY <1>2, OrderFacts DEF AllBuilt, RegistryTypes, RegistryExact
  <2>3. LockInv' /\ WalkInv'
    BY <1>2, <2>1 DEF AllBuilt, Program, LockInv, WalkInv, Free
  <2>4. \A w \in Workers : state[w] = "new"
    BY <1>2, OrderFacts DEF AllBuilt, Program, ProgressInv
  <2>5. ProgressInv'
    BY <1>2, <2>1, <2>4, OrderFacts DEF AllBuilt, Program, ProgressInv
  <2>6. QED BY <2>2, <2>3, <2>5
<1>3. CASE JoinMqtt \/ StopOthers \/ JoinOthers \/ StopKeepAlive \/ JoinKeepAlive
  <2> USE DEF RegistryInv
  <2>1. /\ handlers = <<>> /\ handlers' = <<>> /\ Len(handlers) = 0 /\ Len(handlers') = 0
        /\ main \notin {"construct", "adding", "start"}
        /\ main' \notin {"construct", "adding", "start"}
        /\ UNCHANGED <<done_count, lock, threads_list, state>>
        /\ thread_stop' \in [Workers -> BOOLEAN]
    <3>1. [thread_stop EXCEPT ![KeepAlive] = TRUE] \in [Workers -> BOOLEAN]
      BY <1>3 DEF RegistryTypes
    <3>2. [w \in Workers |-> thread_stop[w] \/ w \notin {MqttThread, KeepAlive}]
            \in [Workers -> BOOLEAN]
      BY <1>3 DEF RegistryTypes
    <3>3. thread_stop' \in [Workers -> BOOLEAN]
      BY <1>3, <3>1, <3>2
         DEF JoinMqtt, StopOthers, JoinOthers, StopKeepAlive, JoinKeepAlive, RegistryTypes
    <3>4. QED BY <1>3, <3>3
          DEF Program, JoinMqtt, StopOthers, JoinOthers, StopKeepAlive, JoinKeepAlive
  <2>2. RegistryTypes' /\ RegistryExact'  BY <1>3, <2>1 DEF RegistryTypes, RegistryExact
  <2>3. LockInv' /\ WalkInv' /\ ProgressInv'
    BY <1>3, <2>1 DEF LockInv, WalkInv, ProgressInv
  <2>4. QED BY <2>2, <2>3
<1>4. QED BY <1>1, <1>2, <1>3

(* A signal pushes a frame that has not asked for the lock yet. *)
LEMMA SignalKeepsInv == RegistryInv /\ Signal => RegistryInv'
<1> SUFFICES ASSUME RegistryInv, Signal PROVE RegistryInv'  OBVIOUS
<1> DEFINE h == [at |-> "acquire", next |-> 1]
<1> USE DEF RegistryInv
<1>1. UNCHANGED <<main, done_count, lock, threads_list, state, thread_stop>>
  BY DEF Signal
<1>2. /\ handlers \in Seq(Frames) /\ Len(handlers) \in Nat
      /\ handlers' = Append(handlers, h) /\ h \in Frames
  BY DEF Signal, RegistryTypes, Frames
<1>3. /\ handlers' \in Seq(Frames) /\ Len(handlers') = Len(handlers) + 1
      /\ \A k \in 1 .. Len(handlers) : handlers'[k] = handlers[k]
      /\ handlers'[Len(handlers) + 1] = h
  BY <1>2
<1>4. RegistryTypes' /\ RegistryExact' /\ ProgressInv'
  BY <1>1, <1>3 DEF RegistryTypes, RegistryExact, ProgressInv
<1>5. ASSUME NEW k \in 1 .. Len(handlers') PROVE k \in 1 .. Len(handlers) \/ handlers'[k] = h
  BY <1>2, <1>3
<1>6. LockInv'  BY <1>1, <1>2, <1>3, <1>5 DEF LockInv, Free
<1>7. WalkInv'  BY <1>1, <1>2, <1>3, <1>5 DEF WalkInv
<1>8. QED BY <1>4, <1>6, <1>7

(* The frame that runs takes the lock, walks the list and drops the lock. *)
LEMMA StopAllKeepsInv ==
    RegistryInv /\ (StopAllAcquire \/ StopAllStep \/ StopAllRelease) => RegistryInv'
<1> SUFFICES ASSUME RegistryInv, StopAllAcquire \/ StopAllStep \/ StopAllRelease
             PROVE  RegistryInv'
  OBVIOUS
<1>1. CASE StopAllAcquire
  <2> USE DEF RegistryInv
  <2> DEFINE h == [at |-> "walk", next |-> 1]
  <2>1. /\ UNCHANGED <<main, done_count, threads_list, state, thread_stop>>
        /\ lock = Free /\ lock' = Top /\ Handler.at = "acquire"
        /\ h \in Frames /\ HandlerMoves(h) /\ Top > 0 /\ handlers \in Seq(Frames)
    BY <1>1 DEF StopAllAcquire, RegistryTypes, Frames
  <2>2. /\ handlers' \in Seq(Frames) /\ Len(handlers') = Len(handlers)
        /\ Top \in 1 .. Len(handlers) /\ handlers'[Top] = h
        /\ \A k \in 1 .. Len(handlers) : k # Top => handlers'[k] = handlers[k]
    BY <2>1, FrameFacts
  <2>3. RegistryTypes' /\ RegistryExact' /\ ProgressInv'
    BY <1>1, <2>1, <2>2 DEF RegistryTypes, RegistryExact, ProgressInv
  <2>4. LockInv'  BY <1>1, <2>1, <2>2 DEF LockInv, Free
  <2>5. WalkInv'  BY <1>1, <2>1, <2>2 DEF WalkInv, RegistryTypes
  <2>6. QED BY <2>3, <2>4, <2>5
<1>2. CASE StopAllStep
  <2> USE DEF RegistryInv
  <2> DEFINE h == [Handler EXCEPT !.next = @ + 1]
  <2>1. /\ UNCHANGED <<main, done_count, lock, threads_list, state>>
        /\ Handler.at = "walk" /\ Handler.next <= Len(threads_list)
        /\ thread_stop' = [thread_stop EXCEPT ![threads_list[Handler.next]] = TRUE]
        /\ HandlerMoves(h) /\ Top > 0 /\ handlers \in Seq(Frames)
        /\ threads_list \in Seq(Workers)
    BY <1>2 DEF StopAllStep, RegistryTypes
  <2>2. Handler \in Frames /\ h \in Frames /\ h.at = "walk" /\ h.next = Handler.next + 1
    <3>1. Handler \in Frames  BY <2>1, ElementOfSeq DEF Handler, Top
    <3>2. ASSUME NEW f \in Frames
          PROVE  /\ [f EXCEPT !.next = @ + 1] \in Frames
                 /\ [f EXCEPT !.next = @ + 1].at = f.at
                 /\ [f EXCEPT !.next = @ + 1].next = f.next + 1
      BY DEF Frames
    <3>3. QED BY <3>1, <3>2, <2>1
  <2>3. /\ handlers' \in Seq(Frames) /\ Len(handlers') = Len(handlers)
        /\ Top \in 1 .. Len(handlers) /\ handlers'[Top] = h
        /\ \A k \in 1 .. Len(handlers) : k # Top => handlers'[k] = handlers[k]
    BY <2>1, <2>2, FrameFacts
  <2>4. RegistryTypes' /\ RegistryExact' /\ ProgressInv'
    <3>1. thread_stop' \in [Workers -> BOOLEAN]  BY <2>1 DEF RegistryTypes
    <3>2. QED BY <2>1, <2>3, <3>1 DEF RegistryTypes, RegistryExact, ProgressInv
  <2>5. LockInv'  BY <2>1, <2>2, <2>3 DEF LockInv, Free, Handler
  <2>6. ASSUME NEW i \in 1 .. Len(threads_list), thread_stop[threads_list[i]] \/ i = Handler.next
        PROVE  thread_stop'[threads_list[i]]
    BY <1>2, <2>1, <2>6 DEF RegistryTypes
  <2>7. WalkInv'
    <3> SUFFICES ASSUME NEW k \in 1 .. Len(handlers), NEW i \in 1 .. Len(threads_list),
                        \/ handlers'[k].at = "sleep"
                        \/ handlers'[k].at = "walk" /\ i < handlers'[k].next
                 PROVE  thread_stop'[threads_list[i]]
      BY <2>1, <2>3 DEF WalkInv
    <3>1. CASE k # Top  BY <3>1, <1>2, <2>3, <2>6 DEF WalkInv
    <3>2. CASE k = Top
      <4>1. i < Handler.next \/ i = Handler.next  BY <3>2, <2>2, <2>3 DEF Frames
      <4>2. QED BY <4>1, <1>2, <2>1, <2>3, <2>6 DEF WalkInv, Handler
    <3>3. QED BY <3>1, <3>2
  <2>8. QED BY <2>4, <2>5, <2>7
<1>3. CASE StopAllRelease
  <2> USE DEF RegistryInv
  <2> DEFINE h == [Handler EXCEPT !.at = "sleep"]
  <2>1. /\ UNCHANGED <<main, done_count, threads_list, state, thread_stop>>
        /\ lock' = Free /\ Handler.at = "walk" /\ Handler.next > Len(threads_list)
        /\ HandlerMoves(h) /\ Top > 0 /\ handlers \in Seq(Frames)
        /\ threads_list \in Seq(Workers)
    BY <1>3 DEF StopAllRelease, RegistryTypes
  <2>2. Handler \in Frames /\ h \in Frames /\ h.at = "sleep"
    <3>1. Handler \in Frames  BY <2>1, ElementOfSeq DEF Handler, Top
    <3>2. QED BY <3>1 DEF Frames
  <2>3. /\ handlers' \in Seq(Frames) /\ Len(handlers') = Len(handlers)
        /\ Top \in 1 .. Len(handlers) /\ handlers'[Top] = h
        /\ \A k \in 1 .. Len(handlers) : k # Top => handlers'[k] = handlers[k]
    BY <2>1, <2>2, FrameFacts
  <2>4. RegistryTypes' /\ RegistryExact' /\ ProgressInv'
    BY <1>3, <2>1, <2>3 DEF RegistryTypes, RegistryExact, ProgressInv, Free
  <2>5. LockInv'
    <3>1. lock = Top  BY <1>3, <2>1, <2>3 DEF LockInv, Handler
    <3>2. main # "adding" /\ lock' # 0 /\ \A k \in 1 .. Len(handlers) : lock' # k
      BY <3>1, <2>1, <2>3 DEF LockInv, Free
    <3>3. \A k \in 1 .. Len(handlers) : handlers'[k].at # "walk"
      <4>1. ASSUME NEW k \in 1 .. Len(handlers), k # Top PROVE handlers[k].at # "walk"
        BY <4>1, <3>1 DEF LockInv
      <4>2. QED BY <4>1, <2>2, <2>3
    <3>4. QED BY <3>2, <3>3, <2>1, <2>3 DEF LockInv
  <2>6. WalkInv'
    <3>1. \A i \in 1 .. Len(threads_list) : i < Handler.next  BY <2>1, <2>2 DEF Frames
    <3>2. \A i \in 1 .. Len(threads_list) : thread_stop[threads_list[i]]
      BY <3>1, <1>3, <2>1, <2>3 DEF WalkInv, Handler
    <3>3. QED BY <3>2, <2>1, <2>3 DEF WalkInv
  <2>7. QED BY <2>4, <2>5, <2>6
<1>4. QED BY <1>1, <1>2, <1>3

(* The handler that returns has dropped the lock before. *)
LEMMA HandlerReturnsKeepsInv == RegistryInv /\ HandlerReturns => RegistryInv'
<1> SUFFICES ASSUME RegistryInv, HandlerReturns PROVE RegistryInv'  OBVIOUS
<1> USE DEF RegistryInv
<1>1. /\ UNCHANGED <<main, done_count, lock, threads_list, state, thread_stop>>
      /\ handlers \in Seq(Frames) /\ Len(handlers) \in Nat \ {0} /\ handlers # <<>>
      /\ handlers[Len(handlers)].at = "sleep" /\ handlers' = Front(handlers)
  BY DEF HandlerReturns, RegistryTypes, Handler, Top
<1>2. /\ handlers' \in Seq(Frames) /\ Len(handlers') = Len(handlers) - 1
      /\ \A k \in 1 .. Len(handlers') : k \in 1 .. Len(handlers) /\ handlers'[k] = handlers[k]
  BY <1>1, FrontFacts
<1>3. RegistryTypes' /\ RegistryExact' /\ ProgressInv'
  BY <1>1, <1>2 DEF RegistryTypes, RegistryExact, ProgressInv
<1>4. LockInv'
  <2>1. lock # Len(handlers)  BY <1>1 DEF LockInv
  <2>2. lock = Free \/ lock \in 0 .. Len(handlers')  BY <2>1, <1>1, <1>2 DEF LockInv
  <2>3. QED BY <2>2, <1>1, <1>2 DEF LockInv, Free
<1>5. WalkInv'  BY <1>1, <1>2 DEF WalkInv
<1>6. QED BY <1>3, <1>4, <1>5

(* Only a worker that runs leaves its loop, and only one that has left it   *)
(* takes itself off the list, when no handler walks it.                     *)
LEMMA LeavingKeepsInv ==
    ASSUME RegistryInv, NEW w \in Workers, Leave(w) \/ Crash(w) PROVE RegistryInv'
<1> USE DEF RegistryInv
<1>1. /\ UNCHANGED <<main, done_count, handlers, lock, threads_list, thread_stop>>
      /\ state[w] = "running" /\ state' = [state EXCEPT ![w] = "leaving"]
  BY DEF Leave, Crash
<1>2. RegistryTypes' /\ RegistryExact'  BY <1>1 DEF RegistryTypes, RegistryExact, Lives
<1>3. LockInv' /\ WalkInv'  BY <1>1 DEF LockInv, WalkInv
<1>4. ProgressInv'
  <2>1. \A v \in Workers : v # w => state'[v] = state[v]  BY <1>1 DEF RegistryTypes
  <2>2. main \notin {"construct", "adding"}  BY <1>1, OrderFacts DEF ProgressInv
  <2>3. main = "start" =>
            \A i \in 1 .. Len(StartOrder) : done_count < i => state'[StartOrder[i]] = "new"
    BY <1>1, <2>1, OrderFacts DEF ProgressInv
  <2>4. QED BY <1>1, <2>2, <2>3 DEF ProgressInv
<1>5. QED BY <1>2, <1>3, <1>4

LEMMA UnregisterKeepsInv ==
    ASSUME RegistryInv, NEW w \in Workers, Unregister(w) PROVE RegistryInv'
<1> USE DEF RegistryInv
<1>1. /\ UNCHANGED <<main, done_count, handlers, lock, thread_stop>>
      /\ lock = Free /\ threads_list' = RemoveFirst(threads_list, w)
      /\ state[w] = "leaving" /\ state' = [state EXCEPT ![w] = "gone"]
  BY DEF Unregister
<1>2. /\ threads_list' \in Seq(Workers) /\ IsInjective(threads_list')
      /\ Range(threads_list') = Range(threads_list) \ {w}
  <2>1. w \in Range(threads_list)  BY <1>1 DEF RegistryExact
  <2>2. QED BY <2>1, <1>1, RemoveFacts DEF RegistryTypes, RegistryExact
<1>3. RegistryTypes'  BY <1>1, <1>2 DEF RegistryTypes, Lives
<1>4. RegistryExact'  BY <1>1, <1>2 DEF RegistryTypes, RegistryExact
<1>5. LockInv'  BY <1>1 DEF LockInv
<1>6. WalkInv'
  <2> SUFFICES ASSUME NEW k \in 1 .. Len(handlers), NEW i \in 1 .. Len(threads_list'),
                      handlers[k].at \in {"sleep", "walk"}
               PROVE  thread_stop[threads_list'[i]]
    BY <1>1 DEF WalkInv
  <2>1. lock # k  BY <1>1 DEF Free
  <2>2. handlers[k].at = "sleep"  BY <2>1 DEF LockInv
  <2>3. threads_list'[i] \in Range(threads_list)
    <3>1. threads_list'[i] \in Range(threads_list')  BY <1>2 DEF Range
    <3>2. QED BY <3>1, <1>2
  <2>4. PICK j \in 1 .. Len(threads_list) : threads_list[j] = threads_list'[i]
    BY <2>3 DEF Range, RegistryTypes
  <2>5. QED BY <2>2, <2>4 DEF WalkInv
<1>7. ProgressInv'
  <2>1. \A v \in Workers : v # w => state'[v] = state[v]  BY <1>1 DEF RegistryTypes
  <2>2. main \notin {"construct", "adding"}  BY <1>1, OrderFacts DEF ProgressInv
  <2>3. main = "start" =>
            \A i \in 1 .. Len(StartOrder) : done_count < i => state'[StartOrder[i]] = "new"
    BY <1>1, <2>1, OrderFacts DEF ProgressInv
  <2>4. QED BY <1>1, <2>2, <2>3 DEF ProgressInv
<1>8. QED BY <1>3, <1>4, <1>5, <1>6, <1>7

LEMMA RegistryInvInductive == RegistryInv /\ [Next]_vars => RegistryInv'
<1> SUFFICES ASSUME RegistryInv, [Next]_vars PROVE RegistryInv'  OBVIOUS
<1>1. CASE AddRelease      BY <1>1, AddReleaseKeepsInv
<1>2. CASE StartNext       BY <1>2, StartNextKeepsInv
<1>3. CASE \/ AddAcquire \/ AllBuilt
           \/ JoinMqtt \/ StopOthers \/ JoinOthers \/ StopKeepAlive \/ JoinKeepAlive
  BY <1>3, ProgramKeepsInv
<1>4. CASE Signal          BY <1>4, SignalKeepsInv
<1>5. CASE StopAllAcquire \/ StopAllStep \/ StopAllRelease  BY <1>5, StopAllKeepsInv
<1>6. CASE HandlerReturns  BY <1>6, HandlerReturnsKeepsInv
<1>7. ASSUME NEW w \in Workers, Worker(w) \/ Crash(w) PROVE RegistryInv'
  BY <1>7, LeavingKeepsInv, UnregisterKeepsInv DEF Worker
<1>8. CASE UNCHANGED vars
  BY <1>8 DEF vars, RegistryInv, RegistryTypes, LockInv, WalkInv, ProgressInv, RegistryExact
<1>9. QED BY <1>1, <1>2, <1>3, <1>4, <1>5, <1>6, <1>7, <1>8 DEF Next, MainThread

THEOREM RegistryInvariant == Spec => []RegistryInv
<1>1. QED BY InitRegistryInv, RegistryInvInductive, PTL DEF Spec

(* Whatever crashes and however signals nest, the registry is the list of   *)
(* the workers that are built and not gone, each of them once.              *)
THEOREM RegistryIsExact == Spec => []RegistryExact
<1>1. RegistryInv => RegistryExact  BY DEF RegistryInv
<1>2. QED BY <1>1, RegistryInvariant, PTL

(* A walk of stop_all leaves no registered worker that was not told to      *)
(* stop: workers that go while it walks move no other out of its way.       *)
THEOREM WalkReachesAll == Spec => []WalkSkipsNobody
<1>1. RegistryInv => WalkSkipsNobody
  <2> SUFFICES ASSUME RegistryInv, Top > 0, Handler.at = "sleep", NEW w \in Range(threads_list)
               PROVE  thread_stop[w]
    BY DEF WalkSkipsNobody
  <2>1. PICK i \in 1 .. Len(threads_list) : threads_list[i] = w
    BY DEF Range, RegistryInv, RegistryTypes
  <2>2. Len(handlers) \in 1 .. Len(handlers) /\ handlers[Len(handlers)].at = "sleep"
    BY DEF RegistryInv, RegistryTypes, Top, Handler
  <2>3. QED BY <2>1, <2>2 DEF RegistryInv, WalkInv
<1>2. QED BY <1>1, RegistryInvariant, PTL

-----------------------------------------------------------------------------
(* The MQTT connection *)

ConnectionTypes ==
    /\ pc \in ProgramPoints
    /\ client \in Clients \cup {NoClient}
    /\ connected \in BOOLEAN /\ mqtt_thread_stop \in BOOLEAN
    /\ looping \subseteq Clients
    /\ session \in [Clients -> Sessions]
    /\ consecutive_empty_checks \in Nat
    /\ waited \in Nat /\ stop_age \in Nat
    /\ silence \in Nat /\ since_check \in 0..CheckInterval

(* The points of _reconnect at which the old client is gone, those at which *)
(* no network loop has been started for the new one.                        *)
Cleared  == {"reset", "wait", "second", "connect"}
Unlooped == Cleared \cup {"dial", "start"}

ConnectionInv ==
    /\ looping \subseteq {client}
    /\ pc \in Cleared => client = NoClient
    /\ pc \in {"disconnect", "dial", "start"} => client # NoClient
    /\ pc \in Unlooped => looping = {}
    /\ pc \in Unlooped \ {"reset"} => ~connected
    /\ connected /\ pc # "reset" =>
          client # NoClient /\ session[client] \in {"up", "lost"}

(* No call outlasts the time it may block.                                 *)
CallInv ==
    /\ pc = "teardown" => waited <= DialTime + 1
    /\ pc \in {"disconnect", "settle"} => waited <= 1
    /\ pc = "dial" => waited <= DialTime
    /\ pc \in {"run", "check", "reconnect", "sleep", "connect", "start"} => waited = 0

(* The ticks a thread that was told to stop may still take.                *)
Remaining ==
    CASE pc = "teardown"                      -> (DialTime + 1 - waited) + 2
      [] pc = "disconnect"                    -> (1 - waited) + 1
      [] pc = "connect"                       -> DialTime + 2
      [] pc = "dial"                          -> (DialTime - waited) + 2
      [] pc = "settle"                        -> (1 - waited) + 1
      [] pc \in {"second", "start"}           -> 2
      [] pc \in {"run", "done"}               -> 0
      [] OTHER                                -> 1

StopInv ==
    /\ CallInv
    /\ IF mqtt_thread_stop THEN stop_age + Remaining <= DialTime + 3 ELSE stop_age = 0

(* What the checks that found the connection silent have already counted.  *)
Counted == CASE consecutive_empty_checks = 0 -> 0
             [] consecutive_empty_checks = 1 -> CheckInterval
             [] OTHER -> 2 * CheckInterval

Checked == {"run", "check", "sleep", "settle"}

(* After a reconnect that outlasted the check interval, the silence is that *)
(* of the new connection.                                                   *)
SilenceInv ==
    /\ ~reconnecting \/ pc \in ReconnectPoints
    /\ pc \in (Unlooped \ {"reset"}) \cup {"settle"} => consecutive_empty_checks = 0
    /\ pc \in Checked /\ ~mqtt_thread_stop => consecutive_empty_checks <= 2
    /\ connected /\ ~mqtt_thread_stop =>
          /\ pc \in Checked => silence <= EmptyPeriod + Counted + since_check
          /\ pc = "teardown" => silence <= EmptyPeriod + 3 * CheckInterval + waited
          /\ pc = "disconnect" =>
                silence <= EmptyPeriod + 3 * CheckInterval + DialTime + 1 + waited
          /\ silence <= EmptyPeriod + 3 * CheckInterval + TeardownTime
          /\ pc = "settle" => silence <= waited
          /\ pc = "sleep" /\ since_check = CheckInterval => silence <= 1

MqttInv == ConnectionTypes /\ ConnectionInv /\ StopInv /\ SilenceInv

-----------------------------------------------------------------------------
LEMMA InitMqtt == ConnectionInit => MqttInv
<1> SUFFICES ASSUME ConnectionInit PROVE MqttInv  OBVIOUS
<1> USE ClientAssumption, TimingAssumption DEF ConnectionInit
<1>1. ConnectionTypes
  <2>1. session \in [Clients -> Sessions]  BY DEF Sessions
  <2>2. connected \in BOOLEAN /\ mqtt_thread_stop \in BOOLEAN  BY Zenon
  <2>3. QED BY <2>1, <2>2 DEF ConnectionTypes, ProgramPoints, ReconnectPoints
<1>2. ConnectionInv  BY DEF ConnectionInv, Cleared, Unlooped
<1>3. StopInv  BY DEF StopInv, CallInv, Remaining
<1>4. SilenceInv  BY DEF SilenceInv, Counted, Checked, Unlooped, Cleared, ReconnectPoints
<1>5. QED BY <1>1, <1>2, <1>3, <1>4 DEF MqttInv

(* ConnectionTypes: one step per action. *)
LEMMA NextConnectionTypes ==
    ASSUME ConnectionTypes, ConnectionInv, [ConnectionNext]_connectionVars
    PROVE  ConnectionTypes'
<1> USE ClientAssumption, TimingAssumption DEF ConnectionTypes, ProgramPoints, ReconnectPoints, Sessions, Goto, Down, flags, timers, ages, network, stopping
<1>1. CASE Run  BY <1>1 DEF Run
<1>2. CASE CheckNotDue  BY <1>2 DEF CheckNotDue
<1>3. CASE CheckDead  BY <1>3 DEF CheckDead, CheckDue
<1>4. CASE CheckSilent  BY <1>4 DEF CheckSilent, CheckDue, LooksAlive, TooSilent, Patience
<1>5. CASE CheckHealthy  BY <1>5 DEF CheckHealthy, CheckDue, LooksAlive, TooSilent, Patience
<1>6. CASE ReconnectEnter  BY <1>6 DEF ReconnectEnter
<1>7. CASE Teardown  BY <1>7 DEF Teardown, JoinLoop
<1>8. CASE Disconnect  BY <1>8 DEF Disconnect, DisconnectClient
<1>9. CASE Reset  BY <1>9 DEF Reset
<1>10. CASE WaitSecond  BY <1>10 DEF WaitSecond
<1>11. CASE WaitOver  BY <1>11 DEF WaitOver, Waiting, EndReconnect, NextDelay, Lesser
<1>12. ASSUME NEW c \in Clients, NewClient(c)
      PROVE  ConnectionTypes'
  BY <1>12 DEF NewClient
<1>13. CASE DialSucceeds  BY <1>13 DEF DialSucceeds
<1>14. CASE DialFails  BY <1>14 DEF DialFails, EndReconnect, Fault
<1>15. CASE LoopStart  BY <1>15 DEF LoopStart, ConnectionInv
<1>16. CASE Settled  BY <1>16 DEF Settled, EndReconnect
<1>17. ASSUME NEW c \in Clients, NEW subscribe \in SubscribeOutcomes, OnConnect(c, subscribe)
      PROVE  ConnectionTypes'
  BY <1>17 DEF OnConnect, netUnchanged, Fault
<1>18. ASSUME NEW c \in Clients, NEW ok \in BOOLEAN, OnSubscribe(c, ok)
      PROVE  ConnectionTypes'
  BY <1>18 DEF OnSubscribe, netUnchanged, Fault
<1>19. ASSUME NEW c \in Clients, OnConnectRefused(c)
      PROVE  ConnectionTypes'
  BY <1>19 DEF OnConnectRefused, netUnchanged, Fault
<1>20. ASSUME NEW c \in Clients, ConnectionLost(c)
      PROVE  ConnectionTypes'
  BY <1>20 DEF ConnectionLost, netUnchanged, Fault
<1>21. ASSUME NEW c \in Clients, OnDisconnect(c)
      PROVE  ConnectionTypes'
  BY <1>21 DEF OnDisconnect, netUnchanged, Fault
<1>22. ASSUME NEW c \in Clients, Redial(c)
      PROVE  ConnectionTypes'
  BY <1>22 DEF Redial, netUnchanged, Fault
<1>23. ASSUME NEW c \in Clients, OnConnectFail(c)
      PROVE  ConnectionTypes'
  BY <1>23 DEF OnConnectFail, netUnchanged, Fault
<1>24. ASSUME NEW c \in Clients, OnMessage(c)
      PROVE  ConnectionTypes'
  BY <1>24 DEF OnMessage, netUnchanged, Fault
<1>25. CASE StopFlag  BY <1>25 DEF StopFlag
<1>26. CASE StopTest  BY <1>26 DEF StopTest
<1>27. CASE StopLoop  BY <1>27 DEF StopLoop, JoinLoop
<1>28. CASE StopDisconnect  BY <1>28 DEF StopDisconnect, DisconnectClient
<1>29. CASE Tick  BY <1>29 DEF Tick, LongestCall, Lesser, SilenceCap
<1>30. CASE UNCHANGED connectionVars  BY <1>30 DEF connectionVars
<1>31. QED
  BY <1>1, <1>2, <1>3, <1>4, <1>5, <1>6, <1>7, <1>8, <1>9, <1>10, <1>11, <1>12,
     <1>13, <1>14, <1>15, <1>16, <1>17, <1>18, <1>19, <1>20, <1>21, <1>22, <1>23, <1>24,
     <1>25, <1>26, <1>27, <1>28, <1>29, <1>30
  DEF ConnectionNext, Thread, Network, Stop

(* ConnectionInv: the client changes where no network loop runs.            *)
LEMMA NextConnection ==
    ASSUME ConnectionTypes, ConnectionInv, [ConnectionNext]_connectionVars
    PROVE  ConnectionInv'
<1> USE ClientAssumption, TimingAssumption DEF ConnectionTypes, ConnectionInv, Cleared, Unlooped, Goto, Down, flags, timers, ages, network, stopping
<1>1. CASE Run  BY <1>1 DEF Run
<1>2. CASE CheckNotDue  BY <1>2 DEF CheckNotDue
<1>3. CASE CheckDead  BY <1>3 DEF CheckDead, CheckDue
<1>4. CASE CheckSilent  BY <1>4 DEF CheckSilent, CheckDue, LooksAlive, TooSilent, Patience
<1>5. CASE CheckHealthy  BY <1>5 DEF CheckHealthy, CheckDue, LooksAlive, TooSilent, Patience
<1>6. CASE ReconnectEnter  BY <1>6 DEF ReconnectEnter
<1>7. CASE Teardown  BY <1>7 DEF Teardown, JoinLoop
<1>8. CASE Disconnect  BY <1>8 DEF Disconnect, DisconnectClient
<1>9. CASE Reset  BY <1>9 DEF Reset
<1>10. CASE WaitSecond  BY <1>10 DEF WaitSecond
<1>11. CASE WaitOver  BY <1>11 DEF WaitOver, Waiting, EndReconnect, NextDelay, Lesser
<1>12. ASSUME NEW c \in Clients, NewClient(c)
      PROVE  ConnectionInv'
  BY <1>12 DEF NewClient
<1>13. CASE DialSucceeds  BY <1>13 DEF DialSucceeds
<1>14. CASE DialFails  BY <1>14 DEF DialFails, EndReconnect, Fault
<1>15. CASE LoopStart  BY <1>15 DEF LoopStart
<1>16. CASE Settled  BY <1>16 DEF Settled, EndReconnect
<1>17. ASSUME NEW c \in Clients, NEW subscribe \in SubscribeOutcomes, OnConnect(c, subscribe)
      PROVE  ConnectionInv'
  BY <1>17 DEF OnConnect, netUnchanged, Fault
<1>18. ASSUME NEW c \in Clients, NEW ok \in BOOLEAN, OnSubscribe(c, ok)
      PROVE  ConnectionInv'
  BY <1>18 DEF OnSubscribe, netUnchanged, Fault
<1>19. ASSUME NEW c \in Clients, OnConnectRefused(c)
      PROVE  ConnectionInv'
  BY <1>19 DEF OnConnectRefused, netUnchanged, Fault
<1>20. ASSUME NEW c \in Clients, ConnectionLost(c)
      PROVE  ConnectionInv'
  BY <1>20 DEF ConnectionLost, netUnchanged, Fault
<1>21. ASSUME NEW c \in Clients, OnDisconnect(c)
      PROVE  ConnectionInv'
  BY <1>21 DEF OnDisconnect, netUnchanged, Fault
<1>22. ASSUME NEW c \in Clients, Redial(c)
      PROVE  ConnectionInv'
  BY <1>22 DEF Redial, netUnchanged, Fault
<1>23. ASSUME NEW c \in Clients, OnConnectFail(c)
      PROVE  ConnectionInv'
  BY <1>23 DEF OnConnectFail, netUnchanged, Fault
<1>24. ASSUME NEW c \in Clients, OnMessage(c)
      PROVE  ConnectionInv'
  BY <1>24 DEF OnMessage, netUnchanged, Fault
<1>25. CASE StopFlag  BY <1>25 DEF StopFlag
<1>26. CASE StopTest  BY <1>26 DEF StopTest
<1>27. CASE StopLoop  BY <1>27 DEF StopLoop, JoinLoop
<1>28. CASE StopDisconnect  BY <1>28 DEF StopDisconnect, DisconnectClient
<1>29. CASE Tick  BY <1>29 DEF Tick, LongestCall, Lesser, SilenceCap
<1>30. CASE UNCHANGED connectionVars  BY <1>30 DEF connectionVars
<1>31. QED
  BY <1>1, <1>2, <1>3, <1>4, <1>5, <1>6, <1>7, <1>8, <1>9, <1>10, <1>11, <1>12,
     <1>13, <1>14, <1>15, <1>16, <1>17, <1>18, <1>19, <1>20, <1>21, <1>22, <1>23, <1>24,
     <1>25, <1>26, <1>27, <1>28, <1>29, <1>30
  DEF ConnectionNext, Thread, Network, Stop

(* StopInv: each tick takes one of the ticks that remain, and no step of a  *)
(* thread that was told to stop adds to them.                               *)
LEMMA NextStop ==
    ASSUME ConnectionTypes, ConnectionInv, StopInv, [ConnectionNext]_connectionVars
    PROVE  StopInv'
<1> USE TimingAssumption DEF ConnectionTypes, StopInv, CallInv, Remaining, Goto, flags, timers, ages, stopping
<1>1. CASE Run  BY <1>1 DEF Run
<1>2. CASE CheckNotDue  BY <1>2 DEF CheckNotDue
<1>3. CASE CheckDead  BY <1>3 DEF CheckDead, CheckDue
<1>4. CASE CheckSilent  BY <1>4 DEF CheckSilent, CheckDue, LooksAlive, TooSilent, Patience
<1>5. CASE CheckHealthy  BY <1>5 DEF CheckHealthy, CheckDue, LooksAlive, TooSilent, Patience
<1>6. CASE ReconnectEnter  BY <1>6 DEF ReconnectEnter
<1>7. CASE Teardown  BY <1>7 DEF Teardown, JoinLoop
<1>8. CASE Disconnect  BY <1>8 DEF Disconnect, DisconnectClient
<1>9. CASE Reset  BY <1>9 DEF Reset
<1>10. CASE WaitSecond  BY <1>10 DEF WaitSecond, Waiting
<1>11. CASE WaitOver  BY <1>11 DEF WaitOver, Waiting, EndReconnect, NextDelay, Lesser
<1>12. ASSUME NEW c \in Clients, NewClient(c)
      PROVE  StopInv'
  BY <1>12 DEF NewClient
<1>13. CASE DialSucceeds  BY <1>13 DEF DialSucceeds
<1>14. CASE DialFails  BY <1>14 DEF DialFails, EndReconnect, Fault
<1>15. CASE LoopStart  BY <1>15 DEF LoopStart
<1>16. CASE Settled  BY <1>16 DEF Settled, EndReconnect
<1>17. ASSUME NEW c \in Clients, NEW subscribe \in SubscribeOutcomes, OnConnect(c, subscribe)
      PROVE  StopInv'
  BY <1>17 DEF OnConnect, netUnchanged, Fault
<1>18. ASSUME NEW c \in Clients, NEW ok \in BOOLEAN, OnSubscribe(c, ok)
      PROVE  StopInv'
  BY <1>18 DEF OnSubscribe, netUnchanged, Fault
<1>19. ASSUME NEW c \in Clients, OnConnectRefused(c)
      PROVE  StopInv'
  BY <1>19 DEF OnConnectRefused, netUnchanged, Fault
<1>20. ASSUME NEW c \in Clients, ConnectionLost(c)
      PROVE  StopInv'
  BY <1>20 DEF ConnectionLost, netUnchanged, Fault
<1>21. ASSUME NEW c \in Clients, OnDisconnect(c)
      PROVE  StopInv'
  BY <1>21 DEF OnDisconnect, netUnchanged, Fault
<1>22. ASSUME NEW c \in Clients, Redial(c)
      PROVE  StopInv'
  BY <1>22 DEF Redial, netUnchanged, Fault
<1>23. ASSUME NEW c \in Clients, OnConnectFail(c)
      PROVE  StopInv'
  BY <1>23 DEF OnConnectFail, netUnchanged, Fault
<1>24. ASSUME NEW c \in Clients, OnMessage(c)
      PROVE  StopInv'
  BY <1>24 DEF OnMessage, netUnchanged, Fault
<1>25. CASE StopFlag  BY <1>25 DEF StopFlag
<1>26. CASE StopTest  BY <1>26 DEF StopTest
<1>27. CASE StopLoop  BY <1>27 DEF StopLoop, JoinLoop
<1>28. CASE StopDisconnect  BY <1>28 DEF StopDisconnect, DisconnectClient
<1>29. CASE Tick  BY <1>29 DEF Tick, LongestCall, Lesser, SilenceCap
<1>30. CASE UNCHANGED connectionVars  BY <1>30 DEF connectionVars
<1>31. QED
  BY <1>1, <1>2, <1>3, <1>4, <1>5, <1>6, <1>7, <1>8, <1>9, <1>10, <1>11, <1>12,
     <1>13, <1>14, <1>15, <1>16, <1>17, <1>18, <1>19, <1>20, <1>21, <1>22, <1>23, <1>24,
     <1>25, <1>26, <1>27, <1>28, <1>29, <1>30
  DEF ConnectionNext, Thread, Network, Stop

(* SilenceInv: only a tick lets the silence grow, and since_check with it.  *)
LEMMA NextSilence ==
    ASSUME ConnectionTypes, ConnectionInv, StopInv, SilenceInv, [ConnectionNext]_connectionVars
    PROVE  SilenceInv'
<1> USE ClientAssumption, TimingAssumption DEF ConnectionTypes, ConnectionInv, SilenceInv, Counted, Checked, TeardownTime, Cleared, Unlooped, ReconnectPoints, Goto, Down, flags, timers, ages, network, stopping
<1>1. CASE Run  BY <1>1 DEF Run
<1>2. CASE CheckNotDue  BY <1>2 DEF CheckNotDue
<1>3. CASE CheckDead  BY <1>3 DEF CheckDead, CheckDue
<1>4. CASE CheckSilent  BY <1>4 DEF CheckSilent, CheckDue, LooksAlive, TooSilent, Patience
<1>5. CASE CheckHealthy  BY <1>5 DEF CheckHealthy, CheckDue, LooksAlive, TooSilent, Patience
<1>6. CASE ReconnectEnter  BY <1>6 DEF ReconnectEnter
<1>7. CASE Teardown  BY <1>7 DEF Teardown, JoinLoop, StopInv, CallInv
<1>8. CASE Disconnect  BY <1>8 DEF Disconnect, DisconnectClient
<1>9. CASE Reset  BY <1>9 DEF Reset
<1>10. CASE WaitSecond  BY <1>10 DEF WaitSecond
<1>11. CASE WaitOver  BY <1>11 DEF WaitOver, Waiting, EndReconnect, NextDelay, Lesser
<1>12. ASSUME NEW c \in Clients, NewClient(c)
      PROVE  SilenceInv'
  BY <1>12 DEF NewClient
<1>13. CASE DialSucceeds  BY <1>13 DEF DialSucceeds
<1>14. CASE DialFails  BY <1>14 DEF DialFails, EndReconnect, Fault
<1>15. CASE LoopStart  BY <1>15 DEF LoopStart
<1>16. CASE Settled  BY <1>16 DEF Settled, EndReconnect, StopInv, CallInv
<1>17. ASSUME NEW c \in Clients, NEW subscribe \in SubscribeOutcomes, OnConnect(c, subscribe)
      PROVE  SilenceInv'
  BY <1>17 DEF OnConnect, netUnchanged, Fault
<1>18. ASSUME NEW c \in Clients, NEW ok \in BOOLEAN, OnSubscribe(c, ok)
      PROVE  SilenceInv'
  BY <1>18 DEF OnSubscribe, netUnchanged, Fault
<1>19. ASSUME NEW c \in Clients, OnConnectRefused(c)
      PROVE  SilenceInv'
  BY <1>19 DEF OnConnectRefused, netUnchanged, Fault
<1>20. ASSUME NEW c \in Clients, ConnectionLost(c)
      PROVE  SilenceInv'
  BY <1>20 DEF ConnectionLost, netUnchanged, Fault
<1>21. ASSUME NEW c \in Clients, OnDisconnect(c)
      PROVE  SilenceInv'
  BY <1>21 DEF OnDisconnect, netUnchanged, Fault
<1>22. ASSUME NEW c \in Clients, Redial(c)
      PROVE  SilenceInv'
  BY <1>22 DEF Redial, netUnchanged, Fault
<1>23. ASSUME NEW c \in Clients, OnConnectFail(c)
      PROVE  SilenceInv'
  BY <1>23 DEF OnConnectFail, netUnchanged, Fault
<1>24. ASSUME NEW c \in Clients, OnMessage(c)
      PROVE  SilenceInv'
  BY <1>24 DEF OnMessage, netUnchanged, Fault
<1>25. CASE StopFlag  BY <1>25 DEF StopFlag
<1>26. CASE StopTest  BY <1>26 DEF StopTest
<1>27. CASE StopLoop  BY <1>27 DEF StopLoop, JoinLoop
<1>28. CASE StopDisconnect  BY <1>28 DEF StopDisconnect, DisconnectClient
<1>29. CASE Tick  BY <1>29 DEF Tick, LongestCall, Lesser, SilenceCap
<1>30. CASE UNCHANGED connectionVars  BY <1>30 DEF connectionVars
<1>31. QED
  BY <1>1, <1>2, <1>3, <1>4, <1>5, <1>6, <1>7, <1>8, <1>9, <1>10, <1>11, <1>12,
     <1>13, <1>14, <1>15, <1>16, <1>17, <1>18, <1>19, <1>20, <1>21, <1>22, <1>23, <1>24,
     <1>25, <1>26, <1>27, <1>28, <1>29, <1>30
  DEF ConnectionNext, Thread, Network, Stop

-----------------------------------------------------------------------------
(* The three parts hold together, whatever the three threads do.           *)
LEMMA ConnectionInvariant == ConnectionSpec => []MqttInv
<1>1. MqttInv /\ [ConnectionNext]_connectionVars => MqttInv'
  BY NextConnectionTypes, NextConnection, NextStop, NextSilence DEF MqttInv
<1>2. QED BY InitMqtt, <1>1, PTL DEF ConnectionSpec

(* At most one network loop delivers messages, and it is the loop of        *)
(* self.client, however _reconnect, paho's redials and stop() interleave.   *)
THEOREM OneLoopDelivers == ConnectionSpec => []OneNetworkLoop
<1>1. MqttInv => OneNetworkLoop  BY DEF MqttInv, ConnectionInv, OneNetworkLoop
<1>2. QED BY <1>1, ConnectionInvariant, PTL

(* Outside a teardown self.connected is only set while the socket of the    *)
(* current client is up or its on_disconnect is about to run.               *)
THEOREM FlagsAreCurrent == ConnectionSpec => []ConnectedIsCurrent
<1>1. MqttInv => ConnectedIsCurrent
  BY DEF MqttInv, ConnectionInv, ConnectedIsCurrent, ReconnectPoints
<1>2. QED BY <1>1, ConnectionInvariant, PTL

(* A connection the health check lets live has not been silent for longer   *)
(* than the empty period and three checks, plus what its teardown blocks,   *)
(* whatever MESSAGE_TIMEOUT is.                                             *)
THEOREM SilenceIsBounded == ConnectionSpec => []SilenceBounded
<1>1. MqttInv => SilenceBounded
  BY DEF MqttInv, SilenceInv, SilenceBounded
<1>2. QED BY <1>1, ConnectionInvariant, PTL

(* stop() ends the thread within one dial and three seconds, whatever the   *)
(* backoff is and whichever call it is blocked in.                          *)
THEOREM StopEndsThread == ConnectionSpec => []StopIsPrompt
<1>1. MqttInv => StopIsPrompt  BY TimingAssumption DEF MqttInv, ConnectionTypes, StopInv, CallInv, Remaining, StopIsPrompt
<1>2. QED BY <1>1, ConnectionInvariant, PTL

-----------------------------------------------------------------------------
(* The health report *)

KeeperPoints == {"loop", "open", "write", "sleep"}

HealthTypes ==
    /\ life \in [Threads -> {"new", "running", "gone"}]
    /\ life["keepalive"] # "new"
    /\ life["mqtt"] # "gone"
    /\ link \in {"down", "closed", "up"} /\ counted \in BOOLEAN
    /\ last_positive \in BOOLEAN /\ readable \in BOOLEAN
    /\ message_age \in Nat /\ idle \in Nat /\ file_age \in Nat /\ missed \in Nat
    /\ kpc \in KeeperPoints /\ cntr \in 0 .. Interval - 1
    /\ kpc \in {"open", "write"} => cntr = 0
    /\ zero_packet_intervals \in 0 .. ZeroLimit
    /\ watch \in Conditions
    /\ lasting \in Nat

(* Ticks since the last gathering, and since the last dump that did not    *)
(* fail, of a KeepAliveThread that lives.                                  *)
SinceGather ==
    IF kpc = "loop" THEN IF cntr = 0 THEN Interval ELSE cntr
    ELSE IF cntr = 0 THEN Interval - 1 ELSE cntr - 1

SinceDump ==
    CASE kpc = "loop" -> missed + cntr + 1
      [] kpc = "sleep" -> missed + cntr
      [] OTHER -> missed + Interval

(* A file that cannot be read is being written, or its last dump failed. *)
FileInv ==
    KeeperLives =>
        /\ file_age <= SinceDump
        /\ readable \/ kpc = "write" \/ missed > 0

(* A report that does not show the watched trouble, and how long it may    *)
(* have lasted when such a report was gathered.                            *)
Unaware(d) ==
    CASE watch = "outage"  -> d.threads["mqtt"] # "down"
      [] watch = "silence" -> ~d.mqtt.silent
      [] watch = "stall"   -> ~d.stalled
      [] OTHER             -> FALSE

Slack ==
    CASE watch = "silence" -> MessageAgeLimit
      [] watch = "stall"   -> ZeroLimit * Interval
      [] OTHER             -> 0

(* While nothing is counted, each gathering has counted one interval more. *)
CountInv ==
    /\ watch = "silence" /\ message_age <= MessageAgeLimit => lasting <= message_age
    /\ watch = "stall" /\ KeeperLives =>
          IF counted THEN lasting <= SinceGather
          ELSE zero_packet_intervals < ZeroLimit =>
                  lasting <= (zero_packet_intervals + 1) * Interval + SinceGather

ReportInv ==
    /\ KeeperLives /\ Unaware(data) => lasting <= Slack + SinceGather
    /\ readable /\ file_age <= FileAgeLimit /\ Unaware(file) =>
          lasting <= Slack + Interval - 1 + file_age

(* A report of a program in which all is well *)
Clean(d) ==
    /\ \A class \in Classes : d.threads[class] # "down"
    /\ d.mqtt.up /\ ~d.mqtt.silent
    /\ ~d.stalled

FlowInv ==
    /\ lasting > 0 => Holds
    /\ KeeperLives /\ last_positive /\ ~counted =>
          idle >= 2 \/ idle >= SinceGather

CleanInv ==
    watch = "fine" =>
        /\ lasting > SinceGather => Clean(data)
        /\ lasting > Interval - 1 + SinceDump => Clean(file)

HealthInv == HealthTypes /\ FileInv /\ CountInv /\ ReportInv /\ FlowInv /\ CleanInv

-----------------------------------------------------------------------------
(* The registry has a thread of every class. *)
LEMMA ClassFacts ==
    /\ {"weather", "mqtt", "keepalive"} \subseteq Threads
    /\ DOMAIN Registry \subseteq 0 .. Len(Processors) + 3 /\ Len(Processors) \in Nat
    /\ \A i \in DOMAIN Registry : Registry[i] \in Threads
    /\ \A class \in Classes \ {"PacketFlow"} :
          \E i \in DOMAIN Registry : ClassOf(Registry[i]) = class
<1> DEFINE n == Len(Processors)
<1>1. Processors \in Seq(Range(Processors)) /\ Processors # <<>>
  BY KeepAliveAssumption
<1>2. n \in Nat /\ n > 0 /\ DOMAIN Processors = 1 .. n  BY <1>1
<1>3. /\ DOMAIN Registry = 1 .. n + 3
      /\ Registry[n + 1] = "weather" /\ Registry[n + 2] = "mqtt" /\ Registry[n + 3] = "keepalive"
      /\ Registry[1] = Processors[1]
  <2> DEFINE S == Range(Processors) \cup {"weather", "mqtt", "keepalive"}
             last == <<"weather", "mqtt", "keepalive">>
  <2>1. Processors \in Seq(S) /\ last \in Seq(S) /\ Len(last) = 3
    <3>1. Seq(Range(Processors)) \subseteq Seq(S)  OBVIOUS
    <3>2. QED BY <3>1, <1>1
  <2>2. last[1] = "weather" /\ last[2] = "mqtt" /\ last[3] = "keepalive"  OBVIOUS
  <2> HIDE DEF S, last
  <2>3. /\ Len(Processors \o last) = n + 3
        /\ \A i \in 1 .. n + 3 : (Processors \o last)[i] =
              IF i <= n THEN Processors[i] ELSE last[i - n]
        /\ DOMAIN (Processors \o last) = 1 .. n + 3
    <3>1. /\ Processors \o last \in Seq(S)
          /\ Len(Processors \o last) = Len(Processors) + Len(last)
          /\ \A i \in 1 .. Len(Processors) + Len(last) : (Processors \o last)[i] =
                IF i <= Len(Processors) THEN Processors[i] ELSE last[i - Len(Processors)]
      BY <2>1, ConcatProperties
    <3>2. QED BY <2>1, <3>1
  <2>4. Registry = Processors \o last  BY DEF Registry, last
  <2>5. QED BY <2>2, <2>3, <2>4, <1>2
<1>4. \A i \in DOMAIN Registry : Registry[i] \in Threads  BY DEF Threads, Range
<1>5. {"weather", "mqtt", "keepalive"} \subseteq Threads  BY <1>2, <1>3, <1>4
<1>6. Processors[1] \in Range(Processors)  BY <1>2 DEF Range
<1>7. \A class \in Classes \ {"PacketFlow"} :
          \E i \in DOMAIN Registry : ClassOf(Registry[i]) = class
  <2>1. ClassOf(Registry[1]) = "APRSPacketProcessorThread"  BY <1>3, <1>6 DEF ClassOf
  <2>2. {"weather", "mqtt", "keepalive"} \cap Range(Processors) = {}  BY KeepAliveAssumption
  <2>3. /\ ClassOf(Registry[n + 1]) = "weather"
        /\ ClassOf(Registry[n + 2]) = "mqtt"
        /\ ClassOf(Registry[n + 3]) = "keepalive"
    BY <2>2, <1>3 DEF ClassOf
  <2>4. {1, n + 1, n + 2, n + 3} \subseteq DOMAIN Registry  BY <1>2, <1>3
  <2> HIDE DEF n
  <2>5. QED BY <2>1, <2>3, <2>4 DEF Classes
<1>8. QED BY <1>2, <1>3, <1>4, <1>5, <1>7

(* The counter of the turns goes round. *)
LEMMA TurnOver ==
    ASSUME NEW c \in 0 .. Interval - 1
    PROVE  (c + 1) % Interval = IF c + 1 = Interval THEN 0 ELSE c + 1
<1>1. Interval \in Nat /\ Interval >= 2  BY KeepAliveAssumption
<1>2. CASE c + 1 = Interval  BY <1>1, <1>2
<1>3. CASE c + 1 # Interval
  <2>1. c + 1 \in 0 .. Interval - 1  BY <1>1, <1>3
  <2>2. QED BY <1>1, <1>3, <2>1
<1>4. QED BY <1>2, <1>3

(* What a step does to the history. *)
LEMMA ObserveFacts ==
    ASSUME HealthTypes, NEW n \in {0, 1}, Observe(n)
    PROVE  /\ watch' = watch /\ lasting' \in Nat
           /\ lasting' <= lasting + n
           /\ lasting' > 0 => Holds'
<1>1. LastingCap[watch] \in Nat /\ lasting \in Nat  BY KeepAliveAssumption DEF HealthTypes
<1>2. watch' = watch /\ lasting' = IF Holds' THEN CutOff(lasting + n, LastingCap[watch]) ELSE 0
  BY DEF Observe
<1> HIDE DEF Holds
<1>3. QED BY <1>1, <1>2 DEF CutOff

(* What a step of the other threads, of the keeper and of time does to the *)
(* two ages.                                                               *)
LEMMA GatherTimes ==
    ASSUME HealthTypes, Gather
    PROVE  /\ SinceGather = Interval /\ SinceGather' = 0
           /\ SinceDump' = SinceDump /\ kpc' \in KeeperPoints
           /\ cntr' \in 0 .. Interval - 1 /\ (kpc' \in {"open", "write"} => cntr' = 0)
<1>1. Interval \in Nat /\ Interval >= 2  BY KeepAliveAssumption
<1>2. kpc = "loop" /\ cntr = 0 /\ cntr' = (cntr + 1) % Interval
      /\ missed' = missed /\ missed \in Nat
      /\ kpc' = IF cntr' = 0 THEN "open" ELSE "sleep"
  BY DEF Gather, CountTurn, disk, HealthTypes
<1>3. cntr' = 1  BY <1>1, <1>2, TurnOver
<1>4. QED BY <1>1, <1>2, <1>3 DEF SinceGather, SinceDump, KeeperPoints

LEMMA NoGatherTimes ==
    ASSUME HealthTypes, NoGather
    PROVE  /\ SinceGather' = SinceGather /\ SinceDump' = SinceDump
           /\ kpc' \in KeeperPoints
           /\ cntr' \in 0 .. Interval - 1 /\ (kpc' \in {"open", "write"} => cntr' = 0)
<1>1. Interval \in Nat /\ Interval >= 2  BY KeepAliveAssumption
<1>2. kpc = "loop" /\ cntr # 0 /\ cntr' = (cntr + 1) % Interval
      /\ missed' = missed /\ missed \in Nat
      /\ kpc' = IF cntr' = 0 THEN "open" ELSE "sleep"
  BY DEF NoGather, CountTurn, disk, HealthTypes
<1>3. cntr \in 0 .. Interval - 1  BY DEF HealthTypes
<1>4. cntr' = IF cntr + 1 = Interval THEN 0 ELSE cntr + 1  BY <1>2, <1>3, TurnOver
<1>5. CASE cntr + 1 = Interval
  BY <1>1, <1>2, <1>3, <1>4, <1>5 DEF SinceGather, SinceDump, KeeperPoints
<1>6. CASE cntr + 1 # Interval
  BY <1>1, <1>2, <1>3, <1>4, <1>6 DEF SinceGather, SinceDump, KeeperPoints
<1>7. QED BY <1>5, <1>6

LEMMA SecondTimes ==
    ASSUME HealthTypes, Second, KeeperLives
    PROVE  SinceGather' = SinceGather + 1 /\ SinceDump' = SinceDump + 1
<1>1. Interval \in Nat /\ Interval >= 2  BY KeepAliveAssumption
<1>2. kpc = "sleep" /\ kpc' = "loop" /\ cntr' = cntr /\ missed' = missed /\ missed \in Nat
  BY DEF Second, KeeperLives, HealthTypes
<1>3. cntr \in 0 .. Interval - 1  BY DEF HealthTypes
<1>4. QED BY <1>1, <1>2, <1>3 DEF SinceGather, SinceDump

LEMMA TimesBound ==
    ASSUME HealthTypes
    PROVE  /\ SinceGather \in 0 .. Interval
           /\ SinceDump \in Nat /\ SinceDump >= missed /\ SinceDump <= missed + Interval
<1>1. Interval \in Nat /\ Interval >= 2  BY KeepAliveAssumption
<1>2. QED BY <1>1 DEF HealthTypes, SinceGather, SinceDump

LEMMA SlackFacts ==
    ASSUME watch' = watch
    PROVE  Slack \in Nat /\ Slack' = Slack
<1>1. MessageAgeLimit \in Nat /\ ZeroLimit \in Nat /\ Interval \in Nat  BY KeepAliveAssumption
<1>2. ZeroLimit * Interval \in Nat  BY <1>1
<1>3. Slack' = Slack  BY DEF Slack
<1>4. QED BY <1>1, <1>2, <1>3 DEF Slack

(* What the other threads can do to what the keeper reads. *)
LEMMA WorldFacts ==
    ASSUME HealthTypes, World
    PROVE  /\ UNCHANGED <<kpc, cntr, last_positive, zero_packet_intervals, data, disk>>
           /\ KeeperLives' => KeeperLives
           /\ life' \in [Threads -> {"new", "running", "gone"}] /\ life'["keepalive"] # "new"
           /\ life'["mqtt"] # "gone"
           /\ link' \in {"down", "closed", "up"} /\ counted' \in BOOLEAN
           /\ message_age' \in {message_age, 0} /\ idle' \in {idle, 0}
           /\ counted => counted'
           /\ counted' => counted \/ idle' = 0
           /\ ~counted' => idle' = idle
<1> DEFINE Goal ==
           /\ UNCHANGED <<kpc, cntr, last_positive, zero_packet_intervals, data, disk>>
           /\ KeeperLives' => KeeperLives
           /\ life' \in [Threads -> {"new", "running", "gone"}] /\ life'["keepalive"] # "new"
           /\ life'["mqtt"] # "gone"
           /\ link' \in {"down", "closed", "up"} /\ counted' \in BOOLEAN
           /\ message_age' \in {message_age, 0} /\ idle' \in {idle, 0}
           /\ counted => counted'
           /\ counted' => counted \/ idle' = 0
           /\ ~counted' => idle' = idle
<1> USE DEF HealthTypes, keeper, traffic, KeeperLives
<1>1. ASSUME NEW t \in Threads, StartThread(t) PROVE Goal
  <2>1. {"mqtt", "keepalive"} \subseteq Threads  BY ClassFacts
  <2>2. life[t] = "new" /\ life' = [life EXCEPT ![t] = "running"]
        /\ UNCHANGED <<link, traffic, keeper, disk>>
    BY <1>1 DEF StartThread
  <2>3. QED BY <2>1, <2>2
<1>2. ASSUME NEW t \in Threads, Die(t) PROVE Goal
  <2>1. {"mqtt", "keepalive"} \subseteq Threads  BY ClassFacts
  <2>2. t # "mqtt" /\ life' = [life EXCEPT ![t] = "gone"] /\ UNCHANGED <<link, traffic, keeper, disk>>
    BY <1>2 DEF Die
  <2>3. QED BY <2>1, <2>2
<1>3. ASSUME NEW t \in Threads, Message(t) PROVE Goal
  BY <1>3 DEF Message
<1>4. CASE LinkChanges
  <2>1. link' \in {"down", "closed", "up"}  BY <1>4, Zenon DEF LinkChanges
  <2>2. UNCHANGED <<life, traffic, keeper, disk>>  BY <1>4 DEF LinkChanges
  <2>3. QED BY <2>1, <2>2
<1>5. QED BY <1>1, <1>2, <1>3, <1>4 DEF World

LEMMA WorldKeepsInv ==
    ASSUME HealthInv, World, Observe(0)
    PROVE  HealthInv'
<1> USE DEF HealthInv
<1>1. HealthTypes  OBVIOUS
<1>2. /\ UNCHANGED <<kpc, cntr, last_positive, zero_packet_intervals, data,
                     file, readable, file_age, missed>>
      /\ KeeperLives' => KeeperLives
      /\ life' \in [Threads -> {"new", "running", "gone"}] /\ life'["keepalive"] # "new"
      /\ life'["mqtt"] # "gone"
      /\ link' \in {"down", "closed", "up"} /\ counted' \in BOOLEAN
      /\ message_age' \in {message_age, 0} /\ idle' \in {idle, 0}
      /\ counted => counted'
      /\ counted' => counted \/ idle' = 0
      /\ ~counted' => idle' = idle
  BY <1>1, WorldFacts DEF disk
<1>3. /\ watch' = watch /\ lasting' \in Nat /\ lasting' <= lasting
      /\ lasting' > 0 => Holds'
  <2>1. lasting' <= lasting + 0 /\ lasting \in Nat  BY <1>1, ObserveFacts DEF HealthTypes
  <2>2. QED BY <1>1, <2>1, ObserveFacts
<1>4. HealthTypes'  BY <1>1, <1>2, <1>3 DEF HealthTypes
<1>5. SinceGather' = SinceGather /\ SinceDump' = SinceDump
  BY <1>2 DEF SinceGather, SinceDump
<1>6. SinceGather \in 0 .. Interval /\ SinceDump \in Nat /\ Interval \in Nat
  BY <1>1, TimesBound, KeepAliveAssumption
<1>7. FileInv'  BY <1>2, <1>5 DEF FileInv
<1>8. lasting \in Nat /\ zero_packet_intervals \in Nat  BY <1>1, KeepAliveAssumption DEF HealthTypes
<1>9. CountInv'
  <2>1. CASE watch = "silence"
    <3>1. message_age' = 0 => lasting' = 0  BY <1>3, <2>1 DEF Holds
    <3>2. QED BY <1>1, <1>2, <1>3, <2>1, <3>1 DEF CountInv, HealthTypes
  <2>2. CASE watch = "stall"
    <3>1. idle' = 0 => lasting' = 0  BY <1>3, <2>2 DEF Holds
    <3>2. PICK z \in Int : z = (zero_packet_intervals + 1) * Interval
      BY <1>6, <1>8
    <3>3. QED BY <1>2, <1>3, <1>5, <1>6, <1>8, <2>2, <3>1, <3>2 DEF CountInv
  <2>3. QED BY <1>3, <2>1, <2>2 DEF CountInv
<1>10. ReportInv'
  <2>1. Slack \in Nat /\ Slack' = Slack  BY <1>3, SlackFacts
  <2>2. Unaware(data)' = Unaware(data) /\ Unaware(file)' = Unaware(file)
    BY <1>2, <1>3 DEF Unaware
  <2> HIDE DEF Slack, Unaware
  <2>3. file_age \in Nat  BY <1>1 DEF HealthTypes
  <2>4. QED BY <1>2, <1>3, <1>5, <1>6, <1>8, <2>1, <2>2, <2>3 DEF ReportInv
<1>11. FlowInv'  BY <1>2, <1>3, <1>5 DEF FlowInv
<1>12. CleanInv'
  <2>1. Clean(data)' = Clean(data) /\ Clean(file)' = Clean(file)
    BY <1>2 DEF Clean
  <2> HIDE DEF Clean
  <2>2. QED BY <1>2, <1>3, <1>5, <1>6, <1>8, <2>1 DEF CleanInv
<1>13. QED BY <1>4, <1>7, <1>9, <1>10, <1>11, <1>12

-----------------------------------------------------------------------------
(* The steps of the keeper, and time *)

LEMMA CleanEntries ==
    ASSUME HealthTypes, watch = "fine", Holds, ZeroNext < ZeroLimit
    PROVE  \A class \in Classes : ClassEntry(class) # "down"
<1>1. link = "up" /\ \A t \in Threads : life[t] = "running"  BY DEF Holds
<1>2. \A t \in Threads : IsAlive(t)  BY <1>1 DEF IsAlive
<1>3. ASSUME NEW class \in Classes \ {"PacketFlow"} PROVE ClassEntry(class) # "down"
  <2>1. PICK p \in DOMAIN Registry : ClassOf(Registry[p]) = class  BY ClassFacts
  <2>2. life[Registry[p]] # "gone"  BY <1>1, ClassFacts
  <2>3. p \in Registered(class)  BY <2>1, <2>2 DEF Registered
  <2>4. Registered(class) \subseteq 0 .. Len(Processors) + 3 /\ Len(Processors) + 3 \in Nat
    BY ClassFacts DEF Registered
  <2>5. Max(Registered(class)) \in Registered(class)
    <3>1. \E i \in Registered(class) : \A j \in Registered(class) : i >= j
      BY <2>3, <2>4, GreatestNumber
    <3>2. QED BY <3>1 DEF Max
  <2>6. Registry[Max(Registered(class))] \in Threads  BY <2>5, ClassFacts DEF Registered
  <2>7. LastAlive(class)  BY <1>2, <2>6 DEF LastAlive
  <2>8. QED BY <1>3, <2>3, <2>7 DEF ClassEntry
<1>4. ClassEntry("PacketFlow") # "down"  BY DEF ClassEntry
<1>5. QED BY <1>3, <1>4

(* MQTTThread stays registered, and its entry says whether messages can    *)
(* come.                                                                   *)
LEMMA MqttEntryTells ==
    ASSUME HealthTypes, ClassEntry("mqtt") # "down"
    PROVE  link = "up"
<1>1. PICK p \in DOMAIN Registry : ClassOf(Registry[p]) = "mqtt"  BY ClassFacts DEF Classes
<1>2. \A i \in DOMAIN Registry : ClassOf(Registry[i]) = "mqtt" => Registry[i] = "mqtt"
  BY DEF ClassOf
<1>3. p \in Registered("mqtt")  BY <1>1, <1>2 DEF Registered, HealthTypes
<1>4. Registered("mqtt") \subseteq 0 .. Len(Processors) + 3 /\ Len(Processors) + 3 \in Nat
  BY ClassFacts DEF Registered
<1>5. Max(Registered("mqtt")) \in Registered("mqtt")
  <2>1. \E i \in Registered("mqtt") : \A j \in Registered("mqtt") : i >= j
    BY <1>3, <1>4, GreatestNumber
  <2>2. QED BY <2>1 DEF Max
<1>6. Registry[Max(Registered("mqtt"))] = "mqtt"  BY <1>2, <1>5 DEF Registered
<1>7. LastAlive("mqtt")  BY <1>3 DEF ClassEntry
<1>8. QED BY <1>6, <1>7 DEF LastAlive, IsAlive

(* The gathering notes the trouble unless it has just begun. *)
LEMMA GatherKeepsInv ==
    ASSUME HealthInv, Gather, Observe(0)
    PROVE  HealthInv'
<1>1. HealthTypes /\ FileInv /\ CountInv /\ ReportInv /\ FlowInv /\ CleanInv  BY DEF HealthInv
<1>2. /\ KeeperLives /\ kpc = "loop" /\ counted' = FALSE
      /\ data' = [threads |-> [class \in Classes |-> ClassEntry(class)],
                  mqtt    |-> MqttEntry, stalled |-> ZeroNext >= ZeroLimit]
      /\ zero_packet_intervals' = ZeroNext
      /\ last_positive' = (last_positive \/ counted)
      /\ UNCHANGED <<life, link, message_age, idle, file, readable, file_age, missed>>
  BY DEF Gather, KeeperLives, disk
<1>3. /\ watch' = watch /\ lasting' \in Nat /\ lasting' <= lasting
      /\ lasting' > 0 => Holds'
  <2>1. lasting' <= lasting + 0 /\ lasting \in Nat  BY <1>1, ObserveFacts DEF HealthTypes
  <2>2. QED BY <1>1, <2>1, ObserveFacts
<1>4. /\ SinceGather = Interval /\ SinceGather' = 0 /\ SinceDump' = SinceDump
      /\ kpc' \in KeeperPoints
      /\ cntr' \in 0 .. Interval - 1 /\ (kpc' \in {"open", "write"} => cntr' = 0)
  BY <1>1, GatherTimes
<1>5. /\ SinceDump \in Nat /\ Interval \in Nat /\ Interval >= 2
      /\ ZeroLimit \in Nat /\ ZeroLimit >= 1 /\ MessageAgeLimit \in Nat /\ MessageAgeLimit >= 1
  BY <1>1, TimesBound, KeepAliveAssumption
<1>6. /\ lasting \in Nat /\ zero_packet_intervals \in 0 .. ZeroLimit /\ idle \in Nat
      /\ message_age \in Nat /\ last_positive \in BOOLEAN /\ counted \in BOOLEAN
  BY <1>1 DEF HealthTypes
<1>7. ZeroNext \in 0 .. ZeroLimit
  BY <1>5, <1>6 DEF ZeroNext, CutOff
<1>8. HealthTypes'
  <2>1. last_positive' \in BOOLEAN  BY <1>2, <1>6
  <2>2. QED BY <1>1, <1>2, <1>3, <1>4, <1>7, <2>1 DEF HealthTypes
<1>9. FileInv'  BY <1>1, <1>2, <1>4 DEF FileInv, KeeperLives
(* How long the stall has lasted when the gathering sees it. *)
<1>10. watch = "stall" /\ ZeroNext < ZeroLimit => lasting' <= (ZeroNext + 1) * Interval
  <2>1. SUFFICES ASSUME watch = "stall", ZeroNext < ZeroLimit
                 PROVE  lasting' <= (ZeroNext + 1) * Interval
    OBVIOUS
  <2>2. PICK p \in Nat : p = ZeroNext * Interval /\ (ZeroNext + 1) * Interval = p + Interval
    BY <1>5, <1>7
  <2>3. CASE counted
    <3>1. lasting <= Interval  BY <1>1, <1>2, <1>4, <2>1, <2>3 DEF CountInv
    <3>2. QED BY <1>3, <1>5, <1>6, <2>2, <3>1
  <2>4. CASE ~counted /\ ~last_positive
    <3>1. ~Holds'  BY <1>2, <1>3, <2>1, <2>4 DEF Holds
    <3>2. lasting' = 0  BY <1>3, <3>1
    <3>3. QED BY <1>5, <2>2, <3>2
  <2>5. CASE ~counted /\ last_positive
    <3>1. ZeroNext = zero_packet_intervals + 1 /\ zero_packet_intervals < ZeroLimit
      BY <1>5, <1>6, <2>1, <2>5 DEF ZeroNext, CutOff
    <3>2. lasting <= (zero_packet_intervals + 1) * Interval + Interval
      BY <1>1, <1>2, <1>4, <2>1, <2>5, <3>1 DEF CountInv
    <3>3. lasting <= p + Interval  BY <2>2, <3>1, <3>2
    <3>4. QED BY <1>3, <1>5, <1>6, <2>2, <3>3
  <2>6. QED BY <2>3, <2>4, <2>5
<1>11. CountInv'
  <2>1. CASE watch = "silence"  BY <1>1, <1>2, <1>3, <1>6, <2>1 DEF CountInv
  <2>2. CASE watch = "stall"
    <3>1. PICK z \in Int : z = (ZeroNext + 1) * Interval  BY <1>5, <1>7
    <3>2. ZeroNext < ZeroLimit => lasting' <= z  BY <1>10, <2>2, <3>1
    <3>3. zero_packet_intervals' < ZeroLimit =>
              lasting' <= (zero_packet_intervals' + 1) * Interval + SinceGather'
      <4>1. (zero_packet_intervals' + 1) * Interval + SinceGather' = z  BY <1>2, <1>4, <3>1
      <4>2. QED BY <1>2, <3>2, <4>1
    <3>4. QED BY <1>2, <1>3, <2>2, <3>3 DEF CountInv
  <2>3. QED BY <1>3, <2>1, <2>2 DEF CountInv
<1>12. Unaware(data)' => lasting' <= Slack
  <2>1. CASE watch = "outage"
    <3>1. Unaware(data)' => ClassEntry("mqtt") # "down"
      BY <1>2, <1>3, <2>1 DEF Unaware, Classes
    <3>2. ClassEntry("mqtt") # "down" => ~Holds'
      BY <1>1, <1>2, <1>3, <2>1, MqttEntryTells DEF Holds
    <3>3. QED BY <1>3, <2>1, <3>1, <3>2 DEF Slack
  <2>2. CASE watch = "silence"
    <3>1. Unaware(data)' => ~(message_age > MessageAgeLimit)
      BY <1>2, <1>3, <2>2 DEF Unaware, MqttEntry
    <3>2. message_age <= MessageAgeLimit => lasting <= message_age
      BY <1>1, <2>2 DEF CountInv
    <3>3. QED BY <1>3, <1>5, <1>6, <2>2, <3>1, <3>2 DEF Slack
  <2>3. CASE watch = "stall"
    <3>1. Unaware(data)' => ZeroNext < ZeroLimit
      <4>1. Unaware(data)' => ~(ZeroNext >= ZeroLimit)  BY <1>2, <1>3, <2>3 DEF Unaware
      <4>2. QED BY <1>5, <1>7, <4>1
    <3>2. ZeroNext < ZeroLimit => (ZeroNext + 1) * Interval <= ZeroLimit * Interval
      <4>1. ASSUME ZeroNext < ZeroLimit
            PROVE  (ZeroNext + 1) * Interval <= ZeroLimit * Interval
        <5>1. PICK d \in Nat : ZeroLimit = ZeroNext + 1 + d  BY <1>5, <1>7, <4>1
        <5>2. ZeroLimit * Interval = (ZeroNext + 1) * Interval + d * Interval
          BY <1>5, <1>7, <5>1
        <5>3. d * Interval \in Nat /\ (ZeroNext + 1) * Interval \in Nat  BY <1>5, <1>7, <5>1
        <5>4. QED BY <5>2, <5>3
      <4>2. QED BY <4>1
    <3>3. PICK z \in Int : z = (ZeroNext + 1) * Interval  BY <1>5, <1>7
    <3>4. PICK y \in Int : y = ZeroLimit * Interval  BY <1>5
    <3>5. QED BY <1>3, <1>10, <2>3, <3>1, <3>2, <3>3, <3>4 DEF Slack
  <2>4. CASE watch \in {"death", "fine"}  BY <1>3, <2>4 DEF Unaware
  <2>5. QED BY <1>1, <2>1, <2>2, <2>3, <2>4 DEF HealthTypes, Conditions
<1>13. ReportInv'
  <2>1. Slack \in Nat /\ Slack' = Slack  BY <1>3, SlackFacts
  <2>2. Unaware(file)' = Unaware(file)  BY <1>2, <1>3 DEF Unaware
  <2> HIDE DEF Slack, Unaware
  <2>3. file_age \in Nat  BY <1>1 DEF HealthTypes
  <2>4. QED BY <1>1, <1>2, <1>3, <1>4, <1>5, <1>6, <1>12, <2>1, <2>2, <2>3 DEF ReportInv
<1>14. FlowInv'  BY <1>3, <1>4, <1>6, <1>2 DEF FlowInv
<1>15. CleanInv'
  <2>1. SUFFICES ASSUME watch = "fine" PROVE CleanInv'
    BY <1>3 DEF CleanInv
  <2>2. lasting' > 0 => Clean(data)'
    <3>1. SUFFICES ASSUME lasting' > 0 PROVE Clean(data)'
      OBVIOUS
    <3>2. Holds  BY <1>1, <1>3, <1>6, <3>1 DEF FlowInv
    <3>3. link = "up" /\ message_age <= 1 /\ idle <= 1  BY <2>1, <3>2 DEF Holds
    <3>4. counted \/ ~last_positive  BY <1>1, <1>2, <1>4, <1>5, <1>6, <3>3 DEF FlowInv
    <3>5. ZeroNext = 0  BY <3>4 DEF ZeroNext
    <3>6. \A class \in Classes : ClassEntry(class) # "down"
      BY <1>1, <1>5, <2>1, <3>2, <3>5, CleanEntries
    <3>7. data'.mqtt.up /\ ~data'.mqtt.silent
      <4>1. ~(message_age > MessageAgeLimit)  BY <1>5, <1>6, <3>3
      <4>2. data'.mqtt = MqttEntry  BY <1>2, Zenon
      <4>3. MqttEntry.up = (link # "down") /\ MqttEntry.silent = (message_age > MessageAgeLimit)
        BY Zenon DEF MqttEntry
      <4>4. link # "down"  BY <3>3
      <4>5. QED BY <4>1, <4>2, <4>3, <4>4, Zenon
    <3>8. \A class \in Classes : data'.threads[class] = ClassEntry(class)  BY <1>2
    <3>9. ~data'.stalled
      <4>1. ~(ZeroNext >= ZeroLimit)  BY <1>5, <3>5
      <4>2. data'.stalled = (ZeroNext >= ZeroLimit)  BY <1>2, Zenon
      <4>3. QED BY <4>1, <4>2, Zenon
    <3>10. QED BY <3>6, <3>7, <3>8, <3>9 DEF Clean
  <2>3. Clean(file)' = Clean(file)  BY <1>2 DEF Clean
  <2> HIDE DEF Clean
  <2>4. QED BY <1>1, <1>3, <1>4, <1>5, <1>6, <2>1, <2>2, <2>3 DEF CleanInv
<1>16. QED BY <1>8, <1>9, <1>11, <1>13, <1>14, <1>15 DEF HealthInv


(* A turn without a gathering, and the truncating open                     *)
LEMMA QuietKeepsInv ==
    ASSUME HealthInv, Observe(0), HealthTypes',
           SinceGather' = SinceGather, SinceDump' = SinceDump,
           UNCHANGED <<life, link, message_age, counted, idle, last_positive,
                       zero_packet_intervals, data, file>>,
           readable' => readable /\ file_age' = file_age,
           file_age' <= file_age,
           readable' \/ kpc' = "write" \/ missed' > 0 \/ ~KeeperLives
    PROVE  HealthInv'
<1>1. HealthTypes /\ FileInv /\ CountInv /\ ReportInv /\ FlowInv /\ CleanInv  BY DEF HealthInv
<1>2. /\ watch' = watch /\ lasting' \in Nat /\ lasting' <= lasting
      /\ lasting' > 0 => Holds'
  <2>1. lasting' <= lasting + 0 /\ lasting \in Nat  BY <1>1, ObserveFacts DEF HealthTypes
  <2>2. QED BY <1>1, <2>1, ObserveFacts
<1>3. /\ SinceGather \in 0 .. Interval /\ SinceDump \in Nat /\ Interval \in Nat
      /\ lasting \in Nat /\ zero_packet_intervals \in Nat /\ file_age \in Nat /\ file_age' \in Nat
  BY <1>1, TimesBound, KeepAliveAssumption DEF HealthTypes
<1>4. KeeperLives' = KeeperLives  BY DEF KeeperLives
<1>5. FileInv'  BY <1>1, <1>3, <1>4 DEF FileInv
<1>6. CountInv'
  <2>1. PICK z \in Int : z = (zero_packet_intervals + 1) * Interval  BY <1>3
  <2>2. (zero_packet_intervals' + 1) * Interval = z  BY <2>1
  <2>3. CASE watch = "silence"  BY <1>1, <1>2, <1>3, <2>3 DEF CountInv, HealthTypes
  <2>4. CASE watch = "stall"  BY <1>1, <1>2, <1>3, <1>4, <2>1, <2>2, <2>4 DEF CountInv
  <2>5. QED BY <1>2, <2>3, <2>4 DEF CountInv
<1>7. ReportInv'
  <2>1. Slack \in Nat /\ Slack' = Slack  BY <1>2, SlackFacts
  <2>2. Unaware(data)' = Unaware(data) /\ Unaware(file)' = Unaware(file)
    BY <1>2 DEF Unaware
  <2> HIDE DEF Slack, Unaware
  <2>3. KeeperLives /\ Unaware(data) => lasting' <= Slack + SinceGather'
    BY <1>1, <1>2, <1>3, <2>1 DEF ReportInv
  <2>4. readable' /\ file_age' <= FileAgeLimit /\ Unaware(file) =>
            lasting' <= Slack + Interval - 1 + file_age'
    BY <1>1, <1>2, <1>3, <2>1 DEF ReportInv
  <2>5. QED BY <1>4, <2>1, <2>2, <2>3, <2>4 DEF ReportInv
<1>8. FlowInv'  BY <1>1, <1>2, <1>4 DEF FlowInv
<1>9. CleanInv'
  <2>1. Clean(data)' = Clean(data) /\ Clean(file)' = Clean(file)  BY DEF Clean
  <2> HIDE DEF Clean
  <2>2. QED BY <1>1, <1>2, <1>3, <2>1 DEF CleanInv
<1>10. QED BY <1>5, <1>6, <1>7, <1>8, <1>9 DEF HealthInv

LEMMA NoGatherKeepsInv ==
    ASSUME HealthInv, NoGather, Observe(0)
    PROVE  HealthInv'
<1>1. HealthTypes  BY DEF HealthInv
<1>2. /\ UNCHANGED <<life, link, message_age, counted, idle, last_positive,
                     zero_packet_intervals, data, file, readable, file_age, missed>>
  BY DEF NoGather, traffic, disk
<1>3. /\ SinceGather' = SinceGather /\ SinceDump' = SinceDump
      /\ kpc' \in KeeperPoints
      /\ cntr' \in 0 .. Interval - 1 /\ (kpc' \in {"open", "write"} => cntr' = 0)
  BY <1>1, NoGatherTimes
<1>4. watch' = watch /\ lasting' \in Nat  BY <1>1, ObserveFacts
<1>5. HealthTypes'  BY <1>1, <1>2, <1>3, <1>4 DEF HealthTypes
<1>6. file_age' <= file_age  BY <1>1, <1>2 DEF HealthTypes
<1>7. readable' \/ missed' > 0 \/ ~KeeperLives
  <2>1. kpc = "loop"  BY DEF NoGather
  <2>2. QED BY <1>2, <2>1 DEF HealthInv, FileInv
<1>8. QED BY <1>2, <1>3, <1>5, <1>6, <1>7, QuietKeepsInv

LEMMA DumpOpenKeepsInv ==
    ASSUME HealthInv, DumpOpen, Observe(0)
    PROVE  HealthInv'
<1>1. HealthTypes  BY DEF HealthInv
<1>2. /\ UNCHANGED <<life, link, message_age, counted, idle, cntr, last_positive,
                     zero_packet_intervals, data, file, missed>>
      /\ kpc = "open" /\ kpc' = "write" /\ readable' = FALSE /\ file_age' = 0
  BY DEF DumpOpen, traffic
<1>3. cntr = 0  BY <1>1, <1>2 DEF HealthTypes
<1>4. SinceGather' = SinceGather /\ SinceDump' = SinceDump
  BY <1>2, <1>3 DEF SinceGather, SinceDump
<1>5. watch' = watch /\ lasting' \in Nat  BY <1>1, ObserveFacts
<1>6. HealthTypes'  BY <1>1, <1>2, <1>3, <1>5 DEF HealthTypes, KeeperPoints
<1>7. file_age' <= file_age  BY <1>1, <1>2 DEF HealthTypes
<1>8. QED BY <1>2, <1>4, <1>6, <1>7, QuietKeepsInv

(* A dump that fails puts the next one off by an interval. *)
LEMMA DumpFailsKeepsInv ==
    ASSUME HealthInv, DumpFails, Observe(0)
    PROVE  HealthInv'
<1>1. HealthTypes  BY DEF HealthInv
<1>2. /\ UNCHANGED <<life, link, message_age, counted, idle, cntr, last_positive,
                     zero_packet_intervals, data, file, readable, file_age>>
      /\ kpc \in {"open", "write"} /\ kpc' = "sleep" /\ missed' = missed + Interval
  BY DEF DumpFails, traffic
<1>3. cntr = 0  BY <1>1, <1>2 DEF HealthTypes
<1>4. missed \in Nat /\ Interval \in Nat /\ Interval >= 2 /\ file_age \in Nat
  BY <1>1, KeepAliveAssumption DEF HealthTypes
<1>5. SinceGather' = SinceGather /\ SinceDump' = SinceDump
  BY <1>2, <1>3, <1>4 DEF SinceGather, SinceDump
<1>6. watch' = watch /\ lasting' \in Nat  BY <1>1, ObserveFacts
<1>7. missed' \in Nat /\ missed' > 0 /\ file_age' <= file_age  BY <1>2, <1>4
<1>8. HealthTypes'  BY <1>1, <1>2, <1>3, <1>6, <1>7 DEF HealthTypes, KeeperPoints
<1>9. QED BY <1>2, <1>5, <1>7, <1>8, QuietKeepsInv

LEMMA StutterKeepsInv ==
    ASSUME HealthInv, UNCHANGED healthVars
    PROVE  HealthInv'
<1> USE DEF healthVars, traffic, keeper, disk
<1>1. SinceGather' = SinceGather /\ SinceDump' = SinceDump /\ Slack' = Slack
      /\ Unaware(data)' = Unaware(data) /\ Unaware(file)' = Unaware(file)
      /\ Clean(data)' = Clean(data) /\ Clean(file)' = Clean(file)
  BY DEF SinceGather, SinceDump, Slack, Unaware, Clean
<1>2. KeeperLives' = KeeperLives /\ Holds' = Holds  BY DEF KeeperLives, Holds
<1>3. HealthTypes'  BY DEF HealthInv, HealthTypes
<1>4. FileInv' /\ FlowInv'  BY <1>1, <1>2 DEF HealthInv, FileInv, FlowInv
<1>5. CountInv'  BY <1>1, <1>2 DEF HealthInv, CountInv
<1>6. ReportInv' /\ CleanInv'  BY <1>1, <1>2 DEF HealthInv, ReportInv, CleanInv
<1>7. QED BY <1>3, <1>4, <1>5, <1>6 DEF HealthInv

(* The file now says what the gathering said. *)
LEMMA DumpWriteKeepsInv ==
    ASSUME HealthInv, DumpWrite, Observe(0)
    PROVE  HealthInv'
<1>1. HealthTypes /\ FileInv /\ CountInv /\ ReportInv /\ FlowInv /\ CleanInv  BY DEF HealthInv
<1>2. /\ UNCHANGED <<life, link, message_age, counted, idle, cntr, last_positive,
                     zero_packet_intervals, data>>
      /\ KeeperLives /\ kpc = "write" /\ kpc' = "sleep"
      /\ file' = data /\ readable' = TRUE /\ file_age' = 0 /\ missed' = 0
  BY DEF DumpWrite, traffic, KeeperLives
<1>3. cntr = 0  BY <1>1, <1>2 DEF HealthTypes
<1>4. /\ watch' = watch /\ lasting' \in Nat /\ lasting' <= lasting
      /\ lasting' > 0 => Holds'
  <2>1. lasting' <= lasting + 0 /\ lasting \in Nat  BY <1>1, ObserveFacts DEF HealthTypes
  <2>2. QED BY <1>1, <2>1, ObserveFacts
<1>5. /\ SinceGather = Interval - 1 /\ SinceGather' = Interval - 1
      /\ SinceDump' = 0 /\ Interval \in Nat /\ Interval >= 2
      /\ lasting \in Nat /\ zero_packet_intervals \in Nat
  BY <1>1, <1>2, <1>3, KeepAliveAssumption DEF HealthTypes, SinceGather, SinceDump
<1>6. HealthTypes'  BY <1>1, <1>2, <1>3, <1>4 DEF HealthTypes, KeeperPoints
<1>7. FileInv'  BY <1>2, <1>5 DEF FileInv
<1>8. CountInv'
  <2>1. PICK z \in Int : z = (zero_packet_intervals + 1) * Interval  BY <1>5
  <2>2. (zero_packet_intervals' + 1) * Interval = z  BY <1>2, <2>1
  <2>3. CASE watch = "silence"  BY <1>1, <1>2, <1>4, <1>5, <2>3 DEF CountInv, HealthTypes
  <2>4. CASE watch = "stall"
    BY <1>1, <1>2, <1>4, <1>5, <2>1, <2>2, <2>4 DEF CountInv
  <2>5. QED BY <1>4, <2>3, <2>4 DEF CountInv
<1>9. ReportInv'
  <2>1. Slack \in Nat /\ Slack' = Slack  BY <1>4, SlackFacts
  <2>2. Unaware(data)' = Unaware(data) /\ Unaware(file)' = Unaware(data)
    BY <1>2, <1>4 DEF Unaware
  <2> HIDE DEF Slack, Unaware
  <2>3. QED BY <1>1, <1>2, <1>4, <1>5, <2>1, <2>2 DEF ReportInv
<1>10. FlowInv'  BY <1>1, <1>2, <1>4, <1>5 DEF FlowInv
<1>11. CleanInv'
  <2>1. Clean(data)' = Clean(data) /\ Clean(file)' = Clean(data)  BY <1>2 DEF Clean
  <2> HIDE DEF Clean
  <2>2. QED BY <1>1, <1>4, <1>5, <2>1 DEF CleanInv
<1>12. QED BY <1>6, <1>7, <1>8, <1>9, <1>10, <1>11 DEF HealthInv

(* Time passes for the trouble and for the report alike. *)
LEMMA SecondKeepsInv ==
    ASSUME HealthInv, Second, Observe(1)
    PROVE  HealthInv'
<1>1. HealthTypes /\ FileInv /\ CountInv /\ ReportInv /\ FlowInv /\ CleanInv  BY DEF HealthInv
<1>2. /\ UNCHANGED <<life, link, counted, cntr, last_positive,
                     zero_packet_intervals, data, file, readable, missed>>
      /\ kpc' = IF kpc = "sleep" THEN "loop" ELSE kpc
      /\ message_age' = CutOff(message_age + 1, MessageAgeLimit + 1)
      /\ file_age' = CutOff(file_age + 1, FileAgeLimit + 1)
      /\ idle' = CutOff(idle + 1, 2)
  BY DEF Second
<1>3. /\ watch' = watch /\ lasting' \in Nat /\ lasting' <= lasting + 1
      /\ lasting' > 0 => Holds'
  BY <1>1, ObserveFacts
<1>4. /\ MessageAgeLimit \in Nat /\ FileAgeLimit \in Nat
      /\ Interval \in Nat /\ Interval >= 2 /\ ZeroLimit \in Nat
  BY KeepAliveAssumption
<1>5. /\ message_age \in Nat /\ file_age \in Nat /\ idle \in Nat /\ lasting \in Nat
      /\ zero_packet_intervals \in Nat
  BY <1>1, <1>4 DEF HealthTypes
<1>6. /\ message_age' \in Nat /\ file_age' \in Nat /\ idle' \in Nat
      /\ message_age' <= MessageAgeLimit => message_age' = message_age + 1
      /\ file_age' <= file_age + 1
      /\ file_age' <= FileAgeLimit => file_age' = file_age + 1
      /\ idle' = idle + 1 \/ (idle' = 2 /\ idle >= 1)
  <2>1. message_age' = IF message_age + 1 > MessageAgeLimit + 1
                       THEN MessageAgeLimit + 1 ELSE message_age + 1
    BY <1>2 DEF CutOff
  <2>2. file_age' = IF file_age + 1 > FileAgeLimit + 1 THEN FileAgeLimit + 1 ELSE file_age + 1
    BY <1>2 DEF CutOff
  <2>3. idle' = IF idle + 1 > 2 THEN 2 ELSE idle + 1  BY <1>2 DEF CutOff
  <2>4. /\ message_age' \in Nat
        /\ message_age' <= MessageAgeLimit => message_age' = message_age + 1
    BY <1>4, <1>5, <2>1
  <2>5. /\ file_age' \in Nat /\ file_age' <= file_age + 1
        /\ file_age' <= FileAgeLimit => file_age' = file_age + 1
    BY <1>4, <1>5, <2>2
  <2>6. CASE idle + 1 > 2
    <3>1. idle' = 2  BY <2>3, <2>6
    <3>2. QED BY <1>5, <2>4, <2>5, <2>6, <3>1
  <2>7. CASE ~(idle + 1 > 2)
    <3>1. idle' = idle + 1  BY <2>3, <2>7
    <3>2. QED BY <1>5, <2>4, <2>5, <3>1
  <2>8. QED BY <2>6, <2>7
<1>7. HealthTypes'
  <2>1. kpc' \in KeeperPoints /\ (kpc' \in {"open", "write"} => cntr' = 0)
    BY <1>1, <1>2 DEF HealthTypes, KeeperPoints
  <2>2. QED BY <1>1, <1>2, <1>3, <1>6, <2>1 DEF HealthTypes
<1>8. KeeperLives' = KeeperLives  BY <1>2 DEF KeeperLives
<1>9. KeeperLives => SinceGather' = SinceGather + 1 /\ SinceDump' = SinceDump + 1
  BY <1>1, SecondTimes
<1>10. SinceGather \in 0 .. Interval /\ SinceDump \in Nat
  BY <1>1, TimesBound
<1>11. SinceGather' \in 0 .. Interval /\ SinceDump' \in Nat
  <2>1. (HealthTypes => SinceGather \in 0 .. Interval /\ SinceDump \in Nat)'
    BY TimesBound, PTL
  <2>2. QED BY <1>7, <2>1
<1>12. FileInv'
  <2>1. KeeperLives => kpc = "sleep"  BY DEF Second, KeeperLives
  <2>2. KeeperLives => readable' \/ missed' > 0  BY <1>1, <1>2, <2>1 DEF FileInv
  <2>3. KeeperLives => file_age' <= SinceDump'
    BY <1>1, <1>5, <1>6, <1>9, <1>10 DEF FileInv
  <2>4. QED BY <1>8, <2>2, <2>3 DEF FileInv
<1>13. CountInv'
  <2>1. PICK z \in Int : z = (zero_packet_intervals + 1) * Interval  BY <1>4, <1>5
  <2>2. CASE watch = "silence"
    <3>1. ASSUME message_age' <= MessageAgeLimit PROVE lasting' <= message_age'
      <4>1. message_age' = message_age + 1 /\ message_age <= MessageAgeLimit
        BY <1>4, <1>5, <1>6, <3>1
      <4>2. lasting <= message_age  BY <1>1, <2>2, <4>1 DEF CountInv
      <4>3. QED BY <1>3, <1>5, <4>1, <4>2
    <3>2. QED BY <1>3, <2>2, <3>1 DEF CountInv
  <2>3. CASE watch = "stall"
    BY <1>1, <1>2, <1>3, <1>5, <1>8, <1>9, <1>10, <1>4, <2>1, <2>3 DEF CountInv
  <2>4. QED BY <1>3, <2>2, <2>3 DEF CountInv
<1>14. ReportInv'
  <2>1. Slack \in Nat /\ Slack' = Slack  BY <1>3, SlackFacts
  <2>2. Unaware(data)' = Unaware(data) /\ Unaware(file)' = Unaware(file)
    BY <1>2, <1>3 DEF Unaware
  <2> HIDE DEF Slack, Unaware
  <2>3. QED BY <1>1, <1>2, <1>3, <1>4, <1>5, <1>6, <1>8, <1>9, <1>10, <2>1, <2>2
      DEF ReportInv
<1>15. FlowInv'
  BY <1>1, <1>2, <1>3, <1>5, <1>6, <1>8, <1>9, <1>10 DEF FlowInv
<1>16. CleanInv'
  <2>1. SUFFICES ASSUME watch = "fine" PROVE CleanInv'
    BY <1>3 DEF CleanInv
  <2>2. Clean(data)' = Clean(data) /\ Clean(file)' = Clean(file)  BY <1>2 DEF Clean
  <2>3. lasting' > 0 => KeeperLives
    <3>1. "keepalive" \in Threads  BY ClassFacts
    <3>2. QED BY <1>3, <1>8, <2>1, <3>1 DEF Holds, KeeperLives
  <2> HIDE DEF Clean
  <2>4. ASSUME lasting' > SinceGather' PROVE Clean(data)
    <3>1. KeeperLives  BY <1>3, <1>11, <2>3, <2>4, <1>4
    <3>2. lasting > SinceGather  BY <1>3, <1>5, <1>9, <1>10, <2>4, <3>1, <1>4
    <3>3. QED BY <1>1, <2>1, <3>2 DEF CleanInv
  <2>5. ASSUME lasting' > Interval - 1 + SinceDump' PROVE Clean(file)
    <3>1. lasting' > 0
      <4>1. SinceDump' \in Nat /\ Interval - 1 \in Nat  BY <1>4, <1>11
      <4>2. QED BY <1>3, <2>5, <4>1
    <3> KeeperLives  BY <2>3, <3>1
    <3>2. lasting > Interval - 1 + SinceDump  BY <1>3, <1>5, <1>9, <1>10, <2>5, <1>4
    <3>3. QED BY <1>1, <2>1, <3>2 DEF CleanInv
  <2>6. QED BY <2>2, <2>4, <2>5 DEF CleanInv
<1>17. QED BY <1>7, <1>12, <1>13, <1>14, <1>15, <1>16 DEF HealthInv

LEMMA InitHealthInv ==
    ASSUME HealthInit
    PROVE  HealthInv
<1> USE DEF HealthInit
<1>1. "keepalive" \in Threads  BY ClassFacts
<1>2. MessageAgeLimit \in Nat /\ FileAgeLimit \in Nat
      /\ Interval \in Nat /\ Interval >= 2 /\ ZeroLimit \in Nat /\ ZeroLimit >= 1
      /\ Watched \subseteq Conditions
  BY KeepAliveAssumption
<1>3. HealthTypes
  <2>1. life \in [Threads -> {"new", "running", "gone"}] /\ life["keepalive"] # "new"
    BY <1>1
  <2>2. watch \in Conditions  BY <1>2
  <2>3. link \in {"down", "closed", "up"} /\ counted \in BOOLEAN
        /\ last_positive \in BOOLEAN /\ readable \in BOOLEAN
    BY Zenon
  <2>4. cntr \in 0 .. Interval - 1 /\ zero_packet_intervals \in 0 .. ZeroLimit
        /\ missed \in Nat /\ life["mqtt"] # "gone"
    BY <1>2, ClassFacts
  <2>5. QED BY <2>1, <2>2, <2>3, <2>4 DEF HealthTypes, KeeperPoints
<1>4. SinceGather = Interval /\ SinceDump = missed + 1 /\ missed \in Nat
      /\ (readable \/ missed > 0)
  BY <1>2, <1>3 DEF SinceGather, SinceDump, HealthTypes
<1>5. FileInv  BY <1>4 DEF FileInv
<1>6. CountInv
  <2>1. (zero_packet_intervals + 1) * Interval = Interval  BY <1>2
  <2>2. QED BY <1>2, <1>4, <2>1 DEF CountInv
<1>7. ReportInv
  <2>1. Slack \in Nat  BY <1>2 DEF Slack
  <2> HIDE DEF Slack
  <2>2. QED BY <1>2, <1>4, <2>1 DEF ReportInv
<1>8. FlowInv  BY DEF FlowInv
<1>9. CleanInv  BY <1>2, <1>4 DEF CleanInv
<1>10. QED BY <1>3, <1>5, <1>6, <1>7, <1>8, <1>9 DEF HealthInv

(* The report is never further behind the trouble than its turn of the     *)
(* interval explains (code: KeepAliveThread.loop gathers at cntr = 0 and   *)
(* dumps a whole interval later).                                          *)
THEOREM HealthInvariant == HealthSpec => []HealthInv
<1>1. HealthInit => HealthInv  BY InitHealthInv
<1>2. HealthInv /\ [HealthNext]_healthVars => HealthInv'
  <2> SUFFICES ASSUME HealthInv, [HealthNext]_healthVars PROVE HealthInv'
    OBVIOUS
  <2>1. CASE World /\ Observe(0)  BY <2>1, WorldKeepsInv
  <2>2. CASE Gather /\ Observe(0)  BY <2>2, GatherKeepsInv
  <2>3. CASE NoGather /\ Observe(0)  BY <2>3, NoGatherKeepsInv
  <2>4. CASE DumpOpen /\ Observe(0)  BY <2>4, DumpOpenKeepsInv
  <2>5. CASE DumpWrite /\ Observe(0)  BY <2>5, DumpWriteKeepsInv
  <2>6. CASE DumpFails /\ Observe(0)  BY <2>6, DumpFailsKeepsInv
  <2>7. CASE Second /\ Observe(1)  BY <2>7, SecondKeepsInv
  <2>8. CASE UNCHANGED healthVars  BY <2>8, StutterKeepsInv
  <2>9. QED BY <2>1, <2>2, <2>3, <2>4, <2>5, <2>6, <2>7, <2>8 DEF HealthNext, Keeper
<1>3. QED BY <1>1, <1>2, PTL DEF HealthSpec

(* Lasting trouble fails the health check within a bound, for every        *)
(* number of processors, every length of the limits and whichever dumps    *)
(* fail (code: mqtt_healthcheck reads what KeepAliveThread wrote, or       *)
(* failed to overwrite, some time ago).                                    *)
THEOREM TroubleIsReported == HealthSpec => []TroubleReported
<1>1. HealthInv => TroubleReported
  <2> SUFFICES ASSUME HealthInv, HealthcheckPasses, watch \in {"outage", "silence", "stall"}
               PROVE  ~Overdue(Slack)
    BY DEF TroubleReported, Slack
  <2>1. HealthTypes /\ FileInv /\ ReportInv  BY DEF HealthInv
  <2>2. /\ Interval \in Nat /\ FileAgeLimit \in Nat /\ Slack \in Nat
        /\ lasting \in Nat /\ file_age \in Nat /\ missed \in Nat
    BY <2>1, KeepAliveAssumption, SlackFacts DEF HealthTypes, Slack
  <2>3. file.threads["mqtt"] # "down" /\ ~file.mqtt.silent /\ ~file.stalled
    BY DEF HealthcheckPasses, Classes
  <2>4. Unaware(file)  BY <2>3 DEF Unaware
  <2> HIDE DEF Slack
  <2>5. lasting <= Slack + Interval - 1 + file_age /\ file_age <= FileAgeLimit
    BY <2>1, <2>4 DEF ReportInv, HealthcheckPasses, FileIsRecent
  <2>6. KeeperLives => file_age <= missed + Interval
    BY <2>1, <2>2, TimesBound DEF FileInv
  <2>7. QED BY <2>2, <2>5, <2>6 DEF Overdue
<1>2. QED BY <1>1, HealthInvariant, PTL

(* No lasting false alarm: two intervals after all is well and after the   *)
(* last dump that failed the health check passes, however long an interval *)
(* is, and before it fails for no other reason than the file.              *)
THEOREM RecoveryIsReported == HealthSpec => []RecoveryReported
<1>1. HealthInv => RecoveryReported
  <2> SUFFICES ASSUME HealthInv, watch = "fine", lasting >= 2 * Interval + missed, kpc # "write"
               PROVE  HealthcheckPasses \/ (missed > 0 /\ ~FileIsRecent)
    BY DEF RecoveryReported
  <2>1. HealthTypes /\ FileInv /\ FlowInv /\ CleanInv  BY DEF HealthInv
  <2>2. Interval \in Nat /\ Interval >= 2 /\ Interval <= FileAgeLimit /\ FileAgeLimit \in Nat
    BY KeepAliveAssumption
  <2>3. lasting \in Nat /\ file_age \in Nat /\ missed \in Nat  BY <2>1 DEF HealthTypes
  <2>4. SinceDump \in Nat /\ SinceDump <= missed + Interval  BY <2>1, TimesBound
  <2>5. KeeperLives
    <3>1. Holds  BY <2>1, <2>2, <2>3 DEF FlowInv
    <3>2. "keepalive" \in Threads  BY ClassFacts
    <3>3. QED BY <3>1, <3>2 DEF Holds, KeeperLives
  <2>6. missed > 0 \/ FileIsRecent
    BY <2>1, <2>2, <2>3, <2>4, <2>5 DEF FileInv, FileIsRecent
  <2>7. Clean(file)
    <3>1. lasting > Interval - 1 + SinceDump  BY <2>2, <2>3, <2>4
    <3>2. QED BY <2>1, <3>1 DEF CleanInv
  <2>8. QED BY <2>6, <2>7 DEF HealthcheckPasses, Clean
<1>2. QED BY <1>1, HealthInvariant, PTL

=============================================================================
