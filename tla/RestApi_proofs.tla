--------------------------- MODULE RestApi_proofs ---------------------------
(* Proofs about RestApi, for every number of threads, every set of cached   *)
(* queries and every load of requests.                                      *)
(*                                                                          *)
(* MutexHasWorker is inductive only together with the shape of the state    *)
(* and with the fact that a thread that looks something up still has the    *)
(* query on its list: MutexInv.                                             *)
EXTENDS RestApi, FiniteSetTheorems, SequenceLemmas, TLAPS

(* What a thread is doing is a record with these fields, whatever they hold. *)
Slots == {"pc", "todo", "log", "val", "need", "missing", "row", "held"}
ThreadRecord(r) == r = [f \in Slots |-> r[f]]

Looking(r) == r.pc \in {"get", "wait", "try", "create", "store"}

Shape ==
    /\ th = [t \in Threads |-> th[t]]
    /\ \A t \in Threads : ThreadRecord(th[t]) /\ (Looking(th[t]) => th[t].todo # <<>>)
    /\ mutex \in [Keys -> Threads \cup {None}]
    /\ load \in Loads

MutexInv == Shape /\ MutexHasWorker

-----------------------------------------------------------------------------
LEMMA IdleShape == ThreadRecord(Idle) /\ Idle.pc = "idle" /\ ~Looking(Idle)
BY DEF Idle, ThreadRecord, Slots, Looking

LEMMA InitMutexInv == Init => MutexInv
<1> SUFFICES ASSUME Init PROVE MutexInv
  OBVIOUS
<1>1. /\ th = [t \in Threads |-> Idle] /\ mutex = [k \in Keys |-> None]
      /\ load \in Loads
  BY DEF Init
<1>2. \A t \in Threads : th[t] = Idle
  BY <1>1
<1>3. Shape
  BY <1>1, <1>2, IdleShape DEF Shape
<1>4. MutexHasWorker
  BY <1>1 DEF MutexHasWorker
<1>5. QED BY <1>3, <1>4 DEF MutexInv

(* A thread that holds no mutex may change as it likes, as long as the      *)
(* mutexes stay and its record keeps its shape.                             *)
LEMMA FreeThread ==
    ASSUME MutexInv, NEW t \in Threads, NEW r,
           ThreadRecord(r), Looking(r) => r.todo # <<>>,
           \/ th[t].pc \notin {"create", "store"}
           \/ r.pc \in {"create", "store"} /\ r.todo = th[t].todo,
           th' = [th EXCEPT ![t] = r], UNCHANGED <<mutex, load>>
    PROVE  MutexInv'
<1>1. /\ th' = [u \in Threads |-> th'[u]]
      /\ th'[t] = r /\ \A u \in Threads \ {t} : th'[u] = th[u]
  BY DEF MutexInv, Shape
<1>2. Shape'
  BY <1>1 DEF MutexInv, Shape
<1>3. ASSUME NEW k \in Keys, mutex'[k] # None
      PROVE  /\ th'[mutex'[k]].pc \in {"create", "store"}
             /\ th'[mutex'[k]].todo # <<>> /\ Head(th'[mutex'[k]].todo) = k
  <2>1. mutex'[k] = mutex[k] /\ mutex[k] \in Threads
    BY <1>3 DEF MutexInv, Shape
  <2>2. /\ th[mutex[k]].pc \in {"create", "store"}
        /\ th[mutex[k]].todo # <<>> /\ Head(th[mutex[k]].todo) = k
    BY <1>3, <2>1 DEF MutexInv, MutexHasWorker
  <2>3. CASE mutex[k] = t  BY <2>1, <2>2, <2>3, <1>1
  <2>4. CASE mutex[k] # t  BY <2>1, <2>2, <2>4, <1>1
  <2>5. QED BY <2>3, <2>4
<1>4. QED BY <1>2, <1>3 DEF MutexInv, MutexHasWorker

(* A thread that lets go of the mutex of the query it works on holds none.  *)
LEMMA Release ==
    ASSUME MutexInv, NEW t \in Threads, NEW r,
           ThreadRecord(r), Looking(r) => r.todo # <<>>,
           th' = [th EXCEPT ![t] = r], UNCHANGED load,
           mutex' = [mutex EXCEPT ![Head(th[t].todo)] = None]
    PROVE  MutexInv'
<1>1. /\ th' = [u \in Threads |-> th'[u]]
      /\ th'[t] = r /\ \A u \in Threads \ {t} : th'[u] = th[u]
  BY DEF MutexInv, Shape
<1>2. /\ mutex' \in [Keys -> Threads \cup {None}]
      /\ \A k \in Keys : mutex'[k] = IF k = Head(th[t].todo) THEN None ELSE mutex[k]
  BY DEF MutexInv, Shape
<1>3. Shape'
  BY <1>1, <1>2 DEF MutexInv, Shape
<1>4. ASSUME NEW k \in Keys, mutex'[k] # None
      PROVE  /\ th'[mutex'[k]].pc \in {"create", "store"}
             /\ th'[mutex'[k]].todo # <<>> /\ Head(th'[mutex'[k]].todo) = k
  <2>1. k # Head(th[t].todo) /\ mutex'[k] = mutex[k] /\ mutex[k] # None
    BY <1>2, <1>4
  <2>2. /\ th[mutex[k]].pc \in {"create", "store"}
        /\ th[mutex[k]].todo # <<>> /\ Head(th[mutex[k]].todo) = k
    BY <2>1 DEF MutexInv, MutexHasWorker
  <2>3. mutex[k] \in Threads \ {t}
    BY <2>1, <2>2 DEF MutexInv, Shape
  <2>4. QED BY <2>1, <2>2, <2>3, <1>1
<1>5. QED BY <1>3, <1>4 DEF MutexInv, MutexHasWorker

(* A plan sets no program point but the three a handler can begin with, and *)
(* logs to one of the two logs.                                             *)
LEMMA PlanFacts ==
    ASSUME NEW in, in.handler \in Handlers, NEW p \in Plans(in)
    PROVE  /\ p.pc \in {"", "ttl", "history"}
           /\ p.log \in {None, "request", "wx_request"}
<1>3. CASE in.handler = "wx_stations"
  <2>1. Plans(in) = WxStations(in)
    BY <1>3 DEF Plans
  <2>2. PICK q \in Plan(RequireAppkey(in), NoQuery, None) : p = [q EXCEPT !.pc = "ttl"]
    BY <2>1 DEF WxStations
  <2>3. PICK todo : q = [pc |-> "", todo |-> todo, log |-> None]
    BY DEF Plan
  <2>4. QED BY <2>2, <2>3
<1>4. CASE in.handler = "wx_history"
  <2>1. Plans(in) = WxHistory(in)
    BY <1>4 DEF Plans
  <2>2. PICK q, todo : /\ q = [pc |-> "", todo |-> todo, log |-> None]
                       /\ p = [q EXCEPT !.pc = "history"]
    BY <2>1 DEF WxHistory, Plan
  <2>3. QED BY <2>2
<1>5. CASE in.handler \notin {"wx_stations", "wx_history"}
  <2>1. CASE in.handler = "nearest"
    <3>1. Plans(in) = Nearest(in)  BY <2>1 DEF Plans
    <3>2. PICK todo, log : /\ log \in {None, "request", "wx_request"}
                            /\ p = [pc |-> "", todo |-> todo, log |-> log]
      BY <3>1 DEF Nearest, Plan
    <3>3. QED BY <3>2
  <2>2. CASE in.handler = "wxnearest"
    <3>1. Plans(in) = WxNearest(in)  BY <2>2 DEF Plans
    <3>2. PICK todo, log : /\ log \in {None, "request", "wx_request"}
                            /\ p = [pc |-> "", todo |-> todo, log |-> log]
      BY <3>1 DEF WxNearest, Plan
    <3>3. QED BY <3>2
  <2>3. CASE in.handler = "requests"
    <3>1. Plans(in) = Requests(in)  BY <2>3 DEF Plans
    <3>2. PICK todo, log : /\ log \in {None, "request", "wx_request"}
                            /\ p = [pc |-> "", todo |-> todo, log |-> log]
      BY <3>1 DEF Requests, Plan
    <3>3. QED BY <3>2
  <2>4. CASE in.handler = "wxrequests"
    <3>1. Plans(in) = WxRequests(in)  BY <2>4 DEF Plans
    <3>2. PICK todo, log : /\ log \in {None, "request", "wx_request"}
                            /\ p = [pc |-> "", todo |-> todo, log |-> log]
      BY <3>1 DEF WxRequests, Plan
    <3>3. QED BY <3>2
  <2>5. CASE in.handler = "stations"
    <3>1. Plans(in) = Stations(in)  BY <2>5 DEF Plans
    <3>2. PICK todo, log : /\ log \in {None, "request", "wx_request"}
                            /\ p = [pc |-> "", todo |-> todo, log |-> log]
      BY <3>1 DEF Stations, Plan
    <3>3. QED BY <3>2
  <2>6. CASE in.handler = "wxstation_report"
    <3>1. Plans(in) = WxStationReport(in)  BY <2>6 DEF Plans
    <3>2. PICK todo, log : /\ log \in {None, "request", "wx_request"}
                            /\ p = [pc |-> "", todo |-> todo, log |-> log]
      BY <3>1 DEF WxStationReport, Plan
    <3>3. QED BY <3>2
  <2>7. CASE in.handler = "aprsfi_location"
    <3>1. Plans(in) = AprsfiLocation(in)  BY <2>7 DEF Plans
    <3>2. PICK todo, log : /\ log \in {None, "request", "wx_request"}
                            /\ p = [pc |-> "", todo |-> todo, log |-> log]
      BY <3>1 DEF AprsfiLocation, Plan
    <3>3. QED BY <3>2
  <2>8. CASE in.handler = "location"
    <3>1. Plans(in) = Location(in)  BY <2>8 DEF Plans
    <3>2. PICK todo, log : /\ log \in {None, "request", "wx_request"}
                            /\ p = [pc |-> "", todo |-> todo, log |-> log]
      BY <3>1 DEF Location, Plan
    <3>3. QED BY <3>2
  <2>9. QED BY <1>5, <2>1, <2>2, <2>3, <2>4, <2>5, <2>6, <2>7, <2>8 DEF Handlers
<1>6. QED BY <1>3, <1>4, <1>5

-----------------------------------------------------------------------------
(* One lemma per kind of step. *)

LEMMA BeginMutexInv ==
    ASSUME MutexInv, NEW t \in Threads, NEW in \in load.inputs, Begin(t, in)
    PROVE  MutexInv'
<1>1. PICK p \in Plans(in) :
         th' = [th EXCEPT ![t] = [Idle EXCEPT
                        !.pc = IF p.pc # "" THEN p.pc ELSE Rest(p.todo, p.log),
                        !.todo = p.todo, !.log = p.log]]
  BY DEF Begin
<1> DEFINE r == [Idle EXCEPT !.pc = IF p.pc # "" THEN p.pc ELSE Rest(p.todo, p.log),
                             !.todo = p.todo, !.log = p.log]
<1>2. in.handler \in Handlers
  BY RestApiAssumption DEF MutexInv, Shape
<1>3. p.pc \in {"", "ttl", "history"}
  BY <1>2, PlanFacts
<1>4. ThreadRecord(r) /\ r.pc = (IF p.pc # "" THEN p.pc ELSE Rest(p.todo, p.log)) /\ r.todo = p.todo
  BY DEF ThreadRecord, Slots, Idle
<1> HIDE DEF r
<1>5. Looking(r) => r.todo # <<>>
  BY <1>3, <1>4 DEF Looking, Rest
<1>6. th[t].pc \notin {"create", "store"} /\ UNCHANGED <<mutex, load>>
  BY DEF Begin, db, caches
<1>7. QED BY <1>1, <1>4, <1>5, <1>6, FreeThread DEF r

(* An answered request leaves an idle thread. *)
LEMMA AnswerMutexInv ==
    ASSUME MutexInv, NEW t \in Threads, Answer(t),
           th[t].pc \notin {"create", "store"}, UNCHANGED <<mutex, load>>
    PROVE  MutexInv'
BY IdleShape, FreeThread DEF Answer

(* A thread that asks for a value meets none, an expired or a fresh one.    *)
LEMMA GetRecord ==
    ASSUME Shape, NEW t \in Threads, Get(t), NEW k, k = Head(th[t].todo)
    PROVE  /\ th[t].pc = "get" /\ th' = [th EXCEPT ![t] = th'[t]] /\ ThreadRecord(th'[t])
           /\ th'[t].todo = th[t].todo /\ th'[t].log = th[t].log /\ th'[t].held = th[t].held
           /\ \/ th'[t].pc \in {"wait", "try"} /\ th'[t].need = Demand(k)
              \/ /\ th'[t].pc = "found" /\ region[k] # None /\ ~Expired(region[k])
                 /\ th'[t].missing = Missing(region[k].val, k, Demand(k))
<1> DEFINE e == region[k]
<1>1. th[t].pc = "get" /\ ThreadRecord(th[t])
  BY DEF Get, Shape
<1>2. CASE e = None /\ th' = [th EXCEPT ![t].pc = "wait", ![t].need = Demand(k)]
  <2>1. th' = [th EXCEPT ![t] = [th[t] EXCEPT !.pc = "wait", !.need = Demand(k)]]
    BY <1>2 DEF Shape
  <2>2. th'[t] = [th[t] EXCEPT !.pc = "wait", !.need = Demand(k)] /\ th' = [th EXCEPT ![t] = th'[t]]
    BY <2>1 DEF Shape
  <2>3. QED BY <1>1, <2>2 DEF ThreadRecord, Slots
<1>3. CASE /\ e # None
           /\ th' = [th EXCEPT ![t].pc = "try", ![t].need = Demand(k), ![t].val = e.val]
  <2>1. th' = [th EXCEPT ![t] = [th[t] EXCEPT !.pc = "try", !.need = Demand(k), !.val = e.val]]
    BY <1>3 DEF Shape
  <2>2. /\ th'[t] = [th[t] EXCEPT !.pc = "try", !.need = Demand(k), !.val = e.val]
        /\ th' = [th EXCEPT ![t] = th'[t]]
    BY <2>1 DEF Shape
  <2>3. QED BY <1>1, <2>2 DEF ThreadRecord, Slots
<1>4. CASE /\ e # None /\ ~Expired(e)
           /\ th' = [th EXCEPT ![t].pc = "found", ![t].missing = Missing(e.val, k, Demand(k))]
  <2>1. PICK missing : missing = Missing(e.val, k, Demand(k))
    OBVIOUS
  <2>2. th' = [th EXCEPT ![t] = [th[t] EXCEPT !.pc = "found", !.missing = missing]]
    BY <1>4, <2>1 DEF Shape
  <2>3. /\ th'[t] = [th[t] EXCEPT !.pc = "found", !.missing = missing]
        /\ th' = [th EXCEPT ![t] = th'[t]]
    BY <2>2 DEF Shape
  <2>4. /\ ThreadRecord(th'[t]) /\ th'[t].pc = "found" /\ th'[t].missing = missing
        /\ th'[t].todo = th[t].todo /\ th'[t].log = th[t].log /\ th'[t].held = th[t].held
    BY <1>1, <2>3 DEF ThreadRecord, Slots
  <2>5. QED BY <1>1, <1>4, <2>1, <2>3, <2>4
<1>5. QED BY <1>2, <1>3, <1>4 DEF Get

LEMMA GetMutexInv ==
    ASSUME MutexInv, NEW t \in Threads, Get(t)
    PROVE  MutexInv'
<1>1. th[t].pc = "get" /\ th[t].todo # <<>> /\ UNCHANGED <<mutex, load>>
  BY DEF Get, MutexInv, Shape, Looking, db, caches
<1>2. th' = [th EXCEPT ![t] = th'[t]] /\ ThreadRecord(th'[t]) /\ th'[t].todo = th[t].todo
  BY GetRecord DEF MutexInv
<1>3. QED BY <1>1, <1>2, FreeThread

(* The record of a thread whose lookup has ended. *)
LEMMA FoundShape ==
    ASSUME NEW todo, NEW log, NEW missing
    PROVE  LET r == [Idle EXCEPT !.pc = "found", !.todo = todo, !.log = log, !.missing = missing]
           IN  ThreadRecord(r) /\ ~Looking(r)
BY DEF Idle, ThreadRecord, Slots, Looking

LEMMA AcquireMutexInv ==
    ASSUME MutexInv, NEW t \in Threads, Acquire(t)
    PROVE  MutexInv'
<1> DEFINE k == Head(th[t].todo)
<1>1. /\ th[t].pc \in {"wait", "try"} /\ th[t].todo # <<>> /\ ThreadRecord(th[t])
      /\ mutex[k] = None /\ UNCHANGED load
  BY DEF Acquire, MutexInv, Shape, Looking, db
<1>2. CASE th[t].pc = "wait" /\ region[k] # None /\ ~Expired(region[k])
  <2>1. Found(t, region[k].val) /\ UNCHANGED <<mutex, load>>
    BY <1>1, <1>2 DEF Acquire, Enter
  <2>2. QED BY <1>1, <2>1, FoundShape, FreeThread DEF Found
<1>3. CASE ~(th[t].pc = "wait" /\ region[k] # None /\ ~Expired(region[k]))
  <2> DEFINE r == [th[t] EXCEPT !.pc = "create", !.val = {}]
  <2>1. th' = [th EXCEPT ![t] = r] /\ mutex' = [mutex EXCEPT ![k] = t]
    BY <1>3 DEF Acquire, Enter, MutexInv, Shape
  <2>2. ThreadRecord(r) /\ r.pc = "create" /\ r.todo = th[t].todo
    BY <1>1 DEF ThreadRecord, Slots
  <2> HIDE DEF r
  <2>3. /\ th' = [u \in Threads |-> th'[u]]
        /\ th'[t] = r /\ \A u \in Threads \ {t} : th'[u] = th[u]
    BY <2>1 DEF MutexInv, Shape
  <2>4. /\ mutex' \in [Keys -> Threads \cup {None}]
        /\ \A q \in Keys : mutex'[q] = IF q = k THEN t ELSE mutex[q]
    BY <2>1 DEF MutexInv, Shape
  <2>5. Shape'
    BY <1>1, <2>2, <2>3, <2>4 DEF MutexInv, Shape
  <2>6. ASSUME NEW q \in Keys, mutex'[q] # None
        PROVE  /\ th'[mutex'[q]].pc \in {"create", "store"}
               /\ th'[mutex'[q]].todo # <<>> /\ Head(th'[mutex'[q]].todo) = q
    <3>1. CASE q = k  BY <1>1, <2>2, <2>3, <2>4, <3>1
    <3>2. CASE q # k
      <4>1. mutex'[q] = mutex[q] /\ mutex[q] \in Threads
        BY <2>4, <2>6, <3>2 DEF MutexInv, Shape
      <4>2. /\ th[mutex[q]].pc \in {"create", "store"}
            /\ th[mutex[q]].todo # <<>> /\ Head(th[mutex[q]].todo) = q
        BY <2>6, <4>1 DEF MutexInv, MutexHasWorker
      <4>3. mutex[q] # t  BY <1>1, <4>2
      <4>4. QED BY <2>3, <4>1, <4>2, <4>3
    <3>3. QED BY <3>1, <3>2
  <2>7. QED BY <2>5, <2>6 DEF MutexInv, MutexHasWorker
<1>4. QED BY <1>2, <1>3

LEMMA CreateMutexInv ==
    ASSUME MutexInv, NEW t \in Threads, Create(t)
    PROVE  MutexInv'
<1> DEFINE r == [th[t] EXCEPT !.pc = "store", !.val = Query(Head(th[t].todo))]
<1>1. th[t].pc = "create" /\ th[t].todo # <<>> /\ ThreadRecord(th[t]) /\ UNCHANGED <<mutex, load>>
  BY DEF Create, MutexInv, Shape, Looking, db, caches
<1>2. th' = [th EXCEPT ![t] = r]
  BY DEF Create, MutexInv, Shape
<1>3. ThreadRecord(r) /\ r.pc = "store" /\ r.todo = th[t].todo
  BY <1>1 DEF ThreadRecord, Slots
<1> HIDE DEF r
<1>4. QED BY <1>1, <1>2, <1>3, FreeThread

LEMMA CreateFailsMutexInv ==
    ASSUME MutexInv, NEW t \in Threads, CreateFails(t)
    PROVE  MutexInv'
BY IdleShape, Release DEF CreateFails, Answer, db

LEMMA StoreMutexInv ==
    ASSUME MutexInv, NEW t \in Threads, Store(t)
    PROVE  MutexInv'
<1>1. /\ Found(t, th[t].val) /\ UNCHANGED load
      /\ mutex' = [mutex EXCEPT ![Head(th[t].todo)] = None]
  BY DEF Store, db
<1>2. QED BY <1>1, FoundShape, Release DEF Found

(* Steps that change the program point and other slots of a thread that     *)
(* neither looks anything up nor will: they hold no mutex before or after.  *)
LEMMA MoveMutexInv ==
    ASSUME MutexInv, NEW t \in Threads, NEW r,
           th[t].pc \notin {"create", "store"}, ThreadRecord(r), ~Looking(r),
           th' = [th EXCEPT ![t] = r], UNCHANGED <<mutex, load>>
    PROVE  MutexInv'
BY FreeThread

LEMMA UseMutexInv ==
    ASSUME MutexInv, NEW t \in Threads, Use(t)
    PROVE  MutexInv'
<1> DEFINE r == [Idle EXCEPT !.pc = Rest(Tail(th[t].todo), th[t].log),
                             !.todo = Tail(th[t].todo), !.log = th[t].log]
<1>1. ThreadRecord(r) /\ r.pc = Rest(Tail(th[t].todo), th[t].log) /\ r.todo = Tail(th[t].todo)
  BY DEF ThreadRecord, Slots, Idle
<1>2. th' = [th EXCEPT ![t] = r] /\ th[t].pc = "found" /\ UNCHANGED <<mutex, load>>
  BY DEF Use, db, caches
<1> HIDE DEF r
<1>3. Looking(r) => r.todo # <<>>
  BY <1>1 DEF Looking, Rest
<1>4. QED BY <1>1, <1>2, <1>3, FreeThread

LEMMA LogMutexInv ==
    ASSUME MutexInv, NEW t \in Threads,
           Flush(t) \/ Commit(t) \/ CommitFails(t) \/ Invalidate(t)
    PROVE  MutexInv'
<1>1. ThreadRecord(th[t])  BY DEF MutexInv, Shape
<1>2. CASE Flush(t)
  <2> DEFINE r == [th[t] EXCEPT !.pc = "commit", !.row = next[th[t].log] + 1]
  <2>1. th' = [th EXCEPT ![t] = r]  BY <1>2 DEF Flush, MutexInv, Shape
  <2>2. ThreadRecord(r) /\ ~Looking(r)  BY <1>1 DEF ThreadRecord, Slots, Looking
  <2> HIDE DEF r
  <2>3. QED BY <1>2, <2>1, <2>2, MoveMutexInv DEF Flush, caches
<1>3. CASE Commit(t)
  <2> DEFINE r == [th[t] EXCEPT !.pc = "invalidate"]
  <2>1. th' = [th EXCEPT ![t] = r]  BY <1>3 DEF Commit, MutexInv, Shape
  <2>2. ThreadRecord(r) /\ ~Looking(r)  BY <1>1 DEF ThreadRecord, Slots, Looking
  <2> HIDE DEF r
  <2>3. QED BY <1>3, <2>1, <2>2, MoveMutexInv DEF Commit, caches
<1>4. CASE CommitFails(t)  BY <1>4, AnswerMutexInv DEF CommitFails, db, caches
<1>5. CASE Invalidate(t)  BY <1>5, AnswerMutexInv DEF Invalidate, db
<1>6. QED BY <1>2, <1>3, <1>4, <1>5

LEMMA WxStationsMutexInv ==
    ASSUME MutexInv, NEW t \in Threads, TtlGet(t) \/ TtlRead(t) \/ TtlStore(t) \/ TtlUse(t)
    PROVE  MutexInv'
<1>1. ThreadRecord(th[t])  BY DEF MutexInv, Shape
<1>2. CASE TtlGet(t) /\ ttlCache # None
  <2> DEFINE r == [th[t] EXCEPT !.pc = "listed", !.val = ttlCache.val]
  <2>1. th' = [th EXCEPT ![t] = r]  BY <1>2 DEF TtlGet, MutexInv, Shape
  <2>2. ThreadRecord(r) /\ ~Looking(r)  BY <1>1 DEF ThreadRecord, Slots, Looking
  <2> HIDE DEF r
  <2>3. QED BY <1>2, <2>1, <2>2, MoveMutexInv DEF TtlGet, db, caches
<1>3. CASE TtlGet(t) /\ ttlCache = None
  <2> DEFINE r == [th[t] EXCEPT !.pc = "ttlRead"]
  <2>1. th' = [th EXCEPT ![t] = r]  BY <1>3 DEF TtlGet, MutexInv, Shape
  <2>2. ThreadRecord(r) /\ ~Looking(r)  BY <1>1 DEF ThreadRecord, Slots, Looking
  <2> HIDE DEF r
  <2>3. QED BY <1>3, <2>1, <2>2, MoveMutexInv DEF TtlGet, db, caches
<1>4. CASE TtlRead(t)
  <2> DEFINE r == [th[t] EXCEPT !.pc = "ttlStore", !.val = DOMAIN stations]
  <2>1. th' = [th EXCEPT ![t] = r]  BY <1>4 DEF TtlRead, MutexInv, Shape
  <2>2. ThreadRecord(r) /\ ~Looking(r)  BY <1>1 DEF ThreadRecord, Slots, Looking
  <2> HIDE DEF r
  <2>3. QED BY <1>4, <2>1, <2>2, MoveMutexInv DEF TtlRead, db, caches
<1>5. CASE TtlStore(t)
  <2> DEFINE r == [th[t] EXCEPT !.pc = "listed", !.held = 0]
  <2>1. th' = [th EXCEPT ![t] = r]  BY <1>5 DEF TtlStore, MutexInv, Shape
  <2>2. ThreadRecord(r) /\ ~Looking(r)  BY <1>1 DEF ThreadRecord, Slots, Looking
  <2> HIDE DEF r
  <2>3. QED BY <1>5, <2>1, <2>2, MoveMutexInv DEF TtlStore, db
<1>6. CASE TtlUse(t)  BY <1>6, AnswerMutexInv DEF TtlUse, db, caches
<1>7. QED BY <1>2, <1>3, <1>4, <1>5, <1>6

LEMMA StepMutexInv ==
    ASSUME MutexInv, NEW t \in Threads, Step(t)
    PROVE  MutexInv'
<1>1. CASE SendHistory(t)  BY <1>1, AnswerMutexInv DEF SendHistory, db, caches
<1>2. CASE InProgressElsewhere(t)
  <2>1. Found(t, th[t].val) /\ th[t].pc = "try" /\ UNCHANGED <<mutex, load>>
    BY <1>2 DEF InProgressElsewhere, db, caches
  <2>2. QED BY <2>1, FoundShape, MoveMutexInv DEF Found
<1>3. QED BY <1>1, <1>2, GetMutexInv, AcquireMutexInv, CreateMutexInv, CreateFailsMutexInv,
             StoreMutexInv, UseMutexInv, LogMutexInv, WxStationsMutexInv DEF Step

(* Time passes: only the time a thread has held what it read changes.       *)
LEMMA TickMutexInv == MutexInv /\ Tick => MutexInv'
<1> SUFFICES ASSUME MutexInv, Tick PROVE MutexInv'
  OBVIOUS
<1>1. /\ th' = [t \in Threads |-> IF InFlight(t) THEN [th[t] EXCEPT !.held = @ + 1] ELSE th[t]]
      /\ UNCHANGED <<mutex, load>>
  BY DEF Tick
<1>2. ASSUME NEW t \in Threads
      PROVE  ThreadRecord(th'[t]) /\ th'[t].pc = th[t].pc /\ th'[t].todo = th[t].todo
  <2>1. ThreadRecord(th[t])  BY DEF MutexInv, Shape
  <2>2. CASE InFlight(t)
    <3>1. th'[t] = [th[t] EXCEPT !.held = @ + 1]  BY <1>1, <2>2
    <3>2. QED BY <2>1, <3>1 DEF ThreadRecord, Slots
  <2>3. CASE ~InFlight(t)
    <3>1. th'[t] = th[t]  BY <1>1, <2>3
    <3>2. QED BY <2>1, <3>1
  <2>4. QED BY <2>2, <2>3
<1>3. Shape'
  BY <1>1, <1>2 DEF MutexInv, Shape, Looking
<1>4. ASSUME NEW k \in Keys, mutex'[k] # None
      PROVE  /\ th'[mutex'[k]].pc \in {"create", "store"}
             /\ th'[mutex'[k]].todo # <<>> /\ Head(th'[mutex'[k]].todo) = k
  <2>1. mutex'[k] = mutex[k] /\ mutex[k] \in Threads
    BY <1>1, <1>4 DEF MutexInv, Shape
  <2>2. /\ th[mutex[k]].pc \in {"create", "store"}
        /\ th[mutex[k]].todo # <<>> /\ Head(th[mutex[k]].todo) = k
    BY <1>4, <2>1 DEF MutexInv, MutexHasWorker
  <2>3. QED BY <1>2, <2>1, <2>2
<1>5. QED BY <1>3, <1>4 DEF MutexInv, MutexHasWorker

LEMMA NextMutexInv == MutexInv /\ [Next]_vars => MutexInv'
<1> SUFFICES ASSUME MutexInv, [Next]_vars PROVE MutexInv'
  OBVIOUS
<1>1. ASSUME UNCHANGED <<th, mutex, load>> PROVE MutexInv'
  BY <1>1 DEF MutexInv, Shape, MutexHasWorker, Looking
<1>2. CASE \E t \in Threads : Step(t) \/ \E in \in load.inputs : Begin(t, in)
  BY <1>2, StepMutexInv, BeginMutexInv
<1>3. CASE \E tab \in Ingested : IngestRow(tab)
  BY <1>1, <1>3 DEF IngestRow, caches
<1>4. CASE NewStation
  BY <1>1, <1>4 DEF NewStation, caches
<1>5. CASE Tick
  BY <1>5, TickMutexInv
<1>6. CASE UNCHANGED vars
  BY <1>1, <1>6 DEF vars
<1>7. QED BY <1>2, <1>3, <1>4, <1>5, <1>6 DEF Next

(* A creation mutex of the query cache is held only by the thread that      *)
(* regenerates that very answer: no failing query or commit leaves one      *)
(* behind (caching_query.py, ORMCache with dogpile's lock).                 *)
THEOREM MutexNeverLeaks == Spec => []MutexHasWorker
<1>1. MutexInv => MutexHasWorker  BY DEF MutexInv
<1>2. QED BY <1>1, InitMutexInv, NextMutexInv, PTL DEF Spec

-----------------------------------------------------------------------------
(* What a thread may answer.  First its own record: how long it has held    *)
(* what it read, what it still has to look up, and the row it logs.         *)

RecordOk(r) ==
    /\ r.held \in 0 .. Hold
    /\ r.pc \notin {"store", "ttlStore"} => r.held = 0
    /\ r.todo \in Seq(Keys)
    /\ r.pc = "found" => r.todo # <<>>
    /\ r.log \in Logs \cup {None}
    /\ r.pc \in {"log", "commit", "invalidate"} => r.log \in Logs
    /\ r.pc \in {"commit", "invalidate"} => r.row \in Nat

RecordsInv == \A t \in Threads : RecordOk(th[t])

(* wx_stations.  An answer lacks only stations that are younger than the    *)
(* time since it was read.                                                  *)
Lacks(val, bound) == \A i \in DOMAIN stations : i \in val \/ stations[i] <= bound

WxListInv ==
    /\ stations \in Seq(0 .. WxHorizon)
    /\ ttlCache # None =>
          /\ ttlCache = [val |-> ttlCache.val, age |-> ttlCache.age]
          /\ ttlCache.age \in 0 .. Ttl - 1 /\ Lacks(ttlCache.val, ttlCache.age + Hold)
    /\ \A t \in Threads :
          /\ th[t].pc = "ttlStore" => Lacks(th[t].val, th[t].held)
          /\ th[t].pc = "listed" => Lacks(th[t].val, WxHorizon - 1)

(* The query cache.  A row is shown by an answer, or is older than all the  *)
(* answer has room for.                                                     *)
Shown(val, k, r) == r \in val \/ ~(Cardinality({v \in val : v > r}) < k.size)
ShowsAll(val, k, S) == \A r \in S : Shown(val, k, r)
ShowsOld(val, k, bound) ==
    \A r \in rows[k.table] : Shown(val, k, r) \/ AgeOf(k.table, r) <= bound

TablesInv ==
    /\ rows = [tab \in Tables |-> rows[tab]] /\ next \in [Tables -> Nat]
    /\ age = [tab \in Tables |-> age[tab]]
    /\ \A tab \in Tables :
          /\ IsFiniteSet(rows[tab]) /\ rows[tab] \subseteq Nat
          /\ DOMAIN age[tab] \subseteq rows[tab]
          /\ \A r \in DOMAIN age[tab] : age[tab][r] \in 0 .. Horizon
    /\ due = [k \in Keys |-> due[k]] /\ \A k \in Keys : due[k] \subseteq rows[k.table]

EntryOk(k) ==
    region[k] # None =>
        /\ region[k] = [f \in {"val", "life"} |-> region[k][f]]
        /\ region[k].life \in 0 .. Expire + 1
        /\ region[k].life # 0 =>
              /\ ShowsAll(region[k].val, k, due[k])
              /\ ShowsOld(region[k].val, k, Expire + 1 - region[k].life + Hold)

Works(r, k) == r.todo # <<>> /\ Head(r.todo) = k
LookupOk(t) ==
    /\ th[t].pc = "invalidate" => th[t].row \in rows[th[t].log]
    /\ \A k \in Keys : Works(th[t], k) =>
          /\ th[t].pc \in {"create", "store"} => mutex[k] = t
          /\ th[t].pc \in {"wait", "try", "create", "store"} => th[t].need \subseteq Demand(k)
          /\ th[t].pc = "store" =>
                /\ th[t].val \subseteq rows[k.table]
                /\ ShowsAll(th[t].val, k, due[k])
                /\ ShowsOld(th[t].val, k, th[t].held)

RegionInv == region = [k \in Keys |-> region[k]] /\ \A k \in Keys : EntryOk(k)
LookupInv == \A t \in Threads : LookupOk(t)

ListInv == TablesInv /\ RegionInv /\ LookupInv

-----------------------------------------------------------------------------
(* Of the rows there are, the newest n leave out only rows older than all n.*)
LEMMA NewestShows ==
    ASSUME NEW S, IsFiniteSet(S), S \subseteq Nat, NEW n \in Nat, NEW r \in S
    PROVE  r \in Newest(S, n) \/ ~(Cardinality({v \in Newest(S, n) : v > r}) < n)
<1> DEFINE W == Newest(S, n)
           Above(x) == {s \in S : s > x}
           New == {v \in W : v > r}
<1>0. W = {x \in S : Cardinality(Above(x)) < n}  BY DEF Newest
<1>1. SUFFICES ASSUME r \notin W, Cardinality(New) < n PROVE FALSE
  OBVIOUS
<1>2. \A x \in S : IsFiniteSet(Above(x)) /\ Cardinality(Above(x)) \in Nat
  <2>1. \A x \in S : Above(x) \in SUBSET S  OBVIOUS
  <2>2. \A T \in SUBSET S : IsFiniteSet(T)  BY FS_Subset
  <2>3. \A T \in SUBSET S : Cardinality(T) \in Nat  BY <2>2, FS_CardinalityType
  <2>4. QED BY <2>1, <2>2, <2>3
<1>3. IsFiniteSet(New)
  <2>1. New \in SUBSET S  BY <1>0
  <2>2. QED BY <2>1, FS_Subset
<1> HIDE DEF W
<1>4. Above(r) \ W # {}
  <2>1. SUFFICES ASSUME Above(r) \subseteq W PROVE FALSE  OBVIOUS
  <2>2. Above(r) \subseteq New  BY <2>1
  <2>3. Cardinality(Above(r)) <= Cardinality(New)  BY <1>3, <2>2, FS_Subset
  <2>4. Cardinality(Above(r)) \in Nat /\ Cardinality(New) \in Nat  BY <1>2, <1>3, FS_CardinalityType
  <2>5. ~(Cardinality(Above(r)) < n)  BY <1>0, <1>1
  <2>6. QED BY <1>1, <2>3, <2>4, <2>5
<1> DEFINE Sizes == {Cardinality(Above(x)) : x \in Above(r) \ W}
<1>5. Sizes \subseteq Nat /\ Sizes # {}  BY <1>2, <1>4
<1>6. PICK least \in Sizes : \A k \in Sizes : least <= k  BY <1>5, LeastNumber
<1>7. PICK m \in Above(r) \ W : least = Cardinality(Above(m))  BY <1>6
<1>8. Above(m) \subseteq W
  <2>1. SUFFICES ASSUME NEW s \in Above(m), s \notin W PROVE FALSE  OBVIOUS
  <2>2. s \in Nat /\ m \in Nat /\ r \in Nat /\ s > m /\ m > r  BY <1>7
  <2>3. s \in Above(r) \ W  BY <2>1, <2>2
  <2>4. Cardinality(Above(m)) <= Cardinality(Above(s))  BY <1>6, <1>7, <2>3
  <2>5. Above(s) \subseteq Above(m)
    <3>1. \A y \in Nat : y > s => y > m  BY <2>2
    <3>2. QED BY <3>1
  <2>6. Cardinality(Above(s)) <= Cardinality(Above(m))  BY <1>2, <1>7, <2>5, FS_Subset
  <2>7. Cardinality(Above(s)) = Cardinality(Above(m))
    BY <1>2, <1>7, <2>3, <2>4, <2>6
  <2>8. Above(s) = Above(m)  BY <1>2, <1>7, <2>5, <2>7, FS_Subset
  <2>9. s \notin Above(s)  BY <2>2
  <2>10. QED BY <2>1, <2>8, <2>9
<1>9. Above(m) \subseteq New  BY <1>7, <1>8
<1>10. Cardinality(Above(m)) <= Cardinality(New)  BY <1>3, <1>9, FS_Subset
<1>11. Cardinality(Above(m)) \in Nat /\ Cardinality(New) \in Nat
  BY <1>2, <1>3, <1>7, FS_CardinalityType
<1>12. Cardinality(Above(m)) < n  BY <1>1, <1>10, <1>11
<1>13. m \in W  BY <1>0, <1>7, <1>12
<1>14. QED BY <1>7, <1>13

-----------------------------------------------------------------------------
(* RecordsInv: one step of a thread at a time.                              *)

LEMMA IdleRecord == RecordOk(Idle) /\ Idle.pc = "idle" /\ Idle.held = 0
<1>1. Idle.pc = "idle" /\ Idle.held = 0 /\ Idle.todo = <<>> /\ Idle.log = None
  BY DEF Idle
<1>2. <<>> \in Seq(Keys)  OBVIOUS
<1>3. QED BY <1>1, <1>2, RestApiAssumption DEF RecordOk

(* Only the thread that takes the step changes its record. *)
LEMMA OtherRecords ==
    ASSUME Shape, NEW t \in Threads, Step(t) \/ \E in \in load.inputs : Begin(t, in)
    PROVE  \A u \in Threads \ {t} : th'[u] = th[u]
BY DEF Shape, Step, SendHistory, Get, Acquire, Enter, InProgressElsewhere, Create, CreateFails, Store,
       Use, Flush, Commit, CommitFails, Invalidate, TtlGet, TtlRead, TtlStore, TtlUse, Begin,
       Found, Answer

(* A lookup has ended: the rest of the handler is still to come. *)
LEMMA FoundRecord ==
    ASSUME Shape, RecordsInv, NEW t \in Threads, NEW val, Found(t, val), Looking(th[t])
    PROVE  /\ RecordOk(th'[t]) /\ th'[t].pc = "found"
           /\ th'[t].missing = Missing(val, Head(th[t].todo), th[t].need)
<1>1. PICK missing : missing = Missing(val, Head(th[t].todo), th[t].need)
  OBVIOUS
<1>2. th'[t] = [Idle EXCEPT !.pc = "found", !.todo = th[t].todo, !.log = th[t].log,
                  !.missing = missing]
  BY <1>1 DEF Found, Shape
<1>3. /\ th'[t].pc = "found" /\ th'[t].todo = th[t].todo /\ th'[t].log = th[t].log
      /\ th'[t].held = Idle.held /\ th'[t].missing = missing
  BY <1>2 DEF Idle
<1>4. th[t].todo # <<>>  BY DEF Shape
<1>5. QED BY <1>1, <1>3, <1>4, IdleRecord DEF RecordsInv, RecordOk

LEMMA StepRecord ==
    ASSUME Shape, TablesInv, RecordsInv, NEW t \in Threads, Step(t)
    PROVE  RecordOk(th'[t])
<1> USE DEF Slots
<1>1. ThreadRecord(th[t]) /\ th = [u \in Threads |-> th[u]] /\ RecordOk(th[t])
  BY DEF Shape, RecordsInv
<1>2. CASE SendHistory(t) \/ CreateFails(t) \/ CommitFails(t) \/ Invalidate(t) \/ TtlUse(t)
  <2>1. th'[t] = Idle
    BY <1>1, <1>2 DEF SendHistory, CreateFails, CommitFails, Invalidate, TtlUse, Answer
  <2>2. QED BY <2>1, IdleRecord
<1>3. CASE Get(t)
  <2>1. /\ th[t].pc = "get" /\ th'[t].pc \in {"found", "wait", "try"}
        /\ th'[t].held = th[t].held /\ th'[t].todo = th[t].todo /\ th'[t].log = th[t].log
    BY <1>3, GetRecord
  <2>2. th[t].todo # <<>>  BY <2>1 DEF Shape, Looking
  <2>3. QED BY <1>1, <2>1, <2>2 DEF RecordOk
<1>4. CASE Acquire(t)
  <2>1. th[t].pc \in {"wait", "try"} /\ Looking(th[t])  BY <1>4 DEF Acquire, Looking
  <2>2. CASE \E val : Found(t, val)
    BY <2>1, <2>2, FoundRecord
  <2>3. CASE th' = [th EXCEPT ![t].pc = "create", ![t].val = {}]
    <3>1. /\ th'[t].pc = "create" /\ th'[t].held = th[t].held /\ th'[t].todo = th[t].todo
          /\ th'[t].log = th[t].log
      BY <1>1, <2>3 DEF ThreadRecord
    <3>2. QED BY <1>1, <2>1, <3>1 DEF RecordOk
  <2>4. QED BY <1>4, <2>2, <2>3 DEF Acquire, Enter
<1>5. CASE InProgressElsewhere(t)
  <2>1. Looking(th[t]) /\ Found(t, th[t].val)  BY <1>5 DEF InProgressElsewhere, Looking
  <2>2. QED BY <2>1, FoundRecord
<1>6. CASE Create(t)
  <2>1. /\ th[t].pc = "create" /\ th'[t].pc = "store" /\ th'[t].held = th[t].held
        /\ th'[t].todo = th[t].todo /\ th'[t].log = th[t].log
    BY <1>1, <1>6 DEF Create, ThreadRecord
  <2>2. QED BY <1>1, <2>1 DEF RecordOk
<1>7. CASE Store(t)
  <2>1. Looking(th[t]) /\ Found(t, th[t].val)  BY <1>7 DEF Store, Looking
  <2>2. QED BY <2>1, FoundRecord
<1>8. CASE Use(t)
  <2>1. /\ th[t].pc = "found" /\ th'[t].pc = Rest(Tail(th[t].todo), th[t].log)
        /\ th'[t].todo = Tail(th[t].todo) /\ th'[t].log = th[t].log
        /\ th'[t].held = Idle.held
    BY <1>1, <1>8 DEF Use, Idle
  <2>2. Tail(th[t].todo) \in Seq(Keys)
    BY <1>1, <2>1, TailFacts DEF RecordOk
  <2>3. th'[t].pc \in {"get", "log", "idle"} /\ (th'[t].pc = "log" => th[t].log # None)
    BY <2>1 DEF Rest
  <2>4. QED BY <1>1, <2>1, <2>2, <2>3, IdleRecord DEF RecordOk
<1>9. CASE Flush(t)
  <2>1. /\ th[t].pc = "log" /\ th'[t].pc = "commit" /\ th'[t].row = next[th[t].log] + 1
        /\ th'[t].held = th[t].held /\ th'[t].todo = th[t].todo /\ th'[t].log = th[t].log
    BY <1>1, <1>9 DEF Flush, ThreadRecord
  <2>2. next[th[t].log] + 1 \in Nat
    BY <1>1, <2>1 DEF RecordOk, TablesInv, Tables
  <2>3. QED BY <1>1, <2>1, <2>2 DEF RecordOk
<1>10. CASE Commit(t)
  <2>1. /\ th[t].pc = "commit" /\ th'[t].pc = "invalidate" /\ th'[t].row = th[t].row
        /\ th'[t].held = th[t].held /\ th'[t].todo = th[t].todo /\ th'[t].log = th[t].log
    BY <1>1, <1>10 DEF Commit, ThreadRecord
  <2>2. QED BY <1>1, <2>1 DEF RecordOk
<1>11. CASE TtlGet(t) \/ TtlRead(t) \/ TtlStore(t)
  <2>1. /\ \/ th'[t].held = th[t].held /\ th[t].pc \notin {"store", "ttlStore"}
           \/ th'[t].held = 0
        /\ th'[t].pc \in {"listed", "ttlRead", "ttlStore"}
        /\ th'[t].todo = th[t].todo /\ th'[t].log = th[t].log
    <3>1. CASE TtlGet(t) /\ ttlCache # None
      <4>1. th'[t] = [th[t] EXCEPT !.pc = "listed", !.val = ttlCache.val] /\ th[t].pc = "ttl"
        BY <1>1, <3>1 DEF TtlGet
      <4>2. QED BY <1>1, <4>1 DEF ThreadRecord
    <3>2. CASE TtlGet(t) /\ ttlCache = None
      BY <1>1, <3>2 DEF TtlGet, ThreadRecord
    <3>3. CASE TtlRead(t)
      BY <1>1, <3>3 DEF TtlRead, ThreadRecord
    <3>4. CASE TtlStore(t)
      BY <1>1, <3>4 DEF TtlStore, ThreadRecord
    <3>5. QED BY <1>11, <3>1, <3>2, <3>3, <3>4
  <2>2. th'[t].held = 0  BY <1>1, <2>1 DEF RecordOk
  <2>3. 0 \in 0 .. Hold  BY RestApiAssumption
  <2>4. QED BY <1>1, <2>1, <2>2, <2>3 DEF RecordOk
<1>12. QED BY <1>2, <1>3, <1>4, <1>5, <1>6, <1>7, <1>8, <1>9, <1>10, <1>11 DEF Step

LEMMA BeginRecord ==
    ASSUME Shape, NEW t \in Threads, NEW in \in load.inputs, Begin(t, in)
    PROVE  RecordOk(th'[t]) /\ th'[t].pc \in {"ttl", "history", "get", "log", "idle"}
<1>1. PICK p \in Plans(in) :
         th' = [th EXCEPT ![t] = [Idle EXCEPT
                        !.pc = IF p.pc # "" THEN p.pc ELSE Rest(p.todo, p.log),
                        !.todo = p.todo, !.log = p.log]]
  BY DEF Begin
<1>2. /\ th'[t].pc = (IF p.pc # "" THEN p.pc ELSE Rest(p.todo, p.log))
      /\ th'[t].todo = p.todo /\ th'[t].log = p.log
      /\ th'[t].held = Idle.held
  BY <1>1 DEF Idle, Shape
<1>3. load \in Loads /\ in.handler \in Handlers  BY RestApiAssumption DEF Shape
<1>4. /\ p.pc \in {"", "ttl", "history"}
      /\ p.log \in {None, "request", "wx_request"}
  BY <1>3, PlanFacts
<1>5. p.todo \in Seq(Keys)  BY <1>3, InputAssumption
<1>6. p.log \in Logs \cup {None}  BY <1>4, RestApiAssumption
<1>7. th'[t].pc \in {"ttl", "history", "get", "log", "idle"} /\ (th'[t].pc = "log" => p.log # None)
  BY <1>2, <1>4 DEF Rest
<1>8. QED BY <1>2, <1>5, <1>6, <1>7, IdleRecord DEF RecordOk

(* Time passes only while no thread has held what it read too long.         *)
LEMMA TickRecords ==
    ASSUME Shape, Tick, NEW t \in Threads
    PROVE  /\ ThreadRecord(th'[t]) /\ th'[t].pc = th[t].pc
           /\ \A f \in Slots \ {"held"} : th'[t][f] = th[t][f]
           /\ InFlight(t) => th[t].held < Hold /\ th'[t].held = th[t].held + 1
           /\ ~InFlight(t) => th'[t] = th[t]
           /\ th[t].pc \notin {"found", "listed"}
<1>1. ThreadRecord(th[t])  BY DEF Shape
<1>2. th'[t] = IF InFlight(t) THEN [th[t] EXCEPT !.held = @ + 1] ELSE th[t]
  BY DEF Tick
<1>3. th[t].pc \notin {"found", "listed"} /\ (InFlight(t) => th[t].held < Hold)
  BY DEF Tick
<1>4. CASE InFlight(t)
  <2>1. th'[t] = [th[t] EXCEPT !.held = @ + 1]  BY <1>2, <1>4
  <2>2. th'[t].held = th[t].held + 1 /\ \A f \in Slots \ {"held"} : th'[t][f] = th[t][f]
    BY <1>1, <2>1 DEF ThreadRecord, Slots
  <2>3. ThreadRecord(th'[t]) /\ th'[t].pc = th[t].pc
    BY <1>1, <2>1 DEF ThreadRecord, Slots
  <2>4. QED BY <1>3, <1>4, <2>2, <2>3
<1>5. CASE ~InFlight(t)
  BY <1>1, <1>2, <1>3, <1>5
<1>6. QED BY <1>4, <1>5

(* The steps of the world. *)
World == (\E tab \in Ingested : IngestRow(tab)) \/ NewStation \/ Tick \/ UNCHANGED vars

LEMMA NextRecords ==
    ASSUME Shape, TablesInv, RecordsInv, [Next]_vars
    PROVE  RecordsInv'
<1>1. ASSUME NEW t \in Threads, Step(t) \/ \E in \in load.inputs : Begin(t, in)
      PROVE  RecordsInv'
  <2>1. RecordOk(th'[t])  BY <1>1, StepRecord, BeginRecord
  <2>2. \A u \in Threads \ {t} : th'[u] = th[u]  BY <1>1, OtherRecords
  <2>3. QED BY <2>1, <2>2 DEF RecordsInv
<1>2. CASE Tick
  <2>1. ASSUME NEW t \in Threads PROVE RecordOk(th'[t])
    <3>1. RecordOk(th[t])  BY DEF RecordsInv
    <3>2. CASE InFlight(t)
      <4>1. \A f \in {"pc", "todo", "log", "row"} : th'[t][f] = th[t][f]
        BY <1>2, TickRecords DEF Slots
      <4>2. /\ th'[t].pc = th[t].pc /\ th'[t].todo = th[t].todo /\ th'[t].log = th[t].log
            /\ th'[t].row = th[t].row
        BY <4>1
      <4>3. th'[t].held = th[t].held + 1 /\ th[t].held < Hold  BY <1>2, <3>2, TickRecords
      <4>4. th'[t].held \in 0 .. Hold  BY <3>1, <4>3, RestApiAssumption DEF RecordOk
      <4>5. QED BY <3>1, <3>2, <4>2, <4>4 DEF RecordOk, InFlight
    <3>3. CASE ~InFlight(t)
      BY <1>2, <3>1, <3>3, TickRecords
    <3>4. QED BY <3>2, <3>3
  <2>2. QED BY <2>1 DEF RecordsInv
<1>3. CASE (\E tab \in Ingested : IngestRow(tab)) \/ NewStation \/ UNCHANGED vars
  <2>1. UNCHANGED th  BY <1>3 DEF IngestRow, NewStation, vars
  <2>2. QED BY <2>1 DEF RecordsInv
<1>4. QED BY <1>1, <1>2, <1>3 DEF Next

-----------------------------------------------------------------------------
(* WxListInv.  What an answer lacks is younger than its reading, whatever   *)
(* order the threads fill the cache in.                                     *)

LEMMA WxListRead == WxListInv => WxListBounded
<1> SUFFICES ASSUME WxListInv, NEW t \in Threads, th[t].pc = "listed",
                    NEW i \in DOMAIN stations, stations[i] = WxHorizon
             PROVE  i \in th[t].val
  BY DEF WxListBounded
<1>1. Lacks(th[t].val, WxHorizon - 1)  BY DEF WxListInv
<1>2. WxHorizon \in Nat  BY RestApiAssumption DEF WxHorizon
<1>3. QED BY <1>1, <1>2 DEF Lacks

LEMMA WxListStep ==
    ASSUME Shape, RecordsInv, WxListInv, NEW t \in Threads,
           Step(t) \/ \E in \in load.inputs : Begin(t, in)
    PROVE  WxListInv'
<1> USE DEF Slots
<1>0. /\ \A u \in Threads \ {t} : th'[u] = th[u]
      /\ UNCHANGED stations
      /\ ThreadRecord(th[t]) /\ th = [u \in Threads |-> th[u]] /\ RecordOk(th[t])
  BY OtherRecords DEF Step, SendHistory, Get, Acquire, InProgressElsewhere, Create, CreateFails,
     Store, Use, Flush, Commit, CommitFails, Invalidate, TtlGet, TtlRead, TtlStore, TtlUse, Begin, db,
     Shape, RecordsInv
<1>13. \A i \in DOMAIN stations : stations[i] \in Int
  <2>1. stations \in Seq(0 .. WxHorizon)  BY DEF WxListInv
  <2>2. \A S : stations \in Seq(S) => \A i \in DOMAIN stations : stations[i] \in S  OBVIOUS
  <2>4. \A i \in DOMAIN stations : stations[i] \in 0 .. WxHorizon  BY <2>1, <2>2
  <2>3. QED BY <2>4, RestApiAssumption DEF WxHorizon
<1>1. ASSUME UNCHANGED ttlCache,
             th'[t].pc = "ttlStore" => Lacks(th'[t].val, th'[t].held),
             th'[t].pc = "listed" => Lacks(th'[t].val, WxHorizon - 1)
      PROVE  WxListInv'
  BY <1>0, <1>1 DEF WxListInv, Lacks
<1>2. ASSUME UNCHANGED ttlCache, th'[t].pc \notin {"ttlStore", "listed"}
      PROVE  WxListInv'
  BY <1>1, <1>2
<1>3. ASSUME NEW in \in load.inputs, Begin(t, in) PROVE WxListInv'
  BY <1>2, <1>3, BeginRecord DEF Begin, caches
<1>4. CASE SendHistory(t) \/ CreateFails(t) \/ CommitFails(t) \/ Invalidate(t) \/ TtlUse(t)
  <2>1. th'[t] = Idle /\ UNCHANGED ttlCache
    BY <1>0, <1>4 DEF SendHistory, CreateFails, CommitFails, Invalidate, TtlUse, Answer, caches
  <2>2. QED BY <1>2, <2>1, IdleRecord
<1>5. CASE InProgressElsewhere(t) \/ Store(t) \/ Use(t)
  <2>2. th'[t].pc \in {"found", "get", "log", "idle"}
    <3>1. CASE Use(t)
      <4>1. th'[t].pc = Rest(Tail(th[t].todo), th[t].log)  BY <1>0, <3>1 DEF Use, Idle
      <4>2. QED BY <4>1 DEF Rest
    <3>2. CASE \E val : Found(t, val) /\ Looking(th[t])
      BY <3>2, FoundRecord
    <3>3. QED BY <1>5, <3>1, <3>2 DEF InProgressElsewhere, Store, Looking
  <2>3. QED BY <1>2, <1>5, <2>2 DEF InProgressElsewhere, Store, Use, caches
<1>6. CASE Get(t)
  <2>1. th'[t].pc \in {"found", "wait", "try"}
    BY <1>6, GetRecord
  <2>2. QED BY <1>2, <1>6, <2>1 DEF Get, caches
<1>7. CASE Acquire(t)
  <2>1. th'[t].pc \in {"found", "create"}
    <3>1. CASE \E val : Found(t, val) /\ Looking(th[t])
      BY <3>1, FoundRecord
    <3>2. CASE th' = [th EXCEPT ![t].pc = "create", ![t].val = {}]
      BY <1>0, <3>2 DEF ThreadRecord
    <3>3. QED BY <1>7, <3>1, <3>2 DEF Acquire, Enter, Looking
  <2>2. QED BY <1>2, <1>7, <2>1 DEF Acquire
<1>8. CASE Create(t) \/ Flush(t) \/ Commit(t)
  <2>1. th'[t].pc \in {"store", "commit", "invalidate"}
    BY <1>0, <1>8 DEF Create, Flush, Commit, ThreadRecord
  <2>2. QED BY <1>2, <1>8, <2>1 DEF Create, Flush, Commit, caches
<1>9. CASE TtlGet(t)
  <2>1. UNCHANGED ttlCache /\ th[t].pc = "ttl"  BY <1>9 DEF TtlGet, caches
  <2>2. CASE ttlCache # None
    <3>1. th'[t] = [th[t] EXCEPT !.pc = "listed", !.val = ttlCache.val]  BY <1>0, <1>9, <2>2 DEF TtlGet
    <3>2. th'[t].pc = "listed" /\ th'[t].val = ttlCache.val  BY <1>0, <3>1 DEF ThreadRecord
    <3>3. ttlCache.age \in 0 .. Ttl - 1 /\ Lacks(ttlCache.val, ttlCache.age + Hold)
      BY <2>2 DEF WxListInv
    <3>4. Lacks(ttlCache.val, WxHorizon - 1)
      <4>1. \A i \in DOMAIN stations : stations[i] \in Int  BY <1>13
      <4>2. QED BY <3>3, <4>1, RestApiAssumption DEF Lacks, WxHorizon
    <3>5. QED BY <1>1, <2>1, <3>2, <3>4
  <2>3. CASE ttlCache = None
    <3>1. th'[t] = [th[t] EXCEPT !.pc = "ttlRead"]  BY <1>0, <1>9, <2>3 DEF TtlGet
    <3>2. th'[t].pc = "ttlRead"  BY <1>0, <3>1 DEF ThreadRecord
    <3>3. QED BY <1>2, <2>1, <3>2
  <2>4. QED BY <2>2, <2>3
<1>10. CASE TtlRead(t)
  <2>1. th'[t] = [th[t] EXCEPT !.pc = "ttlStore", !.val = DOMAIN stations] /\ UNCHANGED ttlCache
    BY <1>0, <1>10 DEF TtlRead, caches
  <2>2. th'[t].pc = "ttlStore" /\ th'[t].val = DOMAIN stations  BY <1>0, <2>1 DEF ThreadRecord
  <2>3. Lacks(th'[t].val, th'[t].held)  BY <2>2 DEF Lacks
  <2>4. QED BY <1>1, <2>1, <2>2, <2>3
<1>11. CASE TtlStore(t)
  <2>1. th'[t] = [th[t] EXCEPT !.pc = "listed", !.held = 0] /\ th[t].pc = "ttlStore"
    BY <1>0, <1>11 DEF TtlStore
  <2>2. th'[t].pc = "listed" /\ th'[t].val = th[t].val  BY <1>0, <2>1 DEF ThreadRecord
  <2>3. ttlCache' = [val |-> th[t].val, age |-> 0]  BY <1>11 DEF TtlStore
  <2>4. ttlCache'.age = 0 /\ ttlCache'.val = th[t].val  BY <2>3
  <2>5. Lacks(th[t].val, th[t].held) /\ th[t].held \in 0 .. Hold
    BY <1>0, <2>1 DEF WxListInv, RecordOk
  <2>6. \A i \in DOMAIN stations : stations[i] \in Int  BY <1>13
  <2>7. Lacks(th[t].val, Hold) /\ Lacks(th[t].val, WxHorizon - 1)
    BY <2>5, <2>6, RestApiAssumption DEF Lacks, WxHorizon
  <2>8. Lacks(ttlCache'.val, ttlCache'.age + Hold)
    BY <2>4, <2>7, RestApiAssumption
  <2>9. ttlCache'.age \in 0 .. Ttl - 1  BY <2>4, RestApiAssumption
  <2>10. Lacks(th'[t].val, WxHorizon - 1)  BY <2>2, <2>7
  <2>11. ttlCache' = [val |-> ttlCache'.val, age |-> ttlCache'.age]  BY <2>3, <2>4
  <2>12. QED BY <1>0, <2>2, <2>8, <2>9, <2>10, <2>11 DEF WxListInv, Lacks
<1>12. QED BY <1>3, <1>4, <1>5, <1>6, <1>7, <1>8, <1>9, <1>10, <1>11 DEF Step

LEMMA WxListTick ==
    ASSUME Shape, RecordsInv, WxListInv, Tick
    PROVE  WxListInv'
<1>1. /\ stations \in Seq(0 .. WxHorizon) /\ WxHorizon \in Nat
      /\ stations' = [i \in DOMAIN stations |-> Older(stations[i], WxHorizon)]
  BY RestApiAssumption DEF WxListInv, Tick, WxHorizon
<1>2. /\ DOMAIN stations' = DOMAIN stations
      /\ \A i \in DOMAIN stations : /\ stations[i] \in 0 .. WxHorizon
                                    /\ stations'[i] \in 0 .. WxHorizon
                                    /\ stations'[i] <= stations[i] + 1
  BY <1>1 DEF Older
<1>3. stations' \in Seq(0 .. WxHorizon)  BY <1>1, <1>2
<1>4. ASSUME NEW val, NEW bound \in Int, Lacks(val, bound)
      PROVE  \A i \in DOMAIN stations' : i \in val \/ stations'[i] <= bound + 1
  <2>1. \A i \in DOMAIN stations : i \in val \/ stations[i] <= bound  BY <1>4 DEF Lacks
  <2>2. QED BY <1>1, <1>2, <2>1
<1>5. ASSUME ttlCache' # None
      PROVE  /\ ttlCache' = [val |-> ttlCache'.val, age |-> ttlCache'.age]
             /\ ttlCache'.age \in 0 .. Ttl - 1
             /\ Lacks(ttlCache.val, ttlCache.age + Hold)'
  <2>1. /\ ttlCache # None /\ ~(ttlCache.age + 1 >= Ttl)
        /\ ttlCache' = [ttlCache EXCEPT !.age = @ + 1]
    BY <1>5 DEF Tick
  <2>2. /\ ttlCache = [val |-> ttlCache.val, age |-> ttlCache.age]
        /\ ttlCache.age \in 0 .. Ttl - 1 /\ Lacks(ttlCache.val, ttlCache.age + Hold)
    BY <2>1 DEF WxListInv
  <2>3. PICK val, old : val = ttlCache.val /\ old = ttlCache.age  OBVIOUS
  <2>4. ttlCache' = [val |-> val, age |-> old + 1]  BY <2>1, <2>2, <2>3
  <2>5. ttlCache'.age = old + 1 /\ ttlCache'.val = val  BY <2>4
  <2>6. old \in Int /\ Hold \in Int /\ old + 1 \in 0 .. Ttl - 1
    BY <2>1, <2>2, <2>3, RestApiAssumption
  <2>7. \A i \in DOMAIN stations' : i \in val \/ stations'[i] <= (old + Hold) + 1
    BY <1>4, <2>2, <2>3, <2>6
  <2>8. (old + Hold) + 1 = (old + 1) + Hold  BY <2>6
  <2>9. QED BY <2>4, <2>5, <2>6, <2>7, <2>8 DEF Lacks
<1>6. ASSUME NEW t \in Threads
      PROVE  /\ th'[t].pc # "listed"
             /\ th'[t].pc = "ttlStore" => Lacks(th[t].val, th[t].held)'
  <2>1. th'[t].pc = th[t].pc /\ th[t].pc # "listed" /\ "val" \in Slots \ {"held"}
    BY TickRecords DEF Slots
  <2>2. CASE th[t].pc = "ttlStore"
    <3>1. th'[t].held = th[t].held + 1  BY <2>2, TickRecords DEF InFlight
    <3>2. th'[t].val = th[t].val
      <4>1. \A f \in Slots \ {"held"} : th'[t][f] = th[t][f]  BY TickRecords
      <4>2. th'[t]["val"] = th[t]["val"]  BY <2>1, <4>1
      <4>3. QED BY <4>2
    <3>3. Lacks(th[t].val, th[t].held) /\ th[t].held \in Int
      BY <2>2 DEF WxListInv, RecordsInv, RecordOk
    <3>4. \A i \in DOMAIN stations' : i \in th[t].val \/ stations'[i] <= th[t].held + 1
      BY <1>4, <3>3
    <3>5. \A i \in DOMAIN stations' : i \in th'[t].val \/ stations'[i] <= th'[t].held
      BY <3>1, <3>2, <3>4
    <3>6. QED BY <2>1, <3>5 DEF Lacks
  <2>3. QED BY <2>1, <2>2
<1>7. QED BY <1>3, <1>5, <1>6 DEF WxListInv, Lacks

LEMMA NextWxList ==
    ASSUME Shape, RecordsInv, WxListInv, [Next]_vars
    PROVE  WxListInv'
<1>1. CASE Tick  BY <1>1, WxListTick
<1>2. CASE NewStation
  <2>1. stations' = Append(stations, 0) /\ UNCHANGED <<th, ttlCache>>
    BY <1>2 DEF NewStation, caches
  <2>2. stations \in Seq(0 .. WxHorizon) /\ 0 \in 0 .. WxHorizon
    BY RestApiAssumption DEF WxListInv, WxHorizon
  <2>3. /\ stations' \in Seq(0 .. WxHorizon) /\ Len(stations) \in Nat
        /\ \A i \in DOMAIN stations' : i \in DOMAIN stations \/ i = Len(stations) + 1
        /\ \A i \in DOMAIN stations : stations'[i] = stations[i]
        /\ stations'[Len(stations) + 1] = 0
    BY <2>1, <2>2
  <2>4. ASSUME NEW val, NEW bound \in Nat, Lacks(val, bound)
        PROVE  \A i \in DOMAIN stations' : i \in val \/ stations'[i] <= bound
    BY <2>3, <2>4 DEF Lacks
  <2>5. ASSUME ttlCache # None PROVE Lacks(ttlCache.val, ttlCache.age + Hold)'
    <3>1. ttlCache.age + Hold \in Nat /\ Lacks(ttlCache.val, ttlCache.age + Hold)
      BY <2>5, RestApiAssumption DEF WxListInv
    <3>2. QED BY <2>1, <2>4, <3>1 DEF Lacks
  <2>6. ASSUME NEW t \in Threads
        PROVE  /\ th[t].pc = "ttlStore" => Lacks(th[t].val, th[t].held)'
               /\ th[t].pc = "listed" => Lacks(th[t].val, WxHorizon - 1)'
    <3>1. th[t].held \in Nat /\ WxHorizon - 1 \in Nat
      BY RestApiAssumption DEF RecordsInv, RecordOk, WxHorizon
    <3>2. QED BY <2>1, <2>4, <3>1 DEF Lacks, WxListInv
  <2>7. QED BY <2>1, <2>3, <2>5, <2>6 DEF WxListInv
<1>3. CASE (\E tab \in Ingested : IngestRow(tab)) \/ UNCHANGED vars
  <2>1. UNCHANGED <<th, ttlCache, stations>>  BY <1>3 DEF IngestRow, vars, caches
  <2>2. QED BY <2>1 DEF WxListInv, Lacks
<1>4. QED BY <1>1, <1>2, <1>3, WxListStep DEF Next

LEMMA InitLists == Init => RecordsInv /\ WxListInv /\ ListInv
<1> SUFFICES ASSUME Init PROVE RecordsInv /\ WxListInv /\ ListInv
  OBVIOUS
<1>1. \A t \in Threads : th[t] = Idle  BY DEF Init
<1>2. RecordsInv  BY <1>1, IdleRecord DEF RecordsInv
<1>3. WxListInv
  <2>1. stations = <<>> /\ ttlCache = None  BY DEF Init
  <2>2. stations \in Seq(0 .. WxHorizon)  BY <2>1
  <2>3. QED BY <1>1, <2>1, <2>2, IdleRecord DEF WxListInv
<1>4. TablesInv
  <2>1. /\ rows = [tab \in Tables |-> {}] /\ next = [tab \in Tables |-> 0]
        /\ age = [tab \in Tables |-> [r \in {} |-> 0]] /\ due = [k \in Keys |-> {}]
    BY DEF Init
  <2>2. \A tab \in Tables : rows[tab] = {} /\ DOMAIN age[tab] = {}  BY <2>1
  <2>3. \A k \in Keys : due[k] = {}  BY <2>1
  <2>4. rows = [tab \in Tables |-> rows[tab]] /\ age = [tab \in Tables |-> age[tab]]
    BY <2>1
  <2>5. QED BY <2>1, <2>2, <2>3, <2>4, FS_EmptySet DEF TablesInv
<1>5. RegionInv  BY DEF Init, RegionInv, EntryOk
<1>6. LookupInv  BY <1>1, IdleRecord DEF LookupInv, LookupOk, Works
<1>7. QED BY <1>2, <1>3, <1>4, <1>5, <1>6 DEF ListInv

-----------------------------------------------------------------------------
(* TablesInv: every step of a thread but the log's, the store and the       *)
(* invalidation leaves the tables and what is due alone.                    *)

LEMMA StepTables ==
    ASSUME Shape, TablesInv, RecordsInv, LookupInv, NEW t \in Threads,
           Step(t) \/ \E in \in load.inputs : Begin(t, in)
    PROVE  /\ TablesInv' /\ UNCHANGED age
           /\ \A tab \in Tables : rows[tab] \subseteq rows'[tab]
           /\ \A k \in Keys : due[k] \subseteq due'[k]
<1>0. RecordOk(th[t]) /\ LookupOk(t)  BY DEF RecordsInv, LookupInv
<1>1. CASE UNCHANGED <<rows, age, due>> /\ next' \in [Tables -> Nat]
  BY <1>1 DEF TablesInv
<1>2. CASE Flush(t)
  <2>1. UNCHANGED <<rows, age, due>> /\ next' = [next EXCEPT ![th[t].log] = @ + 1]
    BY <1>2 DEF Flush, caches
  <2>2. th[t].log \in Tables
    BY <1>0, <1>2 DEF Flush, RecordOk, Tables
  <2>3. next' \in [Tables -> Nat]  BY <2>1, <2>2 DEF TablesInv
  <2>4. QED BY <1>1, <2>1, <2>3
<1>3. CASE Commit(t)
  <2>1. /\ UNCHANGED <<next, age, due>> /\ th[t].pc = "commit"
        /\ rows' = [rows EXCEPT ![th[t].log] = @ \cup {th[t].row}]
    BY <1>3 DEF Commit, caches
  <2>2. th[t].row \in Nat  BY <1>0, <2>1 DEF RecordOk
  <2>3. PICK log, row : log = th[t].log /\ row = th[t].row /\ row \in Nat  BY <2>2
  <2>4. /\ rows' = [tab \in Tables |-> rows'[tab]]
        /\ \A tab \in Tables : rows'[tab] = IF tab = log THEN rows[tab] \cup {row} ELSE rows[tab]
    BY <2>1, <2>3 DEF TablesInv
  <2>5. \A tab \in Tables : rows[tab] \subseteq rows'[tab]  BY <2>4
  <2>6. ASSUME NEW tab \in Tables
        PROVE  /\ IsFiniteSet(rows'[tab]) /\ rows'[tab] \subseteq Nat
               /\ DOMAIN age[tab] \subseteq rows'[tab]
    <3>1. IsFiniteSet(rows[tab]) /\ rows[tab] \subseteq Nat /\ DOMAIN age[tab] \subseteq rows[tab]
      BY DEF TablesInv
    <3>2. IsFiniteSet(rows[tab] \cup {row})  BY <3>1, FS_AddElement
    <3>3. QED BY <2>3, <2>4, <3>1, <3>2
  <2>7. \A k \in Keys : due[k] \subseteq rows'[k.table]
    BY <2>5, RestApiAssumption DEF TablesInv
  <2>8. TablesInv'  BY <2>1, <2>4, <2>6, <2>7 DEF TablesInv
  <2>9. QED BY <2>1, <2>5, <2>8
<1>4. ASSUME UNCHANGED <<rows, next, age>>, due' = [k \in Keys |-> due'[k]],
             \A k \in Keys : due[k] \subseteq due'[k] /\ due'[k] \subseteq rows[k.table]
      PROVE  TablesInv'
  BY <1>4 DEF TablesInv
<1>5. CASE Store(t)
  <2>1. /\ UNCHANGED <<rows, next, age>> /\ th[t].pc = "store"
        /\ due' = [due EXCEPT ![Head(th[t].todo)] = @ \cup th[t].val]
    BY <1>5 DEF Store, db
  <2>2. PICK key, val : key = Head(th[t].todo) /\ val = th[t].val  OBVIOUS
  <2>3. th[t].todo # <<>>  BY <2>1 DEF Shape, Looking
  <2>4. key \in Keys => val \subseteq rows[key.table]
    BY <1>0, <2>1, <2>2, <2>3 DEF LookupOk, Works
  <2>5. /\ due' = [k \in Keys |-> due'[k]]
        /\ \A k \in Keys : due'[k] = IF k = key THEN due[k] \cup val ELSE due[k]
    BY <2>1, <2>2 DEF TablesInv
  <2>6. \A k \in Keys : due[k] \subseteq due'[k] /\ due'[k] \subseteq rows[k.table]
    BY <2>4, <2>5 DEF TablesInv
  <2>7. QED BY <1>4, <2>1, <2>5, <2>6
<1>6. CASE Invalidate(t)
  <2>1. /\ UNCHANGED <<rows, next, age>> /\ th[t].pc = "invalidate"
        /\ due' = [k \in Keys |-> IF k.table = th[t].log /\ ~ Reading(k)
                                  THEN due[k] \cup {th[t].row} ELSE due[k]]
    BY <1>6 DEF Invalidate, db
  <2>2. PICK log, row : log = th[t].log /\ row = th[t].row /\ row \in rows[log]
    BY <1>0, <2>1 DEF LookupOk
  <2>3. due' = [k \in Keys |-> due'[k]]  BY <2>1
  <2>4. ASSUME NEW k \in Keys PROVE due[k] \subseteq due'[k] /\ due'[k] \subseteq rows[k.table]
    <3>1. due'[k] = due[k] \/ (k.table = log /\ due'[k] = due[k] \cup {row})
      <4>1. due'[k] = IF k.table = th[t].log /\ ~ Reading(k) THEN due[k] \cup {th[t].row} ELSE due[k]
        BY <2>1
      <4>2. QED BY <2>2, <4>1
    <3>2. due[k] \subseteq rows[k.table]  BY DEF TablesInv
    <3>3. QED BY <2>2, <3>1, <3>2
  <2>5. QED BY <1>4, <2>1, <2>3, <2>4
<1>7. CASE \/ SendHistory(t) \/ Get(t) \/ Acquire(t) \/ InProgressElsewhere(t) \/ Create(t)
           \/ CreateFails(t) \/ Use(t) \/ CommitFails(t) \/ TtlGet(t) \/ TtlRead(t) \/ TtlStore(t)
           \/ TtlUse(t) \/ \E in \in load.inputs : Begin(t, in)
  <2>1. UNCHANGED <<rows, next, age, due>>
    BY <1>7 DEF SendHistory, Get, Acquire, InProgressElsewhere, Create, CreateFails, Use, CommitFails,
                TtlGet, TtlRead, TtlStore, TtlUse, Begin, db, caches
  <2>2. QED BY <1>1, <2>1 DEF TablesInv
<1>8. QED BY <1>2, <1>3, <1>5, <1>6, <1>7 DEF Step

(* Another process writes a row; time makes the rows older.                 *)
LEMMA WorldTables ==
    ASSUME TablesInv, World
    PROVE  /\ TablesInv' /\ UNCHANGED <<mutex, due, load>>
           /\ \A tab \in Tables : rows[tab] \subseteq rows'[tab]
           /\ Tick => UNCHANGED rows
           /\ ~Tick => UNCHANGED <<th, region, age>>
<1>1. CASE Tick
  <2>1. UNCHANGED <<rows, next, due, mutex, load>>  BY <1>1 DEF Tick
  <2>2. /\ age' = [tab \in Tables |-> age'[tab]]
        /\ \A tab \in Tables :
              age'[tab] = [r \in rows[tab] |->
                    IF \E k \in Keys : k.table = tab /\ r \notin due[k]
                    THEN Older(AgeOf(tab, r), Horizon) ELSE 0]
    BY <1>1 DEF Tick
  <2>3. Horizon \in Nat  BY RestApiAssumption DEF Horizon
  <2>4. ASSUME NEW tab \in Tables
        PROVE  /\ DOMAIN age'[tab] \subseteq rows[tab]
               /\ \A r \in DOMAIN age'[tab] : age'[tab][r] \in 0 .. Horizon
    <3>1. \A r : AgeOf(tab, r) \in 0 .. Horizon  BY <2>3 DEF TablesInv, AgeOf
    <3>2. \A r : Older(AgeOf(tab, r), Horizon) \in 0 .. Horizon  BY <2>3, <3>1 DEF Older
    <3>3. QED BY <2>2, <2>3, <3>2
  <2>5. TablesInv'  BY <2>1, <2>2, <2>4 DEF TablesInv
  <2>6. QED BY <1>1, <2>1, <2>5
<1>2. ASSUME NEW tab \in Ingested, IngestRow(tab)
      PROVE  /\ TablesInv' /\ UNCHANGED <<mutex, due, load, th, region, age>>
             /\ \A u \in Tables : rows[u] \subseteq rows'[u]
  <2>1. /\ UNCHANGED <<mutex, due, load, th, region, age>> /\ next' = [next EXCEPT ![tab] = @ + 1]
        /\ rows' = [rows EXCEPT ![tab] = @ \cup {next[tab] + 1}] /\ tab \in Tables
    BY <1>2 DEF IngestRow, caches, Tables
  <2>2. PICK row \in Nat : row = next[tab] + 1  BY <2>1 DEF TablesInv
  <2>3. /\ rows' = [u \in Tables |-> rows'[u]] /\ next' \in [Tables -> Nat]
        /\ \A u \in Tables : rows'[u] = IF u = tab THEN rows[u] \cup {row} ELSE rows[u]
    BY <2>1, <2>2 DEF TablesInv
  <2>4. \A u \in Tables : rows[u] \subseteq rows'[u]  BY <2>3
  <2>5. ASSUME NEW u \in Tables
        PROVE  /\ IsFiniteSet(rows'[u]) /\ rows'[u] \subseteq Nat
               /\ DOMAIN age[u] \subseteq rows'[u]
    <3>1. IsFiniteSet(rows[u]) /\ rows[u] \subseteq Nat /\ DOMAIN age[u] \subseteq rows[u]
      BY DEF TablesInv
    <3>2. IsFiniteSet(rows[u] \cup {row})  BY <3>1, FS_AddElement
    <3>3. QED BY <2>2, <2>3, <3>1, <3>2
  <2>6. \A k \in Keys : due[k] \subseteq rows'[k.table]
    BY <2>4, RestApiAssumption DEF TablesInv
  <2>7. TablesInv'  BY <2>1, <2>3, <2>5, <2>6 DEF TablesInv
  <2>8. QED BY <2>1, <2>4, <2>7
<1>3. CASE NewStation \/ UNCHANGED vars
  <2>1. UNCHANGED <<rows, next, age, due, mutex, load, th, region>>
    BY <1>3 DEF NewStation, vars, caches
  <2>2. QED BY <1>1, <2>1 DEF TablesInv
<1>4. QED BY <1>1, <1>2, <1>3 DEF World

-----------------------------------------------------------------------------
(* The query cache: what an answer that shows all that is due, and all that *)
(* is older than an answer can be, lacks of what was demanded: nothing.     *)

LEMMA NothingMissing ==
    ASSUME TablesInv, NEW k \in Keys, NEW val, NEW bound \in Nat, bound < Horizon,
           ShowsAll(val, k, due[k]), ShowsOld(val, k, bound),
           NEW S, S \subseteq Demand(k)
    PROVE  Missing(val, k, S) = {}
<1>1. SUFFICES ASSUME NEW r \in S, r \notin val, Cardinality({v \in val : v > r}) < k.size
               PROVE  FALSE
  BY DEF Missing
<1>2. ~Shown(val, k, r)  BY <1>1 DEF Shown
<1>3. r \in due[k] \/ (r \in rows[k.table] /\ AgeOf(k.table, r) = Horizon)
  BY <1>1 DEF Demand
<1>4. Horizon \in Nat  BY RestApiAssumption DEF Horizon
<1>5. QED BY <1>2, <1>3, <1>4 DEF ShowsAll, ShowsOld

LEMMA EntryShows ==
    ASSUME TablesInv, NEW k \in Keys, EntryOk(k), region[k] # None, ~Expired(region[k]),
           NEW S, S \subseteq Demand(k)
    PROVE  Missing(region[k].val, k, S) = {}
<1>1. /\ region[k].life \in 0 .. Expire + 1 /\ region[k].life # 0
      /\ ShowsAll(region[k].val, k, due[k])
      /\ ShowsOld(region[k].val, k, Expire + 1 - region[k].life + Hold)
  BY DEF EntryOk, Expired
<1>2. PICK bound \in Nat : bound = Expire + 1 - region[k].life + Hold /\ bound < Horizon
  BY <1>1, RestApiAssumption DEF Horizon
<1>3. QED BY <1>1, <1>2, NothingMissing

(* While time stands still, what a row is demanded for and what an answer   *)
(* may lack because it is young only grow.                                  *)
LEMMA DemandGrows ==
    ASSUME TablesInv, NEW k \in Keys, UNCHANGED age,
           rows[k.table] \subseteq rows'[k.table], due[k] \subseteq due'[k]
    PROVE  Demand(k) \subseteq Demand(k)'
BY DEF Demand, AgeOf

LEMMA OldKept ==
    ASSUME TablesInv, NEW k \in Keys, UNCHANGED age, NEW val, NEW bound \in Nat,
           ShowsOld(val, k, bound)
    PROVE  ShowsOld(val, k, bound)'
<1>1. k.table \in Tables  BY RestApiAssumption
<1>2. ASSUME NEW r \in rows'[k.table], r \notin rows[k.table]
      PROVE  AgeOf(k.table, r)' = 0
  BY <1>1, <1>2 DEF TablesInv, AgeOf
<1>3. \A r \in rows[k.table] : Shown(val, k, r) \/ AgeOf(k.table, r) <= bound
  BY DEF ShowsOld
<1>4. \A r \in rows[k.table] : AgeOf(k.table, r)' = AgeOf(k.table, r)
  BY DEF AgeOf
<1>5. ASSUME NEW r \in rows'[k.table]
      PROVE  Shown(val, k, r) \/ AgeOf(k.table, r)' <= bound
  BY <1>2, <1>3, <1>4, <1>5
<1>6. QED BY <1>5 DEF ShowsOld, Shown

LEMMA LookupKept ==
    ASSUME Shape, TablesInv, NEW u \in Threads, LookupOk(u), RecordOk(th[u]),
           UNCHANGED age, th'[u] = th[u],
           \A tab \in Tables : rows[tab] \subseteq rows'[tab],
           \A k \in Keys : due[k] \subseteq due'[k],
           \A k \in Keys : mutex[k] = u => mutex'[k] = u,
           \A k \in Keys : mutex[k] = u /\ th[u].pc = "store" => due'[k] = due[k]
    PROVE  LookupOk(u)'
<1>1. th'[u].pc = "invalidate" => th'[u].row \in rows'[th'[u].log]
  BY DEF LookupOk, RecordOk, Tables
<1>2. ASSUME NEW k \in Keys, Works(th[u], k)
      PROVE  /\ th[u].pc \in {"create", "store"} => mutex'[k] = u
             /\ th[u].pc \in {"wait", "try", "create", "store"} => th[u].need \subseteq Demand(k)'
             /\ th[u].pc = "store" =>
                   /\ th[u].val \subseteq rows'[k.table]
                   /\ ShowsAll(th[u].val, k, due'[k])
                   /\ \A r \in rows'[k.table] :
                         Shown(th[u].val, k, r) \/ AgeOf(k.table, r)' <= th[u].held
  <2>1. k.table \in Tables  BY RestApiAssumption
  <2>2. th[u].pc \in {"create", "store"} => mutex[k] = u /\ mutex'[k] = u
    BY <1>2 DEF LookupOk
  <2>3. Demand(k) \subseteq Demand(k)'  BY <2>1, DemandGrows
  <2>4. th[u].pc \in {"wait", "try", "create", "store"} => th[u].need \subseteq Demand(k)
    BY <1>2 DEF LookupOk
  <2>5. CASE th[u].pc = "store"
    <3>1. /\ th[u].val \subseteq rows[k.table] /\ ShowsAll(th[u].val, k, due[k])
          /\ ShowsOld(th[u].val, k, th[u].held)
      BY <1>2, <2>5 DEF LookupOk
    <3>7. Hold \in Nat  BY RestApiAssumption
    <3>8. th[u].held \in Nat  BY <3>7 DEF RecordOk
    <3>2. PICK val, held : val = th[u].val /\ held = th[u].held /\ held \in Nat
      BY <3>8
    <3>3. ShowsOld(val, k, held)'  BY <3>1, <3>2, OldKept
    <3>4. \A r \in rows'[k.table] : Shown(val, k, r) \/ AgeOf(k.table, r)' <= held
      BY <3>3 DEF ShowsOld, Shown
    <3>5. due'[k] = due[k] /\ rows[k.table] \subseteq rows'[k.table]
      BY <2>1, <2>2, <2>5
    <3>6. QED BY <2>2, <2>3, <2>4, <3>1, <3>2, <3>4, <3>5
  <2>6. QED BY <2>2, <2>3, <2>4, <2>5
<1>3. QED BY <1>1, <1>2 DEF LookupOk, Works, ShowsAll, ShowsOld, Shown

(* What a step of t does to the lookups of the others: it takes no mutex of *)
(* theirs, and demands nothing new of one that has read and is to store.    *)
LEMMA StepOthers ==
    ASSUME MutexInv, RecordsInv, ListInv, NEW t \in Threads,
           Step(t) \/ \E in \in load.inputs : Begin(t, in)
    PROVE  \A u \in Threads \ {t} : LookupOk(u)'
<1> USE DEF ListInv
<1>1. SUFFICES ASSUME NEW u \in Threads, u # t PROVE LookupOk(u)'  OBVIOUS
<1>2. Shape /\ LookupOk(u) /\ LookupOk(t) /\ RecordOk(th[u]) /\ u # None
  BY RestApiAssumption DEF MutexInv, LookupInv, RecordsInv
<1>3. /\ th'[u] = th[u] /\ UNCHANGED age
      /\ \A tab \in Tables : rows[tab] \subseteq rows'[tab]
      /\ \A k \in Keys : due[k] \subseteq due'[k]
  BY <1>1, <1>2, OtherRecords, StepTables
<1>4. \A k \in Keys : mutex[k] = u => mutex'[k] = u
  <2>1. SUFFICES ASSUME NEW k \in Keys, mutex[k] = u PROVE mutex'[k] = u  OBVIOUS
  <2>2. CASE UNCHANGED mutex  BY <2>1, <2>2
  <2>3. CASE Acquire(t)
    <3>1. mutex[Head(th[t].todo)] = None
          /\ (UNCHANGED mutex \/ mutex' = [mutex EXCEPT ![Head(th[t].todo)] = t])
      BY <2>3 DEF Acquire, Enter
    <3>2. QED BY <1>2, <2>1, <3>1 DEF Shape
  <2>4. CASE CreateFails(t) \/ Store(t)
    <3>1. /\ th[t].pc \in {"create", "store"}
          /\ mutex' = [mutex EXCEPT ![Head(th[t].todo)] = None]
      BY <2>4 DEF CreateFails, Store
    <3>2. th[t].todo # <<>>  BY <1>2, <3>1 DEF Shape, Looking
    <3>3. k = Head(th[t].todo) => mutex[k] = t  BY <1>2, <3>1, <3>2 DEF LookupOk, Works
    <3>4. k # Head(th[t].todo)  BY <1>1, <2>1, <3>3
    <3>5. QED BY <1>2, <2>1, <3>1, <3>4 DEF Shape
  <2>5. QED BY <2>2, <2>3, <2>4
            DEF Step, SendHistory, Get, InProgressElsewhere, Create, Use, Flush, Commit, CommitFails,
                Invalidate, TtlGet, TtlRead, TtlStore, TtlUse, Begin, caches
<1>5. \A k \in Keys : mutex[k] = u /\ th[u].pc = "store" => due'[k] = due[k]
  <2>1. SUFFICES ASSUME NEW k \in Keys, mutex[k] = u, th[u].pc = "store" PROVE due'[k] = due[k]
    OBVIOUS
  <2>2. CASE UNCHANGED due  BY <2>2
  <2>3. CASE Store(t)
    <3>1. th[t].pc = "store" /\ due' = [due EXCEPT ![Head(th[t].todo)] = @ \cup th[t].val]
      BY <2>3 DEF Store
    <3>2. th[t].todo # <<>>  BY <1>2, <3>1 DEF Shape, Looking
    <3>3. k = Head(th[t].todo) => mutex[k] = t  BY <1>2, <3>1, <3>2 DEF LookupOk, Works
    <3>4. k # Head(th[t].todo)  BY <1>1, <2>1, <3>3
    <3>5. QED BY <3>1, <3>4 DEF TablesInv
  <2>4. CASE Invalidate(t)
    <3>1. Reading(k)  BY <1>2, <2>1 DEF Reading
    <3>2. QED BY <2>4, <3>1 DEF Invalidate
  <2>5. QED BY <2>2, <2>3, <2>4
            DEF Step, SendHistory, Get, Acquire, InProgressElsewhere, Create, CreateFails, Use, Flush,
                Commit, CommitFails, TtlGet, TtlRead, TtlStore, TtlUse, Begin, caches
<1>6. QED BY <1>2, <1>3, <1>4, <1>5, LookupKept

(* The query answers with the newest rows there are. *)
LEMMA QueryShows ==
    ASSUME TablesInv, NEW k \in Keys
    PROVE  Query(k) \subseteq rows[k.table] /\ ShowsAll(Query(k), k, rows[k.table])
<1>1. k.table \in Tables /\ k.size \in Nat  BY RestApiAssumption
<1>2. IsFiniteSet(rows[k.table]) /\ rows[k.table] \subseteq Nat  BY <1>1 DEF TablesInv
<1>3. ASSUME NEW r \in rows[k.table] PROVE Shown(Query(k), k, r)
  BY <1>1, <1>2, NewestShows DEF Query, Shown
<1>4. QED BY <1>3 DEF ShowsAll, Query, Newest

LEMMA StepSelf ==
    ASSUME MutexInv, RecordsInv, ListInv, NEW t \in Threads,
           Step(t) \/ \E in \in load.inputs : Begin(t, in)
    PROVE  LookupOk(t)'
<1> USE DEF ListInv, Slots
<1>0. /\ ThreadRecord(th[t]) /\ th = [u \in Threads |-> th[u]] /\ RecordOk(th[t]) /\ LookupOk(t)
      /\ Shape
  BY DEF MutexInv, Shape, RecordsInv, LookupInv, LookupOk
<1>1. ASSUME th'[t].pc \notin {"invalidate", "wait", "try", "create", "store"}
      PROVE  LookupOk(t)'
  BY <1>1 DEF LookupOk
<1>2. ASSUME Looking(th[t]), NEW key, key = Head(th[t].todo)
      PROVE  /\ key \in Keys /\ Works(th[t], key)
             /\ \A k : Works(th[t], k) => k = key
  <2>1. th[t].todo # <<>> /\ th[t].todo \in Seq(Keys)  BY <1>0, <1>2 DEF Shape, RecordOk
  <2>2. Head(th[t].todo) \in Keys  BY <2>1, TailFacts
  <2>3. QED BY <1>2, <2>1, <2>2 DEF Works
<1>3. ASSUME NEW in \in load.inputs, Begin(t, in) PROVE LookupOk(t)'
  BY <1>0, <1>1, <1>3, BeginRecord
<1>4. CASE SendHistory(t) \/ CreateFails(t) \/ CommitFails(t) \/ Invalidate(t) \/ TtlUse(t)
  <2>1. th'[t] = Idle
    BY <1>0, <1>4 DEF SendHistory, CreateFails, CommitFails, Invalidate, TtlUse, Answer
  <2>2. QED BY <1>1, <2>1, IdleRecord
<1>5. CASE Get(t)
  <2>1. PICK key : key = Head(th[t].todo)  OBVIOUS
  <2>2. Looking(th[t])  BY <1>5 DEF Get, Looking
  <2>3. /\ key \in Keys /\ Works(th[t], key) /\ \A k : Works(th[t], k) => k = key
    BY <1>2, <2>1, <2>2
  <2>4. /\ th'[t].todo = th[t].todo /\ UNCHANGED <<rows, age, due>>
        /\ th'[t].pc = "found" \/ (th'[t].pc \in {"wait", "try"} /\ th'[t].need = Demand(key))
    BY <1>0, <1>5, <2>1, GetRecord DEF Get, db, caches
  <2>5. Demand(key)' = Demand(key)  BY <2>4 DEF Demand, AgeOf
  <2>6. CASE th'[t].pc = "found"  BY <1>1, <2>6
  <2>7. CASE th'[t].pc # "found"
    BY <2>3, <2>4, <2>5, <2>7 DEF LookupOk, Works
  <2>8. QED BY <2>6, <2>7
<1>6. CASE Acquire(t)
  <2>1. PICK key : key = Head(th[t].todo)  OBVIOUS
  <2>2. Looking(th[t]) /\ th[t].pc \in {"wait", "try"}  BY <1>6 DEF Acquire, Looking
  <2>3. /\ key \in Keys /\ Works(th[t], key) /\ \A k : Works(th[t], k) => k = key
    BY <1>2, <2>1, <2>2
  <2>4. th[t].need \subseteq Demand(key)  BY <1>0, <2>2, <2>3 DEF LookupOk
  <2>5. CASE Found(t, region[key].val)
    BY <1>0, <1>1, <2>2, <2>5, FoundRecord
  <2>6. CASE /\ th' = [th EXCEPT ![t].pc = "create", ![t].val = {}]
             /\ mutex' = [mutex EXCEPT ![key] = t]
    <3>1. UNCHANGED <<rows, age, due>>  BY <1>6 DEF Acquire, db
    <3>2. /\ th'[t].pc = "create" /\ th'[t].todo = th[t].todo /\ th'[t].need = th[t].need
      BY <1>0, <2>6 DEF ThreadRecord
    <3>3. mutex'[key] = t  BY <1>0, <2>3, <2>6 DEF Shape
    <3>4. Demand(key)' = Demand(key)  BY <3>1 DEF Demand, AgeOf
    <3>5. QED BY <2>3, <2>4, <3>2, <3>3, <3>4 DEF LookupOk, Works
  <2>7. QED BY <1>6, <2>1, <2>5, <2>6 DEF Acquire, Enter
<1>7. CASE InProgressElsewhere(t) \/ Store(t)
  <2>1. Looking(th[t]) /\ Found(t, th[t].val)  BY <1>7 DEF InProgressElsewhere, Store, Looking
  <2>2. QED BY <1>0, <1>1, <2>1, FoundRecord
<1>8. CASE Create(t)
  <2>1. PICK key : key = Head(th[t].todo)  OBVIOUS
  <2>2. Looking(th[t]) /\ th[t].pc = "create"  BY <1>8 DEF Create, Looking
  <2>3. /\ key \in Keys /\ Works(th[t], key) /\ \A k : Works(th[t], k) => k = key
    BY <1>2, <2>1, <2>2
  <2>4. mutex[key] = t /\ th[t].need \subseteq Demand(key)  BY <1>0, <2>2, <2>3 DEF LookupOk
  <2>5. PICK val : val = Query(key)  OBVIOUS
  <2>6. th'[t] = [th[t] EXCEPT !.pc = "store", !.val = val] /\ UNCHANGED <<rows, age, due, mutex>>
    BY <1>0, <1>8, <2>1, <2>5 DEF Create, db, caches
  <2>7. /\ th'[t].pc = "store" /\ th'[t].todo = th[t].todo /\ th'[t].need = th[t].need
        /\ th'[t].val = val
    BY <1>0, <2>6 DEF ThreadRecord
  <2>8. val \subseteq rows[key.table] /\ ShowsAll(val, key, rows[key.table])
    BY <2>3, <2>5, QueryShows
  <2>9. ShowsAll(val, key, due[key])  BY <2>3, <2>8 DEF ShowsAll, TablesInv
  <2>10. \A bound : ShowsOld(val, key, bound)'
    BY <2>6, <2>8 DEF ShowsAll, ShowsOld, Shown
  <2>11. Demand(key)' = Demand(key)  BY <2>6 DEF Demand, AgeOf
  <2>12. PICK held : held = th'[t].held  OBVIOUS
  <2>13. ShowsOld(val, key, held)'  BY <2>10
  <2>14. \A k : Works(th'[t], k) => k = key  BY <2>3, <2>7 DEF Works
  <2>15. QED BY <1>0, <2>3, <2>4, <2>6, <2>7, <2>8, <2>9, <2>11, <2>12, <2>13, <2>14 DEF LookupOk
<1>9. CASE Use(t)
  <2>1. th'[t].pc = Rest(Tail(th[t].todo), th[t].log)
    BY <1>0, <1>9 DEF Use, Idle
  <2>2. th'[t].pc \in {"get", "log", "idle"}  BY <2>1 DEF Rest
  <2>3. QED BY <1>1, <2>2
<1>10. CASE Commit(t)
  <2>1. PICK log, row : log = th[t].log /\ row = th[t].row  OBVIOUS
  <2>2. /\ th' = [th EXCEPT ![t].pc = "invalidate"] /\ th[t].pc = "commit"
        /\ rows' = [rows EXCEPT ![log] = @ \cup {row}]
    BY <1>10, <2>1 DEF Commit
  <2>3. /\ th'[t].pc = "invalidate" /\ th'[t].log = log /\ th'[t].row = row
    BY <1>0, <2>1, <2>2 DEF ThreadRecord
  <2>4. log \in Tables  BY <1>0, <2>1, <2>2 DEF RecordOk, Tables
  <2>5. row \in rows'[log]  BY <2>2, <2>4 DEF TablesInv
  <2>6. QED BY <1>0, <2>3, <2>5 DEF LookupOk
<1>11. CASE Flush(t) \/ TtlGet(t) \/ TtlRead(t) \/ TtlStore(t)
  <2>1. th'[t].pc \in {"commit", "listed", "ttlRead", "ttlStore"}
    <3>1. CASE Flush(t)  BY <1>0, <3>1 DEF Flush, ThreadRecord
    <3>2. CASE TtlGet(t) /\ ttlCache # None
      <4>1. th'[t] = [th[t] EXCEPT !.pc = "listed", !.val = ttlCache.val]
        BY <1>0, <3>2 DEF TtlGet
      <4>2. QED BY <1>0, <4>1 DEF ThreadRecord
    <3>3. CASE TtlGet(t) /\ ttlCache = None  BY <1>0, <3>3 DEF TtlGet, ThreadRecord
    <3>4. CASE TtlRead(t)  BY <1>0, <3>4 DEF TtlRead, ThreadRecord
    <3>5. CASE TtlStore(t)  BY <1>0, <3>5 DEF TtlStore, ThreadRecord
    <3>6. QED BY <1>11, <3>1, <3>2, <3>3, <3>4, <3>5
  <2>2. QED BY <1>1, <2>1
<1>12. QED BY <1>3, <1>4, <1>5, <1>6, <1>7, <1>8, <1>9, <1>10, <1>11 DEF Step

(* An entry stays good as long as nothing new is due of it. *)
LEMMA EntryKept ==
    ASSUME TablesInv, NEW k \in Keys, EntryOk(k), UNCHANGED age,
           region'[k] = region[k], due'[k] = due[k]
    PROVE  EntryOk(k)'
<1>1. SUFFICES ASSUME region[k] # None PROVE EntryOk(k)'  BY DEF EntryOk
<1>2. CASE region[k].life = 0  BY <1>1, <1>2 DEF EntryOk
<1>3. CASE region[k].life # 0
  <2>1. PICK val, bound : /\ val = region[k].val /\ bound = Expire + 1 - region[k].life + Hold
                          /\ ShowsAll(val, k, due[k]) /\ ShowsOld(val, k, bound)
    BY <1>1, <1>3 DEF EntryOk
  <2>2. region[k].life \in 0 .. Expire + 1  BY <1>1 DEF EntryOk
  <2>3. bound \in Nat  BY <2>1, <2>2, RestApiAssumption
  <2>4. ShowsOld(val, k, bound)'  BY <2>1, <2>3, OldKept
  <2>5. QED BY <1>1, <2>1, <2>4 DEF EntryOk, ShowsAll, Shown
<1>4. QED BY <1>2, <1>3

LEMMA StepRegion ==
    ASSUME MutexInv, RecordsInv, ListInv, NEW t \in Threads,
           Step(t) \/ \E in \in load.inputs : Begin(t, in)
    PROVE  RegionInv'
<1> USE DEF ListInv
<1>0. /\ RecordOk(th[t]) /\ LookupOk(t) /\ Shape /\ UNCHANGED age
      /\ \A k \in Keys : EntryOk(k)
  BY StepTables DEF MutexInv, RecordsInv, LookupInv, RegionInv
<1>1. CASE UNCHANGED <<region, due>>
  <2>1. \A k \in Keys : EntryOk(k)'  BY <1>0, <1>1, EntryKept
  <2>2. QED BY <1>1, <2>1 DEF RegionInv
<1>2. CASE Store(t)
  <2>1. PICK key, val : key = Head(th[t].todo) /\ val = th[t].val  OBVIOUS
  <2>2. /\ th[t].pc = "store" /\ UNCHANGED rows
        /\ region' = [region EXCEPT ![key] = [val |-> val, life |-> Expire + 1]]
        /\ due' = [due EXCEPT ![key] = @ \cup val]
    BY <1>2, <2>1 DEF Store, db
  <2>3. th[t].todo # <<>>  BY <1>0, <2>2 DEF Shape, Looking
  <2>4. key \in Keys /\ Works(th[t], key)  BY <1>0, <2>1, <2>3, TailFacts DEF RecordOk, Works
  <2>5. ShowsAll(val, key, due[key]) /\ ShowsOld(val, key, th[t].held)
    BY <1>0, <2>1, <2>2, <2>4 DEF LookupOk
  <2>6. Hold \in Nat /\ Expire \in Nat  BY RestApiAssumption
  <2>7. th[t].held \in 0 .. Hold  BY <1>0 DEF RecordOk
  <2>8. ShowsOld(val, key, Hold)
    <3>1. \A tab \in Tables : \A r : AgeOf(tab, r) \in Int
      <4>1. Horizon \in Nat  BY RestApiAssumption DEF Horizon
      <4>2. QED BY <4>1 DEF AgeOf, TablesInv
    <3>2. key.table \in Tables  BY <2>4, RestApiAssumption
    <3>3. QED BY <2>5, <2>6, <2>7, <3>1, <3>2 DEF ShowsOld
  <2>9. ShowsOld(val, key, Hold)'  BY <1>0, <2>4, <2>6, <2>8, OldKept
  <2>10. /\ region' = [k \in Keys |-> region'[k]]
         /\ region'[key] = [val |-> val, life |-> Expire + 1] /\ due'[key] = due[key] \cup val
         /\ \A k \in Keys \ {key} : region'[k] = region[k] /\ due'[k] = due[k]
    BY <2>2, <2>4 DEF RegionInv, TablesInv
  <2>11. ShowsAll(val, key, due'[key])  BY <2>5, <2>10 DEF ShowsAll, Shown
  <2>12. EntryOk(key)'
    <3>1. /\ region'[key].val = val /\ region'[key].life = Expire + 1
          /\ region'[key] = [f \in {"val", "life"} |-> region'[key][f]]
      BY <2>10
    <3>2. PICK bound : bound = Expire + 1 - region'[key].life + Hold /\ bound = Hold
      BY <2>6, <3>1
    <3>3. Expire + 1 \in 0 .. Expire + 1  BY <2>6
    <3>4. QED BY <2>9, <2>11, <3>1, <3>2, <3>3 DEF EntryOk, ShowsAll, Shown
  <2>13. \A k \in Keys \ {key} : EntryOk(k)'  BY <1>0, <2>10, EntryKept
  <2>14. QED BY <2>10, <2>12, <2>13 DEF RegionInv
<1>3. CASE Invalidate(t)
  <2>1. region' = [k \in Keys |-> IF region[k] = None THEN None ELSE [region[k] EXCEPT !.life = 0]]
    BY <1>3 DEF Invalidate
  <2>2. ASSUME NEW k \in Keys, region'[k] # None
        PROVE  /\ region'[k] = [f \in {"val", "life"} |-> region'[k][f]]
               /\ region'[k].life = 0
    <3>1. region'[k] = [region[k] EXCEPT !.life = 0] /\ region[k] # None  BY <2>1, <2>2
    <3>2. region[k] = [f \in {"val", "life"} |-> region[k][f]]  BY <1>0, <3>1 DEF EntryOk
    <3>3. QED BY <3>1, <3>2
  <2>3. Expire + 1 >= 0  BY RestApiAssumption
  <2>4. \A k \in Keys : EntryOk(k)'  BY <2>2, <2>3 DEF EntryOk
  <2>5. QED BY <2>1, <2>4 DEF RegionInv
<1>4. QED BY <1>1, <1>2, <1>3
          DEF Step, SendHistory, Get, Acquire, InProgressElsewhere, Create, CreateFails, Use, Flush,
              Commit, CommitFails, TtlGet, TtlRead, TtlStore, TtlUse, Begin, caches

(* A tick makes every row, every entry and every thread that has read older *)
(* by one; a row that has the greatest age keeps it until it is due.        *)
LEMMA TickAges ==
    ASSUME TablesInv, Tick, NEW k \in Keys
    PROVE  /\ Demand(k) \subseteq Demand(k)'
           /\ \A val : \A bound \in Nat : ShowsOld(val, k, bound) => ShowsOld(val, k, bound + 1)'
<1>1. UNCHANGED <<rows, due>> /\ k.table \in Tables /\ Horizon \in Nat
  BY RestApiAssumption DEF Tick, Horizon
<1>2. ASSUME NEW r \in rows[k.table]
      PROVE  /\ AgeOf(k.table, r) \in 0 .. Horizon /\ AgeOf(k.table, r)' <= AgeOf(k.table, r) + 1
             /\ AgeOf(k.table, r)' \in Nat
             /\ r \notin due[k] /\ AgeOf(k.table, r) = Horizon => AgeOf(k.table, r)' = Horizon
  <2>1. PICK tab \in Tables : tab = k.table  BY <1>1
  <2>2. age'[tab] = [x \in rows[tab] |-> IF \E q \in Keys : q.table = tab /\ x \notin due[q]
                                         THEN Older(AgeOf(tab, x), Horizon) ELSE 0]
    BY DEF Tick
  <2>3. AgeOf(tab, r)' = IF \E q \in Keys : q.table = tab /\ r \notin due[q]
                         THEN Older(AgeOf(tab, r), Horizon) ELSE 0
    BY <2>1, <2>2 DEF AgeOf
  <2>4. AgeOf(tab, r) \in 0 .. Horizon  BY <1>1 DEF AgeOf, TablesInv
  <2>5. QED BY <1>1, <2>1, <2>3, <2>4 DEF Older
<1>3. Demand(k) \subseteq Demand(k)'  BY <1>1, <1>2 DEF Demand
<1>4. ASSUME NEW val, NEW bound \in Nat, ShowsOld(val, k, bound)
      PROVE  ShowsOld(val, k, bound + 1)'
  <2>1. \A r \in rows[k.table] : Shown(val, k, r) \/ AgeOf(k.table, r) <= bound
    BY <1>4 DEF ShowsOld
  <2>2. \A r \in rows'[k.table] : Shown(val, k, r) \/ AgeOf(k.table, r)' <= bound + 1
    BY <1>1, <1>2, <2>1
  <2>3. QED BY <2>2 DEF ShowsOld, Shown
<1>5. QED BY <1>3, <1>4

LEMMA TickRegion ==
    ASSUME ListInv, Tick
    PROVE  RegionInv'
<1> USE DEF ListInv
<1>1. /\ UNCHANGED due
      /\ region' = [k \in Keys |-> IF region[k] = None THEN None
                                   ELSE [region[k] EXCEPT !.life = IF @ = 0 THEN 0 ELSE @ - 1]]
  BY DEF Tick
<1>2. Hold \in Nat /\ Expire \in Nat  BY RestApiAssumption
<1>3. ASSUME NEW k \in Keys, region'[k] # None PROVE EntryOk(k)'
  <2>1. region'[k] = [region[k] EXCEPT !.life = IF @ = 0 THEN 0 ELSE @ - 1] /\ region[k] # None
    BY <1>1, <1>3
  <2>2. PICK val, life : val = region[k].val /\ life = region[k].life  OBVIOUS
  <2>3. /\ region[k] = [f \in {"val", "life"} |-> region[k][f]] /\ life \in 0 .. Expire + 1
        /\ life # 0 => ShowsAll(val, k, due[k]) /\ ShowsOld(val, k, Expire + 1 - life + Hold)
    BY <2>1, <2>2 DEF RegionInv, EntryOk
  <2>4. /\ region'[k] = [f \in {"val", "life"} |-> region'[k][f]]
        /\ region'[k].val = val /\ region'[k].life = IF life = 0 THEN 0 ELSE life - 1
    BY <2>1, <2>2, <2>3
  <2>5. CASE life = 0  BY <1>2, <2>4, <2>5 DEF EntryOk
  <2>6. CASE life # 0
    <3>1. PICK bound \in Nat : bound = Expire + 1 - life + Hold  BY <1>2, <2>3
    <3>2. ShowsOld(val, k, bound + 1)'  BY <2>3, <2>6, <3>1, TickAges
    <3>3. Expire + 1 - region'[k].life + Hold = bound + 1  BY <1>2, <2>3, <2>4, <2>6, <3>1
    <3>4. region'[k].life \in 0 .. Expire + 1  BY <1>2, <2>3, <2>4, <2>6
    <3>5. ShowsAll(val, k, due[k])'  BY <1>1, <2>3, <2>6 DEF ShowsAll, Shown
    <3>6. QED BY <1>1, <2>4, <3>2, <3>3, <3>4, <3>5 DEF EntryOk
  <2>7. QED BY <2>5, <2>6
<1>4. \A k \in Keys : EntryOk(k)'  BY <1>3 DEF EntryOk
<1>5. QED BY <1>1, <1>4 DEF RegionInv

LEMMA TickLookups ==
    ASSUME Shape, RecordsInv, ListInv, Tick, NEW u \in Threads
    PROVE  LookupOk(u)'
<1> USE DEF ListInv
<1>1. UNCHANGED <<rows, due, mutex>> /\ LookupOk(u)  BY DEF Tick, LookupInv
<1>2. \A f \in Slots \ {"held"} : th'[u][f] = th[u][f]  BY TickRecords
<1>3. /\ th'[u].pc = th[u].pc /\ th'[u].todo = th[u].todo
      /\ th'[u].need = th[u].need /\ th'[u].val = th[u].val /\ th'[u].row = th[u].row
      /\ th'[u].log = th[u].log
  BY <1>2 DEF Slots
<1>4. ASSUME NEW k \in Keys, Works(th[u], k), th[u].pc = "store"
      PROVE  ShowsOld(th[u].val, k, th[u].held)'
  <2>1. PICK val, held : val = th[u].val /\ held = th[u].held  OBVIOUS
  <2>2. Hold \in Nat  BY RestApiAssumption
  <2>3. held \in Nat  BY <2>1, <2>2 DEF RecordsInv, RecordOk
  <2>4. ShowsOld(val, k, held)  BY <1>1, <1>4, <2>1 DEF LookupOk
  <2>5. ShowsOld(val, k, held + 1)'  BY <2>3, <2>4, TickAges
  <2>6. th'[u].held = held + 1  BY <1>4, <2>1, TickRecords DEF InFlight
  <2>7. QED BY <1>3, <2>1, <2>5, <2>6
<1>5. \A k \in Keys : Demand(k) \subseteq Demand(k)'  BY TickAges
<1>6. \A val, k, S : ShowsAll(val, k, S)' = ShowsAll(val, k, S)  BY DEF ShowsAll, Shown
<1>7. ASSUME NEW k \in Keys, Works(th[u], k)
      PROVE  /\ th[u].pc \in {"create", "store"} => mutex'[k] = u
             /\ th[u].pc \in {"wait", "try", "create", "store"} => th[u].need \subseteq Demand(k)'
             /\ th[u].pc = "store" =>
                   th[u].val \subseteq rows[k.table] /\ ShowsAll(th[u].val, k, due[k])
  BY <1>1, <1>5, <1>7 DEF LookupOk
<1>8. th[u].pc = "invalidate" => th[u].row \in rows[th[u].log]
  BY <1>1 DEF LookupOk
<1>9. ASSUME NEW k \in Keys, Works(th'[u], k)
      PROVE  /\ th'[u].pc \in {"create", "store"} => mutex'[k] = u
             /\ th'[u].pc \in {"wait", "try", "create", "store"} => th'[u].need \subseteq Demand(k)'
             /\ th'[u].pc = "store" =>
                   /\ th'[u].val \subseteq rows'[k.table] /\ ShowsAll(th'[u].val, k, due'[k])
                   /\ ShowsOld(th[u].val, k, th[u].held)'
  <2>1. Works(th[u], k)  BY <1>3, <1>9 DEF Works
  <2>2. QED BY <1>1, <1>3, <1>4, <1>7, <2>1
<1>10. QED BY <1>1, <1>3, <1>8, <1>9 DEF LookupOk, ShowsAll, Shown

LEMMA NextLists ==
    MutexInv /\ RecordsInv /\ WxListInv /\ ListInv /\ [Next]_vars
        => RecordsInv' /\ WxListInv' /\ ListInv'
<1> SUFFICES ASSUME MutexInv, RecordsInv, WxListInv, ListInv, [Next]_vars
             PROVE  RecordsInv' /\ WxListInv' /\ ListInv'
  OBVIOUS
<1>0. Shape /\ TablesInv /\ LookupInv /\ RegionInv  BY DEF MutexInv, ListInv
<1>1. RecordsInv' /\ WxListInv'  BY <1>0, NextRecords, NextWxList
<1>2. ASSUME NEW t \in Threads, Step(t) \/ \E in \in load.inputs : Begin(t, in)
      PROVE  ListInv'
  <2>1. LookupInv'  BY <1>2, StepOthers, StepSelf DEF LookupInv
  <2>2. QED BY <1>0, <1>2, <2>1, StepTables, StepRegion DEF ListInv
<1>3. CASE World
  <2>1. TablesInv'  BY <1>0, <1>3, WorldTables
  <2>2. CASE Tick
    <3>1. LookupInv'  BY <1>0, <2>2, TickLookups DEF LookupInv
    <3>2. RegionInv'  BY <1>0, <2>2, TickRegion
    <3>3. QED BY <1>1, <2>1, <3>1, <3>2 DEF ListInv
  <2>3. CASE ~Tick
    <3>1. /\ UNCHANGED <<mutex, due, th, region, age>>
          /\ \A tab \in Tables : rows[tab] \subseteq rows'[tab]
      BY <1>0, <1>3, <2>3, WorldTables
    <3>2. \A u \in Threads : LookupOk(u) /\ RecordOk(th[u])  BY <1>0 DEF LookupInv, RecordsInv
    <3>3. \A u \in Threads : LookupOk(u)'  BY <1>0, <3>1, <3>2, LookupKept
    <3>4. \A k \in Keys : EntryOk(k)'  BY <1>0, <3>1, EntryKept DEF RegionInv
    <3>5. LookupInv'  BY <3>3 DEF LookupInv
    <3>6. RegionInv'  BY <1>0, <3>1, <3>4 DEF RegionInv
    <3>7. QED BY <1>1, <2>1, <3>5, <3>6 DEF ListInv
  <2>4. QED BY <2>2, <2>3
<1>4. QED BY <1>1, <1>2, <1>3 DEF Next, World

LEMMA ListsInvariant == Spec => [](RecordsInv /\ WxListInv /\ ListInv)
<1>1. Init => MutexInv /\ RecordsInv /\ WxListInv /\ ListInv  BY InitMutexInv, InitLists
<1>2. MutexInv /\ RecordsInv /\ WxListInv /\ ListInv /\ [Next]_vars
         => MutexInv' /\ RecordsInv' /\ WxListInv' /\ ListInv'
  BY NextMutexInv, NextLists
<1>3. QED BY <1>1, <1>2, PTL DEF Spec

(* How a lookup can end.                                                    *)
LEMMA EndsByStep ==
    ASSUME MutexInv, RecordsInv, ListInv, [Next]_vars, NEW t \in Threads, LookupEnds(t)
    PROVE  Get(t) \/ Acquire(t) \/ InProgressElsewhere(t) \/ Store(t)
<1> USE DEF LookupEnds, Slots
<1>0. Shape /\ ThreadRecord(th[t]) /\ th = [u \in Threads |-> th[u]]
  BY DEF MutexInv, Shape
<1>1. Step(t)
  <2>1. ~Tick  BY <1>0, TickRecords
  <2>2. ~(\E tab \in Ingested : IngestRow(tab)) /\ ~NewStation /\ ~UNCHANGED vars
    BY DEF IngestRow, NewStation, vars
  <2>3. \A u \in Threads \ {t} : ~(Step(u) \/ \E in \in load.inputs : Begin(u, in))
    BY <1>0, OtherRecords
  <2>4. ~(\E in \in load.inputs : Begin(t, in))  BY <1>0, BeginRecord
  <2>5. QED BY <2>1, <2>2, <2>3, <2>4 DEF Next
<1>2. ~(SendHistory(t) \/ CreateFails(t) \/ CommitFails(t) \/ Invalidate(t) \/ TtlUse(t))
  BY <1>0, IdleRecord DEF SendHistory, CreateFails, CommitFails, Invalidate, TtlUse, Answer
<1>3. ~(Create(t) \/ Flush(t) \/ Commit(t) \/ TtlRead(t) \/ TtlStore(t) \/ Use(t))
  BY <1>0 DEF Create, Flush, Commit, TtlRead, TtlStore, Use, ThreadRecord
<1>4. ~TtlGet(t)
  <2>1. SUFFICES ASSUME TtlGet(t) PROVE FALSE  OBVIOUS
  <2>2. CASE ttlCache # None
    <3>1. th'[t] = [th[t] EXCEPT !.pc = "listed", !.val = ttlCache.val]  BY <1>0, <2>1, <2>2 DEF TtlGet
    <3>2. QED BY <1>0, <3>1 DEF ThreadRecord
  <2>3. CASE ttlCache = None  BY <1>0, <2>1, <2>3 DEF TtlGet, ThreadRecord
  <2>4. QED BY <2>2, <2>3
<1>5. QED BY <1>1, <1>2, <1>3, <1>4 DEF Step

(* What the thread that regenerates an answer has read, or would read now,  *)
(* shows whatever a lookup of that query may demand.                        *)
LEMMA ComingShows ==
    ASSUME MutexInv, RecordsInv, ListInv, NEW k \in Keys, mutex[k] # None,
           NEW S, S \subseteq Demand(k)
    PROVE  Missing(Coming(k), k, S) = {}
<1>1. PICK u \in Threads : u = mutex[k]
  BY DEF MutexInv, Shape
<1>2. th[u].pc \in {"create", "store"} /\ Works(th[u], k)
  BY <1>1 DEF MutexInv, MutexHasWorker, Works
<1>3. TablesInv /\ LookupOk(u) /\ RecordOk(th[u])
  BY DEF ListInv, LookupInv, RecordsInv
<1>4. Hold \in Nat /\ Horizon \in Nat /\ Hold < Horizon /\ 0 < Horizon
  BY RestApiAssumption DEF Horizon
<1>5. CASE th[u].pc = "store"
  <2>1. Coming(k) = th[u].val  BY <1>1, <1>5 DEF Coming
  <2>2. ShowsAll(th[u].val, k, due[k]) /\ ShowsOld(th[u].val, k, th[u].held)
    BY <1>2, <1>3, <1>5 DEF LookupOk
  <2>3. th[u].held \in Nat /\ th[u].held < Horizon  BY <1>3, <1>4 DEF RecordOk
  <2>4. QED BY <1>3, <2>1, <2>2, <2>3, NothingMissing
<1>6. CASE th[u].pc = "create"
  <2>1. Coming(k) = Query(k)  BY <1>1, <1>6 DEF Coming
  <2>2. ShowsAll(Query(k), k, rows[k.table])  BY <1>3, QueryShows
  <2>3. ShowsAll(Query(k), k, due[k]) /\ ShowsOld(Query(k), k, 0)
    BY <1>3, <2>2 DEF ShowsAll, ShowsOld, TablesInv
  <2>4. QED BY <1>3, <1>4, <2>1, <2>3, NothingMissing
<1>7. QED BY <1>2, <1>5, <1>6

LEMMA LookupShowsDue ==
    ASSUME MutexInv, RecordsInv, ListInv, [Next]_vars, NEW t \in Threads, LookupEnds(t)
    PROVE  ShowsDue(t)
<1>0. /\ Shape /\ TablesInv /\ RecordOk(th[t]) /\ LookupOk(t)
      /\ \A k \in Keys : EntryOk(k)
  BY DEF MutexInv, RecordsInv, ListInv, LookupInv, RegionInv
<1>1. Get(t) \/ Acquire(t) \/ InProgressElsewhere(t) \/ Store(t)
  BY EndsByStep
<1>2. Looking(th[t])
  BY <1>1 DEF Get, Acquire, InProgressElsewhere, Store, Looking
<1>3. PICK k : k = Head(th[t].todo) /\ k \in Keys /\ Works(th[t], k)
  <2>1. th[t].todo # <<>> /\ th[t].todo \in Seq(Keys)  BY <1>0, <1>2 DEF Shape, RecordOk
  <2>2. Head(th[t].todo) \in Keys  BY <2>1, TailFacts
  <2>3. QED BY <2>1, <2>2 DEF Works
<1>4. ASSUME th'[t].missing = {} PROVE ShowsDue(t)
  BY <1>4 DEF ShowsDue
<1>5. CASE Get(t)
  <2>1. region[k] # None /\ ~Expired(region[k]) /\ th'[t].missing = Missing(region[k].val, k, Demand(k))
    BY <1>0, <1>3, <1>5, GetRecord DEF LookupEnds
  <2>2. Missing(region[k].val, k, Demand(k)) = {}  BY <1>0, <1>3, <2>1, EntryShows
  <2>3. QED BY <1>4, <2>1, <2>2
<1>6. CASE Acquire(t)
  <2>1. th[t].pc \in {"wait", "try"} /\ th[t].need \subseteq Demand(k)
    BY <1>0, <1>3, <1>6 DEF Acquire, LookupOk
  <2>2. CASE th' = [th EXCEPT ![t].pc = "create", ![t].val = {}]
    <3>1. th'[t].pc = "create"  BY <1>0, <2>2 DEF Shape, ThreadRecord, Slots
    <3>2. QED BY <3>1 DEF LookupEnds
  <2>3. CASE region[k] # None /\ ~Expired(region[k]) /\ Found(t, region[k].val)
    <3>1. Missing(region[k].val, k, th[t].need) = {}  BY <1>0, <1>3, <2>1, <2>3, EntryShows
    <3>2. th'[t].missing = Missing(region[k].val, k, th[t].need)
      BY <1>0, <1>2, <1>3, <2>3, FoundRecord
    <3>3. QED BY <1>4, <3>1, <3>2
  <2>4. QED BY <1>3, <1>6, <2>2, <2>3 DEF Acquire, Enter
<1>7. CASE Store(t)
  <2>1. /\ th[t].need \subseteq Demand(k) /\ ShowsAll(th[t].val, k, due[k])
        /\ ShowsOld(th[t].val, k, th[t].held)
    BY <1>0, <1>3, <1>7 DEF Store, LookupOk
  <2>2. th[t].held \in Nat /\ th[t].held < Horizon
    BY <1>0, RestApiAssumption DEF RecordOk, Horizon
  <2>3. Missing(th[t].val, k, th[t].need) = {}  BY <1>0, <1>3, <2>1, <2>2, NothingMissing
  <2>4. th'[t].missing = Missing(th[t].val, k, th[t].need)
    BY <1>0, <1>2, <1>3, <1>7, FoundRecord DEF Store
  <2>5. QED BY <1>4, <2>3, <2>4
<1>8. CASE InProgressElsewhere(t)
  <2>1. /\ th[t].pc = "try" /\ mutex[k] # None /\ Found(t, th[t].val)
        /\ th[t].need \subseteq Demand(k)
    BY <1>0, <1>3, <1>8 DEF InProgressElsewhere, LookupOk
  <2>2. mutex[k] # t
    BY <1>3, <2>1 DEF MutexInv, MutexHasWorker
  <2>3. th'[t].missing = Missing(th[t].val, k, th[t].need)
    BY <1>0, <1>2, <1>3, <2>1, FoundRecord
  <2>4. th'[t].missing \subseteq Demand(k)  BY <2>1, <2>3 DEF Missing
  <2>5. Missing(Coming(k), k, th'[t].missing) = {}
    BY <1>3, <2>1, <2>4, ComingShows
  <2>6. QED BY <1>3, <2>1, <2>2, <2>5 DEF ShowsDue
<1>9. QED BY <1>1, <1>5, <1>6, <1>7, <1>8

(* What a handler gets from the query cache shows, up to its page size,     *)
(* every row that was due when its lookup began, whatever other threads log,*)
(* invalidate and regenerate meanwhile; an old value handed out while       *)
(* another thread regenerates it lacks only due rows that thread's answer   *)
(* has (caching_query.py and db.py).                                        *)
THEOREM ListingsAreCurrent == Spec => ListingsShowLogged
<1>1. MutexInv /\ RecordsInv /\ ListInv /\ [Next]_vars
         => [\A t \in Threads : LookupEnds(t) => ShowsDue(t)]_vars
  BY LookupShowsDue
<1>2. Spec => []MutexInv
  BY InitMutexInv, NextMutexInv, PTL DEF Spec
<1>3. QED BY <1>1, <1>2, ListsInvariant, PTL DEF Spec, ListingsShowLogged

(* A list of weather stations lacks none that has been in the table for the *)
(* lifetime of the cached answer and the time one is held before it is      *)
(* stored (flask.py, wx_stations).                                          *)
THEOREM WxListIsBounded == Spec => []WxListBounded
<1>1. QED BY WxListRead, ListsInvariant, PTL

=============================================================================
