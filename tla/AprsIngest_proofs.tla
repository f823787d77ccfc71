-------------------------- MODULE AprsIngest_proofs --------------------------
(* Proofs about AprsIngest, for every set of packets, number of processors, *)
(* queue size, batch size, stagger and statistics interval.                 *)
EXTENDS AprsIngest, SequenceLemmas

(* NewRows selects rows from the batch, finitely many. *)
LEMMA NewRowsFacts ==
    ASSUME NEW batch \in Seq(Packets)
    PROVE  /\ NewRows(batch) \subseteq Range(batch)
           /\ Cardinality(NewRows(batch)) \in Nat
<1>1. NewRows(batch) \subseteq Range(batch)  BY DEF NewRows, Range
<1>2. QED BY <1>1, RangeFacts, FS_Subset, FS_CardinalityType

-----------------------------------------------------------------------------
(* Type correctness *)

LEMMA InitTypeOK == Init => TypeOK
BY SizeAssumption DEF Init, TypeOK, Processors, ProgramPoints, Fates

(* The history of how packets ended stays a function into Fates. *)
LEMMA EndsType ==
    ASSUME TypeOK, NEW S, NEW how \in Fates, Ends(S, how)
    PROVE  fate' \in [Packets -> Fates]
BY DEF TypeOK, Ends

LEMMA OnMessageTypeOK ==
    ASSUME TypeOK, NEW m \in Packets, OnMessage(m)
    PROVE  TypeOK'
<1> USE DEF TypeOK
<1> DEFINE p == rr_index % ProcessorCount
<1>1. p \in Processors
  BY SizeAssumption DEF Processors
<1>2. UNCHANGED <<pc, mode, packet_dicts, localVars, stats, aprs_packet, stopVars, unacked>>
  BY DEF OnMessage
<1>3. CASE OnMessageGarbled(m)
  <2>1. fate' \in [Packets -> Fates]
    BY <1>3, EndsType DEF OnMessageGarbled, Fates
  <2>2. QED BY <1>2, <1>3, <2>1 DEF OnMessageGarbled, localVars, stopVars
<1>4. CASE OnMessagePacket(m)
  <2>1. inbound' \subseteq Packets /\ rr_index' \in Nat
    BY <1>4 DEF OnMessagePacket
  <2>2. aprs_queues' \in [Processors -> Seq(Packets)] /\ fate' \in [Packets -> Fates]
    <3>1. CASE Full(aprs_queues[p])
      BY <1>4, <3>1, EndsType DEF OnMessagePacket, Fates
    <3>2. CASE ~Full(aprs_queues[p])
      <4>1. Append(aprs_queues[p], m) \in Seq(Packets)  BY <1>1
      <4>2. /\ aprs_queues' = [aprs_queues EXCEPT ![p] = Append(aprs_queues[p], m)]
            /\ fate' = fate
        BY <1>4, <3>2 DEF OnMessagePacket
      <4>3. QED BY <4>1, <4>2
    <3>3. QED BY <3>1, <3>2
  <2>3. weather_queue' \in Seq(Weather)
    BY <1>4 DEF OnMessagePacket
  <2>4. QED BY <1>2, <2>1, <2>2, <2>3 DEF localVars, stopVars
<1>5. QED BY <1>3, <1>4 DEF OnMessage

LEMMA FlushTypeOK ==
    ASSUME TypeOK, NEW p \in Processors, FlushLocalStats(p)
    PROVE  /\ local_packet_count' \in [Processors -> Nat]
           /\ local_packets_saved' \in [Processors -> Nat]
           /\ stats' \in [packet_counter : Nat, packets_saved : Nat]
<1>1. /\ local_packet_count \in [Processors -> Nat]
      /\ local_packets_saved \in [Processors -> Nat]
      /\ stats \in [packet_counter : Nat, packets_saved : Nat]
  BY DEF TypeOK
<1>2. CASE local_packet_count[p] = 0
  BY <1>1, <1>2 DEF FlushLocalStats, localVars
<1>3. CASE local_packet_count[p] # 0
  BY <1>1, <1>3 DEF FlushLocalStats
<1>4. QED BY <1>2, <1>3

LEMMA FinishSaveTypeOK ==
    ASSUME TypeOK, NEW p \in Processors, NEW n \in Nat, FinishSave(p, n),
           fate' \in [Packets -> Fates],
           aprs_packet' \subseteq Packets, unacked' \subseteq aprs_packet'
    PROVE  TypeOK'
<1> USE DEF TypeOK
<1>1. packet_dicts' \in [Processors -> Seq(Packets)]
  BY DEF FinishSave
<1>2. /\ local_packets_saved' \in [Processors -> Nat]
      /\ stats' \in [packet_counter : Nat, packets_saved : Nat]
  <2>1. CASE mode[p] = "cleanup"
    <3>1. stats.packets_saved + n \in Nat  OBVIOUS
    <3>2. stats' = [stats EXCEPT !.packets_saved = @ + n] /\ UNCHANGED local_packets_saved
      BY <2>1 DEF FinishSave
    <3>3. QED BY <3>1, <3>2
  <2>2. CASE mode[p] # "cleanup"
    <3>1. local_packets_saved[p] + n \in Nat  OBVIOUS
    <3>2. /\ local_packets_saved' = [local_packets_saved EXCEPT ![p] = @ + n]
          /\ UNCHANGED stats
      BY <2>2 DEF FinishSave
    <3>3. QED BY <3>1, <3>2
  <2>3. QED BY <2>1, <2>2
<1>3. pc' \in [Processors -> ProgramPoints]
  BY DEF FinishSave, Goto, AfterSave, ProgramPoints
<1>4. QED BY <1>1, <1>2, <1>3 DEF FinishSave, netVars, stopVars

LEMMA SettleType ==
    ASSUME TypeOK, NEW p \in Processors, Settle(p)
    PROVE  fate' \in [Packets -> Fates]
BY DEF TypeOK, Settle, Fates

LEMMA CommitTypeOK ==
    ASSUME TypeOK, NEW p \in Processors, Commit(p)
    PROVE  TypeOK'
<1>1. packet_dicts[p] \in Seq(Packets)  BY DEF TypeOK
<1>2. /\ NewRows(packet_dicts[p]) \subseteq Packets
      /\ Cardinality(NewRows(packet_dicts[p])) \in Nat
  BY <1>1, NewRowsFacts, RangeFacts
<1>3. fate' \in [Packets -> Fates]  BY SettleType DEF Commit
<1>4. aprs_packet' \subseteq Packets /\ unacked' \subseteq aprs_packet'
  BY <1>2 DEF Commit, TypeOK
<1>5. QED BY <1>2, <1>3, <1>4, FinishSaveTypeOK DEF Commit

(* A transaction that raised leaves the table and the unacknowledged rows typed. *)
LEMMA RaisedType ==
    ASSUME TypeOK, NEW p \in Processors, Raised(p)
    PROVE  aprs_packet' \subseteq Packets /\ unacked' \subseteq aprs_packet'
<1>1. NewRows(packet_dicts[p]) \subseteq Packets
  BY NewRowsFacts, RangeFacts DEF TypeOK
<1>2. QED BY <1>1 DEF Raised, TypeOK

LEMMA StepTypeOK ==
    ASSUME TypeOK, NEW p \in Processors, Step(p)
    PROVE  TypeOK'
<1> USE DEF TypeOK
<1>1. CASE Check(p)
  BY <1>1 DEF Check, Goto, ProgramPoints, netVars, localVars, stopVars, history
<1>2. CASE GetRejected(p)
  <2>1. Tail(aprs_queues[p]) \in Seq(Packets)
    BY <1>2, TailFacts DEF GetRejected
  <2>2. fate' \in [Packets -> Fates]
    BY <1>2, EndsType DEF GetRejected, Fates
  <2>3. QED BY <1>2, <2>1, <2>2
            DEF GetRejected, Goto, ProgramPoints, netVars, localVars, stopVars
<1>3. CASE GetPacket(p)
  <2>1. Tail(aprs_queues[p]) \in Seq(Packets) /\ Head(aprs_queues[p]) \in Packets
    BY <1>3, TailFacts DEF GetPacket
  <2>2. Append(packet_dicts[p], Head(aprs_queues[p])) \in Seq(Packets)
    BY <2>1
  <2>3. /\ aprs_queues' \in [Processors -> Seq(Packets)]
        /\ packet_dicts' \in [Processors -> Seq(Packets)]
        /\ local_packet_count' \in [Processors -> Nat]
    <3>1. aprs_queues' \in [Processors -> Seq(Packets)]
      BY <1>3, <2>1 DEF GetPacket
    <3>2. packet_dicts' \in [Processors -> Seq(Packets)]
      BY <1>3, <2>2 DEF GetPacket
    <3>3. local_packet_count' \in [Processors -> Nat]
      BY <1>3 DEF GetPacket
    <3>4. QED BY <3>1, <3>2, <3>3
  <2>4. QED BY <1>3, <2>3
            DEF GetPacket, Goto, ProgramPoints, netVars, stopVars, history
<1>4. CASE GetEmpty(p)
  BY <1>4 DEF GetEmpty, Goto, ProgramPoints, netVars, localVars, stopVars, history
<1>5. CASE Flush(p)
  <2>1. FlushLocalStats(p)  BY <1>5 DEF Flush
  <2>2. QED BY <1>5, <2>1, FlushTypeOK
            DEF Flush, Goto, ProgramPoints, netVars, stopVars, history
<1>6. CASE SaveIfNeeded(p)
  <2>1. CASE SaveNotDue(p)
    BY <2>1 DEF SaveNotDue, Goto, AfterSave, ProgramPoints, netVars, localVars,
                stopVars, history
  <2>2. CASE SaveDiscard(p)
    <3>1. local_packets_saved[p] + Len(packet_dicts[p]) \in Nat  OBVIOUS
    <3>2. local_packets_saved' \in [Processors -> Nat]
      BY <2>2, <3>1 DEF SaveDiscard
    <3>3. fate' \in [Packets -> Fates]
      BY <2>2, EndsType DEF SaveDiscard, Fates
    <3>4. /\ packet_dicts' \in [Processors -> Seq(Packets)]
          /\ pc' \in [Processors -> ProgramPoints]
      BY <2>2 DEF SaveDiscard, Goto, AfterSave, ProgramPoints
    <3>5. QED BY <2>2, <3>2, <3>3, <3>4 DEF SaveDiscard, netVars, stopVars
  <2>3. CASE SaveBegin(p)
    BY <2>3 DEF SaveBegin, Goto, ProgramPoints, netVars, localVars, stopVars, history
  <2>4. QED BY <1>6, <2>1, <2>2, <2>3 DEF SaveIfNeeded
<1>7. CASE Copy(p)
  <2>1. CASE Commit(p)  BY <2>1, CommitTypeOK
  <2>2. CASE Raised(p) /\ ~Commit(p)
    <3>1. aprs_packet' \subseteq Packets /\ unacked' \subseteq aprs_packet'
      BY <2>2, RaisedType
    <3>2. QED BY <1>7, <2>2, <3>1
              DEF Copy, Goto, ProgramPoints, netVars, localVars, stopVars
  <2>3. QED BY <1>7, <2>1, <2>2 DEF Copy
<1>8. CASE Insert(p)
  <2>1. CASE Commit(p)  BY <2>1, CommitTypeOK
  <2>2. CASE Raised(p) /\ Settle(p) /\ FinishSave(p, 0)
    <3>1. aprs_packet' \subseteq Packets /\ unacked' \subseteq aprs_packet'
      BY <2>2, RaisedType
    <3>2. fate' \in [Packets -> Fates]  BY <2>2, SettleType
    <3>3. QED BY <2>2, <3>1, <3>2, FinishSaveTypeOK
  <2>3. QED BY <1>8, <2>1, <2>2 DEF Insert
<1>9. CASE PrintStats(p)
  <2>1. FlushLocalStats(p) \/ UNCHANGED <<stats, localVars>>
    BY <1>9 DEF PrintStats, PrintDue, PrintReport
  <2>2. QED BY <1>9, <2>1, FlushTypeOK
            DEF PrintStats, PrintDue, PrintReport, Goto, ProgramPoints, netVars, localVars, stopVars, history
<1>10. CASE Cleanup(p)
  <2>1. FlushLocalStats(p)  BY <1>10 DEF Cleanup
  <2>2. fate' \in [Packets -> Fates] /\ packet_dicts' \in [Processors -> Seq(Packets)]
    <3>1. CASE CleanupDiscard(p)
      BY <3>1, EndsType DEF CleanupDiscard, Fates
    <3>2. CASE CleanupSave(p)
      BY <3>2 DEF CleanupSave
    <3>3. QED BY <1>10, <3>1, <3>2 DEF Cleanup
  <2>3. pc' \in [Processors -> ProgramPoints]
    <3>1. Goto(p, "done") \/ Goto(p, "copy")
      BY <1>10 DEF Cleanup, CleanupDiscard, CleanupSave
    <3>2. QED BY <3>1 DEF Goto, ProgramPoints
  <2>4. QED BY <1>10, <2>1, <2>2, <2>3, FlushTypeOK DEF Cleanup, netVars, stopVars
<1>11. QED BY <1>1, <1>2, <1>3, <1>4, <1>5, <1>6, <1>7, <1>8, <1>9, <1>10 DEF Step

LEMMA NextTypeOK == TypeOK /\ [Next]_vars => TypeOK'
<1> SUFFICES ASSUME TypeOK, [Next]_vars PROVE TypeOK'
  OBVIOUS
<1>1. ASSUME NEW m \in Packets, OnMessage(m) PROVE TypeOK'
  BY <1>1, OnMessageTypeOK
<1>2. CASE WeatherGet
  <2>1. Tail(weather_queue) \in Seq(Weather)
    BY <1>2, TailFacts DEF WeatherGet, TypeOK
  <2>2. QED BY <1>2, <2>1 DEF WeatherGet, TypeOK, localVars, stopVars, history
<1>3. ASSUME NEW p \in Processors, Step(p) PROVE TypeOK'
  BY <1>3, StepTypeOK
<1>4. CASE StopNext
  BY <1>4, SizeAssumption DEF StopNext, TypeOK, netVars, localVars, history
<1>5. CASE UNCHANGED vars
  BY <1>5 DEF vars, TypeOK, netVars, localVars, stopVars, history
<1>6. QED BY <1>1, <1>2, <1>3, <1>4, <1>5 DEF Next

(* Whatever the interleaving, every variable keeps the type the code gives it. *)
THEOREM TypeCorrect == Spec => []TypeOK
<1>1. QED BY InitTypeOK, NextTypeOK, PTL DEF Spec

-----------------------------------------------------------------------------
(* Bounded memory, and nothing left in a batch at the end *)

(* The strengthening: where in its loop a processor may be with a batch    *)
(* that is due, and that the cleanup mode belongs to the last save.        *)
BatchControl(p) ==
    /\ Len(packet_dicts[p]) <= Threshold(p)
    /\ pc[p] \in {"check", "get", "print", "report", "cleanup", "done"} =>
          Len(packet_dicts[p]) < Threshold(p)
    /\ mode[p] = "cleanup" => pc[p] \in {"copy", "insert", "done"}
    /\ pc[p] = "done" => packet_dicts[p] = <<>>

QueueBounds ==
    /\ Len(weather_queue) <= QueueSize
    /\ \A p \in Processors : Len(aprs_queues[p]) <= QueueSize

BoundInv == QueueBounds /\ \A p \in Processors : BatchControl(p)

LEMMA ThresholdType ==
    ASSUME NEW p \in Processors
    PROVE  Threshold(p) \in Nat \ {0}
<1>1. p \in Nat  BY SizeAssumption DEF Processors
<1>2. p * BatchStagger \in Nat  BY <1>1, SizeAssumption
<1>3. QED BY <1>2, SizeAssumption DEF Threshold

LEMMA InitBound == Init => BoundInv
<1> SUFFICES ASSUME Init PROVE BoundInv
  OBVIOUS
<1>1. QueueBounds
  BY SizeAssumption DEF Init, QueueBounds
<1>2. ASSUME NEW p \in Processors PROVE BatchControl(p)
  BY ThresholdType DEF Init, BatchControl
<1>3. QED BY <1>1, <1>2 DEF BoundInv

(* A processor that does not step keeps its batch and its program point. *)
LEMMA OthersKeepBatch ==
    ASSUME TypeOK, NEW p \in Processors, Step(p), NEW q \in Processors, q # p,
           BatchControl(q)
    PROVE  BatchControl(q)'
<1>1. /\ pc'[q] = pc[q] /\ mode'[q] = mode[q]
      /\ packet_dicts'[q] = packet_dicts[q]
  <2> USE DEF TypeOK, Goto
  <2>1. CASE Check(p) \/ GetRejected(p) \/ GetPacket(p) \/ GetEmpty(p) \/ Flush(p)
    BY <2>1 DEF Check, GetRejected, GetPacket, GetEmpty, Flush
  <2>2. CASE SaveIfNeeded(p)
    BY <2>2 DEF SaveIfNeeded, SaveNotDue, SaveDiscard, SaveBegin
  <2>3. CASE Copy(p) \/ Insert(p)
    BY <2>3 DEF Copy, Insert, Commit, FinishSave
  <2>4. CASE PrintStats(p)
    BY <2>4 DEF PrintStats, PrintDue, PrintReport
  <2>5. CASE Cleanup(p)
    BY <2>5 DEF Cleanup, CleanupDiscard, CleanupSave
  <2>6. QED BY <2>1, <2>2, <2>3, <2>4, <2>5 DEF Step
<1>2. QED BY <1>1 DEF BatchControl, Threshold

LEMMA FinishSaveBatchControl ==
    ASSUME TypeOK, NEW p \in Processors, NEW n, FinishSave(p, n),
           BatchControl(p), pc[p] \in {"copy", "insert"}
    PROVE  BatchControl(p)'
<1>1. packet_dicts'[p] = <<>> /\ mode'[p] = mode[p] /\ pc'[p] = AfterSave(p)
  BY DEF TypeOK, FinishSave, Goto
<1>2. AfterSave(p) \in {"done", "print", "check"} /\ (mode[p] = "cleanup" => AfterSave(p) = "done")
  BY DEF AfterSave
<1>3. QED BY <1>1, <1>2, ThresholdType DEF BatchControl, Threshold

LEMMA StepBatchControl ==
    ASSUME TypeOK, NEW p \in Processors, Step(p), BatchControl(p)
    PROVE  BatchControl(p)'
<1> USE ThresholdType DEF TypeOK
<1>0. Threshold(p)' = Threshold(p) /\ Threshold(p) \in Nat \ {0}
  BY DEF Threshold
<1>1. CASE Check(p)
  BY <1>0, <1>1 DEF Check, Goto, BatchControl
<1>2. CASE GetRejected(p)
  BY <1>0, <1>2 DEF GetRejected, Goto, BatchControl
<1>3. CASE GetPacket(p)
  <2>1. Head(aprs_queues[p]) \in Packets
    BY <1>3, TailFacts DEF GetPacket
  <2>2. packet_dicts'[p] = Append(packet_dicts[p], Head(aprs_queues[p]))
    BY <1>3 DEF GetPacket
  <2>3. Len(packet_dicts'[p]) = Len(packet_dicts[p]) + 1
    BY <2>1, <2>2, AppendFacts
  <2>4. Len(packet_dicts[p]) \in Nat /\ Len(packet_dicts[p]) < Threshold(p)
    BY <1>3 DEF GetPacket, BatchControl
  <2>5. pc'[p] \in {"flush", "save"} /\ mode'[p] = "busy"
    BY <1>3 DEF GetPacket, Goto
  <2>6. QED BY <1>0, <2>3, <2>4, <2>5 DEF BatchControl
<1>4. CASE GetEmpty(p)
  BY <1>0, <1>4 DEF GetEmpty, Goto, BatchControl
<1>5. CASE Flush(p)
  BY <1>0, <1>5 DEF Flush, Goto, BatchControl
<1>6. CASE SaveIfNeeded(p)
  <2>1. pc[p] = "save" /\ mode'[p] = mode[p] /\ mode[p] # "cleanup"
    BY <1>6 DEF SaveIfNeeded, SaveNotDue, SaveDiscard, SaveBegin, BatchControl
  <2>2. AfterSave(p) \in {"print", "check"}
    BY <2>1 DEF AfterSave
  <2>3. CASE SaveNotDue(p)
    BY <1>0, <2>1, <2>2, <2>3 DEF SaveNotDue, Goto, BatchControl
  <2>4. CASE SaveDiscard(p)
    BY <1>0, <2>1, <2>2, <2>4 DEF SaveDiscard, Goto, BatchControl
  <2>5. CASE SaveBegin(p)
    BY <1>0, <2>1, <2>5 DEF SaveBegin, Goto, BatchControl
  <2>6. QED BY <1>6, <2>3, <2>4, <2>5 DEF SaveIfNeeded
<1>7. CASE Copy(p)
  <2>1. CASE Commit(p)
    BY <1>7, <2>1, FinishSaveBatchControl DEF Commit, Copy
  <2>2. CASE ~Commit(p)
    BY <1>0, <1>7, <2>2 DEF Copy, Goto, BatchControl
  <2>3. QED BY <2>1, <2>2
<1>8. CASE Insert(p)
  <2>1. CASE Commit(p)
    BY <1>8, <2>1, FinishSaveBatchControl DEF Commit, Insert
  <2>2. CASE ~Commit(p)
    BY <1>8, <2>2, FinishSaveBatchControl DEF Insert
  <2>3. QED BY <2>1, <2>2
<1>9. CASE PrintStats(p)
  BY <1>0, <1>9 DEF PrintStats, PrintDue, PrintReport, Goto, BatchControl
<1>10. CASE Cleanup(p)
  BY <1>0, <1>10 DEF Cleanup, CleanupDiscard, CleanupSave, Goto, BatchControl
<1>11. QED BY <1>1, <1>2, <1>3, <1>4, <1>5, <1>6, <1>7, <1>8, <1>9, <1>10 DEF Step

LEMMA NextQueueBounds ==
    ASSUME TypeOK, QueueBounds, [Next]_vars
    PROVE  QueueBounds'
<1> USE SizeAssumption DEF TypeOK, QueueBounds
<1>1. ASSUME NEW m \in Packets, OnMessage(m) PROVE QueueBounds'
  <2> DEFINE p == rr_index % ProcessorCount
  <2>1. p \in Processors  BY DEF Processors
  <2>2. CASE OnMessageGarbled(m)  BY <2>2 DEF OnMessageGarbled
  <2>3. CASE OnMessagePacket(m)
    <3>1. Len(weather_queue') <= QueueSize
      <4>1. m \in Weather /\ ~Full(weather_queue) =>
              Len(Append(weather_queue, m)) = Len(weather_queue) + 1
        BY AppendFacts
      <4>2. QED BY <2>3, <4>1 DEF OnMessagePacket, Full
    <3>2. ASSUME NEW q \in Processors PROVE Len(aprs_queues'[q]) <= QueueSize
      <4>1. CASE Full(aprs_queues[p])
        BY <2>3, <4>1 DEF OnMessagePacket
      <4>2. CASE ~Full(aprs_queues[p])
        <5>1. Len(Append(aprs_queues[p], m)) = Len(aprs_queues[p]) + 1
          BY <2>1, AppendFacts
        <5>2. aprs_queues' = [aprs_queues EXCEPT ![p] = Append(aprs_queues[p], m)]
          BY <2>3, <4>2 DEF OnMessagePacket
        <5>3. QED BY <2>1, <4>2, <5>1, <5>2 DEF Full
      <4>3. QED BY <4>1, <4>2
    <3>3. QED BY <3>1, <3>2
  <2>4. QED BY <1>1, <2>2, <2>3 DEF OnMessage
<1>2. CASE WeatherGet
  BY <1>2, TailFacts DEF WeatherGet
<1>3. ASSUME NEW p \in Processors, Step(p) PROVE QueueBounds'
  <2>1. weather_queue' = weather_queue
    BY <1>3 DEF Step, Check, GetRejected, GetPacket, GetEmpty, Flush, SaveIfNeeded,
                SaveNotDue, SaveDiscard, SaveBegin, Copy, Insert, Commit, FinishSave,
                PrintStats, PrintDue, PrintReport, Cleanup, netVars
  <2>2. \/ aprs_queues' = aprs_queues
        \/ /\ aprs_queues[p] # <<>>
           /\ aprs_queues' = [aprs_queues EXCEPT ![p] = Tail(@)]
    BY <1>3 DEF Step, Check, GetRejected, GetPacket, GetEmpty, Flush, SaveIfNeeded,
                SaveNotDue, SaveDiscard, SaveBegin, Copy, Insert, Commit, FinishSave,
                PrintStats, PrintDue, PrintReport, Cleanup
  <2>3. aprs_queues[p] # <<>> =>
          /\ Len(Tail(aprs_queues[p])) = Len(aprs_queues[p]) - 1
          /\ Len(aprs_queues[p]) \in Nat
    BY TailFacts
  <2>4. ASSUME NEW q \in Processors PROVE Len(aprs_queues'[q]) <= QueueSize
    <3>1. CASE aprs_queues' = aprs_queues  BY <3>1
    <3>2. CASE aprs_queues' # aprs_queues /\ q = p
      <4>1. aprs_queues'[q] = Tail(aprs_queues[p]) /\ aprs_queues[p] # <<>>
        BY <2>2, <3>2
      <4>2. Len(aprs_queues[p]) <= QueueSize  OBVIOUS
      <4>3. QED BY <2>3, <4>1, <4>2
    <3>3. CASE aprs_queues' # aprs_queues /\ q # p
      <4>1. aprs_queues'[q] = aprs_queues[q]
        BY <2>2, <3>3
      <4>2. QED BY <4>1
    <3>4. QED BY <3>1, <3>2, <3>3
  <2>5. QED BY <2>1, <2>4
<1>4. CASE StopNext
  BY <1>4 DEF StopNext, netVars
<1>5. CASE UNCHANGED vars
  BY <1>5 DEF vars, netVars
<1>6. QED BY <1>1, <1>2, <1>3, <1>4, <1>5 DEF Next

LEMMA NextBound == TypeOK /\ BoundInv /\ [Next]_vars => BoundInv'
<1> SUFFICES ASSUME TypeOK, BoundInv, [Next]_vars PROVE BoundInv'
  OBVIOUS
<1>1. QueueBounds'  BY NextQueueBounds DEF BoundInv
<1>2. ASSUME NEW q \in Processors PROVE BatchControl(q)'
  <2>0. BatchControl(q)  BY DEF BoundInv
  <2>1. ASSUME NEW p \in Processors, Step(p) PROVE BatchControl(q)'
    BY <2>0, <2>1, StepBatchControl, OthersKeepBatch
  <2>2. CASE UNCHANGED <<pc, mode, packet_dicts>>
    BY <2>0, <2>2 DEF BatchControl, Threshold
  <2>3. (\E p \in Processors : Step(p)) \/ UNCHANGED <<pc, mode, packet_dicts>>
    BY DEF Next, OnMessage, WeatherGet, StopNext, vars
  <2>4. QED BY <2>1, <2>2, <2>3
<1>3. QED BY <1>1, <1>2 DEF BoundInv

LEMMA BoundInvariant == Spec => []BoundInv
<1>1. QED BY InitBound, NextBound, TypeCorrect, PTL DEF Spec

(* Queues respect maxsize and batches their threshold for every sizing of  *)
(* the pool and whatever the database answers: failed saves included, no   *)
(* processor takes a packet while its batch is due.                        *)
THEOREM BoundedMemory == Spec => []MemoryBounded
<1>1. BoundInv => MemoryBounded
  BY DEF BoundInv, QueueBounds, BatchControl, MemoryBounded
<1>2. QED BY <1>1, BoundInvariant, PTL

(* A processor that has ended holds no packet. *)
THEOREM CleanupLeavesNothing == Spec => []CleanupEmptiesBatch
<1>1. BoundInv => CleanupEmptiesBatch
  BY DEF BoundInv, BatchControl, CleanupEmptiesBatch
<1>2. QED BY <1>1, BoundInvariant, PTL

-----------------------------------------------------------------------------
(* Conservation.  Conservation is inductive as it stands; the proof follows *)
(* a packet through the four ways it can move.                              *)

InQ(p) == Range(aprs_queues[p])
InB(p) == Range(packet_dicts[p])

LEMMA Elements ==
    /\ \A m : m \in Queued <=> \E p \in Processors : m \in InQ(p)
    /\ \A m : m \in Batched <=> \E p \in Processors : m \in InB(p)
BY DEF Queued, Batched, InQ, InB

LEMMA InitConservation == Init => Conservation
<1> SUFFICES ASSUME Init PROVE Conservation
  OBVIOUS
<1>1. \A p \in Processors : /\ Range(aprs_queues[p]) = {} /\ IsInjective(aprs_queues[p])
                            /\ Range(packet_dicts[p]) = {} /\ IsInjective(packet_dicts[p])
  BY DEF Init, Range, IsInjective
<1>2. Queued = {} /\ Batched = {} /\ Ended = {}
  BY <1>1 DEF Queued, Batched, Ended, Init
<1>3. inbound = Packets /\ aprs_packet = {}
  BY DEF Init
<1>4. QED BY <1>1, <1>2, <1>3 DEF Conservation

(* A packet that on_message drops or rejects. *)
LEMMA ArriveEnds ==
    ASSUME TypeOK, Conservation, NEW m \in inbound, NEW how \in Fates \ {"live"},
           inbound' = inbound \ {m}, Ends({m}, how),
           UNCHANGED <<aprs_queues, packet_dicts, aprs_packet, pc>>
    PROVE  Conservation'
<1>1. Ended' = Ended \cup {m}
  BY DEF Ended, Ends, TypeOK
<1>2. Queued' = Queued /\ Batched' = Batched /\ Saving' = Saving
  BY DEF Queued, Batched, Saving
<1>3. m \in Packets
  BY DEF TypeOK
<1>4. QED BY <1>1, <1>2, <1>3 DEF Conservation

(* A packet that on_message puts into the queue of p. *)
LEMMA ArriveQueued ==
    ASSUME TypeOK, Conservation, NEW m \in inbound, NEW p \in Processors,
           inbound' = inbound \ {m},
           aprs_queues' = [aprs_queues EXCEPT ![p] = Append(@, m)],
           UNCHANGED <<packet_dicts, aprs_packet, pc, fate>>
    PROVE  Conservation'
<1>0. aprs_queues[p] \in Seq(Packets) /\ m \in Packets
  BY DEF TypeOK
<1>1. /\ InQ(p)' = InQ(p) \cup {m}
      /\ m \notin InQ(p) /\ IsInjective(aprs_queues[p]) => IsInjective(aprs_queues'[p])
  <2>1. aprs_queues'[p] = Append(aprs_queues[p], m)  BY DEF TypeOK
  <2>2. QED BY <1>0, <2>1, AppendFacts DEF InQ
<1>2. \A q \in Processors \ {p} : aprs_queues'[q] = aprs_queues[q]
  BY DEF TypeOK
<1>3. \A q \in Processors \ {p} : InQ(q)' = InQ(q)
  BY <1>2 DEF InQ
<1>4. Queued' = Queued \cup {m}
  BY <1>1, <1>3 DEF Queued, InQ
<1>5. Ended' = Ended /\ Batched' = Batched /\ Saving' = Saving
  BY DEF Ended, Batched, Saving
<1>6. m \notin Queued /\ (\A q \in Processors : m \notin InQ(q))
  BY DEF Conservation, Queued, InQ
<1>7. \A q, r \in Processors : q # r => InQ(q)' \cap InQ(r)' = {}
  BY <1>1, <1>3, <1>6 DEF Conservation, InQ
<1>8. \A q \in Processors : IsInjective(aprs_queues'[q])
  BY <1>1, <1>2, <1>6 DEF Conservation
<1>9. /\ Packets = inbound' \cup Queued' \cup Batched' \cup aprs_packet' \cup Ended'
      /\ inbound' \cap (Queued' \cup Batched' \cup aprs_packet' \cup Ended') = {}
      /\ Queued' \cap (Batched' \cup aprs_packet' \cup Ended') = {}
  BY <1>0, <1>4, <1>5 DEF Conservation
<1>10. QED BY <1>5, <1>7, <1>8, <1>9 DEF Conservation, InQ

(* What taking the head off the queue of p does to the queued packets. *)
LEMMA TakeHead ==
    ASSUME TypeOK, Conservation, NEW p \in Processors, aprs_queues[p] # <<>>,
           aprs_queues' = [aprs_queues EXCEPT ![p] = Tail(@)]
    PROVE  /\ Head(aprs_queues[p]) \in Queued /\ Head(aprs_queues[p]) \in Packets
           /\ Queued' = Queued \ {Head(aprs_queues[p])}
           /\ \A q, r \in Processors : q # r => InQ(q)' \cap InQ(r)' = {}
           /\ \A q \in Processors : IsInjective(aprs_queues'[q])
<1> DEFINE h == Head(aprs_queues[p])
<1>1. /\ h \in Packets
      /\ InQ(p) = {h} \cup InQ(p)' /\ h \notin InQ(p)'
      /\ IsInjective(aprs_queues'[p])
  <2>1. aprs_queues[p] \in Seq(Packets) /\ aprs_queues'[p] = Tail(aprs_queues[p])
    BY DEF TypeOK
  <2>2. IsInjective(aprs_queues[p])
    BY DEF Conservation
  <2>3. QED BY <2>1, <2>2, TailFacts DEF InQ
<1>2. \A q \in Processors \ {p} : aprs_queues'[q] = aprs_queues[q]
  BY DEF TypeOK
<1>3. \A q \in Processors \ {p} : InQ(q)' = InQ(q)
  BY <1>2 DEF InQ
<1>4. \A q \in Processors \ {p} : InQ(q) \cap InQ(p) = {}
  BY DEF Conservation, InQ
<1>5. Queued' = Queued \ {h} /\ h \in Queued
  <2>1. /\ \A m : m \in Queued <=> \E q \in Processors : m \in InQ(q)
        /\ \A m : m \in Queued' <=> \E q \in Processors : m \in InQ(q)'
    BY DEF Queued, InQ
  <2>2. \A q \in Processors : InQ(q)' = InQ(q) \ {h}
    BY <1>1, <1>3, <1>4
  <2>3. QED BY <2>1, <2>2, <1>1
<1>6. \A q, r \in Processors : q # r => InQ(q)' \cap InQ(r)' = {}
  BY <1>1, <1>3 DEF Conservation, InQ
<1>7. \A q \in Processors : IsInjective(aprs_queues'[q])
  BY <1>1, <1>2 DEF Conservation
<1>8. QED BY <1>1, <1>5, <1>6, <1>7

LEMMA GetRejectedConserves ==
    ASSUME TypeOK, Conservation, NEW p \in Processors, GetRejected(p)
    PROVE  Conservation'
<1> DEFINE h == Head(aprs_queues[p])
<1>1. aprs_queues[p] # <<>> /\ aprs_queues' = [aprs_queues EXCEPT ![p] = Tail(@)]
  BY DEF GetRejected
<1>2. /\ h \in Queued /\ h \in Packets
      /\ Queued' = Queued \ {h}
      /\ \A q, r \in Processors : q # r => InQ(q)' \cap InQ(r)' = {}
      /\ \A q \in Processors : IsInjective(aprs_queues'[q])
  BY <1>1, TakeHead
<1>3. Ended' = Ended \cup {h}
  BY <1>2 DEF GetRejected, Ended, Ends, TypeOK
<1>4. Batched' = Batched /\ Saving' = Saving /\ UNCHANGED <<inbound, packet_dicts, aprs_packet>>
  BY DEF GetRejected, Batched, Saving, Goto, TypeOK, netVars
<1>5. QED BY <1>2, <1>3, <1>4 DEF Conservation, InQ

LEMMA GetPacketConserves ==
    ASSUME TypeOK, Conservation, NEW p \in Processors, GetPacket(p)
    PROVE  Conservation'
<1> DEFINE h == Head(aprs_queues[p])
<1>1. aprs_queues[p] # <<>> /\ aprs_queues' = [aprs_queues EXCEPT ![p] = Tail(@)]
  BY DEF GetPacket
<1>2. /\ h \in Queued /\ h \in Packets
      /\ Queued' = Queued \ {h}
      /\ \A q, r \in Processors : q # r => InQ(q)' \cap InQ(r)' = {}
      /\ \A q \in Processors : IsInjective(aprs_queues'[q])
  BY <1>1, TakeHead
<1>3. /\ UNCHANGED <<inbound, aprs_packet, fate>> /\ Ended' = Ended
      /\ Saving' = Saving /\ p \notin Saving
  BY DEF GetPacket, Ended, Saving, Goto, TypeOK, netVars, history
<1>4. h \notin inbound /\ h \notin Batched /\ h \notin aprs_packet /\ h \notin Ended
  BY <1>2 DEF Conservation
<1>5. \A q \in Processors : h \notin InB(q)
  BY <1>4, Elements
<1>6. /\ InB(p)' = InB(p) \cup {h}
      /\ IsInjective(packet_dicts'[p])
  <2>1. packet_dicts[p] \in Seq(Packets) /\ packet_dicts'[p] = Append(packet_dicts[p], h)
    BY DEF GetPacket, TypeOK
  <2>2. IsInjective(packet_dicts[p])
    BY DEF Conservation
  <2>3. QED BY <1>2, <1>5, <2>1, <2>2, AppendFacts DEF InB
<1>7. \A q \in Processors \ {p} : packet_dicts'[q] = packet_dicts[q]
  BY DEF GetPacket, TypeOK
<1>8. \A q \in Processors \ {p} : InB(q)' = InB(q)
  BY <1>7 DEF InB
<1>9. Batched' = Batched \cup {h}
  BY <1>6, <1>8 DEF Batched, InB
<1>10. \A q, r \in Processors : q # r => InB(q)' \cap InB(r)' = {}
  BY <1>5, <1>6, <1>8 DEF Conservation, InB
<1>11. \A q \in Processors : IsInjective(packet_dicts'[q])
  BY <1>6, <1>7 DEF Conservation
<1>12. \A q \in Processors \ Saving : InB(q)' \cap aprs_packet = {}
  <2>1. \A q \in Processors \ Saving : InB(q) \cap aprs_packet = {}
    BY DEF Conservation, InB
  <2>2. QED BY <2>1, <1>4, <1>6, <1>8
<1>13. QED BY <1>2, <1>3, <1>4, <1>9, <1>10, <1>11, <1>12 DEF Conservation, InQ, InB

(* Rows written for packets of p's batch, which stays in memory because    *)
(* the transaction reported an error and INSERT comes next.                *)
LEMMA CopyRaisedConserves ==
    ASSUME TypeOK, Conservation, NEW p \in Processors, Raised(p), Goto(p, "insert"),
           UNCHANGED <<inbound, aprs_queues, packet_dicts, fate>>
    PROVE  Conservation'
<1>1. NewRows(packet_dicts[p]) \subseteq InB(p)
  BY NewRowsFacts DEF TypeOK, InB
<1>2. PICK new : new \subseteq InB(p) /\ aprs_packet' = aprs_packet \cup new
  <2>1. CASE UNCHANGED aprs_packet
    <3>1. {} \subseteq InB(p) /\ aprs_packet' = aprs_packet \cup {}  BY <2>1
    <3>2. QED BY <3>1
  <2>2. CASE aprs_packet' = aprs_packet \cup NewRows(packet_dicts[p])
    BY <1>1, <2>2
  <2>3. QED BY <2>1, <2>2 DEF Raised
<1>3. Queued' = Queued /\ Batched' = Batched /\ Ended' = Ended
  BY DEF Queued, Batched, Ended
<1>4. Saving' = Saving \cup {p}
  BY DEF Saving, Goto, TypeOK
<1>5. new \subseteq Batched
  BY <1>2 DEF Batched, InB
<1>6. \A q \in Processors \ Saving' : InB(q) \cap aprs_packet' = {}
  <2>1. \A q \in Processors \ Saving' : q # p /\ InB(q) \cap aprs_packet = {}
    BY <1>4 DEF Conservation, InB
  <2>2. \A q \in Processors : q # p => InB(q) \cap InB(p) = {}
    BY DEF Conservation, InB
  <2>3. QED BY <1>2, <2>1, <2>2
<1>7. QED BY <1>2, <1>3, <1>5, <1>6 DEF Conservation, InB

(* p's batch leaves memory: what has no row now has ended. *)
LEMMA BatchLeavesConserves ==
    ASSUME TypeOK, Conservation, NEW p \in Processors, NEW new \in SUBSET InB(p),
           aprs_packet' = aprs_packet \cup new,
           packet_dicts' = [packet_dicts EXCEPT ![p] = <<>>],
           fate' \in [Packets -> Fates],
           \A m \in Packets : m \in InB(p) \ aprs_packet' => fate'[m] # "live",
           \A m \in Packets : m \notin InB(p) \ aprs_packet' => fate'[m] = fate[m],
           \A q \in Processors \ {p} : pc'[q] = pc[q],
           UNCHANGED <<inbound, aprs_queues>>
    PROVE  Conservation'
<1>1. InB(p)' = {} /\ IsInjective(packet_dicts'[p])
  <2>1. packet_dicts'[p] = <<>>  BY DEF TypeOK
  <2>2. <<>> \in Seq(Packets)  OBVIOUS
  <2>3. QED BY <2>1, <2>2, RangeFacts DEF InB
<1>2. \A q \in Processors \ {p} : packet_dicts'[q] = packet_dicts[q]
  BY DEF TypeOK
<1>3. \A q \in Processors \ {p} : InB(q)' = InB(q)
  BY <1>2 DEF InB
<1>4. \A q \in Processors \ {p} : InB(q) \cap InB(p) = {}
  BY DEF Conservation, InB
<1>5. Batched' = Batched \ InB(p) /\ InB(p) \subseteq Batched
  BY <1>1, <1>3, <1>4 DEF Batched, InB
<1>6. InB(p) \subseteq Packets
  BY RangeFacts DEF InB, TypeOK
<1>7. Ended' = Ended \cup (InB(p) \ aprs_packet')
  BY <1>6 DEF Ended, TypeOK
<1>8. Queued' = Queued
  BY DEF Queued
<1>9. \A q \in Processors \ Saving' : InB(q)' \cap aprs_packet' = {}
  <2> SUFFICES ASSUME NEW q \in Processors \ Saving' PROVE InB(q)' \cap aprs_packet' = {}
    OBVIOUS
  <2>1. CASE q = p  BY <1>1, <2>1
  <2>2. CASE q # p
    <3>1. q \notin Saving  BY <2>2 DEF Saving
    <3>2. InB(q) \cap aprs_packet = {}  BY <3>1 DEF Conservation, InB
    <3>3. QED BY <1>3, <1>4, <2>2, <3>2
  <2>3. QED BY <2>1, <2>2
<1>10. \A q, r \in Processors : q # r => InB(q)' \cap InB(r)' = {}
  BY <1>1, <1>3 DEF Conservation, InB
<1>11. \A q \in Processors : IsInjective(packet_dicts'[q])
  BY <1>1, <1>2 DEF Conservation
<1>12. QED BY <1>5, <1>6, <1>7, <1>8, <1>9, <1>10, <1>11 DEF Conservation, InB

(* Steps that move no packet. *)
LEMMA NothingMovesConserves ==
    ASSUME TypeOK, Conservation,
           UNCHANGED <<inbound, aprs_queues, packet_dicts, aprs_packet, fate>>,
           Saving \subseteq Saving'
    PROVE  Conservation'
<1>1. Queued' = Queued /\ Batched' = Batched /\ Ended' = Ended
  BY DEF Queued, Batched, Ended
<1>2. QED BY <1>1 DEF Conservation

LEMMA SettledSaveConserves ==
    ASSUME TypeOK, Conservation, NEW p \in Processors, NEW n,
           NEW new \in SUBSET InB(p), aprs_packet' = aprs_packet \cup new,
           Settle(p), FinishSave(p, n)
    PROVE  Conservation'
<1>1. /\ packet_dicts' = [packet_dicts EXCEPT ![p] = <<>>]
      /\ UNCHANGED <<inbound, aprs_queues>>
      /\ \A q \in Processors \ {p} : pc'[q] = pc[q]
  BY DEF FinishSave, netVars, Goto, TypeOK
<1>2. fate' \in [Packets -> Fates]
  BY SettleType
<1>3. \A m \in Packets : m \in InB(p) \ aprs_packet' => fate'[m] # "live"
  BY DEF Settle, InB
<1>4. \A m \in Packets : m \notin InB(p) \ aprs_packet' => fate'[m] = fate[m]
  BY DEF Settle, InB
<1>5. QED BY <1>1, <1>2, <1>3, <1>4, BatchLeavesConserves

LEMMA CommitConserves ==
    ASSUME TypeOK, Conservation, NEW p \in Processors, Commit(p)
    PROVE  Conservation'
<1>1. NewRows(packet_dicts[p]) \in SUBSET InB(p)
  BY NewRowsFacts DEF TypeOK, InB
<1>2. QED BY <1>1, SettledSaveConserves DEF Commit

LEMMA StepConserves ==
    ASSUME TypeOK, Conservation, NEW p \in Processors, Step(p)
    PROVE  Conservation'
<1> USE DEF netVars, history
<1>1. CASE Check(p)
  BY <1>1, NothingMovesConserves DEF Check, Goto, Saving, TypeOK
<1>2. CASE GetRejected(p)
  BY <1>2, GetRejectedConserves
<1>3. CASE GetPacket(p)
  BY <1>3, GetPacketConserves
<1>4. CASE GetEmpty(p)
  BY <1>4, NothingMovesConserves DEF GetEmpty, Goto, Saving, TypeOK
<1>5. CASE Flush(p)
  BY <1>5, NothingMovesConserves DEF Flush, Goto, Saving, TypeOK
<1>6. CASE SaveNotDue(p) \/ SaveBegin(p)
  BY <1>6, NothingMovesConserves DEF SaveNotDue, SaveBegin, Goto, Saving, TypeOK
<1>7. ASSUME Ends(InB(p), "discarded"), InB(p) \cap aprs_packet = {},
             packet_dicts' = [packet_dicts EXCEPT ![p] = <<>>],
             \A q \in Processors \ {p} : pc'[q] = pc[q],
             UNCHANGED <<inbound, aprs_queues, aprs_packet>>
      PROVE  Conservation'
  <2>1. fate' \in [Packets -> Fates]
    BY <1>7, EndsType DEF Fates
  <2>2. aprs_packet' = aprs_packet \cup {} /\ {} \in SUBSET InB(p)
    BY <1>7
  <2>3. \A m \in Packets : m \in InB(p) \ aprs_packet' => fate'[m] # "live"
    BY <1>7 DEF Ends
  <2>4. \A m \in Packets : m \notin InB(p) \ aprs_packet' => fate'[m] = fate[m]
    BY <1>7 DEF Ends
  <2>5. QED BY <1>7, <2>1, <2>2, <2>3, <2>4, BatchLeavesConserves
<1>8. CASE SaveDiscard(p)
  <2>1. InB(p) \cap aprs_packet = {}
    BY <1>8 DEF SaveDiscard, Conservation, Saving, InB
  <2>2. QED BY <1>7, <1>8, <2>1 DEF SaveDiscard, InB, Goto, TypeOK
<1>9. CASE Copy(p)
  <2>1. CASE Commit(p)  BY <2>1, CommitConserves
  <2>2. CASE ~Commit(p)
    BY <1>9, <2>2, CopyRaisedConserves DEF Copy
  <2>3. QED BY <2>1, <2>2
<1>10. CASE Insert(p)
  <2>1. CASE Commit(p)  BY <2>1, CommitConserves
  <2>2. CASE ~Commit(p)
    <3>1. Raised(p) /\ Settle(p) /\ FinishSave(p, 0)
      BY <1>10, <2>2 DEF Insert
    <3>2. CASE UNCHANGED aprs_packet
      <4>1. aprs_packet' = aprs_packet \cup {} /\ {} \in SUBSET InB(p)  BY <3>2
      <4>2. QED BY <3>1, <4>1, SettledSaveConserves
    <3>3. CASE aprs_packet' = aprs_packet \cup NewRows(packet_dicts[p])
      <4>1. NewRows(packet_dicts[p]) \in SUBSET InB(p)
        BY NewRowsFacts DEF TypeOK, InB
      <4>2. QED BY <3>1, <3>3, <4>1, SettledSaveConserves
    <3>4. QED BY <3>1, <3>2, <3>3 DEF Raised
  <2>3. QED BY <2>1, <2>2
<1>11. CASE PrintStats(p)
  BY <1>11, NothingMovesConserves DEF PrintStats, PrintDue, PrintReport, Goto, Saving, TypeOK
<1>12. CASE Cleanup(p)
  <2>1. InB(p) \cap aprs_packet = {}
    BY <1>12 DEF Cleanup, Conservation, Saving, InB
  <2>2. CASE CleanupDiscard(p)
    BY <1>7, <1>12, <2>1, <2>2 DEF Cleanup, CleanupDiscard, InB, Goto, TypeOK
  <2>3. CASE CleanupSave(p)
    BY <1>12, <2>3, NothingMovesConserves DEF Cleanup, CleanupSave, Goto, Saving, TypeOK
  <2>4. QED BY <1>12, <2>2, <2>3 DEF Cleanup
<1>13. QED BY <1>1, <1>2, <1>3, <1>4, <1>5, <1>6, <1>8, <1>9, <1>10, <1>11, <1>12
           DEF Step, SaveIfNeeded

LEMMA NextConservation == TypeOK /\ Conservation /\ [Next]_vars => Conservation'
<1> SUFFICES ASSUME TypeOK, Conservation, [Next]_vars PROVE Conservation'
  OBVIOUS
<1>1. ASSUME NEW m \in Packets, OnMessage(m) PROVE Conservation'
  <2> DEFINE p == rr_index % ProcessorCount
  <2>1. p \in Processors
    BY SizeAssumption DEF Processors, TypeOK
  <2>2. UNCHANGED <<packet_dicts, aprs_packet, pc>>
    BY <1>1 DEF OnMessage
  <2>3. CASE OnMessageGarbled(m)
    BY <2>2, <2>3, ArriveEnds DEF OnMessageGarbled, Fates
  <2>4. CASE OnMessagePacket(m) /\ Full(aprs_queues[p])
    BY <2>2, <2>4, ArriveEnds DEF OnMessagePacket, Fates
  <2>5. CASE OnMessagePacket(m) /\ ~Full(aprs_queues[p])
    BY <2>1, <2>2, <2>5, ArriveQueued DEF OnMessagePacket
  <2>6. QED BY <1>1, <2>3, <2>4, <2>5 DEF OnMessage
<1>2. CASE WeatherGet
  BY <1>2, NothingMovesConserves DEF WeatherGet, Saving, history
<1>3. ASSUME NEW p \in Processors, Step(p) PROVE Conservation'
  BY <1>3, StepConserves
<1>4. CASE StopNext
  BY <1>4, NothingMovesConserves DEF StopNext, Saving, netVars, history
<1>5. CASE UNCHANGED vars
  BY <1>5, NothingMovesConserves DEF vars, Saving, netVars, history
<1>6. QED BY <1>1, <1>2, <1>3, <1>4, <1>5 DEF Next

(* For every number of packets and processors: no packet vanishes, none is *)
(* in two places, whatever the interleaving, the database and the signal.  *)
THEOREM PacketsConserved == Spec => []Conservation
<1>1. QED BY InitConservation, NextConservation, TypeCorrect, PTL DEF Spec

-----------------------------------------------------------------------------
(* The pipeline implements the ledger.  What the refinement needs besides   *)
(* TypeOK and Conservation is that no two rows of the table share a key.    *)

UniqueKeys == \A m, n \in aprs_packet : Key[m] = Key[n] => m = n

(* The rows ON CONFLICT DO NOTHING lets through are of the batch, their     *)
(* keys are free, and no two of them share one.                             *)
LEMMA NewRowsAreNew ==
    ASSUME NEW batch \in Seq(Packets)
    PROVE  /\ \A m \in NewRows(batch) : Key[m] \notin Stored
           /\ \A m, n \in NewRows(batch) : Key[m] = Key[n] => m = n
           /\ NewRows(batch) \cap aprs_packet = {}
<1>1. DOMAIN batch = 1 .. Len(batch) /\ Len(batch) \in Nat  OBVIOUS
<1>2. \A m \in NewRows(batch) : Key[m] \notin Stored
  BY DEF NewRows
<1>3. ASSUME NEW m \in NewRows(batch), NEW n \in NewRows(batch), Key[m] = Key[n] PROVE m = n
  <2>1. PICK i \in 1 .. Len(batch) : m = batch[i] /\ \A k \in 1 .. i - 1 : Key[batch[k]] # Key[m]
    BY <1>1 DEF NewRows
  <2>2. PICK j \in 1 .. Len(batch) : n = batch[j] /\ \A k \in 1 .. j - 1 : Key[batch[k]] # Key[n]
    BY <1>1 DEF NewRows
  <2>3. ~ (i < j) /\ ~ (j < i)  BY <1>3, <1>1, <2>1, <2>2
  <2>4. i = j  BY <1>1, <2>3
  <2>5. QED BY <2>1, <2>2, <2>4
<1>4. NewRows(batch) \cap aprs_packet = {}
  BY <1>2 DEF Stored
<1>5. QED BY <1>2, <1>3, <1>4

(* What a step does to the table: nothing, or it adds the new rows of one   *)
(* processor's batch.                                                       *)
LEMMA TableSteps ==
    ASSUME TypeOK, [Next]_vars
    PROVE  \/ UNCHANGED aprs_packet
           \/ \E p \in Processors : aprs_packet' = aprs_packet \cup NewRows(packet_dicts[p])
<1>1. CASE (\E m \in Packets : OnMessage(m)) \/ WeatherGet \/ StopNext \/ UNCHANGED vars
  BY <1>1 DEF OnMessage, WeatherGet, StopNext, vars
<1>2. ASSUME NEW p \in Processors, Step(p)
      PROVE  \/ UNCHANGED aprs_packet
             \/ aprs_packet' = aprs_packet \cup NewRows(packet_dicts[p])
  <2>1. CASE Copy(p) \/ Insert(p)
    BY <2>1 DEF Copy, Insert, Commit, Raised
  <2>2. CASE ~(Copy(p) \/ Insert(p))
    BY <1>2, <2>2 DEF Step, Check, GetRejected, GetPacket, GetEmpty, Flush, SaveIfNeeded,
        SaveNotDue, SaveDiscard, SaveBegin, PrintStats, PrintDue, PrintReport, Cleanup
  <2>3. QED BY <2>1, <2>2
<1>3. QED BY <1>1, <1>2 DEF Next

LEMMA NextUniqueKeys == TypeOK /\ UniqueKeys /\ [Next]_vars => UniqueKeys'
<1> SUFFICES ASSUME TypeOK, UniqueKeys, [Next]_vars PROVE UniqueKeys'
  OBVIOUS
<1>1. CASE UNCHANGED aprs_packet  BY <1>1 DEF UniqueKeys
<1>2. ASSUME NEW p \in Processors, aprs_packet' = aprs_packet \cup NewRows(packet_dicts[p])
      PROVE  UniqueKeys'
  <2>1. packet_dicts[p] \in Seq(Packets)  BY DEF TypeOK
  <2>2. /\ \A m \in NewRows(packet_dicts[p]) : Key[m] \notin Stored
        /\ \A m, n \in NewRows(packet_dicts[p]) : Key[m] = Key[n] => m = n
    BY <2>1, NewRowsAreNew
  <2>3. \A m \in aprs_packet : Key[m] \in Stored  BY DEF Stored
  <2>4. QED BY <1>2, <2>2, <2>3 DEF UniqueKeys
<1>3. QED BY <1>1, <1>2, TableSteps

(* Each packet's stage, case by case. *)
StageKnown ==
    \A m \in Packets :
        /\ m \in aprs_packet => Stage(m) = "stored"
        /\ m \in Ended => Stage(m) = fate[m]
        /\ m \in inbound => Stage(m) = "inbound"
        /\ m \in Queued => Stage(m) = "queued"
        /\ m \in Batched \ aprs_packet => Stage(m) = "batched"
        /\ Stage(m) \in Ledger!Stages

LEMMA StageIsKnown == TypeOK /\ Conservation => StageKnown
<1> SUFFICES ASSUME TypeOK, Conservation, NEW m \in Packets
             PROVE  /\ m \in aprs_packet => Stage(m) = "stored"
                    /\ m \in Ended => Stage(m) = fate[m]
                    /\ m \in inbound => Stage(m) = "inbound"
                    /\ m \in Queued => Stage(m) = "queued"
                    /\ m \in Batched \ aprs_packet => Stage(m) = "batched"
                    /\ Stage(m) \in Ledger!Stages
  BY DEF StageKnown
<1>1. /\ m \in inbound \cup Queued \cup Batched \cup aprs_packet \cup Ended
      /\ inbound \cap (Queued \cup Batched \cup aprs_packet \cup Ended) = {}
      /\ Queued \cap (Batched \cup aprs_packet \cup Ended) = {}
      /\ (Batched \cup aprs_packet) \cap Ended = {}
  BY DEF Conservation
<1>2. m \in Ended => fate[m] \in {"dropped", "rejected", "duplicate", "lost", "discarded"}
  BY DEF Ended, TypeOK, Fates
<1>3. CASE m \in aprs_packet
  <2>1. Stage(m) = "stored"  BY <1>1, <1>3 DEF Stage
  <2>2. QED BY <1>1, <1>3, <2>1 DEF Ledger!Stages
<1>4. CASE m \in Ended
  <2>1. Stage(m) = fate[m]  BY <1>1, <1>4 DEF Stage
  <2>2. QED BY <1>1, <1>2, <1>4, <2>1 DEF Ledger!Stages
<1>5. CASE m \in inbound
  <2>1. Stage(m) = "inbound"  BY <1>1, <1>5 DEF Stage
  <2>2. QED BY <1>1, <1>5, <2>1 DEF Ledger!Stages
<1>6. CASE m \in Queued
  <2>1. Stage(m) = "queued"  BY <1>1, <1>6 DEF Stage
  <2>2. QED BY <1>1, <1>6, <2>1 DEF Ledger!Stages
<1>7. CASE m \in Batched \ aprs_packet
  <2>1. Stage(m) = "batched"  BY <1>1, <1>7 DEF Stage
  <2>2. QED BY <1>1, <1>7, <2>1 DEF Ledger!Stages
<1>8. QED BY <1>1, <1>3, <1>4, <1>5, <1>6, <1>7

Known == TypeOK /\ Conservation /\ UniqueKeys /\ StageKnown

LEMMA InitRefines == Init => Ledger!Init
<1> SUFFICES ASSUME Init PROVE Ledger!Init
  OBVIOUS
<1>1. TypeOK /\ Conservation /\ inbound = Packets  BY InitTypeOK, InitConservation DEF Init
<1>2. \A m \in Packets : Stage(m) = "inbound"  BY <1>1, StageIsKnown DEF StageKnown
<1>3. QED BY <1>2 DEF Ledger!Init

(* The keys the ledger calls stored are those of the table. *)
LEMMA SameKeys == Known => Ledger!StoredKeys = Stored
<1> SUFFICES ASSUME Known PROVE Ledger!StoredKeys = Stored
  OBVIOUS
<1>1. ASSUME NEW m \in Packets PROVE Stage(m) = "stored" <=> m \in aprs_packet
  <2>1. m \in inbound \cup Queued \cup (Batched \ aprs_packet) \cup aprs_packet \cup Ended
    BY DEF Known, Conservation
  <2>2. m \in Ended => fate[m] # "stored"  BY DEF Known, TypeOK, Ended, Fates
  <2>3. QED BY <2>1, <2>2 DEF Known, StageKnown
<1>2. aprs_packet \subseteq Packets  BY DEF Known, TypeOK
<1>3. {x \in Packets : [m \in Packets |-> Stage(m)][x] = "stored"} = aprs_packet
  BY <1>1, <1>2
<1>4. QED BY <1>3 DEF Ledger!StoredKeys, Stored

(* A packet that stays where it is keeps its stage. *)
LEMMA SameStage ==
    ASSUME Known, Known', NEW m \in Packets, fate'[m] = fate[m],
           m \in inbound' <=> m \in inbound, m \in Queued' <=> m \in Queued,
           m \in Batched' \cup aprs_packet' <=> m \in Batched \cup aprs_packet,
           m \in aprs_packet' <=> m \in aprs_packet
    PROVE  Stage(m)' = Stage(m)
<1>1. m \in inbound \cup Queued \cup (Batched \ aprs_packet) \cup aprs_packet \cup Ended
  BY DEF Known, Conservation
<1>2. m \in Ended' <=> m \in Ended  BY DEF Ended
<1>3. QED BY <1>1, <1>2 DEF Known, StageKnown

LEMMA SettleStep ==
    ASSUME Known, Known',
           \A m \in Packets : Stage(m)' # Stage(m) =>
               /\ Stage(m) = "batched"
               /\ Stage(m)' \in {"stored", "duplicate", "lost", "discarded"}
               /\ Stage(m)' = "stored" => Key[m] \notin Stored
               /\ Stage(m)' = "duplicate" => Key[m] \in Stored'
    PROVE  Ledger!Settle
<1> DEFINE stage == [m \in Packets |-> Stage(m)]
<1>1. Ledger!StoredKeys = Stored /\ Ledger!StoredKeys' = Stored'
  <2>1. (Known => Ledger!StoredKeys = Stored)'  BY SameKeys, PTL
  <2>2. QED BY <2>1, SameKeys
<1>2. stage' \in [Packets -> Ledger!Stages]
  BY DEF Known, StageKnown
<1>3. \A m, n \in Packets :
          (Stage(m)' = "stored" /\ Stage(n)' = "stored" /\ Key[m] = Key[n]) => m = n
  <2>1. ASSUME NEW m \in Packets, Stage(m)' = "stored" PROVE m \in aprs_packet'
    <3>1. m \in inbound' \cup Queued' \cup (Batched' \ aprs_packet') \cup aprs_packet' \cup Ended'
      BY DEF Known, Conservation
    <3>2. m \in Ended' => fate'[m] # "stored"  BY DEF Known, TypeOK, Ended, Fates
    <3>3. QED BY <2>1, <3>1, <3>2 DEF Known, StageKnown
  <2>2. QED BY <2>1 DEF Known, UniqueKeys
<1>4. \A m \in Packets : stage[m] = Stage(m) /\ stage'[m] = Stage(m)'
  OBVIOUS
<1> HIDE DEF stage
<1>5. QED BY <1>1, <1>2, <1>3, <1>4 DEF Ledger!Settle, stage

(* A step that moves no packet. *)
LEMMA StutterStep ==
    ASSUME Known, Known',
           UNCHANGED <<inbound, aprs_queues, packet_dicts, aprs_packet, fate>>
    PROVE  UNCHANGED [m \in Packets |-> Stage(m)]
<1>1. Queued' = Queued /\ Batched' = Batched  BY DEF Queued, Batched
<1>2. \A m \in Packets : Stage(m)' = Stage(m)  BY <1>1, SameStage
<1>3. QED BY <1>2

(* One packet moves to the stage s. *)
LEMMA OneMoves ==
    ASSUME Known, Known', NEW h \in Packets, NEW s, Stage(h)' = s,
           \A m \in Packets : m # h => Stage(m)' = Stage(m)
    PROVE  [m \in Packets |-> Stage(m)]' = [[m \in Packets |-> Stage(m)] EXCEPT ![h] = s]
<1>1. \A n \in Packets : Stage(n)' = IF n = h THEN s ELSE Stage(n)  OBVIOUS
<1>2. QED BY <1>1

LEMMA OnMessageRefines ==
    ASSUME Known, Known', NEW m \in Packets, OnMessage(m)
    PROVE  Ledger!Arrive(m)
<1>1. PICK p \in Processors : p = rr_index % ProcessorCount
  <2>1. rr_index \in Nat  BY DEF Known, TypeOK
  <2>2. QED BY <2>1, SizeAssumption DEF Processors
<1>2. OnMessageGarbled(m) \/ OnMessagePacket(m)  BY DEF OnMessage
<1>3. /\ m \in inbound /\ inbound' = inbound \ {m} /\ UNCHANGED <<packet_dicts, aprs_packet>>
  BY <1>2 DEF OnMessage, OnMessageGarbled, OnMessagePacket
<1>4. \/ \E s \in {"dropped", "rejected"} : Ends({m}, s) /\ UNCHANGED aprs_queues
      \/ aprs_queues' = [aprs_queues EXCEPT ![p] = Append(@, m)] /\ UNCHANGED fate
  BY <1>1, <1>2 DEF OnMessageGarbled, OnMessagePacket
<1>5. Batched' = Batched  BY <1>3 DEF Batched
<1>6. Stage(m) = "inbound"  BY <1>3 DEF Known, StageKnown
<1>7. ASSUME NEW s \in {"queued", "dropped", "rejected"}, Stage(m)' = s,
             \A n \in Packets : n # m => fate'[n] = fate[n] /\ (n \in Queued' <=> n \in Queued)
      PROVE  Ledger!Arrive(m)
  <2>1. \A n \in Packets : n # m => Stage(n)' = Stage(n)
    BY <1>3, <1>5, <1>7, SameStage
  <2>2. [n \in Packets |-> Stage(n)]' = [[n \in Packets |-> Stage(n)] EXCEPT ![m] = s]
    BY <1>7, <2>1, OneMoves
  <2>3. QED BY <1>6, <1>7, <2>2 DEF Ledger!Arrive
<1>8. ASSUME NEW s \in {"dropped", "rejected"}, Ends({m}, s), UNCHANGED aprs_queues
      PROVE  Ledger!Arrive(m)
  <2>1. fate' = [n \in Packets |-> IF n \in {m} THEN s ELSE fate[n]]  BY <1>8 DEF Ends
  <2>2. fate'[m] = s /\ m \in Ended'  BY <2>1 DEF Ended
  <2>3. Stage(m)' = s  BY <2>2 DEF Known, StageKnown
  <2>4. Queued' = Queued  BY <1>8 DEF Queued
  <2>5. QED BY <1>7, <2>1, <2>3, <2>4
<1>9. CASE /\ aprs_queues' = [aprs_queues EXCEPT ![p] = Append(@, m)]
           /\ UNCHANGED fate
  <2>1. InQ(p)' = InQ(p) \cup {m}
    <3>1. aprs_queues[p] \in Seq(Packets) /\ aprs_queues'[p] = Append(aprs_queues[p], m)
      BY <1>1, <1>9 DEF Known, TypeOK
    <3>2. QED BY <3>1, AppendFacts DEF InQ
  <2>2. \A q \in Processors \ {p} : InQ(q)' = InQ(q)
    BY <1>1, <1>9 DEF Known, TypeOK, InQ
  <2>3. Queued' = Queued \cup {m}
    BY <1>1, <2>1, <2>2 DEF Queued, InQ
  <2>4. Stage(m)' = "queued"  BY <2>3 DEF Known, StageKnown
  <2>5. QED BY <1>7, <1>9, <2>3, <2>4
<1>10. QED BY <1>4, <1>8, <1>9

LEMMA GetRefines ==
    ASSUME Known, Known', NEW p \in Processors, GetRejected(p) \/ GetPacket(p)
    PROVE  \E h \in Packets : Ledger!Take(h)
<1>0. /\ aprs_queues[p] # <<>> /\ aprs_queues' = [aprs_queues EXCEPT ![p] = Tail(@)]
      /\ UNCHANGED <<inbound, aprs_packet>>
  BY DEF GetRejected, GetPacket, netVars
<1>1. PICK h \in Packets : h = Head(aprs_queues[p])
  BY <1>0, TakeHead DEF Known
<1>2. h \in Queued /\ Queued' = Queued \ {h}
  BY <1>0, <1>1, TakeHead DEF Known
<1>3. Stage(h) = "queued" /\ h \notin Batched \cup aprs_packet
  BY <1>2 DEF Known, StageKnown, Conservation
<1>4. ASSUME NEW s \in {"batched", "rejected"}, Stage(h)' = s,
             \A m \in Packets : m # h => fate'[m] = fate[m] /\ (m \in Batched' <=> m \in Batched)
      PROVE  Ledger!Take(h)
  <2>1. \A m \in Packets : m # h => Stage(m)' = Stage(m)
    BY <1>0, <1>2, <1>4, SameStage
  <2>2. [n \in Packets |-> Stage(n)]' = [[n \in Packets |-> Stage(n)] EXCEPT ![h] = s]
    BY <1>4, <2>1, OneMoves
  <2>3. QED BY <1>3, <1>4, <2>2 DEF Ledger!Take
<1>5. CASE GetRejected(p)
  <2>1. fate' = [m \in Packets |-> IF m \in {h} THEN "rejected" ELSE fate[m]]
    BY <1>1, <1>5 DEF GetRejected, Ends
  <2>2. fate'[h] = "rejected" /\ h \in Ended'  BY <2>1 DEF Ended
  <2>3. Stage(h)' = "rejected"  BY <2>2 DEF Known, StageKnown
  <2>4. Batched' = Batched  BY <1>5 DEF GetRejected, Batched
  <2>5. QED BY <1>4, <2>1, <2>3, <2>4
<1>6. CASE GetPacket(p)
  <2>1. InB(p)' = InB(p) \cup {h}
    <3>1. packet_dicts[p] \in Seq(Packets) /\ packet_dicts'[p] = Append(packet_dicts[p], h)
      BY <1>1, <1>6 DEF Known, TypeOK, GetPacket
    <3>2. QED BY <3>1, AppendFacts DEF InB
  <2>2. \A q \in Processors \ {p} : InB(q)' = InB(q)
    BY <1>6 DEF Known, TypeOK, GetPacket, InB
  <2>3. Batched' = Batched \cup {h}  BY <2>1, <2>2 DEF Batched, InB
  <2>4. Stage(h)' = "batched"  BY <1>0, <1>3, <2>3 DEF Known, StageKnown
  <2>5. UNCHANGED fate  BY <1>6 DEF GetPacket, history
  <2>6. QED BY <1>4, <2>3, <2>4, <2>5
<1>7. QED BY <1>5, <1>6

(* A batch leaves memory.  What got a row did so with a key that was free,  *)
(* and of the rest only packets whose key is in the table are duplicates.   *)
LEMMA BatchLeavesRefines ==
    ASSUME Known, Known', NEW p \in Processors,
           NEW new \in SUBSET InB(p), aprs_packet' = aprs_packet \cup new,
           \A m \in new : m \notin aprs_packet /\ Key[m] \notin Stored,
           packet_dicts' = [packet_dicts EXCEPT ![p] = <<>>],
           \A m \in Packets :
               IF m \in InB(p) \ aprs_packet'
               THEN /\ fate'[m] \in {"duplicate", "lost", "discarded"}
                    /\ fate'[m] = "duplicate" => Key[m] \in Stored'
               ELSE fate'[m] = fate[m],
           UNCHANGED <<inbound, aprs_queues>>
    PROVE  Ledger!Settle
<1>1. Batched' = Batched \ InB(p) /\ InB(p) \subseteq Batched /\ InB(p) \subseteq Packets
  <2>1. InB(p)' = {}
    <3>1. Range(<<>>) = {} /\ packet_dicts'[p] = <<>>  BY DEF Range, Known, TypeOK
    <3>2. QED BY <3>1 DEF InB
  <2>2. \A q \in Processors \ {p} : InB(q)' = InB(q) /\ InB(q) \cap InB(p) = {}
    BY DEF Known, TypeOK, Conservation, InB
  <2>3. InB(p) \subseteq Packets  BY RangeFacts DEF InB, Known, TypeOK
  <2>4. QED BY <2>1, <2>2, <2>3 DEF Batched, InB
<1>2. Queued' = Queued  BY DEF Queued
<1>3. ASSUME NEW m \in new
      PROVE  Stage(m) = "batched" /\ Stage(m)' = "stored" /\ Key[m] \notin Stored
  BY <1>1, <1>3 DEF Known, StageKnown
<1>4. ASSUME NEW m \in InB(p) \ aprs_packet'
      PROVE  /\ Stage(m) = "batched" /\ Stage(m)' \in {"duplicate", "lost", "discarded"}
             /\ Stage(m)' = "duplicate" => Key[m] \in Stored'
  <2>1. m \in Ended'  BY <1>1, <1>4 DEF Ended
  <2>2. Stage(m)' = fate'[m]  BY <1>1, <1>4, <2>1 DEF Known, StageKnown
  <2>3. Stage(m) = "batched"  BY <1>1, <1>4 DEF Known, StageKnown
  <2>4. QED BY <1>1, <1>4, <2>2, <2>3
<1>5. ASSUME NEW m \in Packets, m \notin new, m \notin InB(p) \ aprs_packet'
      PROVE  Stage(m)' = Stage(m)
  BY <1>1, <1>2, <1>5, SameStage
<1>6. \A m \in Packets : Stage(m)' # Stage(m) =>
          /\ Stage(m) = "batched"
          /\ Stage(m)' \in {"stored", "duplicate", "lost", "discarded"}
          /\ Stage(m)' = "stored" => Key[m] \notin Stored
          /\ Stage(m)' = "duplicate" => Key[m] \in Stored'
  BY <1>3, <1>4, <1>5
<1>7. QED BY <1>6, SettleStep

LEMMA SettledSaveRefines ==
    ASSUME Known, Known', NEW p \in Processors, NEW n, Settle(p), FinishSave(p, n),
           UNCHANGED aprs_packet \/ aprs_packet' = aprs_packet \cup NewRows(packet_dicts[p])
    PROVE  Ledger!Settle
<1>1. packet_dicts[p] \in Seq(Packets)  BY DEF Known, TypeOK
<1>2. PICK new \in SUBSET InB(p) :
          /\ aprs_packet' = aprs_packet \cup new
          /\ \A m \in new : m \notin aprs_packet /\ Key[m] \notin Stored
  <2>1. CASE UNCHANGED aprs_packet
    <3>1. {} \in SUBSET InB(p) /\ aprs_packet' = aprs_packet \cup {}  BY <2>1
    <3>2. QED BY <3>1
  <2>2. CASE aprs_packet' = aprs_packet \cup NewRows(packet_dicts[p])
    BY <1>1, <2>2, NewRowsFacts, NewRowsAreNew DEF InB
  <2>3. QED BY <2>1, <2>2
<1>3. /\ packet_dicts' = [packet_dicts EXCEPT ![p] = <<>>]
      /\ UNCHANGED <<inbound, aprs_queues>>
  BY DEF FinishSave, netVars
<1>4. \A m \in Packets :
          IF m \in InB(p) \ aprs_packet'
          THEN /\ fate'[m] \in {"duplicate", "lost", "discarded"}
               /\ fate'[m] = "duplicate" => Key[m] \in Stored'
          ELSE fate'[m] = fate[m]
  BY DEF Settle, InB
<1>5. QED BY <1>2, <1>3, <1>4, BatchLeavesRefines

LEMMA DiscardRefines ==
    ASSUME Known, Known', NEW p \in Processors, pc[p] \in {"save", "cleanup"},
           Ends(Range(packet_dicts[p]), "discarded"),
           packet_dicts' = [packet_dicts EXCEPT ![p] = <<>>],
           UNCHANGED <<inbound, aprs_queues, aprs_packet>>
    PROVE  Ledger!Settle
<1>1. InB(p) \cap aprs_packet = {}
  BY DEF Known, Conservation, Saving, InB
<1>2. \A m \in Packets :
          IF m \in InB(p) \ aprs_packet'
          THEN /\ fate'[m] \in {"duplicate", "lost", "discarded"}
               /\ fate'[m] = "duplicate" => Key[m] \in Stored'
          ELSE fate'[m] = fate[m]
  BY <1>1 DEF Ends, InB
<1>3. {} \in SUBSET InB(p) /\ aprs_packet' = aprs_packet \cup {}
  OBVIOUS
<1>4. QED BY <1>2, <1>3, BatchLeavesRefines

(* COPY reported an error, and its rows may be in the table.                *)
LEMMA CopyRaisedRefines ==
    ASSUME Known, Known', NEW p \in Processors, Raised(p),
           UNCHANGED <<inbound, aprs_queues, packet_dicts, fate>>
    PROVE  Ledger!Settle \/ UNCHANGED [m \in Packets |-> Stage(m)]
<1>1. CASE UNCHANGED aprs_packet  BY <1>1, StutterStep
<1>2. CASE aprs_packet' = aprs_packet \cup NewRows(packet_dicts[p])
  <2> DEFINE new == NewRows(packet_dicts[p])
  <2>1. packet_dicts[p] \in Seq(Packets)  BY DEF Known, TypeOK
  <2>2. /\ new \subseteq InB(p) /\ new \cap aprs_packet = {}
        /\ \A m \in new : Key[m] \notin Stored
    BY <2>1, NewRowsFacts, NewRowsAreNew DEF InB
  <2>3. InB(p) \subseteq Packets /\ InB(p) \subseteq Batched
    BY <2>1, RangeFacts DEF InB, Batched
  <2>4. Queued' = Queued /\ Batched' = Batched  BY DEF Queued, Batched
  <2>5. PICK rows : rows = new  OBVIOUS
  <2> HIDE DEF new
  <2>6. \A m \in rows : Stage(m) = "batched" /\ Stage(m)' = "stored" /\ Key[m] \notin Stored
    BY <1>2, <2>2, <2>3, <2>5 DEF Known, StageKnown, new
  <2>7. \A m \in Packets : m \notin rows => Stage(m)' = Stage(m)
    BY <1>2, <2>4, <2>5, SameStage DEF new
  <2>8. \A m \in Packets : Stage(m)' # Stage(m) =>
            /\ Stage(m) = "batched" /\ Stage(m)' = "stored"
            /\ Key[m] \notin Stored
    BY <2>6, <2>7
  <2>9. QED BY <2>8, SettleStep
<1>3. QED BY <1>1, <1>2 DEF Raised

LEMMA ProcessorRefines ==
    ASSUME Known, Known', NEW p \in Processors, Step(p)
    PROVE  Ledger!Next \/ UNCHANGED [m \in Packets |-> Stage(m)]
<1> USE DEF Ledger!Next
<1>1. CASE Check(p) \/ GetEmpty(p) \/ Flush(p) \/ PrintStats(p)
  <2>1. UNCHANGED <<inbound, aprs_queues, packet_dicts, aprs_packet, fate>>
    BY <1>1 DEF Check, GetEmpty, Flush, PrintStats, PrintDue, PrintReport, netVars, history
  <2>2. QED BY <2>1, StutterStep
<1>2. CASE GetRejected(p) \/ GetPacket(p)
  BY <1>2, GetRefines
<1>3. CASE SaveIfNeeded(p)
  <2>1. CASE SaveNotDue(p) \/ SaveBegin(p)
    <3>1. UNCHANGED <<inbound, aprs_queues, packet_dicts, aprs_packet, fate>>
      BY <2>1 DEF SaveNotDue, SaveBegin, netVars, history
    <3>2. QED BY <3>1, StutterStep
  <2>2. CASE SaveDiscard(p)
    BY <2>2, DiscardRefines DEF SaveDiscard, netVars
  <2>3. QED BY <1>3, <2>1, <2>2 DEF SaveIfNeeded
<1>4. CASE Copy(p)
  <2>1. CASE Commit(p)
    BY <2>1, SettledSaveRefines DEF Commit
  <2>2. CASE ~Commit(p)
    BY <1>4, <2>2, CopyRaisedRefines DEF Copy, netVars
  <2>3. QED BY <2>1, <2>2
<1>5. CASE Insert(p)
  <2>1. CASE Commit(p)
    BY <2>1, SettledSaveRefines DEF Commit
  <2>2. CASE ~Commit(p)
    BY <1>5, <2>2, SettledSaveRefines DEF Insert, Raised
  <2>3. QED BY <2>1, <2>2
<1>6. CASE Cleanup(p)
  <2>1. CASE CleanupSave(p)
    <3>1. UNCHANGED <<inbound, aprs_queues, packet_dicts, aprs_packet, fate>>
      BY <1>6, <2>1 DEF Cleanup, CleanupSave, netVars
    <3>2. QED BY <3>1, StutterStep
  <2>2. CASE CleanupDiscard(p)
    BY <1>6, <2>2, DiscardRefines DEF Cleanup, CleanupDiscard, netVars
  <2>3. QED BY <1>6, <2>1, <2>2 DEF Cleanup
<1>7. QED BY <1>1, <1>2, <1>3, <1>4, <1>5, <1>6 DEF Step

LEMMA StepRefines ==
    Known /\ Known' /\ [Next]_vars => [Ledger!Next]_[m \in Packets |-> Stage(m)]
<1> SUFFICES ASSUME Known, Known', [Next]_vars
             PROVE  Ledger!Next \/ UNCHANGED [m \in Packets |-> Stage(m)]
  OBVIOUS
<1>1. ASSUME NEW m \in Packets, OnMessage(m) PROVE Ledger!Next
  BY <1>1, OnMessageRefines DEF Ledger!Next
<1>2. CASE WeatherGet \/ StopNext \/ UNCHANGED vars
  <2>1. UNCHANGED <<inbound, aprs_queues, packet_dicts, aprs_packet, fate>>
    BY <1>2 DEF WeatherGet, StopNext, vars, netVars, history
  <2>2. QED BY <2>1, StutterStep
<1>3. ASSUME NEW p \in Processors, Step(p)
      PROVE  Ledger!Next \/ UNCHANGED [m \in Packets |-> Stage(m)]
  BY <1>3, ProcessorRefines
<1>4. QED BY <1>1, <1>2, <1>3 DEF Next

(* For every pool, queue and batch size: the pipeline keeps the promises of *)
(* the ledger.  Packets only move forward, the table never holds two rows   *)
(* with one key although every processor commits on its own, and what is    *)
(* written off as a duplicate has a key that is in the table                *)
(* (aprs_packet_processor.py, _save_with_copy, _save_with_insert, _cleanup).*)
THEOREM PipelineImplementsLedger == Spec => LedgerSpec
<1>1. Init => UniqueKeys  BY DEF Init, UniqueKeys
<1>2. Spec => []UniqueKeys  BY <1>1, NextUniqueKeys, TypeCorrect, PTL DEF Spec
<1>3. Spec => []Known
  <2>1. TypeOK /\ Conservation /\ UniqueKeys => Known  BY StageIsKnown DEF Known
  <2>2. QED BY <1>2, <2>1, TypeCorrect, PacketsConserved, PTL
<1>4. QED BY <1>3, InitRefines, StepRefines, PTL DEF Spec, LedgerSpec, Ledger!Spec

-----------------------------------------------------------------------------
(* The counters.  Every step keeps two sums, of what was counted and of     *)
(* what was saved, over the shared stats and all processors.                *)

Counted   == stats.packet_counter + SumFunction(local_packet_count)
SavedRows == stats.packets_saved + SumFunction(local_packets_saved)
Discarded == {m \in Packets : fate[m] = "discarded"}

(* The strengthening: what is counted is finite, and stats-only processors  *)
(* never reach the database.                                                *)
CountInv ==
    /\ IsFiniteSet(Processed)
    /\ Counted = Cardinality(Processed)
    /\ SavedCountExact
    /\ stats_only => \A p \in Processors : pc[p] \notin {"copy", "insert"}

LEMMA ProcessorsFinite == IsFiniteSet(Processors)
BY SizeAssumption, FS_Interval DEF Processors

LEMMA TotalsType ==
    ASSUME TypeOK
    PROVE  /\ SumFunction(local_packet_count) \in Int /\ SumFunction(local_packets_saved) \in Int
           /\ stats.packet_counter \in Nat /\ stats.packets_saved \in Nat
           /\ Counted \in Int /\ SavedRows \in Int
<1>1. 0 \in Processors  BY SizeAssumption DEF Processors
<1>2. /\ local_packet_count \in [Processors -> Int] /\ local_packets_saved \in [Processors -> Int]
      /\ stats.packet_counter \in Nat /\ stats.packets_saved \in Nat
  BY DEF TypeOK
<1>3. /\ SumFunction(local_packet_count) \in Int /\ SumFunction(local_packets_saved) \in Int
  BY <1>1, <1>2, ProcessorsFinite, SumChange
<1>4. QED BY <1>2, <1>3 DEF Counted, SavedRows

(* A flush moves numbers from one processor's counters to the shared ones.  *)
LEMMA FlushTotals ==
    ASSUME TypeOK, NEW p \in Processors, FlushLocalStats(p)
    PROVE  Counted' = Counted /\ SavedRows' = SavedRows
<1>1. CASE local_packet_count[p] = 0
  BY <1>1 DEF FlushLocalStats, localVars, Counted, SavedRows
<1>2. CASE local_packet_count[p] # 0
  <2>1. /\ local_packet_count \in [Processors -> Int] /\ local_packets_saved \in [Processors -> Int]
        /\ local_packet_count[p] \in Int /\ local_packets_saved[p] \in Int
    BY DEF TypeOK
  <2>2. /\ stats'.packet_counter = stats.packet_counter + local_packet_count[p]
        /\ stats'.packets_saved = stats.packets_saved + local_packets_saved[p]
        /\ local_packet_count' = [local_packet_count EXCEPT ![p] = 0]
        /\ local_packets_saved' = [local_packets_saved EXCEPT ![p] = 0]
    BY <1>2 DEF FlushLocalStats
  <2>3. /\ SumFunction(local_packet_count') =
               SumFunction(local_packet_count) + 0 - local_packet_count[p]
        /\ SumFunction(local_packets_saved') =
               SumFunction(local_packets_saved) + 0 - local_packets_saved[p]
    <3>1. PICK zero \in Int : zero = 0  OBVIOUS
    <3>2. SumFunction([local_packet_count EXCEPT ![p] = zero]) =
              SumFunction(local_packet_count) + zero - local_packet_count[p]
      BY <2>1, ProcessorsFinite, SumChange
    <3>3. SumFunction([local_packets_saved EXCEPT ![p] = zero]) =
              SumFunction(local_packets_saved) + zero - local_packets_saved[p]
      BY <2>1, ProcessorsFinite, SumChange
    <3>4. QED BY <2>2, <3>1, <3>2, <3>3
  <2>4. QED BY <2>1, <2>2, <2>3, TotalsType DEF Counted, SavedRows
<1>3. QED BY <1>1, <1>2

(* A finished save adds its rows to the one or the other.                   *)
LEMMA FinishSaveTotals ==
    ASSUME TypeOK, NEW p \in Processors, NEW n \in Nat, FinishSave(p, n)
    PROVE  Counted' = Counted /\ SavedRows' = SavedRows + n
<1>1. CASE mode[p] = "cleanup"
  <2>1. stats' = [stats EXCEPT !.packets_saved = @ + n] /\ UNCHANGED <<local_packets_saved, local_packet_count>>
    BY <1>1 DEF FinishSave
  <2>2. stats'.packets_saved = stats.packets_saved + n /\ stats'.packet_counter = stats.packet_counter
    BY <2>1 DEF TypeOK
  <2>3. QED BY <2>1, <2>2, TotalsType DEF Counted, SavedRows
<1>2. CASE mode[p] # "cleanup"
  <2>1. /\ local_packets_saved' = [local_packets_saved EXCEPT ![p] = @ + n]
        /\ UNCHANGED <<stats, local_packet_count>>
    BY <1>2 DEF FinishSave
  <2>2. /\ local_packets_saved \in [Processors -> Int] /\ local_packets_saved[p] \in Int
        /\ local_packets_saved[p] + n \in Int
    BY DEF TypeOK
  <2>3. local_packets_saved' = [local_packets_saved EXCEPT ![p] = local_packets_saved[p] + n]
    BY <2>1
  <2>4. SumFunction(local_packets_saved') =
            SumFunction(local_packets_saved) + (local_packets_saved[p] + n) - local_packets_saved[p]
    BY <2>2, <2>3, ProcessorsFinite, SumChange
  <2>5. QED BY <2>1, <2>2, <2>4, TotalsType DEF Counted, SavedRows
<1>3. QED BY <1>1, <1>2

LEMMA InitCount == Init => CountInv
<1> SUFFICES ASSUME Init PROVE CountInv
  OBVIOUS
<1>1. SumFunction(local_packet_count) = 0 /\ SumFunction(local_packets_saved) = 0
  BY ProcessorsFinite, SumOfZeros DEF Init
<1>2. Batched = {} /\ aprs_packet = {} /\ unacked = {}
  BY DEF Init, Batched, Range
<1>3. Processed = {} /\ Discarded = {}
  BY <1>2 DEF Init, Processed, Discarded
<1>4. IsFiniteSet({}) /\ Cardinality({}) = 0  BY FS_EmptySet
<1>5. stats.packet_counter = 0 /\ stats.packets_saved = 0 /\ \A p \in Processors : pc[p] = "check"
  BY DEF Init
<1>6. QED BY <1>1, <1>2, <1>3, <1>4, <1>5 DEF CountInv, Counted, SavedCountExact, Discarded

(* Where the parts of what is counted are, and that they are finite.        *)
LEMMA CountSets ==
    ASSUME TypeOK, CountInv
    PROVE  /\ aprs_packet \subseteq Processed /\ Discarded \subseteq Processed
           /\ Batched \subseteq Processed /\ unacked \subseteq aprs_packet
           /\ IsFiniteSet(aprs_packet) /\ IsFiniteSet(Discarded) /\ IsFiniteSet(unacked)
           /\ Cardinality(aprs_packet) \in Nat /\ Cardinality(Discarded) \in Nat
           /\ Cardinality(unacked) \in Nat
<1>1. /\ aprs_packet \subseteq Processed /\ Discarded \subseteq Processed
      /\ Batched \subseteq Processed /\ unacked \subseteq aprs_packet
  BY DEF Processed, Discarded, TypeOK
<1>2. IsFiniteSet(Processed)  BY DEF CountInv
<1>3. IsFiniteSet(aprs_packet) /\ IsFiniteSet(Discarded) /\ IsFiniteSet(unacked)
  BY <1>1, <1>2, FS_Subset
<1>4. QED BY <1>1, <1>3, FS_CardinalityType

(* Two disjoint finite sets together. *)
LEMMA DisjointSize ==
    ASSUME NEW A, NEW B, IsFiniteSet(A), IsFiniteSet(B), A \cap B = {}
    PROVE  /\ IsFiniteSet(A \cup B)
           /\ Cardinality(A \cup B) = Cardinality(A) + Cardinality(B)
<1>1. Cardinality(A) \in Nat /\ Cardinality(B) \in Nat /\ Cardinality(A \cap B) = 0
  BY FS_CardinalityType, FS_EmptySet
<1>2. /\ IsFiniteSet(A \cup B)
      /\ Cardinality(A \cup B) = Cardinality(A) + Cardinality(B) - Cardinality(A \cap B)
  BY FS_Union
<1>3. QED BY <1>1, <1>2

(* A step that keeps the sums, the table and the discarded packets.         *)
LEMMA SameCount ==
    ASSUME TypeOK, CountInv, Counted' = Counted, SavedRows' = SavedRows,
           Processed' = Processed, Discarded' = Discarded,
           UNCHANGED <<aprs_packet, unacked, stats_only>>,
           stats_only => \A p \in Processors : pc'[p] \notin {"copy", "insert"}
    PROVE  CountInv'
BY DEF CountInv, Counted, SavedCountExact, SavedRows, Discarded

(* The batch of p leaves memory; what it held stays counted.                *)
LEMMA BatchLeavesProcessed ==
    ASSUME TypeOK, Conservation, NEW p \in Processors,
           NEW new \in SUBSET InB(p), aprs_packet' = aprs_packet \cup new,
           packet_dicts' = [packet_dicts EXCEPT ![p] = <<>>],
           \A m \in Packets :
               IF m \in InB(p) \ aprs_packet'
               THEN fate'[m] \in {"duplicate", "lost", "discarded"}
               ELSE fate'[m] = fate[m]
    PROVE  Processed' = Processed
<1>1. Batched' = Batched \ InB(p) /\ InB(p) \subseteq Batched /\ InB(p) \subseteq Packets
  <2>1. InB(p)' = {}
    <3>1. Range(<<>>) = {} /\ packet_dicts'[p] = <<>>  BY DEF Range, TypeOK
    <3>2. QED BY <3>1 DEF InB
  <2>2. \A q \in Processors \ {p} : InB(q)' = InB(q) /\ InB(q) \cap InB(p) = {}
    BY DEF TypeOK, Conservation, InB
  <2>3. InB(p) \subseteq Packets  BY RangeFacts DEF InB, TypeOK
  <2>4. QED BY <2>1, <2>2, <2>3 DEF Batched, InB
<1>2. aprs_packet' \subseteq Batched \cup aprs_packet /\ aprs_packet \subseteq aprs_packet'
  BY <1>1
<1>3. ASSUME NEW m \in Processed PROVE m \in Processed'
  <2>1. CASE m \in InB(p) \ aprs_packet'
    BY <1>1, <2>1 DEF Processed
  <2>2. CASE m \notin InB(p) \ aprs_packet'
    BY <1>1, <1>2, <1>3, <2>2 DEF Processed
  <2>3. QED BY <2>1, <2>2
<1>4. ASSUME NEW m \in Processed' PROVE m \in Processed
  <2>1. CASE m \in InB(p)
    BY <1>1, <2>1 DEF Processed
  <2>2. CASE m \notin InB(p)
    BY <1>1, <1>2, <1>4, <2>2 DEF Processed
  <2>3. QED BY <2>1, <2>2
<1>5. QED BY <1>3, <1>4

(* A finished save: n rows are counted, and the rows the table has gained   *)
(* are these or, after an error, rows nobody was told of.                   *)
LEMMA SettledSaveCount ==
    ASSUME TypeOK, Conservation, CountInv, NEW p \in Processors, NEW n \in Nat,
           pc[p] \in {"copy", "insert"}, NEW new \in SUBSET InB(p),
           new \cap aprs_packet = {}, Settle(p), FinishSave(p, n),
           aprs_packet' = aprs_packet \cup new,
           \/ n = Cardinality(new) /\ unacked' = unacked
           \/ n = 0 /\ unacked' = unacked \cup new
    PROVE  CountInv'
<1>1. ~stats_only /\ stats_only' = stats_only
  BY DEF CountInv, FinishSave, stopVars
<1>2. Counted' = Counted /\ SavedRows' = SavedRows + n /\ SavedRows \in Int
  BY FinishSaveTotals, TotalsType
<1>3. Processed' = Processed
  <2>1. \A m \in Packets :
            IF m \in InB(p) \ aprs_packet'
            THEN fate'[m] \in {"duplicate", "lost", "discarded"}
            ELSE fate'[m] = fate[m]
    BY DEF Settle, InB
  <2>2. QED BY <2>1, BatchLeavesProcessed DEF FinishSave
<1>4. IsFiniteSet(new) /\ Cardinality(new) \in Nat
  <2>1. IsFiniteSet(InB(p))  BY RangeFacts DEF InB, TypeOK
  <2>2. QED BY <2>1, FS_Subset, FS_CardinalityType
<1>5. /\ Cardinality(aprs_packet') = Cardinality(aprs_packet) + Cardinality(new)
      /\ Cardinality(aprs_packet) \in Nat /\ Cardinality(unacked) \in Nat
  BY <1>4, CountSets, DisjointSize
<1>6. Cardinality(unacked \cup new) = Cardinality(unacked) + Cardinality(new)
  <2>1. unacked \cap new = {} /\ IsFiniteSet(unacked)  BY CountSets
  <2>2. QED BY <1>4, <2>1, DisjointSize
<1>7. SavedRows + Cardinality(unacked) = Cardinality(aprs_packet)
  BY <1>1 DEF CountInv, SavedCountExact, SavedRows
<1>8. SavedRows' + Cardinality(unacked') = Cardinality(aprs_packet')
  <2>1. CASE n = Cardinality(new) /\ unacked' = unacked
    BY <1>2, <1>4, <1>5, <1>7, <2>1
  <2>2. CASE n = 0 /\ unacked' = unacked \cup new
    BY <1>2, <1>4, <1>5, <1>6, <1>7, <2>2
  <2>3. QED BY <2>1, <2>2
<1>9. QED BY <1>1, <1>2, <1>3, <1>8 DEF CountInv, Counted, SavedCountExact, SavedRows

(* COPY reported an error after its commit: rows that nobody was told of.   *)
LEMMA CopyRaisedCount ==
    ASSUME TypeOK, Conservation, CountInv, NEW p \in Processors, pc[p] = "copy", Raised(p),
           UNCHANGED <<packet_dicts, localVars, stats, stats_only, fate>>
    PROVE  CountInv'
<1>1. ~stats_only  BY DEF CountInv
<1>2. Counted' = Counted /\ SavedRows' = SavedRows /\ SavedRows \in Int
  BY TotalsType DEF Counted, SavedRows, localVars
<1>3. Batched' = Batched  BY DEF Batched
<1>4. CASE UNCHANGED <<aprs_packet, unacked>>
  <2>1. Processed' = Processed  BY <1>3, <1>4 DEF Processed
  <2>2. QED BY <1>1, <1>2, <1>4, <2>1 DEF CountInv, Counted, SavedCountExact, SavedRows
<1>5. CASE /\ aprs_packet' = aprs_packet \cup NewRows(packet_dicts[p])
           /\ unacked' = unacked \cup NewRows(packet_dicts[p])
  <2>1. packet_dicts[p] \in Seq(Packets)  BY DEF TypeOK
  <2>2. PICK new : new = NewRows(packet_dicts[p])  OBVIOUS
  <2>3. new \subseteq InB(p) /\ new \cap aprs_packet = {}
    BY <2>1, <2>2, NewRowsFacts, NewRowsAreNew DEF InB
  <2>4. IsFiniteSet(new) /\ Cardinality(new) \in Nat /\ new \subseteq Batched
    <3>1. IsFiniteSet(InB(p))  BY <2>1, RangeFacts DEF InB
    <3>2. QED BY <2>3, <3>1, FS_Subset, FS_CardinalityType DEF Batched, InB
  <2>5. Processed' = Processed  BY <1>3, <1>5, <2>2, <2>4 DEF Processed
  <2>6. /\ Cardinality(aprs_packet') = Cardinality(aprs_packet) + Cardinality(new)
        /\ Cardinality(aprs_packet) \in Nat /\ Cardinality(unacked) \in Nat
    BY <1>5, <2>2, <2>3, <2>4, CountSets, DisjointSize
  <2>7. Cardinality(unacked') = Cardinality(unacked) + Cardinality(new)
    <3>1. unacked \cap new = {} /\ IsFiniteSet(unacked)  BY <2>3, CountSets
    <3>2. QED BY <1>5, <2>2, <2>4, <3>1, DisjointSize
  <2>8. SavedRows + Cardinality(unacked) = Cardinality(aprs_packet)
    BY <1>1 DEF CountInv, SavedCountExact, SavedRows
  <2>9. SavedRows' + Cardinality(unacked') = Cardinality(aprs_packet')
    BY <1>2, <2>4, <2>6, <2>7, <2>8
  <2>10. QED BY <1>1, <1>2, <2>5, <2>9 DEF CountInv, Counted, SavedCountExact, SavedRows
<1>6. QED BY <1>4, <1>5 DEF Raised

(* A batch that stats-only mode throws away; only then is there one.        *)
LEMMA DiscardCount ==
    ASSUME TypeOK, Conservation, CountInv, NEW p \in Processors, NEW n \in Int,
           pc[p] \in {"save", "cleanup"}, n <= Len(packet_dicts[p]),
           packet_dicts[p] = <<>> \/ stats_only, ~stats_only => n = 0,
           Ends(Range(packet_dicts[p]), "discarded"),
           packet_dicts' = [packet_dicts EXCEPT ![p] = <<>>],
           Counted' = Counted, SavedRows' = SavedRows + n,
           stats_only => \A q \in Processors : pc'[q] \notin {"copy", "insert"},
           UNCHANGED <<aprs_packet, unacked, stats_only>>
    PROVE  CountInv'
<1>1. packet_dicts[p] \in Seq(Packets) /\ IsInjective(packet_dicts[p])
  BY DEF TypeOK, Conservation
<1>2. /\ InB(p) \subseteq Packets /\ IsFiniteSet(InB(p))
      /\ Cardinality(InB(p)) = Len(packet_dicts[p])
  BY <1>1, RangeFacts, RangeSize DEF InB
<1>3. InB(p) \cap aprs_packet = {}
  BY DEF Conservation, Saving, InB
<1>4. Processed' = Processed
  <2>1. \A m \in Packets :
            IF m \in InB(p) \ aprs_packet'
            THEN fate'[m] \in {"duplicate", "lost", "discarded"}
            ELSE fate'[m] = fate[m]
    BY <1>3 DEF Ends, InB
  <2>2. {} \in SUBSET InB(p) /\ aprs_packet' = aprs_packet \cup {}  OBVIOUS
  <2>3. QED BY <2>1, <2>2, BatchLeavesProcessed
<1>5. Discarded' = Discarded \cup InB(p)
  BY <1>2 DEF Discarded, Ends, InB
<1>6. Discarded \cap InB(p) = {}
  <2>1. InB(p) \subseteq Batched  BY DEF Batched, InB
  <2>2. Discarded \subseteq Ended  BY DEF Discarded, Ended
  <2>3. QED BY <2>1, <2>2 DEF Conservation
<1>7. Cardinality(Discarded') = Cardinality(Discarded) + Len(packet_dicts[p])
  <2>1. Cardinality(Discarded \cup InB(p)) = Cardinality(Discarded) + Cardinality(InB(p))
    BY <1>2, <1>6, CountSets, DisjointSize
  <2>2. QED BY <1>2, <1>5, <2>1
<1>8. /\ SavedRows \in Int /\ Cardinality(Discarded) \in Nat /\ Len(packet_dicts[p]) \in Nat
  BY <1>1, TotalsType, CountSets
<1>9. CASE stats_only
  <2>1. aprs_packet = {} /\ SavedRows <= Cardinality(Discarded)
    BY <1>9 DEF CountInv, SavedCountExact, SavedRows, Discarded
  <2>2. SavedRows' <= Cardinality(Discarded')
    BY <1>7, <1>8, <2>1
  <2>3. QED BY <1>4, <1>9, <2>1, <2>2
            DEF CountInv, Counted, SavedCountExact, SavedRows, Discarded
<1>10. CASE ~stats_only
  <2>1. SavedRows' = SavedRows  BY <1>8, <1>10
  <2>2. QED BY <1>4, <1>10, <2>1 DEF CountInv, Counted, SavedCountExact, SavedRows
<1>11. QED BY <1>9, <1>10

(* A packet joins the batch and is counted. *)
LEMMA GetPacketCount ==
    ASSUME TypeOK, Conservation, CountInv, NEW p \in Processors, GetPacket(p)
    PROVE  CountInv'
<1>0. /\ aprs_queues[p] # <<>> /\ aprs_queues' = [aprs_queues EXCEPT ![p] = Tail(@)]
      /\ UNCHANGED <<aprs_packet, unacked, fate, stats, local_packets_saved, stats_only>>
  BY DEF GetPacket, stopVars, history
<1>1. PICK h \in Packets : h = Head(aprs_queues[p])
  BY <1>0, TakeHead
<1>2. h \in Queued  BY <1>0, <1>1, TakeHead
<1>3. h \notin Processed
  <2>1. h \notin Batched \cup aprs_packet \cup Ended  BY <1>2 DEF Conservation
  <2>2. QED BY <2>1 DEF Processed, Ended
<1>4. Processed' = Processed \cup {h}
  <2>1. InB(p)' = InB(p) \cup {h}
    <3>1. packet_dicts[p] \in Seq(Packets) /\ packet_dicts'[p] = Append(packet_dicts[p], h)
      BY <1>1 DEF TypeOK, GetPacket
    <3>2. QED BY <3>1, AppendFacts DEF InB
  <2>2. \A q \in Processors \ {p} : InB(q)' = InB(q)
    BY DEF TypeOK, GetPacket, InB
  <2>3. Batched' = Batched \cup {h}  BY <2>1, <2>2 DEF Batched, InB
  <2>4. QED BY <1>0, <2>3 DEF Processed
<1>5. /\ IsFiniteSet(Processed') /\ Cardinality(Processed') = Cardinality(Processed) + 1
      /\ Cardinality(Processed) \in Nat
  BY <1>3, <1>4, FS_AddElement, FS_CardinalityType DEF CountInv
<1>6. Counted' = Counted + 1 /\ SavedRows' = SavedRows
  <2>1. /\ local_packet_count \in [Processors -> Int] /\ local_packet_count[p] \in Int
        /\ local_packet_count[p] + 1 \in Int
    BY DEF TypeOK
  <2>2. local_packet_count' = [local_packet_count EXCEPT ![p] = local_packet_count[p] + 1]
    BY DEF GetPacket
  <2>3. SumFunction(local_packet_count') =
            SumFunction(local_packet_count) + (local_packet_count[p] + 1) - local_packet_count[p]
    BY <2>1, <2>2, ProcessorsFinite, SumChange
  <2>4. SumFunction(local_packet_count') = SumFunction(local_packet_count) + 1
    BY <2>1, <2>3, TotalsType
  <2>5. QED BY <1>0, <2>4, TotalsType DEF Counted, SavedRows
<1>7. stats_only => \A q \in Processors : pc'[q] \notin {"copy", "insert"}
  BY DEF CountInv, TypeOK, GetPacket, Goto
<1>8. SavedCountExact'
  BY <1>0 DEF CountInv, SavedCountExact
<1>9. Counted' = Cardinality(Processed')
  BY <1>5, <1>6, TotalsType DEF CountInv
<1>10. QED BY <1>0, <1>5, <1>7, <1>8, <1>9 DEF CountInv

LEMMA ProcessorCounts ==
    ASSUME TypeOK, Conservation, CountInv, NEW p \in Processors, Step(p)
    PROVE  CountInv'
<1>1. CASE Check(p) \/ GetEmpty(p) \/ Flush(p) \/ PrintStats(p)
  <2>1. /\ FlushLocalStats(p) \/ UNCHANGED <<stats, localVars>>
        /\ UNCHANGED <<packet_dicts, aprs_packet, unacked, stats_only, fate>>
    BY <1>1 DEF Check, GetEmpty, Flush, PrintStats, PrintDue, PrintReport, history, stopVars
  <2>2. Counted' = Counted /\ SavedRows' = SavedRows
    BY <2>1, FlushTotals DEF Counted, SavedRows, localVars
  <2>3. Processed' = Processed /\ Discarded' = Discarded
    BY <2>1 DEF Processed, Batched, Discarded
  <2>4. stats_only => \A q \in Processors : pc'[q] \notin {"copy", "insert"}
    BY <1>1 DEF Check, GetEmpty, Flush, PrintStats, PrintDue, PrintReport, Goto, TypeOK, CountInv
  <2>5. QED BY <2>1, <2>2, <2>3, <2>4, SameCount
<1>2. CASE GetPacket(p)
  BY <1>2, GetPacketCount
<1>3. CASE GetRejected(p)
  <2>1. UNCHANGED <<packet_dicts, aprs_packet, unacked, stats, local_packet_count,
                    local_packets_saved, stats_only>>
    BY <1>3 DEF GetRejected, localVars, stopVars
  <2>2. Head(aprs_queues[p]) \in Queued
    <3>1. aprs_queues[p] # <<>> /\ aprs_queues[p] \in Seq(Packets)
      BY <1>3 DEF GetRejected, TypeOK
    <3>2. QED BY <3>1, TailFacts DEF Queued
  <2>3. fate[Head(aprs_queues[p])] = "live"
    BY <2>2 DEF Conservation, Ended
  <2>4. Processed' = Processed /\ Discarded' = Discarded
    BY <1>3, <2>1, <2>3 DEF GetRejected, Ends, Processed, Batched, Discarded
  <2>5. stats_only => \A q \in Processors : pc'[q] \notin {"copy", "insert"}
    BY <1>3 DEF GetRejected, Goto, TypeOK, CountInv
  <2>6. QED BY <2>1, <2>4, <2>5, SameCount DEF Counted, SavedRows
<1>4. CASE SaveIfNeeded(p)
  <2>1. CASE SaveNotDue(p) \/ SaveBegin(p)
    <3>1. UNCHANGED <<packet_dicts, aprs_packet, unacked, stats, local_packet_count,
                      local_packets_saved, stats_only, fate>>
      BY <2>1 DEF SaveNotDue, SaveBegin, localVars, stopVars, history
    <3>2. Processed' = Processed /\ Discarded' = Discarded
      BY <3>1 DEF Processed, Batched, Discarded
    <3>3. stats_only => \A q \in Processors : pc'[q] \notin {"copy", "insert"}
      BY <2>1 DEF SaveNotDue, SaveBegin, Goto, AfterSave, TypeOK, CountInv
    <3>4. QED BY <3>1, <3>2, <3>3, SameCount DEF Counted, SavedRows
  <2>2. CASE SaveDiscard(p)
    <3>1. Len(packet_dicts[p]) \in Nat  BY DEF TypeOK
    <3>2. /\ local_packets_saved \in [Processors -> Int] /\ local_packets_saved[p] \in Int
          /\ local_packets_saved[p] + Len(packet_dicts[p]) \in Int
      BY <3>1 DEF TypeOK
    <3>3. local_packets_saved' = [local_packets_saved EXCEPT ![p] =
              local_packets_saved[p] + Len(packet_dicts[p])]
      BY <2>2 DEF SaveDiscard
    <3>4. SumFunction(local_packets_saved') = SumFunction(local_packets_saved)
              + (local_packets_saved[p] + Len(packet_dicts[p])) - local_packets_saved[p]
      BY <3>2, <3>3, ProcessorsFinite, SumChange
    <3>5. Counted' = Counted /\ SavedRows' = SavedRows + Len(packet_dicts[p])
      <4>1. stats' = stats /\ local_packet_count' = local_packet_count
        BY <2>2 DEF SaveDiscard
      <4>2. SumFunction(local_packets_saved') =
                SumFunction(local_packets_saved) + Len(packet_dicts[p])
        BY <3>1, <3>2, <3>4, TotalsType
      <4>3. QED BY <3>1, <4>1, <4>2, TotalsType DEF Counted, SavedRows
    <3>6. stats_only => \A q \in Processors : pc'[q] \notin {"copy", "insert"}
      BY <2>2 DEF SaveDiscard, Goto, AfterSave, TypeOK, CountInv
    <3>7. PICK n \in Int : n = Len(packet_dicts[p])  BY <3>1
    <3>8. /\ pc[p] = "save" /\ stats_only /\ Ends(Range(packet_dicts[p]), "discarded")
          /\ packet_dicts' = [packet_dicts EXCEPT ![p] = <<>>]
          /\ UNCHANGED <<aprs_packet, unacked, stats_only>>
      BY <2>2 DEF SaveDiscard, stopVars
    <3>9. n <= Len(packet_dicts[p]) /\ SavedRows' = SavedRows + n
      BY <3>1, <3>5, <3>7
    <3>10. QED BY <3>5, <3>6, <3>8, <3>9, DiscardCount
  <2>3. QED BY <1>4, <2>1, <2>2 DEF SaveIfNeeded
<1>5. ASSUME Commit(p), pc[p] \in {"copy", "insert"} PROVE CountInv'
  <2>1. packet_dicts[p] \in Seq(Packets)  BY DEF TypeOK
  <2>2. /\ NewRows(packet_dicts[p]) \in SUBSET InB(p)
        /\ Cardinality(NewRows(packet_dicts[p])) \in Nat
        /\ NewRows(packet_dicts[p]) \cap aprs_packet = {}
    BY <2>1, NewRowsFacts, NewRowsAreNew DEF InB
  <2>3. QED BY <1>5, <2>2, SettledSaveCount DEF Commit
<1>6. CASE Copy(p)
  <2>1. CASE Commit(p)  BY <1>5, <1>6, <2>1 DEF Copy
  <2>2. CASE ~Commit(p)
    BY <1>6, <2>2, CopyRaisedCount DEF Copy, stopVars
  <2>3. QED BY <2>1, <2>2
<1>7. CASE Insert(p)
  <2>1. CASE Commit(p)  BY <1>5, <1>7, <2>1 DEF Insert
  <2>2. CASE ~Commit(p)
    <3>1. pc[p] = "insert" /\ Raised(p) /\ Settle(p) /\ FinishSave(p, 0)
      BY <1>7, <2>2 DEF Insert
    <3>2. CASE UNCHANGED <<aprs_packet, unacked>>
      <4>1. /\ {} \in SUBSET InB(p) /\ {} \cap aprs_packet = {}
            /\ aprs_packet' = aprs_packet \cup {} /\ unacked' = unacked \cup {}
        BY <3>2
      <4>2. QED BY <3>1, <4>1, SettledSaveCount
    <3>3. CASE /\ aprs_packet' = aprs_packet \cup NewRows(packet_dicts[p])
               /\ unacked' = unacked \cup NewRows(packet_dicts[p])
      <4>1. packet_dicts[p] \in Seq(Packets)  BY DEF TypeOK
      <4>2. /\ NewRows(packet_dicts[p]) \in SUBSET InB(p)
            /\ NewRows(packet_dicts[p]) \cap aprs_packet = {}
        BY <4>1, NewRowsFacts, NewRowsAreNew DEF InB
      <4>3. QED BY <3>1, <3>3, <4>2, SettledSaveCount
    <3>4. QED BY <3>1, <3>2, <3>3 DEF Raised
  <2>3. QED BY <2>1, <2>2
<1>8. CASE Cleanup(p)
  <2>1. /\ FlushLocalStats(p) /\ UNCHANGED <<aprs_packet, unacked, stats_only>>
        /\ pc[p] = "cleanup"
    BY <1>8 DEF Cleanup, stopVars
  <2>2. Counted' = Counted /\ SavedRows' = SavedRows  BY <2>1, FlushTotals
  <2>3. stats_only => \A q \in Processors : pc'[q] \notin {"copy", "insert"}
    BY <1>8 DEF Cleanup, CleanupSave, CleanupDiscard, Goto, TypeOK, CountInv
  <2>4. CASE CleanupSave(p)
    <3>1. Processed' = Processed /\ Discarded' = Discarded
      BY <2>1, <2>4 DEF CleanupSave, Processed, Batched, Discarded
    <3>2. QED BY <2>1, <2>2, <2>3, <3>1, SameCount
  <2>5. CASE CleanupDiscard(p)
    <3>1. PICK n \in Int : n = 0  OBVIOUS
    <3>2. SavedRows' = SavedRows + n /\ n <= Len(packet_dicts[p])
      <4>1. Len(packet_dicts[p]) \in Nat  BY DEF TypeOK
      <4>2. QED BY <2>2, <3>1, <4>1, TotalsType
    <3>3. QED BY <2>1, <2>2, <2>3, <2>5, <3>1, <3>2, DiscardCount DEF CleanupDiscard
  <2>6. QED BY <1>8, <2>4, <2>5 DEF Cleanup
<1>9. QED BY <1>1, <1>2, <1>3, <1>4, <1>6, <1>7, <1>8 DEF Step

LEMMA NextCount == TypeOK /\ Conservation /\ CountInv /\ [Next]_vars => CountInv'
<1> SUFFICES ASSUME TypeOK, Conservation, CountInv, [Next]_vars PROVE CountInv'
  OBVIOUS
<1>1. ASSUME NEW m \in Packets, OnMessage(m) PROVE CountInv'
  <2>1. /\ m \in inbound
        /\ UNCHANGED <<packet_dicts, aprs_packet, unacked, stats, local_packet_count,
                       local_packets_saved, stats_only, pc>>
        /\ \A n \in Packets \ {m} : fate'[n] = fate[n]
        /\ fate'[m] \in {fate[m], "dropped", "rejected"}
    BY <1>1 DEF OnMessage, OnMessageGarbled, OnMessagePacket, Ends, localVars, stopVars
  <2>2. fate[m] = "live"  BY <2>1 DEF Conservation, Ended
  <2>3. Processed' = Processed /\ Discarded' = Discarded
    BY <2>1, <2>2 DEF Processed, Batched, Discarded
  <2>4. QED BY <2>1, <2>3, SameCount DEF Counted, SavedRows, CountInv
<1>2. CASE WeatherGet \/ StopNext \/ UNCHANGED vars
  <2>1. UNCHANGED <<packet_dicts, aprs_packet, unacked, stats, local_packet_count,
                    local_packets_saved, stats_only, pc, fate>>
    BY <1>2 DEF WeatherGet, StopNext, vars, localVars, stopVars, history
  <2>2. Processed' = Processed /\ Discarded' = Discarded
    BY <2>1 DEF Processed, Batched, Discarded
  <2>3. QED BY <2>1, <2>2, SameCount DEF Counted, SavedRows, CountInv
<1>3. ASSUME NEW p \in Processors, Step(p) PROVE CountInv'
  BY <1>3, ProcessorCounts
<1>4. QED BY <1>1, <1>2, <1>3 DEF Next

(* For every number of processors and every flush interval: the shared      *)
(* stats and the counters of all processors add up to the packets that      *)
(* joined a batch and to the rows of the table, across every interleaving   *)
(* of flushes, saves and cleanups (_flush_local_stats, _print_stats,        *)
(* _save_packets_if_needed, _cleanup).                                      *)
THEOREM CountersAreExact == Spec => []CountersExact
<1>1. CountInv => CountersExact
  BY DEF CountInv, CountersExact, ProcessedCountExact, Counted
<1>2. Spec => []CountInv
  BY InitCount, NextCount, TypeCorrect, PacketsConserved, PTL DEF Spec
<1>3. QED BY <1>1, <1>2, PTL

=============================================================================
