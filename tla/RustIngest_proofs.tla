-------------------------- MODULE RustIngest_proofs --------------------------
(* Proofs about RustIngest, for every set of packets and keys, channel      *)
(* size, batch size and number of faults.                                   *)
(*                                                                          *)
(* Both results are about what the database has done while the processor    *)
(* waits for its answer, and about what a task that is cancelled at an      *)
(* await leaves behind: InsertInv says what the rows, the batch and the     *)
(* answer have to do with each other, OnePlace where a packet can be.       *)
EXTENDS RustIngest, SequenceLemmas

Fates == {"live", "rejected", "discarded", "duplicate", "lost"}

Typed ==
    /\ inbound \subseteq Packets /\ sending \subseteq Packets
    /\ channel \in Seq(Packets) /\ batch \in Seq(Packets)
    /\ new_rows \subseteq aprs_packet /\ unacked \subseteq aprs_packet
    /\ aprs_packet \subseteq Packets
    /\ fate \in [Packets -> Fates]
    /\ stats \in [inserted : Int, duplicate : Int]
    /\ pc \in {"recv", "insert", "done", "gone"}
    /\ reply \in {"none", "ok", "error"}
    /\ stats_only \in BOOLEAN /\ faults \in Nat

Waiting == inbound \cup sending \cup Range(channel)

(* A packet is in one place, and live as long as it is somewhere. *)
OnePlace ==
    /\ IsInjective(channel) /\ IsInjective(batch)
    /\ inbound \cap sending = {}
    /\ (inbound \cup sending) \cap Range(channel) = {}
    /\ Waiting \cap (Range(batch) \cup aprs_packet) = {}
    /\ \A m, n \in sending : m = n
    /\ mqtt \in {"poll", "sleep"} => sending = {}
    /\ \A m \in Packets :
          fate[m] = "live" <=> m \in Waiting \cup Range(batch) \cup aprs_packet

UniqueKeys == \A m, n \in aprs_packet : Key[m] = Key[n] => m = n

(* What the table holds of the batch, by what the INSERT has answered. *)
InsertInv ==
    /\ reply = "none"  => new_rows = {} /\ Range(batch) \cap aprs_packet = {}
    /\ reply = "ok"    => /\ new_rows = Range(batch) \cap aprs_packet
                          /\ \A m \in Range(batch) : Key[m] \in Stored
    /\ reply = "error" => new_rows = {} /\ faults > 0
    /\ reply # "none"  => pc \in {"insert", "gone"}
    /\ new_rows \cap unacked = {}
    /\ stats_only => pc # "insert"

CountInv ==
    /\ IsFiniteSet(aprs_packet)
    /\ IsFiniteSet(Fated("discarded")) /\ IsFiniteSet(Fated("duplicate"))
    /\ StatsExact

IngestInv == Typed /\ OnePlace /\ UniqueKeys /\ InsertInv /\ CountInv

-----------------------------------------------------------------------------
(* ON CONFLICT DO NOTHING lets a packet through for each key of the batch   *)
(* that is not in the table, and only one.                                  *)
LEMMA NewRowsFacts ==
    ASSUME Typed
    PROVE  /\ NewRows \subseteq Range(batch)
           /\ \A m \in NewRows : Key[m] \notin Stored
           /\ \A m, n \in NewRows : Key[m] = Key[n] => m = n
           /\ \A m \in Range(batch) : \E n \in aprs_packet \cup NewRows : Key[n] = Key[m]
<1>1. DOMAIN batch = 1 .. Len(batch) /\ Len(batch) \in Nat  BY DEF Typed
<1>2. NewRows \subseteq Range(batch) /\ \A m \in NewRows : Key[m] \notin Stored
  BY DEF NewRows, Range
<1>3. ASSUME NEW m \in NewRows, NEW n \in NewRows, Key[m] = Key[n] PROVE m = n
  <2>1. PICK i \in 1 .. Len(batch) : m = batch[i] /\ \A k \in 1 .. i - 1 : Key[batch[k]] # Key[m]
    BY <1>1 DEF NewRows
  <2>2. PICK j \in 1 .. Len(batch) : n = batch[j] /\ \A k \in 1 .. j - 1 : Key[batch[k]] # Key[n]
    BY <1>1 DEF NewRows
  <2>3. ~ (i < j) /\ ~ (j < i)  BY <1>3, <1>1, <2>1, <2>2
  <2>4. i = j  BY <1>1, <2>3
  <2>5. QED BY <2>1, <2>2, <2>4
<1>4. ASSUME NEW m \in Range(batch) PROVE \E n \in aprs_packet \cup NewRows : Key[n] = Key[m]
  <2>1. CASE Key[m] \in Stored  BY <2>1 DEF Stored
  <2>2. CASE Key[m] \notin Stored
    <3> DEFINE J == {j \in 1 .. Len(batch) : Key[batch[j]] = Key[m]}
    <3>1. J \subseteq Nat /\ J # {}  BY <1>1, <1>4 DEF Range
    <3>2. PICK j \in J : \A k \in J : j <= k  BY <3>1, LeastNumber
    <3>3. \A k \in 1 .. j - 1 : Key[batch[k]] # Key[batch[j]]  BY <3>2, <1>1
    <3>4. batch[j] \in NewRows  BY <1>1, <2>2, <3>2, <3>3 DEF NewRows
    <3>5. QED BY <3>2, <3>4
  <2>3. QED BY <2>1, <2>2
<1>5. QED BY <1>2, <1>3, <1>4

LEMMA InitIngestInv == Init => IngestInv
<1> SUFFICES ASSUME Init PROVE IngestInv
  OBVIOUS
<1>1. Range(<<>>) = {} /\ IsInjective(<<>>)  BY DEF Range, IsInjective
<1>2. Typed  BY RustAssumption DEF Init, Typed, Fates
<1>3. OnePlace  BY <1>1 DEF Init, OnePlace, Waiting
<1>4. UniqueKeys  BY DEF Init, UniqueKeys
<1>5. InsertInv  BY <1>1 DEF Init, InsertInv
<1>6. CountInv
  <2>1. Fated("discarded") = {} /\ Fated("duplicate") = {}  BY DEF Init, Fated
  <2>2. aprs_packet = {} /\ unacked \cup new_rows = {}  BY DEF Init
  <2>3. IsFiniteSet({}) /\ Cardinality({}) = 0  BY FS_EmptySet
  <2>4. stats = [inserted |-> 0, duplicate |-> 0]  BY DEF Init
  <2>5. QED BY <2>1, <2>2, <2>3, <2>4 DEF CountInv, StatsExact
<1>7. QED BY <1>2, <1>3, <1>4, <1>5, <1>6 DEF IngestInv

-----------------------------------------------------------------------------
(* Steps that move no packet: of the link, of main, of the clock, and the   *)
(* end of the channel. *)
LEMMA QuietStep ==
    ASSUME IngestInv, faults' \in Nat, faults' >= faults,
           pc' \in {"recv", "insert", "done", "gone"},
           stats_only => pc' # "insert",
           reply # "none" => pc' \in {"insert", "gone"},
           mqtt' \in {"poll", "sleep"} => mqtt \in {"poll", "sleep"},
           UNCHANGED <<inbound, sending, channel, batch, reply, new_rows, stats,
                       aprs_packet, stats_only, fate, unacked>>
    PROVE  IngestInv'
<1>1. Typed'  BY DEF IngestInv, Typed
<1>2. OnePlace'  BY DEF IngestInv, OnePlace, Waiting
<1>3. UniqueKeys'  BY DEF IngestInv, UniqueKeys
<1>4. Stored' = Stored  BY DEF Stored
<1>5. InsertInv'  BY <1>4 DEF IngestInv, InsertInv, Typed
<1>6. CountInv'
  <2>1. Fated("discarded")' = Fated("discarded") /\ Fated("duplicate")' = Fated("duplicate")
    BY DEF Fated
  <2>2. faults' = 0 => faults = 0  BY DEF IngestInv, Typed
  <2>3. QED BY <2>1, <2>2 DEF IngestInv, CountInv, StatsExact
<1>7. QED BY <1>1, <1>2, <1>3, <1>5, <1>6 DEF IngestInv

(* Steps of the MQTT task that move a packet towards the processor. *)
LEMMA MoveStep ==
    ASSUME IngestInv, Typed', OnePlace',
           UNCHANGED <<pc, batch, reply, new_rows, stats, aprs_packet, stats_only, fate,
                       unacked, faults>>
    PROVE  IngestInv'
<1>1. UniqueKeys'  BY DEF IngestInv, UniqueKeys
<1>2. Stored' = Stored  BY DEF Stored
<1>3. InsertInv'  BY <1>2 DEF IngestInv, InsertInv
<1>4. Fated("discarded")' = Fated("discarded") /\ Fated("duplicate")' = Fated("duplicate")
  BY DEF Fated
<1>5. CountInv'  BY <1>4 DEF IngestInv, CountInv, StatsExact
<1>6. QED BY <1>1, <1>3, <1>5 DEF IngestInv

LEMMA PollPublishInv == ASSUME IngestInv, NEW m \in Packets, PollPublish(m) PROVE IngestInv'
<1>1. /\ m \in inbound /\ inbound' = inbound \ {m} /\ sending = {} /\ sending' = {m}
      /\ mqtt' = "send"
      /\ UNCHANGED <<channel, pc, batch, reply, new_rows, stats, aprs_packet, stats_only,
                     fate, unacked, faults>>
  BY DEF PollPublish, linkOnly, proc, IngestInv, OnePlace
<1>2. Typed'  BY <1>1 DEF IngestInv, Typed
<1>3. Waiting' = Waiting  BY <1>1 DEF Waiting
<1>4. OnePlace'  BY <1>1, <1>3 DEF IngestInv, OnePlace
<1>5. QED BY <1>1, <1>2, <1>4, MoveStep

LEMMA SendInv == ASSUME IngestInv, Send PROVE IngestInv'
<1>1. PICK m \in sending : channel' = Append(channel, m)  BY DEF Send
<1>2. /\ sending = {m} /\ sending' = {}
      /\ UNCHANGED <<inbound, pc, batch, reply, new_rows, stats, aprs_packet, stats_only,
                     fate, unacked, faults>>
  BY DEF Send, proc, IngestInv, OnePlace
<1>3. m \in Packets /\ m \notin Range(channel) /\ m \notin inbound
  BY <1>2 DEF IngestInv, Typed, OnePlace
<1>4. /\ channel' \in Seq(Packets) /\ IsInjective(channel')
      /\ Range(channel') = Range(channel) \cup {m}
  BY <1>1, <1>3, AppendFacts DEF IngestInv, Typed, OnePlace
<1>5. Typed'  BY <1>2, <1>4 DEF IngestInv, Typed
<1>6. Waiting' = Waiting  BY <1>2, <1>4 DEF Waiting
<1>7. OnePlace'  BY <1>2, <1>3, <1>4, <1>6 DEF IngestInv, OnePlace
<1>8. QED BY <1>2, <1>5, <1>7, MoveStep

-----------------------------------------------------------------------------
(* A turn of the processor: packets go from the channel into the batch, or  *)
(* end, and what ends is neither here nor there. *)
LEMMA TurnStep ==
    ASSUME IngestInv, pc = "recv", pc' \in {"recv", "insert"}, stats_only => pc' # "insert",
           channel' \in Seq(Packets), IsInjective(channel'),
           batch' \in Seq(Packets), IsInjective(batch'),
           Range(channel') \subseteq Range(channel),
           Range(batch') \subseteq Range(batch) \cup (Range(channel) \ Range(channel')),
           fate' \in [Packets -> Fates],
           \A m \in Packets :
               IF m \in (Range(channel) \cup Range(batch)) \ (Range(channel') \cup Range(batch'))
               THEN fate'[m] # "live" ELSE fate'[m] = fate[m],
           stats' \in [inserted : Int, duplicate : Int],
           UNCHANGED <<inbound, sending, mqtt, reply, new_rows, stats_only, aprs_packet,
                       unacked, faults>>,
           CountInv'
    PROVE  IngestInv'
<1>1. reply = "none"  BY DEF IngestInv, InsertInv, Typed
<1>2. Typed'  BY DEF IngestInv, Typed
<1>3. Waiting' \subseteq Waiting /\ Waiting' \cap Range(batch') = {}
  BY DEF Waiting, IngestInv, OnePlace
<1>4. (Range(batch) \cup Range(channel)) \cap aprs_packet = {}
  BY <1>1 DEF IngestInv, InsertInv, OnePlace, Waiting
<1>5. \A m \in Packets :
          fate'[m] = "live" <=> m \in Waiting' \cup Range(batch') \cup aprs_packet
  <2> SUFFICES ASSUME NEW m \in Packets
               PROVE  fate'[m] = "live" <=> m \in Waiting' \cup Range(batch') \cup aprs_packet
    OBVIOUS
  <2>1. fate[m] = "live" <=> m \in Waiting \cup Range(batch) \cup aprs_packet
    BY DEF IngestInv, OnePlace
  <2>2. CASE m \in (Range(channel) \cup Range(batch)) \ (Range(channel') \cup Range(batch'))
    <3>1. m \notin inbound \cup sending \cup aprs_packet
      BY <2>2, <1>4 DEF IngestInv, OnePlace, Waiting
    <3>2. QED BY <2>2, <3>1 DEF Waiting
  <2>3. CASE m \notin (Range(channel) \cup Range(batch)) \ (Range(channel') \cup Range(batch'))
    <3>1. m \in Waiting' \cup Range(batch') <=> m \in Waiting \cup Range(batch)
      BY <2>3 DEF Waiting
    <3>2. QED BY <2>1, <2>3, <3>1
  <2>4. QED BY <2>2, <2>3
<1>6. OnePlace'
  <2>1. Waiting' \cap (Range(batch') \cup aprs_packet') = {}
    BY <1>3 DEF IngestInv, OnePlace
  <2>2. (inbound' \cup sending') \cap Range(channel') = {}  BY DEF IngestInv, OnePlace
  <2>3. QED BY <1>5, <2>1, <2>2 DEF IngestInv, OnePlace
<1>7. UniqueKeys'  BY DEF IngestInv, UniqueKeys
<1>8. InsertInv'  BY <1>1, <1>4 DEF IngestInv, InsertInv
<1>9. QED BY <1>2, <1>6, <1>7, <1>8 DEF IngestInv

(* What a flush in stats-only mode counts is what it throws away. *)
LEMMA DiscardCount ==
    ASSUME IngestInv, stats_only, NEW p \in Seq(Packets), IsInjective(p),
           \A m \in Range(p) : fate[m] = "live",
           stats' = [stats EXCEPT !.inserted = @ + Len(p)],
           \A m \in Packets :
               /\ fate'[m] = "discarded" <=> m \in Range(p) \/ fate[m] = "discarded"
               /\ fate'[m] = "duplicate" <=> fate[m] = "duplicate",
           UNCHANGED <<aprs_packet, stats_only>>
    PROVE  CountInv'
<1>1. Range(p) \subseteq Packets /\ IsFiniteSet(Range(p)) /\ Cardinality(Range(p)) = Len(p)
  BY RangeFacts, RangeSize
<1>2. /\ Fated("discarded")' = Fated("discarded") \cup Range(p)
      /\ Fated("duplicate")' = Fated("duplicate")
  BY <1>1 DEF Fated
<1>3. Fated("discarded") \cap Range(p) = {}  BY DEF Fated
<1>4. IsFiniteSet(Fated("discarded")) /\ IsFiniteSet(Fated("discarded") \cap Range(p))
  BY <1>3, FS_EmptySet DEF IngestInv, CountInv
<1>5. /\ IsFiniteSet(Fated("discarded")')
      /\ Cardinality(Fated("discarded")') = Cardinality(Fated("discarded")) + Len(p)
  <2>1. /\ IsFiniteSet(Fated("discarded") \cup Range(p))
        /\ Cardinality(Fated("discarded") \cup Range(p)) =
              Cardinality(Fated("discarded")) + Cardinality(Range(p))
                - Cardinality(Fated("discarded") \cap Range(p))
    BY <1>1, <1>4, FS_Union
  <2>2. Cardinality(Fated("discarded") \cap Range(p)) = 0  BY <1>3, FS_EmptySet
  <2>3. Cardinality(Fated("discarded")) \in Nat  BY <1>4, FS_CardinalityType
  <2>4. Len(p) \in Nat  OBVIOUS
  <2>5. Cardinality(Fated("discarded") \cup Range(p)) = Cardinality(Fated("discarded")) + Len(p)
    BY <1>1, <2>1, <2>2, <2>3, <2>4
  <2>6. QED BY <1>2, <2>1, <2>5
<1>6. stats = [inserted |-> Cardinality(Fated("discarded")), duplicate |-> 0]
  BY DEF IngestInv, CountInv, StatsExact
<1>7. stats' = [inserted |-> Cardinality(Fated("discarded")'), duplicate |-> 0]
  BY <1>5, <1>6
<1>8. QED BY <1>2, <1>5, <1>7 DEF IngestInv, CountInv, StatsExact

(* A turn that neither flushes nor ends anything but garbled packets. *)
LEMMA KeepCount ==
    ASSUME IngestInv,
           \A m \in Packets :
               /\ fate'[m] = "discarded" <=> fate[m] = "discarded"
               /\ fate'[m] = "duplicate" <=> fate[m] = "duplicate",
           UNCHANGED <<stats, aprs_packet, unacked, new_rows, stats_only, faults>>
    PROVE  CountInv'
<1>1. Fated("discarded")' = Fated("discarded") /\ Fated("duplicate")' = Fated("duplicate")
  BY DEF Fated
<1>2. QED BY <1>1 DEF IngestInv, CountInv, StatsExact

(* The two ways a turn ends. *)
LEMMA TurnEnds ==
    ASSUME Typed, NEW p \in Seq(Packets), EndTurn(p)
    PROVE  \/ /\ batch' = p /\ UNCHANGED stats
              /\ pc' \in {"recv", "insert"} /\ (stats_only => pc' # "insert")
           \/ /\ p # <<>> /\ stats_only /\ batch' = <<>> /\ pc' = "recv"
              /\ stats' = [stats EXCEPT !.inserted = @ + Len(p)]
              /\ stats' \in [inserted : Int, duplicate : Int]
<1>1. Len(p) \in Int  OBVIOUS
<1>2. [stats EXCEPT !.inserted = @ + Len(p)] \in [inserted : Int, duplicate : Int]
  BY <1>1 DEF Typed
<1>3. QED BY <1>2 DEF EndTurn, Typed

(* The packet at the head of the channel is nowhere else. *)
LEMMA HeadFacts ==
    ASSUME IngestInv, channel # <<>>
    PROVE  /\ Head(channel) \in Packets /\ Tail(channel) \in Seq(Packets)
           /\ IsInjective(Tail(channel)) /\ Head(channel) \notin Range(Tail(channel))
           /\ Range(channel) = {Head(channel)} \cup Range(Tail(channel))
           /\ Head(channel) \notin inbound \cup sending \cup Range(batch) \cup aprs_packet
           /\ Range(batch) \cap Range(channel) = {}
           /\ fate[Head(channel)] = "live" /\ \A m \in Range(batch) : fate[m] = "live"
<1>1. /\ Head(channel) \in Packets /\ Tail(channel) \in Seq(Packets)
      /\ IsInjective(Tail(channel)) /\ Head(channel) \notin Range(Tail(channel))
      /\ Range(channel) = {Head(channel)} \cup Range(Tail(channel))
  BY TailFacts DEF IngestInv, Typed, OnePlace
<1>2. Head(channel) \in Range(channel)  BY <1>1
<1>3. Range(batch) \subseteq Packets  BY RangeFacts DEF IngestInv, Typed
<1>4. QED BY <1>1, <1>2, <1>3 DEF IngestInv, OnePlace, Waiting

LEMMA ReceiveInv == ASSUME IngestInv, Receive PROVE IngestInv'
<1> DEFINE h == Head(channel)
           p == Append(batch, h)
<1>1. /\ pc = "recv" /\ channel # <<>> /\ channel' = Tail(channel) /\ EndTurn(p) /\ Discards(p)
      /\ UNCHANGED <<inbound, sending, mqtt, reply, new_rows, stats_only, aprs_packet,
                     unacked, faults>>
  BY DEF Receive, procOnly, link
<1>2. /\ h \in Packets /\ channel' \in Seq(Packets) /\ IsInjective(channel')
      /\ Range(channel) = {h} \cup Range(channel') /\ h \notin Range(channel')
  BY <1>1, HeadFacts
<1>3. /\ h \notin Range(batch) /\ Range(batch) \cap Range(channel) = {} /\ fate[h] = "live"
      /\ \A m \in Range(batch) : fate[m] = "live"
  BY <1>1, HeadFacts
<1>4. /\ p \in Seq(Packets) /\ IsInjective(p) /\ Range(p) = Range(batch) \cup {h} /\ p # <<>>
  <2>1. /\ p \in Seq(Packets) /\ IsInjective(p) /\ Range(p) = Range(batch) \cup {h}
    BY <1>2, <1>3, AppendFacts DEF IngestInv, Typed, OnePlace
  <2>2. Range(<<>>) = {}  BY DEF Range
  <2>3. QED BY <2>1, <2>2
<1> HIDE DEF h, p
<1>5. Typed /\ fate \in [Packets -> Fates] /\ stats \in [inserted : Int, duplicate : Int]
  BY DEF IngestInv, Typed
<1>6. Range(<<>>) = {} /\ IsInjective(<<>>) /\ <<>> \in Seq(Packets)
  BY DEF Range, IsInjective
<1>7. CASE /\ batch' = p /\ UNCHANGED stats
           /\ pc' \in {"recv", "insert"} /\ (stats_only => pc' # "insert")
  <2>1. UNCHANGED fate  BY <1>1, <1>4, <1>7 DEF Discards
  <2>2. CountInv'  BY <1>1, <1>7, <2>1, KeepCount
  <2>3. QED BY <1>1, <1>2, <1>3, <1>4, <1>5, <1>7, <2>1, <2>2, TurnStep
<1>8. CASE /\ p # <<>> /\ stats_only /\ batch' = <<>> /\ pc' = "recv"
           /\ stats' = [stats EXCEPT !.inserted = @ + Len(p)]
           /\ stats' \in [inserted : Int, duplicate : Int]
  <2>1. fate' = [m \in Packets |-> IF m \in Range(p) THEN "discarded" ELSE fate[m]]
    BY <1>1, <1>8 DEF Discards, Ends
  <2>2. CountInv'
    BY <1>1, <1>3, <1>4, <1>8, <2>1, DiscardCount
  <2>3. fate' \in [Packets -> Fates]  BY <1>5, <2>1 DEF Fates
  <2>4. Range(batch') = {} /\ \A m \in Packets :
            IF m \in (Range(channel) \cup Range(batch)) \ (Range(channel') \cup Range(batch'))
            THEN fate'[m] # "live" ELSE fate'[m] = fate[m]
    BY <1>2, <1>3, <1>4, <1>6, <1>8, <2>1
  <2>5. QED BY <1>1, <1>2, <1>4, <1>5, <1>6, <1>8, <2>2, <2>3, <2>4, TurnStep
<1>9. QED BY <1>1, <1>4, <1>5, <1>7, <1>8, TurnEnds

LEMMA ReceiveGarbledInv == ASSUME IngestInv, ReceiveGarbled PROVE IngestInv'
<1> DEFINE h == Head(channel)
<1>1. /\ pc = "recv" /\ channel # <<>> /\ channel' = Tail(channel) /\ EndTurn(batch)
      /\ UNCHANGED <<inbound, sending, mqtt, reply, new_rows, stats_only, aprs_packet,
                     unacked, faults>>
      /\ fate' = [m \in Packets |->
            IF m = h THEN "rejected"
            ELSE IF batch' = <<>> /\ m \in Range(batch) THEN "discarded" ELSE fate[m]]
  BY DEF ReceiveGarbled, procOnly, link
<1>2. /\ h \in Packets /\ channel' \in Seq(Packets) /\ IsInjective(channel')
      /\ Range(channel) = {h} \cup Range(channel') /\ h \notin Range(channel')
  BY <1>1, HeadFacts
<1>3. /\ h \notin Range(batch) /\ Range(batch) \cap Range(channel) = {} /\ fate[h] = "live"
      /\ \A m \in Range(batch) : fate[m] = "live"
  BY <1>1, HeadFacts
<1> HIDE DEF h
<1>4. Typed /\ fate \in [Packets -> Fates] /\ stats \in [inserted : Int, duplicate : Int]
      /\ batch \in Seq(Packets) /\ IsInjective(batch)
  BY DEF IngestInv, Typed, OnePlace
<1>5. Range(<<>>) = {} /\ IsInjective(<<>>) /\ <<>> \in Seq(Packets)
  BY DEF Range, IsInjective
<1>6. fate' \in [Packets -> Fates]  BY <1>1, <1>4 DEF Fates
<1>7. CASE /\ batch' = batch /\ UNCHANGED stats
           /\ pc' \in {"recv", "insert"} /\ (stats_only => pc' # "insert")
  <2>1. \A m \in Packets : fate'[m] = IF m = h THEN "rejected" ELSE fate[m]
    BY <1>1, <1>5, <1>7
  <2>2. CountInv'  BY <1>1, <1>3, <1>7, <2>1, KeepCount
  <2>3. QED BY <1>1, <1>2, <1>3, <1>4, <1>6, <1>7, <2>1, <2>2, TurnStep
<1>8. CASE /\ batch # <<>> /\ stats_only /\ batch' = <<>> /\ pc' = "recv"
           /\ stats' = [stats EXCEPT !.inserted = @ + Len(batch)]
           /\ stats' \in [inserted : Int, duplicate : Int]
  <2>1. \A m \in Packets :
            fate'[m] = IF m = h THEN "rejected"
                       ELSE IF m \in Range(batch) THEN "discarded" ELSE fate[m]
    BY <1>1, <1>8
  <2>2. CountInv'
    BY <1>1, <1>3, <1>4, <1>8, <2>1, DiscardCount
  <2>3. Range(batch') = {} /\ \A m \in Packets :
            IF m \in (Range(channel) \cup Range(batch)) \ (Range(channel') \cup Range(batch'))
            THEN fate'[m] # "live" ELSE fate'[m] = fate[m]
    BY <1>2, <1>3, <1>5, <1>8, <2>1
  <2>4. QED BY <1>1, <1>2, <1>4, <1>5, <1>6, <1>8, <2>2, <2>3, TurnStep
<1>9. QED BY <1>1, <1>4, <1>7, <1>8, TurnEnds

LEMMA ReceiveTimeoutInv == ASSUME IngestInv, ReceiveTimeout PROVE IngestInv'
<1>1. /\ pc = "recv" /\ batch # <<>> /\ EndTurn(batch) /\ Discards(batch)
      /\ UNCHANGED <<inbound, sending, channel, mqtt, reply, new_rows, stats_only,
                     aprs_packet, unacked, faults>>
  BY DEF ReceiveTimeout, procOnly, link
<1>2. /\ Typed /\ fate \in [Packets -> Fates] /\ stats \in [inserted : Int, duplicate : Int]
      /\ batch \in Seq(Packets) /\ IsInjective(batch)
      /\ channel \in Seq(Packets) /\ IsInjective(channel)
  BY DEF IngestInv, Typed, OnePlace
<1>3. \A m \in Range(batch) : fate[m] = "live" /\ m \notin Range(channel)
  <2>1. Range(batch) \subseteq Packets  BY RangeFacts DEF IngestInv, Typed
  <2>2. QED BY <2>1 DEF IngestInv, OnePlace, Waiting
<1>4. Range(<<>>) = {} /\ IsInjective(<<>>) /\ <<>> \in Seq(Packets)
  BY DEF Range, IsInjective
<1>5. CASE /\ batch' = batch /\ UNCHANGED stats
           /\ pc' \in {"recv", "insert"} /\ (stats_only => pc' # "insert")
  <2>1. UNCHANGED fate  BY <1>1, <1>5 DEF Discards
  <2>2. CountInv'  BY <1>1, <1>5, <2>1, KeepCount
  <2>3. QED BY <1>1, <1>2, <1>5, <2>1, <2>2, TurnStep
<1>6. CASE /\ batch # <<>> /\ stats_only /\ batch' = <<>> /\ pc' = "recv"
           /\ stats' = [stats EXCEPT !.inserted = @ + Len(batch)]
           /\ stats' \in [inserted : Int, duplicate : Int]
  <2>1. fate' = [m \in Packets |-> IF m \in Range(batch) THEN "discarded" ELSE fate[m]]
    BY <1>1, <1>6 DEF Discards, Ends
  <2>2. CountInv'  BY <1>1, <1>2, <1>3, <1>6, <2>1, DiscardCount
  <2>3. fate' \in [Packets -> Fates]  BY <1>2, <2>1 DEF Fates
  <2>4. QED BY <1>1, <1>2, <1>3, <1>4, <1>6, <2>1, <2>2, <2>3, TurnStep
<1>7. QED BY <1>1, <1>2, <1>5, <1>6, TurnEnds

-----------------------------------------------------------------------------
(* The INSERT writes its rows, and answers or not. *)
LEMMA InsertRows ==
    ASSUME IngestInv, reply = "none", pc = "insert"
    PROVE  /\ new_rows = {} /\ NewRows \subseteq Range(batch) /\ NewRows \cap aprs_packet = {}
           /\ Range(batch) \subseteq Packets
           /\ IsFiniteSet(NewRows) /\ IsFiniteSet(aprs_packet \cup NewRows)
           /\ Cardinality(aprs_packet \cup NewRows) = Cardinality(aprs_packet) + Cardinality(NewRows)
           /\ Cardinality(unacked \cup NewRows) = Cardinality(unacked) + Cardinality(NewRows)
           /\ \A m, n \in aprs_packet \cup NewRows : Key[m] = Key[n] => m = n
           /\ \A m \in Range(batch) : Key[m] \in {Key[n] : n \in aprs_packet \cup NewRows}
<1>1. /\ new_rows = {} /\ unacked \subseteq aprs_packet /\ IsFiniteSet(aprs_packet)
      /\ Range(batch) \cap aprs_packet = {}
  BY DEF IngestInv, InsertInv, Typed, CountInv
<1>2. /\ NewRows \subseteq Range(batch) /\ \A m \in NewRows : Key[m] \notin Stored
      /\ \A m, n \in NewRows : Key[m] = Key[n] => m = n
      /\ \A m \in Range(batch) : \E n \in aprs_packet \cup NewRows : Key[n] = Key[m]
  BY NewRowsFacts DEF IngestInv
<1>3. Range(batch) \subseteq Packets /\ IsFiniteSet(Range(batch))
  BY RangeFacts DEF IngestInv, Typed
<1>4. IsFiniteSet(NewRows) /\ IsFiniteSet(unacked)  BY <1>1, <1>2, <1>3, FS_Subset
<1>5. NewRows \cap aprs_packet = {} /\ aprs_packet \cap NewRows = {} /\ unacked \cap NewRows = {}
  BY <1>1, <1>2
<1>6. ASSUME NEW S, IsFiniteSet(S), S \cap NewRows = {}
      PROVE  /\ IsFiniteSet(S \cup NewRows)
             /\ Cardinality(S \cup NewRows) = Cardinality(S) + Cardinality(NewRows)
  <2>1. /\ IsFiniteSet(S \cup NewRows)
        /\ Cardinality(S \cup NewRows) =
              Cardinality(S) + Cardinality(NewRows) - Cardinality(S \cap NewRows)
    BY <1>4, <1>6, FS_Union
  <2>2. Cardinality(S \cap NewRows) = 0  BY <1>6, FS_EmptySet
  <2>3. Cardinality(S) \in Nat /\ Cardinality(NewRows) \in Nat
    BY <1>4, <1>6, FS_CardinalityType
  <2>4. QED BY <2>1, <2>2, <2>3
<1>7. \A m, n \in aprs_packet \cup NewRows : Key[m] = Key[n] => m = n
  BY <1>2 DEF IngestInv, UniqueKeys, Stored
<1>8. QED BY <1>1, <1>2, <1>3, <1>4, <1>5, <1>6, <1>7

LEMMA InsertExecutesInv == ASSUME IngestInv, InsertExecutes PROVE IngestInv'
<1>1. /\ pc = "insert" /\ reply = "none" /\ reply' = "ok"
      /\ new_rows' = NewRows /\ aprs_packet' = aprs_packet \cup NewRows
      /\ UNCHANGED <<inbound, mqtt, sending, channel, pc, batch, stats, stats_only, fate,
                     unacked, faults>>
  BY DEF InsertExecutes, procOnly, link
<1>2. /\ new_rows = {} /\ NewRows \subseteq Range(batch) /\ NewRows \cap aprs_packet = {}
      /\ Range(batch) \subseteq Packets
      /\ IsFiniteSet(NewRows) /\ IsFiniteSet(aprs_packet \cup NewRows)
      /\ Cardinality(aprs_packet \cup NewRows) = Cardinality(aprs_packet) + Cardinality(NewRows)
      /\ Cardinality(unacked \cup NewRows) = Cardinality(unacked) + Cardinality(NewRows)
      /\ \A m, n \in aprs_packet \cup NewRows : Key[m] = Key[n] => m = n
      /\ \A m \in Range(batch) : Key[m] \in {Key[n] : n \in aprs_packet \cup NewRows}
  BY <1>1, InsertRows
<1>3. Typed'  BY <1>1, <1>2 DEF IngestInv, Typed
<1>4. OnePlace'  BY <1>1, <1>2 DEF IngestInv, OnePlace, Waiting
<1>5. UniqueKeys'  BY <1>1, <1>2 DEF UniqueKeys
<1>6. InsertInv'
  <2>1. new_rows' = Range(batch) \cap aprs_packet' /\ new_rows' \cap unacked = {}
    BY <1>1, <1>2 DEF IngestInv, InsertInv, Typed
  <2>2. \A m \in Range(batch) : Key[m] \in Stored'  BY <1>1, <1>2 DEF Stored
  <2>3. QED BY <1>1, <2>1, <2>2 DEF IngestInv, InsertInv
<1>7. CountInv'
  <2>1. Fated("discarded")' = Fated("discarded") /\ Fated("duplicate")' = Fated("duplicate")
    BY <1>1 DEF Fated
  <2>2. ~ stats_only /\ ~ stats_only'  BY <1>1 DEF IngestInv, InsertInv
  <2>3. /\ Cardinality(aprs_packet) \in Nat /\ Cardinality(NewRows) \in Nat
        /\ Cardinality(unacked) \in Nat
    <3>1. IsFiniteSet(unacked)  BY FS_Subset DEF IngestInv, CountInv, Typed
    <3>2. QED BY <1>2, <3>1, FS_CardinalityType DEF IngestInv, CountInv
  <2>4. unacked \cup new_rows = unacked /\ (unacked \cup new_rows)' = unacked \cup NewRows
    BY <1>1, <1>2
  <2>5. stats.inserted = Cardinality(aprs_packet) - Cardinality(unacked)
    BY <2>2, <2>4 DEF IngestInv, CountInv, StatsExact
  <2>6. stats'.inserted = Cardinality(aprs_packet') - Cardinality((unacked \cup new_rows)')
    <3>1. Cardinality(aprs_packet') = Cardinality(aprs_packet) + Cardinality(NewRows)
      BY <1>1, <1>2
    <3>2. Cardinality((unacked \cup new_rows)') = Cardinality(unacked) + Cardinality(NewRows)
      BY <1>2, <2>4
    <3>3. QED BY <1>1, <2>3, <2>5, <3>1, <3>2
  <2>7. QED BY <1>1, <1>2, <2>1, <2>2, <2>6 DEF IngestInv, CountInv, StatsExact
<1>8. QED BY <1>3, <1>4, <1>5, <1>6, <1>7 DEF IngestInv

LEMMA InsertFailsInv == ASSUME IngestInv, InsertFails PROVE IngestInv'
<1>1. /\ pc = "insert" /\ reply = "none" /\ reply' = "error" /\ faults' = faults + 1
      /\ \/ UNCHANGED <<aprs_packet, unacked>>
         \/ aprs_packet' = aprs_packet \cup NewRows /\ unacked' = unacked \cup NewRows
      /\ UNCHANGED <<inbound, mqtt, sending, channel, pc, batch, new_rows, stats, stats_only, fate>>
  BY DEF InsertFails, procOnly, link, Fault
<1>2. /\ new_rows = {} /\ NewRows \subseteq Range(batch) /\ NewRows \cap aprs_packet = {}
      /\ Range(batch) \subseteq Packets
      /\ IsFiniteSet(NewRows) /\ IsFiniteSet(aprs_packet \cup NewRows)
      /\ Cardinality(aprs_packet \cup NewRows) = Cardinality(aprs_packet) + Cardinality(NewRows)
      /\ Cardinality(unacked \cup NewRows) = Cardinality(unacked) + Cardinality(NewRows)
      /\ \A m, n \in aprs_packet \cup NewRows : Key[m] = Key[n] => m = n
      /\ \A m \in Range(batch) : Key[m] \in {Key[n] : n \in aprs_packet \cup NewRows}
  BY <1>1, InsertRows
<1>3. Typed'  BY <1>1, <1>2 DEF IngestInv, Typed
<1>4. OnePlace'  BY <1>1, <1>2 DEF IngestInv, OnePlace, Waiting
<1>5. UniqueKeys'  BY <1>1, <1>2 DEF IngestInv, UniqueKeys
<1>6. InsertInv'  BY <1>1, <1>2 DEF IngestInv, InsertInv, Typed
<1>7. CountInv'
  <2>1. Fated("discarded")' = Fated("discarded") /\ Fated("duplicate")' = Fated("duplicate")
    BY <1>1 DEF Fated
  <2>2. ~ stats_only /\ ~ stats_only' /\ faults' # 0
    BY <1>1 DEF IngestInv, InsertInv, Typed
  <2>3. /\ Cardinality(aprs_packet) \in Nat /\ Cardinality(NewRows) \in Nat
        /\ Cardinality(unacked) \in Nat
    <3>1. IsFiniteSet(unacked)  BY FS_Subset DEF IngestInv, CountInv, Typed
    <3>2. QED BY <1>2, <3>1, FS_CardinalityType DEF IngestInv, CountInv
  <2>4. unacked \cup new_rows = unacked /\ (unacked \cup new_rows)' = unacked'
    BY <1>1, <1>2
  <2>5. stats.inserted = Cardinality(aprs_packet) - Cardinality(unacked)
    BY <2>2, <2>4 DEF IngestInv, CountInv, StatsExact
  <2>6. /\ IsFiniteSet(aprs_packet')
        /\ stats'.inserted = Cardinality(aprs_packet') - Cardinality((unacked \cup new_rows)')
    <3>1. CASE UNCHANGED <<aprs_packet, unacked>>
      BY <1>1, <2>4, <2>5, <3>1 DEF IngestInv, CountInv
    <3>2. CASE aprs_packet' = aprs_packet \cup NewRows /\ unacked' = unacked \cup NewRows
      <4>1. Cardinality(aprs_packet') = Cardinality(aprs_packet) + Cardinality(NewRows)
        BY <1>2, <3>2
      <4>2. Cardinality((unacked \cup new_rows)') = Cardinality(unacked) + Cardinality(NewRows)
        BY <1>2, <2>4, <3>2
      <4>3. QED BY <1>1, <1>2, <2>3, <2>5, <3>2, <4>1, <4>2
    <3>3. QED BY <1>1, <3>1, <3>2
  <2>7. QED BY <1>1, <2>1, <2>2, <2>6 DEF IngestInv, CountInv, StatsExact
<1>8. QED BY <1>3, <1>4, <1>5, <1>6, <1>7 DEF IngestInv

(* The answer is there: what of the batch is in the table stays stored,     *)
(* the rest is a duplicate or, after an error, perhaps lost. *)
LEMMA FlushCount ==
    ASSUME IngestInv, FlushBatch
    PROVE  CountInv'
<1> DEFINE rest == Range(batch) \ aprs_packet
           dups == {m \in rest : Key[m] \in Stored}
<1>1. /\ pc = "insert" /\ reply \in {"ok", "error"} /\ ~ stats_only /\ new_rows' = {}
      /\ Account
      /\ fate' = [m \in Packets |-> IF m \notin rest THEN fate[m]
                                    ELSE IF Key[m] \in Stored THEN "duplicate" ELSE "lost"]
      /\ UNCHANGED <<stats_only, aprs_packet, unacked, faults>>
  BY DEF FlushBatch, procOnly, IngestInv, InsertInv, Typed
<1>2. /\ batch \in Seq(Packets) /\ IsInjective(batch) /\ Range(batch) \subseteq Packets
      /\ IsFiniteSet(Range(batch)) /\ Cardinality(Range(batch)) = Len(batch)
  BY RangeFacts, RangeSize DEF IngestInv, Typed, OnePlace
<1>3. \A m \in Range(batch) : fate[m] = "live"  BY <1>2 DEF IngestInv, OnePlace
<1>4. /\ Fated("duplicate")' = Fated("duplicate") \cup dups
      /\ Fated("discarded")' = Fated("discarded")
      /\ Fated("duplicate") \cap dups = {}
  BY <1>1, <1>2, <1>3 DEF Fated
<1>5. IsFiniteSet(dups) /\ IsFiniteSet(Fated("duplicate")) /\ IsFiniteSet(Fated("duplicate") \cup dups)
  <2>1. IsFiniteSet(dups)  BY <1>2, FS_Subset
  <2>2. QED BY <2>1, FS_Union DEF IngestInv, CountInv
<1>6. Cardinality(Fated("duplicate") \cup dups) = Cardinality(Fated("duplicate")) + Cardinality(dups)
  <2> HIDE DEF dups
  <2>1. Cardinality(Fated("duplicate") \cup dups) =
            Cardinality(Fated("duplicate")) + Cardinality(dups)
              - Cardinality(Fated("duplicate") \cap dups)
    BY <1>5, FS_Union
  <2>2. Cardinality(Fated("duplicate") \cap dups) = 0  BY <1>4, FS_EmptySet
  <2>3. Cardinality(Fated("duplicate")) \in Nat /\ Cardinality(dups) \in Nat
    BY <1>5, FS_CardinalityType
  <2>4. QED BY <2>1, <2>2, <2>3
<1>7. /\ Cardinality(Fated("duplicate")) \in Nat /\ Cardinality(dups) \in Nat
      /\ Cardinality(aprs_packet) \in Nat
      /\ IsFiniteSet(unacked) /\ Cardinality(unacked) \in Nat
      /\ IsFiniteSet(new_rows) /\ Cardinality(new_rows) \in Nat
  <2>1. IsFiniteSet(aprs_packet) /\ new_rows \subseteq aprs_packet /\ unacked \subseteq aprs_packet
    BY DEF IngestInv, CountInv, Typed
  <2>2. IsFiniteSet(unacked) /\ IsFiniteSet(new_rows)  BY <2>1, FS_Subset
  <2>3. QED BY <1>5, <2>1, <2>2, FS_CardinalityType
<1> HIDE DEF dups, rest
<1>8. (unacked \cup new_rows)' = unacked  BY <1>1
<1>9. /\ stats.inserted = Cardinality(aprs_packet) - Cardinality(unacked \cup new_rows)
      /\ stats.duplicate <= Cardinality(Fated("duplicate"))
      /\ faults = 0 => stats.duplicate = Cardinality(Fated("duplicate"))
      /\ stats \in [inserted : Int, duplicate : Int]
  BY <1>1 DEF IngestInv, CountInv, StatsExact, Typed
<1>10. CASE reply = "ok"
  <2>1. /\ new_rows = Range(batch) \cap aprs_packet /\ new_rows \cap unacked = {}
        /\ dups = Range(batch) \ aprs_packet
    BY <1>10 DEF IngestInv, InsertInv, dups, rest
  <2>2. Cardinality(dups) = Len(batch) - Cardinality(new_rows)
    BY <1>2, <2>1, FS_Difference
  <2>3. Cardinality(unacked \cup new_rows) = Cardinality(unacked) + Cardinality(new_rows)
    <3>1. Cardinality(unacked \cup new_rows) =
            Cardinality(unacked) + Cardinality(new_rows) - Cardinality(unacked \cap new_rows)
      BY <1>7, FS_Union
    <3>2. Cardinality(unacked \cap new_rows) = 0
      <4>1. unacked \cap new_rows = {}  BY <2>1
      <4>2. QED BY <4>1, FS_EmptySet
    <3>3. QED BY <1>7, <3>1, <3>2
  <2>4. /\ stats'.inserted = stats.inserted + Cardinality(new_rows)
        /\ stats'.duplicate = stats.duplicate + Len(batch) - Cardinality(new_rows)
    BY <1>1, <1>9, <1>10 DEF Account
  <2>5. stats'.inserted = Cardinality(aprs_packet') - Cardinality((unacked \cup new_rows)')
    <3>1. Cardinality((unacked \cup new_rows)') = Cardinality(unacked)  BY <1>8
    <3>2. Cardinality(aprs_packet') = Cardinality(aprs_packet)  BY <1>1
    <3>3. QED BY <1>7, <1>9, <2>3, <2>4, <3>1, <3>2
  <2>6. /\ stats'.duplicate <= Cardinality(Fated("duplicate")')
        /\ faults' = 0 => stats'.duplicate = Cardinality(Fated("duplicate")')
    <3>1. Cardinality(Fated("duplicate")') = Cardinality(Fated("duplicate")) + Cardinality(dups)
      BY <1>4, <1>6
    <3>2. Len(batch) \in Nat  BY <1>2
    <3>3. QED BY <1>1, <1>7, <1>9, <2>2, <2>4, <3>1, <3>2
  <2>7. QED BY <1>1, <1>4, <1>5, <2>5, <2>6 DEF IngestInv, CountInv, StatsExact
<1>11. CASE reply = "error"
  <2>1. stats' = stats /\ new_rows = {} /\ faults' # 0
    BY <1>1, <1>11 DEF Account, IngestInv, InsertInv, Typed
  <2>2. stats'.inserted = Cardinality(aprs_packet') - Cardinality((unacked \cup new_rows)')
    <3>1. unacked \cup new_rows = unacked  BY <2>1
    <3>2. QED BY <1>1, <1>8, <1>9, <2>1, <3>1
  <2>3. stats'.duplicate <= Cardinality(Fated("duplicate")')
    <3>1. Cardinality(Fated("duplicate")') = Cardinality(Fated("duplicate")) + Cardinality(dups)
      BY <1>4, <1>6
    <3>2. QED BY <1>7, <1>9, <2>1, <3>1
  <2>4. QED BY <1>1, <1>4, <1>5, <2>1, <2>2, <2>3 DEF IngestInv, CountInv, StatsExact
<1>12. QED BY <1>1, <1>10, <1>11

LEMMA FlushBatchInv == ASSUME IngestInv, FlushBatch PROVE IngestInv'
<1>1. /\ pc = "insert" /\ reply # "none" /\ reply' = "none" /\ new_rows' = {} /\ batch' = <<>>
      /\ pc' \in {"done", "recv"} /\ Account
      /\ fate' = [m \in Packets |->
            IF m \notin Range(batch) \ aprs_packet THEN fate[m]
            ELSE IF Key[m] \in Stored THEN "duplicate" ELSE "lost"]
      /\ UNCHANGED <<inbound, mqtt, sending, channel, stats_only, aprs_packet, unacked, faults>>
  BY DEF FlushBatch, procOnly, link
<1>2. Range(<<>>) = {} /\ IsInjective(<<>>) /\ <<>> \in Seq(Packets)
  BY DEF Range, IsInjective
<1>3. stats' \in [inserted : Int, duplicate : Int]
  <2>1. Len(batch) \in Int /\ Cardinality(new_rows) \in Int
    <3>1. IsFiniteSet(new_rows)  BY FS_Subset DEF IngestInv, CountInv, Typed
    <3>2. QED BY <3>1, FS_CardinalityType DEF IngestInv, Typed
  <2>2. stats \in [inserted : Int, duplicate : Int]  BY DEF IngestInv, Typed
  <2>3. [stats EXCEPT !.inserted  = @ + Cardinality(new_rows),
                      !.duplicate = @ + Len(batch) - Cardinality(new_rows)]
            \in [inserted : Int, duplicate : Int]
    <3>1. /\ stats.inserted + Cardinality(new_rows) \in Int
          /\ stats.duplicate + Len(batch) - Cardinality(new_rows) \in Int
      BY <2>1, <2>2
    <3>2. ASSUME NEW i \in Int, NEW d \in Int
          PROVE  [stats EXCEPT !.inserted = i, !.duplicate = d] \in [inserted : Int, duplicate : Int]
      BY <2>2
    <3>3. QED BY <3>1, <3>2
  <2>4. QED BY <1>1, <2>2, <2>3 DEF Account
<1>4. Typed'  BY <1>1, <1>2, <1>3 DEF IngestInv, Typed, Fates
<1>5. Waiting' = Waiting /\ Waiting \cap Range(batch) = {}
  BY <1>1 DEF Waiting, IngestInv, OnePlace
<1>6. OnePlace'
  <2>1. \A m \in Packets : fate'[m] = "live" <=> m \in Waiting \cup aprs_packet
    BY <1>1, <1>5 DEF IngestInv, OnePlace
  <2>2. QED BY <1>1, <1>2, <1>5, <2>1 DEF IngestInv, OnePlace
<1>7. UniqueKeys'  BY <1>1 DEF IngestInv, UniqueKeys
<1>8. InsertInv'  BY <1>1, <1>2 DEF IngestInv, InsertInv
<1>9. QED BY <1>4, <1>6, <1>7, <1>8, FlushCount DEF IngestInv

LEMMA NextIngestInv == IngestInv /\ [Next]_vars => IngestInv'
<1> SUFFICES ASSUME IngestInv, [Next]_vars PROVE IngestInv'
  OBVIOUS
<1> DEFINE Quiet == \/ PollConnects \/ PollSubscribes \/ PollError \/ Slept \/ SendFails
                    \/ ReceiveClosed \/ TimePasses \/ Main \/ UNCHANGED vars
<1>1. CASE Quiet
  <2>1. faults \in Nat /\ pc \in {"recv", "insert", "done", "gone"}
        /\ (stats_only => pc # "insert") /\ (reply # "none" => pc \in {"insert", "gone"})
    BY DEF IngestInv, Typed, InsertInv
  <2>2. CASE PollConnects \/ PollSubscribes \/ PollError \/ Slept \/ SendFails
    BY <2>1, <2>2, QuietStep
       DEF PollConnects, PollSubscribes, PollError, Slept, SendFails, linkOnly, proc, Fault
  <2>3. CASE ReceiveClosed \/ TimePasses
    BY <2>1, <2>3, QuietStep DEF ReceiveClosed, TimePasses, procOnly, link
  <2>4. CASE Main
    BY <2>1, <2>4, QuietStep
       DEF Main, CtrlC, AbortMqtt, AbortProcessor, CancelMqtt, CancelProcessor, mainOnly
  <2>5. CASE UNCHANGED vars
    BY <2>1, <2>5, QuietStep DEF vars, link, proc
  <2>6. QED BY <1>1, <2>2, <2>3, <2>4, <2>5
<1>2. ASSUME NEW m \in Packets, PollPublish(m) PROVE IngestInv'  BY <1>2, PollPublishInv
<1>3. CASE Send             BY <1>3, SendInv
<1>4. CASE Receive          BY <1>4, ReceiveInv
<1>5. CASE ReceiveGarbled   BY <1>5, ReceiveGarbledInv
<1>6. CASE ReceiveTimeout   BY <1>6, ReceiveTimeoutInv
<1>7. CASE InsertExecutes   BY <1>7, InsertExecutesInv
<1>8. CASE InsertFails      BY <1>8, InsertFailsInv
<1>9. CASE FlushBatch       BY <1>9, FlushBatchInv
<1>10. QED BY <1>1, <1>2, <1>3, <1>4, <1>5, <1>6, <1>7, <1>8, <1>9 DEF Next, MqttTask, Processor

THEOREM IngestInvariant == Spec => []IngestInv
<1>1. QED BY InitIngestInv, NextIngestInv, PTL DEF Spec

(* packets_inserted and packets_duplicate tell what the table and the       *)
(* packets skipped make true, however the INSERTs answer and wherever the   *)
(* tasks are cancelled (processor.rs, flush_batch; stats.rs).               *)
THEOREM StatsAreExact == Spec => []StatsExact
<1>1. IngestInv => StatsExact  BY DEF IngestInv, CountInv
<1>2. QED BY <1>1, IngestInvariant, PTL

-----------------------------------------------------------------------------
(* The refinement of PacketLedger.  IngestInv says of every packet that it  *)
(* has one stage, so that Stage is what StageKnown says. *)
StageKnown ==
    \A m \in Packets :
        /\ m \in aprs_packet => Stage(m) = "stored"
        /\ fate[m] # "live" => Stage(m) = fate[m]
        /\ m \in inbound => Stage(m) = "inbound"
        /\ m \in sending \cup Range(channel) => Stage(m) = "queued"
        /\ m \in Range(batch) \ aprs_packet => Stage(m) = "batched"
        /\ Stage(m) \in Ledger!Stages
        /\ Stage(m) = "stored" => m \in aprs_packet

LEMMA StageIsKnown == IngestInv => StageKnown
<1> SUFFICES ASSUME IngestInv, NEW m \in Packets
             PROVE  /\ m \in aprs_packet => Stage(m) = "stored"
                    /\ fate[m] # "live" => Stage(m) = fate[m]
                    /\ m \in inbound => Stage(m) = "inbound"
                    /\ m \in sending \cup Range(channel) => Stage(m) = "queued"
                    /\ m \in Range(batch) \ aprs_packet => Stage(m) = "batched"
                    /\ Stage(m) \in Ledger!Stages
                    /\ Stage(m) = "stored" => m \in aprs_packet
  BY DEF StageKnown
<1>1. /\ fate[m] = "live" <=> m \in Waiting \cup Range(batch) \cup aprs_packet
      /\ Waiting \cap (Range(batch) \cup aprs_packet) = {}
      /\ inbound \cap (sending \cup Range(channel)) = {}
      /\ fate[m] \in Fates
  BY DEF IngestInv, OnePlace, Typed
<1>2. CASE m \in aprs_packet       BY <1>1, <1>2 DEF Stage, Waiting, Ledger!Stages
<1>3. CASE fate[m] # "live"         BY <1>1, <1>3 DEF Stage, Waiting, Fates, Ledger!Stages
<1>4. CASE m \in inbound           BY <1>1, <1>4 DEF Stage, Waiting, Ledger!Stages
<1>5. CASE m \in sending \cup Range(channel)  BY <1>1, <1>5 DEF Stage, Waiting, Ledger!Stages
<1>6. CASE m \in Range(batch) \ aprs_packet   BY <1>1, <1>6 DEF Stage, Waiting, Ledger!Stages
<1>7. QED BY <1>1, <1>2, <1>3, <1>4, <1>5, <1>6 DEF Waiting

LEMMA InitRefines == Init => Ledger!Init
<1> SUFFICES ASSUME Init PROVE [m \in Packets |-> Stage(m)] = [m \in Packets |-> "inbound"]
  BY DEF Ledger!Init
<1>1. ASSUME NEW m \in Packets PROVE Stage(m) = "inbound"
  BY InitIngestInv, StageIsKnown DEF StageKnown, Init
<1>2. QED BY <1>1

Known == IngestInv /\ StageKnown

(* The keys the ledger calls stored are those of the table. *)
LEMMA SameKeys == Known => Ledger!StoredKeys = Stored
<1> SUFFICES ASSUME Known PROVE Ledger!StoredKeys = Stored
  OBVIOUS
<1>1. {x \in Packets : Stage(x) = "stored"} = aprs_packet
  BY DEF Known, StageKnown, IngestInv, Typed
<1>2. {x \in Packets : [m \in Packets |-> Stage(m)][x] = "stored"} = aprs_packet
  BY <1>1
<1>3. QED BY <1>2 DEF Ledger!StoredKeys, Stored

LEMMA SettleStep ==
    ASSUME Known, Known',
           \A m \in Packets : Stage(m)' # Stage(m) =>
               /\ \/ /\ Stage(m) = "batched"
                     /\ Stage(m)' \in {"stored", "duplicate", "lost", "discarded"}
                  \/ Stage(m) = "queued" /\ Stage(m)' \in {"discarded", "rejected"}
               /\ Stage(m)' = "stored" => Key[m] \notin Stored
               /\ Stage(m)' = "duplicate" => Key[m] \in Stored'
    PROVE  Ledger!Settle
<1> DEFINE stage == [m \in Packets |-> Stage(m)]
<1>1. Ledger!StoredKeys = Stored /\ Ledger!StoredKeys' = Stored'
  <2>1. (Known => Ledger!StoredKeys = Stored)'  BY SameKeys, PTL
  <2>2. QED BY <2>1, SameKeys
<1>2. stage' \in [Packets -> Ledger!Stages]
  BY DEF Known, StageKnown, Ledger!Stages
<1>3. \A m, n \in Packets :
          (Stage(m)' = "stored" /\ Stage(n)' = "stored" /\ Key[m] = Key[n]) => m = n
  BY DEF Known, StageKnown, IngestInv, UniqueKeys
<1>4. \A m \in Packets : stage[m] = Stage(m) /\ stage'[m] = Stage(m)'
  OBVIOUS
<1> HIDE DEF stage
<1>5. QED BY <1>1, <1>2, <1>3, <1>4 DEF Ledger!Settle, stage

(* A step after which each packet is where it was. *)
LEMMA StutterStep ==
    ASSUME Known, Known',
           UNCHANGED <<inbound, sending \cup Range(channel), Range(batch), fate, aprs_packet>>
    PROVE  UNCHANGED [m \in Packets |-> Stage(m)]
<1>1. ASSUME NEW m \in Packets PROVE Stage(m)' = Stage(m)
  <2>1. /\ fate[m] = "live" <=> m \in Waiting \cup Range(batch) \cup aprs_packet
    BY DEF Known, IngestInv, OnePlace
  <2>2. QED BY <2>1 DEF Known, StageKnown, Waiting
<1>2. QED BY <1>1

(* A packet the broker delivers arrives in the ledger. *)
LEMMA PublishArrives ==
    ASSUME Known, Known', NEW m \in Packets, PollPublish(m)
    PROVE  Ledger!Arrive(m)
<1>1. /\ m \in inbound /\ sending' = {m} /\ sending = {}
      /\ inbound' = inbound \ {m} /\ UNCHANGED <<channel, batch, fate, aprs_packet>>
  BY DEF PollPublish, linkOnly, proc, Known, IngestInv, OnePlace
<1>2. Stage(m) = "inbound" /\ Stage(m)' = "queued"
  BY <1>1 DEF Known, StageKnown
<1>3. ASSUME NEW n \in Packets, n # m PROVE Stage(n)' = Stage(n)
  <2>1. fate[n] = "live" <=> n \in Waiting \cup Range(batch) \cup aprs_packet
    BY DEF Known, IngestInv, OnePlace
  <2>2. QED BY <2>1, <1>1, <1>3 DEF Known, StageKnown, Waiting
<1>4. [n \in Packets |-> Stage(n)]' =
          [[n \in Packets |-> Stage(n)] EXCEPT ![m] = "queued"]
  BY <1>2, <1>3
<1>5. QED BY <1>2, <1>4 DEF Ledger!Arrive

(* A packet taken off the channel is taken, or thrown away with the batch   *)
(* that stats-only mode counts. *)
LEMMA ReceiveRefines ==
    ASSUME Known, Known', Receive
    PROVE  Ledger!Next
<1>0. PICK h \in Packets : h = Head(channel)
  BY HeadFacts DEF Known, Receive
<1> DEFINE p == Append(batch, h)
<1>1. /\ channel # <<>> /\ channel' = Tail(channel) /\ EndTurn(p) /\ Discards(p)
      /\ UNCHANGED <<inbound, sending, aprs_packet>>
  BY <1>0 DEF Receive, procOnly
<1>2. IngestInv /\ Typed  BY DEF Known, IngestInv
<1>3. /\ h \in Packets /\ h \notin Range(channel') /\ Range(channel) = {h} \cup Range(channel')
      /\ h \notin inbound \cup sending \cup Range(batch) \cup aprs_packet
      /\ Range(batch) \cap Range(channel) = {}
      /\ fate[h] = "live" /\ \A m \in Range(batch) : fate[m] = "live"
  BY <1>0, <1>1, <1>2, HeadFacts
<1>4. p \in Seq(Packets) /\ Range(p) = Range(batch) \cup {h} /\ p # <<>>
  <2>1. p \in Seq(Packets) /\ Range(p) = Range(batch) \cup {h}
    BY <1>2, <1>3, AppendFacts DEF Typed
  <2>2. Range(<<>>) = {}  BY DEF Range
  <2>3. QED BY <2>1, <2>2
<1>5. reply = "none" /\ Range(batch) \cap aprs_packet = {}
  BY <1>2 DEF Receive, IngestInv, InsertInv, Typed
<1> HIDE DEF p
<1>6. Stage(h) = "queued" /\ \A m \in Packets \cap Range(batch) : Stage(m) = "batched"
  BY <1>3, <1>5 DEF Known, StageKnown
<1>7. ASSUME NEW m \in Packets, m \notin Range(p), fate'[m] = fate[m],
             Range(batch') \subseteq Range(p)
      PROVE  Stage(m)' = Stage(m)
  <2>1. fate[m] = "live" <=> m \in Waiting \cup Range(batch) \cup aprs_packet
    BY DEF Known, IngestInv, OnePlace
  <2>2. QED BY <2>1, <1>1, <1>3, <1>4, <1>7 DEF Known, StageKnown, Waiting
<1>8. CASE batch' = p
  <2>1. UNCHANGED fate  BY <1>1, <1>4, <1>8 DEF Discards
  <2>2. Stage(h)' = "batched" /\ \A m \in Packets \cap Range(batch) : Stage(m)' = "batched"
    <3>1. \A m \in Range(batch) \cup {h} : m \in Range(batch') \ aprs_packet'
      BY <1>1, <1>3, <1>4, <1>5, <1>8
    <3>2. QED BY <3>1, <1>3 DEF Known, StageKnown
  <2>3. \A m \in Packets : m # h => Stage(m)' = Stage(m)
    BY <1>4, <1>6, <1>7, <1>8, <2>1, <2>2
  <2>4. [n \in Packets |-> Stage(n)]' =
            [[n \in Packets |-> Stage(n)] EXCEPT ![h] = "batched"]
    <3>1. \A n \in Packets : Stage(n)' = IF n = h THEN "batched" ELSE Stage(n)
      BY <2>2, <2>3
    <3>2. QED BY <3>1
  <2>5. Ledger!Take(h)  BY <1>3, <1>6, <2>4 DEF Ledger!Take
  <2>6. QED BY <1>3, <2>5 DEF Ledger!Next
<1>9. CASE stats_only /\ batch' = <<>>
  <2>1. /\ fate' = [m \in Packets |-> IF m \in Range(p) THEN "discarded" ELSE fate[m]]
        /\ Range(batch') = {}
    <3>1. Range(<<>>) = {}  BY DEF Range
    <3>2. QED BY <1>1, <1>9, <3>1 DEF Discards, Ends
  <2>2. \A m \in Packets : m \in Range(p) => Stage(m)' = "discarded"
    BY <2>1 DEF Known, StageKnown
  <2>3. \A m \in Packets : m \notin Range(p) => Stage(m)' = Stage(m)
    BY <1>7, <2>1
  <2>4. Ledger!Settle  BY <1>4, <1>6, <2>2, <2>3, SettleStep
  <2>5. QED BY <2>4 DEF Ledger!Next
<1>10. QED BY <1>1, <1>2, <1>4, <1>8, <1>9, TurnEnds

LEMMA ReceiveGarbledRefines ==
    ASSUME Known, Known', ReceiveGarbled
    PROVE  Ledger!Settle
<1>0. PICK h \in Packets : h = Head(channel)
  BY HeadFacts DEF Known, ReceiveGarbled
<1>1. /\ channel # <<>> /\ channel' = Tail(channel) /\ EndTurn(batch)
      /\ UNCHANGED <<inbound, sending, aprs_packet>>
      /\ fate' = [m \in Packets |->
            IF m = h THEN "rejected"
            ELSE IF batch' = <<>> /\ m \in Range(batch) THEN "discarded" ELSE fate[m]]
  BY <1>0 DEF ReceiveGarbled, procOnly
<1>2. IngestInv /\ Typed  BY DEF Known, IngestInv
<1>3. /\ h \in Packets /\ h \notin Range(channel') /\ Range(channel) = {h} \cup Range(channel')
      /\ h \notin inbound \cup sending \cup Range(batch) \cup aprs_packet
      /\ Range(batch) \cap Range(channel) = {}
  BY <1>0, <1>1, <1>2, HeadFacts
<1>4. Range(batch) \cap aprs_packet = {}
  BY <1>2 DEF ReceiveGarbled, IngestInv, InsertInv, Typed
<1>5. Range(batch') \subseteq Range(batch) /\ (batch' # <<>> => batch' = batch)
  <2>1. Range(<<>>) = {} /\ batch \in Seq(Packets)  BY <1>2 DEF Range, Typed
  <2>2. QED BY <1>1, <1>2, <2>1, TurnEnds
<1>6. Stage(h) = "queued" /\ Stage(h)' = "rejected"
  <2>1. fate'[h] = "rejected"  BY <1>1, <1>3
  <2>2. QED BY <2>1, <1>3 DEF Known, StageKnown
<1>7. ASSUME NEW m \in Packets, m # h, Stage(m)' # Stage(m)
      PROVE  Stage(m) = "batched" /\ Stage(m)' = "discarded"
  <2>1. fate[m] = "live" <=> m \in Waiting \cup Range(batch) \cup aprs_packet
    BY DEF Known, IngestInv, OnePlace
  <2>2. CASE m \in Range(batch)
    <3>1. Stage(m) = "batched"  BY <2>2, <1>4 DEF Known, StageKnown
    <3>2. CASE batch' = <<>>
      <4>1. fate'[m] = "discarded"  BY <1>1, <1>7, <2>2, <3>2
      <4>2. QED BY <3>1, <4>1 DEF Known, StageKnown
    <3>3. CASE batch' # <<>>
      <4>1. Stage(m)' = "batched"  BY <1>1, <1>4, <1>5, <2>2, <3>3 DEF Known, StageKnown
      <4>2. QED BY <1>7, <3>1, <4>1
    <3>4. QED BY <3>2, <3>3
  <2>3. CASE m \notin Range(batch)
    <3>1. fate'[m] = fate[m]  BY <1>1, <1>7, <2>3
    <3>2. QED BY <1>1, <1>3, <1>5, <1>7, <2>1, <2>3, <3>1 DEF Known, StageKnown, Waiting
  <2>4. QED BY <2>2, <2>3
<1>8. \A m \in Packets : Stage(m)' # Stage(m) =>
          \/ Stage(m) = "batched" /\ Stage(m)' = "discarded"
          \/ Stage(m) = "queued" /\ Stage(m)' = "rejected"
  BY <1>6, <1>7
<1>9. QED BY <1>8, SettleStep

LEMMA ReceiveTimeoutRefines ==
    ASSUME Known, Known', ReceiveTimeout
    PROVE  Ledger!Settle \/ UNCHANGED [m \in Packets |-> Stage(m)]
<1>1. /\ batch # <<>> /\ EndTurn(batch) /\ Discards(batch)
      /\ UNCHANGED <<inbound, sending, channel, aprs_packet>>
  BY DEF ReceiveTimeout, procOnly
<1>2. IngestInv /\ Typed /\ batch \in Seq(Packets)  BY DEF Known, IngestInv, Typed
<1>3. Range(batch) \cap aprs_packet = {}
  BY <1>2 DEF ReceiveTimeout, IngestInv, InsertInv, Typed
<1>4. CASE batch' = batch
  <2>1. UNCHANGED fate  BY <1>1, <1>4 DEF Discards
  <2>2. QED BY <1>1, <1>4, <2>1, StutterStep
<1>5. CASE stats_only /\ batch' = <<>>
  <2>1. /\ fate' = [m \in Packets |-> IF m \in Range(batch) THEN "discarded" ELSE fate[m]]
        /\ Range(batch') = {}
    <3>1. Range(<<>>) = {}  BY DEF Range
    <3>2. QED BY <1>1, <1>5, <3>1 DEF Discards, Ends
  <2>2. \A m \in Packets : m \in Range(batch) =>
            Stage(m) = "batched" /\ Stage(m)' = "discarded"
    BY <1>3, <2>1 DEF Known, StageKnown
  <2>3. ASSUME NEW m \in Packets, m \notin Range(batch) PROVE Stage(m)' = Stage(m)
    <3>1. fate[m] = "live" <=> m \in Waiting \cup Range(batch) \cup aprs_packet
      BY DEF Known, IngestInv, OnePlace
    <3>2. fate'[m] = fate[m]  BY <2>1, <2>3
    <3>3. QED BY <1>1, <2>1, <2>3, <3>1, <3>2 DEF Known, StageKnown, Waiting
  <2>4. QED BY <2>2, <2>3, SettleStep
<1>6. QED BY <1>1, <1>2, <1>4, <1>5, TurnEnds

(* The rows an INSERT writes settle: their keys were free, and no two are   *)
(* the same. *)
LEMMA InsertRefines ==
    ASSUME Known, Known', InsertExecutes \/ InsertFails
    PROVE  Ledger!Settle \/ UNCHANGED [m \in Packets |-> Stage(m)]
<1>1. /\ reply = "none" /\ pc = "insert" /\ IngestInv
      /\ UNCHANGED <<inbound, sending, channel, batch, fate>>
      /\ UNCHANGED aprs_packet \/ aprs_packet' = aprs_packet \cup NewRows
  BY DEF InsertExecutes, InsertFails, procOnly, Known
<1>2. CASE UNCHANGED aprs_packet  BY <1>1, <1>2, StutterStep
<1>3. CASE aprs_packet' = aprs_packet \cup NewRows
  <2>1. /\ NewRows \subseteq Range(batch) /\ Range(batch) \subseteq Packets
        /\ NewRows \cap aprs_packet = {} /\ \A m \in NewRows : Key[m] \notin Stored
    BY <1>1, InsertRows, NewRowsFacts DEF IngestInv
  <2>2. \A m \in NewRows : Stage(m) = "batched" /\ Stage(m)' = "stored"
    BY <1>3, <2>1 DEF Known, StageKnown
  <2>3. ASSUME NEW m \in Packets, m \notin NewRows PROVE Stage(m)' = Stage(m)
    <3>1. fate[m] = "live" <=> m \in Waiting \cup Range(batch) \cup aprs_packet
      BY DEF Known, IngestInv, OnePlace
    <3>2. QED BY <1>1, <1>3, <2>3, <3>1 DEF Known, StageKnown, Waiting
  <2>4. \A m \in Packets : Stage(m)' # Stage(m) =>
            Stage(m) = "batched" /\ Stage(m)' = "stored" /\ Key[m] \notin Stored
    BY <2>1, <2>2, <2>3
  <2>5. QED BY <2>4, SettleStep
<1>4. QED BY <1>1, <1>2, <1>3

(* When the answer is there the rest of the batch settles, as duplicates    *)
(* only if their keys are in the table. *)
LEMMA FlushRefines ==
    ASSUME Known, Known', FlushBatch
    PROVE  Ledger!Settle
<1>1. /\ batch' = <<>> /\ UNCHANGED <<inbound, sending, channel, aprs_packet>>
      /\ fate' = [m \in Packets |->
            IF m \notin Range(batch) \ aprs_packet THEN fate[m]
            ELSE IF Key[m] \in Stored THEN "duplicate" ELSE "lost"]
  BY DEF FlushBatch, procOnly
<1>2. Range(batch') = {} /\ Stored' = Stored
  <2>1. Range(<<>>) = {}  BY DEF Range
  <2>2. QED BY <1>1, <2>1 DEF Stored
<1>3. ASSUME NEW m \in Packets, m \in Range(batch) \ aprs_packet
      PROVE  /\ Stage(m) = "batched" /\ Stage(m)' \in {"duplicate", "lost"}
             /\ Stage(m)' = "duplicate" => Key[m] \in Stored
  <2>1. Stage(m) = "batched"  BY <1>3 DEF Known, StageKnown
  <2>2. fate'[m] = IF Key[m] \in Stored THEN "duplicate" ELSE "lost"  BY <1>1, <1>3
  <2>3. Stage(m)' = fate'[m]  BY <2>2 DEF Known, StageKnown
  <2>4. QED BY <2>1, <2>2, <2>3
<1>4. ASSUME NEW m \in Packets, m \notin Range(batch) \ aprs_packet
      PROVE  Stage(m)' = Stage(m)
  <2>1. fate[m] = "live" <=> m \in Waiting \cup Range(batch) \cup aprs_packet
    BY DEF Known, IngestInv, OnePlace
  <2>2. fate'[m] = fate[m]  BY <1>1, <1>4
  <2>3. QED BY <1>1, <1>2, <1>4, <2>1, <2>2 DEF Known, StageKnown, Waiting
<1>5. \A m \in Packets : Stage(m)' # Stage(m) =>
          /\ Stage(m) = "batched" /\ Stage(m)' \in {"duplicate", "lost"}
          /\ Stage(m)' = "duplicate" => Key[m] \in Stored'
  BY <1>2, <1>3, <1>4
<1>6. QED BY <1>5, SettleStep

LEMMA StepRefines ==
    Known /\ Known' /\ [Next]_vars => [Ledger!Next]_[m \in Packets |-> Stage(m)]
<1> SUFFICES ASSUME Known, Known', [Next]_vars
             PROVE  Ledger!Next \/ UNCHANGED [m \in Packets |-> Stage(m)]
  OBVIOUS
<1>1. CASE \/ PollConnects \/ PollSubscribes \/ PollError \/ Slept \/ SendFails
  BY <1>1, StutterStep
     DEF PollConnects, PollSubscribes, PollError, Slept, SendFails, linkOnly, proc
<1>2. CASE ReceiveClosed \/ TimePasses
  BY <1>2, StutterStep DEF ReceiveClosed, TimePasses, procOnly
<1>3. CASE Main
  BY <1>3, StutterStep
     DEF Main, CtrlC, AbortMqtt, AbortProcessor, CancelMqtt, CancelProcessor, mainOnly
<1>4. CASE UNCHANGED vars  BY <1>4, StutterStep DEF vars, proc
<1>5. CASE Send
  <2>1. PICK m \in sending : channel' = Append(channel, m)  BY <1>5 DEF Send
  <2>2. /\ sending = {m} /\ sending' = {} /\ m \in Packets /\ channel \in Seq(Packets)
        /\ UNCHANGED <<inbound, batch, fate, aprs_packet>>
    BY <1>5 DEF Send, proc, Known, IngestInv, OnePlace, Typed
  <2>3. Range(channel') = Range(channel) \cup {m}  BY <2>1, <2>2, AppendFacts
  <2>4. QED BY <2>2, <2>3, StutterStep
<1>6. ASSUME NEW m \in Packets, PollPublish(m) PROVE Ledger!Next
  BY <1>6, PublishArrives DEF Ledger!Next
<1>7. CASE Receive         BY <1>7, ReceiveRefines
<1>8. CASE ReceiveGarbled  BY <1>8, ReceiveGarbledRefines DEF Ledger!Next
<1>9. CASE ReceiveTimeout  BY <1>9, ReceiveTimeoutRefines DEF Ledger!Next
<1>10. CASE InsertExecutes \/ InsertFails  BY <1>10, InsertRefines DEF Ledger!Next
<1>11. CASE FlushBatch     BY <1>11, FlushRefines DEF Ledger!Next
<1>12. QED BY <1>1, <1>2, <1>3, <1>4, <1>5, <1>6, <1>7, <1>8, <1>9, <1>10, <1>11
           DEF Next, MqttTask, Processor

(* The Rust service keeps the promises of the ledger, whichever answer of   *)
(* the database is lost and at whichever await its tasks are cancelled      *)
(* (processor.rs, process_packets and flush_batch; db.rs, insert_batch).    *)
THEOREM RustImplementsLedger == Spec => LedgerSpec
<1>1. Spec => []Known
  <2>1. IngestInv => Known  BY StageIsKnown DEF Known
  <2>2. QED BY <2>1, IngestInvariant, PTL
<1>2. QED BY <1>1, InitRefines, StepRefines, PTL DEF Spec, LedgerSpec, Ledger!Spec

=============================================================================
