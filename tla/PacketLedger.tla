---------------------------- MODULE PacketLedger ----------------------------
(***************************************************************************)
(* What the APRS ingest pipeline promises about every packet: it moves     *)
(* forward through the stages                                              *)
(*                                                                         *)
(*   inbound -> queued -> batched -> stored | duplicate | lost | discarded *)
(*      \-> dropped | rejected  \-> rejected | discarded (from queued)     *)
(*                                                                         *)
(* never returns, never vanishes, and at the end of its way has exactly    *)
(* one outcome.  The table never holds two rows with one key, and only a   *)
(* packet whose key is in the table is written off as a duplicate.         *)
(***************************************************************************)
CONSTANTS Packets, Key
VARIABLE stage

Stages == {"inbound", "queued", "batched", "stored", "duplicate", "lost",
           "discarded", "dropped", "rejected"}

StoredKeys == {Key[m] : m \in {x \in Packets : stage[x] = "stored"}}

Init == stage = [m \in Packets |-> "inbound"]

Arrive(m) ==
    /\ stage[m] = "inbound"
    /\ \E s \in {"queued", "dropped", "rejected"} : stage' = [stage EXCEPT ![m] = s]

Take(m) ==
    /\ stage[m] = "queued"
    /\ \E s \in {"batched", "rejected"} : stage' = [stage EXCEPT ![m] = s]

(* A batch, or the part of it that a transaction wrote, leaves memory; a   *)
(* packet taken in the same step may be thrown away with it.               *)
Settle ==
    /\ stage' \in [Packets -> Stages]
    /\ \A m \in Packets :
        stage'[m] # stage[m] =>
            /\ \/ /\ stage[m] = "batched"
                  /\ stage'[m] \in {"stored", "duplicate", "lost", "discarded"}
               \/ stage[m] = "queued" /\ stage'[m] \in {"discarded", "rejected"}
            /\ stage'[m] = "stored" => Key[m] \notin StoredKeys
            /\ stage'[m] = "duplicate" => Key[m] \in StoredKeys'
    /\ \A m, n \in Packets :
        (stage'[m] = "stored" /\ stage'[n] = "stored" /\ Key[m] = Key[n]) => m = n

Next == (\E m \in Packets : Arrive(m) \/ Take(m)) \/ Settle

Spec == Init /\ [][Next]_stage

=============================================================================
