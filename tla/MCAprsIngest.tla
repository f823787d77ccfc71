---------------------------- MODULE MCAprsIngest ----------------------------
(* Small instances of AprsIngest.  Packets "b1" and "b2" are two deliveries *)
(* with one key: a redelivery, or two beacons within one timestamp.         *)
EXTENDS AprsIngest, TLC

MCPackets == {"b1", "b2", "n", "g"}
MCKey     == [m \in MCPackets |-> IF m \in {"b1", "b2"} THEN "b" ELSE m]

=============================================================================
