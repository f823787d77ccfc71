---------------------------- MODULE MCRustIngest ----------------------------
(* Four publications: b1 and b2 have one key, g is garbled. *)
EXTENDS RustIngest, TLC

MCPackets == {"a", "b1", "b2", "g"}
MCKey     == [m \in MCPackets |-> IF m \in {"b1", "b2"} THEN "b" ELSE m]

=============================================================================
