---------------------------- MODULE MCKeepAlive -----------------------------
(* One APRS processor besides the weather processor, MQTTThread and        *)
(* KeepAliveThread.                                                        *)
EXTENDS KeepAlive, TLC

OneProcessor == <<"aprs0">>

(* The first tick at which a condition is overdue, or may have to be       *)
(* cleared.                                                                *)
FirstOverdue ==
    [c \in Conditions |-> CASE c = "outage"  -> Interval + FileAgeLimit + 1
                           [] c = "silence" -> MessageAgeLimit + Interval + FileAgeLimit + 1
                           [] c = "stall"   -> ZeroLimit * Interval + Interval + FileAgeLimit + 1
                           [] c = "death"   -> FileAgeLimit + 2 * Interval + 1
                           [] c = "fine"    -> 2 * Interval + MaxMissed]

=============================================================================
