-------------------------- MODULE MCMqttConnection --------------------------
(* Instances of MqttConnection with two client objects: at any time one is *)
(* current and the other discarded.                                        *)
EXTENDS MqttConnection, TLC

=============================================================================
