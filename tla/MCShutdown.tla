----------------------------- MODULE MCShutdown -----------------------------
(* Two processors, the weather processor, MQTTThread and KeepAlive, built  *)
(* in the order of wx_mqtt_ingest.                                         *)
EXTENDS Shutdown, TLC

MCBuildOrder == <<"aprs0", "aprs1", "weather", "mqtt", "keepalive">>

=============================================================================
