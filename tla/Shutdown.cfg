SPECIFICATION FairSpec
CONSTANTS
    BuildOrder <- MCBuildOrder
    MqttThread = "mqtt"
    KeepAlive = "keepalive"
    MaxSignals = 2
INVARIANTS RegistryExact WalkSkipsNobody
PROPERTIES LoneSignalEndsAll MqttDeathEndsAll
CHECK_DEADLOCK FALSE
