\* A keep-alive time of four units, a longer response time of six, ticks that may be two late.
SPECIFICATION Spec
CONSTANTS
    KeepAliveMs = 4
    ResponseMs = 6
    Latency = 2
INVARIANTS
    TypeOK
    WaitCoversTimers
    ClientSpeaks
    SilenceNoticed
PROPERTY AlarmsRingInTime
CHECK_DEADLOCK FALSE
