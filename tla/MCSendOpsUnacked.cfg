\* A resumed session leaves the response timers suspended.
SPECIFICATION FairSpec
CONSTANTS
    MaxPacketId = 2
    PacketIdsLimit = 10
    MaxPublishes = 1
    SendOpsLimit = 2
    QosValues = {1}
    Attempts = {2}
    Fits = {TRUE}
    Orderings = {"SameQos"}
    MaySwitch = FALSE
PROPERTIES
    UnackedPublishEnds
CHECK_DEADLOCK FALSE
