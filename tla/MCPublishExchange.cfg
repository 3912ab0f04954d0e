\* Two publishes, two attempts each; no packet identifier is used twice.
SPECIFICATION ExchangeSpec
CONSTANTS
    MaxPacketId = 3
    PacketIdsLimit = 10
    MaxPublishes = 2
    SendOpsLimit = 2
    QosValues = {1, 2}
    Attempts = {2}
    Fits = {TRUE}
    Orderings = {"SameQos", "Full"}
    MaySwitch = FALSE
    LateLimit = 1
PROPERTIES
    TakenOnce
    CompleteWasTaken
    TakenInOrder
CHECK_DEADLOCK FALSE
