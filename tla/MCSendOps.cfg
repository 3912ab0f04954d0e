\* Three publishes of any QoS, two identifiers, either ordering.
SPECIFICATION Spec
CONSTANTS
    MaxPacketId = 2
    PacketIdsLimit = 10
    MaxPublishes = 3
    SendOpsLimit = 3
    QosValues = {0, 1, 2}
    Attempts = {2}
    Fits = {TRUE}
    Orderings = {"SameQos", "Full"}
    MaySwitch = FALSE
INVARIANTS
    TypeOK
    InFlightTimed
    PausedForAReason
    PacketIdsInUse
    OnePreparation
PROPERTIES
    SentInOrder
    AckedNeverRepublished
    DupOnRepublish
CHECK_DEADLOCK FALSE
