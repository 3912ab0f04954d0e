\* Three publishes, some of which do not fit the output buffer, and an ordering
\* that is switched at run time.
SPECIFICATION FairSpec
CONSTANTS
    MaxPacketId = 2
    PacketIdsLimit = 10
    MaxPublishes = 3
    SendOpsLimit = 3
    QosValues = {0, 2}
    Attempts = {2}
    Fits = {TRUE, FALSE}
    Orderings = {"Full"}
    MaySwitch = TRUE
INVARIANT ResumeIsTheLoop
PROPERTY PublishEnds
CHECK_DEADLOCK FALSE
