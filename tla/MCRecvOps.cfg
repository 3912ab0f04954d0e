\* Two places, two identifiers, a broker that may send anything.
SPECIFICATION FairSpec
CONSTANTS
    RecvSlots = {s1, s2}
    PacketIds = {1, 2}
    Messages = {m1}
INVARIANTS
    TypeOK
    UniqueReception
PROPERTY RejectedEnds
