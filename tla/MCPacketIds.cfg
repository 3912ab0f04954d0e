\* Five identifiers, four operations: the pool wraps around while some are held.
SPECIFICATION Spec
CONSTANTS
    MaxPacketId = 5
    PacketIdsLimit = 3
    Ops = {o1, o2, o3, o4}
SYMMETRY Symmetry
INVARIANTS
    TypeOK
    DistinctIds
    NoIdLeak
PROPERTY NoImmediateReuse

