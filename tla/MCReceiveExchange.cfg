\* Two messages of QoS 2 and one of QoS 1, two operations, three identifiers.
SPECIFICATION ExchangeSpec
CONSTANTS
    RecvSlots = {s1, s2}
    PacketIds = {1, 2, 3}
    Messages = {m1, m2, m3}
    ExactlyOnce = {m1, m2}
    ChannelLimit = 2
    MaySwitch = FALSE
INVARIANTS
    DeliveredOnce
    DeliveredBeforeDone
    NoProtocolError
