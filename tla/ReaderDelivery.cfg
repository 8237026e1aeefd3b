SPECIFICATION Spec
CONSTANTS
    p1 = p1
    p2 = p2
    p3 = p3
    x = x
    y = y
    z = z
    p4 = p4
    NoId = NoId
    Junk = Junk
    Packets = {p1, p2, p3, p4}
    IdOf <- SharedId
    SizeOf <- DeliverySizes
    SectionSize = 2
    WordBits = 3
    ByteBits = 2
    ScratchSize = 1
    Capacity = 14
    WordModulus = 64
    MaxRev = 0
    MaxReadPackets = 2
    ReadTimeout = 1
    RingSize = 2
INVARIANTS
    OneHomePerId
    DeliveredWhole
    RedeliveryWindow
PROPERTIES
    ImplementsDelivery
