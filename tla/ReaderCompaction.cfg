SPECIFICATION Spec
CONSTANTS
    p1 = p1
    p2 = p2
    p3 = p3
    x = x
    y = y
    z = z
    p4 = p4
    NoId = NoId
    Junk = Junk
    Packets = {p1, p2, p3}
    IdOf <- ThreeIds
    SizeOf <- ThreeSizes
    SectionSize = 2
    WordBits = 2
    ByteBits = 2
    ScratchSize = 1
    Capacity = 20
    WordModulus = 64
    MaxRev = 0
    MaxReadPackets = 3
    ReadTimeout = 2
    RingSize = 1
INVARIANTS
    TypeOK
    TableLayout
    DataIntact
    LifetimeCapacity
    PaddingStrands
