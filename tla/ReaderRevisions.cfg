SPECIFICATION FairSpec
CONSTANTS
    p1 = p1
    p2 = p2
    p3 = p3
    x = x
    y = y
    z = z
    p4 = p4
    NoId = NoId
    Junk = Junk
    Packets = {p1, p2}
    IdOf <- TwoIds
    SizeOf <- RevisedSizes
    SectionSize = 1
    WordBits = 3
    ByteBits = 2
    ScratchSize = 1
    Capacity = 10
    WordModulus = 64
    MaxRev = 1
    MaxReadPackets = 2
    ReadTimeout = 1
    RingSize = 1
INVARIANTS
    TableLayout
    DataIntact
PROPERTIES
    RevisionStrands
    AcknowledgedKept
    EverySlotReleased
