SPECIFICATION Spec
CONSTANTS
    x = x
    y = y
    z = z
    v = v
    NoId = NoId
    NoEndpoint = NoEndpoint
    Junk = Junk
    LineSize <- LongThenShort
    PacketIds = {x, y, z, v}
    SectionSize = 1
    WordBits = 2
    ByteBits = 2
    ScratchSize = 1
    Capacity = 4
    WordModulus = 64
    RingSize = 2
    MaxPackets = 2
    ReadTimeout = 2
    WriteTimeout = 2
    Failing = {"server"}
    Interrupts = FALSE
    Lossy = FALSE
SYMMETRY IdSymmetry
CHECK_DEADLOCK FALSE
INVARIANTS
    TypeOK
    EchoFaithful
    CalledOnce
    AckMeansReached
    EchoCapacity
PROPERTIES
    ImplementsService
