SPECIFICATION FairSpec
CONSTANTS
    x = x
    y = y
    z = z
    v = v
    NoId = NoId
    NoEndpoint = NoEndpoint
    Junk = Junk
    LineSize <- ShortLines
    PacketIds = {x, y}
    SectionSize = 1
    WordBits = 2
    ByteBits = 2
    ScratchSize = 1
    Capacity = 2
    WordModulus = 64
    RingSize = 1
    MaxPackets = 2
    ReadTimeout = 1
    WriteTimeout = 1
    Failing = {"client"}
    Interrupts = TRUE
    Lossy = TRUE
CHECK_DEADLOCK FALSE
PROPERTIES
    LineArrives
    ProgramEnds
