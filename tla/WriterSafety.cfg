SPECIFICATION Spec
CONSTANTS
    p1 = p1
    p2 = p2
    x = x
    y = y
    z = z
    a = a
    b = b
    Askers <- OneAsker
    NoId = NoId
    NoEndpoint = NoEndpoint
    Junk = Junk
    Outgoing = {p1, p2}
    OutSize <- OutSizes
    OwnIds = {x, z}
    PeerIds = {y}
    Peers = {a, b}
    SectionSize = 2
    WordBits = 3
    ByteBits = 2
    ScratchSize = 1
    Capacity = 5
    WordModulus = 64
    MaxIndex = 0
    MaxRev = 0
    MaxWritePackets = 2
    WriteTimeout = 1
    SendCount = 8
    AnswerTypes = {"Acknowledge", "Reject", "MaxSize"}
INVARIANTS
    TableLayout
    SentAddressed
    SentIntact
    NoWildMove
SYMMETRY OwnIdSymmetry
