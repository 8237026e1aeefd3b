SPECIFICATION FairSpec
CONSTANTS
    p1 = p1
    p2 = p2
    x = x
    y = y
    z = z
    a = a
    b = b
    Askers <- OneAsker
    NoId = NoId
    NoEndpoint = NoEndpoint
    Junk = Junk
    Outgoing = {p1, p2}
    OutSize <- OutSizes
    OwnIds = {x}
    PeerIds = {y}
    Peers = {a}
    SectionSize = 2
    WordBits = 3
    ByteBits = 2
    ScratchSize = 1
    Capacity = 2
    WordModulus = 64
    MaxIndex = 0
    MaxRev = 0
    MaxWritePackets = 3
    WriteTimeout = 1
    SendCount = 8
    AnswerTypes = {"Acknowledge"}
INVARIANTS
    TypeOK
PROPERTIES
    AnswersStay
    UnacknowledgedStays
    PendingIsSent
    AcknowledgedReleased
