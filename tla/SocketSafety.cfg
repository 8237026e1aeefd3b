SPECIFICATION Spec
CONSTANTS
    s1 = s1
    s2 = s2
    a = a
    b = b
    NoEndpoint = NoEndpoint
    Objects = {s1, s2}
    Handles = {0, 1}
    PointerModulus = 16
    LongModulus = 16
    Endpoints = {a, b}
    Timeouts = {0, 2}
    DefaultTimeout = 2
    Refusals = {"socket", "bind", "connect", "nonblocking", "timeout", "name", "listen", "accept", "close", "shutdown"}
    Unsupported = {}
    Startups = {TRUE, FALSE}
SYMMETRY EndpointSymmetry
INVARIANTS
    TypeOK
    HandlesOwned
    DescribesHandle
    NonBlockingKept
    ReachesAsked
    FalseMeansRefused
