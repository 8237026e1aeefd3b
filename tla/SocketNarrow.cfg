SPECIFICATION Spec
CONSTANTS
    s1 = s1
    s2 = s2
    a = a
    b = b
    NoEndpoint = NoEndpoint
    Objects = {s1}
    Handles = {0, 1}
    PointerModulus = 4
    LongModulus = 16
    Endpoints = {a, b}
    Timeouts = {0, 2}
    DefaultTimeout = 2
    Refusals = {}
    Unsupported = {}
    Startups = {TRUE}
INVARIANTS
    FalseMeansRefused
