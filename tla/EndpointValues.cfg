SPECIFICATION Spec
CONSTANTS
    ByteBase = 2
    Segments = {0, 1, 3}
    Ports = {0, 1}
    PositiveErrors = TRUE
CHECK_DEADLOCK FALSE
INVARIANTS
    ReplyReachesSender
    TextDenotesAddress
