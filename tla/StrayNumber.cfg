\* download without a file name, once.
SPECIFICATION Spec
CONSTANTS
    Files <- Three
    Size <- Chunked
    Local <- Has
    Stored <- Holds
    Listed <- OnlyD
    Commands <- Unnamed
    Buf = 2
    Half = 8
    Room = 3
    GrowsWhileSent = FALSE
    DbFails = FALSE
    MaxConns = 1
INVARIANT NothingUnread
CHECK_DEADLOCK FALSE
