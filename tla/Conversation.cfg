\* Two connections, every kind of command, transfers cut at any place and resumed.
SPECIFICATION FairSpec
CONSTANTS
    Files <- Three
    Size <- Chunked
    Local <- Has
    Stored <- Holds
    Listed <- OnlyD
    Commands <- Lines
    Buf = 2
    Half = 8
    Room = 3
    GrowsWhileSent = FALSE
    DbFails = FALSE
    MaxConns = 2
INVARIANTS TypeOK ClientInStep SessionInStep NothingUnread TransfersLineUp UploadKept
PROPERTIES Answered SessionEnds
CHECK_DEADLOCK FALSE
