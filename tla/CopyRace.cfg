\* Two users copy a directory each.
SPECIFICATION CopySpec
CONSTANTS
    s1 = s1
    s2 = s2
    s3 = s3
    u1 = u1
    u2 = u2
    null = null
    Sessions = {s1, s3}
    Users <- AllUsers
    UserOf <- ServedBy
    Home <- HomeOf
    Names <- AllNames
    Dotted <- NoNames
    Null <- null
    InitRows <- Deep
    Commands <- NoCommands
    Copies <- Duplicate
    RecordsGone = FALSE
    MaxCmds = 2
    MaxLogins = 2
INVARIANT FathersOwn
CHECK_DEADLOCK FALSE
