\* Two sessions of one user remove and move the same directories beside a second user.
SPECIFICATION CopySpec
CONSTANTS
    s1 = s1
    s2 = s2
    s3 = s3
    u1 = u1
    u2 = u2
    null = null
    Sessions = {s1, s2, s3}
    Users <- AllUsers
    UserOf <- ServedBy
    Home <- HomeOf
    Names <- AllNames
    Dotted <- NoNames
    Null <- null
    InitRows <- Deep
    Commands <- CrossCommands
    Copies <- CrossCopies
    RecordsGone = TRUE
    MaxCmds = 3
    MaxLogins = 3
INVARIANTS Rooted FathersOwn
PROPERTY Isolation
CHECK_DEADLOCK FALSE
