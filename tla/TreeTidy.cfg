\* One session that keeps to its tree: every command, several deep.
SPECIFICATION CopySpec
CONSTANTS
    s1 = s1
    s2 = s2
    s3 = s3
    u1 = u1
    u2 = u2
    null = null
    Sessions = {s1}
    Users <- AllUsers
    UserOf <- ServedBy
    Home <- HomeOf
    Names <- AllNames
    Dotted <- NoNames
    Null <- null
    InitRows <- Alone
    Commands <- TidyCommands
    Copies <- TidyCopies
    RecordsGone = FALSE
    MaxCmds = 4
    MaxLogins = 2
INVARIANTS TypeOK Rooted SiblingsUnique CwdCached CopyShape
CHECK_DEADLOCK FALSE
