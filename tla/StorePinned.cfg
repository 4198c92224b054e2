\* Two users at once, on contents that keep a reference: the counts commute.
SPECIFICATION Spec
CONSTANTS
    s1 = s1
    s2 = s2
    a = a
    b = b
    c = c
    p = p
    q = q
    m1 = m1
    m2 = m2
    null = null
    Sessions = {s1, s2}
    Names <- AllNames
    NamesOf <- NamesIn
    Md5s <- BothMd5s
    Size <- Chunks
    Null <- null
    Preloaded <- PinnedStart
    Uploads <- PinnedUploads
    Removes <- PinnedRemoves
    Copies <- PinnedCopies
    MaxCmds = 4
    MaxLosses = 0
    MaxExits = 0
INVARIANTS RefCountExact RmRemoves NoFault
CHECK_DEADLOCK FALSE
