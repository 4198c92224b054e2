\* One session at a time: resumed uploads, shared contents, overwriting copies, exits.
SPECIFICATION Spec
CONSTANTS
    s1 = s1
    s2 = s2
    a = a
    b = b
    c = c
    p = p
    q = q
    m1 = m1
    m2 = m2
    null = null
    Sessions = {s1}
    Names <- AllNames
    NamesOf <- NamesIn
    Md5s <- BothMd5s
    Size <- Chunks
    Null <- null
    Preloaded <- Nothing
    Uploads <- SoloUploads
    Removes <- SoloRemoves
    Copies <- SoloCopies
    MaxCmds = 5
    MaxLosses = 2
    MaxExits = 1
INVARIANTS TypeOK RefCountExact StoredPrefix RmRemoves UploadStored NoFault
CHECK_DEADLOCK FALSE
