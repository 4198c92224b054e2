\* One connection is enough: a worker that goes back to sleep misses the exit broadcast.
SPECIFICATION FairSpec
CONSTANTS
    w1 = w1
    w2 = w2
    w3 = w3
    n1 = n1
    n2 = n2
    n3 = n3
    main = main
    null = null
    Workers <- TwoWorkers
    Main <- main
    Nodes <- ThreeNodes
    Null <- null
    MaxConns = 1
PROPERTY ShutdownCompletes
CHECK_DEADLOCK FALSE
