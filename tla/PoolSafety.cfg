\* Three workers, three node addresses, four connections: addresses are reused
\* while other nodes are still queued or being served.
SPECIFICATION Spec
CONSTANTS
    w1 = w1
    w2 = w2
    w3 = w3
    n1 = n1
    n2 = n2
    n3 = n3
    main = main
    null = null
    Workers <- ThreeWorkers
    Main <- main
    Nodes <- ThreeNodes
    Null <- null
    MaxConns = 4
SYMMETRY Interchangeable
INVARIANTS TypeOK QueueWellFormed ExclusiveOwnership NoLostWakeup
PROPERTY ImplementsDispatch
CHECK_DEADLOCK FALSE
