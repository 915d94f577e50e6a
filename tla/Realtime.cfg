SPECIFICATION Spec
CONSTANTS
    c1 = c1
    c2 = c2
    Conns <- TwoConns
    QueueSize = 2
    MaxVersion = 2
SYMMETRY ConnSymmetry
CHECK_DEADLOCK FALSE
INVARIANTS
    TypeOK
    QueueBounded
    StreamInOrder
    NoMissedUpdate
    ToldOnce
