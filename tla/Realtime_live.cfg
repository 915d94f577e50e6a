SPECIFICATION LiveSpec
CONSTANTS
    c1 = c1
    c2 = c2
    Conns <- TwoConns
    QueueSize = 1
    MaxVersion = 1
PROPERTIES
    KeepsHubPromise
    DeadClientRemoved
CHECK_DEADLOCK FALSE
