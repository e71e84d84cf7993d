SPECIFICATION Spec
CONSTANTS
    Writes = {w1}
    Loads <- Chatty
    MaxConn = 2
    StdinIds = 1
INVARIANTS PublishedInOrder
CHECK_DEADLOCK FALSE
