SPECIFICATION Spec
CONSTANTS
    Writes = {w1, w2}
    Loads <- MixedLoads
    MaxConn = 3
    StdinIds = 2
CHECK_DEADLOCK FALSE
INVARIANTS TypeOK EventsFaithful StdinOnce SessionHeld NoOrphan NeverStuck
