CONSTANTS
    Turn = {1, 2, 3, 4}
    Op <- OpIdleAndUser
    Workloads <- IdleUser
    RouterScript = TRUE
SPECIFICATION Spec
INVARIANTS DebugAssertsHold
CHECK_DEADLOCK FALSE
