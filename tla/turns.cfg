CONSTANTS
    Turn = {1, 2, 3, 4}
    Op <- AllOps
    Workloads <- Sessions
    RouterScript = TRUE
SPECIFICATION Spec
INVARIANTS TypeOK SlotHoldsRunningTask OneTerminalEvent NoItemLost RecordedOnce SteeredIntoItsTurn DebugAssertsHold NoStrandedMail ReviewModeLeft NoTaskAfterShutdown
PROPERTIES TurnsOneAtATime
CHECK_DEADLOCK FALSE
