CONSTANTS
    Turn = {1, 2, 3, 4}
    Op <- OpMailAndInterrupt
    Workloads <- Stranded
    RouterScript = TRUE
SPECIFICATION Spec
INVARIANTS NoStrandedMail
CHECK_DEADLOCK FALSE
