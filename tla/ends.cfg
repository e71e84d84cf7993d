CONSTANTS
    Turn = {1, 2, 3}
    Op <- FairOps
    Workloads <- Fair
    RouterScript = FALSE
SPECIFICATION FairSpec
PROPERTIES TurnsEndInOrder InputSettled TriggerMailConsumed
CHECK_DEADLOCK FALSE
