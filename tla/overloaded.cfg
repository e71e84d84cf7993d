CONSTANTS
    a1 = a1
    a2 = a2
    a3 = a3
    Agents = {a1, a2, a3}
    CallOf <- AllCalls
    Calls <- CallNames
    Workloads <- Crowded
    Capacity = 1
    Cancels = FALSE
SPECIFICATION Spec
INVARIANTS LoadedWithinCap
