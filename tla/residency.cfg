CONSTANTS
    a1 = a1
    a2 = a2
    a3 = a3
    Agents = {a1, a2, a3}
    CallOf <- AllCalls
    Calls <- CallNames
    Workloads <- Reloads
    Capacity = 1
    Cancels = TRUE
SPECIFICATION FairSpec
INVARIANTS TypeOK SlotsBalanced LoadedKnown MailKept
PROPERTIES TasksEnd
