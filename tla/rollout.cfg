CONSTANTS
    Threads <- PaginatedKinds
    OrdinalMax = 1
    MaxItem = 2
    MaxQueue = 1
    MaxInode = 3
    MaxFaults = 1
    MaxCrashes = 1
    FileRaces = FALSE
SPECIFICATION Spec
INVARIANTS TypeOK AckedReadable TakenKept OrdinalsFollow InheritedFirst ProjectionExact
PROPERTIES KeepsItsLog
CHECK_DEADLOCK FALSE
