CONSTANTS
    Threads <- LegacyOnly
    OrdinalMax = 1
    MaxItem = 2
    MaxQueue = 1
    MaxInode = 3
    MaxFaults = 0
    MaxCrashes = 1
    FileRaces = TRUE
SPECIFICATION Spec
INVARIANTS AckedReadable
CHECK_DEADLOCK FALSE
