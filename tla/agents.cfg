CONSTANTS
    t1 = t1
    t2 = t2
    t3 = t3
    root = root
    p1 = p1
    p2 = p2
    Ada = Ada
    Bob = Bob
    none = none
    Thread = {t1, t2, t3, root}
    Path = {p1, rootPath}
    RootPath = rootPath
    RootThread = root
    Name = {Ada, Bob}
    Call <- AllCalls
    Workloads <- Trees
    Max = 2
    UsizeMax = 100
    NoThread = none
    NoPath = none
    NoNickname = none
SPECIFICATION Spec
INVARIANTS TypeOK CountExact CountCoversAgents ReservedPathHeld RunningAreKnown NicknamesDistinct AgentsWithinLimit
PROPERTIES AgentsKeepTheirPlace
CHECK_DEADLOCK FALSE
