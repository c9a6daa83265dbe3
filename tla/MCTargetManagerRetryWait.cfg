SPECIFICATION HistorySpec
CONSTANTS
    i1 = i1
    r1 = r1
    r2 = r2
    a1 = a1
    a2 = a2
    Instance = {i1}
    Caller = {r1, r2}
    Request = {r1, r2}
    Home <- OneInstance
    Address = {a1}
    IpList <- ListOfOne
    None = None
    IpFailuresUntilQuarantine = 2
    MinRequestInterval = 1
    QuarantineTime = 2
    MaxQueueWait = 2
    Grace = 2
    NumRetries = 1
    PopBudget <- MemoryBudget
INVARIANT
    EveryWaitBounded
