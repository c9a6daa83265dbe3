SPECIFICATION PSSpec
CONSTANTS
    i1 = i1
    r1 = r1
    r2 = r2
    t1 = t1
    a1 = a1
    a2 = a2
    Instance = {i1}
    Caller = {r1, t1}
    Request = {r1}
    Tunnel = {t1}
    Home <- OneInstance
    Address = {a1, a2}
    IpList <- ListOfTwo
    None = None
    IpFailuresUntilQuarantine = 2
    MinRequestInterval = 1
    QuarantineTime = 1
    MaxQueueWait = 2
    Grace = 1
    NumRetries = 1
    PopBudget <- MemoryBudget
    TunnelBudget = 2
INVARIANT
    NoneLost
