SPECIFICATION TMFFairSpec
CONSTANTS
    i1 = i1
    r1 = r1
    r2 = r2
    a1 = a1
    a2 = a2
    Instance = {i1}
    Caller = {r1, r2}
    Request = {r1, r2}
    Home <- OneInstance
    Address = {a1, a2}
    IpList <- ListOfTwo
    None = None
    IpFailuresUntilQuarantine = 2
    MinRequestInterval = 1
    QuarantineTime = 1
    MaxQueueWait = 1
    Grace = 2
    NumRetries = 1
    MaxErrors = 2
    PopBudget <- RedisBudget
INVARIANTS
    NeverDoubled
    NoWorkForTheAnswered
    DamageBounded
PROPERTY
    RequestsAnswered
CHECK_DEADLOCK FALSE
