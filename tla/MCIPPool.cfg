SPECIFICATION FairSpec
CONSTANTS
    i1 = i1
    i2 = i2
    c1 = c1
    c2 = c2
    c3 = c3
    a1 = a1
    a2 = a2
    a3 = a3
    Instance = {i1, i2}
    Caller = {c1, c2, c3}
    Home <- TwoInstances
    Address = {a1, a2}
    IpList <- ListOfTwo
    None = None
    IpFailuresUntilQuarantine = 2
    MinRequestInterval = 2
    QuarantineTime = 2
INVARIANTS
    TypeOK
    OneHolder
    NoneLost
    StrikesAgree
    RateLimited
PROPERTIES
    ImplementsRotation
    ComesBack
