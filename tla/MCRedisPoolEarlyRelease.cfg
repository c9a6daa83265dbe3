SPECIFICATION RPSpec
CONSTANTS
    i1 = i1
    i2 = i2
    c1 = c1
    c2 = c2
    a1 = a1
    a2 = a2
    Instance = {i1, i2}
    Caller = {c1, c2}
    Home <- OneEach
    Address = {a1, a2}
    IpList <- ListOfTwo
    None = None
    IpFailuresUntilQuarantine = 1
    MinRequestInterval = 1
    QuarantineTime = 1
    MaxFaults = 0
PROPERTY
    QuarantineServed
