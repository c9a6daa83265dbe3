SPECIFICATION FEFairSpec
CONSTANTS
    c1 = c1
    c2 = c2
    Client = {c1, c2}
    Scenarios <- MCScenarios
    MaxBody = 1
INVARIANTS
    FETypeOK
    RefusedOrWhole
    PoolsKept
PROPERTIES
    HandlersEnd
    AddressesComeBack
CHECK_DEADLOCK FALSE
