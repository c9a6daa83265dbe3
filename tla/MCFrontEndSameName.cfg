SPECIFICATION FESpec
CONSTANTS
    c1 = c1
    c2 = c2
    Client = {c1, c2}
    Scenarios <- MCSameName
    MaxBody = 1
INVARIANT
    IndependentRotation
CHECK_DEADLOCK FALSE
