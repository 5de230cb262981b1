CONSTANTS
    MinWindow = 1  DefaultWindow = 2  MaxWindow = 4
    MaxOffset = 11
    MinSample = 1
    Points <- SomePoints
    OldLayouts <- SomeLayouts
    MaxOps = 3
SPECIFICATION Spec
INVARIANTS TypeOK MapSound ContentRead
PROPERTIES StaysPacked
CHECK_DEADLOCK FALSE
