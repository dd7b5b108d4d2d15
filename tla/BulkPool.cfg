SPECIFICATION Spec
CONSTANTS
    Worker = {w1, w2}
    MaxLaunches = 3
    TaskCounts = {2}
    Wrapped = {}
    NoOne = NoOne
CHECK_DEADLOCK FALSE
INVARIANTS
    TypeOK
    NoTaskTwice
    DoneIsHonest
    SomeoneAwake
PROPERTIES
    DestructorReturns
    ImplementsSafely
