SPECIFICATION Spec
CONSTANTS
    Worker = {w1, w2}
    MaxLaunches = 3
    TaskCounts = {0, 2}
CHECK_DEADLOCK FALSE
INVARIANTS
    TypeOK
    WorkKeepsAWorkerAwake
    SleepingSyncIsNotified
PROPERTIES
    CallsReturnUnlessLost
    ImplementsSafely
