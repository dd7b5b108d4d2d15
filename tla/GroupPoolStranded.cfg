SPECIFICATION Spec
CONSTANTS
    Worker = {w1, w2}
    MaxLaunches = 2
    TaskCounts = {1}
CHECK_DEADLOCK FALSE
PROPERTY
    SyncReturns
