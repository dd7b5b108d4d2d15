SPECIFICATION SafeSpec
CONSTANTS
    w1 = w1
    w2 = w2
    w3 = w3
    Worker = {w1, w2, w3}
    MaxLaunches = 3
    TaskCounts = {1, 2}
    Main = Main
    NoOne = NoOne
SYMMETRY Symmetry
CHECK_DEADLOCK FALSE
INVARIANTS
    DependenciesDone
    NoTaskTwice
    WorkKeepsAWorkerAwake
    SleepingSyncIsNotified
    IInv
PROPERTIES
    SyncReturnsComplete
    ImplementsSafely
