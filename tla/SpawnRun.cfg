SPECIFICATION Spec
CONSTANTS
    NumThreads = 3
    MaxRuns = 2
    TaskCounts = {0, 1, 3, 5}
    IntMax = 7
CHECK_DEADLOCK FALSE
INVARIANTS
    TaskIdsInRange
    NoTaskTwice
    IInv
PROPERTIES
    RunReturnsComplete
    ImplementsContract
