SPECIFICATION Spec
CONSTANTS
    NumThreads = 4
    MaxRuns = 2
    TaskCounts = {0, 2}
CHECK_DEADLOCK FALSE
INVARIANTS
    QuietBetweenRuns
    CountsAddUp
PROPERTIES
    DestructorReturns
    ImplementsContract
