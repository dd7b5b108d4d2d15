SPECIFICATION Spec
CONSTANTS
    NumThreads = 3
    MaxRuns = 2
    TaskCounts = {0, 1, 2}
CHECK_DEADLOCK FALSE
INVARIANTS
    TypeOK
    QuietBetweenRuns
    CallsOwnLaunch
    CountsAddUp
PROPERTIES
    DestructorReturns
    ImplementsContract
