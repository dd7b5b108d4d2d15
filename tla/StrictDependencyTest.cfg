SPECIFICATION TestSpec
CONSTANTS
    LaunchId = {0, 1, 2}
    TaskCounts = {1, 2}
CHECK_DEADLOCK FALSE
INVARIANTS
    TestPasses
    FlagsNeverRace
PROPERTIES
    TestEnds
