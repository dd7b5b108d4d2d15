SPECIFICATION Spec
CONSTANTS
    w1 = w1
    w2 = w2
    w3 = w3
    Worker = {w1}
    MaxLaunches = 1
    TaskCounts = {1}
    Main = Main
    NoOne = NoOne
CHECK_DEADLOCK FALSE
PROPERTY
    DestructorReturns
