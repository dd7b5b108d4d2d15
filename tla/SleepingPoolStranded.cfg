SPECIFICATION Spec
CONSTANTS
    w1 = w1
    w2 = w2
    w3 = w3
    Worker = {w1, w2}
    MaxLaunches = 4
    TaskCounts = {1}
    Main = Main
    NoOne = NoOne
CHECK_DEADLOCK FALSE
CONSTRAINT IndependentLaunches
PROPERTY
    SyncReturns
