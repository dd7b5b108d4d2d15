SPECIFICATION Spec
CONSTANTS
    w1 = w1
    w2 = w2
    w3 = w3
    Worker = {w1, w2}
    MaxLaunches = 2
    TaskCounts = {1, 2}
    Main = Main
    NoOne = NoOne
CHECK_DEADLOCK FALSE
PROPERTIES
    ImplementsContract
