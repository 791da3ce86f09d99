CONSTANTS
    Doc = {1}
    Reading = {r1, r2}
    NoTimes = none
    MaxTrains = 2
    MaxRequests = 1
    MaxTicks = 1
    MaxLaunches = 0
    MaxBacklog = 3
SPECIFICATION Spec
SYMMETRY ReadingSymmetry
INVARIANTS
    EveryRowHasTimes
CHECK_DEADLOCK FALSE
