CONSTANTS
    Doc = {1, 2}
    Reading = {r1}
    NoTimes = none
    MaxTrains = 1
    MaxRequests = 0
    MaxTicks = 0
    MaxLaunches = 0
    MaxBacklog = 1
SPECIFICATION Spec
INVARIANTS
    SavedStopsCounted
CHECK_DEADLOCK FALSE
