CONSTANTS
    Doc = {1}
    Reading = {r1, r2}
    NoTimes = none
    MaxTrains = 1
    MaxRequests = 1
    MaxTicks = 1
    MaxLaunches = 0
    MaxBacklog = 2
SPECIFICATION Spec
PROPERTIES
    NewTimesShown
CHECK_DEADLOCK FALSE
