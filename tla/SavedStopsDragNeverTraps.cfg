CONSTANTS
    Doc = {1, 2}
    Reading = {r1, r2}
    NoTimes = none
    MaxTrains = 1
    MaxRequests = 1
    MaxTicks = 1
    MaxLaunches = 0
    MaxBacklog = 2
SPECIFICATION Spec
PROPERTIES
    DragNeverTraps
CHECK_DEADLOCK FALSE
