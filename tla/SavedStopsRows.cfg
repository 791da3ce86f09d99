CONSTANTS
    Doc = {1, 2}
    Reading = {r1}
    NoTimes = none
    MaxTrains = 1
    MaxRequests = 0
    MaxTicks = 0
    MaxLaunches = 1
    MaxBacklog = 1
SPECIFICATION FairSpec
INVARIANTS
    TypeOK
    NoDuplicateRows
    RowsAreComplete
    SettledRows
    ViewUpdated
    EveryRowHasTimes
PROPERTIES
    TrapsOnlyInFlight
    DeletedStopIsTapped
    ViewConverges
CHECK_DEADLOCK FALSE
