CONSTANTS
    MaxTime = 2
    MaxTrains = 3
    MaxRequests = 2
    MaxSnapshots = 1
    MaxResets = 1
SPECIFICATION Spec
INVARIANTS
    TypeOK
    SlotsWithoutGap
    SlotsOfLastAnswers
CHECK_DEADLOCK FALSE
