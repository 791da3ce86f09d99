CONSTANTS
    Doc = {d1}
    Value = {x, y}
    Absent = absent
    MaxWrites = 2
    MaxFaults = 2
SPECIFICATION FairSpec
INVARIANTS
    TypeOK
    AssertionsHold
    ViewIsLocal
    SyncedIsServer
PROPERTIES
    NeverOlder
    FirstEvent
    ViewConverges
CHECK_DEADLOCK FALSE
