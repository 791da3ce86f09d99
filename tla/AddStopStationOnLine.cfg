CONSTANTS
    l1 = l1
    l2 = l2
    angel = angel
    bank = bank
    east = east
    west = west
    north = north
    PickALine = PickALine
    Unavailable = Unavailable
    None = None
    Line <- MCLine
    Station <- MCStation
    Supported <- MCSupported
    StationsOf <- MCStationsOf
    Platform <- MCPlatform
    PlatformsOf <- MCPlatformsOf
    MaxTrains = 2
    MaxAsked = 1
    MaxTaps = 2
    MaxBacklog = 1
    MaxUnread = 0
SPECIFICATION Spec
INVARIANTS
    AddedStationOnLine
CHECK_DEADLOCK FALSE
