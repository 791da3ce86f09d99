CONSTANTS
    alice = alice
    bob = bob
    User <- MCUser
    Nobody = Nobody
    MaxTaps = 1
    MaxFetches = 1
    MaxFaults = 2
    MaxLaunches = 1
SPECIFICATION FairSpec
INVARIANTS
    TypeOK
    SentAsAuthor
    OneTokenAwaited
    ProfileIsOwn
    StopsListened
PROPERTIES
    UserFollows
    WritesSent
CHECK_DEADLOCK FALSE
