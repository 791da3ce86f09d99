CONSTANTS
    alice = alice
    bob = bob
    User <- MCUser
    MaxPendingWrites = 3
    Refused = {2}
    MaxWrites = 4
    MaxFaults = 1
    MaxChanges = 2
SPECIFICATION FairSpec
INVARIANTS
    TypeOK
    AssertionsHold
    PipelineIsFront
    ResponsesMatchPipeline
    CallbacksPending
PROPERTIES
    WaitersSettled
    AcceptedWritesSpec
    QueueDrains
CHECK_DEADLOCK FALSE
