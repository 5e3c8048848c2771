\* Two processes, so that a nested shell can start a job of its own; two jobs.
SPECIFICATION FairSpec
CONSTANTS
    MaxPid = 2
    MaxChild = 2
INVARIANTS
    OwnStatus
    NothingLost
    FetchNeverBlocks
PROPERTY
    WaitComesBack
CHECK_DEADLOCK FALSE
