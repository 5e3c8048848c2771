\* Two threads of each parity, three for the others, two rounds each.
SPECIFICATION FairSpec
CONSTANTS
    Pairs = 2
    Workers = 3
    Rounds = 2
    Limit = 3
    MaxSpurious = 1
INVARIANTS
    TurnsRespected
    CountIsWork
    WatcherSawLimit
PROPERTY
    AllFinish
CHECK_DEADLOCK FALSE
