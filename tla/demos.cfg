\* Three processes at the lock; two kirks and two spocks at a queue for one message;
\* two servers, the queue of each for one connection, and pause-server waits for two
\* of three clients.
\* Two lines a process, a FIFO for two; a loop that forks twice.
SPECIFICATION FairSpec
CONSTANTS
    Process = {p1, p2, p3}
    MAX_RETRIES = 2
    Kirk = {k1, k2}
    Spock = {s1, s2}
    QueueCap = 1
    MaxQueues = 2
    Server = {v1, v2}
    Client = {c1, c2, c3}
    MAX_CLIENTS = 2
    BACKLOG = 0
    MaxKills = 1
    iters = 2
    PipeCap = 2
    Forks = 2
INVARIANTS
    FreeOrHeld
    OneMessagePerWaiter
    FateFitsServer
    RecordIsOwn
    AllDataIsPresent
    NobodyOutlivesParent
PROPERTIES
    LockSpec
    NobodyWaitsInVain
    KirkHearsBack
    RemovalEndsCrew
    ClientsAreServed
CHECK_DEADLOCK FALSE
