\* Two clients, a name that is listed and one that is not, one user who stops a client.
SPECIFICATION FairSpec
CONSTANTS
    Client = {a, b}
    Name = {n, m}
    Listed = {n}
    Room = 2
    Continues = 1
INVARIANTS
    AnswersReachAskers
    StopsSoon
PROPERTY
    Served
CHECK_DEADLOCK FALSE
