\* No FIFO fills up: 8 records are more than two clients can cause to be sent.
SPECIFICATION FairSpec
CONSTANTS
    Client = {a, b}
    MaxClients = 2
    FifoCap = 8
    JoinCap = 1
    MaxLines = 0
    Signal = {SIGINT}
PROPERTIES
    EverybodyIsHeard
    ShutdownEndsAll
CHECK_DEADLOCK FALSE
