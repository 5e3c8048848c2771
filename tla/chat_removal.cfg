\* Two clients that have joined when the server is told to stop.
SPECIFICATION Spec
CONSTANTS
    Client = {a, b}
    MaxClients = 2
    FifoCap = 2
    JoinCap = 1
    MaxLines = 0
    Signal = {SIGINT}
INVARIANT ShutdownRemovesAll
CHECK_DEADLOCK FALSE
