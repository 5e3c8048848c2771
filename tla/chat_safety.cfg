\* Two clients, FIFOs that fill up, one line, and a signal at any point.
SPECIFICATION Spec
CONSTANTS
    Client = {a, b}
    MaxClients = 2
    FifoCap = 2
    JoinCap = 1
    MaxLines = 1
    Signal = {SIGINT}
SYMMETRY Symmetry
INVARIANTS
    ReadsFindData
    DeliveryComplete
    NothingSwallowed
PROPERTY
    RoomSpec
CHECK_DEADLOCK FALSE
