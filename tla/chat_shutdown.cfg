\* Three clients for two slots, both signals (one handler can interrupt the other).
SPECIFICATION Spec
CONSTANTS
    Client = {a, b, c}
    MaxClients = 2
    FifoCap = 1
    JoinCap = 2
    MaxLines = 0
    Signal = {SIGINT, SIGTERM}
SYMMETRY Symmetry
INVARIANTS
    TypeOK
    ShutdownReachesMembers
CHECK_DEADLOCK FALSE
