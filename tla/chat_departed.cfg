\* One client that joins and leaves.
SPECIFICATION Spec
CONSTANTS
    Client = {a}
    MaxClients = 1
    FifoCap = 2
    JoinCap = 1
    MaxLines = 0
    Signal = {}
INVARIANT DepartedIsRemoved
CHECK_DEADLOCK FALSE
