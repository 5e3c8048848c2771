\* Four keys, two records from the server, a line of at most two characters.
SPECIFICATION FairSpec
CONSTANTS
    Char = {x, y}
    MaxLine = 3
    FifoCap = 1
    MaxKeys = 4
    MaxMesgs = 2
INVARIANTS
    BufferEnds
    LinesAsTyped
    DepartedIsLast
PROPERTY
    QuitEnds
CHECK_DEADLOCK FALSE
