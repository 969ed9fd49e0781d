SPECIFICATION FairComm
CONSTANTS
    Connections = {c1, c2}
    NoConnection = none
    Lengths = {1, 3, 4}
    BufSize = 4
    ChunkSize = 2
    MaxLines = 2
\* The thread really ends.
CHECK_DEADLOCK FALSE
INVARIANTS
    CommTypeOK
    NoLeak
PROPERTIES
    ImplementsLineLink
    LinesArrive
    LinkEnds
