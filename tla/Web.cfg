SPECIFICATION FairSpec
CONSTANTS
    j1 = j1
    j2 = j2
    Job = {j1, j2}
    Node <- Nodes
    Dist <- Chain
    MaxName = 3
    Quoted <- Quotes
    Plan <- Plans
CHECK_DEADLOCK FALSE
INVARIANTS
    OneUploadWins
    AckedServed
    FileBehindObject
    FetchIsRight
PROPERTIES
    FetchEnds
