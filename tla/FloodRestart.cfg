SPECIFICATION FileSpec
CONSTANTS
    a = a
    b = b
    c = c
    o = o
    Node = {a, b}
    Nbr <- Full
    Bucket <- OneChain
    Obj = {o}
    MaxTtl = 2
    MaxSeq <- Two
    MaxBoot <- ATwo
    MaxNet = 2
    Losing = TRUE
    Duplicating = FALSE
    Expiring = TRUE
CHECK_DEADLOCK FALSE
INVARIANTS
    TypeOK
    TablesAgree
    QueuedImpliesWr
    PendingOnce
    QueuedSeqBound
    PftFresh
PROPERTIES
    ViewMonotone
