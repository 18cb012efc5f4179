SPECIFICATION EmptySpec
CONSTANTS
    a = a
    b = b
    c = c
    o = o
    Node = {a, b, c}
    Nbr <- Detour
    Bucket <- OneChain
    Obj = {o}
    MaxTtl = 2
    MaxSeq <- ATwo
    MaxBoot <- One
    MaxNet = 4
    Losing = FALSE
    Duplicating = FALSE
    Expiring = FALSE
CHECK_DEADLOCK FALSE
INVARIANTS
    StoredIsAnnounced
