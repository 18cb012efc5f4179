SPECIFICATION LiveSpec
CONSTANTS
    a = a
    b = b
    c = c
    o = o
    Node = {a, b, c}
    Nbr <- Ring
    Bucket <- OwnChains
    Obj = {o}
    MaxTtl = 3
    MaxSeq <- AThree
    MaxBoot <- One
    MaxNet = 1
    Losing = TRUE
    Duplicating = TRUE
    Expiring = FALSE
CHECK_DEADLOCK FALSE
INVARIANTS
    SeqBelowOwner
    PacketCoherent
    AckSound
    NoAdToOwner
    NothingForgotten
PROPERTIES
    ImplementsDirectory
    Convergence
