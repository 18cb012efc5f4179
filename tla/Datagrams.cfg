SPECIFICATION FairSpec
CONSTANTS
    k1 = k1
    k2 = k2
    Client = {k1, k2}
    BUFBLK_SIZE = 7
    MethodRoom = 2
    LenRoom = 3
    Field1Max = 10
    Field2Max = 2
    LcSock = 3
    RdSock = 4
    Fd <- TwoFds
    Plan <- NoPlans
    Junk <- Junks
    Pipelining = TRUE
    Resetting = TRUE
    NoMemory = FALSE
    MaxDgram = 2
CHECK_DEADLOCK FALSE
PROPERTIES
    RuntsDiscarded
