SPECIFICATION FairSpec
CONSTANTS
    Self = 1
    Nbr <- Neighbours
    Sender <- Senders
    Bucket <- OneChain
    Retran = 1
    MaxSeq <- Seqs
    MaxReply = 1
CHECK_DEADLOCK FALSE
INVARIANTS
    TypeOK
    OnePlace
    DownOnlySpared
PROPERTIES
    KeepsPending
    Retransmitted
