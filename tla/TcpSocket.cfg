SPECIFICATION FairSpec
CONSTANTS
    BufSize = 2
    PtrMod = 4
    MaxLen = 3
    MaxBytes = 3
    MaxConns = 2
INVARIANTS
    TypeOK
    StreamsKept
    SendingKnown
PROPERTIES
    SendsInTurn
    ConnectReturns
    RecvReturns
