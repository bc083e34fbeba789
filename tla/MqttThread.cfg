SPECIFICATION FairSpec
CONSTANTS
    QueueMax = 2
    PublishEvery = 2
INVARIANTS
    TypeOK
    ConnectFirst
    SessionAgreed
    PingUnderWay
PROPERTIES
    Heartbeat
