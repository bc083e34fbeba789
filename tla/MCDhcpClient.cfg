SPECIFICATION FairSpec
CONSTANTS
    s1 = s1
    s2 = s2
    relay = relay
    Servers = {s1, s2}
    SourceOf <- MCSourceOf
    Addrs = {a1, a2}
    LeaseTimes = {1, 99}
    INFINITE_LEASETIME = 99
    MAX_DHCP_RETRY = 1
    DHCP_WAIT_TIME = 0
    DefaultCallbacks = TRUE
    None = None
    XidMod = 1
    RxCap = 1
    TickMax = 1
INVARIANTS
    TypeOK
    RequestPinned
    LeasedIpApplied
PROPERTIES
    LeaseKeepsServer
    WaitingEnds
    LeaseIsRenewed
    Acquires
