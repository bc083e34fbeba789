SPECIFICATION TimedSpec
CONSTANTS
    Servers = {s1}
    SourceOf <- MCSourceOf
    Addrs = {a1}
    LeaseTimes = {26, 27}
    INFINITE_LEASETIME = 99
    MAX_DHCP_RETRY = 2
    DHCP_WAIT_TIME = 1
    DefaultCallbacks = TRUE
    None = None
    XidMod = 1
    RxCap = 1
    TickMax = 16
    SendTicks = 2
    AgeMax = 28
INVARIANTS
    LeaseNotOverrun
    AgeBound
