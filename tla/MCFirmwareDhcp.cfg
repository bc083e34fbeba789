SPECIFICATION FirmwareSpec
CONSTANTS
    Servers = {s1, s2}
    SourceOf <- MCSourceOf
    Addrs = {a1, a2}
    LeaseTimes = {2}
    INFINITE_LEASETIME = 99
    MAX_DHCP_RETRY = 1
    DHCP_WAIT_TIME = 1
    DefaultCallbacks = FALSE
    None = None
    XidMod = 1
    RxCap = 2
    TickMax = 2
    StaticIP = static
    PollMax = 4
INVARIANTS
    AddressAfterBoot
    ChipBackedByLease
