SPECIFICATION FairSpec
CONSTANTS
    n1 = n1
    n2 = n2
    ip1 = ip1
    ip2 = ip2
    Names = {n1, n2}
    Ips = {ip1, ip2}
    AddrsOf <- MCAddrsOf
    NumPorts = 3
    Lifetime = 2
    MAX_DNS_RETRY = 2
    DNS_WAIT_TIME = 2
    RxCap = 2
    None = None
INVARIANTS
    TypeOK
PROPERTIES
    AnswerIsForQuery
    Returns
