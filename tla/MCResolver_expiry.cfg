CONSTANTS
    Servers <- MCServers
    Zone <- MCZone
    AddrServer <- MCAddrServer
    RootAddr <- IpRoot
    Requests <- MCRequestsChain
    TTL = 2
    MaxTime = 3
    MaxRequests = 2
SPECIFICATION Spec
CHECK_DEADLOCK FALSE
INVARIANTS
    NoFalseNxDomain
