CONSTANTS
    Servers <- MCServers
    Zone <- MCZone
    AddrServer <- MCAddrServer
    RootAddr <- IpRoot
    Requests <- MCRequestsCrossType
    TTL = 2
    MaxTime = 0
    MaxRequests = 2
SPECIFICATION Spec
CHECK_DEADLOCK FALSE
INVARIANTS
    NoFalseNxDomain
