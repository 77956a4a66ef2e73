CONSTANTS
    Servers <- MCServers
    Zone <- MCZone
    AddrServer <- MCAddrServer
    RootAddr <- IpRoot
    Requests <- MCRequestsAll
    TTL = 2
    MaxTime = 3
    MaxRequests = 3
SPECIFICATION Spec
\* Once the bounded clients are served the process blocks in accept().
CHECK_DEADLOCK FALSE
INVARIANTS
    TypeOK
    IterativeComplete
    AnswersChained
    EveryQuestionServed
