CONSTANTS
    Servers <- MCServers
    Zone <- MCZone
    Ids <- MCIds
    Requests <- MCRequests
SPECIFICATION Spec
INVARIANTS
    IdPreserved
