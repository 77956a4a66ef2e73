CONSTANTS
    Procs <- MCProcs
    First = "local"
    TableOf <- MCTableOf
    Schema <- MCSchema
    DefaultRows <- MCDefaultRows
    MaxLookups = 2
    MaxCrashes = 1
SPECIFICATION Spec
\* Each process stops after its bounded lookups.
CHECK_DEADLOCK FALSE
INVARIANT
    LookupsComplete
