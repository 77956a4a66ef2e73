CONSTANTS
    Servers <- MCServers
    Zone <- MCZone
    LocalZone <- MCLocalZone
    Questions <- MCRootQuestions
    Ids <- MCIds
    Commands <- MCRootCommands
    Endianness = "little"
    LabelBytes <- MCLabelBytes
    AddrBytes <- MCAddrBytes
    MxPref = 3
    BufferSize = 1024
SPECIFICATION Spec
INVARIANTS
    NoNameUnderflow
