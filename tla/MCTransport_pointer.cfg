CONSTANTS
    Servers <- MCFarServers
    Zone <- MCFarZone
    LocalZone <- MCLocalZone
    Questions <- MCFarQuestions
    Ids <- MCIds
    Commands <- MCFarCommands
    Endianness = "little"
    LabelBytes <- MCFarLabelBytes
    AddrBytes <- MCFarAddrBytes
    MxPref = 3
    BufferSize = 1024
SPECIFICATION Spec
INVARIANTS
    ExchangeFaithful
