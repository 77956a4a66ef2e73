CONSTANTS
    Servers <- MCServers
    Zone <- MCZone
    LocalZone <- MCLocalZone
    Questions <- MCQuestions
    Ids <- MCIds
    Commands <- MCCommands
    Endianness = "little"
    LabelBytes <- MCLabelBytes
    AddrBytes <- MCAddrBytes
    MxPref = 3
    BufferSize = 1024
SPECIFICATION Spec
INVARIANTS
    TypeOK
    ExchangeFaithful
    
    ClientAsksReverse
    CompressionShortens
