SPECIFICATION Spec
CONSTANTS
    TAGSIZE = 2
    HDRSIZE = 4
    RSVSIZE = 2
    W = 256
    Arena = 89
    Buffers <- MCBuffers
    NodeNames <- MCNodeNames
    PropNames <- MCPropNames
    Values <- MCValues
    MaxCalls = 3
INVARIANTS
    WellFormed
    NavigationAgrees
    LookupsAgree
PROPERTY
    ImplementsDevTree
CHECK_DEADLOCK FALSE
