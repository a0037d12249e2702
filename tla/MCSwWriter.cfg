SPECIFICATION Spec
CONSTANTS
    TAGSIZE = 2
    HDRSIZE = 4
    RSVSIZE = 2
    W = 64
    Arena = 32
    Buffers <- MCBuffers
    NodeNames <- MCNodeNames
    PropNames <- MCPropNames
    Values <- MCValues
    RsvAddrs <- MCRsvAddrs
    Flags <- MCFlags
INVARIANTS
    Layout
    TokensIntact
    ReadersAgree
    RefusesOnlyFull
PROPERTY
    FailureKeepsBlob
