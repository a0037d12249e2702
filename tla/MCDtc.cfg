SPECIFICATION Spec
CONSTANTS
    TAGSIZE = 2
    HDRSIZE = 4
    RSVSIZE = 2
    W = 1024
    Sources <- MCSources
    Options <- MCOptions
INVARIANTS SourceMeaning OutputUnique RefsExact RoundTrip FixupsExact
CHECK_DEADLOCK FALSE
