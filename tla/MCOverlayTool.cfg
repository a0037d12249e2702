SPECIFICATION Spec
CONSTANTS
    W = 16
    Bases <- MCBases
    OverlayLists <- MCLists
    Pads = {0, 5, 40}
    BUF_INCREMENT = 6
    MaxCap = 120
INVARIANTS MergeExact RefsResolve PhandlesUnique SymbolsResolve
PROPERTY Ends
CHECK_DEADLOCK FALSE
