CONSTANTS
    Program <- OooControlMix
    RegIdx = {0, 1}
    Val = {v1, v2}
    Junk = junk
    ROB_DEPTH = 6
    IQ_DEPTH = 2
    Modes = {TRUE}
    FsModes = {TRUE}
    Drivers = {"commit"}
SPECIFICATION Spec
INVARIANTS TypeOK DataRight PathRight OccupancyBounded
VIEW View
SYMMETRY Symmetry
