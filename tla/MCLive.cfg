CONSTANTS
    Program <- LiveMix
    RegIdx = {0, 1}
    Val = {v1}
    Junk = junk
    ROB_DEPTH = 5
    IQ_DEPTH = 2
    Modes = {FALSE, TRUE}
    FsModes = {TRUE}
    Drivers = {"commit"}
SPECIFICATION FairSpec
PROPERTIES TransfersHappen FetchGoesOn
