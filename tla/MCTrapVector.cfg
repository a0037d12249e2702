CONSTANTS
    Program <- EcallMix
    RegIdx = {0, 1}
    Val = {v1, v2}
    Junk = junk
    ROB_DEPTH = 5
    IQ_DEPTH = 2
    Modes = {TRUE}
    FsModes = {TRUE}
    Drivers = {"commit"}
SPECIFICATION Spec
INVARIANT TrapsVector
