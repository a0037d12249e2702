CONSTANTS
    Program <- InOrderMix
    RegIdx = {0, 1}
    Val = {v1, v2}
    Junk = junk
    ROB_DEPTH = 2
    IQ_DEPTH = 1
    Modes = {FALSE}
    FsModes = {FALSE}
    Drivers = {"commit"}
SPECIFICATION Spec
INVARIANTS DataRight PathRight FflagsOnPath TrapsPrecise DecodeSeesFs
VIEW View
SYMMETRY Symmetry
