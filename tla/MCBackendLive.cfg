CONSTANTS
    ROB_DEPTH = 3
    IQ_DEPTH = 2
    Instr = {"mem", "other"}
    Result = {v1}
    Data = {v1}
    Target = {t1}
    Src = {1}
    Slots <- MCSlots
SPECIFICATION FairSpec
PROPERTY EntriesLeave
