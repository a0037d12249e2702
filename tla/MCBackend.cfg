CONSTANTS
    ROB_DEPTH = 3
    IQ_DEPTH = 2
    Instr = {"mem", "other"}
    Result = {v1, v2}
    Data = {v1, v2}
    Target = {t1}
    Src = {1, 2}
    Slots <- MCSlots
SPECIFICATION Spec
INVARIANTS NoLostWakeup OperandsDelivered EachSlotOnce
VIEW View
