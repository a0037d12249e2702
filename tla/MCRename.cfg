CONSTANTS
    ROB_DEPTH = 3
    X0 = x0
    Reg = {x0, x1}
    Instr = {x0, x1}
    dest <- MCdest
    Result = {r1}
    Target = {t1}
SPECIFICATION Spec
INVARIANTS TypeOK RobWindow RatYoungest
PROPERTY ImplementsCommitQueue
