----------------------------- MODULE MCPipeline -----------------------------
(***************************************************************************)
(* Pipeline with two registers of each kind (number 0 and number 1), and   *)
(* the instruction words that fetch may return, one mix per question.      *)
(***************************************************************************)
EXTENDS Pipeline, TLC

I(op, rd, rs) == [op |-> op, rd |-> rd, rs |-> rs, bit |-> FALSE]
B(op, b) == [op |-> op, rd |-> 0, rs |-> 0, bit |-> b]

\* In-order mode.  Every class but writes of moooctrl and those whose control
\* signals are the union of two listed ones (lr, amo, csr, fence).  An FP store that
\* excepts because FS is Off still writes memory, so FP stores are left out.
InOrderMix ==
    {Bubble, I("alu", 1, 1), I("alu", 0, 1), I("load", 1, 1), I("load", 0, 1),
     I("store", 0, 1), I("sc", 1, 1), B("branch", FALSE), B("branch", TRUE),
     I("jump", 1, 1), I("csrr", 1, 0), B("csrfs", TRUE), B("csrfs", FALSE),
     B("ecall", FALSE), B("mret", FALSE), I("fpop", 1, 1), I("fp2int", 1, 1),
     I("int2fp", 1, 1), I("fload", 1, 1)}

\* In-order mode, then OoO mode once moooctrl has been written: results that
\* EX, MEM and WB put on the CDB, a write of x0, and FP beside integer registers.
OooDataMix ==
    {I("alu", 1, 1), I("load", 1, 1), I("jump", 1, 1), I("fpop", 1, 1),
     I("fload", 1, 1), I("fstore", 0, 1), B("mode", TRUE)}

\* OoO mode, then in-order mode once moooctrl has been cleared: control transfers,
\* and everything that shares the CDB with them.
OooControlMix ==
    {Bubble, I("alu", 1, 1), I("store", 0, 1), I("amo", 1, 1), B("branch", FALSE),
     B("branch", TRUE), I("csr", 1, 1), B("mret", FALSE), B("mode", FALSE)}

\* Transfers and what delays them, in both modes.
LiveMix == {I("load", 1, 1), B("branch", TRUE)}

EcallMix == {I("alu", 1, 1), B("ecall", FALSE)}

\* Instances of the findings that README.md lists without a run.

\* Turning OoO mode on, off and on again.
ModeMix == {I("alu", 1, 1), B("mode", TRUE), B("mode", FALSE)}

FpBranchMix == {I("fpop", 1, 1), I("load", 1, 1), B("branch", TRUE)}

\* Turning OoO mode on with csrrw x1, which reads the old moooctrl.
ModeReadMix == {I("alu", 1, 1), [op |-> "mode", rd |-> 1, rs |-> 0, bit |-> TRUE], Bubble}

FpToIntMix == {I("fp2int", 1, 1), I("alu", 0, 1), Bubble}

\* Doubles, behind loads that take the CDB from them.
FpDoubleMix == {[op |-> "fpop", rd |-> 1, rs |-> 1, bit |-> TRUE], I("load", 1, 1)}

FpStoreMix == {I("alu", 1, 1), I("fstore", 0, 1)}

\* Results are only compared and copied.
Symmetry == Permutations(Val)

\* What two states that differ in dead fields only have in common.  An entry that
\* is not valid is dead but for the exception flag, which riscv_top.v:963 reads
\* without looking at valid; the results of an entry that is not completed are
\* written before they are read (the mixes that run in OoO mode with this view
\* except nowhere, so dispatch completes nothing).
View == <<stages, regs, csrs, head_ptr, tail_ptr, count,
          [i \in Idx |-> CASE ~rob_data[i].valid -> <<rob_data[i].exception>>
                           [] rob_data[i].valid /\ ~rob_data[i].completed ->
                                  <<rob_data[i].exception, rob_data[i].instr>>
                           [] OTHER -> <<rob_data[i]>>],
          [i \in QIdx |-> IF entries[i].valid THEN <<entries[i].rob_idx, entries[i].mem>>
                                              ELSE << >>],
          ghosts>>
=============================================================================
