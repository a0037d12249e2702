----------------------------- MODULE InstrClass -----------------------------
(***************************************************************************)
(* What control_unit.v decodes, by class of instruction: an instruction is *)
(* [op, rd, rs, bit]: its class, its register fields, and a bit that says  *)
(* whether a branch is taken, what a write of moooctrl or mstatus.FS       *)
(* writes, and whether an FP result is a double.  Register number 0 is x0  *)
(* or f0.  One rs stands for rs1, rs2 and rs3, whose hazard and forwarding *)
(* logic is the same.                                                      *)
(*                                                                         *)
(*   bubble  the all-zero word           alu     R/I-type, LUI, AUIPC      *)
(*   load    LB..LHU                     store   SB..SW                    *)
(*   lr, sc  LR, SC                      amo     the other AMOs            *)
(*   branch  BEQ..BGEU                   jump    JAL, JALR                 *)
(*   csr     a Zicsr write               csrr    CSRRS/CSRRC with rs1 = x0 *)
(*   csrfs   a Zicsr write of mstatus    mode    one of moooctrl (0x7C0)   *)
(*   ecall   ECALL, EBREAK, illegal word mret    MRET                      *)
(*   fpop    FP arithmetic into an FPR   fp2int  FCMP, FCVT/FMV to int     *)
(*   int2fp  FCVT to FP, FMV to an FPR   fence   FENCE                     *)
(*   fload   FLW, FLD                    fstore  FSW, FSD                  *)
(***************************************************************************)

Op == {"bubble", "alu", "load", "store", "lr", "sc", "amo", "branch", "jump", "fence",
       "csr", "csrr", "csrfs", "mode", "ecall", "mret", "fpop", "fp2int", "int2fp",
       "fload", "fstore"}

\* The word a flushed pipeline register holds.
Bubble == [op |-> "bubble", rd |-> 0, rs |-> 0, bit |-> FALSE]

fp_opcode(op) == op \in {"fpop", "fp2int", "int2fp", "fload", "fstore"}

amo_en(op) == op \in {"lr", "sc", "amo"}

csr_write(op) == op \in {"csr", "csrfs", "mode"}

\* csr_op # 00.
csr_access(op) == csr_write(op) \/ op = "csrr"

reg_write(op) == op \in {"alu", "load", "jump", "fp2int"} \/ amo_en(op) \/ csr_access(op)

fp_we(op) == op \in {"fpop", "int2fp", "fload"}

mem_read(op) == op \in {"load", "lr", "amo", "fload"}

mem_write(op) == op \in {"store", "sc", "amo", "fstore"}

fp_mem_read(op) == op = "fload"

fp_to_int(op) == op = "fp2int"

\* FSGNJ, FMV and FCLASS, which raise none, go with the rest of their class: a
\* CSR access behind one is stalled here and not in the code.
fp_fflags_we(op) == op \in {"fpop", "fp2int", "int2fp"}

\* instruction[26:25] says double; in a word that is no FP operation it does not.
double(i) == i.op \in {"fpop", "fp2int", "int2fp"} /\ i.bit

\* The unit whose output the instruction's result really is.
Unit(op) == CASE op \in {"load", "fload"} \/ amo_en(op)  -> "mem"
              [] op = "jump"                            -> "pc4"
              [] csr_access(op)                         -> "csr"
              [] op \in {"fpop", "fp2int", "int2fp"}    -> "fpu"
              [] OTHER                                  -> "alu"

\* The select of the integer result multiplexers; every FP opcode gets 01.
result_sel(op) == IF fp_opcode(op) THEN "mem" ELSE Unit(op)

\* Illegal words and environment calls except, and so does every FP opcode
\* while mstatus.FS is Off (or, which looks the same from here, with an invalid
\* rounding mode); the write enables are left as they are.
decode_exception(op, fs) == op = "ecall" \/ (fp_opcode(op) /\ ~fs)

SerializingButAmos(op) == op \in {"load", "store", "fload", "fstore", "fence", "ecall", "mret"}
                          \/ csr_access(op)

\* riscv_top's is_serialization_req, but for exception_id.
serializing(op) == op \in {"load", "store", "fload", "fstore", "fence", "ecall", "mret"}
                   \/ amo_en(op) \/ csr_access(op)

\* pc_sel_ex: a taken branch or a jump.
pc_sel(i) == (i.op = "branch" /\ i.bit) \/ i.op = "jump"

\* The register an instruction takes its operand from: its kind, x or f.
source(op) == CASE op \in {"fpop", "fp2int", "fstore"}               -> "f"
                [] op \in {"alu", "load", "store", "branch", "jump", "csr", "csrfs",
                           "mode", "int2fp", "fload"} \/ amo_en(op) -> "x"
                [] OTHER                                              -> "none"
=============================================================================
