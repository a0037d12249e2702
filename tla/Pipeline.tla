------------------------------ MODULE Pipeline ------------------------------
(***************************************************************************)
(* The core, src/rtl/core/riscv_top.v: the five-stage pipeline with its    *)
(* hazard and forwarding units, the register files, the CDB, the reorder   *)
(* buffer and the issue queue, in both modes of moooctrl (CSR 0x7C0).  One *)
(* step is one edge of global_gated_clk.                                   *)
(*                                                                         *)
(* Instruction memory is external: a fetch may return any word of Program, *)
(* so addresses are left out and a ghost records whether fetch is on the   *)
(* program's path.  Computed values are chosen from Val when an            *)
(* instruction executes and travel on the bus of the unit that computes    *)
(* them; every other bus carries Junk for that instruction.                *)
(*                                                                         *)
(* Ghosts: ok (fetched from the right address, given the older             *)
(* instructions then in the back end), right (on the program's path), want *)
(* (the control transfer that the youngest right instruction owes), gold   *)
(* and gold_fs (registers and mstatus.FS after the instructions of the     *)
(* program's path that have left EX).                                      *)
(***************************************************************************)
EXTENDS Naturals, Sequences, InstrClass

CONSTANTS Program,        \* instruction words that a fetch may return
          RegIdx,         \* register numbers, with 0
          Val, Junk,      \* results, and a bus that carries something else
          ROB_DEPTH, IQ_DEPTH,
          Modes, FsModes, \* values of moooctrl and of mstatus.FS # Off at the start
          Drivers         \* which drivers of the net final_pc_target can win

\* Instruction words, values and registers are what the operators expect.
ASSUME PipelineAssumption ==
    /\ Program \subseteq [op : Op, rd : RegIdx, rs : RegIdx, bit : BOOLEAN]
    /\ 0 \in RegIdx /\ RegIdx \subseteq Nat
    /\ Junk \notin Val /\ Val # {}
    /\ Modes \subseteq BOOLEAN /\ FsModes \subseteq BOOLEAN
    /\ Drivers \subseteq {"commit", "ex"}
    /\ ROB_DEPTH \in Nat \ {0} /\ IQ_DEPTH \in Nat \ {0}

VARIABLES id, ex, mem, wb,                        \* the stages
          regs,                                   \* register_file and fpr
          ooo_en, fs,                             \* csr_file: moooctrl, mstatus.FS
          rob_data, head_ptr, tail_ptr, count,    \* rob
          entries,                                \* iq
          pc_ok, want, gold, gold_fs              \* ghosts

Word == [op : Op, rd : RegIdx, rs : RegIdx, bit : BOOLEAN]

INSTANCE Rob WITH Instr <- [op : Op, rd : RegIdx, bit : BOOLEAN, right : BOOLEAN],
                  Result <- Val \cup {Junk}, Target <- {"target"}

INSTANCE Iq WITH Src <- {}, Slots <- Idx, Data <- {}

stages == <<id, ex, mem, wb>>
csrs == <<ooo_en, fs>>
ghosts == <<pc_ok, want, gold, gold_fs>>
vars == <<stages, regs, csrs, rob_data, head_ptr, tail_ptr, count, entries, ghosts>>

Reg == {"x", "f"} \X RegIdx
X0 == <<"x", 0>>

-----------------------------------------------------------------------------
\* The stages.

Fetched(i, ok) == [i |-> i, ok |-> ok]

InEx(i, exc, data, valid, idx, right) ==
    [i |-> i, exc |-> exc, data |-> data, valid |-> valid, idx |-> idx, right |-> right]

\* MEM and WB: done is cdb_done; the operand is not kept.
InBack(i, exc, val, valid, idx, done, right) ==
    [op |-> i.op, rd |-> i.rd, bit |-> i.bit, exc |-> exc, val |-> val,
     valid |-> valid, idx |-> idx, done |-> done, right |-> right]

NoId == Fetched(Bubble, FALSE)
NoEx == InEx(Bubble, FALSE, Junk, FALSE, 0, FALSE)
NoBack == InBack(Bubble, FALSE, Junk, FALSE, 0, FALSE, FALSE)

\* The register an instruction in EX or later writes: X0 if it writes none.
dest(i) == CASE reg_write(i.op) -> <<"x", i.rd>>
             [] fp_we(i.op)     -> <<"f", i.rd>>
             [] OTHER           -> X0

-----------------------------------------------------------------------------
\* The result buses.

\* What instruction op, with result v, puts on the output of a unit.
bus(op, v, unit) == IF unit = Unit(op) THEN v ELSE Junk

int_data(s) == bus(s.op, s.val, IF fp_to_int(s.op) THEN "fpu" ELSE result_sel(s.op))

\* FP results are NaN-boxed by their format, which in OoO mode is not the
\* instruction's own: MEM takes it from complete_instruction, which nothing
\* drives, and WB from the instruction on the CDB.  A single is boxed already and
\* comes through; a double that is taken for a single loses its upper half.
fp_data(s, as_double) == IF double(s) /\ ~as_double THEN Junk
                         ELSE bus(s.op, s.val, IF fp_mem_read(s.op) THEN "mem" ELSE "fpu")

\* MEM and WB on the CDB.
mem_cdb_data(s) == IF fp_we(s.op) THEN fp_data(s, FALSE) ELSE int_data(s)

wb_cdb_data(s) == IF fp_we(s.op) THEN fp_data(s, TRUE) ELSE int_data(s)

\* EX on the CDB.
ex_cdb_data(op, v) ==
    bus(op, v, IF fp_we(op) THEN "fpu" ELSE IF result_sel(op) = "pc4" THEN "pc4" ELSE "alu")

-----------------------------------------------------------------------------
\* Commit, and what the two modes take from it.

commit_writes == commit_en /\ dest(commit_entry.instr) # X0

final_exception == IF ooo_en THEN commit_entry.exception ELSE mem.exc

FinalPcSelAtEx == pc_sel(ex.i)

final_pc_sel == IF ooo_en THEN commit_en /\ commit_entry.branch_mispredicted
                          ELSE pc_sel(ex.i)

final_mret_exec == IF ooo_en THEN commit_en /\ commit_entry.instr.op = "mret"
                             ELSE mem.op = "mret"

final_flush == final_exception \/ (ooo_en /\ final_pc_sel) \/ final_mret_exec

\* The write port of the register files: the register, X0 for none, and the data.
write_reg == IF ooo_en
               THEN IF commit_writes /\ ~commit_entry.exception
                      THEN dest(commit_entry.instr) ELSE X0
               ELSE dest(wb)

write_data == IF ooo_en THEN commit_entry.result
              ELSE IF fp_we(wb.op) THEN fp_data(wb, TRUE) ELSE int_data(wb)

written == [r \in Reg |-> IF r = write_reg /\ r # X0 THEN write_data ELSE regs[r]]

-----------------------------------------------------------------------------
\* hazard_unit.v.

exception_hazard == final_exception \/ final_mret_exec

control_hazard == final_pc_sel

\* Mutant of load_use_hazard: FP loads are forgotten.
LoadUseIntOnly == ex.i.op \in {"load", "amo"} /\ ex.i.rd # 0 /\ ex.i.rd = id.i.rs

load_use_hazard ==
    \/ mem_read(ex.i.op) /\ ex.i.rd # 0 /\ ex.i.rd = id.i.rs
    \/ fp_mem_read(ex.i.op) /\ ex.i.rd = id.i.rs

\* Mutant of csr_hazard: the write in MEM is forgotten.
CsrHazardExOnly == csr_write(ex.i.op)

csr_hazard == csr_write(ex.i.op) \/ csr_write(mem.op)

fflags_hazard == csr_access(id.i.op) /\ (fp_fflags_we(ex.i.op) \/ fp_fflags_we(mem.op))

flush_front == exception_hazard \/ control_hazard

data_hazard == ~flush_front /\ (load_use_hazard \/ csr_hazard \/ fflags_hazard)

\* Dispatch, riscv_top.v:240-257.

exception_id == decode_exception(id.i.op, fs)

valid_inst_id_no_stall == id.i.op # "bubble" /\ ~flush_front /\ ~data_hazard

stall_dispatch ==
    /\ ooo_en
    /\ \/ (serializing(id.i.op) \/ exception_id) /\ ~rob_empty
       \/ rob_full
       \/ iq_full
    /\ valid_inst_id_no_stall

stall == data_hazard \/ stall_dispatch

dispatch_en == ooo_en /\ valid_inst_id_no_stall /\ ~stall

\* Mutants of pc_next: a trap, or a return, does not load the program counter; a
\* branch or jump in EX does in both modes.
PcNextNoTrap == CASE final_mret_exec                                -> "mepc"
                  [] ~final_mret_exec /\ ~stall /\ final_pc_sel     -> "target"
                  [] OTHER                                          -> "sequential"

\* pc.v: what the program counter is loaded with.  In OoO mode too a trap is
\* vectored when exception_mem rises, not when it commits.
pc_next == CASE mem.exc                                  -> "mtvec"
             [] ~mem.exc /\ final_mret_exec              -> "mepc"
             [] ~mem.exc /\ ~final_mret_exec /\ ~stall /\ final_pc_sel -> "target"
             [] OTHER                                    -> "sequential"

-----------------------------------------------------------------------------
\* The CDB: one completion per edge, WB before MEM before EX.

\* Loads, AMOs and CSR accesses have their result after MEM.
late_result(op) == mem_read(op) \/ csr_access(op) \/ amo_en(op)

ex_wants_cdb == ex.valid /\ (~(late_result(ex.i.op) \/ mem_write(ex.i.op)) \/ ex.exc)

mem_wants_cdb == mem.valid /\ ((~mem.done /\ ~late_result(mem.op)) \/ mem.exc)

\* Mutant of grant_wb: only exceptions complete from WB.
GrantWbExceptions == wb.valid /\ wb.exc

grant_wb == wb.valid /\ (~wb.done \/ wb.exc)

grant_mem == mem_wants_cdb /\ ~grant_wb

grant_ex == ex_wants_cdb /\ ~grant_wb /\ ~grant_mem

\* The instruction whose index is on cdb_rob_idx is a double's.
cdb_double == CASE grant_wb  -> double(wb)
                [] grant_mem -> double(mem)
                [] OTHER     -> double(ex.i)

Completion(idx, result, exc, sel) ==
    [en |-> TRUE, idx |-> idx, result |-> result, exception |-> exc,
     branch_mispredicted |-> sel, branch_target |-> "target"]

cdb(v) ==
    CASE grant_wb  -> Completion(wb.idx, wb_cdb_data(wb), wb.exc, pc_sel(wb))
      [] grant_mem -> Completion(mem.idx, mem_cdb_data(mem), mem.exc, pc_sel(mem))
      [] grant_ex  -> Completion(ex.idx, ex_cdb_data(ex.i.op, v), ex.exc, pc_sel(ex.i))
      [] OTHER     -> Idle

-----------------------------------------------------------------------------
\* forwarding_unit.v and the operand multiplexers of EX: MEM, WB, the commit
\* port, then what ID read.

\* Mutant of operand: the commit port is not forwarded.
OperandNoCommit ==
    LET r == <<source(ex.i.op), ex.i.rs>>
    IN  CASE r \notin Reg \ {X0}  -> ex.data
          [] r \in Reg \ {X0} /\ dest(mem) = r ->
                IF r[1] = "f" THEN bus(mem.op, mem.val, "fpu") ELSE int_data(mem)
          [] r \in Reg \ {X0} /\ dest(mem) # r /\ dest(wb) = r ->
                IF r[1] = "f" THEN fp_data(wb, ~ooo_en \/ cdb_double) ELSE int_data(wb)
          [] OTHER -> ex.data

operand ==
    LET r == <<source(ex.i.op), ex.i.rs>>
    IN  CASE r \notin Reg \ {X0}  -> ex.data
          [] r \in Reg \ {X0} /\ dest(mem) = r ->
                IF r[1] = "f" THEN bus(mem.op, mem.val, "fpu") ELSE int_data(mem)
          [] r \in Reg \ {X0} /\ dest(mem) # r /\ dest(wb) = r ->
                IF r[1] = "f" THEN fp_data(wb, ~ooo_en \/ cdb_double) ELSE int_data(wb)
          [] OTHER -> IF ooo_en /\ commit_writes /\ dest(commit_entry.instr) = r
                        THEN commit_entry.result ELSE ex.data

\* Mutant of read_id: no bypass from the write port.
ReadIdNoBypass == LET r == <<source(id.i.op), id.i.rs>>
                  IN  IF r \in Reg \ {X0} THEN regs[r] ELSE Junk

\* What ID reads: the write port is bypassed to the read ports.
read_id == LET r == <<source(id.i.op), id.i.rs>>
           IN  IF r \in Reg \ {X0} THEN written[r] ELSE Junk

-----------------------------------------------------------------------------
\* The control transfer an instruction owes.
owes(i, exc) == CASE exc                     -> "mtvec"
                  [] ~exc /\ i.op = "mret"   -> "mepc"
                  [] ~exc /\ pc_sel(i)       -> "target"
                  [] OTHER                   -> "none"

\* The instruction in ID is the program's next.
id_right == id.ok /\ want = "none" /\ id.i.op # "bubble"

\* The transfer being made is the one owed, and made by the one that owes it.
redirect_ok(driver) ==
    /\ flush_front
    /\ want = pc_next
    /\ CASE pc_next = "mtvec"  -> mem.right
         [] pc_next = "mepc"   -> IF ooo_en THEN commit_entry.instr.right ELSE mem.right
         [] pc_next = "target" -> IF ooo_en THEN commit_entry.instr.right /\ driver = "commit"
                                            ELSE ex.right

Ghosts(v, driver) ==
    /\ pc_ok' = IF pc_next # "sequential" THEN redirect_ok(driver)
                                          ELSE pc_ok /\ ~flush_front
    /\ want' = CASE pc_next # "sequential" -> "none"
                 [] pc_next = "sequential" /\ ~flush_front /\ ~stall /\ id_right ->
                        owes(id.i, exception_id)
                 [] OTHER -> want
    /\ gold' = IF ex.right /\ ~ex.exc /\ dest(ex.i) # X0
                 THEN [gold EXCEPT ![dest(ex.i)] = v] ELSE gold
    /\ gold_fs' = IF ex.right /\ ex.i.op = "csrfs" THEN ex.i.bit ELSE gold_fs

-----------------------------------------------------------------------------
\* One edge: the back end.

\* Mutants of MemWb: the flush of EX/MEM forgets the FP enables; the exception.
MemWbKeepsFp(v) ==
    /\ mem' = IF final_flush /\ ~fp_fflags_we(ex.i.op) THEN NoBack
              ELSE InBack(ex.i, ex.exc /\ ~final_flush, v, ex.valid, ex.idx, grant_ex, ex.right)
    /\ wb' = IF final_flush THEN NoBack ELSE [mem EXCEPT !.done = mem.done \/ grant_mem]

MemWbKeepsException(v) ==
    /\ mem' = IF final_flush THEN [NoBack EXCEPT !.exc = ex.exc]
              ELSE InBack(ex.i, ex.exc, v, ex.valid, ex.idx, grant_ex, ex.right)
    /\ wb' = IF final_flush THEN NoBack ELSE [mem EXCEPT !.done = mem.done \/ grant_mem]

MemWb(v) ==
    /\ mem' = IF final_flush THEN NoBack
              ELSE InBack(ex.i, ex.exc, v, ex.valid, ex.idx, grant_ex, ex.right)
    /\ wb' = IF final_flush THEN NoBack ELSE [mem EXCEPT !.done = mem.done \/ grant_mem]

\* csr_file.v: a trap or a return takes precedence over a write.
CsrFile ==
    LET writing == csr_write(mem.op) /\ ~final_exception /\ ~final_mret_exec
    IN  /\ ooo_en' = IF writing /\ mem.op = "mode" THEN mem.bit ELSE ooo_en
        /\ fs' = IF writing /\ mem.op = "csrfs" THEN mem.bit ELSE fs

\* The dispatch ports of the reorder buffer and of the issue queue.
rob_dispatch ==
    IF dispatch_en
      THEN [en |-> TRUE, exception |-> exception_id,
            instr |-> [op |-> id.i.op, rd |-> id.i.rd, bit |-> id.i.bit, right |-> id_right]]
      ELSE Idle

iq_dispatch ==
    IF dispatch_en
      THEN [en |-> TRUE,
            entry |-> [valid |-> TRUE, rob_idx |-> tail_ptr,
                       mem |-> id.i.op \in {"load", "store", "fload", "fstore"},
                       wait |-> << >>, tag |-> << >>, data |-> << >>]]
      ELSE Idle

\* rob, rat and iq are clocked while ooo_en; riscv_top leaves rat's outputs and
\* iq's issue port unread, so only iq's occupancy matters here.
OooUnits(v) ==
    \/ ooo_en /\ final_flush /\ RobFlush /\ IqFlush
    \/ ooo_en /\ ~final_flush /\ RobUpdate(rob_dispatch, cdb(v))
                              /\ IqUpdate(iq_dispatch, Idle, head_ptr)
    \/ ~ooo_en /\ UNCHANGED <<rob_data, head_ptr, tail_ptr, count, entries>>

\* A value is computed for each instruction that writes a register.
results == IF dest(ex.i) = X0 THEN {Junk} ELSE Val

-----------------------------------------------------------------------------
\* One edge: the front end, by what the hazard unit and dispatch decide.

Squash == id' = NoId /\ ex' = NoEx

Hold == id' = id /\ ex' = NoEx

Trap == final_exception /\ Squash

Return == ~final_exception /\ final_mret_exec /\ Squash

Redirect == ~exception_hazard /\ control_hazard /\ Squash

HazardStall == data_hazard /\ Hold

DispatchStall == stall_dispatch /\ Hold

Advance ==
    /\ ~flush_front /\ ~stall
    /\ ex' = InEx(id.i, exception_id, read_id, dispatch_en,
                  IF dispatch_en THEN tail_ptr ELSE 0, id_right)
    /\ \E i \in Program : id' = Fetched(i, pc_ok)

Next ==
    \E v \in results, driver \in Drivers :
        /\ MemWb(v)
        /\ regs' = written
        /\ CsrFile
        /\ OooUnits(v)
        /\ Ghosts(v, driver)
        /\ \/ Trap
           \/ Return
           \/ Redirect
           \/ HazardStall
           \/ DispatchStall
           \/ Advance

\* The pipeline is empty: after reset or, in OoO mode, after the write of
\* moooctrl and a few zero words.
Init ==
    /\ id = NoId /\ ex = NoEx /\ mem = NoBack /\ wb = NoBack
    /\ \E v \in Val : regs = [r \in Reg |-> v]
    /\ ooo_en \in Modes
    /\ fs \in FsModes
    /\ head_ptr = 0 /\ tail_ptr = 0 /\ count = 0
    /\ rob_data = [k \in Idx |-> [valid |-> FALSE, completed |-> FALSE,
                     instr |-> [op |-> "bubble", rd |-> 0, bit |-> FALSE, right |-> FALSE],
                     result |-> Junk, exception |-> FALSE,
                     branch_mispredicted |-> FALSE, branch_target |-> "target"]]
    /\ entries = [k \in QIdx |-> [valid |-> FALSE, rob_idx |-> 0, mem |-> FALSE,
                                  wait |-> << >>, tag |-> << >>, data |-> << >>]]
    /\ pc_ok = TRUE /\ want = "none" /\ gold = regs /\ gold_fs = fs

Spec == Init /\ [][Next]_vars

\* The clock keeps running.
FairSpec == Spec /\ WF_vars(Next)

-----------------------------------------------------------------------------
\* Properties.

Stage == [op : Op, rd : RegIdx, bit : BOOLEAN, exc : BOOLEAN, val : Val \cup {Junk},
          valid : BOOLEAN, idx : Idx, done : BOOLEAN, right : BOOLEAN]

\* The type of every register and ghost of the core.
TypeOK ==
    /\ id \in [i : Word, ok : BOOLEAN]
    /\ ex \in [i : Word, exc : BOOLEAN, data : Val \cup {Junk}, valid : BOOLEAN,
               idx : Idx, right : BOOLEAN]
    /\ mem \in Stage /\ wb \in Stage
    /\ regs \in [Reg -> Val \cup {Junk}] /\ gold \in [Reg -> Val \cup {Junk}]
    /\ RobTypeOK
    /\ pc_ok \in BOOLEAN /\ want \in {"none", "mtvec", "mepc", "target"}
    /\ ooo_en \in BOOLEAN /\ fs \in BOOLEAN /\ gold_fs \in BOOLEAN

\* The operand an instruction executes with is the result of the youngest older
\* writer of its source register, whichever of MEM, WB, the commit port or the
\* register file holds it by then (riscv_top.v:345-363, forwarding_unit.v).
OperandsRight ==
    LET r == <<source(ex.i.op), ex.i.rs>>
    IN  ex.right /\ ~ex.exc /\ r \in Reg \ {X0} => operand = gold[r]

\* Once the back end has drained, the register files hold what the program
\* computed: no write is lost, late or doubled (riscv_top.v:438-440,507-509).
RegsRight ==
    ex = NoEx /\ mem = NoBack /\ wb = NoBack /\ (ooo_en => count = 0) => regs = gold

\* The program counter is loaded out of sequence exactly when the front end is
\* flushed, with the transfer that the youngest instruction of the program owes
\* (pc.v, riscv_top.v:963-973).
PathFollowed == pc_ok

\* Only instructions of the program that do not except write a register, data
\* memory or a CSR (riscv_top.v:438,507,876,896).
EffectsOnPath ==
    /\ write_reg # X0 => IF ooo_en THEN commit_entry.instr.right ELSE wb.right /\ ~wb.exc
    /\ mem_write(mem.op) => mem.right /\ ~mem.exc
    /\ csr_write(mem.op) => mem.right

\* A flush discards nothing of the program: what it removes from ID, EX and the
\* reorder buffer is younger than the instruction it is made for, which alone may
\* leave with it (riscv_top.v:963-973, rob.sv:109-116, hazard_unit.v:37-49).
FlushSparesProgram ==
    /\ flush_front => ~id_right
    /\ final_flush /\ ~ooo_en => ~ex.right
    /\ final_flush /\ ooo_en =>
          \A i \in Idx \ {head_ptr} : rob_data[i].valid => ~rob_data[i].instr.right

\* What is computed is what the program says, whichever stage, port or mode it
\* comes through: operands at execution and registers after the drain
\* (riscv_top.v:345-363,438-440,507-509,643-757).
DataRight == OperandsRight /\ RegsRight

\* What is executed is the program, and nothing else acts: transfers are made,
\* the wrong path leaves no trace, and a flush takes nothing of the right one
\* (pc.v, hazard_unit.v, riscv_top.v:240-257,438,876,963-973).
PathRight == PathFollowed /\ EffectsOnPath /\ FlushSparesProgram

\* Only instructions of the program that do not except raise FP flags
\* (riscv_top.v:902-903, csr_file.v:153).
FflagsOnPath ==
    fp_fflags_we(mem.op) /\ ~final_exception /\ ~final_mret_exec => mem.right /\ ~mem.exc

\* A trap is charged to an instruction of the program that is the oldest one in
\* flight (riscv_top.v:963-966).
TrapsPrecise ==
    final_exception => IF ooo_en THEN commit_en /\ commit_entry.instr.right ELSE mem.right

\* A trap sends fetch to mtvec (riscv_top.v:396-411, pc.v:18-27).
TrapsVector == final_exception => pc_next = "mtvec"

\* An instruction is decoded with the mstatus.FS that the instructions before it
\* leave (hazard_unit.v:28, control_unit.v:588).
DecodeSeesFs == id_right /\ ~flush_front /\ ~stall => fs = gold_fs

\* In-order issue keeps the OoO structures almost empty: whatever the traffic
\* on the CDB, four reorder-buffer entries and one issue-queue entry are never
\* exceeded, so rob_full and iq_full never stall dispatch (riscv_top.v:251).
OccupancyBounded ==
    /\ count <= 4
    /\ \A i, j \in QIdx : entries[i].valid /\ entries[j].valid => i = j

\* A transfer that the program owes is made: the front end does not run down a
\* wrong path, or wait, for ever (riscv_top.v:963-973).
TransfersHappen == (want # "none") ~> (want = "none")

\* Fetch never stops for good (the assertion of src/tb/uvm/riscv_sva.sv:20).
FetchGoesOn == []<>(~stall)
=============================================================================
