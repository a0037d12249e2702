--------------------------- MODULE InOrder_proofs ---------------------------
(***************************************************************************)
(* The core.  First its types, for every program, set of registers and     *)
(* values, and depth of the reorder buffer, in both modes and with traps;  *)
(* what rob.sv does by itself is taken from Rob_proofs.  Then the          *)
(* five-stage pipeline in in-order mode: it executes the program's path    *)
(* and nothing else, with the operands and the mstatus.FS that the program *)
(* order gives.                                                            *)
(***************************************************************************)
EXTENDS Pipeline, TLAPS

R == INSTANCE Rob_proofs WITH
         Instr <- [op : Op, rd : RegIdx, bit : BOOLEAN, right : BOOLEAN],
         Result <- Val \cup {Junk}, Target <- {"target"}

\* The reorder buffer of the core is an instance of the one proved about.
LEMMA SameRob ==
    /\ RobTypeOK <=> R!RobTypeOK
    /\ RobWindow <=> R!RobWindow
    /\ RobFlush <=> R!RobFlush
    /\ \A d, c : RobUpdate(d, c) <=> R!RobUpdate(d, c)
    /\ Dispatch = R!Dispatch /\ Complete = R!Complete
<1>1. RobTypeOK <=> R!RobTypeOK
  BY Zenon DEF RobTypeOK, R!RobTypeOK, Idx, R!Idx, Entry, R!Entry
<1>2. RobWindow <=> R!RobWindow
  BY Zenon DEF RobWindow, R!RobWindow, Idx, R!Idx, Age, R!Age, Slot, R!Slot
<1>3. RobFlush <=> R!RobFlush
  BY Zenon DEF RobFlush, R!RobFlush, Idx, R!Idx, Retired, R!Retired
<1>4. ASSUME NEW d, NEW c PROVE RobUpdate(d, c) <=> R!RobUpdate(d, c)
  BY Zenon DEF RobUpdate, R!RobUpdate, Idx, R!Idx, Retired, R!Retired, Completed, R!Completed,
               Dispatched, R!Dispatched, rob_full, R!rob_full, commit_en, R!commit_en,
               commit_entry, R!commit_entry, Inc, R!Inc
<1>5. Dispatch = R!Dispatch /\ Complete = R!Complete
  BY Zenon DEF Dispatch, R!Dispatch, Complete, R!Complete, Idle, R!Idle, Idx, R!Idx
<1> QED BY Zenon, <1>1, <1>2, <1>3, <1>4, <1>5

\* After a step too.
LEMMA SameRobNext == (RobTypeOK' <=> R!RobTypeOK') /\ (RobWindow' <=> R!RobWindow')
<1>1. RobTypeOK' <=> R!RobTypeOK'
  BY Zenon DEF RobTypeOK, R!RobTypeOK, Idx, R!Idx, Entry, R!Entry
<1>2. RobWindow' <=> R!RobWindow'
  BY Zenon DEF RobWindow, R!RobWindow, Idx, R!Idx, Age, R!Age, Slot, R!Slot
<1> QED BY <1>1, <1>2

\* An edge of the buffer with typed ports keeps its types and its window.
LEMMA RobEdge ==
    ASSUME RobTypeOK, RobWindow,
           \/ RobFlush
           \/ \E d \in Dispatch, c \in Complete : RobUpdate(d, c)
           \/ UNCHANGED <<rob_data, head_ptr, tail_ptr, count>>
    PROVE  RobTypeOK' /\ RobWindow'
<1>1. R!RobTypeOK /\ R!RobWindow /\ [R!RobNext]_(R!robVars)
  BY Zenon, SameRob DEF R!RobNext, R!robVars
<1>2. R!RobTypeOK'
  BY <1>1, R!RobTypeStep, PipelineAssumption
<1>3. R!RobWindow'
  BY <1>1, R!RobWindowStep, PipelineAssumption
<1> QED BY <1>2, <1>3, SameRobNext
-----------------------------------------------------------------------------
Data == Val \cup {Junk}

\* The buses carry results.
LEMMA BusTypes ==
    ASSUME NEW s \in Stage, NEW b \in BOOLEAN
    PROVE  /\ int_data(s) \in Data /\ fp_data(s, b) \in Data
           /\ mem_cdb_data(s) \in Data /\ wb_cdb_data(s) \in Data
  BY DEF Stage, Data, int_data, fp_data, mem_cdb_data, wb_cdb_data, bus

\* So does the write port of the register files.
LEMMA WritePortTypes ==
    ASSUME TypeOK
    PROVE  written \in [Reg -> Data]
<1>1. write_data \in Data
  <2>1. commit_entry.result \in Data
    BY DEF TypeOK, RobTypeOK, commit_entry, Entry, Data
  <2>2. int_data(wb) \in Data /\ fp_data(wb, TRUE) \in Data
    BY BusTypes DEF TypeOK
  <2> QED BY <2>1, <2>2 DEF write_data
<1> QED BY <1>1 DEF written, TypeOK, Data

\* The ports of the reorder buffer are driven with what it expects.
LEMMA PortTypes ==
    ASSUME TypeOK, NEW v \in Data
    PROVE  rob_dispatch \in Dispatch /\ cdb(v) \in Complete
<1>1. rob_dispatch \in Dispatch
  <2>1. id.i.op \in Op /\ id.i.rd \in RegIdx /\ id.i.bit \in BOOLEAN
    BY DEF TypeOK, Word
  <2>2. id_right \in BOOLEAN /\ exception_id \in BOOLEAN
    BY DEF TypeOK, id_right, exception_id, decode_exception, fp_opcode
  <2> QED BY <2>1, <2>2 DEF rob_dispatch, Dispatch
<1>2. cdb(v) \in Complete
  <2>1. /\ wb.idx \in Idx /\ wb.exc \in BOOLEAN
        /\ mem.idx \in Idx /\ mem.exc \in BOOLEAN
        /\ ex.idx \in Idx /\ ex.exc \in BOOLEAN
    BY DEF TypeOK, Stage
  <2>2. wb_cdb_data(wb) \in Data /\ mem_cdb_data(mem) \in Data
    BY BusTypes DEF TypeOK
  <2>3. ex_cdb_data(ex.i.op, v) \in Data
    BY DEF ex_cdb_data, bus, Data
  <2>4. pc_sel(wb) \in BOOLEAN /\ pc_sel(mem) \in BOOLEAN /\ pc_sel(ex.i) \in BOOLEAN
    BY DEF pc_sel, TypeOK, Stage, Word
  <2>5. ASSUME NEW i \in Idx, NEW r \in Data, NEW x \in BOOLEAN, NEW p \in BOOLEAN
        PROVE  Completion(i, r, x, p) \in Complete
    BY DEF Completion, Complete, Data
  <2>6. Idle \in Complete
    BY DEF Complete
  <2> QED BY <2>1, <2>2, <2>3, <2>4, <2>5, <2>6 DEF cdb
<1> QED BY <1>1, <1>2

\* What a step does to the reorder buffer is a use of its ports.
LEMMA RobPortsUsed ==
    ASSUME TypeOK, NEW v \in Data, OooUnits(v)
    PROVE  \/ RobFlush
           \/ \E d \in Dispatch, c \in Complete : RobUpdate(d, c)
           \/ UNCHANGED <<rob_data, head_ptr, tail_ptr, count>>
<1>1. CASE ooo_en /\ ~final_flush /\ RobUpdate(rob_dispatch, cdb(v))
  BY <1>1, PortTypes
<1> QED BY <1>1 DEF OooUnits

\* The hazard, dispatch and CDB wires are Boolean.
LEMMA WireTypes ==
    ASSUME TypeOK
    PROVE  /\ exception_id \in BOOLEAN /\ id_right \in BOOLEAN /\ dispatch_en \in BOOLEAN
           /\ grant_ex \in BOOLEAN /\ grant_mem \in BOOLEAN
           /\ pc_next \in {"mtvec", "mepc", "target", "sequential"}
           /\ flush_front \in BOOLEAN
<1>1. exception_id \in BOOLEAN /\ id_right \in BOOLEAN
  BY DEF TypeOK, id_right, exception_id, decode_exception, fp_opcode
<1>2. pc_next \in {"mtvec", "mepc", "target", "sequential"}
  BY DEF pc_next
<1>3. dispatch_en \in BOOLEAN /\ grant_ex \in BOOLEAN /\ grant_mem \in BOOLEAN
  BY DEF TypeOK, Stage, dispatch_en, valid_inst_id_no_stall, grant_ex, grant_mem, grant_wb,
         ex_wants_cdb, mem_wants_cdb
<1>4. flush_front \in BOOLEAN
  BY DEF TypeOK, Stage, RobTypeOK, Entry, flush_front, exception_hazard, control_hazard,
         final_exception, final_mret_exec, final_pc_sel, commit_en, commit_entry, pc_sel
<1> QED BY <1>1, <1>2, <1>3, <1>4

\* One edge keeps the types.
LEMMA TypeStep ==
    ASSUME TypeOK, RobWindow, Next
    PROVE  TypeOK' /\ RobWindow'
<1>1. PICK v \in results, driver \in Drivers :
          /\ MemWb(v) /\ regs' = written /\ CsrFile /\ OooUnits(v) /\ Ghosts(v, driver)
          /\ Trap \/ Return \/ Redirect \/ HazardStall \/ DispatchStall \/ Advance
  BY DEF Next
<1>2. v \in Data
  BY DEF results, Data
<1>3. RobTypeOK' /\ RobWindow'
  BY <1>1, <1>2, RobPortsUsed, RobEdge DEF TypeOK
<1>4. regs' \in [Reg -> Val \cup {Junk}]
  BY <1>1, WritePortTypes DEF Data
<1>5. Bubble \in Word /\ 0 \in Idx
  BY PipelineAssumption DEF Bubble, Word, Op, Idx
<1>6. id' \in [i : Word, ok : BOOLEAN]
  <2>1. NoId \in [i : Word, ok : BOOLEAN]
    BY <1>5 DEF NoId, Fetched
  <2>2. \A i \in Program : Fetched(i, pc_ok) \in [i : Word, ok : BOOLEAN]
    BY PipelineAssumption DEF Fetched, Word, TypeOK
  <2> QED BY <1>1, <2>1, <2>2 DEF Trap, Return, Redirect, HazardStall, DispatchStall,
                                  Advance, Squash, Hold, TypeOK
<1>7. ex' \in [i : Word, exc : BOOLEAN, data : Val \cup {Junk}, valid : BOOLEAN,
               idx : Idx, right : BOOLEAN]
  <2> DEFINE T == [i : Word, exc : BOOLEAN, data : Val \cup {Junk}, valid : BOOLEAN,
                   idx : Idx, right : BOOLEAN]
  <2>1. NoEx \in T
    BY <1>5 DEF NoEx, InEx
  <2>2. read_id \in Data
    BY WritePortTypes DEF read_id, Data
  <2>3. InEx(id.i, exception_id, read_id, dispatch_en,
             IF dispatch_en THEN tail_ptr ELSE 0, id_right) \in T
    BY <2>2, <1>5, WireTypes DEF InEx, TypeOK, Data, RobTypeOK
  <2> HIDE DEF T
  <2>4. ex' \in T
    BY <1>1, <2>1, <2>3 DEF Trap, Return, Redirect, HazardStall, DispatchStall,
                            Advance, Squash, Hold
  <2> QED BY <2>4 DEF T
<1>8. mem' \in Stage /\ wb' \in Stage
  <2>1. NoBack \in Stage
    BY <1>5 DEF NoBack, InBack, Bubble, Stage, Word
  <2>2. InBack(ex.i, ex.exc, v, ex.valid, ex.idx, grant_ex, ex.right) \in Stage
    BY <1>2, WireTypes DEF InBack, Stage, TypeOK, Word, Data
  <2>3. [mem EXCEPT !.done = mem.done \/ grant_mem] \in Stage
    BY WireTypes DEF Stage, TypeOK
  <2> QED BY <1>1, <2>1, <2>2, <2>3 DEF MemWb
<1>9. ooo_en' \in BOOLEAN /\ fs' \in BOOLEAN
  BY <1>1 DEF CsrFile, TypeOK, Stage
<1>10. pc_ok' \in BOOLEAN
  BY <1>1, WireTypes DEF Ghosts, TypeOK, redirect_ok, Stage, RobTypeOK, Entry, commit_entry
<1>11. want' \in {"none", "mtvec", "mepc", "target"}
  BY <1>1 DEF Ghosts, owes, TypeOK
<1>12. gold' \in [Reg -> Val \cup {Junk}]
  <2>1. [gold EXCEPT ![dest(ex.i)] = v] \in [Reg -> Val \cup {Junk}]
    BY <1>2 DEF TypeOK, Data
  <2> QED BY <1>1, <2>1 DEF Ghosts, TypeOK
<1>13. gold_fs' \in BOOLEAN
  BY <1>1 DEF Ghosts, TypeOK, Word
<1> QED BY <1>3, <1>4, <1>6, <1>7, <1>8, <1>9, <1>10, <1>11, <1>12, <1>13 DEF TypeOK

\* The core starts typed and with an empty buffer.
LEMMA TypeInit == Init => TypeOK /\ RobWindow
<1> SUFFICES ASSUME Init PROVE TypeOK /\ RobWindow
  OBVIOUS
<1>1. Bubble \in Word /\ 0 \in Idx
  BY PipelineAssumption DEF Bubble, Word, Op, Idx
<1>2. NoId \in [i : Word, ok : BOOLEAN] /\ NoBack \in Stage
  BY <1>1 DEF NoId, Fetched, NoBack, InBack, Bubble, Stage, Word
<1>3. NoEx \in [i : Word, exc : BOOLEAN, data : Val \cup {Junk}, valid : BOOLEAN,
                idx : Idx, right : BOOLEAN]
  BY <1>1 DEF NoEx, InEx
<1>4. RobTypeOK
  BY <1>1, PipelineAssumption DEF Init, RobTypeOK, Entry, Idx, Bubble, Word
<1>5. RobWindow
  BY PipelineAssumption DEF Init, RobWindow, Age, Slot, Idx
<1>6. /\ regs \in [Reg -> Val \cup {Junk}] /\ gold \in [Reg -> Val \cup {Junk}]
      /\ ooo_en \in BOOLEAN /\ fs \in BOOLEAN /\ gold_fs \in BOOLEAN
  BY PipelineAssumption DEF Init
<1> QED BY <1>2, <1>3, <1>4, <1>5, <1>6 DEF Init, TypeOK

\* A stuttering step changes nothing.
LEMMA TypeStutter == TypeOK /\ RobWindow /\ UNCHANGED vars => TypeOK' /\ RobWindow'
  BY DEF vars, stages, csrs, ghosts, TypeOK, RobTypeOK, RobWindow, Age, Slot

\* Every register of the core keeps its type, and the reorder buffer its window,
\* for every program, in both modes and across switches, traps and flushes
\* (riscv_top.v, rob.sv).
THEOREM PipelineTyping == Spec => []TypeOK
<1>1. TypeOK /\ RobWindow /\ [Next]_vars => TypeOK' /\ RobWindow'
  BY TypeStep, TypeStutter
<1> QED BY <1>1, TypeInit, PTL DEF Spec

-----------------------------------------------------------------------------
(***************************************************************************)
(* In-order mode.                                                          *)
(***************************************************************************)
\* Words that keep the core in in-order mode.
InOrderWord(i) == i.op = "mode" => ~i.bit

InOrderMode == Modes = {FALSE} /\ \A i \in Program : InOrderWord(i)

\* An FP store that excepts because mstatus.FS is Off still writes memory
\* (riscv_top.v:876), so what is said of effects is said of programs without one.
NoFpStores == \A i \in Program : i.op # "fstore"

-----------------------------------------------------------------------------
\* The inductive invariant.

\* In in-order mode only decoding makes exceptions.
Decoded ==
    /\ ~ooo_en
    /\ ex.exc => ex.i.op = "ecall" \/ fp_opcode(ex.i.op)
    /\ mem.exc => mem.op = "ecall" \/ fp_opcode(mem.op)

\* What is in flight is of the kind assumed.
WordsOk == Decoded /\ InOrderWord(id.i) /\ InOrderWord(ex.i) /\ InOrderWord(mem)

\* An instruction in MEM that traps or returns: it flushes what is behind it.
MemTransfers == mem.exc \/ mem.op = "mret"

\* The transfer owed is that of the youngest right instruction, which is in MEM
\* if it traps or returns and in EX otherwise; only behind one that traps or
\* returns does the wrong path get as far as EX, and never further.
OnPath ==
    /\ pc_ok
    /\ id.i.op # "bubble" => id.ok
    /\ want = IF MemTransfers THEN owes(mem, mem.exc) ELSE owes(ex.i, ex.exc)
    /\ ex.right <=> ex.i.op # "bubble" /\ ~MemTransfers
    /\ mem.op # "bubble" => mem.right
    /\ wb.op # "bubble" => wb.right /\ ~wb.exc

\* A write of mstatus.FS is ahead of the register only while it is in MEM.
FsAhead == gold_fs = IF mem.op = "csrfs" THEN mem.bit ELSE fs

\* The register the instruction in EX takes its operand from.
ex_source == <<source(ex.i.op), ex.i.rs>>

\* The program's value of a register is in MEM, else in WB, else in the register
\* file; EX holds what the file holds; and no FP load is in MEM for an instruction
\* in EX that needs it.
ValuesHeld ==
    /\ \A r \in Reg \ {X0} : gold[r] = IF dest(mem) = r /\ ~mem.exc THEN mem.val
                                       ELSE IF dest(wb) = r THEN wb.val
                                       ELSE regs[r]
    /\ gold[X0] = regs[X0]
    /\ ex_source \in Reg \ {X0} => ex.data = regs[ex_source]
    /\ mem.op = "fload" /\ ex.i.op # "bubble" => mem.rd # ex.i.rs

Inv == TypeOK /\ WordsOk /\ OnPath /\ FsAhead /\ ValuesHeld

-----------------------------------------------------------------------------
\* In in-order mode the wires of hazard_unit.v, pc.v and riscv_top.v come down to
\* what MEM and EX hold.
LEMMA InOrderWires ==
    ASSUME TypeOK, Decoded
    PROVE  /\ final_exception = mem.exc
           /\ final_mret_exec <=> mem.op = "mret"
           /\ final_flush <=> MemTransfers
           /\ flush_front <=> MemTransfers \/ pc_sel(ex.i)
           /\ stall <=> data_hazard
           /\ ~dispatch_en
           /\ pc_next = IF MemTransfers THEN owes(mem, mem.exc)
                        ELSE IF pc_sel(ex.i) THEN "target" ELSE "sequential"
<1>1. ~ooo_en
  BY DEF Decoded
<1>2. final_exception = mem.exc /\ (final_mret_exec <=> mem.op = "mret")
  BY <1>1 DEF final_exception, final_mret_exec
<1>3. /\ final_flush <=> MemTransfers
      /\ flush_front <=> MemTransfers \/ pc_sel(ex.i)
  BY <1>1, <1>2 DEF final_flush, flush_front, exception_hazard, control_hazard, final_pc_sel,
                    MemTransfers
<1>4. (stall <=> data_hazard) /\ ~dispatch_en
  BY <1>1 DEF stall, stall_dispatch, dispatch_en
<1>5. data_hazard => ~pc_sel(ex.i)
  BY <1>3 DEF data_hazard
<1>6. final_pc_sel <=> pc_sel(ex.i)
  BY <1>1 DEF final_pc_sel
<1>7. mem.exc \in BOOLEAN
  BY DEF TypeOK, Stage
<1>8. pc_next = IF MemTransfers THEN owes(mem, mem.exc)
                ELSE IF pc_sel(ex.i) THEN "target" ELSE "sequential"
  <2>1. CASE mem.exc
    BY <2>1 DEF pc_next, owes, MemTransfers
  <2>2. CASE ~mem.exc /\ mem.op = "mret"
    <3>1. owes(mem, mem.exc) = "mepc"
      BY <2>2 DEF owes, pc_sel
    <3>2. pc_next = "mepc"
      BY <1>2, <2>2 DEF pc_next
    <3> QED BY <2>2, <3>1, <3>2 DEF MemTransfers
  <2>3. CASE ~MemTransfers /\ pc_sel(ex.i)
    BY <1>2, <1>4, <1>5, <1>6, <2>3 DEF pc_next, MemTransfers
  <2>4. CASE ~MemTransfers /\ ~pc_sel(ex.i)
    BY <1>2, <1>6, <2>4 DEF pc_next, MemTransfers
  <2> QED BY <1>7, <2>1, <2>2, <2>3, <2>4 DEF MemTransfers
<1> QED BY <1>2, <1>3, <1>4, <1>8

\* The front end does one of three things.
LEMMA FrontEnd ==
    ASSUME TypeOK, Decoded,
           Trap \/ Return \/ Redirect \/ HazardStall \/ DispatchStall \/ Advance
    PROVE  \/ flush_front /\ Squash
           \/ ~flush_front /\ data_hazard /\ Hold
           \/ ~flush_front /\ ~data_hazard /\ Advance
  BY InOrderWires DEF Trap, Return, Redirect, HazardStall, DispatchStall, Advance, Decoded,
                      flush_front, exception_hazard, stall_dispatch, data_hazard

\* An instruction that excepts transfers to mtvec only; a bubble not at all.
LEMMA OwesOne ==
    ASSUME NEW i, NEW exc \in BOOLEAN, exc => i.op = "ecall" \/ fp_opcode(i.op)
    PROVE  /\ exc => owes(i, exc) = "mtvec" /\ ~pc_sel(i) /\ i.op # "mret"
           /\ ~exc /\ i.op = "mret" => owes(i, exc) = "mepc" /\ ~pc_sel(i)
           /\ ~exc /\ pc_sel(i) => owes(i, exc) = "target"
           /\ ~exc /\ i.op # "mret" /\ ~pc_sel(i) => owes(i, exc) = "none"
           /\ exc \/ i.op = "mret" \/ pc_sel(i) => i.op # "bubble"
  BY DEF owes, pc_sel, fp_opcode

\* The bubbles that a flush or a stall puts into the stages.
LEMMA Bubbles ==
    /\ NoId.i.op = "bubble" /\ NoEx.i.op = "bubble" /\ NoBack.op = "bubble"
    /\ NoId.i.rs = 0 /\ NoEx.i = Bubble /\ NoBack.rd = 0
    /\ ~NoEx.exc /\ ~NoEx.right /\ ~NoBack.exc /\ ~NoBack.right
  BY DEF NoId, NoEx, NoBack, Fetched, InEx, InBack, Bubble

\* What a step makes of MEM and WB.
LEMMA BackEnd ==
    ASSUME TypeOK, Decoded, NEW v, MemWb(v)
    PROVE  /\ MemTransfers => mem' = NoBack /\ wb' = NoBack
           /\ ~MemTransfers =>
                 /\ mem'.op = ex.i.op /\ mem'.rd = ex.i.rd /\ mem'.bit = ex.i.bit
                 /\ mem'.exc = ex.exc /\ mem'.val = v /\ mem'.right = ex.right
                 /\ wb'.op = mem.op /\ wb'.rd = mem.rd /\ wb'.bit = mem.bit
                 /\ wb'.exc = mem.exc /\ wb'.val = mem.val /\ wb'.right = mem.right
  BY InOrderWires DEF MemWb, InBack, TypeOK, Stage

-----------------------------------------------------------------------------
\* Only fetch brings in words, and only decoding makes exceptions.
LEMMA WordsOkStep ==
    ASSUME InOrderMode, TypeOK, WordsOk, NEW v, MemWb(v), CsrFile,
           Trap \/ Return \/ Redirect \/ HazardStall \/ DispatchStall \/ Advance
    PROVE  WordsOk'
<1>1. Decoded /\ ~ooo_en'
  BY DEF CsrFile, WordsOk, Decoded, InOrderWord
<1>2. InOrderWord(Bubble) /\ InOrderWord(NoBack)
  BY DEF InOrderWord, Bubble, NoBack, InBack
<1>3. InOrderWord(id.i)'
  BY <1>1, <1>2, FrontEnd DEF Squash, Hold, Advance, NoId, Fetched, WordsOk, InOrderMode,
                              InOrderWord
<1>4. InOrderWord(ex.i)' /\ (ex.exc => ex.i.op = "ecall" \/ fp_opcode(ex.i.op))'
  <2>1. CASE ex' = NoEx
    BY <2>1, <1>2, Bubbles DEF InOrderWord
  <2>2. CASE Advance
    BY <2>2 DEF Advance, InEx, exception_id, decode_exception, WordsOk, Decoded, InOrderWord
  <2> QED BY <2>1, <2>2, <1>1, FrontEnd DEF Squash, Hold
<1>5. InOrderWord(mem)' /\ (mem.exc => mem.op = "ecall" \/ fp_opcode(mem.op))'
  BY <1>1, <1>2, BackEnd, Bubbles DEF WordsOk, Decoded, InOrderWord
<1> QED BY <1>1, <1>3, <1>4, <1>5 DEF WordsOk, Decoded

\* One edge keeps to the path: a transfer is owed from the edge that takes its
\* instruction out of ID until the edge that makes it.
LEMMA OnPathStep ==
    ASSUME TypeOK, Decoded, OnPath, NEW v, NEW driver, MemWb(v), Ghosts(v, driver),
           Trap \/ Return \/ Redirect \/ HazardStall \/ DispatchStall \/ Advance
    PROVE  OnPath'
<1>1. /\ mem.exc \in BOOLEAN /\ ex.exc \in BOOLEAN /\ ex.right \in BOOLEAN
      /\ exception_id \in BOOLEAN /\ ~ooo_en
      /\ mem.exc => mem.op = "ecall" \/ fp_opcode(mem.op)
      /\ ex.exc => ex.i.op = "ecall" \/ fp_opcode(ex.i.op)
      /\ exception_id => id.i.op = "ecall" \/ fp_opcode(id.i.op)
  BY WireTypes DEF TypeOK, Stage, Decoded, exception_id, decode_exception
<1>2. /\ MemTransfers => owes(mem, mem.exc) \in {"mtvec", "mepc"} /\ mem.op # "bubble"
      /\ ~MemTransfers /\ pc_sel(ex.i) =>
            owes(ex.i, ex.exc) = "target" /\ ex.i.op # "bubble"
  BY <1>1, OwesOne DEF MemTransfers
<1>3. CASE MemTransfers
  <2>1. flush_front /\ Squash /\ pc_next = owes(mem, mem.exc)
    BY <1>3, FrontEnd, InOrderWires
  <2>2. want' = "none" /\ pc_ok' = redirect_ok(driver)
    BY <2>1, <1>2, <1>3 DEF Ghosts
  <2>3. redirect_ok(driver)
    BY <2>1, <1>1, <1>2, <1>3 DEF redirect_ok, OnPath
  <2>4. id' = NoId /\ ex' = NoEx /\ mem' = NoBack /\ wb' = NoBack
    BY <2>1, <1>3, BackEnd DEF Squash
  <2>5. owes(NoEx.i, NoEx.exc) = "none"
    BY Bubbles DEF owes, pc_sel
  <2> QED BY <2>2, <2>3, <2>4, <2>5, Bubbles DEF OnPath, MemTransfers
<1>4. CASE ~MemTransfers
  <2>1. /\ mem'.op = ex.i.op /\ mem'.rd = ex.i.rd /\ mem'.bit = ex.i.bit
        /\ mem'.exc = ex.exc /\ mem'.right = ex.right
        /\ wb'.op = mem.op /\ wb'.exc = mem.exc /\ wb'.right = mem.right
    BY <1>4, BackEnd
  <2>2. /\ mem'.op # "bubble" => mem'.right
        /\ wb'.op # "bubble" => wb'.right /\ ~wb'.exc
    BY <2>1, <1>4 DEF OnPath, MemTransfers
  <2>3. want = owes(ex.i, ex.exc)
    BY <1>4 DEF OnPath
  <2>4. owes(mem', mem'.exc) = owes(ex.i, ex.exc)
    BY <2>1 DEF owes, pc_sel
  <2>5. CASE flush_front
    <3>1. pc_sel(ex.i) /\ pc_next = "target" /\ Squash
      BY <2>5, <1>4, FrontEnd, InOrderWires
    <3>2. want' = "none" /\ pc_ok' = redirect_ok(driver)
      BY <3>1 DEF Ghosts
    <3>3. redirect_ok(driver)
      BY <3>1, <2>3, <2>5, <1>1, <1>2, <1>4 DEF redirect_ok, OnPath
    <3>4. id' = NoId /\ ex' = NoEx
      BY <3>1 DEF Squash
    <3>5. ~ex.exc /\ ex.i.op # "mret" /\ owes(NoEx.i, NoEx.exc) = "none"
      BY <3>1, <1>1, Bubbles DEF owes, pc_sel, fp_opcode
    <3> QED BY <3>2, <3>3, <3>4, <3>5, <2>1, <2>2, Bubbles DEF OnPath, MemTransfers
  <2>6. CASE ~flush_front
    <3>1. ~pc_sel(ex.i) /\ pc_next = "sequential" /\ (stall <=> data_hazard)
      BY <2>6, <1>4, InOrderWires
    <3>2. pc_ok'
      BY <3>1, <2>6 DEF Ghosts, OnPath
    <3>3. CASE data_hazard
      <4>1. id' = id /\ ex' = NoEx
        BY <3>3, <2>6, FrontEnd DEF Hold
      <4>2. want' = want
        BY <3>1, <3>3 DEF Ghosts
      <4>3. owes(NoEx.i, NoEx.exc) = "none"
        BY Bubbles DEF owes, pc_sel
      <4>4. MemTransfers' <=> ex.exc \/ ex.i.op = "mret"
        BY <2>1 DEF MemTransfers
      <4>5. ~MemTransfers' => owes(ex.i, ex.exc) = "none"
        BY <4>4, <3>1, <1>1, OwesOne
      <4> QED BY <4>1, <4>2, <4>3, <4>5, <3>2, <2>1, <2>2, <2>3, <2>4, Bubbles DEF OnPath
    <3>4. CASE ~data_hazard
      <4>1. /\ ex'.i = id.i /\ ex'.exc = exception_id /\ ex'.right = id_right
            /\ id'.ok = pc_ok
        BY <3>4, <2>6, FrontEnd DEF Advance, InEx, Fetched
      <4>2. want' = IF id_right THEN owes(id.i, exception_id) ELSE want
        BY <3>1, <3>4, <2>6 DEF Ghosts
      <4>3. MemTransfers' <=> ex.exc \/ ex.i.op = "mret"
        BY <2>1 DEF MemTransfers
      <4>4. MemTransfers' <=> owes(ex.i, ex.exc) # "none"
        BY <4>3, <3>1, <1>1, OwesOne
      <4>5. id_right <=> id.i.op # "bubble" /\ ~MemTransfers'
        BY <4>4, <2>3 DEF id_right, OnPath
      <4>6. id.i.op = "bubble" => owes(id.i, exception_id) = "none"
        BY <1>1 DEF owes, pc_sel, fp_opcode
      <4>7. want' = IF MemTransfers' THEN owes(mem', mem'.exc) ELSE owes(id.i, exception_id)
        BY <4>2, <4>4, <4>5, <4>6, <2>3, <2>4
      <4> QED BY <4>1, <4>5, <4>7, <3>2, <2>2 DEF OnPath
    <3> QED BY <3>3, <3>4
  <2> QED BY <2>5, <2>6
<1> QED BY <1>3, <1>4

-----------------------------------------------------------------------------
\* One edge keeps mstatus.FS one write behind at most (csr_file.v).
LEMMA FsAheadStep ==
    ASSUME TypeOK, Decoded, OnPath, FsAhead, NEW v, NEW driver, MemWb(v), CsrFile,
           Ghosts(v, driver)
    PROVE  FsAhead'
<1>1. ~ooo_en /\ (final_flush <=> MemTransfers) /\ (mem.op = "csrfs" => ~MemTransfers)
  BY InOrderWires DEF Decoded, MemTransfers, fp_opcode
<1>2. gold_fs' = IF ~MemTransfers /\ ex.i.op = "csrfs" THEN ex.i.bit ELSE gold_fs
  BY DEF Ghosts, OnPath
<1>3. fs' = IF mem.op = "csrfs" THEN mem.bit ELSE fs
  BY <1>1, InOrderWires DEF CsrFile, csr_write, MemTransfers
<1>4. CASE MemTransfers
  BY <1>1, <1>2, <1>3, <1>4, BackEnd, Bubbles DEF FsAhead
<1>5. CASE ~MemTransfers
  BY <1>2, <1>3, <1>5, BackEnd DEF FsAhead
<1> QED BY <1>4, <1>5

\* The result multiplexers select the unit that computes, but for an FP load in
\* MEM, whose data is not on the FPU's bus.
LEMMA ResultBuses ==
    ASSUME NEW s \in Stage, dest(s) # X0
    PROVE  /\ dest(s) \in Reg
           /\ dest(s)[1] = "x" => int_data(s) = s.val /\ ~fp_we(s.op)
           /\ dest(s)[1] # "x" => /\ fp_data(s, TRUE) = s.val /\ fp_we(s.op)
                                  /\ s.op # "fload" => bus(s.op, s.val, "fpu") = s.val
<1>1. s.op \in Op /\ s.rd \in RegIdx
  BY DEF Stage
<1>2. CASE reg_write(s.op)
  <2>1. dest(s) = <<"x", s.rd>> /\ ~fp_we(s.op)
    BY <1>2 DEF dest, fp_we, reg_write, amo_en, csr_access, csr_write
  <2>2. (IF fp_to_int(s.op) THEN "fpu" ELSE result_sel(s.op)) = Unit(s.op)
    BY <1>2 DEF fp_to_int, result_sel, Unit, fp_opcode, reg_write, amo_en, csr_access, csr_write
  <2> QED BY <1>1, <2>1, <2>2 DEF int_data, bus, Reg
<1>3. CASE ~reg_write(s.op)
  <2>1. fp_we(s.op) /\ dest(s) = <<"f", s.rd>>
    BY <1>3 DEF dest
  <2>2. (IF fp_mem_read(s.op) THEN "mem" ELSE "fpu") = Unit(s.op)
    BY <2>1 DEF fp_we, fp_mem_read, Unit, amo_en, csr_access, csr_write
  <2> QED BY <1>1, <2>1, <2>2 DEF fp_data, fp_mem_read, bus, Reg
<1> QED BY <1>2, <1>3

\* WB writes its instruction's result, and nothing else is written.
LEMMA InOrderWrite ==
    ASSUME TypeOK, Decoded
    PROVE  \A r \in Reg : written[r] = IF r # X0 /\ dest(wb) = r THEN wb.val ELSE regs[r]
<1>1. write_reg = dest(wb)
  BY DEF Decoded, write_reg
<1>2. wb \in Stage
  BY DEF TypeOK
<1>3. dest(wb) # X0 => write_data = wb.val
  BY <1>2, ResultBuses DEF Decoded, write_data
<1> QED BY <1>1, <1>3 DEF written

\* One edge keeps every register's value where the operand multiplexers look.
LEMMA ValuesHeldStep ==
    ASSUME TypeOK, Decoded, OnPath, ValuesHeld, NEW v, NEW driver, MemWb(v), regs' = written,
           Ghosts(v, driver),
           Trap \/ Return \/ Redirect \/ HazardStall \/ DispatchStall \/ Advance
    PROVE  ValuesHeld'
<1>1. /\ ~ooo_en /\ (final_flush <=> MemTransfers)
      /\ gold \in [Reg -> Val \cup {Junk}] /\ X0 \in Reg
  BY InOrderWires, PipelineAssumption DEF Decoded, TypeOK, X0, Reg
<1>2. \A r \in Reg : regs'[r] = IF r # X0 /\ dest(wb) = r THEN wb.val ELSE regs[r]
  BY InOrderWrite
<1>3. \A r \in Reg : gold'[r] = IF ~MemTransfers /\ ~ex.exc /\ r # X0 /\ dest(ex.i) = r
                                  THEN v ELSE gold[r]
  <2>1. dest(ex.i) # X0 => ex.i.op # "bubble"
    BY DEF dest, reg_write, fp_we, amo_en, csr_access, csr_write
  <2> QED BY <1>1, <2>1 DEF Ghosts, OnPath
<1>4. dest(NoBack) = X0
  BY DEF NoBack, InBack, Bubble, dest, X0, reg_write, fp_we, amo_en, csr_access, csr_write
<1>5. ASSUME NEW r \in Reg \ {X0}
      PROVE  gold'[r] = IF dest(mem') = r /\ ~mem'.exc THEN mem'.val
                        ELSE IF dest(wb') = r THEN wb'.val
                        ELSE regs'[r]
  <2>1. gold[r] = IF dest(mem) = r /\ ~mem.exc THEN mem.val
                  ELSE IF dest(wb) = r THEN wb.val ELSE regs[r]
    BY <1>5 DEF ValuesHeld
  <2>2. CASE MemTransfers
    <3>1. ~(dest(mem) = r /\ ~mem.exc)
      BY <1>5, <2>2 DEF MemTransfers, dest, X0, reg_write, fp_we, amo_en, csr_access, csr_write
    <3>2. mem' = NoBack /\ wb' = NoBack
      BY <2>2, BackEnd
    <3> QED BY <3>1, <3>2, <2>1, <2>2, <1>2, <1>3, <1>4, <1>5
  <2>3. CASE ~MemTransfers
    <3>1. dest(mem') = dest(ex.i) /\ mem'.exc = ex.exc /\ mem'.val = v
      BY <2>3, BackEnd DEF dest
    <3>2. dest(wb') = dest(mem) /\ wb'.val = mem.val /\ ~mem.exc
      BY <2>3, BackEnd DEF dest, MemTransfers
    <3> QED BY <3>1, <3>2, <2>1, <2>3, <1>2, <1>3, <1>5
  <2> QED BY <2>2, <2>3
<1>6. gold'[X0] = regs'[X0]
  BY <1>1, <1>2, <1>3 DEF ValuesHeld
<1>7. ex_source' \in Reg \ {X0} => ex'.data = regs'[ex_source']
  <2>1. CASE ex' = NoEx
    <3>1. source(ex'.i.op) = "none"
      BY <2>1, Bubbles DEF source, amo_en
    <3> QED BY <3>1 DEF ex_source, Reg
  <2>2. CASE Advance
    <3>1. ex'.i = id.i /\ ex'.data = read_id
      BY <2>2 DEF Advance, InEx
    <3> QED BY <3>1 DEF ex_source, read_id
  <2> QED BY <2>1, <2>2, FrontEnd DEF Squash, Hold
<1>8. mem'.op = "fload" /\ ex'.i.op # "bubble" => mem'.rd # ex'.i.rs
  <2> SUFFICES ASSUME mem'.op = "fload", ex'.i.op # "bubble" PROVE mem'.rd # ex'.i.rs
    OBVIOUS
  <2>1. ~MemTransfers /\ ex.i.op = "fload" /\ mem'.rd = ex.i.rd
    BY BackEnd, Bubbles
  <2>2. ~flush_front /\ ~data_hazard /\ ex'.i = id.i
    BY FrontEnd, Bubbles DEF Squash, Hold, Advance, InEx
  <2>3. ~load_use_hazard
    BY <2>2 DEF data_hazard
  <2> QED BY <2>1, <2>2, <2>3 DEF load_use_hazard, fp_mem_read
<1> QED BY <1>5, <1>6, <1>7, <1>8 DEF ValuesHeld

-----------------------------------------------------------------------------
\* The empty pipeline satisfies the invariant.
LEMMA InvInit == ASSUME InOrderMode PROVE Init => Inv
<1> SUFFICES ASSUME Init PROVE Inv
  OBVIOUS
<1>1. TypeOK
  BY TypeInit
<1>2. /\ id = NoId /\ ex = NoEx /\ mem = NoBack /\ wb = NoBack /\ ooo_en = FALSE
      /\ pc_ok = TRUE /\ want = "none" /\ gold = regs /\ gold_fs = fs
  BY DEF Init, InOrderMode
<1>3. WordsOk
  BY <1>2, Bubbles DEF WordsOk, Decoded, InOrderWord, NoId, Fetched, Bubble
<1>4. ~MemTransfers /\ owes(NoEx.i, NoEx.exc) = "none"
  BY <1>2, Bubbles DEF MemTransfers, owes, pc_sel
<1>5. OnPath
  BY <1>2, <1>4, Bubbles DEF OnPath
<1>6. FsAhead
  BY <1>2, Bubbles DEF FsAhead
<1>7. dest(NoBack) = X0 /\ source(NoEx.i.op) = "none"
  BY Bubbles DEF dest, X0, source, reg_write, fp_we, amo_en, csr_access, csr_write
<1>8. ValuesHeld
  <2>1. ex_source \notin Reg
    BY <1>2, <1>7 DEF ex_source, Reg
  <2> QED BY <2>1, <1>2, <1>7, Bubbles DEF ValuesHeld
<1> QED BY <1>1, <1>3, <1>5, <1>6, <1>8 DEF Inv

\* Every edge preserves it.
LEMMA InvStep == ASSUME InOrderMode, RobWindow, Inv, [Next]_vars PROVE Inv'
<1>1. CASE Next
  <2>1. TypeOK /\ WordsOk /\ Decoded /\ OnPath /\ FsAhead /\ ValuesHeld
    BY DEF Inv, WordsOk
  <2>2. PICK v \in results, driver \in Drivers :
            /\ MemWb(v) /\ regs' = written /\ CsrFile /\ Ghosts(v, driver)
            /\ Trap \/ Return \/ Redirect \/ HazardStall \/ DispatchStall \/ Advance
    BY <1>1 DEF Next
  <2>3. TypeOK'
    BY <1>1, <2>1, TypeStep
  <2>4. WordsOk'
    BY <2>1, <2>2, WordsOkStep
  <2>5. OnPath'
    BY <2>1, <2>2, OnPathStep
  <2>6. FsAhead'
    BY <2>1, <2>2, FsAheadStep
  <2>7. ValuesHeld'
    BY <2>1, <2>2, ValuesHeldStep
  <2> QED BY <2>3, <2>4, <2>5, <2>6, <2>7 DEF Inv
<1>2. CASE UNCHANGED vars
  <2>1. /\ id' = id /\ ex' = ex /\ mem' = mem /\ wb' = wb /\ regs' = regs
        /\ ooo_en' = ooo_en /\ fs' = fs
        /\ pc_ok' = pc_ok /\ want' = want /\ gold' = gold /\ gold_fs' = gold_fs
    BY <1>2 DEF vars, stages, csrs, ghosts
  <2>2. TypeOK'
    BY <1>2, TypeStutter DEF Inv
  <2> QED BY <2>1, <2>2
          DEF Inv, WordsOk, Decoded, OnPath, FsAhead, ValuesHeld, MemTransfers, ex_source
<1> QED BY <1>1, <1>2

\* The invariant holds of every reachable state.
LEMMA InvAlways == ASSUME InOrderMode PROVE Spec => [](Inv /\ RobWindow)
<1>1. Init => Inv /\ RobWindow
  BY InvInit, TypeInit
<1>2. Inv /\ RobWindow /\ [Next]_vars => (Inv /\ RobWindow)'
  BY InvStep, TypeStep, TypeStutter DEF Inv
<1> QED BY <1>1, <1>2, PTL DEF Spec

\* No FP store is in flight if none is in the program.
StoresOk == id.i.op # "fstore" /\ ex.i.op # "fstore" /\ mem.op # "fstore"

\* Only fetch brings in words.
LEMMA StoresOkAlways == ASSUME InOrderMode, NoFpStores PROVE Spec => []StoresOk
<1>1. Init => StoresOk
  BY Bubbles DEF Init, StoresOk
<1>2. ASSUME Inv, RobWindow, StoresOk, [Next]_vars PROVE StoresOk'
  <2>1. CASE Next
    <3>1. TypeOK /\ Decoded
      BY <1>2 DEF Inv, WordsOk
    <3>2. PICK v \in results :
              /\ MemWb(v)
              /\ Trap \/ Return \/ Redirect \/ HazardStall \/ DispatchStall \/ Advance
      BY <2>1 DEF Next
    <3>3. mem'.op # "fstore"
      BY <1>2, <3>1, <3>2, BackEnd, Bubbles DEF StoresOk
    <3>4. id'.i.op # "fstore" /\ ex'.i.op # "fstore"
      BY <1>2, <3>1, <3>2, FrontEnd, Bubbles
         DEF StoresOk, NoFpStores, Squash, Hold, Advance, InEx, Fetched
    <3> QED BY <3>3, <3>4 DEF StoresOk
  <2>2. CASE UNCHANGED vars
    BY <1>2, <2>2 DEF vars, stages, StoresOk
  <2> QED BY <1>2, <2>1, <2>2
<1>3. Inv /\ RobWindow /\ StoresOk /\ [Next]_vars => StoresOk'
  BY <1>2
<1> QED BY <1>1, <1>3, InvAlways, PTL DEF Spec

-----------------------------------------------------------------------------
\* What a state in which the values are held says of operands and registers.
LEMMA HeldRight == ASSUME TypeOK, Decoded, OnPath, ValuesHeld PROVE DataRight
<1>1. OperandsRight
  <2> DEFINE r == ex_source
  <2> SUFFICES ASSUME ex.right, ~ex.exc, r \in Reg \ {X0} PROVE operand = gold[r]
    BY DEF OperandsRight, ex_source
  <2>1. ~ooo_en /\ ~mem.exc /\ ex.i.op # "bubble" /\ mem \in Stage /\ wb \in Stage
    BY DEF Decoded, OnPath, MemTransfers, TypeOK
  <2>2. gold[r] = IF dest(mem) = r THEN mem.val ELSE IF dest(wb) = r THEN wb.val ELSE regs[r]
    BY <2>1 DEF ValuesHeld
  <2>3. ex.data = regs[r]
    BY DEF ValuesHeld
  <2>4. operand = CASE dest(mem) = r ->
                         IF r[1] = "f" THEN bus(mem.op, mem.val, "fpu") ELSE int_data(mem)
                    [] dest(mem) # r /\ dest(wb) = r ->
                         IF r[1] = "f" THEN fp_data(wb, TRUE) ELSE int_data(wb)
                    [] OTHER -> ex.data
    BY <2>1 DEF operand, ex_source
  <2>5. r[1] \in {"x", "f"} /\ r[2] = ex.i.rs
    BY DEF ex_source, Reg
  <2> HIDE DEF r
  <2>6. CASE dest(mem) = r
    <3>1. r[1] = "f" => mem.op # "fload"
      <4> SUFFICES ASSUME r[1] = "f", mem.op = "fload" PROVE FALSE
        OBVIOUS
      <4>1. dest(mem) = <<"f", mem.rd>>
        BY DEF dest, reg_write, fp_we, amo_en, csr_access, csr_write
      <4> QED BY <4>1, <2>1, <2>5, <2>6 DEF ValuesHeld
    <3> QED BY <3>1, <2>1, <2>2, <2>4, <2>5, <2>6, ResultBuses
  <2>7. CASE dest(mem) # r /\ dest(wb) = r
    BY <2>1, <2>2, <2>4, <2>5, <2>7, ResultBuses
  <2>8. CASE dest(mem) # r /\ dest(wb) # r
    BY <2>2, <2>3, <2>4, <2>8
  <2> QED BY <2>6, <2>7, <2>8 DEF r
<1>2. RegsRight
  <2> SUFFICES ASSUME mem = NoBack, wb = NoBack PROVE regs = gold
    BY DEF RegsRight
  <2>1. dest(NoBack) = X0
    BY DEF NoBack, InBack, Bubble, dest, X0, reg_write, fp_we, amo_en, csr_access, csr_write
  <2>2. \A r \in Reg : gold[r] = regs[r]
    BY <2>1 DEF ValuesHeld
  <2> QED BY <2>2 DEF TypeOK
<1> QED BY <1>1, <1>2 DEF DataRight

\* What a state on the path says of transfers, effects and flushes.
LEMMA PathKept == ASSUME TypeOK, Decoded, OnPath, mem.op = "fstore" => ~mem.exc PROVE PathRight
<1>1. EffectsOnPath
  <2>1. write_reg # X0 => wb.op # "bubble"
    BY DEF Decoded, write_reg, dest, reg_write, fp_we, amo_en, csr_access, csr_write
  <2>2. mem_write(mem.op) => mem.op # "bubble" /\ ~mem.exc
    BY DEF Decoded, mem_write, fp_opcode
  <2>3. csr_write(mem.op) => mem.op # "bubble"
    BY DEF csr_write
  <2> QED BY <2>1, <2>2, <2>3 DEF EffectsOnPath, OnPath, Decoded
<1>2. FlushSparesProgram
  <2>1. (final_flush <=> MemTransfers) /\ (flush_front <=> MemTransfers \/ pc_sel(ex.i))
    BY InOrderWires
  <2>2. mem.exc \in BOOLEAN /\ ex.exc \in BOOLEAN /\ ~ooo_en
    BY DEF TypeOK, Stage, Decoded
  <2>3. MemTransfers => owes(mem, mem.exc) # "none"
    BY <2>2, OwesOne DEF MemTransfers, Decoded
  <2>4. pc_sel(ex.i) => owes(ex.i, ex.exc) # "none"
    BY <2>2, OwesOne DEF Decoded
  <2>5. flush_front => want # "none"
    BY <2>1, <2>3, <2>4 DEF OnPath
  <2> QED BY <2>1, <2>2, <2>5 DEF FlushSparesProgram, OnPath, id_right
<1> QED BY <1>1, <1>2 DEF PathRight, PathFollowed, OnPath

\* The operand an instruction executes with and the register files after the
\* drain are the program's, through forwarding from MEM and WB, the bypass of the
\* write port and the load-use stall (forwarding_unit.v, hazard_unit.v).
THEOREM InOrderDataRight == ASSUME InOrderMode PROVE Spec => []DataRight
<1>1. Inv => DataRight
  BY HeldRight DEF Inv, WordsOk
<1> QED BY <1>1, InvAlways, PTL

\* Every transfer the program owes is made, in time and to the right place; what
\* runs behind one leaves no trace; and no flush takes anything of the program
\* (pc.v, hazard_unit.v, riscv_top.v:438,876,896,963-973).
THEOREM InOrderPathRight == ASSUME InOrderMode, NoFpStores PROVE Spec => []PathRight
<1>1. Inv /\ StoresOk => PathRight
  BY PathKept DEF Inv, WordsOk, StoresOk
<1> QED BY <1>1, InvAlways, StoresOkAlways, PTL

\* No instruction behind a trap or a return, and none that excepts, raises FP
\* flags (riscv_top.v:902-903, csr_file.v:153).
THEOREM InOrderFflags == ASSUME InOrderMode PROVE Spec => []FflagsOnPath
<1>1. Inv => FflagsOnPath
  BY InOrderWires DEF Inv, WordsOk, FflagsOnPath, OnPath, fp_fflags_we
<1> QED BY <1>1, InvAlways, PTL

\* A trap is charged to an instruction of the program that is the oldest in
\* flight (riscv_top.v:963-966).
THEOREM InOrderTrapsPrecise == ASSUME InOrderMode PROVE Spec => []TrapsPrecise
<1>1. Inv => TrapsPrecise
  BY InOrderWires DEF Inv, TrapsPrecise, OnPath, WordsOk, Decoded, fp_opcode
<1> QED BY <1>1, InvAlways, PTL

\* Decoding waits for the writes of mstatus.FS before it: csr_hazard covers both
\* stages a write passes before it takes effect (hazard_unit.v:28).
THEOREM InOrderDecodeSeesFs == ASSUME InOrderMode PROVE Spec => []DecodeSeesFs
<1>1. ASSUME Inv PROVE DecodeSeesFs
  <2> SUFFICES ASSUME ~flush_front, ~stall PROVE fs = gold_fs
    BY DEF DecodeSeesFs
  <2>1. ~data_hazard
    BY <1>1, InOrderWires DEF Inv, WordsOk
  <2>2. mem.op # "csrfs"
    BY <2>1 DEF data_hazard, csr_hazard, csr_write
  <2> QED BY <1>1, <2>2 DEF Inv, FsAhead
<1> QED BY <1>1, InvAlways, PTL
=============================================================================
