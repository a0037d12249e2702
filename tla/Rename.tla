------------------------------- MODULE Rename -------------------------------
(***************************************************************************)
(* The reorder buffer and the register alias table on the dispatch, commit *)
(* and flush wires they share in riscv_top.v:276-290.  Both are clocked by *)
(* a clock gated with ooo_en, so they step together or not at all.         *)
(***************************************************************************)
EXTENDS Rob

CONSTANTS Reg, X0,
          dest          \* the destination register of an instruction

\* Every instruction has instruction[11:7], read as an integer register unless
\* fp_we_id: also stores and branches, whose field is not a destination.
ASSUME DestAssumption == X0 \in Reg /\ dest \in [Instr -> Reg]

VARIABLES rat_idx, rat_valid

INSTANCE Rat WITH Slots <- Idx

renameVars == <<robVars, ratVars>>

Init == RobInit /\ RatInit(0)

\* final_flush reaches both.
Flush == RobFlush /\ RatFlush

\* One edge.  riscv_top stalls dispatch while rob_full (riscv_top.v:251-257),
\* which the table, unlike the buffer, relies on.
Edge(d, c) ==
    /\ d.en => ~rob_full
    /\ RobUpdate(d, c)
    /\ RatUpdate(d.en, IF d.en THEN dest[d.instr] ELSE X0, tail_ptr,
                 commit_en, dest[commit_entry.instr], head_ptr)

Next == Flush \/ \E d \in Dispatch, c \in Complete : Edge(d, c)

Spec == Init /\ [][Next]_renameVars

-----------------------------------------------------------------------------
\* The types of both components' state.
TypeOK == RobTypeOK /\ RatTypeOK

\* The live writers of register r.
Writers(r) == {i \in Idx : rob_data[i].valid /\ dest[rob_data[i].instr] = r}

\* A renamed register points at a live writer of it, and at the youngest one;
\* a register with a live writer is renamed; x0 never is.  It takes a commit
\* and a dispatch of the same register in one edge, a reused slot number, or a
\* flush to get this wrong (rat.sv:71-100).
RatYoungest ==
    /\ ~rat_valid[X0]
    /\ \A r \in Reg \ {X0} :
          /\ rat_valid[r] <=> Writers(r) # {}
          /\ rat_valid[r] => /\ rat_idx[r] \in Writers(r)
                             /\ \A i \in Writers(r) : Age(i) <= Age(rat_idx[r])
=============================================================================
