-------------------------------- MODULE Rat --------------------------------
(***************************************************************************)
(* The register alias table, src/rtl/core/rat.sv: for each architectural   *)
(* register the reorder-buffer slot of its youngest in-flight writer.  The *)
(* integer and the floating-point arrays are one function over Reg; X0 is  *)
(* integer register 0, the only one that is never renamed.                 *)
(***************************************************************************)
CONSTANTS Reg, X0, Slots

VARIABLES rat_idx, rat_valid

ratVars == <<rat_idx, rat_valid>>

RatTypeOK == rat_idx \in [Reg -> Slots] /\ rat_valid \in [Reg -> BOOLEAN]

RatInit(zero) ==
    /\ rat_idx = [r \in Reg |-> zero]
    /\ rat_valid = [r \in Reg |-> FALSE]

\* An edge with flush.
RatFlush ==
    /\ rat_valid' = [r \in Reg |-> FALSE]
    /\ UNCHANGED rat_idx

\* Mutant of RatUpdate: a commit frees the register whoever its writer is.
RatUpdateAnyWriter(den, d, s, cen, c, k) ==
    LET renames(r) == den /\ d = r /\ r # X0
    IN  /\ rat_valid' = [r \in Reg |-> renames(r) \/ (rat_valid[r] /\ ~(cen /\ c = r))]
        /\ rat_idx' = [r \in Reg |-> IF renames(r) THEN s ELSE rat_idx[r]]

\* An edge without flush: the commit of slot k, destination c, if cen; then,
\* overriding it, the dispatch of slot s, destination d, if den.
RatUpdate(den, d, s, cen, c, k) ==
    LET renames(r) == den /\ d = r /\ r # X0
        retires(r) == cen /\ c = r /\ r # X0 /\ rat_idx[r] = k
    IN  /\ rat_valid' = [r \in Reg |-> renames(r) \/ (rat_valid[r] /\ ~retires(r))]
        /\ rat_idx' = [r \in Reg |-> IF renames(r) THEN s ELSE rat_idx[r]]
=============================================================================
