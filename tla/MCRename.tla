------------------------------ MODULE MCRename ------------------------------
(***************************************************************************)
(* Rename with a buffer of three slots and one renamable register beside   *)
(* x0: the pointers wrap, the buffer fills, a younger entry completes      *)
(* before two older ones, two live writers of one register, slot reuse     *)
(* after the wrap, and a commit and a dispatch of one register in the same *)
(* edge all happen.  Two more registers would only repeat x1.              *)
(***************************************************************************)
EXTENDS Rename

\* An instruction is known by its destination.
MCdest == [r \in Reg |-> r]

=============================================================================
