----------------------------- MODULE MCBackend -----------------------------
(***************************************************************************)
(* Backend with a few reorder-buffer slots and two issue-queue entries.    *)
(***************************************************************************)
EXTENDS Backend

MCSlots == Idx

\* What two states that differ in dead fields only have in common: an entry
\* that is not valid is overwritten before it is read, and so are a slot's value
\* once it has been broadcast and the expectations of a free queue entry.
View == <<head_ptr, tail_ptr, count, issued,
          [i \in Idx |-> IF rob_data[i].valid THEN <<rob_data[i].completed>> ELSE << >>],
          [i \in Incomplete |-> value[i]],
          [q \in QIdx |-> IF entries[q].valid THEN <<entries[q], expect[q]>> ELSE << >>]>>
=============================================================================
