----------------------------- MODULE MCRwEditor -----------------------------
(* Small instance of RwEditor: names with a unit address and without, names *)
(* that are tails of one another, values of odd length, phandles at their  *)
(* limit and -1, overlapping buffers of which one is soon full.             *)
EXTENDS RwEditor

MCBuffers == {[base |-> 0, size |-> 45], [base |-> 41, size |-> 48],
              [base |-> 5, size |-> 84]}
MCNodeNames == {<<97>>, <<97, 64>>}
MCPropNames == {N_phandle, N_linux_phandle}
MCValues == {WordCells(W - 1), <<7>>}
=============================================================================
