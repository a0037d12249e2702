----------------------------- MODULE MCSwWriter -----------------------------
(* Small instance of SwWriter: overlapping buffers, names that are tails of *)
(* one another, room for about three tokens.                                *)
EXTENDS SwWriter

MCBuffers == {[base |-> 0, size |-> 21], [base |-> 3, size |-> 28]}
MCNodeNames == {<<5>>}
MCPropNames == {<<5, 6>>, <<6>>}
MCValues == {<<7>>}
MCRsvAddrs == {3}
MCFlags == {0, 1, 2}
=============================================================================
