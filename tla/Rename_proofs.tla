--------------------------- MODULE Rename_proofs ---------------------------
(***************************************************************************)
(* The alias table always names the youngest live writer, for every depth, *)
(* every set of registers and every instruction mix.                       *)
(***************************************************************************)
EXTENDS Rename, Rob_proofs

\* Composed with the table, the buffer is used as its own specification allows.
LEMMA RenameUsesRob == Spec => RobSpec
<1>1. Init => RobInit
  BY DEF Init
<1>2. [Next]_renameVars => [RobNext]_robVars
  BY DEF Next, renameVars, robVars, Flush, Edge, RobNext
<1> QED BY <1>1, <1>2, PTL DEF Spec, RobSpec

\* The state of both components keeps its type.
THEOREM RenameTyping == Spec => []TypeOK
<1>1. Init => RatTypeOK
  BY DepthAssumption DEF Init, RatInit, RatTypeOK, Idx
<1>2. RobTypeOK /\ RatTypeOK /\ [Next]_renameVars => RatTypeOK'
  <2> SUFFICES ASSUME RobTypeOK, RatTypeOK, [Next]_renameVars PROVE RatTypeOK'
    OBVIOUS
  <2>1. CASE Flush
    BY <2>1 DEF Flush, RatFlush, RatTypeOK
  <2>2. ASSUME NEW d \in Dispatch, NEW c \in Complete, Edge(d, c) PROVE RatTypeOK'
    BY <2>2 DEF Edge, RatUpdate, RatTypeOK, RobTypeOK
  <2>3. CASE UNCHANGED renameVars
    BY <2>3 DEF renameVars, ratVars, RatTypeOK
  <2> QED BY <2>1, <2>2, <2>3 DEF Next
<1> QED BY <1>1, <1>2, RenameUsesRob, RobTyping, PTL DEF Spec, TypeOK

-----------------------------------------------------------------------------
\* The order of the live entries: the head is the oldest, a free tail is
\* younger than all, and two slots of one age are one slot.
LEMMA AgeOrder ==
    ASSUME RobTypeOK, RobWindow
    PROVE  /\ \A i \in Idx : Age(i) \in 0 .. ROB_DEPTH - 1
           /\ Age(head_ptr) = 0
           /\ \A i \in Idx : Age(i) = 0 => i = head_ptr
           /\ ~rob_full => Age(tail_ptr) = count
           /\ \A i \in Idx : rob_data[i].valid <=> Age(i) < count
  BY DepthAssumption DEF RobTypeOK, RobWindow, rob_full, Age, Slot, Idx

\* A commit makes every other entry one step older relative to the head; no
\* other edge but a flush changes an age.
LEMMA AgeStep ==
    ASSUME RobTypeOK, NEW d, NEW c, RobUpdate(d, c), NEW i \in Idx,
           ~(commit_en /\ i = head_ptr)
    PROVE  Age(i)' = IF commit_en THEN Age(i) - 1 ELSE Age(i)
  BY EdgePointers, DepthAssumption DEF RobTypeOK, Age, Inc, Idx

\* The same for the slot j that the table names after the edge.
LEMMA AgeNamedStep ==
    ASSUME RobTypeOK, NEW d, NEW c, RobUpdate(d, c), NEW r \in Reg,
           NEW j \in Idx, rat_idx'[r] = j, ~(commit_en /\ j = head_ptr)
    PROVE  Age(rat_idx[r])' = IF commit_en THEN Age(j) - 1 ELSE Age(j)
  BY EdgePointers, DepthAssumption DEF RobTypeOK, Age, Inc, Idx

\* The writers of a register after an edge.
LEMMA WritersStep ==
    ASSUME RobTypeOK, RobWindow, NEW d \in Dispatch, NEW c \in Complete, Edge(d, c),
           NEW r \in Reg, NEW i \in Idx
    PROVE  i \in Writers(r)' <=>
              /\ ~(commit_en /\ i = head_ptr)
              /\ IF d.en /\ i = tail_ptr THEN dest[d.instr] = r ELSE i \in Writers(r)
<1>1. RobUpdate(d, c) /\ (d.en => ~rob_full)
  BY DEF Edge
<1>2. /\ rob_data'[i].valid <=> /\ rob_data[i].valid \/ (d.en /\ i = tail_ptr)
                                /\ ~(commit_en /\ i = head_ptr)
      /\ rob_data'[i].instr = IF d.en /\ i = tail_ptr THEN d.instr ELSE rob_data[i].instr
  BY <1>1, EdgeEntry
<1> QED BY <1>2 DEF Writers

\* The alias table points at the youngest live writer of each register.  By
\* induction, from the window of the reorder buffer: a dispatch is younger than
\* everything live, and an entry that retires while the table still names it was
\* the only writer left.
THEOREM RatYoungestTheorem == Spec => []RatYoungest
<1> USE DestAssumption
<1>1. Init => RatYoungest
  BY DEF Init, RobInit, RatInit, RatYoungest, Writers
<1>2. TypeOK /\ RobWindow /\ RatYoungest /\ [Next]_renameVars => RatYoungest'
  <2> SUFFICES ASSUME TypeOK, RobWindow, RatYoungest, [Next]_renameVars
               PROVE  RatYoungest'
    OBVIOUS
  <2> USE DEF TypeOK
  <2>1. CASE Flush
    <3>1. \A i \in Idx : ~rob_data'[i].valid
      BY <2>1, EntryValid DEF Flush, RobFlush, RobTypeOK
    <3> QED BY <2>1, <3>1 DEF Flush, RatFlush, RatYoungest, Writers
  <2>2. ASSUME NEW d \in Dispatch, NEW c \in Complete, Edge(d, c)
        PROVE  RatYoungest'
    <3> DEFINE D == IF d.en THEN dest[d.instr] ELSE X0
               renames(r) == d.en /\ D = r /\ r # X0
               retires(r) == /\ commit_en /\ dest[commit_entry.instr] = r
                             /\ r # X0 /\ rat_idx[r] = head_ptr
    <3>1. \A r \in Reg : /\ rat_valid'[r] <=> renames(r) \/ (rat_valid[r] /\ ~retires(r))
                         /\ rat_idx'[r] = IF renames(r) THEN tail_ptr ELSE rat_idx[r]
      BY <2>2 DEF Edge, RatUpdate
    <3>2. ~rat_valid'[X0]
      BY <3>1 DEF RatYoungest
    <3>3. ASSUME NEW r \in Reg \ {X0}
          PROVE  /\ rat_valid'[r] <=> Writers(r)' # {}
                 /\ rat_valid'[r] => /\ rat_idx'[r] \in Writers(r)'
                                     /\ \A i \in Writers(r)' : Age(i)' <= Age(rat_idx[r])'
      <4>1. RobUpdate(d, c) /\ (d.en => ~rob_full)
        BY <2>2 DEF Edge
      <4>2. \A i \in Idx : i \in Writers(r)' <=>
               /\ ~(commit_en /\ i = head_ptr)
               /\ IF d.en /\ i = tail_ptr THEN dest[d.instr] = r ELSE i \in Writers(r)
        BY <2>2, WritersStep
      <4>3. \A i \in Idx : ~(commit_en /\ i = head_ptr) =>
               Age(i)' = IF commit_en THEN Age(i) - 1 ELSE Age(i)
        BY <4>1, AgeStep
      <4>4. /\ Writers(r) \subseteq Idx /\ Writers(r)' \subseteq Idx
            /\ \A i \in Writers(r) : Age(i) < count /\ dest[rob_data[i].instr] = r
        BY AgeOrder DEF Writers
      <4>5. /\ head_ptr \in Idx /\ tail_ptr \in Idx /\ rat_idx[r] \in Idx
            /\ count \in Nat /\ \A i \in Idx : Age(i) \in Nat
        BY AgeOrder DEF RobTypeOK, RatTypeOK, Idx
      <4>6. commit_en => count > 0
        BY DEF commit_en
      <4>7. d.en => Age(tail_ptr) = count /\ ~(commit_en /\ tail_ptr = head_ptr)
        BY <4>1, <4>6, AgeOrder
      <4>8. CASE renames(r)
        <5>1. tail_ptr \in Writers(r)' /\ rat_idx'[r] = tail_ptr /\ rat_valid'[r]
          BY <4>8, <4>2, <4>5, <4>7, <3>1
        <5>2. Age(rat_idx[r])' = IF commit_en THEN Age(tail_ptr) - 1 ELSE Age(tail_ptr)
          BY <5>1, <4>1, <4>5, <4>7, <4>8, AgeNamedStep
        <5>3. ASSUME NEW i \in Writers(r)' PROVE Age(i)' <= Age(rat_idx[r])'
          <6>1. i \in Idx /\ ~(commit_en /\ i = head_ptr) /\ (i = tail_ptr \/ i \in Writers(r))
            BY <5>3, <4>2, <4>4
          <6>2. Age(i) <= Age(tail_ptr)
            BY <6>1, <4>4, <4>5, <4>7, <4>8
          <6> QED BY <6>1, <6>2, <5>2, <4>3, <4>5
        <5> QED BY <5>1, <5>2, <5>3
      <4>9. CASE ~renames(r)
        <5>1. \A i \in Idx : i \in Writers(r)' <=> ~(commit_en /\ i = head_ptr) /\ i \in Writers(r)
          <6>1. d.en => dest[d.instr] # r /\ tail_ptr \notin Writers(r)
            BY <4>9, <4>4, <4>5, <4>7
          <6> QED BY <6>1, <4>2
        <5>2. rat_idx'[r] = rat_idx[r] /\ (rat_valid'[r] <=> rat_valid[r] /\ ~retires(r))
          BY <4>9, <3>1
        <5>3. CASE ~rat_valid[r]
          BY <5>1, <5>2, <5>3, <4>4 DEF RatYoungest
        <5>4. CASE rat_valid[r] /\ retires(r)
          <6>1. \A i \in Writers(r) : i = head_ptr
            BY <5>4, <4>4, <4>5, AgeOrder DEF RatYoungest
          <6> QED BY <5>1, <5>2, <5>4, <6>1, <4>4
        <5>5. CASE rat_valid[r] /\ ~retires(r)
          <6>1. rat_idx[r] \in Writers(r) /\ ~(commit_en /\ rat_idx[r] = head_ptr)
            BY <5>5, <4>4 DEF RatYoungest, commit_entry
          <6>2. ASSUME NEW i \in Writers(r)' PROVE Age(i)' <= Age(rat_idx[r])'
            <7>1. i \in Idx /\ ~(commit_en /\ i = head_ptr) /\ Age(i) <= Age(rat_idx[r])
              BY <6>2, <5>1, <5>5, <4>4 DEF RatYoungest
            <7>2. Age(rat_idx[r])' = IF commit_en THEN Age(rat_idx[r]) - 1
                                                 ELSE Age(rat_idx[r])
              BY <6>1, <5>2, <4>1, <4>5, AgeNamedStep
            <7> QED BY <7>1, <7>2, <4>3, <4>5
          <6> QED BY <6>1, <6>2, <5>1, <5>2, <5>5, <4>5
        <5> QED BY <5>3, <5>4, <5>5
      <4> QED BY <4>8, <4>9
    <3> QED BY <3>2, <3>3 DEF RatYoungest
  <2>3. CASE UNCHANGED renameVars
    BY <2>3 DEF renameVars, robVars, ratVars, RatYoungest, Writers, Age
  <2> QED BY <2>1, <2>2, <2>3 DEF Next
<1> QED BY <1>1, <1>2, RenameTyping, RenameUsesRob, RobWindowTheorem, PTL DEF Spec
=============================================================================
