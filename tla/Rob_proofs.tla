---------------------------- MODULE Rob_proofs ----------------------------
(***************************************************************************)
(* Proofs about the reorder buffer, for every depth and every payload.     *)
(***************************************************************************)
EXTENDS Rob, TLAPS

\* The idle port's enable is low.
LEMMA IdleOff == ~Idle.en
<1>1. Idle.en = FALSE
  BY DEF Idle
<1> QED BY <1>1

\* What every port writes is an entry again.
LEMMA EntryClosed ==
    ASSUME NEW e \in Entry
    PROVE  /\ Retired(e) \in Entry
           /\ \A d \in Dispatch : d.en => Dispatched(e, d) \in Entry
           /\ \A c \in Complete : c.en => Completed(e, c) \in Entry
<1>1. Retired(e) \in Entry
  BY DEF Entry, Retired
<1>2. ASSUME NEW d \in Dispatch, d.en PROVE Dispatched(e, d) \in Entry
  <2>1. d \in [en : {TRUE}, instr : Instr, exception : BOOLEAN]
    BY <1>2, IdleOff DEF Dispatch
  <2> QED BY <2>1 DEF Entry, Dispatched
<1>3. ASSUME NEW c \in Complete, c.en PROVE Completed(e, c) \in Entry
  <2>1. c \in [en : {TRUE}, idx : Idx, result : Result, exception : BOOLEAN,
               branch_mispredicted : BOOLEAN, branch_target : Target]
    BY <1>3, IdleOff DEF Complete
  <2> QED BY <2>1 DEF Entry, Completed
<1> QED BY <1>1, <1>2, <1>3

\* The valid bit each port leaves behind.
LEMMA EntryValid ==
    ASSUME NEW e \in Entry
    PROVE  /\ Retired(e).valid = FALSE
           /\ \A d : Dispatched(e, d).valid = TRUE
           /\ \A c : Completed(e, c).valid = e.valid
  BY DEF Entry, Retired, Dispatched, Completed

\* The instruction each port leaves behind.
LEMMA EntryInstr ==
    ASSUME NEW e \in Entry
    PROVE  /\ Retired(e).instr = e.instr
           /\ \A d : Dispatched(e, d).instr = d.instr
           /\ \A c : Completed(e, c).instr = e.instr
  BY DEF Entry, Retired, Dispatched, Completed

\* A pointer stays a slot number when it advances.
LEMMA IncInIdx == \A p \in Idx : Inc(p) \in Idx
  BY DepthAssumption DEF Idx, Inc

\* What an edge leaves in each entry: its valid bit and its instruction.
LEMMA EdgeEntry ==
    ASSUME RobTypeOK, NEW d \in Dispatch, NEW c \in Complete, RobUpdate(d, c),
           NEW i \in Idx
    PROVE  /\ rob_data'[i].valid <=>
                  /\ rob_data[i].valid \/ (d.en /\ ~rob_full /\ i = tail_ptr)
                  /\ ~(commit_en /\ i = head_ptr)
           /\ rob_data'[i].instr = IF d.en /\ ~rob_full /\ i = tail_ptr
                                     THEN d.instr ELSE rob_data[i].instr
<1> DEFINE dispatching == d.en /\ ~rob_full
           completing  == c.en /\ rob_data[c.idx].valid
           D == IF dispatching /\ i = tail_ptr THEN Dispatched(rob_data[i], d)
                                               ELSE rob_data[i]
           C == IF completing /\ i = c.idx THEN Completed(D, c) ELSE D
<1>0. rob_data[i] \in Entry /\ rob_data[i].valid \in BOOLEAN
  BY DEF RobTypeOK, Entry
<1>1. /\ D \in Entry
      /\ D.valid <=> rob_data[i].valid \/ (dispatching /\ i = tail_ptr)
      /\ D.instr = IF dispatching /\ i = tail_ptr THEN d.instr ELSE rob_data[i].instr
  <2>1. CASE dispatching /\ i = tail_ptr
    BY <2>1, <1>0, EntryClosed, EntryValid, EntryInstr
  <2>2. CASE ~(dispatching /\ i = tail_ptr)
    BY <2>2, <1>0
  <2> QED BY <2>1, <2>2
<1>2. C \in Entry /\ C.valid = D.valid /\ C.instr = D.instr
  <2> HIDE DEF D
  <2>1. CASE completing /\ i = c.idx
    BY <2>1, <1>1, EntryClosed, EntryValid, EntryInstr
  <2>2. CASE ~(completing /\ i = c.idx)
    BY <2>2, <1>1
  <2> QED BY <2>1, <2>2
<1>3. rob_data'[i] = IF commit_en /\ i = head_ptr THEN Retired(C) ELSE C
  BY DEF RobUpdate
<1> HIDE DEF C, D, dispatching
<1>4. rob_data'[i].instr = D.instr
  BY <1>2, <1>3, EntryInstr
<1>5. rob_data'[i].valid <=> D.valid /\ ~(commit_en /\ i = head_ptr)
  <2>1. CASE commit_en /\ i = head_ptr
    BY <2>1, <1>2, <1>3, EntryValid
  <2>2. CASE ~(commit_en /\ i = head_ptr)
    BY <2>2, <1>1, <1>2, <1>3
  <2> QED BY <2>1, <2>2
<1> QED BY <1>1, <1>4, <1>5 DEF dispatching

\* What an edge does to the pointers and to count.
LEMMA EdgePointers ==
    ASSUME RobTypeOK, NEW d, NEW c, RobUpdate(d, c)
    PROVE  LET dispatching == d.en /\ ~rob_full
           IN  /\ tail_ptr' = IF dispatching THEN Inc(tail_ptr) ELSE tail_ptr
               /\ head_ptr' = IF commit_en THEN Inc(head_ptr) ELSE head_ptr
               /\ dispatching /\ ~commit_en => count' = count + 1
               /\ ~dispatching /\ commit_en => count' = count - 1
               /\ (dispatching <=> commit_en) => count' = count
               /\ commit_en => count > 0
               /\ dispatching => count < ROB_DEPTH
  BY DepthAssumption DEF RobUpdate, commit_en, rob_full, RobTypeOK

\* Every use of the ports keeps the types.
LEMMA RobTypeStep ==
    ASSUME RobTypeOK, [RobNext]_robVars
    PROVE  RobTypeOK'
<1> USE DepthAssumption
<1>1. CASE RobFlush
  BY <1>1, EntryClosed DEF RobFlush, RobTypeOK, Idx
<1>2. ASSUME NEW d \in Dispatch, NEW c \in Complete, RobUpdate(d, c)
      PROVE  RobTypeOK'
  <2> DEFINE dispatching == d.en /\ ~rob_full
             completing  == c.en /\ rob_data[c.idx].valid
             D(i) == IF dispatching /\ i = tail_ptr THEN Dispatched(rob_data[i], d)
                                                    ELSE rob_data[i]
             C(i) == IF completing /\ i = c.idx THEN Completed(D(i), c) ELSE D(i)
  <2>1. ASSUME NEW i \in Idx PROVE D(i) \in Entry
    BY EntryClosed DEF RobTypeOK
  <2>2. ASSUME NEW i \in Idx PROVE C(i) \in Entry
    BY <2>1, EntryClosed
  <2>3. rob_data' = [i \in Idx |-> IF commit_en /\ i = head_ptr
                                     THEN Retired(C(i)) ELSE C(i)]
    BY <1>2 DEF RobUpdate
  <2>4. rob_data' \in [Idx -> Entry]
    <3> HIDE DEF C
    <3> QED BY <2>2, <2>3, EntryClosed
  <2>5. head_ptr' \in Idx /\ tail_ptr' \in Idx
    BY <1>2, IncInIdx DEF RobUpdate, RobTypeOK
  <2>6. count' \in 0 .. ROB_DEPTH
    BY <1>2 DEF RobUpdate, RobTypeOK, rob_full, commit_en
  <2> QED BY <2>4, <2>5, <2>6 DEF RobTypeOK
<1>3. CASE UNCHANGED robVars
  BY <1>3 DEF robVars, RobTypeOK
<1> QED BY <1>1, <1>2, <1>3 DEF RobNext

\* The buffer's fields have the types rob.sv declares after every edge.
THEOREM RobTyping == RobSpec => []RobTypeOK
<1>1. RobInit => RobTypeOK
  BY DepthAssumption DEF RobInit, RobTypeOK, Entry, Idx
<1> QED BY <1>1, RobTypeStep, PTL DEF RobSpec

\* Every use of the ports keeps the window of live entries exact: a dispatch
\* needs a free slot at the tail, a commit a live one at the head, and when the
\* buffer is full or empty those are the same slot.
LEMMA RobWindowStep ==
    ASSUME RobTypeOK, RobWindow, [RobNext]_robVars
    PROVE  RobWindow'
<1> USE DepthAssumption
<1>1. CASE RobFlush
  <2>1. \A i \in Idx : ~rob_data'[i].valid
    BY <1>1, EntryValid DEF RobFlush, RobTypeOK
  <2> QED BY <1>1, <2>1 DEF RobFlush, RobWindow, Idx, Age, Slot
<1>2. ASSUME NEW d \in Dispatch, NEW c \in Complete, RobUpdate(d, c)
      PROVE  RobWindow'
  <2> DEFINE dispatching == d.en /\ ~rob_full
  <2>1. ASSUME NEW i \in Idx
        PROVE  rob_data'[i].valid <=> /\ rob_data[i].valid \/ (dispatching /\ i = tail_ptr)
                                      /\ ~(commit_en /\ i = head_ptr)
    BY <1>2, EdgeEntry
  <2>2. /\ tail_ptr' = IF dispatching THEN Inc(tail_ptr) ELSE tail_ptr
        /\ head_ptr' = IF commit_en THEN Inc(head_ptr) ELSE head_ptr
        /\ dispatching /\ ~commit_en => count' = count + 1
        /\ ~dispatching /\ commit_en => count' = count - 1
        /\ (dispatching <=> commit_en) => count' = count
        /\ commit_en => count > 0
        /\ dispatching => count < ROB_DEPTH
    BY <1>2, EdgePointers
  <2> HIDE DEF dispatching
  <2>3. head_ptr \in Idx /\ tail_ptr \in Idx /\ count \in 0 .. ROB_DEPTH
    BY DEF RobTypeOK
  <2>4. CASE dispatching /\ commit_en
    BY <2>1, <2>2, <2>3, <2>4 DEF RobWindow, Idx, Inc, Slot, Age
  <2>5. CASE dispatching /\ ~commit_en
    BY <2>1, <2>2, <2>3, <2>5 DEF RobWindow, Idx, Inc, Slot, Age
  <2>6. CASE ~dispatching /\ commit_en
    BY <2>1, <2>2, <2>3, <2>6 DEF RobWindow, Idx, Inc, Slot, Age
  <2>7. CASE ~dispatching /\ ~commit_en
    BY <2>1, <2>2, <2>3, <2>7 DEF RobWindow, Idx, Inc, Slot, Age
  <2> QED BY <2>4, <2>5, <2>6, <2>7
<1>3. CASE UNCHANGED robVars
  BY <1>3 DEF robVars, RobWindow, Age, Slot
<1> QED BY <1>1, <1>2, <1>3 DEF RobNext

\* The window of live entries is exact after every edge.
THEOREM RobWindowTheorem == RobSpec => []RobWindow
<1> USE DepthAssumption
<1>1. RobInit => RobWindow
  BY DEF RobInit, RobWindow, Age, Slot, Idx
<1> QED BY <1>1, RobTypeStep, RobWindowStep, RobTyping, PTL DEF RobSpec

-----------------------------------------------------------------------------
\* The slot at the tail of a buffer with room is not live, and the slot at the
\* head of one that commits is: dispatch and commit never meet in one slot.
LEMMA PortsApart ==
    ASSUME RobTypeOK, RobWindow
    PROVE  /\ ~rob_full => ~rob_data[tail_ptr].valid
           /\ commit_en => rob_data[head_ptr].valid /\ rob_data[head_ptr].completed
           /\ commit_en /\ ~rob_full => tail_ptr # head_ptr
  BY DepthAssumption DEF RobTypeOK, RobWindow, rob_full, commit_en, commit_entry, Age, Slot, Idx

\* What an edge makes of an entry that it does not retire, whole: dispatched,
\* completed or left alone, never two of them.
LEMMA EdgeWhole ==
    ASSUME RobTypeOK, RobWindow, NEW d, NEW c, RobUpdate(d, c),
           NEW i \in Idx, ~(commit_en /\ i = head_ptr)
    PROVE  rob_data'[i] =
               IF d.en /\ ~rob_full /\ i = tail_ptr THEN Dispatched(rob_data[i], d)
               ELSE IF c.en /\ i = c.idx /\ rob_data[i].valid THEN Completed(rob_data[i], c)
               ELSE rob_data[i]
<1>1. ~(d.en /\ ~rob_full /\ i = tail_ptr /\ rob_data[i].valid)
  BY PortsApart
<1> DEFINE dispatching == d.en /\ ~rob_full
           completing  == c.en /\ rob_data[c.idx].valid
           D == IF dispatching /\ i = tail_ptr THEN Dispatched(rob_data[i], d)
                                               ELSE rob_data[i]
           C == IF completing /\ i = c.idx THEN Completed(D, c) ELSE D
<1>2. rob_data'[i] = C
  BY DEF RobUpdate
<1> QED BY <1>1, <1>2
=============================================================================
