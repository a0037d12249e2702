----------------------------- MODULE Ooo_proofs -----------------------------
(***************************************************************************)
(* The core in OoO mode and across one change of moooctrl, for every depth *)
(* of the reorder buffer and of the issue queue and every set of registers *)
(* and values.  First how full the two get, with traps; then what the core *)
(* computes and where it goes, for programs without what is known to break *)
(* OoO mode (PlainWord).                                                   *)
(***************************************************************************)
EXTENDS InOrder_proofs

\* Every word of the program that writes moooctrl writes bit b: the core leaves
\* the mode it starts in at most once.
SwitchesTo(b) == \A i \in Program : i.op = "mode" => i.bit = b

SwitchesOnce == \E b \in BOOLEAN : SwitchesTo(b)

-----------------------------------------------------------------------------
\* The inductive invariant.

SwitchWord(i, b) == i.op = "mode" => i.bit = b

SwitchWords(b) == SwitchWord(id.i, b) /\ SwitchWord(ex.i, b) /\ SwitchWord(mem, b)

One(c) == IF c THEN 1 ELSE 0

\* The instruction as the reorder buffer keeps it.
InstrOf(i, right) == [op |-> i.op, rd |-> i.rd, bit |-> i.bit, right |-> right]

\* The entries whose instructions have left MEM: all but those of EX and MEM.
left == count - One(ex.valid) - One(mem.valid)

\* Every entry of the reorder buffer is the one of the instruction in EX, in MEM or
\* in WB, in this order from the tail, but for one at most that is at the head
\* and has completed, and so commits at this edge.  An instruction that is not
\* done yet still has its entry, and done is what the entry says.
Tracked ==
    /\ left \in 0 .. 2
    /\ left = 1 => rob_data[head_ptr].completed \/ (wb.valid /\ wb.idx = head_ptr)
    /\ left = 2 => rob_data[head_ptr].completed /\ wb.valid /\ wb.idx = Slot(1)
    /\ ex.valid => /\ ex.idx = Slot(count - 1)
                   /\ rob_data[ex.idx].completed <=> ex.exc
                   /\ ex.exc => ex.idx = head_ptr /\ rob_data[ex.idx].exception
    /\ mem.valid => /\ mem.idx = Slot(left) /\ ~mem.exc
                    /\ rob_data[mem.idx].completed <=> mem.done
    /\ wb.valid => /\ ~wb.exc
                   /\ ~wb.done => left > 0 /\ wb.idx = Slot(left - 1)
                   /\ wb.done /\ left > 0 /\ wb.idx = Slot(left - 1) =>
                         rob_data[wb.idx].completed

\* The issue queue holds one entry at most, and it issues at this edge: a memory
\* operation is dispatched into an empty buffer, so its slot is the head.
Issues ==
    /\ \A i, j \in QIdx : entries[i].valid /\ entries[j].valid => i = j
    /\ \A i \in QIdx : entries[i].valid /\ entries[i].mem => entries[i].rob_idx = head_ptr

\* An entry of the queue has the fields of iq_entry_t.
QueueFields == {"valid", "rob_idx", "mem", "wait", "tag", "data"}

QueueShape == \A i \in QIdx : DOMAIN entries[i] = QueueFields

\* Nothing has been dispatched yet.
Unused == count = 0 /\ ~ex.valid /\ ~mem.valid /\ ~wb.valid /\ \A i \in QIdx : ~entries[i].valid

Occupied(b) ==
    /\ SwitchWords(b) /\ QueueShape
    /\ ooo_en => Tracked /\ Issues
    /\ ~ooo_en => IF b THEN Unused ELSE OccupancyBounded

-----------------------------------------------------------------------------
\* The slots from the head are different, those below count are live, and the
\* next dispatch takes the one after them.
LEMMA Slots ==
    ASSUME RobTypeOK, RobWindow
    PROVE  /\ Slot(0) = head_ptr
           /\ \A k \in 0 .. ROB_DEPTH - 1 :
                 /\ Slot(k) \in Idx
                 /\ rob_data[Slot(k)].valid <=> k < count
                 /\ \A m \in 0 .. ROB_DEPTH - 1 : Slot(k) = Slot(m) => k = m
           /\ ~rob_full => tail_ptr = Slot(count)
           /\ rob_empty => count = 0
<1>1. /\ ROB_DEPTH \in Nat \ {0} /\ head_ptr \in Idx /\ tail_ptr \in Idx
      /\ count \in 0 .. ROB_DEPTH
  BY PipelineAssumption DEF RobTypeOK
<1>2. ASSUME NEW k \in 0 .. ROB_DEPTH - 1
      PROVE  Slot(k) \in Idx /\ Age(Slot(k)) = k
  BY <1>1, <1>2 DEF Slot, Age, Idx
<1>3. ASSUME NEW k \in 0 .. ROB_DEPTH - 1
      PROVE  rob_data[Slot(k)].valid <=> k < count
  BY <1>2 DEF RobWindow
<1>4. ~rob_full => tail_ptr = Slot(count)
  BY DEF RobWindow, rob_full
<1>5. rob_empty => count = 0
  <2> SUFFICES ASSUME rob_empty PROVE count = 0
    OBVIOUS
  <2>1. head_ptr = tail_ptr /\ count # ROB_DEPTH /\ tail_ptr = Slot(count)
    BY <1>4 DEF rob_empty, rob_full
  <2> QED BY <1>1, <2>1 DEF Slot, Idx
<1>6. Slot(0) = head_ptr
  BY <1>1 DEF Slot, Idx
<1> QED BY <1>2, <1>3, <1>4, <1>5, <1>6

\* In OoO mode the front end is flushed exactly when the whole machine is.
LEMMA OooFlush ==
    ASSUME ooo_en
    PROVE  /\ final_flush <=> flush_front
           /\ commit_entry.exception => final_flush
  BY DEF final_flush, flush_front, exception_hazard, control_hazard, final_exception

\* What is dispatched finds room, and finds the buffer empty if it serializes.
LEMMA DispatchFinds ==
    ASSUME RobTypeOK, RobWindow, dispatch_en
    PROVE  /\ ooo_en /\ ~flush_front /\ ~rob_full
           /\ serializing(id.i.op) \/ exception_id => count = 0
<1>1. ooo_en /\ valid_inst_id_no_stall /\ ~stall_dispatch
  BY DEF dispatch_en, stall
<1>2. ~rob_full /\ (serializing(id.i.op) \/ exception_id => rob_empty)
  BY <1>1 DEF stall_dispatch
<1> QED BY <1>1, <1>2, Slots DEF valid_inst_id_no_stall

\* What EX holds next, in OoO mode.
LEMMA OooFront ==
    ASSUME ooo_en,
           Trap \/ Return \/ Redirect \/ HazardStall \/ DispatchStall \/ Advance
    PROVE  /\ final_flush => ex' = NoEx
           /\ ~final_flush /\ dispatch_en =>
                 /\ ex'.valid = TRUE /\ ex'.idx = tail_ptr
                 /\ ex'.exc = exception_id
           /\ ~final_flush /\ ~dispatch_en => ex'.valid = FALSE
<1>1. final_flush <=> flush_front
  BY OooFlush
<1>2. CASE flush_front
  <2>1. ex' = NoEx
    BY <1>2 DEF Trap, Return, Redirect, HazardStall, DispatchStall, Advance, Squash, Hold
  <2> QED BY <1>1, <1>2, <2>1
<1>3. CASE ~flush_front
  <2>1. CASE Advance
    <3>1. ex' = InEx(id.i, exception_id, read_id, dispatch_en,
                     IF dispatch_en THEN tail_ptr ELSE 0, id_right)
      BY <2>1 DEF Advance
    <3>2. dispatch_en \in BOOLEAN
      BY DEF dispatch_en, valid_inst_id_no_stall
    <3> QED BY <1>1, <1>3, <3>1, <3>2 DEF InEx
  <2>2. CASE ~Advance
    <3>1. ex' = NoEx /\ stall
      BY <1>3, <2>2 DEF Trap, Return, Redirect, HazardStall, DispatchStall, Hold, Squash, stall,
                       flush_front, exception_hazard
    <3>2. ~dispatch_en /\ NoEx.valid = FALSE
      BY <3>1 DEF dispatch_en, NoEx, InEx
    <3> QED BY <1>1, <1>3, <3>1, <3>2
  <2> QED BY <2>1, <2>2
<1> QED BY <1>2, <1>3

-----------------------------------------------------------------------------
\* What commits at this edge: the completed entry at the head, which is past WB,
\* in WB or in MEM.
LEMMA HeadCommits ==
    ASSUME TypeOK, RobWindow, Tracked, ~commit_entry.exception
    PROVE  /\ left = 2 => commit_en
           /\ left = 1 => (commit_en <=> rob_data[head_ptr].completed)
           /\ left = 0 => (commit_en <=> mem.valid /\ mem.done)
<1>1. /\ RobTypeOK /\ ex.valid \in BOOLEAN /\ mem.valid \in BOOLEAN
      /\ ROB_DEPTH \in Nat \ {0} /\ count \in 0 .. ROB_DEPTH
  BY PipelineAssumption DEF TypeOK, RobTypeOK, Stage
<1>2. commit_en <=> count > 0 /\ rob_data[head_ptr].completed
  <2>1. count > 0 => rob_data[head_ptr].valid
    BY <1>1, Slots
  <2> QED BY <2>1 DEF commit_en, commit_entry
<1>3. left = count - One(ex.valid) - One(mem.valid)
  BY DEF left
<1>4. left = 2 => commit_en
  BY <1>1, <1>2, <1>3 DEF Tracked, One
<1>5. left = 1 => (commit_en <=> rob_data[head_ptr].completed)
  BY <1>1, <1>2, <1>3 DEF One
<1>6. ASSUME left = 0 PROVE commit_en <=> mem.valid /\ mem.done
  <2>1. CASE mem.valid
    <3>1. mem.idx = head_ptr /\ count > 0
      BY <1>1, <1>3, <1>6, <2>1, Slots DEF Tracked, One
    <3> QED BY <1>2, <2>1, <3>1 DEF Tracked
  <2>2. CASE ~mem.valid /\ ex.valid
    <3>1. ex.idx = head_ptr
      BY <1>1, <1>3, <1>6, <2>2, Slots DEF Tracked, One
    <3>2. ~rob_data[head_ptr].exception
      BY DEF commit_entry
    <3> QED BY <1>2, <2>2, <3>1, <3>2 DEF Tracked
  <2>3. CASE ~mem.valid /\ ~ex.valid
    BY <1>1, <1>2, <1>3, <1>6, <2>3 DEF One
  <2> QED BY <1>1, <2>1, <2>2, <2>3
<1> QED BY <1>4, <1>5, <1>6

\* In particular if it does not flush.
LEMMA Commits ==
    ASSUME TypeOK, RobWindow, ooo_en, ~final_flush, Tracked
    PROVE  /\ left = 2 => commit_en
           /\ left = 1 => (commit_en <=> rob_data[head_ptr].completed)
           /\ left = 0 => (commit_en <=> mem.valid /\ mem.done)
  BY OooFlush, HeadCommits

\* Whose slot is on the CDB.
LEMMA Grants ==
    ASSUME TypeOK, Tracked, NEW v
    PROVE  /\ cdb(v).en <=> grant_wb \/ grant_mem \/ grant_ex
           /\ grant_wb => cdb(v).idx = wb.idx
           /\ grant_mem => cdb(v).idx = mem.idx /\ ~grant_wb /\ mem.valid
           /\ grant_ex => cdb(v).idx = ex.idx /\ ~grant_wb /\ ~grant_mem /\ ex.valid
           /\ grant_wb <=> wb.valid /\ ~wb.done
<1>1. grant_wb => cdb(v).en /\ cdb(v).idx = wb.idx
  BY DEF cdb, Completion, grant_mem, grant_ex
<1>2. grant_mem => cdb(v).en /\ cdb(v).idx = mem.idx /\ ~grant_wb /\ mem.valid
  BY DEF cdb, Completion, grant_mem, grant_ex, mem_wants_cdb
<1>3. grant_ex => cdb(v).en /\ cdb(v).idx = ex.idx /\ ~grant_wb /\ ~grant_mem /\ ex.valid
  BY DEF cdb, Completion, grant_ex, ex_wants_cdb
<1>4. ~grant_wb /\ ~grant_mem /\ ~grant_ex => ~cdb(v).en
  BY DEF cdb, Idle
<1>5. grant_wb <=> wb.valid /\ ~wb.done
  BY DEF grant_wb, Tracked, TypeOK, Stage
<1> QED BY <1>1, <1>2, <1>3, <1>4, <1>5

\* The slots of EX, MEM and WB are different, so the CDB completes the one it is
\* granted to; and a live entry of WB is completed by this edge at the latest.
LEMMA Completes ==
    ASSUME TypeOK, RobWindow, Tracked, NEW v
    PROVE  LET on(i) == cdb(v).en /\ cdb(v).idx = i
           IN  /\ ex.valid => (on(ex.idx) <=> grant_ex)
               /\ mem.valid => (on(mem.idx) <=> grant_mem)
               /\ wb.valid /\ left > 0 /\ wb.idx = Slot(left - 1) =>
                     rob_data[wb.idx].completed \/ on(wb.idx)
<1> DEFINE on(i) == cdb(v).en /\ cdb(v).idx = i
<1>1. /\ RobTypeOK /\ ex.valid \in BOOLEAN /\ mem.valid \in BOOLEAN
      /\ ROB_DEPTH \in Nat \ {0} /\ count \in 0 .. ROB_DEPTH
  BY PipelineAssumption DEF TypeOK, RobTypeOK, Stage
<1>2. left = count - One(ex.valid) - One(mem.valid) /\ left \in 0 .. 2
  BY DEF left, Tracked
<1>3. \A k, m \in 0 .. ROB_DEPTH - 1 : Slot(k) = Slot(m) => k = m
  BY <1>1, Slots
<1>4. ex.valid /\ mem.valid => ex.idx # mem.idx
  BY <1>1, <1>2, <1>3 DEF One, Tracked
<1>5. grant_wb /\ mem.valid => wb.idx # mem.idx
  BY <1>1, <1>2, <1>3, Grants DEF One, Tracked
<1>6. grant_wb /\ ex.valid => wb.idx # ex.idx
  BY <1>1, <1>2, <1>3, Grants DEF One, Tracked
<1>7. ex.valid => (on(ex.idx) <=> grant_ex)
  BY <1>4, <1>6, Grants
<1>8. mem.valid => (on(mem.idx) <=> grant_mem)
  BY <1>4, <1>5, Grants
<1>9. wb.valid /\ left > 0 /\ wb.idx = Slot(left - 1) =>
          rob_data[wb.idx].completed \/ on(wb.idx)
  BY Grants DEF Tracked
<1> QED BY <1>7, <1>8, <1>9

\* What an edge without flush makes of the pointers and of the entries it does not
\* retire (rob.sv:118-151).
LEMMA OooEdge ==
    ASSUME TypeOK, RobWindow, ooo_en, NEW v, RobUpdate(rob_dispatch, cdb(v))
    PROVE  /\ head_ptr' = IF commit_en THEN Inc(head_ptr) ELSE head_ptr
           /\ count' = count + One(dispatch_en) - One(commit_en)
           /\ commit_en => count > 0
           /\ dispatch_en => /\ count < ROB_DEPTH /\ tail_ptr = Slot(count)
                             /\ rob_data'[tail_ptr].completed = exception_id
                             /\ rob_data'[tail_ptr].exception = exception_id
                             /\ rob_data'[tail_ptr].instr = InstrOf(id.i, id_right)
           /\ \A k \in 0 .. count - 1 : ~(commit_en /\ k = 0) =>
                 /\ rob_data'[Slot(k)].completed <=>
                       \/ rob_data[Slot(k)].completed
                       \/ cdb(v).en /\ cdb(v).idx = Slot(k)
                 /\ rob_data'[Slot(k)] = IF cdb(v).en /\ cdb(v).idx = Slot(k)
                                           THEN Completed(rob_data[Slot(k)], cdb(v))
                                           ELSE rob_data[Slot(k)]
<1> DEFINE d == rob_dispatch
           c == cdb(v)
<1>1. RobTypeOK /\ ROB_DEPTH \in Nat \ {0} /\ count \in 0 .. ROB_DEPTH
  BY PipelineAssumption DEF TypeOK, RobTypeOK
<1>2. /\ d.en <=> dispatch_en
      /\ dispatch_en => d.exception = exception_id /\ d.instr = InstrOf(id.i, id_right)
  BY DEF rob_dispatch, Idle, InstrOf
<1>3. dispatch_en => ~rob_full /\ count < ROB_DEPTH
  BY <1>1, DispatchFinds DEF rob_full
<1>4. d.en /\ ~rob_full <=> dispatch_en
  BY <1>2, <1>3
<1>5. /\ head_ptr' = IF commit_en THEN Inc(head_ptr) ELSE head_ptr
      /\ count' = count + One(dispatch_en) - One(commit_en)
      /\ commit_en => count > 0
  <2>1. /\ head_ptr' = IF commit_en THEN Inc(head_ptr) ELSE head_ptr
        /\ count' = CASE dispatch_en /\ ~commit_en -> count + 1
                      [] ~dispatch_en /\ commit_en -> count - 1
                      [] OTHER                     -> count
    BY <1>4 DEF RobUpdate
  <2>2. commit_en => count > 0
    BY DEF commit_en
  <2> QED BY <2>1, <2>2, <1>1 DEF One
<1>6. ASSUME NEW i \in Idx, ~(commit_en /\ i = head_ptr)
      PROVE  rob_data'[i] =
               IF dispatch_en /\ i = tail_ptr THEN Dispatched(rob_data[i], d)
               ELSE IF c.en /\ i = c.idx /\ rob_data[i].valid THEN Completed(rob_data[i], c)
               ELSE rob_data[i]
  <2>1. R!RobTypeOK /\ R!RobWindow /\ R!RobUpdate(d, c)
    BY <1>1, SameRob
  <2>2. /\ i \in R!Idx /\ (R!commit_en <=> commit_en) /\ (R!rob_full <=> rob_full)
        /\ R!Dispatched(rob_data[i], d) = Dispatched(rob_data[i], d)
        /\ R!Completed(rob_data[i], c) = Completed(rob_data[i], c)
    BY Zenon DEF R!Idx, Idx, R!commit_en, commit_en, R!commit_entry, commit_entry, R!rob_full,
                 rob_full, R!Dispatched, Dispatched, R!Completed, Completed
  <2> HIDE DEF d, c
  <2>3. rob_data'[i] =
               IF d.en /\ ~R!rob_full /\ i = tail_ptr THEN R!Dispatched(rob_data[i], d)
               ELSE IF c.en /\ i = c.idx /\ rob_data[i].valid THEN R!Completed(rob_data[i], c)
               ELSE rob_data[i]
    BY <1>6, <2>1, <2>2, R!EdgeWhole, PipelineAssumption
  <2> QED BY <2>2, <2>3, <1>4
<1>7. dispatch_en => /\ tail_ptr = Slot(count) /\ tail_ptr \in Idx
                     /\ ~(commit_en /\ tail_ptr = head_ptr)
  <2> SUFFICES ASSUME dispatch_en
               PROVE  /\ tail_ptr = Slot(count) /\ tail_ptr \in Idx
                      /\ ~(commit_en /\ tail_ptr = head_ptr)
    OBVIOUS
  <2>1. tail_ptr = Slot(count) /\ count \in 0 .. ROB_DEPTH - 1 /\ Slot(0) = head_ptr
    BY <1>1, <1>3, Slots
  <2> QED BY <2>1, <1>1, <1>5, Slots
<1>8. dispatch_en => /\ rob_data'[tail_ptr].completed = exception_id
                     /\ rob_data'[tail_ptr].exception = exception_id
                     /\ rob_data'[tail_ptr].instr = InstrOf(id.i, id_right)
  <2> SUFFICES ASSUME dispatch_en
               PROVE  /\ rob_data'[tail_ptr].completed = exception_id
                      /\ rob_data'[tail_ptr].exception = exception_id
                      /\ rob_data'[tail_ptr].instr = InstrOf(id.i, id_right)
    OBVIOUS
  <2>1. rob_data'[tail_ptr] = Dispatched(rob_data[tail_ptr], d)
    BY <1>6, <1>7
  <2>2. rob_data[tail_ptr] \in Entry
    BY <1>1, <1>7 DEF RobTypeOK
  <2> HIDE DEF d
  <2> QED BY <2>1, <2>2, <1>2 DEF Dispatched, Entry
<1>9. ASSUME NEW k \in 0 .. count - 1, ~(commit_en /\ k = 0)
      PROVE  /\ rob_data'[Slot(k)].completed <=>
                   \/ rob_data[Slot(k)].completed
                   \/ cdb(v).en /\ cdb(v).idx = Slot(k)
             /\ rob_data'[Slot(k)] = IF cdb(v).en /\ cdb(v).idx = Slot(k)
                                       THEN Completed(rob_data[Slot(k)], cdb(v))
                                       ELSE rob_data[Slot(k)]
  <2>1. k \in 0 .. ROB_DEPTH - 1 /\ k < count /\ 0 \in 0 .. ROB_DEPTH - 1
    BY <1>1
  <2>2. /\ Slot(k) \in Idx /\ rob_data[Slot(k)].valid
        /\ ~(commit_en /\ Slot(k) = head_ptr)
    BY <2>1, <1>1, <1>9, Slots
  <2>3. ~(dispatch_en /\ Slot(k) = tail_ptr)
    <3> SUFFICES ASSUME dispatch_en, Slot(k) = tail_ptr PROVE FALSE
      OBVIOUS
    <3>1. Slot(count) = Slot(k) /\ count \in 0 .. ROB_DEPTH - 1
      BY <1>1, <1>3, <1>7
    <3> QED BY <3>1, <2>1, <1>1, Slots
  <2>4. rob_data[Slot(k)] \in Entry
    BY <1>1, <2>2 DEF RobTypeOK
  <2>5. rob_data'[Slot(k)] = IF c.en /\ c.idx = Slot(k) THEN Completed(rob_data[Slot(k)], c)
                                                        ELSE rob_data[Slot(k)]
    BY <1>6, <2>2, <2>3
  <2> HIDE DEF c
  <2>6. Completed(rob_data[Slot(k)], c).completed = TRUE
    BY <2>4 DEF Completed, Entry
  <2> QED BY <2>4, <2>5, <2>6 DEF c, Entry
<1> QED BY <1>3, <1>5, <1>7, <1>8, <1>9

\* The slot at a distance from the head, for any head.
SlotFrom(h, k) == IF h + k < ROB_DEPTH THEN h + k ELSE h + k - ROB_DEPTH

\* A commit brings every slot one nearer to the head.
LEMMA SlotsMove ==
    ASSUME RobTypeOK, NEW c \in BOOLEAN, head_ptr' = IF c THEN Inc(head_ptr) ELSE head_ptr,
           NEW k \in Nat, k + One(c) < ROB_DEPTH
    PROVE  SlotFrom(head_ptr', k) = Slot(k + One(c))
  BY PipelineAssumption DEF SlotFrom, Slot, Inc, One, Idx, RobTypeOK

\* One edge in OoO mode keeps track: what leaves MEM is in WB, what leaves WB has
\* completed and is at the head, and what was there before has committed.
LEMMA TrackedStep ==
    ASSUME TypeOK, RobWindow, ooo_en, Tracked, NEW v, MemWb(v), OooUnits(v),
           Trap \/ Return \/ Redirect \/ HazardStall \/ DispatchStall \/ Advance
    PROVE  Tracked'
<1>1. CASE final_flush
  <2>1. /\ ex' = NoEx /\ mem' = NoBack /\ wb' = NoBack
        /\ NoEx.valid = FALSE /\ NoBack.valid = FALSE
    BY <1>1, OooFront DEF MemWb, NoEx, NoBack, InEx, InBack
  <2>2. count' = 0
    BY <1>1 DEF OooUnits, RobFlush
  <2> QED BY <2>1, <2>2 DEF Tracked, left, One
<1>2. CASE ~final_flush
  <2> DEFINE on(i) == cdb(v).en /\ cdb(v).idx = i
             left1 == count' - One(ex'.valid) - One(mem'.valid)
  <2>1. RobUpdate(rob_dispatch, cdb(v))
    BY <1>2 DEF OooUnits
  <2>2. /\ RobTypeOK /\ ROB_DEPTH \in Nat \ {0} /\ count \in 0 .. ROB_DEPTH
        /\ ex.valid \in BOOLEAN /\ mem.valid \in BOOLEAN /\ wb.valid \in BOOLEAN
        /\ ex.exc \in BOOLEAN /\ mem.done \in BOOLEAN /\ wb.done \in BOOLEAN
        /\ dispatch_en \in BOOLEAN /\ grant_ex \in BOOLEAN /\ grant_mem \in BOOLEAN
        /\ exception_id \in BOOLEAN /\ commit_en \in BOOLEAN
    BY PipelineAssumption, WireTypes DEF TypeOK, RobTypeOK, Stage, commit_en, commit_entry, Entry
  <2>3. /\ head_ptr' = IF commit_en THEN Inc(head_ptr) ELSE head_ptr
        /\ count' = count + One(dispatch_en) - One(commit_en)
        /\ commit_en => count > 0
    BY <2>1, OooEdge
  <2>4. /\ ex'.valid = dispatch_en
        /\ dispatch_en => ex'.idx = tail_ptr /\ ex'.exc = exception_id
    BY <1>2, <2>2, OooFront
  <2>5. /\ mem'.valid = ex.valid /\ mem'.idx = ex.idx /\ mem'.exc = ex.exc
        /\ mem'.done = grant_ex
        /\ wb'.valid = mem.valid /\ wb'.idx = mem.idx /\ wb'.exc = mem.exc
        /\ wb'.done = (mem.done \/ grant_mem)
    BY <1>2 DEF MemWb, InBack, TypeOK, Stage
  <2>6. /\ left = count - One(ex.valid) - One(mem.valid) /\ left \in 0 .. 2
        /\ left1 = left + One(mem.valid) - One(commit_en)
    BY <2>2, <2>3, <2>4, <2>5 DEF left, One, Tracked
  <2>7. ~rob_data[head_ptr].exception
    BY <1>2, OooFlush DEF commit_entry
  <2>8. ex.valid => ~ex.exc
    BY <2>7 DEF Tracked
  <2>9. /\ left = 2 => commit_en
        /\ left = 1 => (commit_en <=> rob_data[head_ptr].completed)
        /\ left = 0 => (commit_en <=> mem.valid /\ mem.done)
    BY <1>2, Commits
  <2>10. /\ ex.valid => (on(ex.idx) <=> grant_ex)
         /\ mem.valid => (on(mem.idx) <=> grant_mem)
         /\ wb.valid /\ left > 0 /\ wb.idx = Slot(left - 1) =>
               rob_data[wb.idx].completed \/ on(wb.idx)
    BY Completes
  <2>11. ASSUME NEW k \in 0 .. count - 1, ~(commit_en /\ k = 0)
         PROVE  rob_data'[Slot(k)].completed <=> rob_data[Slot(k)].completed \/ on(Slot(k))
    BY <2>1, <2>11, OooEdge
  <2>12. ASSUME NEW k \in Nat, k + One(commit_en) < ROB_DEPTH
         PROVE  SlotFrom(head_ptr', k) = Slot(k + One(commit_en))
    BY <2>2, <2>3, <2>12, SlotsMove
  <2>13. Slot(0) = head_ptr
    BY <2>2, Slots
  <2>14. left1 \in 0 .. 2
    BY <2>2, <2>6, <2>9 DEF One
  <2>15. One(commit_en) < ROB_DEPTH => head_ptr' = Slot(One(commit_en))
    <3>1. SlotFrom(head_ptr', 0) = head_ptr'
      BY <2>2, <2>3 DEF SlotFrom, Inc, Idx, RobTypeOK
    <3>2. One(commit_en) \in Nat
      BY DEF One
    <3> QED BY <3>1, <3>2, <2>12
  <2> HIDE DEF on, left1
  <2>16. ASSUME left1 = 1
         PROVE  rob_data'[head_ptr'].completed \/ (wb'.valid /\ wb'.idx = head_ptr')
    <3>1. CASE left = 2
      <4>1. commit_en /\ ~mem.valid /\ count >= 2 /\ wb.valid /\ wb.idx = Slot(left - 1)
        BY <2>2, <2>6, <2>9, <2>16, <3>1 DEF One, Tracked
      <4>2. head_ptr' = Slot(1)
        BY <4>1, <2>2, <2>15 DEF One
      <4> QED BY <4>1, <4>2, <3>1, <2>2, <2>10, <2>11
    <3>2. CASE left = 1 /\ commit_en
      <4>1. mem.valid /\ count >= 2
        BY <2>2, <2>6, <2>16, <3>2 DEF One
      <4>2. head_ptr' = Slot(1)
        BY <4>1, <3>2, <2>2, <2>15 DEF One
      <4> QED BY <4>1, <4>2, <3>2, <2>5 DEF Tracked
    <3>3. CASE left = 1 /\ ~commit_en
      <4>1. wb.valid /\ wb.idx = head_ptr /\ count >= 1
        BY <2>2, <2>6, <2>9, <3>3 DEF One, Tracked
      <4>2. wb.idx = Slot(left - 1) /\ head_ptr' = Slot(0)
        BY <4>1, <3>3, <2>3, <2>13
      <4> QED BY <4>1, <4>2, <3>3, <2>2, <2>10, <2>11
    <3>4. CASE left = 0
      <4>1. mem.valid /\ ~commit_en
        BY <2>2, <2>6, <2>16, <3>4 DEF One
      <4> QED BY <4>1, <3>4, <2>3, <2>5, <2>13 DEF Tracked
    <3> QED BY <3>1, <3>2, <3>3, <3>4, <2>6
  <2>17. ASSUME left1 = 2
         PROVE  rob_data'[head_ptr'].completed /\ wb'.valid /\ wb'.idx = SlotFrom(head_ptr', 1)
    <3>1. CASE left = 2
      <4>1. commit_en /\ mem.valid /\ count >= 3 /\ wb.valid /\ wb.idx = Slot(left - 1)
        BY <2>2, <2>6, <2>9, <2>17, <3>1 DEF One, Tracked
      <4>2. head_ptr' = Slot(1) /\ SlotFrom(head_ptr', 1) = Slot(2)
        BY <4>1, <2>2, <2>12, <2>15 DEF One
      <4>3. rob_data'[head_ptr'].completed
        BY <4>1, <4>2, <3>1, <2>2, <2>10, <2>11
      <4> QED BY <4>1, <4>2, <4>3, <3>1, <2>5 DEF Tracked
    <3>2. CASE left # 2
      <4>1. left = 1 /\ ~commit_en /\ mem.valid /\ count >= 2
        BY <2>2, <2>6, <2>9, <2>17, <3>2 DEF One
      <4>2. wb.valid /\ wb.idx = Slot(left - 1) /\ head_ptr' = Slot(0)
        BY <4>1, <2>3, <2>9, <2>13 DEF Tracked
      <4>3. rob_data'[head_ptr'].completed
        BY <4>1, <4>2, <2>2, <2>10, <2>11
      <4>4. SlotFrom(head_ptr', 1) = Slot(1)
        BY <4>1, <2>2, <2>12 DEF One
      <4> QED BY <4>1, <4>3, <4>4, <2>5 DEF Tracked
    <3> QED BY <3>1, <3>2
  <2>18. ASSUME ex'.valid
         PROVE  /\ ex'.idx = SlotFrom(head_ptr', count' - 1)
                /\ rob_data'[ex'.idx].completed <=> ex'.exc
                /\ ex'.exc => ex'.idx = head_ptr' /\ rob_data'[ex'.idx].exception
    <3>1. /\ dispatch_en /\ ex'.idx = tail_ptr /\ ex'.exc = exception_id
          /\ tail_ptr = Slot(count) /\ count < ROB_DEPTH
          /\ rob_data'[tail_ptr].completed = exception_id
          /\ rob_data'[tail_ptr].exception = exception_id
      BY <2>1, <2>4, <2>18, OooEdge
    <3>2. count' - 1 = count - One(commit_en) /\ count - One(commit_en) \in Nat
      BY <3>1, <2>2, <2>3 DEF One
    <3>3. SlotFrom(head_ptr', count' - 1) = Slot(count)
      <4> DEFINE k == count - One(commit_en)
      <4>1. k \in Nat /\ k + One(commit_en) = count /\ k + One(commit_en) < ROB_DEPTH
        BY <3>1, <3>2, <2>2 DEF One
      <4> HIDE DEF k
      <4> QED BY <4>1, <3>2, <2>12 DEF k
    <3>4. exception_id => tail_ptr = head_ptr'
      <4>1. exception_id => count = 0
        BY <3>1, <2>2, DispatchFinds
      <4> QED BY <4>1, <3>1, <2>3, <2>13
    <3> QED BY <3>1, <3>3, <3>4
  <2>19. ASSUME mem'.valid
         PROVE  /\ mem'.idx = SlotFrom(head_ptr', left1) /\ ~mem'.exc
                /\ rob_data'[mem'.idx].completed <=> mem'.done
    <3>1. ex.valid /\ ex.idx = Slot(count - 1) /\ ~ex.exc /\ ~rob_data[ex.idx].completed
      BY <2>5, <2>8, <2>19 DEF Tracked
    <3>2. /\ left1 \in Nat /\ left1 + One(commit_en) = count - 1 /\ count - 1 < ROB_DEPTH
          /\ count - 1 \in 0 .. count - 1 /\ ~(commit_en /\ count - 1 = 0)
      BY <3>1, <2>2, <2>6, <2>14 DEF One
    <3>3. SlotFrom(head_ptr', left1) = Slot(count - 1)
      BY <3>2, <2>12
    <3>4. rob_data'[ex.idx].completed <=> grant_ex
      BY <3>1, <3>2, <2>10, <2>11
    <3> QED BY <3>1, <3>3, <3>4, <2>5
  <2>20. ASSUME wb'.valid
         PROVE  /\ ~wb'.exc
                /\ ~wb'.done => left1 > 0 /\ wb'.idx = SlotFrom(head_ptr', left1 - 1)
                /\ wb'.done /\ left1 > 0 /\ wb'.idx = SlotFrom(head_ptr', left1 - 1) =>
                      rob_data'[wb'.idx].completed
    <3>1. mem.valid /\ mem.idx = Slot(left) /\ ~mem.exc /\ (rob_data[mem.idx].completed <=> mem.done)
      BY <2>5, <2>20 DEF Tracked
    <3>2. left \in 0 .. count - 1 /\ left < ROB_DEPTH /\ left1 = left + 1 - One(commit_en)
      BY <3>1, <2>2, <2>6 DEF One
    <3>3. ~(commit_en /\ left = 0) => /\ left1 > 0 /\ SlotFrom(head_ptr', left1 - 1) = Slot(left)
                                      /\ rob_data'[mem.idx].completed <=> mem.done \/ grant_mem
      <4> SUFFICES ASSUME ~(commit_en /\ left = 0)
                   PROVE  /\ left1 > 0 /\ SlotFrom(head_ptr', left1 - 1) = Slot(left)
                          /\ rob_data'[mem.idx].completed <=> mem.done \/ grant_mem
        OBVIOUS
      <4>1. left1 > 0 /\ left1 - 1 \in Nat /\ (left1 - 1) + One(commit_en) = left
        BY <3>2, <2>2, <2>6 DEF One
      <4>2. SlotFrom(head_ptr', left1 - 1) = Slot(left)
        <5> DEFINE k == left1 - 1
        <5>1. k \in Nat /\ k + One(commit_en) = left /\ left < ROB_DEPTH
          BY <4>1, <3>2
        <5> HIDE DEF k
        <5> QED BY <5>1, <2>12 DEF k
      <4>3. rob_data'[mem.idx].completed <=> mem.done \/ grant_mem
        BY <3>1, <3>2, <2>10, <2>11
      <4> QED BY <4>1, <4>2, <4>3
    <3>4. commit_en /\ left = 0 => mem.done /\ left1 = 0
      BY <3>2, <2>9 DEF One
    <3> QED BY <3>1, <3>3, <3>4, <2>2, <2>5
  <2> QED BY <2>14, <2>16, <2>17, <2>18, <2>19, <2>20 DEF Tracked, left, left1, Slot, SlotFrom
<1> QED BY <1>1, <1>2

-----------------------------------------------------------------------------
\* One edge in OoO mode: the queue's entry issues, so what is dispatched is alone.
LEMMA IssuesStep ==
    ASSUME TypeOK, RobWindow, ooo_en, QueueShape, Issues, NEW v, OooUnits(v)
    PROVE  QueueShape' /\ Issues'
<1>1. CASE final_flush
  <2>1. \A i \in QIdx : entries'[i] = [entries[i] EXCEPT !.valid = FALSE]
    BY <1>1 DEF OooUnits, IqFlush
  <2>2. \A i \in QIdx : DOMAIN entries'[i] = DOMAIN entries[i] /\ entries'[i].valid = FALSE
    BY <2>1 DEF QueueShape, QueueFields
  <2> QED BY <2>2 DEF QueueShape, Issues
<1>2. CASE ~final_flush
  <2> DEFINE d == iq_dispatch
  <2>1. /\ RobUpdate(rob_dispatch, cdb(v))
        /\ IqUpdate(d, Idle, head_ptr)
    BY <1>2 DEF OooUnits
  <2>2. d.en <=> dispatch_en
    BY DEF iq_dispatch, Idle
  <2>3. dispatch_en => /\ DOMAIN d.entry = QueueFields /\ d.entry.valid = TRUE
                       /\ d.entry.rob_idx = tail_ptr
                       /\ d.entry.mem <=> id.i.op \in {"load", "store", "fload", "fstore"}
    BY DEF iq_dispatch, QueueFields
  <2> HIDE DEF d
  <2>4. ASSUME NEW e, DOMAIN e = QueueFields
        PROVE  /\ DOMAIN Woken(e, Idle) = QueueFields
               /\ Woken(e, Idle).valid = e.valid /\ Woken(e, Idle).mem = e.mem
               /\ Woken(e, Idle).rob_idx = e.rob_idx
    BY <2>4 DEF Woken, QueueFields
  <2>5. ready(Idle, head_ptr) = {i \in QIdx : entries[i].valid}
    BY DEF ready, Issues
  <2>6. ASSUME NEW i \in QIdx, entries[i].valid
        PROVE  Lowest(ready(Idle, head_ptr), i) /\ ~Lowest(free, i)
    <3>1. i \in ready(Idle, head_ptr) /\ \A j \in ready(Idle, head_ptr) : j = i
      BY <2>5, <2>6 DEF Issues
    <3>2. i \in Nat
      BY PipelineAssumption DEF QIdx
    <3> QED BY <3>1, <3>2, <2>6 DEF Lowest, free
  <2>7. ASSUME NEW i \in QIdx
        PROVE  /\ DOMAIN entries'[i] = QueueFields
               /\ entries'[i].valid => /\ dispatch_en /\ Lowest(free, i)
                                       /\ entries'[i] = Woken(d.entry, Idle)
    <3>1. entries'[i] =
              CASE d.en /\ Lowest(free, i) -> Woken(d.entry, Idle)
                [] Lowest(ready(Idle, head_ptr), i) ->
                       [Woken(entries[i], Idle) EXCEPT !.valid = FALSE]
                [] OTHER -> IF entries[i].valid THEN Woken(entries[i], Idle) ELSE entries[i]
      BY <2>1 DEF IqUpdate
    <3>2. DOMAIN entries[i] = QueueFields
      BY DEF QueueShape
    <3>3. CASE entries[i].valid
      <4>1. entries'[i] = [Woken(entries[i], Idle) EXCEPT !.valid = FALSE]
        BY <3>1, <3>3, <2>6
      <4> QED BY <4>1, <3>2, <2>4 DEF QueueFields
    <3>4. CASE ~entries[i].valid /\ d.en /\ Lowest(free, i)
      <4>1. ~Lowest(ready(Idle, head_ptr), i)
        BY <3>4, <2>5 DEF Lowest
      <4>2. entries'[i] = Woken(d.entry, Idle)
        BY <3>1, <3>4, <4>1
      <4> QED BY <4>2, <3>4, <2>2, <2>3, <2>4
    <3>5. CASE ~entries[i].valid /\ ~(d.en /\ Lowest(free, i))
      <4>1. ~Lowest(ready(Idle, head_ptr), i)
        BY <3>5, <2>5 DEF Lowest
      <4>2. entries'[i] = entries[i]
        BY <3>1, <3>5, <4>1
      <4> QED BY <4>2, <3>2, <3>5
    <3> QED BY <3>3, <3>4, <3>5
  <2>8. \A i, j \in QIdx : entries'[i].valid /\ entries'[j].valid => i = j
    <3>1. \A i, j \in QIdx : Lowest(free, i) /\ Lowest(free, j) => i = j
      BY PipelineAssumption DEF Lowest, free, QIdx
    <3> QED BY <3>1, <2>7
  <2>9. ASSUME NEW i \in QIdx, entries'[i].valid, entries'[i].mem
        PROVE  entries'[i].rob_idx = head_ptr'
    <3>1. /\ dispatch_en /\ entries'[i].rob_idx = tail_ptr
          /\ id.i.op \in {"load", "store", "fload", "fstore"}
      BY <2>3, <2>4, <2>7, <2>9
    <3>2. RobTypeOK /\ count = 0
      BY <3>1, DispatchFinds DEF TypeOK, serializing
    <3>3. tail_ptr = Slot(0) /\ Slot(0) = head_ptr /\ ~commit_en
      <4>1. tail_ptr = Slot(count)
        BY <3>1, <2>1, OooEdge
      <4>2. Slot(0) = head_ptr
        BY <3>2, Slots
      <4> QED BY <4>1, <4>2, <3>2 DEF commit_en
    <3>4. head_ptr' = head_ptr
      BY <3>3, <2>1, OooEdge
    <3> QED BY <3>1, <3>3, <3>4
  <2> QED BY <2>7, <2>8, <2>9 DEF QueueShape, Issues
<1> QED BY <1>1, <1>2

\* Only fetch brings in words, and only writes of moooctrl change the mode.
LEMMA SwitchStep ==
    ASSUME NEW b \in BOOLEAN, SwitchesTo(b), SwitchWords(b), NEW v, MemWb(v), CsrFile,
           Trap \/ Return \/ Redirect \/ HazardStall \/ DispatchStall \/ Advance
    PROVE  SwitchWords(b)' /\ (ooo_en' = ooo_en \/ ooo_en' = b)
<1>1. SwitchWord(Bubble, b) /\ SwitchWord(NoBack, b)
  BY DEF SwitchWord, Bubble, NoBack, InBack
<1>2. SwitchWord(id'.i, b) /\ SwitchWord(ex'.i, b)
  BY <1>1 DEF Trap, Return, Redirect, HazardStall, DispatchStall, Advance, Squash, Hold,
              NoId, NoEx, Fetched, InEx, SwitchWords, SwitchesTo, SwitchWord
<1>3. SwitchWord(mem', b)
  BY <1>1 DEF MemWb, InBack, SwitchWords, SwitchWord
<1>4. ooo_en' = ooo_en \/ ooo_en' = b
  BY DEF CsrFile, SwitchWords, SwitchWord
<1> QED BY <1>2, <1>3, <1>4 DEF SwitchWords, SwitchWord

\* While the core is in in-order mode nothing is dispatched and the buffer and the
\* queue are not clocked.
LEMMA InOrderIdle ==
    ASSUME TypeOK, ~ooo_en, NEW v, MemWb(v), OooUnits(v),
           Trap \/ Return \/ Redirect \/ HazardStall \/ DispatchStall \/ Advance
    PROVE  count' = count /\ entries' = entries /\ (Unused => Unused')
<1>1. count' = count /\ entries' = entries
  BY DEF OooUnits
<1>2. ~ex'.valid
  <2>1. ex' = NoEx => ~ex'.valid
    BY DEF NoEx, InEx
  <2>2. dispatch_en = FALSE
    BY DEF dispatch_en
  <2>3. Advance => ex'.valid = dispatch_en
    BY DEF Advance, InEx
  <2> QED BY <2>1, <2>2, <2>3
          DEF Trap, Return, Redirect, HazardStall, DispatchStall, Squash, Hold
<1>3. ~ex.valid /\ ~mem.valid => ~mem'.valid /\ ~wb'.valid
  BY DEF MemWb, InBack, NoBack, TypeOK, Stage
<1> QED BY <1>1, <1>2, <1>3 DEF Unused

\* An unused buffer and queue are tracked.
LEMMA UnusedTracked == Unused => Tracked /\ Issues
  BY DEF Unused, Tracked, Issues, left, One

\* Also after a step.
LEMMA UnusedTrackedNext == Unused' => Tracked' /\ Issues'
  BY DEF Unused, Tracked, Issues, left, One

\* What is tracked is bounded.
LEMMA TrackedBounded == TypeOK /\ Tracked /\ Issues => OccupancyBounded
<1> SUFFICES ASSUME TypeOK, Tracked, Issues PROVE OccupancyBounded
  OBVIOUS
<1>1. count \in Nat
  BY PipelineAssumption DEF TypeOK, RobTypeOK
<1>2. count - One(ex.valid) - One(mem.valid) <= 2
  BY DEF Tracked, left
<1> QED BY <1>1, <1>2 DEF One, Issues, OccupancyBounded

\* Every edge preserves the invariant.
LEMMA OccupiedStep ==
    ASSUME NEW b \in BOOLEAN, SwitchesTo(b), TypeOK, RobWindow, Occupied(b), Next
    PROVE  Occupied(b)'
<1>1. PICK v \in results :
          /\ MemWb(v) /\ CsrFile /\ OooUnits(v)
          /\ Trap \/ Return \/ Redirect \/ HazardStall \/ DispatchStall \/ Advance
  BY DEF Next
<1>2. SwitchWords(b) /\ QueueShape /\ ooo_en \in BOOLEAN
  BY DEF Occupied, TypeOK
<1>3. SwitchWords(b)' /\ (ooo_en' = ooo_en \/ ooo_en' = b)
  BY <1>1, <1>2, SwitchStep
<1>4. TypeOK'
  BY TypeStep
<1>5. CASE ooo_en
  <2>1. Tracked' /\ QueueShape' /\ Issues'
    BY <1>1, <1>2, <1>5, TrackedStep, IssuesStep DEF Occupied
  <2>2. OccupancyBounded'
    BY <2>1, <1>4, TrackedBounded, PTL
  <2>3. ~ooo_en' => ~b
    BY <1>3, <1>5
  <2> QED BY <2>1, <2>2, <2>3, <1>3 DEF Occupied
<1>6. CASE ~ooo_en
  <2>1. count' = count /\ entries' = entries /\ (Unused => Unused')
    BY <1>1, <1>6, InOrderIdle
  <2>2. QueueShape'
    BY <2>1, <1>2 DEF QueueShape
  <2>3. CASE b
    <3>1. Unused'
      BY <2>1, <2>3, <1>6 DEF Occupied
    <3> QED BY <3>1, <2>2, <2>3, <1>3, UnusedTrackedNext DEF Occupied
  <2>4. CASE ~b
    <3>1. OccupancyBounded'
      BY <2>1, <2>4, <1>6 DEF Occupied, OccupancyBounded
    <3>2. ~ooo_en'
      BY <2>4, <1>3, <1>6
    <3> QED BY <3>1, <3>2, <2>2, <2>4, <1>3 DEF Occupied
  <2> QED BY <2>3, <2>4
<1> QED BY <1>2, <1>5, <1>6

\* The empty core satisfies it.
LEMMA OccupiedInit == ASSUME NEW b \in BOOLEAN, Init PROVE Occupied(b)
<1>1. SwitchWords(b)
  BY DEF Init, SwitchWords, SwitchWord, NoId, NoEx, NoBack, Fetched, InEx, InBack, Bubble
<1>2. QueueShape
  BY DEF Init, QueueShape, QueueFields
<1>3. Unused
  BY DEF Init, Unused, NoEx, NoBack, InEx, InBack
<1>4. OccupancyBounded
  BY <1>3 DEF Unused, OccupancyBounded
<1> QED BY <1>1, <1>2, <1>3, <1>4, UnusedTracked DEF Occupied

\* The invariant holds of every reachable state, for programs that write b.
LEMMA OccupiedAlways ==
    ASSUME NEW b \in BOOLEAN, SwitchesTo(b)
    PROVE  Spec => []OccupancyBounded
<1>1. Init => TypeOK /\ RobWindow /\ Occupied(b)
  BY TypeInit, OccupiedInit
<1>2. TypeOK /\ RobWindow /\ Occupied(b) /\ [Next]_vars => (TypeOK /\ RobWindow /\ Occupied(b))'
  <2>1. TypeOK /\ RobWindow /\ Occupied(b) /\ Next => (TypeOK /\ RobWindow /\ Occupied(b))'
    BY TypeStep, OccupiedStep
  <2>2. Occupied(b) /\ UNCHANGED vars => Occupied(b)'
    BY DEF vars, stages, csrs, Occupied, SwitchWords, QueueShape, Tracked, Issues, Unused,
           OccupancyBounded, left, Slot
  <2> QED BY <2>1, <2>2, TypeStutter
<1>3. TypeOK /\ Occupied(b) => OccupancyBounded
  BY UnusedTracked, TrackedBounded DEF Occupied, TypeOK
<1> QED BY <1>1, <1>2, <1>3, PTL DEF Spec

\* Whatever the program, and whatever waits for the CDB, the reorder buffer never
\* holds more than four entries and the issue queue more than one, as long as
\* moooctrl is switched one way only: dispatch never stalls for room in a buffer of
\* five or more entries and a queue of two or more (riscv_top.v:240-257,643-757).
THEOREM OccupancyTheorem == ASSUME SwitchesOnce PROVE Spec => []OccupancyBounded
<1>1. PICK b \in BOOLEAN : SwitchesTo(b)
  BY DEF SwitchesOnce
<1> QED BY <1>1, OccupiedAlways

-----------------------------------------------------------------------------
(***************************************************************************)
(* What the core computes, in OoO mode and across a change of mode.        *)
(***************************************************************************)

\* Words that take OoO mode nowhere it is known to be wrong (README.md, Findings):
\* none excepts, none is a double or moves FP data to an integer register, and one
\* that turns OoO mode on does not also write a register.
PlainWord(i, b) ==
    /\ i.op \notin {"ecall", "fp2int"} /\ ~double(i)
    /\ i.op = "csrfs" => i.bit
    /\ i.op = "mode" => i.bit = b /\ (b => i.rd = 0)

PlainProgram(b) ==
    FsModes = {TRUE} /\ Drivers = {"commit"} /\ \A i \in Program : PlainWord(i, b)

Plain == \E b \in BOOLEAN : PlainProgram(b)

\* Every word in flight is of that kind, and so nothing excepts.
PlainStages(b) ==
    /\ PlainWord(id.i, b) /\ PlainWord(ex.i, b) /\ PlainWord(mem, b) /\ PlainWord(wb, b)
    /\ fs /\ ~ex.exc /\ ~mem.exc /\ ~wb.exc
    /\ \A i \in Idx : ~rob_data[i].exception

\* Nothing follows a CSR write into EX before it has taken effect.
CsrAlone == csr_write(mem.op) => ex = NoEx

\* What EX and MEM hold has been dispatched, or is a bubble, and WB writes nothing
\* otherwise; the entry of a stage is its instruction's and, once completed, has its
\* result and says whether it transfers.
Buffered ==
    /\ ex.valid <=> ex.i.op # "bubble"
    /\ mem.valid <=> mem.op # "bubble"
    /\ ~wb.valid => dest(wb) = X0
    /\ ex.valid => rob_data[ex.idx].instr = InstrOf(ex.i, ex.right)
    /\ mem.valid => /\ rob_data[mem.idx].instr = InstrOf(mem, mem.right)
                    /\ mem.done /\ dest(mem) # X0 => rob_data[mem.idx].result = mem.val
    /\ wb.valid /\ left > 0 =>
          /\ wb.idx = Slot(left - 1)
          /\ rob_data[wb.idx].instr = InstrOf(wb, wb.right)
          /\ rob_data[wb.idx].completed /\ dest(wb) # X0 => rob_data[wb.idx].result = wb.val
    /\ \A k \in 0 .. count - 1 : LET e == rob_data[Slot(k)] IN
          e.completed => (e.branch_mispredicted <=> pc_sel(e.instr))

\* An instruction that serializes was dispatched alone.
Alone ==
    /\ serializing(ex.i.op) => count = 1 /\ ex.right
    /\ serializing(mem.op) => left = 0 /\ mem.right

\* The first m instructions of the buffer are the program's, the others are not; the
\* last of them owes what is owed, the ones before it owe nothing, and behind one that
\* owes nothing there is none of another path.
OwedBy(m) ==
    /\ \A k \in 0 .. count - 1 :
          /\ rob_data[Slot(k)].instr.right <=> k < m
          /\ k + 1 < m => owes(rob_data[Slot(k)].instr, FALSE) = "none"
    /\ want = IF m = 0 THEN "none" ELSE owes(rob_data[Slot(m - 1)].instr, FALSE)
    /\ want = "none" => m = count

OooPath ==
    /\ pc_ok
    /\ id.i.op # "bubble" => id.ok
    /\ \E m \in 0 .. count : OwedBy(m)

\* An instruction has left WB and its entry has not: it commits at this edge.
Behind == left = 2 \/ (left = 1 /\ ~wb.valid)

\* The program's value of a register is in MEM, else in WB, if they hold an
\* instruction of the program that writes it, else in the entry that is behind, else
\* in the register file; and so is that of WB once its entry has gone.
OooValues ==
    /\ \A r \in Reg \ {X0} :
          gold[r] = IF mem.right /\ dest(mem) = r THEN mem.val
                    ELSE IF wb.right /\ dest(wb) = r THEN wb.val
                    ELSE IF Behind /\ dest(commit_entry.instr) = r THEN commit_entry.result
                    ELSE regs[r]
    /\ gold[X0] = regs[X0]
    /\ wb.valid /\ left = 0 /\ dest(wb) # X0 => regs[dest(wb)] = wb.val
    /\ ex_source \in Reg \ {X0} => ex.data = regs[ex_source]
    /\ mem.op = "fload" /\ ex.i.op # "bubble" => mem.rd # ex.i.rs

Computes(b) ==
    /\ PlainStages(b) /\ CsrAlone
    /\ IF ooo_en THEN Buffered /\ Alone /\ OooPath /\ OooValues
                 ELSE OnPath /\ ValuesHeld

-----------------------------------------------------------------------------
\* Only fetch brings in words, so nothing ever excepts.
LEMMA PlainStep ==
    ASSUME NEW b \in BOOLEAN, PlainProgram(b), TypeOK, PlainStages(b),
           NEW v, MemWb(v), CsrFile, OooUnits(v),
           Trap \/ Return \/ Redirect \/ HazardStall \/ DispatchStall \/ Advance
    PROVE  PlainStages(b)'
<1>1. PlainWord(Bubble, b) /\ PlainWord(NoBack, b)
  BY DEF PlainWord, double, Bubble, NoBack, InBack
<1>2. exception_id = FALSE
  BY DEF PlainStages, PlainWord, exception_id, decode_exception
<1>3. PlainWord(id'.i, b)
  <2>1. NoId.i = Bubble /\ \A i : Fetched(i, pc_ok).i = i
    BY DEF NoId, Fetched
  <2> QED BY <2>1, <1>1 DEF Trap, Return, Redirect, HazardStall, DispatchStall, Advance, Squash, Hold,
                            PlainStages, PlainProgram
<1>4. PlainWord(ex'.i, b) /\ ~ex'.exc
  <2>1. NoEx.i = Bubble /\ ~NoEx.exc
    BY DEF NoEx, InEx
  <2>2. Advance => ex'.i = id.i /\ ex'.exc = FALSE
    BY <1>2 DEF Advance, InEx
  <2> QED BY <2>1, <2>2, <1>1 DEF Trap, Return, Redirect, HazardStall, DispatchStall, Squash, Hold,
                                  PlainStages
<1>5. PlainWord(mem', b) /\ ~mem'.exc /\ PlainWord(wb', b) /\ ~wb'.exc
  <2>1. CASE final_flush
    BY <2>1, <1>1, Bubbles DEF MemWb
  <2>2. CASE ~final_flush
    <3>1. /\ mem'.op = ex.i.op /\ mem'.bit = ex.i.bit /\ mem'.rd = ex.i.rd /\ mem'.exc = ex.exc
          /\ wb'.op = mem.op /\ wb'.bit = mem.bit /\ wb'.rd = mem.rd /\ wb'.exc = mem.exc
      BY <2>2 DEF MemWb, InBack, TypeOK, Stage
    <3> QED BY <3>1 DEF PlainStages, PlainWord, double
  <2> QED BY <2>1, <2>2
<1>6. fs'
  BY DEF CsrFile, PlainStages, PlainWord
<1>7. \A i \in Idx : ~rob_data'[i].exception
  <2>1. \A i \in Idx : rob_data[i] \in Entry /\ ~rob_data[i].exception
    BY DEF TypeOK, RobTypeOK, PlainStages
  <2>2. \A e \in Entry : ~e.exception => ~Retired(e).exception /\ Retired(e) \in Entry
    BY DEF Entry, Retired
  <2>3. CASE RobFlush
    BY <2>1, <2>2, <2>3 DEF RobFlush
  <2>4. CASE UNCHANGED rob_data
    BY <2>1, <2>4
  <2>5. CASE RobUpdate(rob_dispatch, cdb(v))
    <3> DEFINE d == rob_dispatch
               c == cdb(v)
    <3>1. d.en => ~d.exception
      BY <1>2 DEF rob_dispatch, Idle
    <3>2. c.en => ~c.exception
      BY DEF cdb, Completion, Idle, PlainStages
    <3> HIDE DEF d, c
    <3> DEFINE D(i) == IF d.en /\ ~rob_full /\ i = tail_ptr THEN Dispatched(rob_data[i], d)
                                                            ELSE rob_data[i]
               C(i) == IF c.en /\ rob_data[c.idx].valid /\ i = c.idx THEN Completed(D(i), c)
                                                                     ELSE D(i)
               F == {"valid", "completed", "instr", "result", "exception",
                     "branch_mispredicted", "branch_target"}
    <3>4. \A i \in Idx : DOMAIN rob_data[i] = F
      BY <2>1 DEF Entry
    <3>5. \A i \in Idx : DOMAIN D(i) = F /\ ~D(i).exception
      BY <2>1, <3>1, <3>4 DEF Dispatched
    <3> HIDE DEF D
    <3>6. \A i \in Idx : DOMAIN C(i) = F /\ ~C(i).exception
      BY <3>2, <3>5 DEF Completed
    <3>7. \A i \in Idx : rob_data'[i] = IF commit_en /\ i = head_ptr THEN Retired(C(i)) ELSE C(i)
      BY <2>5 DEF RobUpdate, C, D, c, d
    <3> HIDE DEF C
    <3> QED BY <3>6, <3>7 DEF Retired
  <2> QED BY <2>3, <2>4, <2>5 DEF OooUnits
<1> QED BY <1>3, <1>4, <1>5, <1>6, <1>7 DEF PlainStages

\* A CSR write in EX or MEM stalls ID.
LEMMA CsrAloneStep ==
    ASSUME TypeOK, NEW v, MemWb(v),
           Trap \/ Return \/ Redirect \/ HazardStall \/ DispatchStall \/ Advance
    PROVE  CsrAlone' /\ (csr_write(mem.op) => ex' = NoEx)
<1>1. csr_write(ex.i.op) \/ csr_write(mem.op) => ex' = NoEx
  BY DEF Trap, Return, Redirect, HazardStall, DispatchStall, Advance, Squash, Hold, stall,
         data_hazard, csr_hazard
<1>2. csr_write(mem'.op) => csr_write(ex.i.op)
  BY Bubbles DEF MemWb, InBack, csr_write
<1> QED BY <1>1, <1>2 DEF CsrAlone

-----------------------------------------------------------------------------
\* In OoO mode, without exceptions, the wires come down to what commits.
LEMMA OooWires ==
    ASSUME NEW b \in BOOLEAN, TypeOK, PlainStages(b), ooo_en
    PROVE  /\ ~exception_id
           /\ flush_front <=> final_flush
           /\ final_flush <=> /\ commit_en
                              /\ \/ commit_entry.branch_mispredicted
                                 \/ commit_entry.instr.op = "mret"
           /\ pc_next = IF ~final_flush THEN "sequential"
                        ELSE IF commit_entry.instr.op = "mret" THEN "mepc" ELSE "target"
           /\ dispatch_en <=> id.i.op # "bubble" /\ ~final_flush /\ ~stall
           /\ \A r \in Reg : written[r] =
                 IF r # X0 /\ commit_en /\ dest(commit_entry.instr) = r
                   THEN commit_entry.result ELSE regs[r]
<1>1. ~exception_id
  BY DEF PlainStages, PlainWord, exception_id, decode_exception
<1>2. head_ptr \in Idx
  BY DEF TypeOK, RobTypeOK
<1>3. ~commit_entry.exception /\ ~mem.exc
  BY <1>2 DEF PlainStages, commit_entry
<1>4. flush_front <=> final_flush
  BY OooFlush
<1>5. /\ final_exception <=> FALSE
      /\ final_mret_exec <=> commit_en /\ commit_entry.instr.op = "mret"
      /\ final_pc_sel <=> commit_en /\ commit_entry.branch_mispredicted
  BY <1>3 DEF final_exception, final_mret_exec, final_pc_sel
<1>6. final_flush <=> /\ commit_en
                      /\ \/ commit_entry.branch_mispredicted
                         \/ commit_entry.instr.op = "mret"
  BY <1>5 DEF final_flush
<1>7. flush_front => ~stall
  BY DEF stall, data_hazard, stall_dispatch, valid_inst_id_no_stall
<1>8. pc_next = IF ~final_flush THEN "sequential"
                ELSE IF commit_entry.instr.op = "mret" THEN "mepc" ELSE "target"
  <2>1. CASE ~final_flush
    BY <2>1, <1>3, <1>5, <1>6 DEF pc_next
  <2>2. CASE final_flush /\ commit_entry.instr.op = "mret"
    BY <2>2, <1>3, <1>5, <1>6 DEF pc_next
  <2>3. CASE final_flush /\ commit_entry.instr.op # "mret"
    BY <2>3, <1>3, <1>4, <1>5, <1>6, <1>7 DEF pc_next
  <2> QED BY <2>1, <2>2, <2>3
<1>9. dispatch_en <=> id.i.op # "bubble" /\ ~final_flush /\ ~stall
  BY <1>4 DEF dispatch_en, valid_inst_id_no_stall, stall
<1>10. \A r \in Reg : written[r] =
                 IF r # X0 /\ commit_en /\ dest(commit_entry.instr) = r
                   THEN commit_entry.result ELSE regs[r]
  BY <1>3 DEF written, write_reg, write_data, commit_writes
<1> QED BY <1>1, <1>4, <1>6, <1>8, <1>9, <1>10

\* The CDB carries the result, and the transfer, of the stage it is granted to.
LEMMA CdbCarries ==
    ASSUME NEW b \in BOOLEAN, TypeOK, PlainStages(b), NEW v
    PROVE  /\ grant_wb => /\ cdb(v).branch_mispredicted = pc_sel(wb)
                          /\ dest(wb) # X0 => cdb(v).result = wb.val
           /\ grant_mem => /\ cdb(v).branch_mispredicted = pc_sel(mem)
                           /\ dest(mem) # X0 => cdb(v).result = mem.val
           /\ grant_ex => /\ cdb(v).branch_mispredicted = pc_sel(ex.i)
                          /\ dest(ex.i) # X0 => cdb(v).result = v
<1>1. /\ mem \in Stage /\ wb \in Stage /\ ex.i \in Word
      /\ ~double(mem) /\ ex.i.op # "fp2int" /\ ~ex.exc
  BY DEF TypeOK, PlainStages, PlainWord
<1>2. /\ dest(wb) # X0 => wb_cdb_data(wb) = wb.val
      /\ dest(mem) # X0 => mem_cdb_data(mem) = mem.val
  <2>1. ASSUME NEW s \in Stage, dest(s) # X0
        PROVE  /\ wb_cdb_data(s) = s.val
               /\ ~double(s) => mem_cdb_data(s) = s.val
    <3>1. fp_data(s, TRUE) = fp_data(s, FALSE) \/ double(s)
      BY DEF fp_data
    <3> QED BY <2>1, <3>1, ResultBuses DEF wb_cdb_data, mem_cdb_data
  <2> QED BY <1>1, <2>1
<1>3. grant_ex /\ dest(ex.i) # X0 => ex_cdb_data(ex.i.op, v) = v
  <2> SUFFICES ASSUME grant_ex, dest(ex.i) # X0 PROVE ex_cdb_data(ex.i.op, v) = v
    OBVIOUS
  <2>1. ~late_result(ex.i.op) /\ ~mem_write(ex.i.op)
    BY <1>1 DEF grant_ex, ex_wants_cdb
  <2>2. ex.i.op \in {"alu", "jump", "fpop", "int2fp"}
    BY <1>1, <2>1 DEF late_result, mem_write, mem_read, dest, reg_write, fp_we, amo_en, csr_access,
                      csr_write
  <2> QED BY <2>2 DEF ex_cdb_data, bus, Unit, fp_we, result_sel, fp_opcode, amo_en, csr_access,
                      csr_write
<1>4. grant_wb => cdb(v).branch_mispredicted = pc_sel(wb) /\ cdb(v).result = wb_cdb_data(wb)
  BY DEF cdb, Completion, grant_mem, grant_ex
<1>5. grant_mem => cdb(v).branch_mispredicted = pc_sel(mem) /\ cdb(v).result = mem_cdb_data(mem)
  BY DEF cdb, Completion, grant_mem, grant_ex
<1>6. grant_ex => /\ cdb(v).branch_mispredicted = pc_sel(ex.i)
                  /\ cdb(v).result = ex_cdb_data(ex.i.op, v)
  BY DEF cdb, Completion, grant_ex
<1> QED BY <1>2, <1>3, <1>4, <1>5, <1>6

\* What the buffer keeps of an instruction says what it writes and where it goes.
LEMMA InstrOfSame ==
    ASSUME NEW i, NEW right
    PROVE  /\ pc_sel(InstrOf(i, right)) = pc_sel(i)
           /\ dest(InstrOf(i, right)) = dest(i)
           /\ owes(InstrOf(i, right), FALSE) = owes(i, FALSE)
           /\ InstrOf(i, right).op = i.op /\ InstrOf(i, right).right = right
<1>1. /\ InstrOf(i, right).op = i.op /\ InstrOf(i, right).rd = i.rd
      /\ InstrOf(i, right).bit = i.bit /\ InstrOf(i, right).right = right
  BY DEF InstrOf
<1> HIDE DEF InstrOf
<1> QED BY <1>1 DEF pc_sel, dest, owes

\* The stages after an edge in OoO mode that flushes nothing.
LEMMA OooMoves ==
    ASSUME NEW b \in BOOLEAN, TypeOK, RobWindow, ooo_en, ~final_flush, PlainStages(b),
           NEW v, MemWb(v), OooUnits(v),
           Trap \/ Return \/ Redirect \/ HazardStall \/ DispatchStall \/ Advance
    PROVE  /\ RobUpdate(rob_dispatch, cdb(v))
           /\ left' = left + One(mem.valid) - One(commit_en)
           /\ ex'.valid = dispatch_en
           /\ dispatch_en => /\ ex'.idx = tail_ptr /\ ex'.i = id.i /\ ex'.right = id_right
                             /\ ex'.data = read_id
           /\ ~dispatch_en => ex'.i.op = "bubble"
           /\ mem'.op = ex.i.op /\ mem'.rd = ex.i.rd /\ mem'.bit = ex.i.bit
           /\ mem'.right = ex.right /\ mem'.val = v /\ mem'.valid = ex.valid
           /\ mem'.idx = ex.idx /\ mem'.done = grant_ex
           /\ wb'.op = mem.op /\ wb'.rd = mem.rd /\ wb'.bit = mem.bit
           /\ wb'.right = mem.right /\ wb'.val = mem.val /\ wb'.valid = mem.valid
           /\ wb'.idx = mem.idx /\ wb'.done = (mem.done \/ grant_mem)
<1>1. RobUpdate(rob_dispatch, cdb(v))
  BY DEF OooUnits
<1>2. /\ mem'.op = ex.i.op /\ mem'.rd = ex.i.rd /\ mem'.bit = ex.i.bit
      /\ mem'.right = ex.right /\ mem'.val = v /\ mem'.valid = ex.valid
      /\ mem'.idx = ex.idx /\ mem'.done = grant_ex
      /\ wb'.op = mem.op /\ wb'.rd = mem.rd /\ wb'.bit = mem.bit
      /\ wb'.right = mem.right /\ wb'.val = mem.val /\ wb'.valid = mem.valid
      /\ wb'.idx = mem.idx /\ wb'.done = (mem.done \/ grant_mem)
  BY DEF MemWb, InBack, TypeOK, Stage
<1>3. dispatch_en \in BOOLEAN
  BY WireTypes
<1>4. ex'.valid = dispatch_en /\ (dispatch_en => ex'.idx = tail_ptr)
  BY <1>3, OooFront
<1>5. /\ dispatch_en => ex'.i = id.i /\ ex'.right = id_right /\ ex'.data = read_id
      /\ ~dispatch_en => ex'.i.op = "bubble"
  <2>1. CASE Advance
    <3>1. ex'.i = id.i /\ ex'.right = id_right /\ ex'.data = read_id /\ ~stall
      BY <2>1 DEF Advance, InEx
    <3> QED BY <3>1, OooWires
  <2>2. CASE ~Advance
    <3>1. ex' = NoEx /\ (stall \/ flush_front)
      BY <2>2 DEF Trap, Return, Redirect, HazardStall, DispatchStall, Squash, Hold, stall,
                  flush_front, exception_hazard
    <3> QED BY <3>1, OooWires, Bubbles
  <2> QED BY <2>1, <2>2
<1>6. left' = left + One(mem.valid) - One(commit_en)
  <2>1. count \in Nat /\ count' = count + One(dispatch_en) - One(commit_en)
    BY <1>1, OooEdge, PipelineAssumption DEF TypeOK, RobTypeOK
  <2>2. left' = count' - One(ex'.valid) - One(mem'.valid)
    BY DEF left, One
  <2> QED BY <2>1, <2>2, <1>2, <1>4 DEF left, One
<1> QED BY <1>1, <1>2, <1>4, <1>5, <1>6

\* The entries after such an edge: what was there has moved one down if the head
\* has committed, and may have completed; what is dispatched is last.
LEMMA EntryMoves ==
    ASSUME NEW b \in BOOLEAN, TypeOK, RobWindow, ooo_en, ~final_flush, PlainStages(b),
           NEW v, RobUpdate(rob_dispatch, cdb(v)),
           NEW k \in Nat, k < count'
    PROVE  LET j == k + One(commit_en)
               e == rob_data'[SlotFrom(head_ptr', k)]
           IN  \/ /\ j \in 0 .. count - 1 /\ ~(commit_en /\ j = 0)
                  /\ SlotFrom(head_ptr', k) = Slot(j)
                  /\ e = IF cdb(v).en /\ cdb(v).idx = Slot(j)
                           THEN Completed(rob_data[Slot(j)], cdb(v)) ELSE rob_data[Slot(j)]
                  /\ e.instr = rob_data[Slot(j)].instr
               \/ /\ j = count /\ dispatch_en
                  /\ e.instr = InstrOf(id.i, id_right) /\ ~e.completed
<1> DEFINE j == k + One(commit_en)
           e == rob_data'[SlotFrom(head_ptr', k)]
<1>1. /\ RobTypeOK /\ ROB_DEPTH \in Nat \ {0} /\ count \in 0 .. ROB_DEPTH
      /\ commit_en \in BOOLEAN /\ dispatch_en \in BOOLEAN
  BY WireTypes, PipelineAssumption DEF TypeOK, RobTypeOK, commit_en, commit_entry, Entry
<1>2. /\ head_ptr' = IF commit_en THEN Inc(head_ptr) ELSE head_ptr
      /\ count' = count + One(dispatch_en) - One(commit_en)
      /\ dispatch_en => count < ROB_DEPTH /\ tail_ptr = Slot(count)
  BY OooEdge
<1>3. j \in Nat /\ j < ROB_DEPTH /\ (j < count \/ (j = count /\ dispatch_en))
  BY <1>1, <1>2 DEF One
<1>4. SlotFrom(head_ptr', k) = Slot(j)
  BY <1>1, <1>2, <1>3, SlotsMove
<1>5. ~(commit_en /\ j = 0)
  BY DEF One
<1> HIDE DEF j
<1>6. CASE j < count
  <2>1. j \in 0 .. count - 1
    BY <1>1, <1>3, <1>6
  <2>2. e = IF cdb(v).en /\ cdb(v).idx = Slot(j)
              THEN Completed(rob_data[Slot(j)], cdb(v)) ELSE rob_data[Slot(j)]
    BY <2>1, <1>4, <1>5, OooEdge
  <2>3. rob_data[Slot(j)] \in Entry
    <3>1. j \in 0 .. ROB_DEPTH - 1
      BY <1>1, <1>3
    <3> QED BY <3>1, <1>1, Slots DEF RobTypeOK
  <2>4. \A c : Completed(rob_data[Slot(j)], c).instr = rob_data[Slot(j)].instr
    BY <2>3 DEF Completed, Entry
  <2> QED BY <2>1, <2>2, <2>4, <1>4, <1>5 DEF j
<1>7. CASE j = count /\ dispatch_en
  <2>1. e = rob_data'[tail_ptr]
    BY <1>2, <1>4, <1>7
  <2>2. e.instr = InstrOf(id.i, id_right) /\ ~e.completed
    BY <2>1, <1>7, OooEdge, OooWires
  <2> QED BY <2>2, <1>7 DEF j
<1> QED BY <1>3, <1>6, <1>7

\* The entries of EX and of MEM stay where they are for one more edge, that of MEM
\* unless it commits.
LEMMA StageEntries ==
    ASSUME NEW b \in BOOLEAN, TypeOK, RobWindow, ooo_en, ~final_flush, PlainStages(b), Tracked,
           NEW v, RobUpdate(rob_dispatch, cdb(v))
    PROVE  /\ ex.valid =>
                 rob_data'[ex.idx] = IF grant_ex THEN Completed(rob_data[ex.idx], cdb(v))
                                                 ELSE rob_data[ex.idx]
           /\ mem.valid /\ ~(commit_en /\ left = 0) =>
                 /\ rob_data'[mem.idx] = IF grant_mem THEN Completed(rob_data[mem.idx], cdb(v))
                                                      ELSE rob_data[mem.idx]
           /\ ex.valid => rob_data[ex.idx] \in Entry
           /\ mem.valid => rob_data[mem.idx] \in Entry
<1>1. /\ RobTypeOK /\ ROB_DEPTH \in Nat \ {0} /\ count \in 0 .. ROB_DEPTH
      /\ ex.valid \in BOOLEAN /\ mem.valid \in BOOLEAN /\ ~ex.exc
      /\ ex.idx \in Idx /\ mem.idx \in Idx
  BY PipelineAssumption DEF TypeOK, RobTypeOK, Stage, PlainStages
<1>2. left = count - One(ex.valid) - One(mem.valid) /\ left \in 0 .. 2
  BY DEF left, Tracked
<1>3. /\ ex.valid => (cdb(v).en /\ cdb(v).idx = ex.idx <=> grant_ex)
      /\ mem.valid => (cdb(v).en /\ cdb(v).idx = mem.idx <=> grant_mem)
  BY Completes
<1>4. ex.valid => rob_data'[ex.idx] = IF grant_ex THEN Completed(rob_data[ex.idx], cdb(v))
                                                  ELSE rob_data[ex.idx]
  <2> SUFFICES ASSUME ex.valid
               PROVE  rob_data'[ex.idx] = IF grant_ex THEN Completed(rob_data[ex.idx], cdb(v))
                                                      ELSE rob_data[ex.idx]
    OBVIOUS
  <2>1. ex.idx = Slot(count - 1) /\ ~rob_data[ex.idx].completed /\ count - 1 \in 0 .. count - 1
    BY <1>1, <1>2 DEF Tracked, One
  <2>2. ~(commit_en /\ count - 1 = 0)
    BY <2>1, <1>1, Slots DEF commit_en, commit_entry
  <2> QED BY <2>1, <2>2, <1>3, OooEdge
<1>5. ASSUME mem.valid, ~(commit_en /\ left = 0)
      PROVE  rob_data'[mem.idx] = IF grant_mem THEN Completed(rob_data[mem.idx], cdb(v))
                                               ELSE rob_data[mem.idx]
  <2>1. mem.idx = Slot(left) /\ left \in 0 .. count - 1
    BY <1>1, <1>2, <1>5 DEF Tracked, One
  <2> QED BY <2>1, <1>3, <1>5, OooEdge
<1> QED BY <1>1, <1>4, <1>5 DEF RobTypeOK

\* A flush in OoO mode leaves nothing.
LEMMA OooEmpties ==
    ASSUME ooo_en, final_flush, NEW v, MemWb(v), OooUnits(v),
           Trap \/ Return \/ Redirect \/ HazardStall \/ DispatchStall \/ Advance
    PROVE  /\ id' = NoId /\ ex' = NoEx /\ mem' = NoBack /\ wb' = NoBack
           /\ count' = 0 /\ left' = 0
           /\ ~NoEx.valid /\ ~NoBack.valid /\ dest(NoBack) = X0 /\ source(NoEx.i.op) = "none"
<1>1. flush_front
  BY OooFlush
<1>2. id' = NoId /\ ex' = NoEx
  <2>1. ~data_hazard /\ ~stall_dispatch
    BY <1>1 DEF data_hazard, stall_dispatch, valid_inst_id_no_stall
  <2> QED BY <1>1, <2>1 DEF Trap, Return, Redirect, HazardStall, DispatchStall, Advance, Squash
<1>3. mem' = NoBack /\ wb' = NoBack /\ count' = 0
  BY DEF MemWb, OooUnits, RobFlush
<1>4. NoEx.valid = FALSE /\ NoBack.valid = FALSE
  BY DEF NoEx, NoBack, InEx, InBack
<1>5. dest(NoBack) = X0 /\ source(NoEx.i.op) = "none"
  BY Bubbles DEF dest, X0, source, reg_write, fp_we, amo_en, csr_access, csr_write
<1>6. left' = 0
  <2>1. left' = count' - One(ex'.valid) - One(mem'.valid)
    BY DEF left, One
  <2> QED BY <2>1, <1>2, <1>3, <1>4 DEF One
<1> QED BY <1>2, <1>3, <1>4, <1>5, <1>6

-----------------------------------------------------------------------------
\* Positions of the buffer.
LEMMA Below == \A n \in Nat : \A k \in 0 .. n - 1 : k \in Nat /\ k < n
  OBVIOUS

\* One edge in OoO mode keeps the entries those of the stages.
LEMMA BufferedStep ==
    ASSUME NEW b \in BOOLEAN, TypeOK, RobWindow, ooo_en, PlainStages(b), Tracked, Buffered,
           NEW v, MemWb(v), OooUnits(v),
           Trap \/ Return \/ Redirect \/ HazardStall \/ DispatchStall \/ Advance
    PROVE  Buffered'
<1>1. CASE final_flush
  BY <1>1, OooEmpties, Bubbles DEF Buffered
<1>2. CASE ~final_flush
  <2> DEFINE on(i) == cdb(v).en /\ cdb(v).idx = i
             c == cdb(v)
  <2>1. /\ RobUpdate(rob_dispatch, cdb(v))
        /\ left' = left + One(mem.valid) - One(commit_en)
        /\ ex'.valid = dispatch_en
        /\ dispatch_en => ex'.idx = tail_ptr /\ ex'.i = id.i /\ ex'.right = id_right
        /\ ~dispatch_en => ex'.i.op = "bubble"
    BY <1>2, OooMoves
  <2>2. /\ mem'.op = ex.i.op /\ mem'.rd = ex.i.rd /\ mem'.bit = ex.i.bit
        /\ mem'.right = ex.right /\ mem'.val = v /\ mem'.valid = ex.valid
        /\ mem'.idx = ex.idx /\ mem'.done = grant_ex
        /\ wb'.op = mem.op /\ wb'.rd = mem.rd /\ wb'.bit = mem.bit
        /\ wb'.right = mem.right /\ wb'.val = mem.val /\ wb'.valid = mem.valid
        /\ wb'.idx = mem.idx
    BY <1>2, OooMoves
  <2>3. /\ RobTypeOK /\ ROB_DEPTH \in Nat \ {0} /\ count \in 0 .. ROB_DEPTH
        /\ ex.valid \in BOOLEAN /\ mem.valid \in BOOLEAN /\ left \in 0 .. 2
        /\ commit_en \in BOOLEAN
    BY PipelineAssumption DEF TypeOK, RobTypeOK, Stage, Tracked, commit_en, commit_entry, Entry
  <2>4. dispatch_en => id.i.op # "bubble"
    BY OooWires
  <2>5. ex'.valid <=> ex'.i.op # "bubble"
    BY <2>1, <2>4
  <2>6. (mem'.valid <=> mem'.op # "bubble") /\ (~wb'.valid => dest(wb') = X0)
    <3>1. mem.op = "bubble" => dest(wb') = X0
      BY <2>2 DEF dest, X0, reg_write, fp_we, amo_en, csr_access, csr_write
    <3> QED BY <3>1, <2>2 DEF Buffered
  <2>7. ex'.valid => rob_data'[ex'.idx].instr = InstrOf(ex'.i, ex'.right)
    BY <2>1, OooEdge
  <2>8. \A e \in Entry : /\ Completed(e, c).instr = e.instr
                         /\ Completed(e, c).completed = TRUE
                         /\ Completed(e, c).result = c.result
                         /\ Completed(e, c).branch_mispredicted = c.branch_mispredicted
    <3> HIDE DEF c
    <3> QED BY DEF Completed, Entry
  <2>9. mem'.valid => /\ rob_data'[mem'.idx].instr = InstrOf(mem', mem'.right)
                      /\ mem'.done /\ dest(mem') # X0 => rob_data'[mem'.idx].result = mem'.val
    <3> SUFFICES ASSUME ex.valid
                 PROVE  /\ rob_data'[ex.idx].instr = InstrOf(mem', mem'.right)
                        /\ mem'.done /\ dest(mem') # X0 => rob_data'[ex.idx].result = v
      BY <2>2
    <3>1. /\ rob_data[ex.idx] \in Entry /\ rob_data[ex.idx].instr = InstrOf(ex.i, ex.right)
          /\ rob_data'[ex.idx] = IF grant_ex THEN Completed(rob_data[ex.idx], c)
                                             ELSE rob_data[ex.idx]
      BY <1>2, <2>1, StageEntries DEF Buffered
    <3>2. InstrOf(mem', mem'.right) = InstrOf(ex.i, ex.right) /\ dest(mem') = dest(ex.i)
      BY <2>2 DEF InstrOf, dest
    <3>3. grant_ex /\ dest(ex.i) # X0 => c.result = v
      BY CdbCarries
    <3> HIDE DEF c
    <3> QED BY <3>1, <3>2, <3>3, <2>2, <2>8
  <2>10. wb'.valid /\ left' > 0 =>
            /\ wb'.idx = SlotFrom(head_ptr', left' - 1)
            /\ rob_data'[wb'.idx].instr = InstrOf(wb', wb'.right)
            /\ rob_data'[wb'.idx].completed /\ dest(wb') # X0 => rob_data'[wb'.idx].result = wb'.val
    <3> SUFFICES ASSUME mem.valid, left' > 0
                 PROVE  /\ mem.idx = SlotFrom(head_ptr', left' - 1)
                        /\ rob_data'[mem.idx].instr = InstrOf(wb', wb'.right)
                        /\ rob_data'[mem.idx].completed /\ dest(wb') # X0 =>
                              rob_data'[mem.idx].result = mem.val
      BY <2>2
    <3>1. /\ rob_data[mem.idx].instr = InstrOf(mem, mem.right)
          /\ mem.idx = Slot(left) /\ left < ROB_DEPTH
          /\ rob_data[mem.idx].completed <=> mem.done
          /\ mem.done /\ dest(mem) # X0 => rob_data[mem.idx].result = mem.val
          /\ ~(commit_en /\ left = 0)
      BY <2>1, <2>3 DEF Buffered, Tracked, left, One
    <3>2. /\ rob_data[mem.idx] \in Entry
          /\ rob_data'[mem.idx] = IF grant_mem THEN Completed(rob_data[mem.idx], c)
                                               ELSE rob_data[mem.idx]
      BY <1>2, <2>1, <3>1, StageEntries
    <3>3. InstrOf(wb', wb'.right) = InstrOf(mem, mem.right) /\ dest(wb') = dest(mem)
      BY <2>2 DEF InstrOf, dest
    <3>4. grant_mem /\ dest(mem) # X0 => c.result = mem.val
      BY CdbCarries
    <3>5. mem.idx = SlotFrom(head_ptr', left' - 1)
      <4> DEFINE k == left' - 1
      <4>1. k \in Nat /\ k + One(commit_en) = left
        BY <2>1, <2>3 DEF One
      <4>2. head_ptr' = IF commit_en THEN Inc(head_ptr) ELSE head_ptr
        BY <2>1, OooEdge
      <4> HIDE DEF k
      <4>3. SlotFrom(head_ptr', k) = Slot(left)
        BY <4>1, <4>2, <3>1, <2>3, SlotsMove
      <4> QED BY <4>3, <3>1 DEF k
    <3> HIDE DEF c
    <3> QED BY <3>1, <3>2, <3>3, <3>4, <3>5, <2>8
  <2>11. ASSUME NEW k, k \in 0 .. count' - 1, rob_data'[SlotFrom(head_ptr', k)].completed
         PROVE  LET e == rob_data'[SlotFrom(head_ptr', k)]
                IN  e.branch_mispredicted <=> pc_sel(e.instr)
    <3> DEFINE j == k + One(commit_en)
               e == rob_data'[SlotFrom(head_ptr', k)]
               old == rob_data[Slot(j)]
    <3>1. k \in Nat /\ k < count'
      <4>1. count' \in Nat
        BY <2>3, <2>1, OooEdge DEF One
      <4> QED BY <4>1, <2>11, Below
    <3>2. /\ j \in 0 .. count - 1
          /\ e = IF on(Slot(j)) THEN Completed(old, c) ELSE old
      BY <1>2, <2>1, <2>11, <3>1, EntryMoves
    <3>3. old \in Entry
      <4>1. j \in 0 .. ROB_DEPTH - 1
        BY <2>3, <3>2
      <4> QED BY <4>1, <2>3, Slots DEF RobTypeOK
    <3>4. CASE ~on(Slot(j))
      BY <2>11, <3>2, <3>4 DEF Buffered
    <3>5. CASE on(Slot(j))
      <4>1. e.instr = old.instr /\ e.branch_mispredicted = c.branch_mispredicted
        <5> HIDE DEF c, on, j
        <5> QED BY <3>2, <3>3, <3>5, <2>8
      <4>2. CASE grant_wb
        <5>1. /\ wb.idx = Slot(j) /\ c.branch_mispredicted = pc_sel(wb)
              /\ wb.valid /\ left > 0
          BY <3>5, <4>2, Grants, CdbCarries DEF Tracked
        <5>2. old.instr = InstrOf(wb, wb.right)
          BY <5>1 DEF Buffered
        <5>3. pc_sel(InstrOf(wb, wb.right)) = pc_sel(wb)
          BY InstrOfSame
        <5>4. e.branch_mispredicted = pc_sel(e.instr)
          <6> HIDE DEF c, on, old, e
          <6> QED BY <5>1, <5>2, <5>3, <4>1, Zenon
        <5> QED BY <5>4, Zenon
      <4>3. CASE grant_mem
        <5>1. mem.idx = Slot(j) /\ c.branch_mispredicted = pc_sel(mem) /\ mem.valid
          BY <3>5, <4>3, Grants, CdbCarries
        <5>2. old.instr = InstrOf(mem, mem.right)
          BY <5>1 DEF Buffered
        <5>3. pc_sel(InstrOf(mem, mem.right)) = pc_sel(mem)
          BY InstrOfSame
        <5>4. e.branch_mispredicted = pc_sel(e.instr)
          <6> HIDE DEF c, on, old, e
          <6> QED BY <5>1, <5>2, <5>3, <4>1, Zenon
        <5> QED BY <5>4, Zenon
      <4>4. CASE grant_ex
        <5>1. ex.idx = Slot(j) /\ c.branch_mispredicted = pc_sel(ex.i) /\ ex.valid
          BY <3>5, <4>4, Grants, CdbCarries
        <5>2. old.instr = InstrOf(ex.i, ex.right)
          BY <5>1 DEF Buffered
        <5>3. pc_sel(InstrOf(ex.i, ex.right)) = pc_sel(ex.i)
          BY InstrOfSame
        <5>4. e.branch_mispredicted = pc_sel(e.instr)
          <6> HIDE DEF c, on, old, e
          <6> QED BY <5>1, <5>2, <5>3, <4>1, Zenon
        <5> QED BY <5>4, Zenon
      <4> QED BY <3>5, <4>2, <4>3, <4>4, Grants
    <3> QED BY <3>4, <3>5
  <2> QED BY <2>5, <2>6, <2>7, <2>9, <2>10, <2>11 DEF Buffered, Slot, SlotFrom
<1> QED BY <1>1, <1>2

\* What commits is the program's; it flushes exactly if it owes a transfer, which then
\* is the one owed, and all that is behind it is not the program's.
LEMMA HeadPath ==
    ASSUME NEW b \in BOOLEAN, TypeOK, RobWindow, ooo_en, PlainStages(b), Buffered, commit_en,
           NEW m, m \in 0 .. count, OwedBy(m)
    PROVE  /\ m >= 1 /\ commit_entry.instr.right
           /\ final_flush => m = 1 /\ want = pc_next
           /\ ~final_flush => owes(commit_entry.instr, FALSE) = "none"
<1>1. count \in Nat /\ count > 0 /\ RobTypeOK
  BY PipelineAssumption DEF TypeOK, RobTypeOK, commit_en
<1>2. Slot(0) = head_ptr /\ commit_entry = rob_data[Slot(0)] /\ commit_entry.completed
  BY <1>1, Slots DEF commit_entry, commit_en
<1>3. m >= 1 /\ 0 \in 0 .. count - 1
  <2>1. m = 0 => want = "none"
    BY DEF OwedBy
  <2>2. want = "none" => m = count
    BY DEF OwedBy
  <2> QED BY <1>1, <2>1, <2>2
<1>4. /\ rob_data[Slot(0)].instr.right <=> 0 < m
      /\ 0 + 1 < m => owes(rob_data[Slot(0)].instr, FALSE) = "none"
  BY <1>3, Zenon DEF OwedBy
<1>5. commit_entry.instr.right
  <2>1. 0 < m
    BY <1>1, <1>3
  <2> QED BY <2>1, <1>2, <1>4, Zenon
<1>6. commit_entry.branch_mispredicted <=> pc_sel(commit_entry.instr)
  BY <1>2, <1>3 DEF Buffered
<1>7. /\ commit_entry.instr.op = "mret" =>
            owes(commit_entry.instr, FALSE) = "mepc" /\ ~pc_sel(commit_entry.instr)
      /\ pc_sel(commit_entry.instr) => owes(commit_entry.instr, FALSE) = "target"
      /\ ~pc_sel(commit_entry.instr) /\ commit_entry.instr.op # "mret" =>
            owes(commit_entry.instr, FALSE) = "none"
  BY DEF owes, pc_sel
<1>8. final_flush <=> owes(commit_entry.instr, FALSE) # "none"
  BY <1>6, <1>7, OooWires
<1>9. final_flush => m = 1
  <2>1. final_flush => ~(0 + 1 < m)
    BY <1>2, <1>4, <1>8, Zenon
  <2> QED BY <1>1, <1>3, <2>1
<1>10. final_flush => want = pc_next
  <2> SUFFICES ASSUME final_flush PROVE want = pc_next
    OBVIOUS
  <2>1. want = owes(commit_entry.instr, FALSE)
    BY <1>2, <1>9 DEF OwedBy
  <2>2. pc_next = IF commit_entry.instr.op = "mret" THEN "mepc" ELSE "target"
    BY OooWires
  <2>3. commit_entry.branch_mispredicted \/ commit_entry.instr.op = "mret"
    BY OooWires
  <2> QED BY <2>1, <2>2, <2>3, <1>6, <1>7
<1> QED BY <1>3, <1>5, <1>8, <1>9, <1>10

\* What serializes waits for an empty buffer, and nothing is ahead of it then.
LEMMA AloneStep ==
    ASSUME NEW b \in BOOLEAN, TypeOK, RobWindow, ooo_en, PlainStages(b), Tracked, Buffered, Alone,
           OooPath, NEW v, MemWb(v), OooUnits(v),
           Trap \/ Return \/ Redirect \/ HazardStall \/ DispatchStall \/ Advance
    PROVE  Alone'
<1>1. ~serializing("bubble")
  BY DEF serializing, amo_en, csr_access, csr_write
<1>2. CASE final_flush
  BY <1>1, <1>2, OooEmpties, Bubbles DEF Alone
<1>3. CASE ~final_flush
  <2>1. /\ RobUpdate(rob_dispatch, cdb(v))
        /\ left' = left + One(mem.valid) - One(commit_en)
        /\ dispatch_en => ex'.i = id.i /\ ex'.right = id_right
        /\ ~dispatch_en => ex'.i.op = "bubble"
        /\ mem'.op = ex.i.op /\ mem'.right = ex.right
    BY <1>3, OooMoves
  <2>2. RobTypeOK /\ ROB_DEPTH \in Nat \ {0} /\ count \in 0 .. ROB_DEPTH
    BY PipelineAssumption DEF TypeOK, RobTypeOK
  <2>3. ASSUME serializing(ex'.i.op) PROVE count' = 1 /\ ex'.right
    <3>1. dispatch_en /\ serializing(id.i.op) /\ id.i.op # "bubble"
      BY <1>1, <2>1, <2>3
    <3>2. count = 0
      BY <2>2, <3>1, DispatchFinds
    <3>3. count' = 1
      BY <2>1, <3>1, <3>2, OooEdge DEF One
    <3>4. want = "none"
      BY <3>2 DEF OooPath, OwedBy
    <3> QED BY <2>1, <3>1, <3>3, <3>4 DEF id_right, OooPath
  <2>4. ASSUME serializing(mem'.op) PROVE left' = 0 /\ mem'.right
    <3>1. ex.valid /\ count = 1 /\ ex.right
      BY <1>1, <2>1, <2>4 DEF Buffered, Alone
    <3>2. mem.valid = FALSE /\ left = 0
      <4>1. left = count - One(ex.valid) - One(mem.valid) /\ left \in 0 .. 2
        BY DEF left, Tracked
      <4>2. mem.valid \in BOOLEAN
        BY DEF TypeOK, Stage
      <4> QED BY <4>1, <4>2, <3>1 DEF One
    <3>3. ~commit_en
      BY <1>3, <3>2, Commits
    <3> QED BY <2>1, <3>1, <3>2, <3>3 DEF One
  <2> QED BY <2>3, <2>4 DEF Alone
<1> QED BY <1>2, <1>3

\* One edge in OoO mode keeps to the path: a transfer is owed from the edge that
\* dispatches its instruction until the edge that commits it.
LEMMA OooPathStep ==
    ASSUME NEW b \in BOOLEAN, TypeOK, RobWindow, ooo_en, PlainStages(b), Buffered, OooPath,
           NEW v, MemWb(v), OooUnits(v), Ghosts(v, "commit"),
           Trap \/ Return \/ Redirect \/ HazardStall \/ DispatchStall \/ Advance
    PROVE  OooPath'
<1>1. /\ ROB_DEPTH \in Nat \ {0} /\ count \in 0 .. ROB_DEPTH /\ pc_ok
      /\ commit_en \in BOOLEAN /\ dispatch_en \in BOOLEAN /\ id_right \in BOOLEAN
  BY WireTypes, PipelineAssumption
     DEF TypeOK, RobTypeOK, commit_en, commit_entry, Entry, id_right, OooPath
<1>2. PICK m \in 0 .. count : OwedBy(m)
  BY DEF OooPath
<1>3. CASE final_flush
  <2>1. /\ commit_en /\ flush_front
        /\ pc_next = IF commit_entry.instr.op = "mret" THEN "mepc" ELSE "target"
    BY <1>3, OooWires
  <2>2. commit_entry.instr.right /\ want = pc_next
    BY <1>2, <1>3, <2>1, HeadPath
  <2>3. pc_ok' /\ want' = "none"
    BY <2>1, <2>2 DEF Ghosts, redirect_ok
  <2>4. count' = 0 /\ id'.i.op = "bubble"
    BY <1>3, OooEmpties, Bubbles
  <2>5. OwedBy(0)'
    BY <2>3, <2>4 DEF OwedBy
  <2> QED BY <2>3, <2>4, <2>5 DEF OooPath
<1>4. CASE ~final_flush
  <2>1. /\ RobUpdate(rob_dispatch, cdb(v)) /\ ~flush_front /\ pc_next = "sequential"
        /\ dispatch_en <=> id.i.op # "bubble" /\ ~stall
        /\ count' = count + One(dispatch_en) - One(commit_en)
    BY <1>4, OooWires, OooEdge DEF OooUnits
  <2>2. exception_id = FALSE
    BY OooWires, WireTypes
  <2>3. pc_ok' /\ want' = IF dispatch_en /\ id_right THEN owes(id.i, FALSE) ELSE want
    BY <2>1, <2>2, <1>1 DEF Ghosts, id_right
  <2>4. id'.i.op # "bubble" => id'.ok
    BY <1>1, <2>1, Bubbles DEF Trap, Return, Redirect, HazardStall, DispatchStall, Advance, Squash,
                               Hold, Fetched, OooPath
  <2>5. dispatch_en => (id_right <=> want = "none")
    BY <2>1 DEF id_right, OooPath
  <2> DEFINE Old(j) == rob_data[Slot(j)].instr
             New(k) == rob_data'[SlotFrom(head_ptr', k)].instr
             c == One(commit_en)
  <2>6. ASSUME NEW k \in Nat, k < count'
        PROVE  \/ k + c \in 0 .. count - 1 /\ New(k) = Old(k + c)
               \/ k + c = count /\ dispatch_en /\ New(k) = InstrOf(id.i, id_right)
    BY <1>4, <2>1, <2>6, EntryMoves
  <2>7. ASSUME NEW j \in 0 .. count - 1
        PROVE  /\ Old(j).right <=> j < m
               /\ j + 1 < m => owes(Old(j), FALSE) = "none"
    BY <1>2, Zenon DEF OwedBy
  <2>8. /\ want = IF m = 0 THEN "none" ELSE owes(Old(m - 1), FALSE)
        /\ want = "none" => m = count
    BY <1>2, Zenon DEF OwedBy
  <2>9. PICK n : n = m - c + One(dispatch_en /\ id_right)
    OBVIOUS
  <2>10. /\ c \in {0, 1} /\ (c = 1 <=> commit_en)
         /\ One(dispatch_en) \in {0, 1} /\ (One(dispatch_en) = 1 <=> dispatch_en)
         /\ m \in Nat /\ m <= count /\ count \in Nat
         /\ count' = count + One(dispatch_en) - c
    BY <1>1, <2>1 DEF One
  <2>11. commit_en => m >= 1 /\ (want # "none" => m >= 2)
    <3> SUFFICES ASSUME commit_en PROVE m >= 1 /\ (want # "none" => m >= 2)
      OBVIOUS
    <3>1. m >= 1 /\ owes(commit_entry.instr, FALSE) = "none"
      BY <1>2, <1>4, HeadPath
    <3>2. Old(0) = commit_entry.instr
      BY Slots DEF TypeOK, commit_entry
    <3>3. m = 1 => want = "none"
      <4> SUFFICES ASSUME m = 1 PROVE want = "none"
        OBVIOUS
      <4>1. m - 1 = 0 /\ m # 0
        OBVIOUS
      <4>2. want = owes(Old(0), FALSE)
        BY <4>1, <2>8
      <4> QED BY <4>2, <3>1, <3>2
    <3> QED BY <3>1, <3>3, <2>10
  <2> HIDE DEF Old, New, c
  <2> DEFINE Owed ==
               /\ n \in Nat /\ n <= count'
               /\ want' = IF n = 0 THEN "none" ELSE owes(New(n - 1), FALSE)
               /\ want' = "none" => n = count'
               /\ \A k \in Nat : k < count' =>
                     /\ New(k).right <=> k < n
                     /\ k + 1 < n => owes(New(k), FALSE) = "none"
  <2>12. ASSUME want = "none" PROVE Owed
    <3>1. m = count /\ n = count' /\ n \in Nat
      <4>1. One(dispatch_en /\ id_right) = One(dispatch_en)
        BY <2>5, <2>12 DEF One
      <4>2. m = count
        BY <2>8, <2>12
      <4> QED BY <4>1, <4>2, <2>9, <2>10, <2>11
    <3>2. want' = IF n = 0 THEN "none" ELSE owes(New(n - 1), FALSE)
      <4>1. CASE dispatch_en
        <5>1. One(dispatch_en) = 1
          BY <4>1, <2>10
        <5>2. n = (count + 1) - c
          BY <5>1, <3>1, <2>10
        <5>3. n # 0 /\ n - 1 \in Nat /\ (n - 1) + c = count
          <6>1. CASE c = 0
            BY <6>1, <5>2, <2>10
          <6>2. CASE c = 1
            <7>1. count # 0
              BY <6>2, <2>10, <2>11
            <7> QED BY <6>2, <7>1, <5>2, <2>10
          <6> QED BY <6>1, <6>2, <2>10
        <5>4. n - 1 < count'
          <6>1. n \in Nat
            BY <3>1
          <6>2. n - 1 < n
            BY <6>1
          <6> QED BY <6>2, <3>1, Zenon
        <5>5. New(n - 1) = InstrOf(id.i, id_right)
          BY <5>3, <5>4, <2>6, <2>10
        <5>6. want' = owes(id.i, FALSE)
          BY <4>1, <2>3, <2>5, <2>12
        <5> QED BY <5>3, <5>5, <5>6, InstrOfSame
      <4>2. CASE ~dispatch_en /\ n # 0
        <5>1. n - 1 \in Nat /\ n - 1 < count' /\ (n - 1) + c = m - 1 /\ m # 0
          BY <4>2, <3>1, <2>10
        <5>2. New(n - 1) = Old(m - 1)
          BY <5>1, <4>2, <2>6
        <5> QED BY <5>1, <5>2, <4>2, <2>3, <2>8
      <4>3. CASE ~dispatch_en /\ n = 0
        BY <4>3, <2>3, <2>12
      <4> QED BY <4>1, <4>2, <4>3
    <3>3. ASSUME NEW k \in Nat, k < count'
          PROVE  New(k).right /\ (k + 1 < n => owes(New(k), FALSE) = "none")
      <4>1. CASE k + c \in 0 .. count - 1 /\ New(k) = Old(k + c)
        <5>1. k + c < m
          BY <4>1, <3>1, <2>10
        <5>2. New(k).right
          BY <4>1, <5>1, <2>7
        <5>3. (k + c) + 1 < m \/ (k + c = m - 1 /\ m # 0)
          BY <5>1, <2>10
        <5>4. owes(Old(k + c), FALSE) = "none"
          BY <5>3, <4>1, <2>7, <2>8, <2>12
        <5> QED BY <5>2, <5>4, <4>1
      <4>2. CASE k + c = count /\ dispatch_en /\ New(k) = InstrOf(id.i, id_right)
        <5>1. id_right
          BY <4>2, <2>5, <2>12
        <5>2. One(dispatch_en) = 1
          BY <4>2, <2>10
        <5>3. ~(k + 1 < n)
          BY <4>2, <5>2, <3>1, <2>10
        <5>4. New(k).right = id_right
          BY <4>2 DEF InstrOf
        <5> QED BY <5>1, <5>3, <5>4
      <4> QED BY <3>3, <4>1, <4>2, <2>6
    <3>4. \A k \in Nat : k < count' => k < n
      BY <3>1
    <3>5. \A k \in Nat : k < count' =>
             /\ New(k).right <=> k < n
             /\ k + 1 < n => owes(New(k), FALSE) = "none"
      BY <3>3, <3>4
    <3>6. n <= count'
      BY <3>1
    <3> QED BY <3>1, <3>2, <3>5, <3>6
  <2>13. ASSUME want # "none" PROVE Owed
    <3>1. /\ m # 0 /\ n = m - c /\ n \in Nat /\ n # 0 /\ n <= count'
          /\ want' = want /\ ~(dispatch_en /\ id_right)
      <4>1. ~(dispatch_en /\ id_right)
        BY <2>5, <2>13
      <4>2. One(dispatch_en /\ id_right) = 0 /\ want' = want
        BY <4>1, <2>3 DEF One
      <4>3. m # 0
        BY <2>8, <2>13
      <4> QED BY <4>1, <4>2, <4>3, <2>9, <2>10, <2>11, <2>13
    <3>2. want' = owes(New(n - 1), FALSE)
      <4>1. n - 1 \in Nat /\ n - 1 < count' /\ (n - 1) + c = m - 1 /\ m - 1 # count
        BY <3>1, <2>10
      <4>2. New(n - 1) = Old(m - 1)
        BY <4>1, <2>6
      <4> QED BY <4>2, <3>1, <2>8
    <3>3. ASSUME NEW k \in Nat, k < count'
          PROVE  (New(k).right <=> k < n) /\ (k + 1 < n => owes(New(k), FALSE) = "none")
      <4>1. CASE k + c \in 0 .. count - 1 /\ New(k) = Old(k + c)
        <5>1. (k + c < m <=> k < n) /\ ((k + c) + 1 < m <=> k + 1 < n)
          BY <3>1, <2>10
        <5> QED BY <4>1, <5>1, <2>7
      <4>2. CASE k + c = count /\ dispatch_en /\ New(k) = InstrOf(id.i, id_right)
        <5>1. ~id_right /\ ~(k < n) /\ ~(k + 1 < n)
          BY <4>2, <3>1, <2>10
        <5>2. New(k).right = id_right
          BY <4>2 DEF InstrOf
        <5> QED BY <5>1, <5>2
      <4> QED BY <3>3, <4>1, <4>2, <2>6
    <3> QED BY <3>1, <3>2, <3>3, <2>13
  <2>14. Owed
    BY <2>12, <2>13
  <2>15. n \in 0 .. count' /\ count' \in Nat
    BY <2>10, <2>14
  <2>16. OwedBy(n)'
    <3>1. \A k \in 0 .. count' - 1 : /\ New(k).right <=> k < n
                                     /\ k + 1 < n => owes(New(k), FALSE) = "none"
      BY <2>14, <2>15, Below
    <3> HIDE DEF Owed
    <3> QED BY <2>14, <3>1 DEF OwedBy, Slot, SlotFrom, New, Owed
  <2> QED BY <2>3, <2>4, <2>15, <2>16 DEF OooPath
<1> QED BY <1>3, <1>4

-----------------------------------------------------------------------------
\* The entry of the instruction in WB has its result after the edge, whether the
\* instruction completes at this edge or has before.
LEMMA WbEntry ==
    ASSUME NEW b \in BOOLEAN, TypeOK, RobWindow, ooo_en, ~final_flush, PlainStages(b), Tracked,
           Buffered, NEW v, RobUpdate(rob_dispatch, cdb(v)),
           wb.valid, left > 0, ~(commit_en /\ left = 1)
    PROVE  /\ wb.idx = Slot(left - 1)
           /\ dest(rob_data'[wb.idx].instr) = dest(wb)
           /\ rob_data'[wb.idx].instr.right = wb.right
           /\ dest(wb) # X0 => rob_data'[wb.idx].result = wb.val
<1> DEFINE c == cdb(v)
           old == rob_data[wb.idx]
<1>1. /\ RobTypeOK /\ ROB_DEPTH \in Nat \ {0} /\ count \in 0 .. ROB_DEPTH
      /\ ex.valid \in BOOLEAN /\ mem.valid \in BOOLEAN
  BY PipelineAssumption DEF TypeOK, RobTypeOK, Stage
<1>2. left = count - One(ex.valid) - One(mem.valid) /\ left \in 0 .. 2
  BY DEF left, Tracked
<1>3. left - 1 \in 0 .. count - 1 /\ left - 1 \in 0 .. ROB_DEPTH - 1 /\ ~(commit_en /\ left - 1 = 0)
  BY <1>1, <1>2 DEF One
<1>4. /\ wb.idx = Slot(left - 1) /\ old.instr = InstrOf(wb, wb.right)
      /\ old.completed /\ dest(wb) # X0 => old.result = wb.val
  BY DEF Buffered
<1>5. old \in Entry
  BY <1>1, <1>3, <1>4, Slots DEF RobTypeOK
<1>6. rob_data'[wb.idx] = IF c.en /\ c.idx = wb.idx THEN Completed(old, c) ELSE old
  BY <1>3, <1>4, OooEdge
<1>7. c.en /\ c.idx = wb.idx => grant_wb
  <2>1. \A k, m \in 0 .. ROB_DEPTH - 1 : Slot(k) = Slot(m) => k = m
    BY <1>1, Slots
  <2>2. mem.valid => mem.idx # wb.idx
    BY <2>1, <1>1, <1>2, <1>3, <1>4 DEF One, Tracked
  <2>3. ex.valid => ex.idx # wb.idx
    BY <2>1, <1>1, <1>2, <1>3, <1>4 DEF One, Tracked
  <2> QED BY <2>2, <2>3, Grants
<1>8. old.completed \/ (c.en /\ c.idx = wb.idx)
  BY <1>4, Completes
<1>9. grant_wb /\ dest(wb) # X0 => c.result = wb.val
  BY CdbCarries
<1>10. dest(InstrOf(wb, wb.right)) = dest(wb) /\ InstrOf(wb, wb.right).right = wb.right
  BY InstrOfSame
<1> HIDE DEF c, old
<1>11. Completed(old, c).instr = old.instr /\ Completed(old, c).result = c.result
  BY <1>5 DEF Completed, Entry
<1> QED BY <1>4, <1>6, <1>7, <1>8, <1>9, <1>10, <1>11

\* The entry at the head is the program's.
LEMMA HeadRight == TypeOK /\ OooPath /\ count > 0 => rob_data[head_ptr].instr.right
<1> SUFFICES ASSUME TypeOK, OooPath, count > 0 PROVE rob_data[head_ptr].instr.right
  OBVIOUS
<1>1. PICK m \in 0 .. count : OwedBy(m)
  BY DEF OooPath
<1>2. count \in Nat /\ Slot(0) = head_ptr
  BY PipelineAssumption DEF TypeOK, RobTypeOK, Slot, Idx
<1>3. 0 < m /\ 0 \in 0 .. count - 1
  <2>1. (m = 0 => want = "none") /\ (want = "none" => m = count)
    BY <1>1 DEF OwedBy
  <2> QED BY <2>1, <1>2
<1>4. rob_data[Slot(0)].instr.right <=> 0 < m
  BY <1>1, <1>3, Zenon DEF OwedBy
<1> QED BY <1>2, <1>3, <1>4

\* The stages hold instructions of the program as far as their entries do.
LEMMA StagesRight ==
    ASSUME TypeOK, Tracked, Buffered, NEW m \in 0 .. count, OwedBy(m)
    PROVE  /\ ex.valid => (ex.right <=> count - 1 < m)
           /\ mem.valid => (mem.right <=> left < m) /\ left < count
           /\ wb.valid /\ left > 0 => (wb.right <=> left - 1 < m)
<1>1. /\ count \in Nat /\ ex.valid \in BOOLEAN /\ mem.valid \in BOOLEAN
      /\ left = count - One(ex.valid) - One(mem.valid) /\ left \in 0 .. 2
  BY PipelineAssumption DEF TypeOK, RobTypeOK, Stage, Tracked, left
<1>2. \A k \in 0 .. count - 1 : rob_data[Slot(k)].instr.right <=> k < m
  BY Zenon DEF OwedBy
<1>3. \A i : \A x : InstrOf(i, x).right = x
  BY InstrOfSame
<1>4. ex.valid => (ex.right <=> count - 1 < m)
  <2>1. ex.valid => count - 1 \in 0 .. count - 1 /\ rob_data[Slot(count - 1)].instr.right = ex.right
    BY <1>1, <1>3 DEF Tracked, Buffered, One
  <2> QED BY <2>1, <1>2
<1>5. mem.valid => (mem.right <=> left < m) /\ left < count
  <2>1. mem.valid => left \in 0 .. count - 1 /\ left < count
    BY <1>1 DEF One
  <2>2. mem.valid => rob_data[Slot(left)].instr.right = mem.right
    BY <1>3 DEF Tracked, Buffered
  <2> QED BY <2>1, <2>2, <1>2
<1>6. wb.valid /\ left > 0 => (wb.right <=> left - 1 < m)
  <2>1. wb.valid /\ left > 0 => /\ left - 1 \in 0 .. count - 1
                               /\ rob_data[Slot(left - 1)].instr.right = wb.right
    BY <1>1, <1>3 DEF Buffered, One
  <2> QED BY <2>1, <1>2
<1> QED BY <1>4, <1>5, <1>6

\* Where the values are, after an edge that flushes nothing, of the registers that
\* no instruction of the program that was in EX or in MEM writes.
LEMMA BehindStep ==
    ASSUME NEW b \in BOOLEAN, TypeOK, RobWindow, ooo_en, ~final_flush, PlainStages(b), Tracked,
           Buffered, OooPath, OooValues, NEW v, MemWb(v), OooUnits(v), TypeOK', OooPath',
           Trap \/ Return \/ Redirect \/ HazardStall \/ DispatchStall \/ Advance,
           NEW r \in Reg \ {X0}, ~(mem.right /\ dest(mem) = r)
    PROVE  gold[r] = IF Behind' /\ dest(commit_entry'.instr) = r THEN commit_entry'.result
                     ELSE written[r]
<1> DEFINE ce == rob_data[head_ptr]
           next == rob_data'[head_ptr']
<1>1. /\ RobUpdate(rob_dispatch, cdb(v))
      /\ left' = left + One(mem.valid) - One(commit_en) /\ wb'.valid = mem.valid
  BY OooMoves
<1>2. /\ RobTypeOK /\ ROB_DEPTH \in Nat \ {0} /\ count \in 0 .. ROB_DEPTH
      /\ head_ptr \in Idx /\ mem.valid \in BOOLEAN /\ ex.valid \in BOOLEAN /\ left \in 0 .. 2
  BY PipelineAssumption DEF TypeOK, RobTypeOK, Stage, Tracked
<1>3. gold[r] = IF wb.right /\ dest(wb) = r THEN wb.val
                ELSE IF Behind /\ dest(ce.instr) = r THEN ce.result ELSE regs[r]
  BY DEF OooValues, commit_entry
<1>4. written[r] = IF commit_en /\ dest(ce.instr) = r THEN ce.result ELSE regs[r]
  BY OooWires DEF commit_entry
<1>5. head_ptr' = IF commit_en THEN Inc(head_ptr) ELSE head_ptr
  BY <1>1, OooEdge
<1>6. Slot(0) = head_ptr
  BY <1>2, Slots
<1>7. Behind' <=> left' = 2 \/ (left' = 1 /\ ~mem.valid)
  BY <1>1 DEF Behind
<1>8. commit_entry' = next
  BY DEF commit_entry
<1>9. CASE left = 2
  <2>1. commit_en /\ wb.valid /\ wb.idx = Slot(1)
    BY <1>9, Commits DEF Tracked
  <2>2. Behind /\ Behind'
    BY <1>1, <1>2, <1>7, <1>9, <2>1 DEF Behind, One
  <2>3. head_ptr' = wb.idx
    <3>1. count >= 2
      BY <1>2, <1>9 DEF left, One
    <3> QED BY <3>1, <2>1, <1>2, <1>5 DEF Inc, Slot, Idx
  <2>4. /\ dest(next.instr) = dest(wb) /\ next.instr.right = wb.right
        /\ dest(wb) # X0 => next.result = wb.val
    BY <1>1, <1>9, <2>1, <2>3, WbEntry
  <2>5. next.instr.right
    <3>1. left' = count' - One(ex'.valid) - One(mem'.valid)
      BY DEF left, One
    <3>2. left' \in Nat \ {0} /\ count' \in Nat
      BY <1>1, <1>2, <1>9, <2>1, PipelineAssumption DEF One, TypeOK, RobTypeOK
    <3>3. count' > 0
      <4>1. One(ex'.valid) \in Nat /\ One(mem'.valid) \in Nat
        BY DEF One
      <4> QED BY <4>1, <3>1, <3>2
    <3>4. TypeOK' /\ OooPath' /\ (count > 0)' => (rob_data[head_ptr].instr.right)'
      BY HeadRight, PTL
    <3> QED BY <3>3, <3>4
  <2> HIDE DEF ce, next
  <2> QED BY <2>1, <2>2, <2>4, <2>5, <1>3, <1>4, <1>8
<1>10. CASE left = 1 /\ wb.valid
  <2>1. wb.idx = head_ptr /\ ce.instr = InstrOf(wb, wb.right) /\ ~Behind
        /\ (ce.completed /\ dest(wb) # X0 => ce.result = wb.val)
    BY <1>6, <1>10 DEF Buffered, Behind
  <2>2. commit_en <=> ce.completed
    BY <1>10, Commits
  <2>3. dest(ce.instr) = dest(wb) /\ wb.right
    <3>1. dest(InstrOf(wb, wb.right)) = dest(wb) /\ InstrOf(wb, wb.right).right = wb.right
      BY InstrOfSame
    <3>2. count > 0
      BY <1>2, <1>10 DEF left, One
    <3> QED BY <3>1, <3>2, <2>1, HeadRight
  <2>4. CASE commit_en
    <3>1. ~Behind'
      BY <1>1, <1>2, <1>7, <1>10, <2>4 DEF One
    <3> HIDE DEF ce, next
    <3> QED BY <3>1, <2>1, <2>2, <2>3, <2>4, <1>3, <1>4
  <2>5. CASE ~commit_en
    <3>1. Behind'
      BY <1>1, <1>2, <1>7, <1>10, <2>5 DEF One
    <3>2. dest(next.instr) = dest(wb) /\ (dest(wb) # X0 => next.result = wb.val)
      BY <1>1, <1>5, <1>10, <2>1, <2>5, WbEntry
    <3> HIDE DEF ce, next
    <3> QED BY <3>1, <3>2, <2>1, <2>3, <2>5, <1>3, <1>4, <1>8
  <2> QED BY <2>4, <2>5
<1>11. CASE left = 1 /\ ~wb.valid
  <2>1. commit_en /\ Behind /\ dest(wb) = X0
    BY <1>11, Commits DEF Tracked, Behind, Buffered
  <2>2. ~Behind'
    BY <1>1, <1>2, <1>7, <1>11, <2>1 DEF One
  <2> HIDE DEF ce, next
  <2> QED BY <2>1, <2>2, <1>3, <1>4
<1>12. CASE left = 0
  <2>1. ~Behind /\ (commit_en <=> mem.valid /\ mem.done)
    BY <1>12, Commits DEF Behind
  <2>2. ~Behind'
    BY <1>1, <1>2, <1>7, <1>12, <2>1 DEF One
  <2>3. commit_en => dest(ce.instr) = dest(mem) /\ mem.right
    <3>1. dest(InstrOf(mem, mem.right)) = dest(mem) /\ InstrOf(mem, mem.right).right = mem.right
      BY InstrOfSame
    <3>2. commit_en => mem.idx = head_ptr /\ mem.valid /\ count > 0
      BY <1>2, <1>6, <1>12, <2>1 DEF Tracked, left, One
    <3> QED BY <3>1, <3>2, HeadRight DEF Buffered
  <2>4. dest(wb) = r => regs[r] = wb.val
    BY <1>12 DEF OooValues, Buffered
  <2> HIDE DEF ce, next
  <2> QED BY <2>1, <2>2, <2>3, <2>4, <1>3, <1>4
<1> QED BY <1>2, <1>9, <1>10, <1>11, <1>12

\* The entry at the head is that of the instruction in stage s, with its result.
HeadOf(s) == /\ dest(commit_entry.instr) = dest(s) /\ commit_entry.instr.right = s.right
             /\ dest(s) # X0 => commit_entry.result = s.val

\* An entry that is behind commits, and any other entry that commits is that of the
\* instruction in WB or in MEM, with its result.
LEMMA HeadHolds ==
    ASSUME NEW b \in BOOLEAN, TypeOK, RobWindow, PlainStages(b), Tracked, Buffered
    PROVE  /\ Behind => commit_en
           /\ commit_en /\ ~Behind =>
                 \/ left = 1 /\ wb.valid /\ HeadOf(wb)
                 \/ left = 0 /\ mem.valid /\ HeadOf(mem)
<1>1. /\ RobTypeOK /\ head_ptr \in Idx /\ Slot(0) = head_ptr /\ left \in 0 .. 2
      /\ ~commit_entry.exception
  BY Slots DEF TypeOK, RobTypeOK, Tracked, PlainStages, commit_entry
<1>2. \A s : dest(InstrOf(s, s.right)) = dest(s) /\ InstrOf(s, s.right).right = s.right
  BY InstrOfSame
<1>3. Behind => commit_en
  BY <1>1, HeadCommits DEF Behind, Tracked
<1>4. ASSUME commit_en, ~Behind
      PROVE  \/ left = 1 /\ wb.valid /\ HeadOf(wb)
             \/ left = 0 /\ mem.valid /\ HeadOf(mem)
  <2>1. CASE left = 1
    <3>1. wb.valid /\ wb.idx = head_ptr
      BY <2>1, <1>1, <1>4 DEF Behind, Buffered
    <3>2. /\ commit_entry.instr = InstrOf(wb, wb.right)
          /\ dest(wb) # X0 => commit_entry.result = wb.val
      BY <3>1, <2>1, <1>4 DEF Buffered, commit_entry, commit_en
    <3> QED BY <3>1, <3>2, <2>1, <1>2 DEF HeadOf
  <2>2. CASE left = 0
    <3>1. mem.valid /\ mem.done /\ mem.idx = head_ptr
      BY <2>2, <1>1, <1>4, HeadCommits DEF Tracked
    <3>2. /\ commit_entry.instr = InstrOf(mem, mem.right)
          /\ dest(mem) # X0 => commit_entry.result = mem.val
      BY <3>1 DEF Buffered, commit_entry
    <3> QED BY <3>1, <3>2, <2>2, <1>2 DEF HeadOf
  <2> QED BY <2>1, <2>2, <1>1, <1>4 DEF Behind
<1> QED BY <1>3, <1>4

\* When a flush is made, the instruction it is made for is the last of the program,
\* and what it and the ones before it have written is, with the write of this edge, in
\* the register file: the link register of a jump among it.
LEMMA FlushValues ==
    ASSUME NEW b \in BOOLEAN, TypeOK, RobWindow, ooo_en, PlainStages(b), Tracked, Buffered,
           OooPath, OooValues, NEW v, NEW driver, Ghosts(v, driver), final_flush
    PROVE  gold' = gold /\ \A r \in Reg : gold[r] = written[r]
<1>1. PICK m \in 0 .. count : OwedBy(m)
  BY DEF OooPath
<1>2. commit_en /\ commit_entry.completed /\ count > 0
  BY OooWires DEF commit_en
<1>3. m = 1 /\ commit_entry.instr.right
  BY <1>1, <1>2, HeadPath
<1>4. /\ RobTypeOK /\ count \in Nat /\ left \in 0 .. 2 /\ ~ex.exc
      /\ ex.valid \in BOOLEAN /\ mem.valid \in BOOLEAN
      /\ left = count - One(ex.valid) - One(mem.valid)
  BY PipelineAssumption DEF TypeOK, RobTypeOK, Stage, Tracked, PlainStages, left
<1>5. /\ ex.valid => (ex.right <=> count - 1 < m)
      /\ mem.valid => (mem.right <=> left < m)
      /\ wb.valid /\ left > 0 => (wb.right <=> left - 1 < m)
  BY <1>1, StagesRight
<1>6. gold' = gold
  <2>1. ex.valid => ~ex.right
    <3>1. ex.valid /\ count = 1 => ex.idx = head_ptr /\ ~rob_data[ex.idx].completed
      BY <1>4, Slots DEF Tracked
    <3> QED BY <3>1, <1>2, <1>3, <1>4, <1>5 DEF commit_entry
  <2>2. ~ex.valid => dest(ex.i) = X0
    BY DEF Buffered, dest, X0, reg_write, fp_we, amo_en, csr_access, csr_write
  <2> QED BY <2>1, <2>2 DEF Ghosts
<1>7. ASSUME NEW r \in Reg PROVE gold[r] = written[r]
  <2>1. written[r] = IF r # X0 /\ dest(commit_entry.instr) = r
                       THEN commit_entry.result ELSE regs[r]
    BY <1>2, OooWires
  <2>2. CASE r = X0
    BY <2>1, <2>2 DEF OooValues
  <2>3. CASE r # X0
    <3>1. gold[r] = IF mem.right /\ dest(mem) = r THEN mem.val
                    ELSE IF wb.right /\ dest(wb) = r THEN wb.val
                    ELSE IF Behind /\ dest(commit_entry.instr) = r THEN commit_entry.result
                    ELSE regs[r]
      BY <2>3 DEF OooValues
    <3>2. dest(mem) = r => mem.valid
      BY <2>3 DEF Buffered, dest, X0, reg_write, fp_we, amo_en, csr_access, csr_write
    <3>3. dest(wb) = r => wb.valid
      BY <2>3 DEF Buffered
    <3>4. Behind => ~(mem.valid /\ mem.right) /\ (wb.valid => ~wb.right)
      BY <1>3, <1>4, <1>5 DEF Behind
    <3>5. CASE Behind
      BY <3>1, <3>2, <3>3, <3>4, <3>5, <2>1, <2>3
    <3>6. CASE left = 1 /\ wb.valid /\ HeadOf(wb)
      <4>1. ~(mem.valid /\ mem.right)
        BY <3>6, <1>3, <1>4, <1>5
      <4> QED BY <4>1, <3>1, <3>2, <3>6, <2>1, <2>3, <1>3 DEF HeadOf, Behind
    <3>7. CASE left = 0 /\ mem.valid /\ HeadOf(mem)
      <4>1. dest(wb) = r => regs[r] = wb.val
        BY <3>3, <3>7, <2>3 DEF OooValues
      <4> QED BY <4>1, <3>1, <3>7, <2>1, <2>3, <1>3 DEF HeadOf, Behind
    <3> QED BY <3>5, <3>6, <3>7, <1>2, HeadHolds
  <2> QED BY <2>2, <2>3
<1> QED BY <1>6, <1>7

\* One edge in OoO mode keeps every register's value where the operand multiplexers
\* look.
LEMMA OooValuesStep ==
    ASSUME NEW b \in BOOLEAN, TypeOK, RobWindow, ooo_en, PlainStages(b), Tracked, Buffered,
           OooPath, OooValues, NEW v, NEW driver, MemWb(v), OooUnits(v), regs' = written,
           Ghosts(v, driver), TypeOK', OooPath',
           Trap \/ Return \/ Redirect \/ HazardStall \/ DispatchStall \/ Advance
    PROVE  OooValues'
<1>1. /\ gold \in [Reg -> Val \cup {Junk}] /\ X0 \in Reg /\ ex.exc = FALSE
      /\ mem.valid \in BOOLEAN /\ left \in 0 .. 2 /\ commit_en \in BOOLEAN
  BY PipelineAssumption DEF TypeOK, X0, Reg, PlainStages, Stage, Tracked, RobTypeOK, commit_en,
                            commit_entry, Entry
<1>2. CASE final_flush
  <2>1. gold' = gold /\ \A r \in Reg : gold[r] = written[r]
    BY <1>2, FlushValues
  <2>2. /\ ex' = NoEx /\ mem' = NoBack /\ wb' = NoBack /\ left' = 0
        /\ ~NoBack.valid /\ dest(NoBack) = X0 /\ source(NoEx.i.op) = "none"
        /\ NoBack.op = "bubble"
    BY <1>2, OooEmpties, Bubbles
  <2>3. ~Behind'
    BY <2>2 DEF Behind
  <2>4. ex_source' \notin Reg
    BY <2>2 DEF ex_source, Reg
  <2>5. \A r \in Reg : gold'[r] = regs'[r]
    BY <2>1
  <2> QED BY <2>2, <2>3, <2>4, <2>5, <1>1 DEF OooValues
<1>3. CASE ~final_flush
  <2>1. /\ RobUpdate(rob_dispatch, cdb(v))
        /\ left' = left + One(mem.valid) - One(commit_en)
        /\ dispatch_en => ex'.i = id.i /\ ex'.data = read_id
        /\ ~dispatch_en => ex'.i.op = "bubble"
        /\ mem'.op = ex.i.op /\ mem'.rd = ex.i.rd /\ mem'.val = v /\ mem'.right = ex.right
        /\ wb'.op = mem.op /\ wb'.rd = mem.rd /\ wb'.val = mem.val /\ wb'.right = mem.right
        /\ wb'.valid = mem.valid
    BY <1>3, OooMoves
  <2>2. dest(mem') = dest(ex.i) /\ dest(wb') = dest(mem)
    BY <2>1 DEF dest
  <2>3. gold' = IF ex.right /\ dest(ex.i) # X0 THEN [gold EXCEPT ![dest(ex.i)] = v] ELSE gold
    BY <1>1 DEF Ghosts
  <2>4. \A r \in Reg : gold'[r] = IF ex.right /\ r # X0 /\ dest(ex.i) = r THEN v ELSE gold[r]
    BY <1>1, <2>3
  <2>5. ASSUME NEW r \in Reg \ {X0}
        PROVE  gold'[r] = IF mem'.right /\ dest(mem') = r THEN mem'.val
                          ELSE IF wb'.right /\ dest(wb') = r THEN wb'.val
                          ELSE IF Behind' /\ dest(commit_entry'.instr) = r
                                 THEN commit_entry'.result
                          ELSE regs'[r]
    <3>1. CASE ex.right /\ dest(ex.i) = r
      BY <3>1, <2>1, <2>2, <2>4, <2>5
    <3>2. CASE ~(ex.right /\ dest(ex.i) = r) /\ mem.right /\ dest(mem) = r
      <4>1. gold[r] = mem.val
        BY <3>2, <2>5 DEF OooValues
      <4> QED BY <4>1, <3>2, <2>1, <2>2, <2>4, <2>5
    <3>3. CASE ~(ex.right /\ dest(ex.i) = r) /\ ~(mem.right /\ dest(mem) = r)
      <4>1. gold[r] = IF Behind' /\ dest(commit_entry'.instr) = r THEN commit_entry'.result
                      ELSE written[r]
        BY <1>3, <2>5, <3>3, BehindStep
      <4> QED BY <4>1, <3>3, <2>1, <2>2, <2>4, <2>5
    <3> QED BY <3>1, <3>2, <3>3
  <2>6. gold'[X0] = regs'[X0]
    BY <1>1, <2>4, OooWires DEF OooValues
  <2>7. wb'.valid /\ left' = 0 /\ dest(wb') # X0 => regs'[dest(wb')] = wb'.val
    <3> SUFFICES ASSUME mem.valid, left' = 0, dest(mem) # X0
                 PROVE  written[dest(mem)] = mem.val
      BY <2>1, <2>2
    <3>1. left = 0 /\ commit_en
      BY <1>1, <2>1 DEF One
    <3>2. mem.done /\ mem.idx = Slot(0)
      BY <1>3, <3>1, Commits DEF Tracked
    <3>3. commit_entry = rob_data[mem.idx]
      BY <3>2, Slots DEF TypeOK, commit_entry
    <3>4. commit_entry.instr = InstrOf(mem, mem.right) /\ commit_entry.result = mem.val
      BY <3>2, <3>3 DEF Buffered
    <3>5. dest(InstrOf(mem, mem.right)) = dest(mem)
      BY InstrOfSame
    <3>6. dest(mem) \in Reg
      BY ResultBuses DEF TypeOK
    <3> QED BY <3>1, <3>4, <3>5, <3>6, OooWires
  <2>8. ex_source' \in Reg \ {X0} => ex'.data = regs'[ex_source']
    <3>1. CASE dispatch_en
      <4>1. ex'.i = id.i /\ ex'.data = read_id
        BY <2>1, <3>1
      <4> QED BY <4>1 DEF ex_source, read_id
    <3>2. CASE ~dispatch_en
      <4>1. source(ex'.i.op) = "none"
        BY <2>1, <3>2 DEF source, amo_en
      <4> QED BY <4>1 DEF ex_source, Reg
    <3> QED BY <3>1, <3>2
  <2>9. mem'.op = "fload" /\ ex'.i.op # "bubble" => mem'.rd # ex'.i.rs
    <3> SUFFICES ASSUME ex.i.op = "fload", dispatch_en PROVE ex.i.rd # id.i.rs
      BY <2>1
    <3>1. ~flush_front /\ ~data_hazard
      BY DEF dispatch_en, valid_inst_id_no_stall
    <3> QED BY <3>1 DEF data_hazard, load_use_hazard, fp_mem_read
  <2> QED BY <2>5, <2>6, <2>7, <2>8, <2>9 DEF OooValues
<1> QED BY <1>2, <1>3

-----------------------------------------------------------------------------
\* moooctrl is set: the write is alone in the back end, so OoO mode starts with
\* nothing in flight and every value in the register file.
LEMMA SwitchOn ==
    ASSUME TypeOK, PlainStages(TRUE), CsrAlone, OnPath, ValuesHeld, Unused, ~ooo_en, ooo_en',
           NEW v, MemWb(v), CsrFile, OnPath', ValuesHeld', Unused',
           Trap \/ Return \/ Redirect \/ HazardStall \/ DispatchStall \/ Advance
    PROVE  (Buffered /\ Alone /\ OooPath /\ OooValues)'
<1>1. mem.op = "mode" /\ mem.rd = 0 /\ csr_write(mem.op) /\ ~mem.exc
  <2>1. mem.op = "mode"
    BY DEF CsrFile
  <2>2. PlainWord(mem, TRUE) /\ ~mem.exc
    BY DEF PlainStages
  <2>3. mem.rd = 0
    BY <2>1, <2>2 DEF PlainWord
  <2> QED BY <2>1, <2>2, <2>3 DEF csr_write
<1>2. ex = NoEx /\ ex' = NoEx
  BY <1>1, CsrAloneStep DEF CsrAlone
<1>3. Decoded /\ ~MemTransfers
  BY <1>1 DEF Decoded, PlainStages, MemTransfers
<1>4. mem'.op = "bubble" /\ ~mem'.exc /\ wb'.op = "mode" /\ wb'.rd = 0
  BY <1>1, <1>2, <1>3, BackEnd, Bubbles
<1>5. ~serializing("bubble")
  BY DEF serializing, amo_en, csr_access, csr_write
<1>6. dest(mem') = X0 /\ dest(wb') = X0
  BY <1>4 DEF dest, X0, reg_write, fp_we, amo_en, csr_access, csr_write
<1>7. count' = 0 /\ ~ex'.valid /\ ~mem'.valid /\ ~wb'.valid
  BY DEF Unused
<1>8. left' = 0
  <2>1. left' = count' - One(ex'.valid) - One(mem'.valid)
    BY DEF left, One
  <2>2. One(ex'.valid) = 0 /\ One(mem'.valid) = 0
    BY <1>7 DEF One
  <2> QED BY <2>1, <2>2, <1>7
<1>9. Buffered'
  BY <1>2, <1>4, <1>6, <1>7, Bubbles DEF Buffered
<1>10. Alone'
  BY <1>2, <1>4, <1>5, Bubbles DEF Alone
<1>11. OooPath'
  <2>1. want' = "none"
    <3>1. owes(NoEx.i, NoEx.exc) = "none"
      BY Bubbles DEF owes, pc_sel
    <3>2. ~MemTransfers'
      BY <1>4 DEF MemTransfers
    <3> QED BY <3>1, <3>2, <1>2 DEF OnPath
  <2>2. OwedBy(0)'
    BY <2>1, <1>7 DEF OwedBy
  <2> QED BY <2>2, <1>7 DEF OooPath, OnPath
<1>12. OooValues'
  <2>1. ~Behind'
    BY <1>8 DEF Behind
  <2> QED BY <2>1, <1>4, <1>6, <1>7 DEF OooValues, ValuesHeld
<1> QED BY <1>9, <1>10, <1>11, <1>12

\* moooctrl is cleared: the write was dispatched alone, so what is left in the
\* buffer is its own entry, and its result is also in WB.
LEMMA SwitchOff ==
    ASSUME TypeOK, RobWindow, PlainStages(FALSE), CsrAlone, ooo_en, ~ooo_en', Tracked, Buffered,
           Alone, OooPath, NEW v, NEW driver, MemWb(v), CsrFile, OooUnits(v), Ghosts(v, driver),
           OooPath', OooValues',
           Trap \/ Return \/ Redirect \/ HazardStall \/ DispatchStall \/ Advance
    PROVE  (OnPath /\ ValuesHeld)'
<1>1. mem.op = "mode" /\ csr_write(mem.op) /\ mem.exc = FALSE
  BY DEF CsrFile, PlainStages, csr_write, TypeOK, Stage
<1>2. ex = NoEx /\ ex' = NoEx
  BY <1>1, CsrAloneStep DEF CsrAlone
<1>3. mem.valid /\ left = 0 /\ mem.right
  BY <1>1 DEF Buffered, Alone, serializing, csr_access
<1>4. count = 1 /\ mem.idx = head_ptr /\ commit_entry.instr = InstrOf(mem, mem.right)
  <2>1. count = 1
    <3>1. left = count - One(ex.valid) - One(mem.valid) /\ count \in Nat
      BY PipelineAssumption DEF left, TypeOK, RobTypeOK
    <3>2. ex.valid = FALSE
      BY <1>2 DEF NoEx, InEx
    <3> QED BY <3>1, <3>2, <1>3 DEF One
  <2>2. mem.idx = head_ptr
    BY <1>3, Slots DEF TypeOK, Tracked
  <2> QED BY <2>1, <2>2, <1>3 DEF Buffered, commit_entry
<1>5. /\ owes(InstrOf(mem, mem.right), FALSE) = "none" /\ ~pc_sel(InstrOf(mem, mem.right))
      /\ InstrOf(mem, mem.right).op = "mode"
  <2>1. InstrOf(mem, mem.right).op = "mode"
    BY <1>1 DEF InstrOf
  <2> QED BY <2>1 DEF owes, pc_sel
<1>6. ~final_flush
  <2>1. commit_en => ~commit_entry.branch_mispredicted
    <3>1. Slot(0) = head_ptr /\ 0 \in 0 .. count - 1
      BY <1>4, Slots DEF TypeOK
    <3> QED BY <3>1, <1>4, <1>5 DEF Buffered, commit_entry, commit_en
  <2>2. commit_entry.instr.op # "mret"
    BY <1>4, <1>5
  <2> QED BY <2>1, <2>2, OooWires
<1>7. /\ left' = left + One(mem.valid) - One(commit_en)
      /\ mem'.op = "bubble" /\ wb'.op = "mode" /\ wb'.right = mem.right /\ wb'.valid = mem.valid
  BY <1>1, <1>2, <1>6, OooMoves, Bubbles
<1>8. mem'.exc = FALSE /\ wb'.exc = FALSE
  BY <1>1, <1>2, <1>6 DEF MemWb, NoEx, InEx, InBack, TypeOK, Stage
<1>9. want' = "none"
  <2>1. want = "none"
    <3>1. PICK m \in 0 .. count : OwedBy(m)
      BY DEF OooPath
    <3>2. Slot(0) = head_ptr
      BY Slots DEF TypeOK
    <3>3. m = 0 \/ m = 1
      BY <1>4
    <3>4. m = 1 => m - 1 = 0
      OBVIOUS
    <3>5. want = IF m = 0 THEN "none" ELSE owes(rob_data[Slot(m - 1)].instr, FALSE)
      BY <3>1 DEF OwedBy
    <3> QED BY <3>2, <3>3, <3>4, <3>5, <1>4, <1>5 DEF commit_entry
  <2>2. stall /\ ~flush_front /\ pc_next = "sequential"
    <3>1. ~flush_front /\ pc_next = "sequential"
      BY <1>6, OooWires
    <3> QED BY <3>1, <1>1 DEF stall, data_hazard, csr_hazard
  <2> QED BY <2>1, <2>2 DEF Ghosts
<1>10. OnPath'
  <2>1. owes(NoEx.i, NoEx.exc) = "none"
    BY Bubbles DEF owes, pc_sel
  <2>2. ~MemTransfers'
    BY <1>7, <1>8 DEF MemTransfers
  <2> QED BY <2>1, <2>2, <1>2, <1>3, <1>7, <1>8, <1>9, Bubbles DEF OnPath, OooPath
<1>11. ValuesHeld'
  <2>1. ~Behind'
    BY <1>3, <1>7 DEF Behind, One
  <2>2. dest(mem') = X0
    BY <1>7 DEF dest, X0, reg_write, fp_we, amo_en, csr_access, csr_write
  <2> QED BY <2>1, <2>2, <1>3, <1>7 DEF OooValues, ValuesHeld
<1> QED BY <1>10, <1>11

-----------------------------------------------------------------------------
\* Every edge preserves the invariant, in either mode and between them.
LEMMA ComputesStep ==
    ASSUME NEW b \in BOOLEAN, PlainProgram(b), TypeOK, RobWindow, Occupied(b), Computes(b), Next
    PROVE  Computes(b)'
<1>1. PICK v \in results :
          /\ MemWb(v) /\ regs' = written /\ CsrFile /\ OooUnits(v) /\ Ghosts(v, "commit")
          /\ Trap \/ Return \/ Redirect \/ HazardStall \/ DispatchStall \/ Advance
  BY DEF Next, PlainProgram
<1>2. PlainStages(b) /\ CsrAlone /\ ooo_en \in BOOLEAN
  BY DEF Computes, TypeOK
<1>3. PlainStages(b)' /\ CsrAlone'
  BY <1>1, <1>2, PlainStep, CsrAloneStep
<1>4. ooo_en' = ooo_en \/ ooo_en' = b
  <2>1. SwitchesTo(b)
    BY DEF PlainProgram, PlainWord, SwitchesTo
  <2> QED BY <2>1, <1>1, SwitchStep DEF Occupied
<1>5. CASE ooo_en
  <2>1. Tracked /\ Buffered /\ Alone /\ OooPath /\ OooValues
    BY <1>5 DEF Occupied, Computes
  <2>2. Buffered' /\ Alone'
    BY <1>1, <1>2, <1>5, <2>1, BufferedStep, AloneStep
  <2>3. OooPath'
    BY <1>1, <1>2, <1>5, <2>1, OooPathStep
  <2>4. OooValues'
    BY <1>1, <1>2, <1>5, <2>1, <2>3, TypeStep, OooValuesStep
  <2>5. CASE ooo_en'
    BY <1>3, <2>2, <2>3, <2>4, <2>5 DEF Computes
  <2>6. CASE ~ooo_en'
    <3>1. b = FALSE
      BY <1>4, <1>5, <2>6
    <3>2. (OnPath /\ ValuesHeld)'
      BY <1>1, <1>2, <1>5, <2>1, <2>3, <2>4, <2>6, <3>1, SwitchOff
    <3> QED BY <1>3, <2>6, <3>2 DEF Computes
  <2> QED BY <2>5, <2>6
<1>6. CASE ~ooo_en
  <2>1. Decoded /\ OnPath /\ ValuesHeld
    BY <1>2, <1>6 DEF Computes, Decoded, PlainStages
  <2>2. OnPath'
    BY <1>1, <2>1, OnPathStep
  <2>3. ValuesHeld'
    BY <1>1, <2>1, ValuesHeldStep
  <2>4. CASE ~ooo_en'
    BY <1>3, <2>2, <2>3, <2>4 DEF Computes
  <2>5. CASE ooo_en'
    <3>1. b = TRUE
      BY <1>4, <1>6, <2>5
    <3>2. Unused /\ Unused'
      BY <1>1, <1>6, <3>1, InOrderIdle DEF Occupied
    <3>3. (Buffered /\ Alone /\ OooPath /\ OooValues)'
      BY <1>1, <1>2, <1>6, <2>1, <2>2, <2>3, <2>5, <3>1, <3>2, SwitchOn
    <3> QED BY <1>3, <2>5, <3>3 DEF Computes
  <2> QED BY <2>4, <2>5
<1> QED BY <1>2, <1>5, <1>6

\* The empty core satisfies it.
LEMMA ComputesInit == ASSUME NEW b \in BOOLEAN, PlainProgram(b), Init PROVE Computes(b)
<1>1. /\ id = NoId /\ ex = NoEx /\ mem = NoBack /\ wb = NoBack /\ count = 0
      /\ fs = TRUE /\ pc_ok = TRUE /\ want = "none" /\ gold = regs
      /\ \A i \in Idx : rob_data[i].exception = FALSE
  BY DEF Init, PlainProgram
<1>2. /\ dest(NoBack) = X0 /\ source(NoEx.i.op) = "none" /\ owes(NoEx.i, NoEx.exc) = "none"
      /\ ~NoEx.valid /\ ~NoBack.valid /\ ~csr_write("bubble") /\ ~serializing("bubble")
  <2>1. NoEx.i.op = "bubble" /\ NoBack.op = "bubble" /\ ~NoEx.exc
    BY Bubbles
  <2>2. ~NoEx.valid /\ ~NoBack.valid
    BY DEF NoEx, NoBack, InEx, InBack
  <2> QED BY <2>1, <2>2 DEF dest, X0, source, owes, pc_sel, serializing, reg_write, fp_we, amo_en,
                            csr_access, csr_write
<1>3. PlainStages(b)
  <2>1. NoId.i = Bubble /\ NoEx.i = Bubble
    BY DEF NoId, NoEx, Fetched, InEx
  <2>2. PlainWord(Bubble, b) /\ PlainWord(NoBack, b)
    BY DEF PlainWord, double, Bubble, NoBack, InBack
  <2> QED BY <2>1, <2>2, <1>1, Bubbles DEF PlainStages
<1>4. CsrAlone
  BY <1>1 DEF CsrAlone
<1>5. ex_source \notin Reg
  BY <1>1, <1>2 DEF ex_source, Reg
<1>6. OnPath /\ ValuesHeld
  BY <1>1, <1>2, <1>5, Bubbles DEF OnPath, MemTransfers, ValuesHeld
<1>7. left = 0 /\ ~Behind
  <2>1. One(ex.valid) = 0 /\ One(mem.valid) = 0
    BY <1>1, <1>2 DEF One
  <2> QED BY <2>1, <1>1 DEF left, Behind
<1>8. Buffered /\ Alone /\ OooValues
  BY <1>1, <1>2, <1>5, <1>7, Bubbles DEF Buffered, Alone, OooValues
<1>9. OooPath
  <2>1. OwedBy(0)
    BY <1>1 DEF OwedBy
  <2> QED BY <2>1, <1>1, Bubbles DEF OooPath
<1> QED BY <1>3, <1>4, <1>6, <1>8, <1>9 DEF Computes

\* The invariant holds of every reachable state.
LEMMA ComputesAlways ==
    ASSUME NEW b \in BOOLEAN, PlainProgram(b)
    PROVE  Spec => [](TypeOK /\ RobWindow /\ Occupied(b) /\ Computes(b))
<1> DEFINE I == TypeOK /\ RobWindow /\ Occupied(b) /\ Computes(b)
<1>1. Init => I
  BY TypeInit, OccupiedInit, ComputesInit
<1>2. I /\ [Next]_vars => I'
  <2>1. SwitchesTo(b)
    BY DEF PlainProgram, PlainWord, SwitchesTo
  <2>2. I /\ Next => I'
    BY <2>1, TypeStep, OccupiedStep, ComputesStep
  <2>3. ASSUME Computes(b), UNCHANGED vars PROVE Computes(b)'
    <3>1. /\ id' = id /\ ex' = ex /\ mem' = mem /\ wb' = wb /\ regs' = regs
          /\ ooo_en' = ooo_en /\ fs' = fs /\ pc_ok' = pc_ok /\ want' = want /\ gold' = gold
          /\ rob_data' = rob_data /\ head_ptr' = head_ptr /\ count' = count
      BY <2>3 DEF vars, stages, csrs, ghosts
    <3>2. (PlainStages(b) <=> PlainStages(b)') /\ (CsrAlone <=> CsrAlone')
      BY <3>1 DEF PlainStages, CsrAlone
    <3>3. left' = left /\ commit_entry' = commit_entry /\ ex_source' = ex_source
      BY <3>1 DEF left, commit_entry, ex_source
    <3>4. \A k : Slot(k)' = Slot(k)
      BY <3>1 DEF Slot
    <3>5. (Buffered <=> Buffered') /\ (Alone <=> Alone')
      BY <3>1, <3>3, <3>4 DEF Buffered, Alone
    <3>6. OooPath <=> OooPath'
      <4>1. \A m : OwedBy(m)' <=> OwedBy(m)
        BY <3>1, <3>4 DEF OwedBy
      <4> QED BY <4>1, <3>1 DEF OooPath
    <3>7. OooValues <=> OooValues'
      BY <3>1, <3>3 DEF OooValues, Behind
    <3>8. (OnPath <=> OnPath') /\ (ValuesHeld <=> ValuesHeld')
      BY <3>1, <3>3 DEF OnPath, MemTransfers, ValuesHeld
    <3> QED BY <2>3, <3>1, <3>2, <3>5, <3>6, <3>7, <3>8 DEF Computes
  <2>4. Occupied(b) /\ UNCHANGED vars => Occupied(b)'
    BY DEF vars, stages, csrs, Occupied, SwitchWords, QueueShape, Tracked, Issues, Unused,
           OccupancyBounded, left, Slot
  <2> QED BY <2>2, <2>3, <2>4, TypeStutter
<1> QED BY <1>1, <1>2, PTL DEF Spec

-----------------------------------------------------------------------------
\* What a state of OoO mode says of operands and registers.
LEMMA OooRight ==
    ASSUME NEW b \in BOOLEAN, TypeOK, RobWindow, ooo_en, PlainStages(b), Tracked, Buffered,
           OooPath, OooValues
    PROVE  DataRight
<1>1. OperandsRight
  <2> DEFINE r == ex_source
  <2> SUFFICES ASSUME ex.right, r \in Reg \ {X0} PROVE operand = gold[r]
    BY DEF OperandsRight, ex_source
  <2>1. mem \in Stage /\ wb \in Stage /\ ~double(wb) /\ ex.i.op # "bubble"
    BY DEF TypeOK, PlainStages, PlainWord, ex_source, Reg, source, amo_en
  <2>2. gold[r] = IF dest(mem) = r THEN mem.val
                  ELSE IF dest(wb) = r THEN wb.val
                  ELSE IF Behind /\ dest(commit_entry.instr) = r THEN commit_entry.result
                  ELSE regs[r]
    <3>1. PICK m \in 0 .. count : OwedBy(m)
      BY DEF OooPath
    <3>2. /\ count \in Nat /\ left \in 0 .. 2 /\ ex.valid
          /\ left = count - One(ex.valid) - One(mem.valid) /\ mem.valid \in BOOLEAN
          /\ left > 0 \/ left = 0
      BY <2>1, PipelineAssumption DEF TypeOK, RobTypeOK, Stage, Tracked, Buffered, left
    <3>3. mem.valid => mem.right
      BY <3>1, <3>2, StagesRight DEF One
    <3>4. wb.valid /\ left > 0 => wb.right
      BY <3>1, <3>2, StagesRight DEF One
    <3>5. (dest(mem) = r => mem.valid) /\ (dest(wb) = r => wb.valid)
      BY DEF Buffered, dest, X0, reg_write, fp_we, amo_en, csr_access, csr_write
    <3>6. dest(wb) = r /\ left = 0 => regs[r] = wb.val /\ ~Behind
      BY <3>5 DEF OooValues, Behind
    <3>7. gold[r] = IF mem.right /\ dest(mem) = r THEN mem.val
                    ELSE IF wb.right /\ dest(wb) = r THEN wb.val
                    ELSE IF Behind /\ dest(commit_entry.instr) = r THEN commit_entry.result
                    ELSE regs[r]
      BY DEF OooValues
    <3> HIDE DEF r
    <3>8. CASE left > 0
      BY <3>3, <3>4, <3>5, <3>7, <3>8
    <3>9. CASE left = 0
      BY <3>3, <3>5, <3>6, <3>7, <3>9
    <3> QED BY <3>2, <3>8, <3>9, Zenon
  <2>3. ex.data = regs[r]
    BY DEF OooValues
  <2>4. operand = CASE dest(mem) = r ->
                         IF r[1] = "f" THEN bus(mem.op, mem.val, "fpu") ELSE int_data(mem)
                    [] dest(mem) # r /\ dest(wb) = r ->
                         IF r[1] = "f" THEN fp_data(wb, cdb_double) ELSE int_data(wb)
                    [] OTHER -> IF commit_writes /\ dest(commit_entry.instr) = r
                                  THEN commit_entry.result ELSE ex.data
    <3>1. ~ooo_en \/ cdb_double <=> cdb_double
      OBVIOUS
    <3>2. fp_data(wb, ~ooo_en \/ cdb_double) = fp_data(wb, cdb_double)
      BY <3>1 DEF fp_data
    <3> QED BY <3>2 DEF operand, ex_source
  <2>5. r[1] \in {"x", "f"} /\ r[2] = ex.i.rs
    BY DEF ex_source, Reg
  <2>6. fp_data(wb, cdb_double) = fp_data(wb, TRUE)
    BY <2>1 DEF fp_data
  <2> HIDE DEF r
  <2>7. CASE dest(mem) = r
    <3>1. r[1] = "f" => mem.op # "fload"
      <4> SUFFICES ASSUME r[1] = "f", mem.op = "fload" PROVE FALSE
        OBVIOUS
      <4>1. dest(mem) = <<"f", mem.rd>>
        BY DEF dest, reg_write, fp_we, amo_en, csr_access, csr_write
      <4> QED BY <4>1, <2>1, <2>5, <2>7 DEF OooValues
    <3> QED BY <3>1, <2>1, <2>2, <2>4, <2>5, <2>7, ResultBuses
  <2>8. CASE dest(mem) # r /\ dest(wb) = r
    BY <2>1, <2>2, <2>4, <2>5, <2>6, <2>8, ResultBuses
  <2>9. CASE dest(mem) # r /\ dest(wb) # r
    <3>1. commit_writes /\ dest(commit_entry.instr) = r
            <=> Behind /\ dest(commit_entry.instr) = r
      BY <2>9, HeadHolds DEF commit_writes, HeadOf
    <3> QED BY <3>1, <2>2, <2>3, <2>4, <2>9
  <2> QED BY <2>7, <2>8, <2>9 DEF r
<1>2. RegsRight
  <2> SUFFICES ASSUME ex = NoEx, mem = NoBack, wb = NoBack, count = 0 PROVE regs = gold
    BY DEF RegsRight
  <2>1. dest(NoBack) = X0 /\ NoEx.valid = FALSE /\ NoBack.valid = FALSE
    BY DEF NoEx, NoBack, InEx, InBack, Bubble, dest, X0, reg_write, fp_we, amo_en, csr_access,
           csr_write
  <2>2. ~Behind
    BY <2>1 DEF Behind, left, One
  <2>3. \A r \in Reg : gold[r] = regs[r]
    BY <2>1, <2>2 DEF OooValues
  <2> QED BY <2>3 DEF TypeOK
<1> QED BY <1>1, <1>2 DEF DataRight

\* What a state of OoO mode says of transfers, effects and flushes.
LEMMA OooPathKept ==
    ASSUME NEW b \in BOOLEAN, TypeOK, RobWindow, ooo_en, PlainStages(b), Buffered, Alone, OooPath
    PROVE  PathRight
<1>1. PICK m \in 0 .. count : OwedBy(m)
  BY DEF OooPath
<1>2. commit_en => /\ commit_entry.instr.right
                   /\ final_flush => m = 1 /\ want = pc_next
  BY <1>1, HeadPath
<1>3. final_flush => commit_en /\ pc_next \in {"mepc", "target"}
  BY OooWires
<1>4. EffectsOnPath
  <2>1. write_reg # X0 => commit_en
    BY DEF write_reg, commit_writes
  <2>2. mem_write(mem.op) \/ csr_write(mem.op) => mem.right
    BY DEF Alone, mem_write, csr_write, serializing, amo_en, csr_access
  <2> QED BY <2>1, <2>2, <1>2 DEF EffectsOnPath, PlainStages
<1>5. flush_front => ~id_right
  BY <1>2, <1>3, OooFlush DEF id_right
<1>6. ASSUME final_flush, NEW i \in Idx \ {head_ptr}, rob_data[i].valid
      PROVE  ~rob_data[i].instr.right
  <2>1. /\ ROB_DEPTH \in Nat \ {0} /\ head_ptr \in Idx /\ count \in 0 .. ROB_DEPTH
        /\ Age(i) < count
    BY <1>6, PipelineAssumption DEF TypeOK, RobTypeOK, RobWindow
  <2>2. Age(i) \in Nat /\ Age(i) # 0 /\ Slot(Age(i)) = i
    BY <2>1 DEF Age, Slot, Idx
  <2>3. Age(i) \in 0 .. count - 1
    BY <2>1, <2>2
  <2>4. rob_data[Slot(Age(i))].instr.right <=> Age(i) < m
    BY <2>3, <1>1, Zenon DEF OwedBy
  <2>5. m = 1
    BY <1>2, <1>3, <1>6
  <2>6. ~(Age(i) < m)
    BY <2>2, <2>5
  <2> QED BY <2>2, <2>4, <2>6
<1>7. FlushSparesProgram
  BY <1>5, <1>6 DEF FlushSparesProgram
<1> QED BY <1>4, <1>7 DEF PathRight, PathFollowed, OooPath

\* The operand an instruction executes with and the register files after the drain
\* are the program's in OoO mode too, and across a change of mode: late completion,
\* the race of three stages for the CDB, commit from the head of the reorder buffer
\* and forwarding from the commit port lose, delay or mix up no value
\* (riscv_top.v:345-363,438-440,507-509,643-757, rob.sv).
THEOREM CoreDataRight == ASSUME Plain PROVE Spec => []DataRight
<1>1. PICK b \in BOOLEAN : PlainProgram(b)
  BY DEF Plain
<1>2. TypeOK /\ RobWindow /\ Occupied(b) /\ Computes(b) => DataRight
  <2>1. TypeOK /\ RobWindow /\ Occupied(b) /\ Computes(b) /\ ooo_en => DataRight
    BY <1>1, OooRight DEF Occupied, Computes
  <2>2. TypeOK /\ Computes(b) /\ ~ooo_en => DataRight
    BY <1>1, HeldRight DEF Computes, Decoded, PlainStages
  <2> QED BY <2>1, <2>2
<1> QED BY <1>1, <1>2, ComputesAlways, PTL

\* In OoO mode a transfer is made when its instruction commits and not, as in
\* in-order mode, when it executes: until then the wrong path is dispatched,
\* executed and completed, and still it writes no register, memory or CSR, and the
\* flush takes nothing of the program (riscv_top.v:240-257,438,876,963-973, rob.sv).
THEOREM CorePathRight == ASSUME Plain PROVE Spec => []PathRight
<1>1. PICK b \in BOOLEAN : PlainProgram(b)
  BY DEF Plain
<1>2. TypeOK /\ RobWindow /\ Occupied(b) /\ Computes(b) => PathRight
  <2>1. TypeOK /\ RobWindow /\ Computes(b) /\ ooo_en => PathRight
    BY <1>1, OooPathKept DEF Computes
  <2>2. TypeOK /\ Computes(b) /\ ~ooo_en => PathRight
    BY <1>1, PathKept DEF Computes, Decoded, PlainStages
  <2> QED BY <2>1, <2>2
<1> QED BY <1>1, <1>2, ComputesAlways, PTL
=============================================================================
