-------------------------------- MODULE Rob --------------------------------
(***************************************************************************)
(* The reorder buffer, src/rtl/core/rob.sv: a circular buffer of           *)
(* ROB_DEPTH entries with a dispatch port at tail_ptr, a completion port   *)
(* addressed by index (the CDB) and a commit port at head_ptr.  One clock  *)
(* edge is one step; the three ports act in the same edge, reading the     *)
(* state before it, the later assignment winning.                          *)
(*                                                                         *)
(* The write-once payload of an entry (dest_reg, dest_type, pc, is_store,  *)
(* is_branch, instruction) is one value of Instr; exception_cause, always  *)
(* written together with exception, is left out.                           *)
(* commit_ack is tied to commit_en in riscv_top.v:280.                     *)
(***************************************************************************)
EXTENDS Naturals, Sequences

CONSTANTS ROB_DEPTH,    \* number of entries, 2^ROB_IDX_W
          Instr,        \* what the dispatch port records of an instruction
          Result,       \* values of the 64-bit result
          Target        \* branch targets

\* The buffer has at least one entry.
ASSUME DepthAssumption == ROB_DEPTH \in Nat \ {0}

VARIABLES rob_data, head_ptr, tail_ptr, count

robVars == <<rob_data, head_ptr, tail_ptr, count>>

Idx == 0 .. ROB_DEPTH - 1

\* rob_entry_t.
Entry == [valid : BOOLEAN, completed : BOOLEAN, instr : Instr, result : Result,
          exception : BOOLEAN, branch_mispredicted : BOOLEAN,
          branch_target : Target]

\* A port whose enable is low: its other wires are not read.
Idle == [en |-> FALSE]

\* The dispatch port.
Dispatch == {Idle} \cup [en : {TRUE}, instr : Instr, exception : BOOLEAN]

\* The completion port, driven by the CDB.
Complete == {Idle} \cup
    [en : {TRUE}, idx : Idx, result : Result, exception : BOOLEAN,
     branch_mispredicted : BOOLEAN, branch_target : Target]

\* Mutant of Inc: no wrap.
IncNoWrap(p) == p + 1

\* A pointer of ROB_IDX_W bits plus one: it wraps to 0.
Inc(p) == IF p = ROB_DEPTH - 1 THEN 0 ELSE p + 1

rob_full == count = ROB_DEPTH

rob_empty == head_ptr = tail_ptr /\ ~rob_full

\* The entry the commit outputs show, whether or not it is valid.
commit_entry == rob_data[head_ptr]

\* Mutant of commit_en: does not wait for completion.
CommitEarly == count > 0 /\ commit_entry.valid

commit_en == count > 0 /\ commit_entry.valid /\ commit_entry.completed

\* After reset: every field of every entry is 0.
RobInit ==
    /\ head_ptr = 0
    /\ tail_ptr = 0
    /\ count = 0
    /\ \E i \in Instr, r \in Result, t \in Target :
          rob_data = [k \in Idx |-> [valid |-> FALSE, completed |-> FALSE,
                        instr |-> i, result |-> r, exception |-> FALSE,
                        branch_mispredicted |-> FALSE, branch_target |-> t]]

-----------------------------------------------------------------------------
\* What each port writes into an entry.

Dispatched(e, d) == [e EXCEPT !.valid = TRUE, !.completed = d.exception,
                              !.instr = d.instr, !.exception = d.exception]

\* Mutant of Completed: the misprediction is not recorded.
CompletedUnredirected(e, c) == [e EXCEPT !.completed = TRUE, !.result = c.result,
                                         !.exception = c.exception,
                                         !.branch_target = c.branch_target]

Completed(e, c) == [e EXCEPT !.completed = TRUE, !.result = c.result,
                             !.exception = c.exception,
                             !.branch_mispredicted = c.branch_mispredicted,
                             !.branch_target = c.branch_target]

\* Mutant of Retired: valid is not cleared.
RetiredStaysValid(e) == [e EXCEPT !.completed = FALSE]

Retired(e) == [e EXCEPT !.valid = FALSE, !.completed = FALSE]

\* An edge with flush: the buffer empties; only valid and completed are cleared.
RobFlush ==
    /\ head_ptr' = 0
    /\ tail_ptr' = 0
    /\ count' = 0
    /\ rob_data' = [i \in Idx |-> Retired(rob_data[i])]

\* An edge without flush.
RobUpdate(d, c) ==
    LET dispatching == d.en /\ ~rob_full
        completing  == c.en /\ rob_data[c.idx].valid
        D(i) == IF dispatching /\ i = tail_ptr THEN Dispatched(rob_data[i], d)
                                               ELSE rob_data[i]
        C(i) == IF completing /\ i = c.idx THEN Completed(D(i), c) ELSE D(i)
    IN  /\ rob_data' = [i \in Idx |-> IF commit_en /\ i = head_ptr
                                        THEN Retired(C(i)) ELSE C(i)]
        /\ tail_ptr' = IF dispatching THEN Inc(tail_ptr) ELSE tail_ptr
        /\ head_ptr' = IF commit_en THEN Inc(head_ptr) ELSE head_ptr
        /\ count' = CASE dispatching /\ ~commit_en -> count + 1
                      [] ~dispatching /\ commit_en -> count - 1
                      [] OTHER                     -> count

\* Any use of the ports: the buffer itself assumes nothing of its environment.
RobNext ==
    \/ RobFlush
    \/ \E d \in Dispatch, c \in Complete : RobUpdate(d, c)

RobSpec == RobInit /\ [][RobNext]_robVars

-----------------------------------------------------------------------------
\* Position of slot i counted from the head, in dispatch order.
Age(i) == IF i >= head_ptr THEN i - head_ptr ELSE i + ROB_DEPTH - head_ptr

\* The slot at position k from the head.
Slot(k) == IF head_ptr + k < ROB_DEPTH THEN head_ptr + k
                                       ELSE head_ptr + k - ROB_DEPTH

\* The type of the buffer's state: the pointers never leave the array and count
\* never its range (rob.sv:118-151).
RobTypeOK ==
    /\ rob_data \in [Idx -> Entry]
    /\ head_ptr \in Idx
    /\ tail_ptr \in Idx
    /\ count \in 0 .. ROB_DEPTH

\* count, the two pointers and the valid bits are four records of one fact:
\* the valid entries are exactly the count slots from head_ptr up to tail_ptr,
\* around the wrap, so dispatch never lands on a live entry and a full buffer
\* (head_ptr = tail_ptr) is told apart from an empty one (rob.sv:83-87,118-151).
RobWindow ==
    /\ \A i \in Idx : rob_data[i].valid <=> Age(i) < count
    /\ tail_ptr = IF count = ROB_DEPTH THEN head_ptr ELSE Slot(count)

\* The outcome an entry stands for in CommitQueue.
OutcomeOf(e) ==
    CASE ~e.completed               -> [kind |-> "pending"]
      [] e.completed /\ e.exception -> [kind |-> "exception"]
      [] OTHER -> [kind |-> "done", result |-> e.result,
                   mispredicted |-> e.branch_mispredicted,
                   target |-> e.branch_target]

\* The valid entries in dispatch order: the refinement mapping to CommitQueue.
robQueue == [k \in 1 .. count |-> [instr   |-> rob_data[Slot(k - 1)].instr,
                                   outcome |-> OutcomeOf(rob_data[Slot(k - 1)])]]

\* The buffer, through robQueue, behaves as the in-order commit queue that the
\* rest of the core takes it for: no entry is lost, duplicated, reordered or
\* committed before its completion (rob.sv:101-153).
CQ == INSTANCE CommitQueue WITH Capacity <- ROB_DEPTH, queue <- robQueue

ImplementsCommitQueue == CQ!Spec
=============================================================================
