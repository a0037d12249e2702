------------------------------ MODULE Backend ------------------------------
(***************************************************************************)
(* The issue queue beside the reorder buffer, on the dispatch, CDB and     *)
(* flush wires of riscv_top.v:276-314, used as iq.sv is written to be      *)
(* used: an operand waits for a slot whose result has not been broadcast,  *)
(* and an instruction is broadcast some time after it has been issued.     *)
(* riscv_top ties rs*_wait to 0; Pipeline.tla models that use.             *)
(***************************************************************************)
EXTENDS Rob, Iq

\* Slots of the queue's tags are the buffer's.
ASSUME BackendAssumption ==
    /\ Slots = Idx
    /\ Instr = {"mem", "other"}
    /\ Result = Data

VARIABLES issued,       \* slots issued and not broadcast yet
          value,        \* the result each slot will broadcast
          expect        \* the operands each queue entry should issue with

vars == <<rob_data, head_ptr, tail_ptr, count, entries, issued, value, expect>>

\* The slots an operand may have to wait for.
Incomplete == {i \in Idx : rob_data[i].valid /\ ~rob_data[i].completed}

Init ==
    /\ RobInit
    /\ issued = {}
    /\ \E v \in Data :
          /\ value = [k \in Idx |-> v]
          /\ expect = [q \in QIdx |-> [s \in Src |-> v]]
          /\ entries = [q \in QIdx |-> [valid |-> FALSE, rob_idx |-> 0, mem |-> FALSE,
                           wait |-> [s \in Src |-> FALSE], tag |-> [s \in Src |-> 0],
                           data |-> [s \in Src |-> v]]]

\* An operand source: a register value, or a slot to wait for, whose value takes
\* the place of whatever the register file returned.
Operand == {[wait |-> FALSE, tag |-> 0, data |-> v] : v \in Data} \cup
           {[wait |-> TRUE, tag |-> i, data |-> CHOOSE v \in Data : TRUE] : i \in Incomplete}

Expected(o) == IF o.wait THEN value[o.tag] ELSE o.data

Completion(i) == [en |-> TRUE, idx |-> i, result |-> value[i], data |-> value[i],
                  exception |-> FALSE, branch_mispredicted |-> FALSE,
                  branch_target |-> CHOOSE t \in Target : TRUE]

\* The slot the queue issues in this cycle, if any.
Issuing(cdb) == {entries[q].rob_idx : q \in {q \in QIdx : Lowest(ready(cdb, head_ptr), q)}}

\* An edge on which nothing is dispatched.
Step(cdb) ==
    /\ RobUpdate(Idle, cdb)
    /\ IqUpdate(Idle, cdb, head_ptr)
    /\ issued' = (issued \ (IF cdb.en THEN {cdb.idx} ELSE {})) \cup Issuing(cdb)
    /\ UNCHANGED <<value, expect>>

\* An edge that dispatches an instruction with operands ops and result v.
DispatchStep(kind, ops, v, cdb) ==
    /\ ~rob_full /\ ~iq_full
    /\ RobUpdate([en |-> TRUE, instr |-> kind, exception |-> FALSE], cdb)
    /\ IqUpdate([en |-> TRUE,
                 entry |-> [valid |-> TRUE, rob_idx |-> tail_ptr, mem |-> kind = "mem",
                            wait |-> [s \in Src |-> ops[s].wait],
                            tag  |-> [s \in Src |-> ops[s].tag],
                            data |-> [s \in Src |-> ops[s].data]]], cdb, head_ptr)
    /\ issued' = (issued \ (IF cdb.en THEN {cdb.idx} ELSE {})) \cup Issuing(cdb)
    /\ value' = [value EXCEPT ![tail_ptr] = v]
    /\ expect' = [q \in QIdx |-> IF Lowest(free, q) THEN [s \in Src |-> Expected(ops[s])]
                                                    ELSE expect[q]]

Flush == RobFlush /\ IqFlush /\ issued' = {} /\ UNCHANGED <<value, expect>>

\* The CDB may carry any issued slot.
Broadcasts == {Idle} \cup {Completion(i) : i \in issued}

Clock(cdb) ==
    \/ Step(cdb)
    \/ \E kind \in Instr, v \in Data, ops \in [Src -> Operand] : DispatchStep(kind, ops, v, cdb)

Next == Flush \/ \E cdb \in Broadcasts : Clock(cdb)

Spec == Init /\ [][Next]_vars

\* The clock runs and every issued instruction is broadcast in the end.
FairSpec == /\ Spec
            /\ WF_vars(\E cdb \in Broadcasts : Clock(cdb))
            /\ \A i \in Idx : WF_vars(i \in issued /\ Clock(Completion(i)))

-----------------------------------------------------------------------------
\* The types of the queue's and the buffer's state.
TypeOK == RobTypeOK /\ entries \in [QIdx -> IqEntry] /\ issued \subseteq Idx

\* No wakeup is lost: a queue entry waits only for a slot that is still to be
\* broadcast, also when the broadcast and the dispatch share an edge
\* (iq.sv:176-201 against 203-214).
NoLostWakeup ==
    \A q \in QIdx, s \in Src :
        entries[q].valid /\ entries[q].wait[s] => entries[q].tag[s] \in Incomplete

\* What an entry has captured, or is about to, is what its producer computed
\* (iq.sv:135-145,176-214).
OperandsDelivered ==
    \A q \in QIdx, s \in Src :
        entries[q].valid => (IF entries[q].wait[s] THEN value[entries[q].tag[s]]
                                                   ELSE entries[q].data[s]) = expect[q][s]

\* Every live, incomplete slot is in exactly one place: one queue entry, or the
\* set of issued slots; and none of these is left over after a flush
\* (iq.sv:158-217, rob.sv:109-139).
EachSlotOnce ==
    /\ \A q \in QIdx : entries[q].valid => entries[q].rob_idx \in Incomplete \ issued
    /\ \A p, q \in QIdx : entries[p].valid /\ entries[q].valid /\ p # q =>
                             entries[p].rob_idx # entries[q].rob_idx
    /\ Incomplete = issued \cup {entries[q].rob_idx : q \in {q \in QIdx : entries[q].valid}}

\* The lowest-index select starves nobody: every entry leaves the queue, because a
\* starved one ends up at the head of a full reorder buffer (iq.sv:126-151).
EntriesLeave == \A q \in QIdx : entries[q].valid ~> ~entries[q].valid
=============================================================================
