--------------------------------- MODULE Iq ---------------------------------
(***************************************************************************)
(* The issue queue, src/rtl/core/iq.sv: IQ_DEPTH entries allocated at the  *)
(* lowest free index and issued from the lowest ready one.  An entry waits *)
(* for each of its operand ports until the CDB broadcasts its tag, and, if *)
(* it is a memory operation, for its slot to be the reorder buffer's head. *)
(* issue_ack is tied to issue_en in riscv_top.v:313.                       *)
(***************************************************************************)
EXTENDS Naturals

CONSTANTS IQ_DEPTH,
          Src,          \* the operand ports: rs1, rs2, rs3
          Slots,        \* reorder-buffer indices
          Data          \* operand values

\* The queue has at least one entry.
ASSUME IqDepthAssumption == IQ_DEPTH \in Nat \ {0}

VARIABLE entries

QIdx == 0 .. IQ_DEPTH - 1

\* iq_entry_t; mem says whether op_type[6:0] is one of the memory opcodes that
\* iq.sv:110-114 compares with, so what the instruction is otherwise is left out.
IqEntry == [valid : BOOLEAN, rob_idx : Slots, mem : BOOLEAN,
            wait : [Src -> BOOLEAN], tag : [Src -> Slots], data : [Src -> Data]]

free == {i \in QIdx : ~entries[i].valid}

iq_full == free = {}

Lowest(S, i) == i \in S /\ \A j \in S : i <= j

\* The CDB wakes operand s of e in this cycle.
match(e, s, cdb) == e.wait[s] /\ cdb.en /\ e.tag[s] = cdb.idx

\* Mutant of ready: every entry waits for the head, not only memory operations.
ReadyAtHead(cdb, head) ==
    {i \in QIdx : /\ entries[i].valid
                  /\ \A s \in Src : ~entries[i].wait[s] \/ match(entries[i], s, cdb)
                  /\ entries[i].rob_idx = head}

ready(cdb, head) ==
    {i \in QIdx : /\ entries[i].valid
                  /\ \A s \in Src : ~entries[i].wait[s] \/ match(entries[i], s, cdb)
                  /\ entries[i].mem => entries[i].rob_idx = head}

\* The operands an issuing entry carries: what the CDB brings bypasses the entry.
issue_data(e, cdb) == [s \in Src |-> IF match(e, s, cdb) THEN cdb.data ELSE e.data[s]]

\* Mutants of Woken: the operand is not captured; the wait is not ended.
WokenWithoutData(e, cdb) ==
    [e EXCEPT !.wait = [s \in Src |-> e.wait[s] /\ ~match(e, s, cdb)]]

WokenStillWaiting(e, cdb) == [e EXCEPT !.data = issue_data(e, cdb)]

\* An operand catches the broadcast: in a waiting entry or in one being written.
Woken(e, cdb) == [e EXCEPT !.wait = [s \in Src |-> e.wait[s] /\ ~match(e, s, cdb)],
                           !.data = issue_data(e, cdb)]

\* Mutant of IqFlush: the queue is not flushed.
IqNotFlushed == entries' = entries

IqFlush == entries' = [i \in QIdx |-> [entries[i] EXCEPT !.valid = FALSE]]

\* Mutant of IqUpdate: the entry being written misses the broadcast.
IqUpdateNoCapture(d, cdb, head) ==
    entries' = [i \in QIdx |->
        CASE d.en /\ Lowest(free, i)      -> d.entry
          [] Lowest(ready(cdb, head), i)  -> [Woken(entries[i], cdb) EXCEPT !.valid = FALSE]
          [] OTHER -> IF entries[i].valid THEN Woken(entries[i], cdb) ELSE entries[i]]

\* An edge without flush; d is the dispatch port.
IqUpdate(d, cdb, head) ==
    entries' = [i \in QIdx |->
        CASE d.en /\ Lowest(free, i)      -> Woken(d.entry, cdb)
          [] Lowest(ready(cdb, head), i)  -> [Woken(entries[i], cdb) EXCEPT !.valid = FALSE]
          [] OTHER -> IF entries[i].valid THEN Woken(entries[i], cdb) ELSE entries[i]]
=============================================================================
