---------------------------- MODULE CommitQueue ----------------------------
(***************************************************************************)
(* What the reorder buffer promises riscv_top: a bounded queue of          *)
(* instructions in dispatch order.  Any of them may receive its outcome,   *)
(* in any order; only the oldest leaves, and it leaves at the first edge   *)
(* at which its outcome is known.  A flush forgets them all.               *)
(***************************************************************************)
EXTENDS Naturals, Sequences

CONSTANTS Capacity, Instr, Result, Target

VARIABLE queue

Pending == [kind |-> "pending"]

\* An excepting instruction: whatever it computed is void.
Exception == [kind |-> "exception"]

Done(r, m, t) == [kind |-> "done", result |-> r, mispredicted |-> m, target |-> t]

Outcome == {Exception} \cup {Done(r, m, t) : r \in Result, m \in BOOLEAN, t \in Target}

\* What one edge may append: nothing, or an instruction, already known to
\* except or not, if there is room for it.
Arrivals ==
    {<< >>} \cup IF Len(queue) = Capacity THEN {} ELSE
                 {<<[instr |-> i, outcome |-> o]>> : i \in Instr, o \in {Pending, Exception}}

\* The queue after its k-th instruction has received outcome o.
SettledAt(k, o) == [queue EXCEPT ![k].outcome = o]

\* The queue after at most one instruction has received its outcome.
Settled == {queue} \cup {SettledAt(k, o) : k \in 1 .. Len(queue), o \in Outcome}

MustCommit == queue # << >> /\ queue[1].outcome # Pending

Edge == \E a \in Arrivals, s \in Settled :
            queue' = (IF MustCommit THEN Tail(s) ELSE s) \o a

Flush == queue' = << >>

Init == queue = << >>

Next == Flush \/ Edge

Spec == Init /\ [][Next]_queue
=============================================================================
