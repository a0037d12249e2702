--------------------------- MODULE Backend_proofs ---------------------------
(***************************************************************************)
(* The issue queue beside the reorder buffer: no wakeup is lost, every     *)
(* operand is the one its producer computed, and every live instruction is *)
(* in exactly one place, for every depth of both, every number of operand  *)
(* ports and every set of values.                                          *)
(***************************************************************************)
EXTENDS Backend, Rob_proofs, WellFoundedInduction

\* A nonempty set of queue indices has a lowest element, and only one.
LEMMA LowestExists ==
    ASSUME NEW S, S \subseteq QIdx
    PROVE  /\ S # {} => \E q \in S : Lowest(S, q)
           /\ \A p, q : Lowest(S, p) /\ Lowest(S, q) => p = q
<1>1. ASSUME S # {} PROVE \E q \in S : Lowest(S, q)
  <2>1. S \subseteq Nat
    BY IqDepthAssumption DEF QIdx
  <2>2. PICK x \in S : \A y \in S : ~(<<y, x>> \in OpToRel(<, Nat))
    BY <1>1, <2>1, WFMin, NatLessThanWellFounded
  <2>3. \A y \in S : ~(y < x)
    BY <2>1, <2>2 DEF OpToRel
  <2> QED BY <2>1, <2>3 DEF Lowest
<1>2. ASSUME NEW p, NEW q, Lowest(S, p), Lowest(S, q) PROVE p = q
  BY <1>2, IqDepthAssumption DEF Lowest, QIdx
<1> QED BY <1>1, <1>2

-----------------------------------------------------------------------------
\* The types of all the state, the specification's bookkeeping included.
Typed == TypeOK /\ value \in [Idx -> Data]

\* The wires of the CDB that the reorder buffer reads.
RobWires(cdb) ==
    IF cdb.en THEN [en |-> TRUE, idx |-> cdb.idx, result |-> cdb.result,
                    exception |-> cdb.exception,
                    branch_mispredicted |-> cdb.branch_mispredicted,
                    branch_target |-> cdb.branch_target]
              ELSE Idle

\* What a broadcast carries.
LEMMA BroadcastWires ==
    ASSUME Typed, NEW cdb \in Broadcasts
    PROVE  /\ cdb.en \in BOOLEAN
           /\ cdb.en => /\ cdb.idx \in issued
                        /\ cdb.data = value[cdb.idx]
           /\ RobWires(cdb) \in Complete
<1>1. ASSUME cdb = Idle PROVE cdb.en = FALSE /\ RobWires(cdb) \in Complete
  <2>1. Idle.en = FALSE
    BY DEF Idle
  <2> QED BY <1>1, <2>1 DEF RobWires, Complete
<1>2. ASSUME NEW i \in issued, cdb = Completion(i)
      PROVE  /\ cdb.en = TRUE /\ cdb.idx = i /\ cdb.data = value[i]
             /\ RobWires(cdb) \in Complete
  <2>1. i \in Idx /\ value[i] \in Result
    BY <1>2, BackendAssumption DEF Typed, TypeOK
  <2>2. (CHOOSE t \in Target : TRUE) \in Target
    BY <2>1 DEF Typed, TypeOK, RobTypeOK, Entry
  <2>3. /\ cdb.en = TRUE /\ cdb.idx = i /\ cdb.data = value[i] /\ cdb.result = value[i]
        /\ cdb.exception = FALSE /\ cdb.branch_mispredicted = FALSE
        /\ cdb.branch_target = (CHOOSE t \in Target : TRUE)
    BY <1>2 DEF Completion
  <2> HIDE DEF Completion
  <2> QED BY <2>1, <2>2, <2>3 DEF RobWires, Complete
<1> QED BY <1>1, <1>2 DEF Broadcasts

\* The buffer sees of the CDB no more than those wires.
LEMMA RobReadsWires ==
    ASSUME NEW d, NEW cdb, RobUpdate(d, cdb), cdb.en \in BOOLEAN
    PROVE  RobUpdate(d, RobWires(cdb))
<1>1. CASE cdb.en
  <2>1. /\ RobWires(cdb).en = TRUE /\ RobWires(cdb).idx = cdb.idx
        /\ \A e : Completed(e, RobWires(cdb)) = Completed(e, cdb)
    BY <1>1 DEF RobWires, Completed
  <2>2. cdb.en = TRUE
    BY <1>1
  <2> HIDE DEF RobWires
  <2> QED BY <2>1, <2>2 DEF RobUpdate
<1>2. CASE ~cdb.en
  <2>1. ~RobWires(cdb).en
    BY <1>2, IdleOff DEF RobWires
  <2> HIDE DEF RobWires
  <2> QED BY <2>1, <1>2 DEF RobUpdate
<1> QED BY <1>1, <1>2

-----------------------------------------------------------------------------
\* What a clock edge does to the queue and to the set of issued slots, entry by
\* entry, in the three cases of iq.sv: written, issued or waiting.
LEMMA QueueEdge ==
    ASSUME Typed, NEW d, NEW cdb, d.en \in BOOLEAN, IqUpdate(d, cdb, head_ptr),
           NEW q \in QIdx
    PROVE  entries'[q] =
             IF d.en /\ Lowest(free, q) THEN Woken(d.entry, cdb)
             ELSE IF Lowest(ready(cdb, head_ptr), q)
                    THEN [Woken(entries[q], cdb) EXCEPT !.valid = FALSE]
             ELSE IF entries[q].valid THEN Woken(entries[q], cdb) ELSE entries[q]
<1>1. d.en /\ Lowest(free, q) => ~Lowest(ready(cdb, head_ptr), q)
  BY DEF Lowest, free, ready
<1> QED BY <1>1 DEF IqUpdate

\* Waking leaves an entry of the queue an entry.
LEMMA WokenFields ==
    ASSUME NEW e \in IqEntry, NEW cdb, cdb.en => cdb.data \in Data
    PROVE  /\ Woken(e, cdb) \in IqEntry
           /\ Woken(e, cdb).valid = e.valid
           /\ Woken(e, cdb).rob_idx = e.rob_idx
           /\ Woken(e, cdb).tag = e.tag
           /\ Woken(e, cdb).wait = [s \in Src |-> e.wait[s] /\ ~match(e, s, cdb)]
           /\ Woken(e, cdb).data = issue_data(e, cdb)
<1>1. issue_data(e, cdb) \in [Src -> Data]
  BY DEF issue_data, match, IqEntry
<1>2. [s \in Src |-> e.wait[s] /\ ~match(e, s, cdb)] \in [Src -> BOOLEAN]
  OBVIOUS
<1> DEFINE w == [s \in Src |-> e.wait[s] /\ ~match(e, s, cdb)]
           x == issue_data(e, cdb)
           r == [e EXCEPT !.wait = w, !.data = x]
<1>3. Woken(e, cdb) = r
  BY DEF Woken
<1>4. w \in [Src -> BOOLEAN] /\ x \in [Src -> Data]
  BY <1>1, <1>2
<1> HIDE DEF w, x
<1>5. /\ r \in IqEntry /\ r.valid = e.valid /\ r.rob_idx = e.rob_idx /\ r.tag = e.tag
      /\ r.wait = w /\ r.data = x
  BY <1>4 DEF IqEntry
<1> HIDE DEF r
<1> QED BY <1>3, <1>5 DEF w, x

\* Which operands waking leaves waiting.
LEMMA WokenOperand ==
    ASSUME NEW e \in IqEntry, NEW cdb, cdb.en => cdb.data \in Data, NEW s \in Src,
           NEW f, f = Woken(e, cdb)
    PROVE  /\ f.wait[s] => e.wait[s] /\ ~match(e, s, cdb)
           /\ ~f.wait[s] => match(e, s, cdb) \/ ~e.wait[s]
<1>1. f.wait = [t \in Src |-> e.wait[t] /\ ~match(e, t, cdb)]
  BY WokenFields
<1>2. f.wait[s] = (e.wait[s] /\ ~match(e, s, cdb))
  BY <1>1
<1> QED BY <1>2

\* Issuing takes an entry out of the queue.
LEMMA LeavesQueue ==
    ASSUME NEW e \in IqEntry
    PROVE  /\ [e EXCEPT !.valid = FALSE] \in IqEntry
           /\ [e EXCEPT !.valid = FALSE].valid = FALSE
  BY DEF IqEntry

-----------------------------------------------------------------------------
\* The two ports on an edge that dispatches.
RobPort(kind) == [en |-> TRUE, instr |-> kind, exception |-> FALSE]

NewEntry(kind, ops) == [valid |-> TRUE, rob_idx |-> tail_ptr, mem |-> kind = "mem",
                        wait |-> [s \in Src |-> ops[s].wait],
                        tag  |-> [s \in Src |-> ops[s].tag],
                        data |-> [s \in Src |-> ops[s].data]]

\* What an operand source is.
LEMMA OperandFields ==
    ASSUME Typed, NEW o \in Operand
    PROVE  /\ o.wait \in BOOLEAN /\ o.tag \in Idx /\ o.data \in Data
           /\ o.wait => o.tag \in Incomplete
<1>1. ASSUME NEW v \in Data, o = [wait |-> FALSE, tag |-> 0, data |-> v]
      PROVE  o.wait = FALSE /\ o.tag \in Idx /\ o.data \in Data
  BY <1>1, DepthAssumption DEF Idx
<1>2. ASSUME NEW i \in Incomplete,
             o = [wait |-> TRUE, tag |-> i, data |-> CHOOSE v \in Data : TRUE]
      PROVE  o.wait = TRUE /\ o.tag \in Idx /\ o.data \in Data /\ o.tag \in Incomplete
  <2>1. value[i] \in Data
    BY DEF Typed, Incomplete
  <2>2. (CHOOSE v \in Data : TRUE) \in Data
    BY <2>1
  <2> QED BY <1>2, <2>2 DEF Incomplete
<1> QED BY <1>1, <1>2 DEF Operand

\* The entry that a dispatch writes.
LEMMA NewEntryFields ==
    ASSUME Typed, NEW kind \in Instr, NEW ops \in [Src -> Operand]
    PROVE  /\ NewEntry(kind, ops) \in IqEntry
           /\ NewEntry(kind, ops).valid = TRUE
           /\ NewEntry(kind, ops).rob_idx = tail_ptr
           /\ \A s \in Src : /\ NewEntry(kind, ops).wait[s] = ops[s].wait
                             /\ NewEntry(kind, ops).tag[s] = ops[s].tag
                             /\ NewEntry(kind, ops).data[s] = ops[s].data
<1>1. \A s \in Src : ops[s].wait \in BOOLEAN /\ ops[s].tag \in Slots /\ ops[s].data \in Data
  BY OperandFields, BackendAssumption
<1>2. tail_ptr \in Slots /\ (kind = "mem") \in BOOLEAN
  BY BackendAssumption DEF Typed, TypeOK, RobTypeOK
<1> QED BY <1>1, <1>2 DEF NewEntry, IqEntry

\* An edge, whether it dispatches or not, as the two components see it.
LEMMA ClockPorts ==
    ASSUME Typed, NEW cdb \in Broadcasts
    PROVE  /\ Step(cdb) => RobUpdate(Idle, RobWires(cdb))
           /\ \A kind \in Instr, v \in Data, ops \in [Src -> Operand] :
                 DispatchStep(kind, ops, v, cdb) =>
                     /\ RobPort(kind) \in Dispatch
                     /\ RobUpdate(RobPort(kind), RobWires(cdb))
                     /\ IqUpdate([en |-> TRUE, entry |-> NewEntry(kind, ops)], cdb, head_ptr)
<1>1. Step(cdb) => RobUpdate(Idle, RobWires(cdb))
  BY RobReadsWires, BroadcastWires DEF Step
<1>2. ASSUME NEW kind \in Instr, NEW v \in Data, NEW ops \in [Src -> Operand],
             DispatchStep(kind, ops, v, cdb)
      PROVE  /\ RobPort(kind) \in Dispatch
             /\ RobUpdate(RobPort(kind), RobWires(cdb))
             /\ IqUpdate([en |-> TRUE, entry |-> NewEntry(kind, ops)], cdb, head_ptr)
  <2>1. RobPort(kind) \in Dispatch
    BY DEF RobPort, Dispatch
  <2>2. RobUpdate(RobPort(kind), RobWires(cdb))
    BY <1>2, RobReadsWires, BroadcastWires DEF DispatchStep, RobPort
  <2>3. IqUpdate([en |-> TRUE, entry |-> NewEntry(kind, ops)], cdb, head_ptr)
    BY <1>2 DEF DispatchStep, NewEntry
  <2> QED BY <2>1, <2>2, <2>3
<1> QED BY <1>1, <1>2

\* Beside the queue, the buffer is used as its own specification allows.
LEMMA UsesRob ==
    ASSUME Typed, [Next]_vars
    PROVE  [RobNext]_robVars
<1>1. CASE Flush
  BY <1>1 DEF Flush, RobNext
<1>2. ASSUME NEW cdb \in Broadcasts, Clock(cdb) PROVE RobNext
  BY <1>2, ClockPorts, BroadcastWires DEF Clock, RobNext, Dispatch
<1>3. CASE UNCHANGED vars
  BY <1>3 DEF vars, robVars
<1> QED BY <1>1, <1>2, <1>3 DEF Next

\* The queue's entries after an edge are entries.
LEMMA QueueTyped ==
    ASSUME Typed, NEW cdb \in Broadcasts, NEW d, d.en \in BOOLEAN,
           d.en => d.entry \in IqEntry, IqUpdate(d, cdb, head_ptr)
    PROVE  entries' \in [QIdx -> IqEntry]
<1>1. ASSUME NEW q \in QIdx PROVE entries'[q] \in IqEntry
  <2>1. cdb.en => cdb.data \in Data
    BY BroadcastWires DEF Typed, TypeOK
  <2>2. entries[q] \in IqEntry
    BY DEF Typed, TypeOK
  <2>3. \A e \in IqEntry : /\ Woken(e, cdb) \in IqEntry
                           /\ [Woken(e, cdb) EXCEPT !.valid = FALSE] \in IqEntry
    BY <2>1, WokenFields, LeavesQueue
  <2>4. \/ d.en /\ entries'[q] = Woken(d.entry, cdb)
        \/ entries'[q] = [Woken(entries[q], cdb) EXCEPT !.valid = FALSE]
        \/ entries'[q] = Woken(entries[q], cdb)
        \/ entries'[q] = entries[q]
    BY QueueEdge
  <2> QED BY <2>2, <2>3, <2>4
<1>2. entries' = [q \in QIdx |-> entries'[q]]
  BY DEF IqUpdate
<1> QED BY <1>1, <1>2

\* Whatever the edge, the entries stay entries.
LEMMA EntriesStep ==
    ASSUME Typed, [Next]_vars
    PROVE  entries' \in [QIdx -> IqEntry]
<1>1. CASE Flush
  BY <1>1 DEF Flush, IqFlush, IqEntry, Typed, TypeOK
<1>2. ASSUME NEW cdb \in Broadcasts, Step(cdb) PROVE entries' \in [QIdx -> IqEntry]
  <2>1. Idle.en \in BOOLEAN /\ (Idle.en => Idle.entry \in IqEntry)
    BY DEF Idle
  <2>2. IqUpdate(Idle, cdb, head_ptr)
    BY <1>2 DEF Step
  <2> QED BY <2>1, <2>2, QueueTyped
<1>3. ASSUME NEW cdb \in Broadcasts,
             NEW kind \in Instr, NEW v \in Data, NEW ops \in [Src -> Operand],
             DispatchStep(kind, ops, v, cdb)
      PROVE  entries' \in [QIdx -> IqEntry]
  <2> DEFINE d == [en |-> TRUE, entry |-> NewEntry(kind, ops)]
  <2>1. d.en \in BOOLEAN /\ (d.en => d.entry \in IqEntry)
    BY NewEntryFields
  <2>2. IqUpdate(d, cdb, head_ptr)
    BY <1>3, ClockPorts
  <2> HIDE DEF d
  <2> QED BY <2>1, <2>2, QueueTyped
<1>4. CASE UNCHANGED vars
  BY <1>4 DEF vars, Typed, TypeOK
<1> QED BY <1>1, <1>2, <1>3, <1>4 DEF Next, Clock

\* The remaining state keeps its type too.
LEMMA TypedStep ==
    ASSUME Typed, [Next]_vars
    PROVE  Typed'
<1>1. RobTypeOK'
  BY UsesRob, RobTypeStep DEF Typed, TypeOK
<1>2. entries' \in [QIdx -> IqEntry]
  BY EntriesStep
<1>3. issued' \subseteq Idx /\ value' \in [Idx -> Data]
  <2>1. \A cdb : Issuing(cdb) \subseteq Idx
    BY BackendAssumption DEF Typed, TypeOK, Issuing, IqEntry
  <2>2. CASE Flush
    BY <2>2 DEF Flush, Typed
  <2>3. ASSUME NEW cdb \in Broadcasts, Clock(cdb)
        PROVE  issued' \subseteq Idx /\ value' \in [Idx -> Data]
    BY <2>1, <2>3 DEF Clock, Step, DispatchStep, Typed, TypeOK
  <2>4. CASE UNCHANGED vars
    BY <2>4 DEF vars, Typed, TypeOK
  <2> QED BY <2>2, <2>3, <2>4 DEF Next
<1> QED BY <1>1, <1>2, <1>3 DEF Typed, TypeOK

\* A reset core is well typed.
LEMMA TypedInit == Init => Typed
<1> SUFFICES ASSUME Init PROVE Typed
  OBVIOUS
<1>1. RobTypeOK
  BY DepthAssumption DEF Init, RobInit, RobTypeOK, Entry, Idx
<1>2. 0 \in Slots
  BY DepthAssumption, BackendAssumption DEF Idx
<1> QED BY <1>1, <1>2 DEF Init, Typed, TypeOK, IqEntry

\* The queue's and the buffer's fields have the types iq.sv and rob.sv declare
\* after every edge; in particular no tag or index leaves the buffer.
THEOREM BackendTyping == Spec => []TypeOK
<1>1. Typed => TypeOK
  BY DEF Typed
<1> QED BY <1>1, TypedInit, TypedStep, PTL DEF Spec

-----------------------------------------------------------------------------
\* What the invariants' proofs need of the ports of one edge: the two components
\* dispatch together or not at all, and only into room (riscv_top.v:276-314).
PortsAgree(rd, qd) ==
    /\ rd.en \in BOOLEAN /\ qd.en \in BOOLEAN /\ (rd.en <=> qd.en)
    /\ rd.en => /\ ~rob_full /\ free # {} /\ rd.exception = FALSE
                /\ qd.entry \in IqEntry /\ qd.entry.valid /\ qd.entry.rob_idx = tail_ptr
                /\ \A s \in Src : qd.entry.wait[s] => qd.entry.tag[s] \in Incomplete

Edge(rd, qd, cdb) ==
    /\ PortsAgree(rd, qd)
    /\ RobUpdate(rd, cdb)
    /\ IqUpdate(qd, cdb, head_ptr)
    /\ issued' = (issued \ (IF cdb.en THEN {cdb.idx} ELSE {})) \cup Issuing(cdb)

\* The slots to be broadcast after an edge: those before it, less the one on the
\* CDB, and the one dispatched.
LEMMA IncompleteStep ==
    ASSUME Typed, RobWindow, EachSlotOnce, NEW cdb \in Broadcasts, NEW rd, NEW qd,
           Edge(rd, qd, cdb)
    PROVE  /\ Incomplete' = (Incomplete \ (IF cdb.en THEN {cdb.idx} ELSE {}))
                               \cup (IF rd.en THEN {tail_ptr} ELSE {})
           /\ rd.en => tail_ptr \notin Incomplete
           /\ cdb.en => cdb.idx \in Incomplete
<1>1. cdb.en => cdb.idx \in Incomplete
  BY BroadcastWires DEF EachSlotOnce
<1>2. rd.en => tail_ptr \notin Incomplete
  BY PortsApart DEF Edge, PortsAgree, Typed, TypeOK, Incomplete
<1>3. \A i \in Idx : rob_data[i] \in Entry
  BY DEF Typed, TypeOK, RobTypeOK
<1>4. \A i \in Idx : rob_data'[i].valid /\ ~rob_data'[i].completed <=>
                       \/ i \in Incomplete /\ ~(cdb.en /\ i = cdb.idx)
                       \/ rd.en /\ i = tail_ptr
  <2> TAKE i \in Idx
  <2>1. CASE commit_en /\ i = head_ptr
    <3>1. i \notin Incomplete /\ ~(rd.en /\ i = tail_ptr)
      BY <2>1, PortsApart DEF Incomplete, Edge, PortsAgree, Typed, TypeOK
    <3>2. \A e \in Entry : ~Retired(e).valid
      BY EntryValid
    <3>3. ~rob_data'[i].valid
      <4> DEFINE D == IF rd.en /\ ~rob_full /\ i = tail_ptr THEN Dispatched(rob_data[i], rd)
                                                            ELSE rob_data[i]
                 C == IF cdb.en /\ rob_data[cdb.idx].valid /\ i = cdb.idx
                        THEN Completed(D, cdb) ELSE D
      <4>1. rob_data'[i] = Retired(C)
        BY <2>1 DEF Edge, RobUpdate
      <4>2. D = rob_data[i] /\ C = D
        BY <3>1, <1>1
      <4> HIDE DEF C, D
      <4> QED BY <4>1, <4>2, <3>2, <1>3
    <3> QED BY <3>1, <3>3
  <2>2. CASE ~(commit_en /\ i = head_ptr)
    <3>1. rob_data'[i] = IF rd.en /\ ~rob_full /\ i = tail_ptr THEN Dispatched(rob_data[i], rd)
                         ELSE IF cdb.en /\ i = cdb.idx /\ rob_data[i].valid
                                THEN Completed(rob_data[i], cdb)
                         ELSE rob_data[i]
      BY <2>2, EdgeWhole DEF Edge, Typed, TypeOK
    <3>2. CASE rd.en /\ i = tail_ptr
      <4>1. rob_data'[i] = Dispatched(rob_data[i], rd) /\ rd.exception = FALSE
        BY <3>1, <3>2 DEF Edge, PortsAgree
      <4>2. rob_data'[i].valid = TRUE /\ rob_data'[i].completed = FALSE
        BY <4>1, <1>3 DEF Dispatched, Entry
      <4> QED BY <3>2, <4>2
    <3>3. CASE ~(rd.en /\ i = tail_ptr) /\ cdb.en /\ i = cdb.idx /\ rob_data[i].valid
      <4>1. rob_data'[i].completed = TRUE
        BY <3>1, <3>3, <1>3 DEF Completed, Entry
      <4> QED BY <3>3, <4>1
    <3>4. CASE ~(rd.en /\ i = tail_ptr) /\ ~(cdb.en /\ i = cdb.idx /\ rob_data[i].valid)
      BY <3>1, <3>4 DEF Incomplete
    <3> QED BY <3>2, <3>3, <3>4
  <2> QED BY <2>1, <2>2
<1>5. rd.en => tail_ptr \in Idx
  BY DEF Typed, TypeOK, RobTypeOK
<1> QED BY <1>1, <1>2, <1>4, <1>5 DEF Incomplete

\* Entry q is written on this edge; it is issued; and what it holds going in.
Written(qd, q) == qd.en /\ Lowest(free, q)

Taken(cdb, q) == Lowest(ready(cdb, head_ptr), q)

Before(qd, q) == IF Written(qd, q) THEN qd.entry ELSE entries[q]

\* The queue entries after an edge: which are live, and what those hold.
LEMMA QueueFields ==
    ASSUME Typed, NEW cdb \in Broadcasts, NEW rd, NEW qd, Edge(rd, qd, cdb),
           NEW q \in QIdx
    PROVE  /\ Written(qd, q) => ~entries[q].valid
           /\ Taken(cdb, q) => entries[q].valid
           /\ entries'[q].valid <=> Written(qd, q) \/ (entries[q].valid /\ ~Taken(cdb, q))
           /\ entries'[q].valid => entries'[q] = Woken(Before(qd, q), cdb)
           /\ Before(qd, q) \in IqEntry
<1>1. /\ Written(qd, q) => ~entries[q].valid
      /\ Taken(cdb, q) => entries[q].valid
  BY DEF Lowest, free, ready, Written, Taken
<1>2. cdb.en => cdb.data \in Data
  BY BroadcastWires DEF Typed, TypeOK
<1>3. /\ entries[q] \in IqEntry
      /\ Before(qd, q) \in IqEntry
      /\ Written(qd, q) => Before(qd, q).valid
      /\ ~Written(qd, q) => Before(qd, q) = entries[q]
  BY DEF Typed, TypeOK, Edge, PortsAgree, Written, Before
<1>4. /\ entries[q].valid => Woken(entries[q], cdb).valid
      /\ ~[Woken(entries[q], cdb) EXCEPT !.valid = FALSE].valid
  <2>1. Woken(entries[q], cdb) \in IqEntry /\ Woken(entries[q], cdb).valid = entries[q].valid
    BY <1>2, <1>3, WokenFields
  <2> QED BY <2>1, LeavesQueue
<1>5. entries'[q] =
         IF Written(qd, q) THEN Woken(Before(qd, q), cdb)
         ELSE IF Taken(cdb, q) THEN [Woken(entries[q], cdb) EXCEPT !.valid = FALSE]
         ELSE IF entries[q].valid THEN Woken(Before(qd, q), cdb) ELSE entries[q]
  BY QueueEdge DEF Edge, PortsAgree, Written, Taken, Before
<1>6. entries'[q].valid <=> Written(qd, q) \/ (entries[q].valid /\ ~Taken(cdb, q))
  <2>1. Woken(Before(qd, q), cdb).valid = Before(qd, q).valid
    BY <1>2, <1>3, WokenFields
  <2> QED BY <1>1, <1>3, <1>4, <1>5, <2>1
<1>7. entries'[q].valid => entries'[q] = Woken(Before(qd, q), cdb)
  BY <1>1, <1>4, <1>5, <1>6
<1> QED BY <1>1, <1>3, <1>6, <1>7

\* What a live entry holds after an edge, from what it held going in.
LEMMA EntryHolds ==
    ASSUME Typed, NEW cdb \in Broadcasts, NEW rd, NEW qd, Edge(rd, qd, cdb),
           NEW q \in QIdx, entries'[q].valid
    PROVE  /\ Written(qd, q) \/ entries[q].valid
           /\ Before(qd, q) \in IqEntry
           /\ entries'[q] = Woken(Before(qd, q), cdb)
           /\ entries'[q].rob_idx = Before(qd, q).rob_idx
           /\ entries'[q].tag = Before(qd, q).tag
           /\ entries'[q].data = issue_data(Before(qd, q), cdb)
<1>1. cdb.en => cdb.data \in Data
  BY BroadcastWires DEF Typed, TypeOK
<1>2. /\ Written(qd, q) \/ entries[q].valid
      /\ entries'[q] = Woken(Before(qd, q), cdb)
      /\ Before(qd, q) \in IqEntry
  BY QueueFields
<1>3. /\ Woken(Before(qd, q), cdb).rob_idx = Before(qd, q).rob_idx
      /\ Woken(Before(qd, q), cdb).tag = Before(qd, q).tag
      /\ Woken(Before(qd, q), cdb).data = issue_data(Before(qd, q), cdb)
  BY <1>1, <1>2, WokenFields
<1> QED BY <1>2, <1>3

-----------------------------------------------------------------------------
\* The live queue entries hold distinct slots, none of them issued, and with the
\* issued ones make up the incomplete slots, after an edge as before it: the slot
\* that leaves the queue is the one that becomes issued, the slot that leaves the
\* issued set is the one that completes, and the slot that enters is new.
LEMMA EachSlotOnceStep ==
    ASSUME Typed, RobWindow, EachSlotOnce, NEW cdb \in Broadcasts, NEW rd, NEW qd,
           Edge(rd, qd, cdb)
    PROVE  EachSlotOnce'
<1> DEFINE bus == IF cdb.en THEN {cdb.idx} ELSE {}
           new == IF rd.en THEN {tail_ptr} ELSE {}
<1>1. /\ Incomplete' = (Incomplete \ bus) \cup new
      /\ rd.en => tail_ptr \notin Incomplete
      /\ cdb.en => cdb.idx \in issued
  BY IncompleteStep, BroadcastWires
<1>2. issued' = (issued \ bus) \cup Issuing(cdb)
  BY DEF Edge
<1>3. \A i : i \in Issuing(cdb) <=> \E q \in QIdx : Taken(cdb, q) /\ entries[q].rob_idx = i
  BY DEF Issuing, Taken
<1>4. \A q \in QIdx :
         /\ Written(qd, q) => ~entries[q].valid
         /\ Taken(cdb, q) => entries[q].valid
         /\ entries'[q].valid <=> Written(qd, q) \/ (entries[q].valid /\ ~Taken(cdb, q))
         /\ Written(qd, q) => entries'[q].rob_idx = tail_ptr
         /\ entries[q].valid /\ ~Taken(cdb, q) => entries'[q].rob_idx = entries[q].rob_idx
  <2> TAKE q \in QIdx
  <2>1. /\ Written(qd, q) => ~entries[q].valid
        /\ Taken(cdb, q) => entries[q].valid
        /\ entries'[q].valid <=> Written(qd, q) \/ (entries[q].valid /\ ~Taken(cdb, q))
    BY QueueFields
  <2>2. Before(qd, q).rob_idx = IF Written(qd, q) THEN tail_ptr ELSE entries[q].rob_idx
    BY DEF Before, Written, Edge, PortsAgree
  <2>3. entries'[q].valid => entries'[q].rob_idx = Before(qd, q).rob_idx
    BY EntryHolds
  <2> QED BY <2>1, <2>2, <2>3
<1>5. /\ \A p, q \in QIdx : Written(qd, p) /\ Written(qd, q) => p = q
      /\ rd.en <=> \E q \in QIdx : Written(qd, q)
  <2>1. free \subseteq QIdx
    BY DEF free
  <2> QED BY <2>1, LowestExists DEF Written, Edge, PortsAgree
<1>6. /\ \A q \in QIdx : entries[q].valid => entries[q].rob_idx \in Incomplete \ issued
      /\ \A p, q \in QIdx : entries[p].valid /\ entries[q].valid /\ p # q =>
                               entries[p].rob_idx # entries[q].rob_idx
      /\ \A i : i \in Incomplete <=> i \in issued \/
                   \E q \in QIdx : entries[q].valid /\ entries[q].rob_idx = i
  BY DEF EachSlotOnce
<1> HIDE DEF bus, new
<1>7. /\ bus \subseteq issued
      /\ \A i \in new : rd.en /\ i = tail_ptr
      /\ rd.en => tail_ptr \in new
  BY <1>1 DEF bus, new
<1>8. ASSUME NEW q \in QIdx, entries'[q].valid
      PROVE  entries'[q].rob_idx \in Incomplete' \ issued'
  <2>1. CASE Written(qd, q)
    BY <2>1, <1>1, <1>2, <1>3, <1>4, <1>5, <1>6, <1>7
  <2>2. CASE ~Written(qd, q)
    BY <2>2, <1>8, <1>1, <1>2, <1>3, <1>4, <1>6, <1>7
  <2> QED BY <2>1, <2>2
<1>9. ASSUME NEW p \in QIdx, NEW q \in QIdx, entries'[p].valid, entries'[q].valid, p # q
      PROVE  entries'[p].rob_idx # entries'[q].rob_idx
  BY <1>9, <1>1, <1>4, <1>5, <1>6
<1>10. \A i : i \in Incomplete' <=> i \in issued' \/
                 \E q \in QIdx : entries'[q].valid /\ entries'[q].rob_idx = i
  <2>1. ASSUME NEW i, i \in Incomplete'
        PROVE  i \in issued' \/ \E q \in QIdx : entries'[q].valid /\ entries'[q].rob_idx = i
    BY <2>1, <1>1, <1>2, <1>3, <1>4, <1>5, <1>6, <1>7
  <2>2. ASSUME NEW i, i \in issued' PROVE i \in Incomplete'
    BY <2>2, <1>1, <1>2, <1>3, <1>4, <1>6, <1>7
  <2> QED BY <2>1, <2>2, <1>8
<1> QED BY <1>8, <1>9, <1>10 DEF EachSlotOnce

\* An entry that still waits after an edge waits for a slot that is still to be
\* broadcast: a broadcast ends every wait for its slot, those being written too.
LEMMA NoLostWakeupStep ==
    ASSUME Typed, RobWindow, EachSlotOnce, NoLostWakeup, NEW cdb \in Broadcasts,
           NEW rd, NEW qd, Edge(rd, qd, cdb)
    PROVE  NoLostWakeup'
<1> SUFFICES ASSUME NEW q \in QIdx, NEW s \in Src, entries'[q].valid, entries'[q].wait[s]
             PROVE  entries'[q].tag[s] \in Incomplete'
  BY DEF NoLostWakeup
<1> DEFINE b == Before(qd, q)
<1>1. /\ b \in IqEntry
      /\ Written(qd, q) \/ entries[q].valid
      /\ entries'[q] = Woken(b, cdb)
      /\ entries'[q].tag = b.tag
  BY EntryHolds
<1>2. cdb.en => cdb.data \in Data
  BY BroadcastWires DEF Typed, TypeOK
<1>3. b.wait[s] /\ ~match(b, s, cdb)
  BY <1>1, <1>2, WokenOperand
<1>4. b.tag[s] \in Incomplete
  BY <1>1, <1>3 DEF Before, Written, Edge, PortsAgree, NoLostWakeup
<1>5. ~(cdb.en /\ b.tag[s] = cdb.idx)
  BY <1>3 DEF match
<1> QED BY <1>1, <1>4, <1>5, IncompleteStep

\* A delivered operand is its producer's result: the value a slot will broadcast
\* does not change while anyone waits for it, and what the CDB brings is it.
LEMMA OperandsDeliveredStep ==
    ASSUME Typed, RobWindow, EachSlotOnce, NoLostWakeup, OperandsDelivered,
           NEW cdb \in Broadcasts, NEW rd, NEW qd, Edge(rd, qd, cdb),
           \A i \in Idx : ~(rd.en /\ i = tail_ptr) => value'[i] = value[i],
           \A q \in QIdx : ~Written(qd, q) => expect'[q] = expect[q],
           \A q \in QIdx, s \in Src : Written(qd, q) =>
               expect'[q][s] = IF qd.entry.wait[s] THEN value[qd.entry.tag[s]]
                                                   ELSE qd.entry.data[s]
    PROVE  OperandsDelivered'
<1> SUFFICES ASSUME NEW q \in QIdx, NEW s \in Src, entries'[q].valid
             PROVE  (IF entries'[q].wait[s] THEN value'[entries'[q].tag[s]]
                                            ELSE entries'[q].data[s]) = expect'[q][s]
  BY DEF OperandsDelivered
<1> DEFINE b == Before(qd, q)
<1>1. /\ b \in IqEntry
      /\ Written(qd, q) \/ entries[q].valid
      /\ entries'[q] = Woken(b, cdb)
      /\ entries'[q].tag = b.tag
      /\ entries'[q].data = issue_data(b, cdb)
  BY EntryHolds
<1>2. cdb.en => cdb.data \in Data /\ cdb.data = value[cdb.idx]
  BY BroadcastWires DEF Typed, TypeOK
<1>3. expect'[q][s] = IF b.wait[s] THEN value[b.tag[s]] ELSE b.data[s]
  <2>1. CASE Written(qd, q)
    BY <2>1 DEF Before
  <2>2. CASE ~Written(qd, q)
    BY <2>2, <1>1 DEF Before, OperandsDelivered
  <2> QED BY <2>1, <2>2
<1>4. b.wait[s] => b.tag[s] \in Incomplete
  BY <1>1 DEF Before, Written, Edge, PortsAgree, NoLostWakeup
<1>5. b.wait[s] => value'[b.tag[s]] = value[b.tag[s]]
  BY <1>4, IncompleteStep DEF Incomplete
<1>6. /\ entries'[q].wait[s] => b.wait[s] /\ ~match(b, s, cdb)
      /\ ~entries'[q].wait[s] => match(b, s, cdb) \/ ~b.wait[s]
  BY <1>1, <1>2, WokenOperand
<1>7. match(b, s, cdb) => b.wait[s] /\ cdb.en /\ b.tag[s] = cdb.idx
  BY DEF match
<1>8. entries'[q].data[s] = IF match(b, s, cdb) THEN cdb.data ELSE b.data[s]
  BY <1>1 DEF issue_data
<1> QED BY <1>1, <1>2, <1>3, <1>5, <1>6, <1>7, <1>8

-----------------------------------------------------------------------------
\* The inductive invariant: each of the three promises needs the ones before it.
Inv == Typed /\ RobWindow /\ EachSlotOnce /\ NoLostWakeup /\ OperandsDelivered

\* After reset nothing is live, so nothing waits.
LEMMA InvInit == Init => Inv
<1> SUFFICES ASSUME Init PROVE Inv
  OBVIOUS
<1>1. Typed
  BY TypedInit
<1>2. RobWindow
  BY DepthAssumption DEF Init, RobInit, RobWindow, Age, Slot, Idx
<1>3. Incomplete = {} /\ \A q \in QIdx : ~entries[q].valid
  BY DEF Init, RobInit, Incomplete
<1> QED BY <1>1, <1>2, <1>3 DEF Inv, Init, EachSlotOnce, NoLostWakeup, OperandsDelivered

\* A flush empties the buffer, the queue and the issued set together.
LEMMA InvFlush ==
    ASSUME Inv, Flush
    PROVE  EachSlotOnce' /\ NoLostWakeup' /\ OperandsDelivered'
<1>1. Incomplete' = {}
  BY EntryValid DEF Flush, RobFlush, Incomplete, Inv, Typed, TypeOK, RobTypeOK
<1>2. \A q \in QIdx : entries'[q].valid = FALSE
  BY LeavesQueue DEF Flush, IqFlush, Inv, Typed, TypeOK
<1>3. issued' = {}
  BY DEF Flush
<1> QED BY <1>1, <1>2, <1>3 DEF EachSlotOnce, NoLostWakeup, OperandsDelivered

\* An edge without a dispatch.
LEMMA InvStep ==
    ASSUME Inv, NEW cdb \in Broadcasts, Step(cdb)
    PROVE  EachSlotOnce' /\ NoLostWakeup' /\ OperandsDelivered'
<1>1. Idle.en = FALSE
  BY DEF Idle
<1>2. Edge(Idle, Idle, cdb)
  BY <1>1 DEF Step, Edge, PortsAgree
<1>3. \A q \in QIdx : ~Written(Idle, q)
  BY <1>1 DEF Written
<1>4. value' = value /\ expect' = expect
  BY DEF Step
<1> QED BY <1>2, <1>3, <1>4, EachSlotOnceStep, NoLostWakeupStep, OperandsDeliveredStep DEF Inv

\* An edge with one.
LEMMA InvDispatch ==
    ASSUME Inv, NEW cdb \in Broadcasts, NEW kind \in Instr, NEW v \in Data,
           NEW ops \in [Src -> Operand], DispatchStep(kind, ops, v, cdb)
    PROVE  EachSlotOnce' /\ NoLostWakeup' /\ OperandsDelivered'
<1> DEFINE rd == RobPort(kind)
           qd == [en |-> TRUE, entry |-> NewEntry(kind, ops)]
<1>1. Typed /\ tail_ptr \in Idx
  BY DEF Inv, Typed, TypeOK, RobTypeOK
<1>2. /\ rd.en = TRUE /\ rd.exception = FALSE
      /\ qd.en = TRUE /\ qd.entry = NewEntry(kind, ops)
  BY DEF RobPort
<1>3. /\ qd.entry \in IqEntry /\ qd.entry.valid = TRUE /\ qd.entry.rob_idx = tail_ptr
      /\ \A s \in Src : /\ qd.entry.wait[s] = ops[s].wait
                        /\ qd.entry.tag[s] = ops[s].tag
                        /\ qd.entry.data[s] = ops[s].data
  BY <1>1, NewEntryFields
<1>4. /\ RobUpdate(rd, cdb)
      /\ IqUpdate(qd, cdb, head_ptr)
  BY <1>1, ClockPorts DEF DispatchStep, RobPort
<1>5. /\ ~rob_full /\ free # {}
      /\ issued' = (issued \ (IF cdb.en THEN {cdb.idx} ELSE {})) \cup Issuing(cdb)
      /\ value' = [value EXCEPT ![tail_ptr] = v]
      /\ expect' = [q \in QIdx |-> IF Lowest(free, q) THEN [s \in Src |-> Expected(ops[s])]
                                                       ELSE expect[q]]
  BY DEF DispatchStep, iq_full
<1>6. \A s \in Src : ops[s].wait \in BOOLEAN /\ (ops[s].wait => ops[s].tag \in Incomplete)
  BY <1>1, OperandFields
<1> HIDE DEF rd, qd
<1>7. Edge(rd, qd, cdb)
  <2>1. \A s \in Src : qd.entry.wait[s] => qd.entry.tag[s] \in Incomplete
    BY <1>3, <1>6
  <2>2. PortsAgree(rd, qd)
    BY <2>1, <1>2, <1>3, <1>5 DEF PortsAgree
  <2> QED BY <2>2, <1>4, <1>5 DEF Edge
<1>8. \A i \in Idx : ~(rd.en /\ i = tail_ptr) => value'[i] = value[i]
  BY <1>1, <1>2, <1>5 DEF Typed
<1>9. /\ \A q \in QIdx : ~Written(qd, q) => expect'[q] = expect[q]
      /\ \A q \in QIdx, s \in Src : Written(qd, q) =>
             expect'[q][s] = IF qd.entry.wait[s] THEN value[qd.entry.tag[s]]
                                                 ELSE qd.entry.data[s]
  BY <1>2, <1>3, <1>5 DEF Written, Expected
<1> QED BY <1>7, <1>8, <1>9, EachSlotOnceStep, NoLostWakeupStep, OperandsDeliveredStep DEF Inv

\* Every step keeps the invariant.
LEMMA InvNext ==
    ASSUME Inv, [Next]_vars
    PROVE  Inv'
<1>1. Typed' /\ RobWindow'
  BY TypedStep, UsesRob, RobWindowStep DEF Inv, Typed, TypeOK
<1>2. EachSlotOnce' /\ NoLostWakeup' /\ OperandsDelivered'
  <2>1. CASE Flush
    BY <2>1, InvFlush
  <2>2. ASSUME NEW cdb \in Broadcasts, Clock(cdb)
        PROVE  EachSlotOnce' /\ NoLostWakeup' /\ OperandsDelivered'
    BY <2>2, InvStep, InvDispatch DEF Clock
  <2>3. CASE UNCHANGED vars
    BY <2>3 DEF vars, Inv, EachSlotOnce, NoLostWakeup, OperandsDelivered, Incomplete
  <2> QED BY <2>1, <2>2, <2>3 DEF Next
<1> QED BY <1>1, <1>2 DEF Inv

\* Every live, incomplete instruction is in the queue once or issued, never both
\* and never lost, across dispatch, issue, broadcast, commit and flush in one edge
\* (iq.sv:158-217, rob.sv:109-139).
THEOREM EachSlotOnceTheorem == Spec => []EachSlotOnce
<1>1. Inv => EachSlotOnce
  BY DEF Inv
<1> QED BY <1>1, InvInit, InvNext, PTL DEF Spec

\* No queue entry waits for a broadcast that has already happened
\* (iq.sv:176-214).
THEOREM NoLostWakeupTheorem == Spec => []NoLostWakeup
<1>1. Inv => NoLostWakeup
  BY DEF Inv
<1> QED BY <1>1, InvInit, InvNext, PTL DEF Spec

\* Every operand an entry holds is the one its producer computed
\* (iq.sv:135-145,176-214).
THEOREM OperandsDeliveredTheorem == Spec => []OperandsDelivered
<1>1. Inv => OperandsDelivered
  BY DEF Inv
<1> QED BY <1>1, InvInit, InvNext, PTL DEF Spec
=============================================================================
