------------------------- MODULE CommitQueue_proofs -------------------------
(***************************************************************************)
(* The reorder buffer implements the in-order commit queue, for every      *)
(* depth and every use of its ports.                                       *)
(***************************************************************************)
EXTENDS Rob_proofs, SequenceTheorems

\* What an entry stands for in the queue, and the set of such things.
ItemOf(e) == [instr |-> e.instr, outcome |-> OutcomeOf(e)]

Item == [instr : Instr, outcome : {CQ!Pending} \cup CQ!Outcome]

\* An entry that has not completed is pending, and no other is.
LEMMA OutcomeKinds ==
    ASSUME NEW e \in Entry
    PROVE  /\ ItemOf(e) \in Item
           /\ OutcomeOf(e) = CQ!Pending <=> ~e.completed
<1>1. /\ e.completed \in BOOLEAN /\ e.exception \in BOOLEAN /\ e.result \in Result
      /\ e.branch_mispredicted \in BOOLEAN /\ e.branch_target \in Target /\ e.instr \in Instr
  BY DEF Entry
<1>2. CASE ~e.completed
  <2>1. OutcomeOf(e) = CQ!Pending
    BY <1>2 DEF OutcomeOf, CQ!Pending
  <2> QED BY <1>1, <1>2, <2>1 DEF ItemOf, Item
<1>3. CASE e.completed /\ e.exception
  <2>1. OutcomeOf(e) = CQ!Exception
    BY <1>3 DEF OutcomeOf, CQ!Exception
  <2>2. CQ!Exception # CQ!Pending
    BY DEF CQ!Exception, CQ!Pending
  <2> QED BY <1>1, <1>3, <2>1, <2>2 DEF ItemOf, Item, CQ!Outcome
<1>4. CASE e.completed /\ ~e.exception
  <2>1. OutcomeOf(e) = CQ!Done(e.result, e.branch_mispredicted, e.branch_target)
    BY <1>4 DEF OutcomeOf, CQ!Done
  <2>2. \A r, m, t : CQ!Done(r, m, t) # CQ!Pending
    <3> TAKE r, m, t
    <3>1. CQ!Done(r, m, t).kind = "done" /\ CQ!Pending.kind = "pending"
      BY DEF CQ!Done, CQ!Pending
    <3> QED BY <3>1
  <2> QED BY <1>1, <1>4, <2>1, <2>2 DEF ItemOf, Item, CQ!Outcome
<1> QED BY <1>1, <1>2, <1>3, <1>4

\* Age and Slot are inverse to each other.
LEMMA SlotAge ==
    ASSUME RobTypeOK
    PROVE  /\ \A k \in 0 .. ROB_DEPTH - 1 : Slot(k) \in Idx /\ Age(Slot(k)) = k
           /\ \A i \in Idx : Age(i) \in 0 .. ROB_DEPTH - 1 /\ Slot(Age(i)) = i
  BY DepthAssumption DEF RobTypeOK, Idx, Slot, Age

\* Slot, of a given head.
SlotFrom(h, k) == IF h + k < ROB_DEPTH THEN h + k ELSE h + k - ROB_DEPTH

\* The queue is a sequence of items, as long as count says.
QueueShape ==
    /\ robQueue \in Seq(Item)
    /\ Len(robQueue) = count
    /\ \A k \in 1 .. count : robQueue[k] = ItemOf(rob_data[SlotFrom(head_ptr, k - 1)])

\* It is one in every well-typed state.
LEMMA QueueIsSeq == RobTypeOK => QueueShape
<1> SUFFICES ASSUME RobTypeOK PROVE QueueShape
  OBVIOUS
<1>1. count \in Nat /\ count <= ROB_DEPTH
  BY DepthAssumption DEF RobTypeOK
<1>2. \A k \in 1 .. count : Slot(k - 1) \in Idx
  BY <1>1, SlotAge, DepthAssumption
<1>3. \A k \in 1 .. count : ItemOf(rob_data[Slot(k - 1)]) \in Item
  BY <1>2, OutcomeKinds DEF RobTypeOK
<1>4. robQueue = [k \in 1 .. count |-> ItemOf(rob_data[Slot(k - 1)])]
  BY DEF robQueue, ItemOf
<1>7. \A k : Slot(k) = SlotFrom(head_ptr, k)
  BY DEF Slot, SlotFrom
<1>5. robQueue \in [1 .. count -> Item]
  BY <1>3, <1>4
<1>6. robQueue \in Seq(Item) /\ Len(robQueue) = count
  <2> HIDE DEF robQueue
  <2> QED BY <1>1, <1>5
<1> QED BY <1>4, <1>6, <1>7 DEF QueueShape

\* Also after a step.
LEMMA QueueIsSeqNext == RobTypeOK' => QueueShape'
  BY QueueIsSeq, PTL

-----------------------------------------------------------------------------
\* What the completion port makes of an outcome.
Settlement(c) == IF c.exception THEN CQ!Exception
                 ELSE CQ!Done(c.result, c.branch_mispredicted, c.branch_target)

\* A completed entry keeps its instruction and has that outcome.
LEMMA CompletedItem ==
    ASSUME NEW e \in Entry, NEW c \in Complete, c.en
    PROVE  /\ ItemOf(Completed(e, c)) = [ItemOf(e) EXCEPT !.outcome = Settlement(c)]
           /\ Settlement(c) \in CQ!Outcome
<1>1. c \in [en : {TRUE}, idx : Idx, result : Result, exception : BOOLEAN,
             branch_mispredicted : BOOLEAN, branch_target : Target]
  BY IdleOff DEF Complete
<1>2. /\ Completed(e, c).instr = e.instr
      /\ Completed(e, c).completed = TRUE
      /\ Completed(e, c).exception = c.exception
      /\ Completed(e, c).result = c.result
      /\ Completed(e, c).branch_mispredicted = c.branch_mispredicted
      /\ Completed(e, c).branch_target = c.branch_target
  BY <1>1 DEF Completed, Entry
<1>3. OutcomeOf(Completed(e, c)) = Settlement(c)
  <2>1. CASE c.exception
    BY <1>2, <2>1 DEF OutcomeOf, Settlement, CQ!Exception
  <2>2. CASE ~c.exception
    BY <1>2, <2>2 DEF OutcomeOf, Settlement, CQ!Done
  <2> QED BY <2>1, <2>2
<1>4. Settlement(c) \in CQ!Outcome
  <2>1. c.result \in Result /\ c.branch_mispredicted \in BOOLEAN /\ c.branch_target \in Target
    BY <1>1
  <2> QED BY <2>1 DEF Settlement, CQ!Outcome
<1>5. ItemOf(Completed(e, c)) = [instr |-> e.instr, outcome |-> Settlement(c)]
  BY <1>2, <1>3 DEF ItemOf
<1> QED BY <1>4, <1>5 DEF ItemOf

\* A dispatched entry is the instruction dispatched, pending or known to except.
LEMMA DispatchedItem ==
    ASSUME NEW e \in Entry, NEW d \in Dispatch, d.en
    PROVE  \E o \in {CQ!Pending, CQ!Exception} :
              ItemOf(Dispatched(e, d)) = [instr |-> d.instr, outcome |-> o] /\ d.instr \in Instr
<1>1. d \in [en : {TRUE}, instr : Instr, exception : BOOLEAN]
  BY IdleOff DEF Dispatch
<1>2. /\ Dispatched(e, d).instr = d.instr
      /\ Dispatched(e, d).completed = d.exception
      /\ Dispatched(e, d).exception = d.exception
  BY <1>1 DEF Dispatched, Entry
<1>3. OutcomeOf(Dispatched(e, d)) \in {CQ!Pending, CQ!Exception}
  <2>1. CASE d.exception
    BY <1>2, <2>1 DEF OutcomeOf, CQ!Exception
  <2>2. CASE ~d.exception
    BY <1>2, <2>2 DEF OutcomeOf, CQ!Pending
  <2> QED BY <2>1, <2>2
<1> QED BY <1>1, <1>2, <1>3 DEF ItemOf

\* An edge that commits moves every position one slot along.
LEMMA SlotNext ==
    ASSUME RobTypeOK, NEW d, NEW c, RobUpdate(d, c), NEW k \in Nat,
           NEW m, m = (IF commit_en THEN k + 1 ELSE k), m < ROB_DEPTH
    PROVE  SlotFrom(head_ptr', k) = Slot(m)
  BY EdgePointers, DepthAssumption DEF RobTypeOK, Slot, SlotFrom, Inc, Idx

\* The queue must commit exactly when the buffer does.
LEMMA CommitsTogether ==
    ASSUME RobTypeOK, RobWindow
    PROVE  CQ!MustCommit <=> commit_en
<1>1. QueueShape
  BY QueueIsSeq
<1>2. robQueue # << >> <=> count > 0
  BY <1>1, DepthAssumption, EmptySeq DEF QueueShape, RobTypeOK
<1>3. ASSUME count > 0
      PROVE  robQueue[1].outcome # CQ!Pending <=> commit_en
  <2>1. Slot(0) = head_ptr /\ head_ptr \in Idx /\ Age(head_ptr) = 0 /\ 1 \in 1 .. count
    BY <1>3, DepthAssumption DEF RobTypeOK, Slot, Age, Idx
  <2>2. robQueue[1] = ItemOf(rob_data[head_ptr])
    BY <1>1, <2>1 DEF QueueShape, Slot, SlotFrom
  <2>3. robQueue[1].outcome = OutcomeOf(rob_data[head_ptr])
    BY <2>2 DEF ItemOf
  <2>4. rob_data[head_ptr].valid
    BY <1>3, <2>1 DEF RobWindow
  <2>5. OutcomeOf(rob_data[head_ptr]) = CQ!Pending <=> ~rob_data[head_ptr].completed
    BY <2>1, OutcomeKinds DEF RobTypeOK
  <2> QED BY <1>3, <2>3, <2>4, <2>5 DEF commit_en, commit_entry
<1> QED BY <1>2, <1>3 DEF CQ!MustCommit, commit_en

\* An edge of the buffer is an edge of the queue: the completion port settles the
\* item at the position of its slot, the head leaves if it must, and what is
\* dispatched becomes the last item.
LEMMA EdgeRefines ==
    ASSUME RobTypeOK, RobWindow, RobTypeOK', NEW d \in Dispatch, NEW c \in Complete,
           RobUpdate(d, c)
    PROVE  CQ!Edge
<1> DEFINE dispatching == d.en /\ ~rob_full
           completing  == c.en /\ rob_data[c.idx].valid
           n == Age(c.idx) + 1
           s == IF completing THEN [robQueue EXCEPT ![n].outcome = Settlement(c)]
                              ELSE robQueue
           x == ItemOf(Dispatched(rob_data[tail_ptr], d))
           a == IF dispatching THEN <<x>> ELSE << >>
           t == IF commit_en THEN Tail(s) ELSE s
           next(k) == IF commit_en THEN k + 1 ELSE k
<1>1. /\ robQueue \in Seq(Item) /\ Len(robQueue) = count
      /\ \A k \in 1 .. count : robQueue[k] = ItemOf(rob_data[Slot(k - 1)])
  BY QueueIsSeq DEF QueueShape, Slot, SlotFrom
<1>2. /\ robQueue' \in Seq(Item) /\ Len(robQueue') = count'
      /\ \A k \in 1 .. count' : robQueue'[k] = ItemOf(rob_data'[SlotFrom(head_ptr', k - 1)])
  BY QueueIsSeqNext DEF QueueShape
<1>3. /\ count \in Nat /\ count <= ROB_DEPTH /\ count' \in Nat
      /\ head_ptr \in Idx /\ tail_ptr \in Idx
      /\ \A i \in Idx : rob_data[i] \in Entry
  BY DepthAssumption DEF RobTypeOK
<1>4. c.en => c.idx \in Idx
  BY IdleOff DEF Complete
<1>5. /\ commit_en => count > 0
      /\ dispatching => count < ROB_DEPTH
      /\ count' = (IF commit_en THEN count - 1 ELSE count) + (IF dispatching THEN 1 ELSE 0)
  <2>1. /\ dispatching /\ ~commit_en => count' = count + 1
        /\ ~dispatching /\ commit_en => count' = count - 1
        /\ (dispatching <=> commit_en) => count' = count
        /\ commit_en => count > 0
        /\ dispatching => count < ROB_DEPTH
    BY EdgePointers
  <2> QED BY <1>3, <2>1
<1>6. completing => /\ n \in 1 .. count
                    /\ \A k \in 1 .. count : k = n <=> Slot(k - 1) = c.idx
  <2>1. ASSUME completing PROVE n \in 1 .. count
    BY <2>1, <1>3, <1>4, SlotAge DEF RobWindow
  <2>2. ASSUME completing, NEW k \in 1 .. count
        PROVE  k = n <=> Slot(k - 1) = c.idx
    <3>1. k - 1 \in 0 .. ROB_DEPTH - 1
      BY <2>2, <1>3, DepthAssumption
    <3>2. /\ Age(Slot(k - 1)) = k - 1
          /\ Slot(Age(c.idx)) = c.idx /\ Age(c.idx) \in 0 .. ROB_DEPTH - 1
      BY <3>1, <2>2, <1>4, SlotAge
    <3> QED BY <3>1, <3>2
  <2> QED BY <2>1, <2>2
<1>7. s \in CQ!Settled
  <2>1. completing => Settlement(c) \in CQ!Outcome
    BY <1>3, CompletedItem
  <2>2. ASSUME completing PROVE s \in CQ!Settled
    <3> DEFINE o == Settlement(c)
    <3>1. o \in CQ!Outcome /\ n \in 1 .. Len(robQueue)
      BY <2>1, <2>2, <1>1, <1>6
    <3>2. s = CQ!SettledAt(n, o)
      BY <2>2 DEF CQ!SettledAt
    <3> HIDE DEF o, n, s
    <3> QED BY <3>1, <3>2 DEF CQ!Settled
  <2>3. ASSUME ~completing PROVE s \in CQ!Settled
    BY <2>3 DEF CQ!Settled
  <2> QED BY <2>2, <2>3
<1>8. a \in CQ!Arrivals
  <2>1. ASSUME dispatching
        PROVE  \E o \in {CQ!Pending, CQ!Exception} :
                  x = [instr |-> d.instr, outcome |-> o] /\ d.instr \in Instr
    BY <2>1, <1>3, DispatchedItem
  <2>2. dispatching => Len(robQueue) # ROB_DEPTH
    BY <1>1 DEF rob_full
  <2> HIDE DEF x
  <2> QED BY <2>1, <2>2 DEF CQ!Arrivals
<1> HIDE DEF dispatching, x
<1>9. /\ s \in Seq(Item) /\ Len(s) = count
      /\ \A k \in 1 .. count : s[k] = IF completing /\ k = n
                                         THEN [robQueue[k] EXCEPT !.outcome = Settlement(c)]
                                         ELSE robQueue[k]
  <2>1. CASE completing
    <3> DEFINE y == [robQueue[n] EXCEPT !.outcome = Settlement(c)]
    <3>1. y \in Item
      <4>1. robQueue[n] \in Item /\ Settlement(c) \in CQ!Outcome
        BY <2>1, <1>1, <1>3, <1>6, CompletedItem, ElementOfSeq
      <4> QED BY <4>1 DEF Item
    <3>2. s = [robQueue EXCEPT ![n] = y]
      BY <2>1
    <3> HIDE DEF y, s
    <3>3. /\ s \in Seq(Item) /\ Len(s) = count
          /\ \A k \in 1 .. count : s[k] = IF k = n THEN y ELSE robQueue[k]
      BY <3>1, <3>2, <2>1, <1>1, <1>6, ExceptSeq
    <3> QED BY <3>3, <2>1 DEF y
  <2>2. CASE ~completing
    BY <2>2, <1>1
  <2> QED BY <2>1, <2>2
<1>10. ASSUME NEW k \in 1 .. count, commit_en => k > 1
       PROVE  s[k] = ItemOf(rob_data'[Slot(k - 1)])
  <2> DEFINE i == Slot(k - 1)
  <2>1. i \in Idx /\ Age(i) = k - 1
    BY <1>3, SlotAge, DepthAssumption
  <2>2. rob_data[i].valid /\ ~(commit_en /\ i = head_ptr)
    BY <2>1, <1>3, <1>10 DEF RobWindow, Age, Idx
  <2>3. ~(d.en /\ ~rob_full /\ i = tail_ptr)
    BY <2>2, PortsApart
  <2>4. rob_data'[i] = IF c.en /\ i = c.idx /\ rob_data[i].valid
                         THEN Completed(rob_data[i], c) ELSE rob_data[i]
    BY <2>1, <2>2, <2>3, EdgeWhole
  <2>5. robQueue[k] = ItemOf(rob_data[i])
    BY <1>1
  <2>6. completing /\ k = n <=> c.en /\ i = c.idx
    BY <2>2, <1>6
  <2> HIDE DEF i, completing, n, s
  <2>7. CASE c.en /\ i = c.idx
    <3>1. ItemOf(Completed(rob_data[i], c)) = [ItemOf(rob_data[i]) EXCEPT !.outcome = Settlement(c)]
      BY <2>1, <2>7, <1>3, CompletedItem
    <3> QED BY <3>1, <2>2, <2>4, <2>5, <2>6, <2>7, <1>9 DEF i
  <2>8. CASE ~(c.en /\ i = c.idx)
    BY <2>4, <2>5, <2>6, <2>8, <1>9 DEF i
  <2> QED BY <2>7, <2>8
<1> HIDE DEF s, completing, n
<1>11. /\ t \in Seq(Item) /\ Len(t) = IF commit_en THEN count - 1 ELSE count
       /\ \A k \in 1 .. Len(t) : t[k] = s[next(k)]
  <2>1. CASE commit_en
    <3>1. s # << >>
      BY <2>1, <1>5, <1>9, EmptySeq
    <3> QED BY <2>1, <3>1, <1>9, HeadTailProperties
  <2>2. CASE ~commit_en
    BY <2>2, <1>9
  <2> QED BY <2>1, <2>2
<1>12. ASSUME NEW k \in 1 .. Len(t) PROVE robQueue'[k] = t[k]
  <2>1. next(k) \in 1 .. count /\ (commit_en => next(k) > 1) /\ next(k - 1) = next(k) - 1
    BY <1>3, <1>5, <1>11
  <2>2. k \in 1 .. count'
    BY <1>3, <1>5, <1>11
  <2>3. SlotFrom(head_ptr', k - 1) = Slot(next(k - 1))
    <3> DEFINE m == next(k - 1)
    <3>1. k - 1 \in Nat /\ m < ROB_DEPTH
      <4>1. m = next(k) - 1 /\ next(k) \in 1 .. count /\ k - 1 \in Nat
        BY <2>1, <2>2
      <4>2. count \in Nat /\ count <= ROB_DEPTH /\ ROB_DEPTH \in Nat
        BY <1>3, DepthAssumption
      <4> HIDE DEF m, next
      <4> QED BY <4>1, <4>2
    <3>2. m = (IF commit_en THEN (k - 1) + 1 ELSE k - 1)
      OBVIOUS
    <3> HIDE DEF m
    <3> QED BY <3>1, <3>2, SlotNext DEF m
  <2>4. s[next(k)] = ItemOf(rob_data'[Slot(next(k) - 1)])
    BY <2>1, <1>10
  <2> HIDE DEF next
  <2> QED BY <2>1, <2>2, <2>3, <2>4, <1>2, <1>11
<1>13. ASSUME dispatching PROVE count' \in 1 .. count' /\ robQueue'[count'] = x
  <2>1. count' \in 1 .. count' /\ next(count' - 1) = count /\ count < ROB_DEPTH
    BY <1>3, <1>5, <1>13
  <2>2. SlotFrom(head_ptr', count' - 1) = Slot(count)
    <3> DEFINE k == count' - 1
    <3>1. k \in Nat /\ count < ROB_DEPTH
      <4>1. k \in Nat
        BY <2>1
      <4> QED BY <2>1, <4>1
    <3>2. count = (IF commit_en THEN k + 1 ELSE k)
      BY <2>1
    <3> HIDE DEF k
    <3> QED BY <3>1, <3>2, SlotNext DEF k
  <2>3. Slot(count) = tail_ptr
    BY <2>1, <1>3 DEF RobWindow
  <2>4. ~(commit_en /\ tail_ptr = head_ptr)
    BY <1>13, PortsApart DEF dispatching
  <2>5. rob_data'[tail_ptr] = Dispatched(rob_data[tail_ptr], d)
    BY <1>13, <2>4, <1>3, EdgeWhole DEF dispatching
  <2> HIDE DEF next
  <2> QED BY <2>1, <2>2, <2>3, <2>5, <1>2 DEF x
<1>14. /\ a \in Seq(Item) /\ Len(a) = IF dispatching THEN 1 ELSE 0
       /\ dispatching => a[1] = x
  <2>1. dispatching => x \in Item
    BY <1>13, <1>2, ElementOfSeq
  <2> QED BY <2>1
<1> HIDE DEF a, t
<1>15. /\ t \o a \in Seq(Item) /\ Len(t \o a) = Len(t) + Len(a)
       /\ \A k \in 1 .. Len(t) + Len(a) :
             (t \o a)[k] = IF k <= Len(t) THEN t[k] ELSE a[k - Len(t)]
  BY <1>11, <1>14, ConcatProperties
<1>16. robQueue' = t \o a
  <2>1. Len(robQueue') = Len(t \o a)
    BY <1>2, <1>5, <1>11, <1>14, <1>15
  <2>2. ASSUME NEW k \in 1 .. Len(robQueue') PROVE robQueue'[k] = (t \o a)[k]
    <3>1. k \in 1 .. Len(t) + Len(a) /\ Len(t) \in Nat
      BY <2>1, <1>3, <1>5, <1>11, <1>15
    <3>2. CASE k <= Len(t)
      BY <3>1, <3>2, <1>12, <1>15
    <3>3. CASE ~(k <= Len(t))
      <4>1. dispatching /\ k = count' /\ k - Len(t) = 1
        BY <3>1, <3>3, <1>3, <1>5, <1>11, <1>14
      <4> QED BY <4>1, <3>1, <3>3, <1>13, <1>14, <1>15
    <3> QED BY <3>2, <3>3
  <2> QED BY <2>1, <2>2, <1>2, <1>15, SeqEqual
<1>17. t = IF CQ!MustCommit THEN Tail(s) ELSE s
  BY CommitsTogether DEF t
<1> QED BY <1>7, <1>8, <1>16, <1>17 DEF CQ!Edge

\* An empty buffer is an empty queue.
LEMMA EmptyQueue == RobTypeOK /\ count = 0 => robQueue = << >>
  BY QueueIsSeq, EmptySeq DEF QueueShape

\* Also after a step.
LEMMA EmptyQueueNext == RobTypeOK' /\ count' = 0 => robQueue' = << >>
  BY QueueIsSeqNext, EmptySeq DEF QueueShape

\* The reorder buffer, with its pointers, wrap and valid bits, behaves as the
\* bounded in-order queue that the rest of the core takes it for: whatever the
\* ports do, no instruction is lost, duplicated or reordered, each leaves at the
\* first edge at which it is the oldest and has its outcome, and it leaves with the
\* outcome it was given (rob.sv:101-153).
THEOREM RobImplementsCommitQueue == RobSpec => ImplementsCommitQueue
<1>1. RobInit => CQ!Init
  <2> SUFFICES ASSUME RobInit PROVE CQ!Init
    OBVIOUS
  <2>1. RobTypeOK /\ count = 0
    BY DepthAssumption DEF RobInit, RobTypeOK, Entry, Idx
  <2> QED BY <2>1, EmptyQueue DEF CQ!Init
<1>2. RobTypeOK /\ RobWindow /\ RobTypeOK' /\ [RobNext]_robVars => [CQ!Next]_robQueue
  <2> SUFFICES ASSUME RobTypeOK, RobWindow, RobTypeOK', [RobNext]_robVars
               PROVE  [CQ!Next]_robQueue
    OBVIOUS
  <2>1. CASE RobFlush
    BY <2>1, EmptyQueueNext DEF RobFlush, CQ!Next, CQ!Flush
  <2>2. ASSUME NEW d \in Dispatch, NEW c \in Complete, RobUpdate(d, c) PROVE CQ!Next
    BY <2>2, EdgeRefines DEF CQ!Next
  <2>3. CASE UNCHANGED robVars
    BY <2>3 DEF robVars, robQueue, Slot
  <2> QED BY <2>1, <2>2, <2>3 DEF RobNext
<1> QED BY <1>1, <1>2, RobTyping, RobWindowTheorem, PTL DEF RobSpec, ImplementsCommitQueue, CQ!Spec
=============================================================================
