------------------------ MODULE OverlayTool_proofs ------------------------
(***************************************************************************)
(* What fdtoverlay makes of trees and overlays that dtc wrote (see         *)
(* FilesAssumption), for any files, any number of overlays and any buffer. *)
(* Each pass of fdt_overlay_apply gets a lemma that says what it leaves    *)
(* behind when it succeeds; the invariant says, for each point of the      *)
(* program, which of them hold.                                            *)
(***************************************************************************)
EXTENDS OverlayTool, FiniteSetTheorems, SequenceTheorems, TLAPS

-----------------------------------------------------------------------------
(***************************************************************************)
(* Words, phandles and paths.                                              *)
(***************************************************************************)
\* A set of natural numbers has a least element.
LEMMA Least ==
    ASSUME NEW S \in SUBSET Nat, S # {}
    PROVE  \E m \in S : \A y \in S : m <= y
  <1> DEFINE R == OpToRel(<, Nat)
  <1>1. IsWellFoundedOn(R, Nat)
    BY NatLessThanWellFounded
  <1>2. \A y, m \in Nat : y < m => <<y, m>> \in R
    BY DEF OpToRel
  <1> HIDE DEF R
  <1>3. PICK m \in S : \A y \in S : ~(<<y, m>> \in R)
    BY <1>1, WFMin
  <1>4. m \in Nat /\ \A y \in S : y \in Nat
    OBVIOUS
  <1>5. \A y \in S : ~(y < m)
    BY <1>2, <1>3, <1>4, Zenon
  <1>6. \A y \in S : m <= y
    BY <1>4, <1>5
  <1> QED BY <1>6

\* An element of a sequence.
LEMMA ElementIn == ASSUME NEW T, NEW s \in Seq(T), NEW i \in 1..Len(s) PROVE s[i] \in T
  OBVIOUS

\* Words are numbers below W.
LEMMA WordRange == W \in Nat /\ W > 1 /\ 0 \in 0..(W - 1)
  BY FilesAssumption

\* A set of words with 0 in it has a maximum.
LEMMA MaxWord ==
    ASSUME NEW S \in SUBSET (0..(W - 1)), 0 \in S
    PROVE  Max(S) \in S /\ \A y \in S : y <= Max(S)
  <1> DEFINE T == {W - 1 - x : x \in S}
  <1>1. T \in SUBSET Nat /\ W - 1 \in T
    BY WordRange
  <1>2. PICK m \in T : \A y \in T : m <= y
    BY <1>1, Least
  <1>3. PICK x \in S : m = W - 1 - x
    BY <1>2
  <1>4. \A y \in S : W - 1 - y \in T
    OBVIOUS
  <1>5. \E x0 \in S : \A y \in S : x0 >= y
    <2>1. ASSUME NEW y \in S PROVE x >= y
      <3>1. m <= W - 1 - y
        BY <1>2, <1>4
      <3>2. x \in Int /\ y \in Int /\ W \in Int
        BY WordRange
      <3> QED BY <3>1, <3>2, <1>3
    <2> QED BY <2>1, <1>3
  <1>6. Max(S) \in S /\ \A y \in S : Max(S) >= y
    BY <1>5, Zenon DEF Max
  <1> QED BY <1>6

\* A phandle is a word, 0 for a node that has none.
LEMMA GetPhandle ==
    ASSUME NEW t, NEW p, IsTree(t)
    PROVE  get_phandle(t, p) \in 0..(W - 1) /\ (p \notin DOMAIN t => get_phandle(t, p) = 0)
  <1>1. \A name : HasProp(t, p, name) => t[p][name].cells \in Seq(0..(W - 1))
    BY DEF IsTree, HasProp, ValueSet
  <1>2. \A name : HasProp(t, p, name) /\ Len(t[p][name].cells) = 1
                  => t[p][name].cells[1] \in 0..(W - 1)
    <2> SUFFICES ASSUME NEW name, HasProp(t, p, name), Len(t[p][name].cells) = 1
                 PROVE  t[p][name].cells[1] \in 0..(W - 1)
      OBVIOUS
    <2>1. t[p][name].cells \in Seq(0..(W - 1)) /\ 1 \in 1..Len(t[p][name].cells)
      BY <1>1
    <2> QED BY <2>1, ElementIn
  <1> QED BY <1>2, WordRange DEF get_phandle, HasProp

\* find_max_phandle is a word, and no phandle of the tree is above it.
LEMMA MaxPhandle ==
    ASSUME NEW t, IsTree(t)
    PROVE  /\ find_max_phandle(t) \in 0..(W - 1)
           /\ \A p \in DOMAIN t : get_phandle(t, p) <= find_max_phandle(t)
  <1> DEFINE S == {0} \cup {get_phandle(t, p) : p \in DOMAIN t}
  <1>1. S \in SUBSET (0..(W - 1)) /\ 0 \in S
    BY GetPhandle, WordRange
  <1>2. Max(S) \in S /\ \A y \in S : y <= Max(S)
    BY <1>1, MaxWord
  <1>3. find_max_phandle(t) = Max(S)
    BY DEF find_max_phandle
  <1> HIDE DEF S
  <1>4. \A p \in DOMAIN t : get_phandle(t, p) \in S
    BY DEF S
  <1> QED BY <1>1, <1>2, <1>3, <1>4

LEMMA OverlayPath ==
    ASSUME NEW p \in Seq(STRING), NEW frag \in STRING
    PROVE  IsPrefix(<<frag, "__overlay__">>, p)
             <=> Len(p) >= 2 /\ p[1] = frag /\ p[2] = "__overlay__"
  <1> DEFINE fr == <<frag, "__overlay__">>
  <1>1. CASE Len(p) >= 2
    <2>1. Len(fr) = 2 /\ fr[1] = frag /\ fr[2] = "__overlay__"
      OBVIOUS
    <2> DEFINE S == STRING \cup {"__overlay__"}
    <2>0. \A i \in 1..2 : fr[i] \in S /\ p[i] \in S
      <3>1. \A i \in 1..2 : i = 1 \/ i = 2
        OBVIOUS
      <3>2. p[1] \in STRING /\ p[2] \in STRING
        BY <1>1
      <3> QED BY <2>1, <3>1, <3>2
    <2> HIDE DEF fr, S
    <2>2. SubSeq(fr, 1, 2) \in Seq(S) /\ SubSeq(p, 1, 2) \in Seq(S)
      BY <2>0, SubSeqProperties
    <2>3. /\ Len(SubSeq(fr, 1, 2)) = 2 /\ Len(SubSeq(p, 1, 2)) = 2
          /\ SubSeq(fr, 1, 2)[1] = fr[1] /\ SubSeq(fr, 1, 2)[2] = fr[2]
          /\ SubSeq(p, 1, 2)[1] = p[1] /\ SubSeq(p, 1, 2)[2] = p[2]
      BY <2>0, SubSeqProperties
    <2>4. SubSeq(fr, 1, 2) = SubSeq(p, 1, 2) <=> p[1] = fr[1] /\ p[2] = fr[2]
      BY <2>2, <2>3, SeqEqual
    <2> QED BY <1>1, <2>1, <2>4 DEF IsPrefix, fr
  <1>2. CASE ~(Len(p) >= 2)
    BY <1>2 DEF IsPrefix
  <1> QED BY <1>1, <1>2

\* What is left of a path from its third name on.
LEMMA Rest ==
    ASSUME NEW p \in Seq(STRING), Len(p) >= 2
    PROVE  /\ SubSeq(p, 3, Len(p)) \in Seq(STRING)
           /\ Len(SubSeq(p, 3, Len(p))) = Len(p) - 2
           /\ \A i \in 1..(Len(p) - 2) : SubSeq(p, 3, Len(p))[i] = p[i + 2]
  <1>1. \A i \in 3..Len(p) : p[i] \in STRING
    OBVIOUS
  <1>2. PICK n \in Int : n = Len(p)
    OBVIOUS
  <1>a. 3 \in Int /\ \A i \in 3..n : p[i] \in STRING
    BY <1>1, <1>2
  <1>3. /\ SubSeq(p, 3, n) \in Seq(STRING)
        /\ Len(SubSeq(p, 3, n)) = IF 3 <= n THEN n - 3 + 1 ELSE 0
        /\ \A i \in 1..(n - 3 + 1) : SubSeq(p, 3, n)[i] = p[3 + i - 1]
    BY <1>a, SubSeqProperties, SMTT(20)
  <1>4. n >= 2 /\ \A i \in 1..(n - 2) : i \in 1..(n - 3 + 1) /\ 3 + i - 1 = i + 2
    BY <1>2
  <1>5. Len(SubSeq(p, 3, n)) = n - 2
    BY <1>3, <1>4
  <1>6. \A i \in 1..(n - 2) : SubSeq(p, 3, n)[i] = p[i + 2]
    BY <1>3, <1>4
  <1> QED BY <1>2, <1>3, <1>5, <1>6

\* Paths below the same node that end the same way are the same.
LEMMA Cancel ==
    ASSUME NEW S, NEW t \in Seq(S), NEW p \in Seq(S), NEW q \in Seq(S), t \o p = t \o q
    PROVE  p = q
  OBVIOUS

\* Two nodes of one fragment are merged to two nodes.
LEMMA SamePath ==
    ASSUME NEW p \in Seq(STRING), NEW q \in Seq(STRING), NEW t \in Seq(STRING),
           Len(p) >= 2, Len(q) >= 2, p[1] = q[1], p[2] = q[2],
           t \o SubSeq(p, 3, Len(p)) = t \o SubSeq(q, 3, Len(q))
    PROVE  p = q
  <1>1. SubSeq(p, 3, Len(p)) = SubSeq(q, 3, Len(q))
    BY Rest, Cancel
  <1>5. Len(p) = Len(q)
    <2>1. Len(p) - 2 = Len(q) - 2
      BY <1>1, Rest
    <2> QED BY <2>1
  <1>6. \A i \in 1..Len(p) : p[i] = q[i]
    <2> SUFFICES ASSUME NEW i \in 1..Len(p) PROVE p[i] = q[i]
      OBVIOUS
    <2>1. CASE i > 2
      <3>1. i - 2 \in 1..(Len(p) - 2) /\ i - 2 \in 1..(Len(q) - 2) /\ i - 2 + 2 = i
        BY <2>1, <1>5
      <3>2. SubSeq(p, 3, Len(p))[i - 2] = p[i] /\ SubSeq(q, 3, Len(q))[i - 2] = q[i]
        BY <3>1, Rest
      <3> QED BY <3>2, <1>1
    <2>2. CASE i = 1
      BY <2>2
    <2>3. CASE i = 2
      BY <2>3
    <2> QED BY <2>1, <2>2, <2>3
  <1> QED BY <1>5, <1>6, SeqEqual

-----------------------------------------------------------------------------
(***************************************************************************)
(* The phandles of the overlay are moved above those of the base.          *)
(***************************************************************************)
\* Phandles are single cells, and neither 0 nor -1.
Singles(t) ==
    \A p \in DOMAIN t : \A name \in Phandles \cap DOMAIN t[p] :
        Len(t[p][name].cells) = 1 /\ t[p][name].cells[1] \in 1..(W - 2)
\* A tree that an overlay may be applied to.
GoodBase(t) == IsTree(t) /\ Singles(t) /\ UniquePhandles(t)

\* What the passes over an overlay o leave alone.
Alike(t, o) ==
    /\ IsTree(t) /\ DOMAIN t = DOMAIN o
    /\ \A p \in DOMAIN o :
         /\ DOMAIN t[p] = DOMAIN o[p]
         /\ \A name \in DOMAIN o[p] :
              /\ Len(t[p][name].cells) = Len(o[p][name].cells)
              /\ name \notin Phandles => /\ t[p][name].path = o[p][name].path
                                         /\ t[p][name].places = o[p][name].places

\* Its phandles are moved by d.
Moved(t, o, d) ==
    \A p \in DOMAIN o : \A name \in Phandles \cap DOMAIN o[p] :
        /\ t[p][name].cells[1] = o[p][name].cells[1] + d
        /\ t[p][name].cells[1] < W - 1

\* The other properties.
Others(t, o) ==
    \A p \in DOMAIN o : \A name \in DOMAIN o[p] : name \notin Phandles => t[p][name] = o[p][name]

\* A pass that succeeds met no place at fault.
LEMMA OutcomeOk ==
    ASSUME NEW errs, NEW t, 0 \notin errs, Outcome(errs, t).err = 0
    PROVE  errs = {} /\ Outcome(errs, t).t = t
  <1>1. CASE errs = {}
    BY <1>1 DEF Outcome, Ok
  <1>2. CASE errs # {}
    <2>1. (CHOOSE e \in errs : TRUE) \in errs
      BY <1>2
    <2>2. Outcome(errs, t).err = CHOOSE e \in errs : TRUE
      BY <1>2 DEF Outcome, Err
    <2> QED BY <2>1, <2>2
  <1> QED BY <1>1, <1>2

\* The error codes among what g computes for the places A.
Faults(A, g) == {g[x] : x \in {y \in A : g[y] < 0}}
\* No error code is 0, and without one every place got a value.
LEMMA NoFaults ==
    ASSUME NEW A, NEW g
    PROVE  0 \notin Faults(A, g) /\ (Faults(A, g) = {} => \A x \in A : ~(g[x] < 0))
  <1>1. ~(0 < 0)
    OBVIOUS
  <1>2. 0 \notin Faults(A, g)
    BY <1>1, Zenon DEF Faults
  <1>3. ASSUME NEW x \in A, g[x] < 0 PROVE Faults(A, g) # {}
    BY <1>3, Zenon DEF Faults
  <1> QED BY <1>2, <1>3

\* A value of one cell.
LEMMA CellsValue ==
    ASSUME NEW v \in 0..(W - 1)
    PROVE  /\ Cells(<<v>>) \in ValueSet
           /\ Cells(<<v>>).cells[1] = v /\ Len(Cells(<<v>>).cells) = 1
  <1>1. <<v>> \in Seq(0..(W - 1)) /\ Len(<<v>>) = 1 /\ <<v>>[1] = v
    OBVIOUS
  <1>2. <<>> \in Seq(STRING) /\ <<>> \in Seq(PlaceSet)
    OBVIOUS
  <1> QED BY <1>1, <1>2 DEF Cells, ValueSet

\* overlay_adjust_local_phandles moves the phandles and nothing else.
LEMMA AdjustRight ==
    ASSUME NEW o, NEW d \in 0..(W - 1), IsTree(o), CheckedPhandles(o),
           NEW r, r = overlay_adjust_local_phandles(o, d), r.err = 0
    PROVE  Alike(r.t, o) /\ Moved(r.t, o, d) /\ Others(r.t, o)
  <1> DEFINE at == {pn \in (DOMAIN o) \X {"phandle", "linux,phandle"} : pn[2] \in DOMAIN o[pn[1]]}
             new == [pn \in at |-> overlay_phandle_add_offset(o[pn[1]][pn[2]].cells, d)]
             errs == Faults(at, new)
             res == [p \in DOMAIN o |-> [name \in DOMAIN o[p] |->
                       IF <<p, name>> \in at THEN Cells(<<new[<<p, name>>]>>) ELSE o[p][name]]]
  <1>1. r = Outcome(errs, res)
    BY DEF overlay_adjust_local_phandles, Faults
  <1>2. 0 \notin errs
    BY NoFaults
  <1>3. \A p \in DOMAIN o : \A name \in DOMAIN o[p] :
            <<p, name>> \in at <=> name \in Phandles
    BY DEF Phandles
  <1>4. \A p \in DOMAIN o : \A name \in Phandles \cap DOMAIN o[p] :
            new[<<p, name>>] = overlay_phandle_add_offset(o[p][name].cells, d)
    BY <1>3
  <1>5. \A p \in DOMAIN o : \A name \in DOMAIN o[p] :
            res[p][name] = IF name \in Phandles THEN Cells(<<new[<<p, name>>]>>) ELSE o[p][name]
    BY <1>3
  <1>6. DOMAIN res = DOMAIN o /\ \A p \in DOMAIN o : DOMAIN res[p] = DOMAIN o[p]
    OBVIOUS
  <1>7. errs = {} => \A pn \in at : ~(new[pn] < 0)
    BY NoFaults
  <1> HIDE DEF at, new, errs, res
  <1>8. errs = {} /\ r.t = res
    BY <1>1, <1>2, OutcomeOk
  <1>9. ASSUME NEW p \in DOMAIN o, NEW name \in Phandles \cap DOMAIN o[p]
        PROVE  /\ new[<<p, name>>] = o[p][name].cells[1] + d
               /\ new[<<p, name>>] \in 0..(W - 2) /\ Len(o[p][name].cells) = 1
    <2>1. ~(new[<<p, name>>] < 0)
      BY <1>3, <1>7, <1>8
    <2>2. Len(o[p][name].cells) = 1 /\ o[p][name].cells[1] \in 1..(W - 2)
      BY DEF CheckedPhandles
    <2>3. new[<<p, name>>] = overlay_phandle_add_offset(o[p][name].cells, d)
      BY <1>4
    <2> QED BY <2>1, <2>2, <2>3, WordRange DEF overlay_phandle_add_offset, NOPHANDLES
  <1>10. ASSUME NEW p \in DOMAIN o, NEW name \in Phandles \cap DOMAIN o[p]
         PROVE  /\ res[p][name] \in ValueSet /\ Len(res[p][name].cells) = Len(o[p][name].cells)
                /\ res[p][name].cells[1] = o[p][name].cells[1] + d
                /\ res[p][name].cells[1] < W - 1
    <2>1. PICK v \in 0..(W - 2) : v = new[<<p, name>>]
      BY <1>9
    <2>2. v \in 0..(W - 1) /\ v < W - 1
      BY WordRange
    <2>3. res[p][name] = Cells(<<v>>)
      BY <1>5, <2>1
    <2> QED BY <1>9, <2>1, <2>2, <2>3, CellsValue
  <1>11. \A p \in DOMAIN o : \A name \in DOMAIN o[p] : name \notin Phandles => res[p][name] = o[p][name]
    BY <1>5
  <1>12. IsTree(res)
    BY <1>6, <1>10, <1>11 DEF IsTree
  <1>13. Alike(res, o)
    BY <1>6, <1>10, <1>11, <1>12 DEF Alike
  <1>14. Moved(res, o, d)
    BY <1>10 DEF Moved
  <1>15. Others(res, o)
    BY <1>11 DEF Others
  <1> QED BY <1>8, <1>13, <1>14, <1>15

-----------------------------------------------------------------------------
(***************************************************************************)
(* The cells of the overlay that refer to its own nodes are moved along.   *)
(***************************************************************************)
\* The cells that __fixups__ names.
InLabel(o, p, name, i) ==
    \E label \in DOMAIN Fixups(o) : Place(p, name, i - 1) \in LabelPlaces(o, label)

\* A word is itself modulo W.
LEMMA ModWord == ASSUME NEW x \in 0..(W - 1) PROVE x % W = x
  <1>1. \A w \in Nat : \A y \in 0..(w - 1) : w > 0 => y % w = y
    OBVIOUS
  <1> QED BY <1>1, WordRange

\* A number modulo W is a word.
LEMMA ModIsWord == ASSUME NEW x \in Nat PROVE x % W \in 0..(W - 1)
  BY WordRange

\* A new list of cells, as long as the old one.
LEMMA NewCells ==
    ASSUME NEW v \in ValueSet, NEW g, g = [i \in DOMAIN v.cells |-> g[i]],
           \A i \in 1..Len(v.cells) : g[i] \in 0..(W - 1)
    PROVE  LET u == [v EXCEPT !.cells = g]
           IN  /\ u \in ValueSet /\ Len(u.cells) = Len(v.cells) /\ u.cells = g
               /\ u.path = v.path /\ u.places = v.places
  <1> DEFINE n == Len(v.cells)
  <1>1. v.cells \in Seq(0..(W - 1))
    BY DEF ValueSet
  <1>2. n \in Nat /\ DOMAIN v.cells = 1..n
    BY <1>1, LenProperties
  <1>3. g \in [1..n -> 0..(W - 1)]
    BY <1>2
  <1>4. g \in Seq(0..(W - 1))
    BY <1>2, <1>3, SeqDef
  <1>5. Len(g) = n
    BY <1>2, <1>3, <1>4, LenProperties
  <1> QED BY <1>4, <1>5 DEF ValueSet

\* The path of a node inside __local_fixups__, and back.
LEMMA LocalPrefix ==
    ASSUME NEW p \in Seq(STRING)
    PROVE  IsPrefix(LocalPath(<<>>), LocalPath(p)) /\ Tail(LocalPath(p)) = p
  <1> DEFINE S == STRING \cup {"__local_fixups__"}
             x == <<"__local_fixups__">>
  <1>1. x \in Seq(S) /\ Len(x) = 1 /\ x[1] = "__local_fixups__"
    OBVIOUS
  <1>2. p \in Seq(S)
    BY SeqMonotonic
  <1> HIDE DEF x, S
  <1>0. PICK y : y = x \o p
    OBVIOUS
  <1>3. /\ y \in Seq(S) /\ Len(y) = Len(p) + 1 /\ y[1] = x[1]
        /\ \A i \in 1..Len(p) : y[i + 1] = p[i]
    <2>1. y \in Seq(S) /\ Len(y) = Len(x) + Len(p)
      BY <1>0, <1>1, <1>2, ConcatProperties
    <2>2. \A i \in 1..(Len(x) + Len(p)) : y[i] = IF i <= Len(x) THEN x[i] ELSE p[i - Len(x)]
      BY <1>0, <1>1, <1>2, ConcatProperties
    <2>3. Len(p) \in Nat
      BY <1>2, LenProperties
    <2>4. 1 \in 1..(1 + Len(p)) /\ 1 <= 1
      BY <2>3
    <2>5. \A i \in 1..Len(p) : i + 1 \in 1..(1 + Len(p)) /\ ~(i + 1 <= 1) /\ i + 1 - 1 = i
      BY <2>3
    <2> QED BY <1>1, <2>1, <2>2, <2>3, <2>4, <2>5
  <1>4. x \o <<>> = x
    BY <1>1, ConcatEmptySeq
  <1>5. SubSeq(x, 1, 1) = SubSeq(y, 1, 1)
    <2>1. \A i \in 1..1 : x[i] \in S /\ y[i] \in S
      BY <1>1, <1>3
    <2>2. /\ SubSeq(x, 1, 1) \in Seq(S) /\ Len(SubSeq(x, 1, 1)) = 1
          /\ SubSeq(x, 1, 1)[1] = x[1]
      BY <2>1, SubSeqProperties
    <2>3. /\ SubSeq(y, 1, 1) \in Seq(S) /\ Len(SubSeq(y, 1, 1)) = 1
          /\ SubSeq(y, 1, 1)[1] = y[1]
      BY <2>1, SubSeqProperties
    <2> QED BY <1>3, <2>2, <2>3, SeqEqual
  <1>6. IsPrefix(x, y)
    <2>1. Len(x) <= Len(y)
      BY <1>1, <1>2, <1>3, LenProperties
    <2> QED BY <1>1, <2>1, <1>5 DEF IsPrefix
  <1>7. Tail(y) = p
    <2>1. y # <<>>
      BY <1>1, <1>2, <1>3
    <2>2. /\ Tail(y) \in Seq(S) /\ Len(Tail(y)) = Len(y) - 1
          /\ \A i \in 1..Len(Tail(y)) : Tail(y)[i] = y[i + 1]
      BY <1>3, <2>1, HeadTailProperties
    <2>3. Len(Tail(y)) = Len(p)
      BY <1>2, <1>3, <2>2
    <2> QED BY <1>2, <1>3, <2>2, <2>3, SeqEqual
  <1> QED BY <1>0, <1>4, <1>6, <1>7 DEF LocalPath, x

\* How often __local_fixups__ names a cell.
Times(t, p, name, i) ==
    LET offs == IF HasProp(t, LocalPath(p), name) THEN t[LocalPath(p)][name].cells ELSE <<>>
    IN  Cardinality({j \in DOMAIN offs : offs[j] = i - 1})

\* __local_fixups__ names a cell once or not at all, and never a phandle.
LEMMA TimesOnce ==
    ASSUME NEW o, NEW t, IsTree(o), LocalFixupsApart(o), Alike(t, o), Others(t, o),
           NEW p \in Seq(STRING), NEW name, NEW i \in Nat
    PROVE  /\ LocalAt(o, p, name, i) => Times(t, p, name, i) = 1
           /\ ~LocalAt(o, p, name, i) => Times(t, p, name, i) = 0
           /\ LocalAt(o, p, name, i) => name \notin Phandles
  <1> DEFINE q == LocalPath(p)
             c == o[q][name].cells
  <1>1. HasProp(t, q, name) <=> HasProp(o, q, name)
    BY DEF Alike, HasProp
  <1>2. CASE HasProp(o, q, name)
    <2>1. /\ name \notin Phandles
          /\ \A m, n \in DOMAIN c : c[m] = c[n] => m = n
      BY <1>2, LocalPrefix DEF LocalFixupsApart, HasProp
    <2>2. t[q][name] = o[q][name]
      BY <1>2, <2>1 DEF Others, HasProp
    <2>3. Times(t, p, name, i) = Cardinality({j \in DOMAIN c : c[j] = i - 1})
      BY <1>1, <1>2, <2>2 DEF Times
    <2>4. LocalAt(o, p, name, i) <=> \E j \in DOMAIN c : c[j] = i - 1
      BY <1>2 DEF LocalAt, ToSet
    <2> HIDE DEF c
    <2>5. ASSUME NEW j \in DOMAIN c, c[j] = i - 1 PROVE Times(t, p, name, i) = 1
      <3>1. {m \in DOMAIN c : c[m] = i - 1} = {j}
        BY <2>1, <2>5
      <3> QED BY <2>3, <3>1, FS_Singleton
    <2>6. ASSUME ~\E j \in DOMAIN c : c[j] = i - 1 PROVE Times(t, p, name, i) = 0
      <3>1. {m \in DOMAIN c : c[m] = i - 1} = {}
        BY <2>6
      <3> QED BY <2>3, <3>1, FS_EmptySet
    <2> QED BY <2>1, <2>4, <2>5, <2>6
  <1>3. CASE ~HasProp(o, q, name)
    <2>1. ~LocalAt(o, p, name, i)
      BY <1>3 DEF LocalAt
    <2>2. {j \in DOMAIN <<>> : <<>>[j] = i - 1} = {}
      OBVIOUS
    <2>3. Times(t, p, name, i) = Cardinality({j \in DOMAIN <<>> : <<>>[j] = i - 1})
      BY <1>1, <1>3, Zenon DEF Times
    <2> QED BY <2>1, <2>2, <2>3, FS_EmptySet
  <1> QED BY <1>2, <1>3

\* The cells that refer to nodes of the overlay are moved with them, the other
\* cells but for phandles and references to labels stay.
LocalMoved(t, o, d) ==
    \A p \in DOMAIN o : \A name \in DOMAIN o[p] : \A i \in 1..Len(o[p][name].cells) :
       ~InLabel(o, p, name, i) =>
           /\ LocalAt(o, p, name, i) => t[p][name].cells[i] = (o[p][name].cells[i] + d) % W
           /\ ~LocalAt(o, p, name, i) /\ name \notin Phandles => t[p][name].cells[i] = o[p][name].cells[i]

\* What a property of a tree is made of.
LEMMA TreeValue ==
    ASSUME NEW t, IsTree(t), NEW p \in DOMAIN t, NEW name \in DOMAIN t[p]
    PROVE  /\ t[p][name] \in ValueSet /\ t[p][name].cells \in Seq(0..(W - 1))
           /\ Len(t[p][name].cells) \in Nat
           /\ DOMAIN t[p][name].cells = 1..Len(t[p][name].cells)
           /\ \A i \in 1..Len(t[p][name].cells) : t[p][name].cells[i] \in 0..(W - 1)
           /\ p \in Seq(STRING) /\ name \in STRING
           /\ t[p][name].path \in Seq(STRING) /\ t[p][name].places \in Seq(PlaceSet)
  <1>1. t[p][name] \in ValueSet /\ p \in Seq(STRING) /\ name \in STRING
    BY DEF IsTree
  <1>2. /\ t[p][name].cells \in Seq(0..(W - 1)) /\ t[p][name].path \in Seq(STRING)
        /\ t[p][name].places \in Seq(PlaceSet)
    BY <1>1 DEF ValueSet
  <1> QED BY <1>1, <1>2, LenProperties, ElementOfSeq

\* A pass that only gives properties new cells.
LEMMA Recelled ==
    ASSUME NEW o, NEW t, NEW u, Alike(t, o), DOMAIN u = DOMAIN t,
           \A p \in DOMAIN t : DOMAIN u[p] = DOMAIN t[p],
           \A p \in DOMAIN t : \A name \in DOMAIN t[p] :
              /\ u[p][name] = [t[p][name] EXCEPT !.cells = u[p][name].cells]
              /\ u[p][name].cells = [i \in DOMAIN t[p][name].cells |-> u[p][name].cells[i]]
              /\ \A i \in 1..Len(t[p][name].cells) : u[p][name].cells[i] \in 0..(W - 1)
    PROVE  Alike(u, o)
  <1>1. ASSUME NEW p \in DOMAIN t, NEW name \in DOMAIN t[p]
        PROVE  /\ u[p][name] \in ValueSet /\ Len(u[p][name].cells) = Len(t[p][name].cells)
               /\ u[p][name].path = t[p][name].path /\ u[p][name].places = t[p][name].places
    <2>1. PICK v \in ValueSet : v = t[p][name]
      BY TreeValue DEF Alike
    <2>2. PICK g : g = u[p][name].cells
      OBVIOUS
    <2>3. u[p][name] = [v EXCEPT !.cells = g]
      BY <2>1, <2>2
    <2>4. /\ g = [i \in DOMAIN v.cells |-> g[i]]
          /\ \A i \in 1..Len(v.cells) : g[i] \in 0..(W - 1)
      BY <2>1, <2>2
    <2>5. PICK x : x = [v EXCEPT !.cells = g]
      OBVIOUS
    <2>6. /\ x \in ValueSet /\ Len(x.cells) = Len(v.cells)
          /\ x.path = v.path /\ x.places = v.places
      BY <2>4, <2>5, NewCells
    <2> QED BY <2>1, <2>3, <2>5, <2>6
  <1>2. IsTree(u)
    BY <1>1 DEF IsTree, Alike
  <1>3. DOMAIN u = DOMAIN o /\ \A p \in DOMAIN o : DOMAIN u[p] = DOMAIN o[p]
    BY DEF Alike
  <1>4. ASSUME NEW p \in DOMAIN o, NEW name \in DOMAIN o[p]
        PROVE  /\ Len(u[p][name].cells) = Len(o[p][name].cells)
               /\ name \notin Phandles => /\ u[p][name].path = o[p][name].path
                                          /\ u[p][name].places = o[p][name].places
    BY <1>1 DEF Alike
  <1> QED BY <1>2, <1>3, <1>4 DEF Alike

\* overlay_update_local_references moves the cells that name nodes of the
\* overlay, and the phandles stay as they are.
LEMMA UpdateRight ==
    ASSUME NEW o, NEW t, NEW d \in 0..(W - 1), IsTree(o), CheckedPhandles(o), LocalFixupsApart(o),
           Alike(t, o), Moved(t, o, d), Others(t, o),
           NEW r, r = overlay_update_local_references(t, d)
    PROVE  Alike(r.t, o) /\ Moved(r.t, o, d) /\ LocalMoved(r.t, o, d)
  <1> DEFINE res == [p \in DOMAIN t |-> [name \in DOMAIN t[p] |->
                       [t[p][name] EXCEPT !.cells =
                          [i \in DOMAIN @ |-> (@[i] + Times(t, p, name, i) * d) % W]]]]
  <1>1. r.t = res
    BY DEF overlay_update_local_references, Outcome, Ok, Err, Times, LocalPath
  <1>2. DOMAIN res = DOMAIN t /\ \A p \in DOMAIN t : DOMAIN res[p] = DOMAIN t[p]
    OBVIOUS
  <1>3. ASSUME NEW p \in DOMAIN t, NEW name \in DOMAIN t[p]
        PROVE  res[p][name] = [t[p][name] EXCEPT !.cells =
                 [i \in DOMAIN t[p][name].cells |->
                    (t[p][name].cells[i] + Times(t, p, name, i) * d) % W]]
    OBVIOUS
  <1> HIDE DEF res
  <1>4. ASSUME NEW p \in DOMAIN t, NEW name \in DOMAIN t[p]
        PROVE  /\ \A i \in DOMAIN t[p][name].cells : res[p][name].cells[i] =
                    (t[p][name].cells[i] + Times(t, p, name, i) * d) % W
               /\ res[p][name] = [t[p][name] EXCEPT !.cells = res[p][name].cells]
               /\ res[p][name].cells = [i \in DOMAIN t[p][name].cells |-> res[p][name].cells[i]]
    <2>1. t[p][name] \in ValueSet
      BY TreeValue DEF Alike
    <2>2. PICK g : g = [i \in DOMAIN t[p][name].cells |->
                          (t[p][name].cells[i] + Times(t, p, name, i) * d) % W]
      OBVIOUS
    <2>3. res[p][name] = [t[p][name] EXCEPT !.cells = g]
      BY <1>3, <2>2
    <2>4. res[p][name].cells = g
      BY <2>1, <2>3 DEF ValueSet
    <2>5. g = [i \in DOMAIN t[p][name].cells |-> g[i]]
      BY <2>2
    <2>6. \A i \in DOMAIN t[p][name].cells :
              g[i] = (t[p][name].cells[i] + Times(t, p, name, i) * d) % W
      BY <2>2
    <2> QED BY <2>3, <2>4, <2>5, <2>6
  <1>5. ASSUME NEW p \in DOMAIN t, NEW name \in DOMAIN t[p], NEW i \in 1..Len(t[p][name].cells)
        PROVE  /\ res[p][name].cells[i] \in 0..(W - 1)
               /\ LocalAt(o, p, name, i) =>
                    /\ res[p][name].cells[i] = (t[p][name].cells[i] + d) % W
                    /\ name \notin Phandles
               /\ ~LocalAt(o, p, name, i) => res[p][name].cells[i] = t[p][name].cells[i]
    <2>1. /\ DOMAIN t[p][name].cells = 1..Len(t[p][name].cells) /\ p \in Seq(STRING)
          /\ t[p][name].cells[i] \in 0..(W - 1) /\ Len(t[p][name].cells) \in Nat
      BY TreeValue DEF Alike
    <2>2. res[p][name].cells[i] = (t[p][name].cells[i] + Times(t, p, name, i) * d) % W
      BY <1>4, <2>1
    <2>3. i \in Nat
      BY <2>1
    <2>4. CASE LocalAt(o, p, name, i)
      <3>1. Times(t, p, name, i) = 1 /\ name \notin Phandles
        BY <2>1, <2>3, <2>4, TimesOnce
      <3>2. PICK x \in 0..(W - 1) : x = t[p][name].cells[i]
        BY <2>1
      <3>3. x + 1 * d = x + d /\ x + d \in Nat
        BY WordRange
      <3> QED BY <2>2, <2>4, <3>1, <3>2, <3>3, ModIsWord
    <2>5. CASE ~LocalAt(o, p, name, i)
      <3>1. Times(t, p, name, i) = 0
        BY <2>1, <2>3, <2>5, TimesOnce
      <3>2. PICK x \in 0..(W - 1) : x = t[p][name].cells[i]
        BY <2>1
      <3>3. x + 0 * d = x
        BY WordRange
      <3> QED BY <2>2, <2>5, <3>1, <3>2, <3>3, ModWord
    <2> QED BY <2>4, <2>5
  <1>6. Alike(res, o)
    <2>1. \A p \in DOMAIN t : \A name \in DOMAIN t[p] :
              /\ res[p][name] = [t[p][name] EXCEPT !.cells = res[p][name].cells]
              /\ res[p][name].cells = [i \in DOMAIN t[p][name].cells |-> res[p][name].cells[i]]
              /\ \A i \in 1..Len(t[p][name].cells) : res[p][name].cells[i] \in 0..(W - 1)
      BY <1>4, <1>5
    <2> QED BY <1>2, <2>1, Recelled, Zenon
  <1>7. Moved(res, o, d)
    <2> SUFFICES ASSUME NEW p \in DOMAIN o, NEW name \in Phandles \cap DOMAIN o[p]
                 PROVE  res[p][name].cells[1] = t[p][name].cells[1]
      BY DEF Moved
    <2>1. p \in DOMAIN t /\ name \in DOMAIN t[p] /\ Len(t[p][name].cells) = 1
      BY DEF Alike, CheckedPhandles
    <2>2. 1 \in 1..Len(t[p][name].cells)
      BY <2>1
    <2> QED BY <1>5, <2>1, <2>2
  <1>8. LocalMoved(res, o, d)
    <2> SUFFICES ASSUME NEW p \in DOMAIN o, NEW name \in DOMAIN o[p],
                        NEW i \in 1..Len(o[p][name].cells)
                 PROVE  /\ LocalAt(o, p, name, i) => res[p][name].cells[i] = (o[p][name].cells[i] + d) % W
                        /\ ~LocalAt(o, p, name, i) /\ name \notin Phandles
                             => res[p][name].cells[i] = o[p][name].cells[i]
      BY DEF LocalMoved
    <2>1. p \in DOMAIN t /\ name \in DOMAIN t[p] /\ i \in 1..Len(t[p][name].cells)
      BY DEF Alike
    <2>2. /\ LocalAt(o, p, name, i) =>
               name \notin Phandles /\ res[p][name].cells[i] = (t[p][name].cells[i] + d) % W
          /\ ~LocalAt(o, p, name, i) => res[p][name].cells[i] = t[p][name].cells[i]
      BY <1>5, <2>1
    <2>3. name \notin Phandles => t[p][name] = o[p][name]
      BY DEF Others
    <2> QED BY <2>2, <2>3
  <1> QED BY <1>1, <1>6, <1>7, <1>8

-----------------------------------------------------------------------------
(***************************************************************************)
(* The cells of the overlay that refer to labels of the base are resolved. *)
(***************************************************************************)
\* Every label of the overlay is one of the base, and its cells hold the
\* phandle of its node.
LabelsResolved(t, o, base) ==
    \A label \in DOMAIN Fixups(o) : \A place \in LabelPlaces(o, label) :
        /\ HasProp(base, symbols, label)
        /\ base[symbols][label].path \in DOMAIN base
        /\ get_phandle(base, base[symbols][label].path) # 0
        /\ HasProp(o, place.path, place.name)
        /\ place.off + 1 <= Len(o[place.path][place.name].cells)
        /\ CellAt(t, place.path, place) = get_phandle(base, base[symbols][label].path)

\* The passes leave __fixups__ alone.
LEMMA SameFixups ==
    ASSUME NEW o, NEW t, Alike(t, o), FixupsApart(o)
    PROVE  /\ DOMAIN Fixups(t) = DOMAIN Fixups(o)
           /\ \A label \in DOMAIN Fixups(o) : Fixups(t)[label].places = Fixups(o)[label].places
  <1>1. CASE <<"__fixups__">> \in DOMAIN o
    <2>1. Fixups(o) = o[<<"__fixups__">>] /\ Fixups(t) = t[<<"__fixups__">>]
      BY <1>1 DEF Fixups, Alike
    <2>2. \A label \in DOMAIN o[<<"__fixups__">>] : label \notin Phandles
      BY <2>1 DEF FixupsApart
    <2> QED BY <1>1, <2>1, <2>2 DEF Alike
  <1>2. CASE <<"__fixups__">> \notin DOMAIN o
    <2>1. Fixups(o) = <<>> /\ Fixups(t) = <<>>
      BY <1>2 DEF Fixups, Alike
    <2> QED BY <2>1
  <1> QED BY <1>1, <1>2

\* A place as a record.
LEMMA PlaceOf ==
    ASSUME NEW o, IsTree(o), NEW label \in DOMAIN Fixups(o), NEW place \in LabelPlaces(o, label)
    PROVE  /\ place \in PlaceSet /\ place.off \in Nat
           /\ place = Place(place.path, place.name, (place.off + 1) - 1)
  <1>1. <<"__fixups__">> \in DOMAIN o /\ Fixups(o) = o[<<"__fixups__">>]
    <2>1. CASE <<"__fixups__">> \notin DOMAIN o
      <3>1. DOMAIN Fixups(o) = {}
        BY <2>1 DEF Fixups
      <3> QED BY <3>1
    <2> QED BY <2>1 DEF Fixups
  <1>2. Fixups(o)[label].places \in Seq(PlaceSet)
    BY <1>1, TreeValue
  <1>3. PICK i \in DOMAIN Fixups(o)[label].places : place = Fixups(o)[label].places[i]
    BY DEF LabelPlaces, ToSet
  <1>4. place \in PlaceSet
    BY <1>2, <1>3, LenProperties, ElementOfSeq
  <1>5. /\ place.off \in Nat
        /\ place = [path |-> place.path, name |-> place.name, off |-> place.off]
    BY <1>4 DEF PlaceSet
  <1>6. (place.off + 1) - 1 = place.off
    BY <1>5
  <1> QED BY <1>4, <1>5, <1>6 DEF Place

\* One place.
LEMMA OnePhandle ==
    ASSUME NEW base, NEW t, NEW label, NEW place, IsTree(base), NEW h,
           h = overlay_fixup_one_phandle(base, t, label, place), ~(h < 0)
    PROVE  /\ HasProp(base, symbols, label) /\ base[symbols][label].path \in DOMAIN base
           /\ get_phandle(base, base[symbols][label].path) # 0
           /\ HasProp(t, place.path, place.name)
           /\ ~(place.off + 1 > Len(t[place.path][place.name].cells))
           /\ h = get_phandle(base, base[symbols][label].path) /\ h \in 0..(W - 1)
  <1>1. NOTFOUND < 0 /\ BADOVERLAY < 0 /\ NOSPACE < 0
    BY DEF NOTFOUND, BADOVERLAY, NOSPACE
  <1>2. HasProp(base, symbols, label)
    BY <1>1 DEF overlay_fixup_one_phandle
  <1>3. base[symbols][label].path \in DOMAIN base
    BY <1>1, <1>2 DEF overlay_fixup_one_phandle
  <1>4. get_phandle(base, base[symbols][label].path) # 0
    BY <1>1, <1>2, <1>3 DEF overlay_fixup_one_phandle
  <1>5. HasProp(t, place.path, place.name)
    BY <1>1, <1>2, <1>3, <1>4 DEF overlay_fixup_one_phandle, HasProp
  <1>6. ~(place.off + 1 > Len(t[place.path][place.name].cells))
    BY <1>1, <1>2, <1>3, <1>4, <1>5 DEF overlay_fixup_one_phandle, HasProp
  <1>7. h = get_phandle(base, base[symbols][label].path)
    BY <1>1, <1>2, <1>3, <1>4, <1>5, <1>6 DEF overlay_fixup_one_phandle, HasProp
  <1> QED BY <1>2, <1>3, <1>4, <1>5, <1>6, <1>7, GetPhandle

\* overlay_fixup_phandles gives every place of a label the phandle of the
\* label's node, and leaves the other cells alone.
LEMMA FixupRight ==
    ASSUME NEW o, NEW t, NEW base, NEW d \in 0..(W - 1), IsTree(o), CheckedPhandles(o),
           FixupsApart(o), IsTree(base), Alike(t, o), Moved(t, o, d), LocalMoved(t, o, d),
           NEW r, r = overlay_fixup_phandles(base, t), r.err = 0
    PROVE  Alike(r.t, o) /\ Moved(r.t, o, d) /\ LocalMoved(r.t, o, d) /\ LabelsResolved(r.t, o, base)
  <1> DEFINE at == overlay_fixup_phandle(Fixups(t))
             new == [lp \in at |-> overlay_fixup_one_phandle(base, t, lp[1], lp[2])]
             here(p, name, i) == {lp \in at : lp[2] = Place(p, name, i - 1)}
             cell(p, name, i) == IF here(p, name, i) = {} THEN t[p][name].cells[i]
                                 ELSE new[CHOOSE lp \in here(p, name, i) : TRUE]
             res == [p \in DOMAIN t |-> [name \in DOMAIN t[p] |->
                       [t[p][name] EXCEPT !.cells = [i \in DOMAIN @ |->
                           IF here(p, name, i) = {} THEN @[i]
                           ELSE new[CHOOSE lp \in here(p, name, i) : TRUE]]]]]
  <1>1. r = Outcome(Faults(at, new), res)
    BY DEF overlay_fixup_phandles, Faults, Fixups
  <1>2. r.t = res /\ \A lp \in at : ~(new[lp] < 0)
    <2> HIDE DEF at, new, res
    <2>1. Faults(at, new) = {} /\ r.t = res
      BY <1>1, NoFaults, OutcomeOk
    <2> QED BY <2>1, NoFaults
  <1>3. \A label, place : <<label, place>> \in at
                          <=> label \in DOMAIN Fixups(o) /\ place \in LabelPlaces(o, label)
    BY SameFixups DEF overlay_fixup_phandle, LabelPlaces
  <1>4. \A lp \in at : lp = <<lp[1], lp[2]>>
    BY DEF overlay_fixup_phandle
  <1>5. \A label, place : <<label, place>> \in at =>
            new[<<label, place>>] = overlay_fixup_one_phandle(base, t, label, place)
    OBVIOUS
  <1>6. DOMAIN res = DOMAIN t /\ \A p \in DOMAIN t : DOMAIN res[p] = DOMAIN t[p]
    OBVIOUS
  <1>7. ASSUME NEW p \in DOMAIN t, NEW name \in DOMAIN t[p]
        PROVE  res[p][name] = [t[p][name] EXCEPT !.cells =
                                 [i \in DOMAIN t[p][name].cells |-> cell(p, name, i)]]
    OBVIOUS
  <1>8. \A p, name, i : cell(p, name, i) = IF here(p, name, i) = {} THEN t[p][name].cells[i]
                                           ELSE new[CHOOSE lp \in here(p, name, i) : TRUE]
    OBVIOUS
  <1>9. \A p, name, i : here(p, name, i) \subseteq at
                        /\ \A lp \in at : lp \in here(p, name, i) <=> lp[2] = Place(p, name, i - 1)
    OBVIOUS
  <1> HIDE DEF at, new, here, cell, res
  <1>10. \A p, name, i : here(p, name, i) # {} <=> InLabel(o, p, name, i)
    <2> SUFFICES ASSUME NEW p, NEW name, NEW i
                 PROVE  here(p, name, i) # {} <=> InLabel(o, p, name, i)
      OBVIOUS
    <2>1. ASSUME NEW lp \in here(p, name, i) PROVE InLabel(o, p, name, i)
      <3>1. lp \in at /\ lp[2] = Place(p, name, i - 1) /\ lp = <<lp[1], lp[2]>>
        BY <1>4, <1>9
      <3>2. lp[1] \in DOMAIN Fixups(o) /\ Place(p, name, i - 1) \in LabelPlaces(o, lp[1])
        BY <1>3, <3>1
      <3> QED BY <3>2 DEF InLabel
    <2>2. ASSUME InLabel(o, p, name, i) PROVE here(p, name, i) # {}
      <3>1. PICK label \in DOMAIN Fixups(o) : Place(p, name, i - 1) \in LabelPlaces(o, label)
        BY <2>2 DEF InLabel
      <3>2. <<label, Place(p, name, i - 1)>> \in at
        BY <1>3, <3>1
      <3>3. <<label, Place(p, name, i - 1)>> \in here(p, name, i)
        BY <1>9, <3>2
      <3> QED BY <3>3
    <2> QED BY <2>1, <2>2
  <1>11. ASSUME NEW p \in DOMAIN t, NEW name \in DOMAIN t[p]
         PROVE  /\ \A i \in DOMAIN t[p][name].cells : res[p][name].cells[i] = cell(p, name, i)
                /\ res[p][name] = [t[p][name] EXCEPT !.cells = res[p][name].cells]
                /\ res[p][name].cells = [i \in DOMAIN t[p][name].cells |-> res[p][name].cells[i]]
    <2>1. t[p][name] \in ValueSet
      BY TreeValue DEF Alike
    <2>2. PICK g : g = [i \in DOMAIN t[p][name].cells |-> cell(p, name, i)]
      OBVIOUS
    <2>3. res[p][name] = [t[p][name] EXCEPT !.cells = g]
      BY <1>7, <2>2
    <2>4. res[p][name].cells = g
      BY <2>1, <2>3 DEF ValueSet
    <2>5. g = [i \in DOMAIN t[p][name].cells |-> g[i]]
      BY <2>2
    <2>6. \A i \in DOMAIN t[p][name].cells : g[i] = cell(p, name, i)
      BY <2>2
    <2> QED BY <2>3, <2>4, <2>5, <2>6
  <1>12. ASSUME NEW lp \in at
         PROVE  new[lp] \in 0..(W - 1)
    <2>1. PICK label, place : lp = <<label, place>>
      BY <1>4
    <2>2. new[lp] = overlay_fixup_one_phandle(base, t, label, place) /\ ~(new[lp] < 0)
      BY <1>2, <1>5, <2>1
    <2> QED BY <2>2, OnePhandle
  <1>13. ASSUME NEW p \in DOMAIN t, NEW name \in DOMAIN t[p], NEW i \in 1..Len(t[p][name].cells)
         PROVE  /\ res[p][name].cells[i] = cell(p, name, i)
                /\ res[p][name].cells[i] \in 0..(W - 1)
    <2>1. i \in DOMAIN t[p][name].cells /\ t[p][name].cells[i] \in 0..(W - 1)
      BY TreeValue DEF Alike
    <2>2. res[p][name].cells[i] = cell(p, name, i)
      BY <1>11, <2>1
    <2>3. CASE here(p, name, i) = {}
      BY <1>8, <2>1, <2>2, <2>3
    <2>4. CASE here(p, name, i) # {}
      <3>1. PICK lp \in at : lp = CHOOSE x \in here(p, name, i) : TRUE
        BY <1>9, <2>4
      <3> QED BY <1>8, <1>12, <2>2, <2>4, <3>1
    <2> QED BY <2>2, <2>3, <2>4
  <1>14. Alike(res, o)
    <2>1. \A p \in DOMAIN t : \A name \in DOMAIN t[p] :
              /\ res[p][name] = [t[p][name] EXCEPT !.cells = res[p][name].cells]
              /\ res[p][name].cells = [i \in DOMAIN t[p][name].cells |-> res[p][name].cells[i]]
              /\ \A i \in 1..Len(t[p][name].cells) : res[p][name].cells[i] \in 0..(W - 1)
      BY <1>11, <1>13
    <2> QED BY <1>6, <2>1, Recelled, Zenon
  <1>15. ASSUME NEW p \in DOMAIN o, NEW name \in DOMAIN o[p], NEW i \in 1..Len(o[p][name].cells),
                ~InLabel(o, p, name, i)
         PROVE  res[p][name].cells[i] = t[p][name].cells[i]
    <2>1. p \in DOMAIN t /\ name \in DOMAIN t[p] /\ i \in 1..Len(t[p][name].cells)
      BY DEF Alike
    <2>2. here(p, name, i) = {}
      BY <1>10, <1>15
    <2> QED BY <1>8, <1>13, <2>1, <2>2
  <1>16. Moved(res, o, d)
    <2> SUFFICES ASSUME NEW p \in DOMAIN o, NEW name \in Phandles \cap DOMAIN o[p]
                 PROVE  res[p][name].cells[1] = t[p][name].cells[1]
      BY DEF Moved
    <2>1. Len(o[p][name].cells) = 1 /\ 1 \in 1..1
      BY DEF CheckedPhandles
    <2>2. ~InLabel(o, p, name, 1)
      BY DEF InLabel, FixupsApart, Place
    <2> QED BY <1>15, <2>1, <2>2
  <1>17. LocalMoved(res, o, d)
    BY <1>15 DEF LocalMoved
  <1>18. LabelsResolved(res, o, base)
    <2> SUFFICES ASSUME NEW label \in DOMAIN Fixups(o), NEW place \in LabelPlaces(o, label)
                 PROVE  /\ HasProp(base, symbols, label)
                        /\ base[symbols][label].path \in DOMAIN base
                        /\ get_phandle(base, base[symbols][label].path) # 0
                        /\ HasProp(o, place.path, place.name)
                        /\ place.off + 1 <= Len(o[place.path][place.name].cells)
                        /\ CellAt(res, place.path, place)
                             = get_phandle(base, base[symbols][label].path)
      BY DEF LabelsResolved
    <2>1. PICK h : h = new[<<label, place>>]
      OBVIOUS
    <2>2. <<label, place>> \in at
      BY <1>3
    <2>3. h = overlay_fixup_one_phandle(base, t, label, place) /\ ~(h < 0)
      BY <1>2, <1>5, <2>1, <2>2
    <2>4. /\ HasProp(base, symbols, label) /\ base[symbols][label].path \in DOMAIN base
          /\ get_phandle(base, base[symbols][label].path) # 0
          /\ HasProp(t, place.path, place.name)
          /\ ~(place.off + 1 > Len(t[place.path][place.name].cells))
          /\ h = get_phandle(base, base[symbols][label].path)
      BY <2>3, OnePhandle
    <2>5. /\ place.path \in DOMAIN t /\ place.name \in DOMAIN t[place.path]
          /\ HasProp(o, place.path, place.name)
          /\ Len(t[place.path][place.name].cells) = Len(o[place.path][place.name].cells)
      BY <2>4 DEF HasProp, Alike
    <2>6. place.off \in Nat /\ place = Place(place.path, place.name, (place.off + 1) - 1)
      BY PlaceOf
    <2>7. Len(t[place.path][place.name].cells) \in Nat
      BY <2>5, TreeValue DEF Alike
    <2>8. place.off + 1 \in 1..Len(t[place.path][place.name].cells)
      BY <2>4, <2>6, <2>7
    <2>9. here(place.path, place.name, place.off + 1) = {<<label, place>>}
      <3>1. <<label, place>> \in here(place.path, place.name, place.off + 1)
        BY <1>9, <2>2, <2>6
      <3>2. ASSUME NEW lp \in here(place.path, place.name, place.off + 1)
            PROVE  lp = <<label, place>>
        <4>1. lp \in at /\ lp[2] = place
          BY <1>9, <2>6
        <4>2. PICK other : lp = <<other, place>>
          BY <1>4, <4>1
        <4>3. other \in DOMAIN Fixups(o) /\ place \in LabelPlaces(o, other)
          BY <1>3, <4>1, <4>2
        <4>4. other = label
          BY <4>3 DEF FixupsApart
        <4> QED BY <4>2, <4>4
      <3> QED BY <3>1, <3>2
    <2>10. cell(place.path, place.name, place.off + 1) = h
      BY <1>8, <2>1, <2>9
    <2>11. CellAt(res, place.path, place) = h
      BY <1>13, <2>5, <2>8, <2>10 DEF CellAt
    <2> QED BY <2>4, <2>5, <2>7, <2>8, <2>11
  <1> QED BY <1>2, <1>14, <1>16, <1>17, <1>18

-----------------------------------------------------------------------------
(***************************************************************************)
(* The fragments are merged: where each property of the tree is from.      *)
(***************************************************************************)
\* An overlay o that is ready to be merged into a base, as t.
Prepared(t, o, base) ==
    /\ GoodBase(base) /\ IsOverlay(o) /\ Alike(t, o.t)
    /\ Moved(t, o.t, find_max_phandle(base))
    /\ LocalMoved(t, o.t, find_max_phandle(base)) /\ LabelsResolved(t, o.t, base)

\* Where a property of the half-merged tree m is from, when the nodes D of the
\* overlay have been merged.
FromOverlay(base, o, t, m, D, p, name) ==
    \E q \in D : Final(base, o, q) = p /\ name \in DOMAIN o.t[q] /\ m[p][name] = t[q][name]
FromBase(base, o, m, D, p, name) ==
    /\ HasProp(base, p, name) /\ m[p][name] = base[p][name]
    /\ \A q \in D : Final(base, o, q) = p => name \notin DOMAIN o.t[q]
Composed(base, o, t, m, D, p, name) ==
    /\ name \in DOMAIN m[p] => \/ FromOverlay(base, o, t, m, D, p, name)
                               \/ FromBase(base, o, m, D, p, name)
    /\ HasProp(base, p, name) => name \in DOMAIN m[p]
    /\ \A q \in D : Final(base, o, q) = p /\ name \in DOMAIN o.t[q] => name \in DOMAIN m[p]

\* No label of an overlay is called as a phandle is.
LEMMA NoBrought == ASSUME NEW o, IsOverlay(o), NEW name \in Phandles PROVE name \notin Brought(o.t)
  <1>1. \A label \in Brought(o.t) : symbols \in DOMAIN o.t /\ label \in DOMAIN o.t[symbols]
    BY DEF Brought
  <1> QED BY <1>1 DEF IsOverlay, LabelsName

\* The nodes and properties of m: L is the node that has got labels.
MergedTo(base, o, t, m, D, L) ==
    /\ IsTree(m)
    /\ DOMAIN m = DOMAIN base \cup {Final(base, o, p) : p \in D} \cup L
    /\ \A p \in DOMAIN m : \A name : p \notin L \/ name \notin Brought(o.t)
                                     => Composed(base, o, t, m, D, p, name)

\* When n fragments are merged, a property is as the last of them that sets it
\* has it.
LastWins(base, o, t, m, n, L) ==
    \A q \in Merged(o), j \in 1..n : \A name \in DOMAIN o.t[q] :
        LET p == Final(base, o, q)
        IN  /\ o.order[j] = q[1] /\ (p \notin L \/ name \notin Brought(o.t))
            /\ \A i \in (j + 1)..n : \A x \in Merged(o) :
                 Final(base, o, x) = p /\ name \in DOMAIN o.t[x] => o.order[i] # x[1]
            => m[p][name] = t[q][name]

\* get_phandle where phandles are single cells.
LEMMA SinglePhandle ==
    ASSUME NEW t, Singles(t), NEW p
    PROVE  get_phandle(t, p) =
             IF HasProp(t, p, "phandle") THEN t[p]["phandle"].cells[1]
             ELSE IF HasProp(t, p, "linux,phandle") THEN t[p]["linux,phandle"].cells[1] ELSE 0
  <1>1. \A name \in Phandles : HasProp(t, p, name) => Len(t[p][name].cells) = 1
    BY DEF Singles, HasProp
  <1> QED BY <1>1 DEF get_phandle, Phandles

\* Such a phandle is neither -1 nor, for a node that has one, 0.
LEMMA SingleRange ==
    ASSUME NEW t, Singles(t), NEW p
    PROVE  /\ get_phandle(t, p) \in 0..(W - 2)
           /\ get_phandle(t, p) # 0 <=> \E name \in Phandles : HasProp(t, p, name)
  <1>1. \A name \in Phandles : HasProp(t, p, name) => t[p][name].cells[1] \in 1..(W - 2)
    BY DEF Singles, HasProp
  <1>2. 0 \in 0..(W - 2) /\ \A x \in 1..(W - 2) : x \in 0..(W - 2) /\ x # 0
    BY WordRange
  <1> QED BY <1>1, <1>2, SinglePhandle DEF Phandles

\* The phandles of the overlay after the passes.
LEMMA MovedPhandle ==
    ASSUME NEW t, NEW o, NEW d \in 0..(W - 1), IsTree(o), CheckedPhandles(o), Alike(t, o), Moved(t, o, d)
    PROVE  /\ Singles(t) /\ Singles(o)
           /\ \A p \in DOMAIN o : \A name \in Phandles \cap DOMAIN o[p] :
                /\ get_phandle(o, p) # 0
                /\ t[p][name].cells[1] = get_phandle(o, p) + d
                /\ get_phandle(t, p) = get_phandle(o, p) + d
           /\ \A p \in DOMAIN o : get_phandle(o, p) = 0 => get_phandle(t, p) = 0
  <1>1. Singles(o)
    BY DEF Singles, CheckedPhandles
  <1>2. ASSUME NEW p \in DOMAIN o, NEW name \in Phandles \cap DOMAIN o[p]
        PROVE  /\ t[p][name].cells[1] = get_phandle(o, p) + d /\ get_phandle(o, p) # 0
               /\ Len(t[p][name].cells) = 1 /\ t[p][name].cells[1] \in 1..(W - 2)
    <2>1. /\ Len(o[p][name].cells) = 1 /\ o[p][name].cells[1] \in 1..(W - 2)
          /\ o[p][name].cells[1] = get_phandle(o, p)
      BY DEF CheckedPhandles
    <2>2. Len(t[p][name].cells) = 1 /\ t[p][name].cells[1] = o[p][name].cells[1] + d
          /\ t[p][name].cells[1] < W - 1
      BY <2>1 DEF Alike, Moved
    <2> QED BY <2>1, <2>2, WordRange
  <1>3. Singles(t)
    BY <1>2 DEF Singles, Alike
  <1>4. ASSUME NEW p \in DOMAIN o, NEW name
        PROVE  HasProp(t, p, name) <=> HasProp(o, p, name)
    BY DEF HasProp, Alike
  <1>5. ASSUME NEW p \in DOMAIN o, NEW name \in Phandles \cap DOMAIN o[p]
        PROVE  get_phandle(t, p) = get_phandle(o, p) + d
    <2>1. \/ HasProp(t, p, "phandle") /\ "phandle" \in Phandles \cap DOMAIN o[p]
          \/ /\ ~HasProp(t, p, "phandle") /\ HasProp(t, p, "linux,phandle")
             /\ "linux,phandle" \in Phandles \cap DOMAIN o[p]
      BY <1>4 DEF Phandles, HasProp
    <2> QED BY <1>2, <1>3, <2>1, SinglePhandle
  <1>6. ASSUME NEW p \in DOMAIN o, get_phandle(o, p) = 0 PROVE get_phandle(t, p) = 0
    BY <1>1, <1>3, <1>4, <1>6, SingleRange
  <1> QED BY <1>1, <1>2, <1>3, <1>5, <1>6

\* Where the phandle of a node of the half-merged tree is from.
LEMMA PhandleFrom ==
    ASSUME NEW base, NEW o, NEW t, NEW m, NEW D, NEW L, Prepared(t, o, base),
           D \subseteq DOMAIN o.t, MergedTo(base, o, t, m, D, L), NEW p \in DOMAIN m
    PROVE  /\ \A name \in Phandles \cap DOMAIN m[p] :
                Len(m[p][name].cells) = 1 /\ m[p][name].cells[1] \in 1..(W - 2)
           /\ \/ get_phandle(m, p) = get_phandle(base, p)
              \/ \E q \in D : /\ Final(base, o, q) = p /\ get_phandle(o.t, q) # 0
                              /\ get_phandle(m, p) = get_phandle(t, q)
           /\ (\A name \in Phandles, q \in D : Final(base, o, q) = p => name \notin DOMAIN o.t[q])
              => get_phandle(m, p) = get_phandle(base, p)
  <1>0. find_max_phandle(base) \in 0..(W - 1)
    BY MaxPhandle DEF Prepared, GoodBase
  <1>1. /\ Singles(base) /\ Singles(t) /\ Singles(o.t) /\ IsTree(o.t) /\ CheckedPhandles(o.t)
        /\ Alike(t, o.t) /\ Moved(t, o.t, find_max_phandle(base))
    BY <1>0, MovedPhandle DEF Prepared, GoodBase, IsOverlay
  <1>2. \A name \in Phandles : Composed(base, o, t, m, D, p, name)
    BY NoBrought DEF MergedTo, Prepared
  <1>3. \A name \in Phandles \cap DOMAIN m[p] :
            Len(m[p][name].cells) = 1 /\ m[p][name].cells[1] \in 1..(W - 2)
    <2> SUFFICES ASSUME NEW name \in Phandles \cap DOMAIN m[p]
                 PROVE  Len(m[p][name].cells) = 1 /\ m[p][name].cells[1] \in 1..(W - 2)
      OBVIOUS
    <2>1. CASE FromOverlay(base, o, t, m, D, p, name)
      <3>1. PICK q \in D : name \in DOMAIN o.t[q] /\ m[p][name] = t[q][name]
        BY <2>1 DEF FromOverlay
      <3>2. q \in DOMAIN t /\ name \in DOMAIN t[q]
        BY <1>1, <3>1 DEF Alike
      <3> QED BY <1>1, <3>1, <3>2 DEF Singles
    <2>2. CASE FromBase(base, o, m, D, p, name)
      BY <1>1, <2>2 DEF FromBase, Singles, HasProp
    <2> QED BY <1>2, <2>1, <2>2 DEF Composed
  <1>4. \A name \in Phandles : HasProp(m, p, name) => Len(m[p][name].cells) = 1
    BY <1>3 DEF HasProp
  <1>5. get_phandle(m, p) =
             IF HasProp(m, p, "phandle") THEN m[p]["phandle"].cells[1]
             ELSE IF HasProp(m, p, "linux,phandle") THEN m[p]["linux,phandle"].cells[1] ELSE 0
    BY <1>4 DEF get_phandle, Phandles
  <1>6. get_phandle(base, p) =
             IF HasProp(base, p, "phandle") THEN base[p]["phandle"].cells[1]
             ELSE IF HasProp(base, p, "linux,phandle") THEN base[p]["linux,phandle"].cells[1] ELSE 0
    BY <1>1, SinglePhandle
  <1> DEFINE FO(name) == FromOverlay(base, o, t, m, D, p, name)
             FB(name) == FromBase(base, o, m, D, p, name)
  <1>7. ASSUME NEW name \in Phandles, FO(name)
        PROVE  \E q \in D : /\ Final(base, o, q) = p /\ get_phandle(o.t, q) # 0
                            /\ m[p][name].cells[1] = get_phandle(t, q)
    <2>1. PICK q \in D : /\ Final(base, o, q) = p /\ name \in DOMAIN o.t[q]
                         /\ m[p][name] = t[q][name]
      BY <1>7 DEF FromOverlay
    <2>2. q \in DOMAIN o.t /\ name \in Phandles \cap DOMAIN o.t[q]
      BY <2>1
    <2>3. /\ get_phandle(o.t, q) # 0
          /\ t[q][name].cells[1] = get_phandle(t, q)
      BY <1>0, <1>1, <2>2, MovedPhandle
    <2> QED BY <2>1, <2>3
  <1>8. \A name \in Phandles : /\ HasProp(m, p, name) => FO(name) \/ FB(name)
                               /\ HasProp(base, p, name) => HasProp(m, p, name)
    BY <1>2 DEF Composed, HasProp
  <1>9. \A name \in Phandles : FB(name) => HasProp(base, p, name) /\ m[p][name] = base[p][name]
    BY DEF FromBase
  <1>10. "phandle" \in Phandles /\ "linux,phandle" \in Phandles
    BY DEF Phandles
  <1>11. (\A name \in Phandles, q \in D : Final(base, o, q) = p => name \notin DOMAIN o.t[q])
         => \A name \in Phandles : ~FO(name)
    BY DEF FromOverlay
  <1> HIDE DEF FO, FB
  <1>12. \/ get_phandle(m, p) = get_phandle(base, p)
         \/ \E name \in Phandles : FO(name) /\ get_phandle(m, p) = m[p][name].cells[1]
    BY <1>5, <1>6, <1>8, <1>9, <1>10
  <1>13. (\A name \in Phandles : ~FO(name)) => get_phandle(m, p) = get_phandle(base, p)
    BY <1>12
  <1>14. \/ get_phandle(m, p) = get_phandle(base, p)
         \/ \E q \in D : /\ Final(base, o, q) = p /\ get_phandle(o.t, q) # 0
                         /\ get_phandle(m, p) = get_phandle(t, q)
    BY <1>7, <1>12
  <1> QED BY <1>3, <1>11, <1>13, <1>14

\* A phandle that is not above those of the base is the base's.
LEMMA LowPhandle ==
    ASSUME NEW base, NEW o, NEW t, NEW m, NEW D, NEW L, Prepared(t, o, base),
           D \subseteq DOMAIN o.t, MergedTo(base, o, t, m, D, L), NEW p \in DOMAIN m,
           get_phandle(m, p) # 0, get_phandle(m, p) <= find_max_phandle(base)
    PROVE  p \in DOMAIN base /\ get_phandle(base, p) = get_phandle(m, p)
  <1>1. PICK d \in 0..(W - 1) : d = find_max_phandle(base)
    BY MaxPhandle DEF Prepared, GoodBase
  <1>2. ASSUME NEW q \in D, get_phandle(o.t, q) # 0, get_phandle(m, p) = get_phandle(t, q) PROVE FALSE
    <2>1. /\ IsTree(o.t) /\ CheckedPhandles(o.t) /\ Alike(t, o.t) /\ Moved(t, o.t, d)
      BY <1>1 DEF Prepared, IsOverlay
    <2>2. Singles(o.t) /\ q \in DOMAIN o.t
      BY <2>1, MovedPhandle
    <2>3. PICK name \in Phandles : HasProp(o.t, q, name)
      BY <1>2, <2>2, SingleRange
    <2>4. get_phandle(t, q) = get_phandle(o.t, q) + d
      BY <2>1, <2>2, <2>3, MovedPhandle DEF HasProp
    <2>5. get_phandle(o.t, q) \in 0..(W - 2)
      BY <2>2, SingleRange
    <2> QED BY <1>1, <1>2, <2>4, <2>5, WordRange
  <1>3. get_phandle(m, p) = get_phandle(base, p)
    BY <1>2, PhandleFrom
  <1> QED BY <1>3, GetPhandle DEF Prepared, GoodBase

\* The half-merged tree is one that the next overlay may be applied to.
LEMMA MergedGood ==
    ASSUME NEW base, NEW o, NEW t, NEW m, NEW D, NEW L, Prepared(t, o, base),
           D \subseteq DOMAIN o.t, MergedTo(base, o, t, m, D, L)
    PROVE  GoodBase(m)
  <1>1. Singles(m)
    BY PhandleFrom DEF Singles
  <1>2. IsTree(m)
    BY DEF MergedTo
  <1>3. UniquePhandles(m)
    <2> SUFFICES ASSUME NEW p \in DOMAIN m, NEW q \in DOMAIN m, p # q,
                        get_phandle(m, p) # 0, get_phandle(m, p) = get_phandle(m, q)
                 PROVE  FALSE
      BY DEF UniquePhandles
    <2>1. PICK d \in 0..(W - 1) : d = find_max_phandle(base)
      BY MaxPhandle DEF Prepared, GoodBase
    <2>2. get_phandle(m, p) \in 0..(W - 2)
      BY <1>1, SingleRange
    <2>3. CASE get_phandle(m, p) <= d
      <3>1. /\ p \in DOMAIN base /\ get_phandle(base, p) = get_phandle(m, p)
            /\ q \in DOMAIN base /\ get_phandle(base, q) = get_phandle(m, q)
        BY <2>1, <2>3, LowPhandle
      <3> QED BY <3>1 DEF Prepared, GoodBase, UniquePhandles
    <2>4. CASE ~(get_phandle(m, p) <= d)
      <3>1. ASSUME NEW x \in DOMAIN m, get_phandle(m, x) = get_phandle(m, p)
            PROVE  \E y \in D : /\ Final(base, o, y) = x /\ get_phandle(o.t, y) # 0
                                /\ get_phandle(m, x) = get_phandle(t, y)
        <4>1. get_phandle(base, x) <= d \/ get_phandle(base, x) = 0
          BY <2>1, MaxPhandle, GetPhandle DEF Prepared, GoodBase
        <4>2. get_phandle(m, x) # get_phandle(base, x)
          BY <2>2, <2>4, <3>1, <4>1
        <4> QED BY <4>2, PhandleFrom
      <3>2. PICK y \in D : /\ Final(base, o, y) = p /\ get_phandle(o.t, y) # 0
                           /\ get_phandle(m, p) = get_phandle(t, y)
        BY <3>1
      <3>3. PICK z \in D : /\ Final(base, o, z) = q /\ get_phandle(o.t, z) # 0
                           /\ get_phandle(m, q) = get_phandle(t, z)
        BY <3>1
      <3>4. /\ IsTree(o.t) /\ CheckedPhandles(o.t) /\ Alike(t, o.t) /\ Moved(t, o.t, d)
        BY <2>1 DEF Prepared, IsOverlay
      <3>5. ASSUME NEW x \in D, get_phandle(o.t, x) # 0
            PROVE  /\ x \in DOMAIN o.t /\ get_phandle(o.t, x) \in 0..(W - 2)
                   /\ get_phandle(t, x) = get_phandle(o.t, x) + d
        <4>1. Singles(o.t) /\ x \in DOMAIN o.t
          BY <3>4, MovedPhandle
        <4>2. PICK name \in Phandles : HasProp(o.t, x, name)
          BY <3>5, <4>1, SingleRange
        <4>3. get_phandle(t, x) = get_phandle(o.t, x) + d
          BY <3>4, <4>1, <4>2, MovedPhandle DEF HasProp
        <4> QED BY <4>1, <4>3, SingleRange
      <3>6. get_phandle(o.t, y) = get_phandle(o.t, z)
        <4>1. get_phandle(t, y) = get_phandle(t, z)
          BY <3>2, <3>3
        <4>2. get_phandle(o.t, y) + d = get_phandle(o.t, z) + d
          BY <3>2, <3>3, <3>5, <4>1
        <4>3. get_phandle(o.t, y) \in Int /\ get_phandle(o.t, z) \in Int /\ d \in Int
          BY <3>2, <3>3, <3>5, WordRange
        <4> QED BY <4>2, <4>3
      <3>7. y = z
        BY <3>2, <3>3, <3>4, <3>5, <3>6 DEF CheckedPhandles, UniquePhandles
      <3> QED BY <3>2, <3>3, <3>7
    <2> QED BY <2>3, <2>4
  <1> QED BY <1>1, <1>2, <1>3 DEF GoodBase

\* The target that is found in the half-merged tree is what the overlay means.
LEMMA TargetRight ==
    ASSUME NEW base, NEW o, NEW t, NEW m, NEW D, NEW L, Prepared(t, o, base),
           D \subseteq DOMAIN o.t, MergedTo(base, o, t, m, D, L),
           NEW j \in 1..Len(o.order), NEW frag, frag = o.order[j],
           NEW g, g = overlay_get_target(m, t, frag), g.err = 0
    PROVE  g.path = TargetPath(base, o, frag) /\ g.path \in DOMAIN m /\ g.path \in Seq(STRING)
  <1> DEFINE here == Place(<<frag>>, "target", 0)
             labels == {label \in DOMAIN Fixups(o.t) : here \in LabelPlaces(o.t, label)}
             h == overlay_get_target_phandle(t, frag)
             w == t[<<frag>>]["target-path"].path
  <1>1. /\ GoodBase(base) /\ Singles(base) /\ IsTree(base) /\ IsTree(m) /\ Alike(t, o.t)
        /\ LabelsResolved(t, o.t, base) /\ TargetsRefer(o)
    BY DEF Prepared, GoodBase, IsOverlay, MergedTo
  <1>2. here.path = <<frag>> /\ here.name = "target" /\ here.off = 0
    BY DEF Place
  <1>3. BADPHANDLE # 0 /\ NOTFOUND # 0 /\ BADOVERLAY # 0
    BY DEF BADPHANDLE, NOTFOUND, BADOVERLAY
  <1>4. TargetPath(base, o, frag) = IF labels # {} THEN base[symbols][CHOOSE label \in labels : TRUE].path
                                    ELSE o.t[<<frag>>]["target-path"].path
    BY DEF TargetPath
  <1>5. g = IF h = W - 1 THEN [path |-> <<>>, err |-> BADPHANDLE]
            ELSE IF h # 0
                 THEN IF NodesByPhandle(m, h) = {} THEN [path |-> <<>>, err |-> NOTFOUND]
                      ELSE [path |-> CHOOSE p \in NodesByPhandle(m, h) : TRUE, err |-> 0]
            ELSE IF ~HasProp(t, <<frag>>, "target-path") THEN [path |-> <<>>, err |-> BADOVERLAY]
            ELSE IF w \notin DOMAIN m THEN [path |-> <<>>, err |-> NOTFOUND]
            ELSE [path |-> w, err |-> 0]
    BY DEF overlay_get_target
  <1>6. HasProp(t, <<frag>>, "target") <=> HasProp(o.t, <<frag>>, "target")
    BY <1>1 DEF Alike, HasProp
  <1>7. h = IF ~HasProp(t, <<frag>>, "target") THEN 0
            ELSE IF Len(t[<<frag>>]["target"].cells) # 1 THEN W - 1
            ELSE t[<<frag>>]["target"].cells[1]
    BY DEF overlay_get_target_phandle
  <1> HIDE DEF h, w
  <1>8. CASE labels # {}
    <2>1. PICK label \in labels : label = CHOOSE x \in labels : TRUE
      BY <1>8
    <2>2. PICK n : n = base[symbols][label].path
      OBVIOUS
    <2>3. /\ n \in DOMAIN base /\ get_phandle(base, n) # 0
          /\ HasProp(o.t, <<frag>>, "target")
          /\ CellAt(t, <<frag>>, here) = get_phandle(base, n)
      BY <1>1, <1>2, <2>1, <2>2 DEF LabelsResolved
    <2>4. t[<<frag>>]["target"].cells[1] = get_phandle(base, n)
      <3>1. 0 + 1 = 1
        OBVIOUS
      <3> QED BY <1>2, <2>3, <3>1 DEF CellAt
    <2>5. get_phandle(base, n) \in 0..(W - 2) /\ get_phandle(base, n) <= find_max_phandle(base)
      BY <1>1, <2>3, SingleRange, MaxPhandle
    <2>6. h = get_phandle(base, n) /\ h # W - 1 /\ h # 0
      <3>1. h # W - 1
        BY <1>3, <1>5
      <3> QED BY <1>6, <1>7, <2>3, <2>4, <3>1
    <2>7. g.path \in NodesByPhandle(m, h)
      BY <1>3, <1>5, <2>6
    <2>8. g.path \in DOMAIN m /\ get_phandle(m, g.path) = get_phandle(base, n)
      BY <2>6, <2>7 DEF NodesByPhandle
    <2>9. g.path \in DOMAIN base /\ get_phandle(base, g.path) = get_phandle(base, n)
      BY <2>3, <2>5, <2>8, LowPhandle
    <2>10. g.path = n
      BY <1>1, <2>3, <2>9 DEF GoodBase, UniquePhandles
    <2> QED BY <1>1, <1>4, <1>8, <2>1, <2>2, <2>8, <2>10 DEF IsTree
  <1>9. CASE labels = {}
    <2>1. ~HasProp(t, <<frag>>, "target")
      BY <1>1, <1>6, <1>9 DEF TargetsRefer
    <2>2. h = 0 /\ h # W - 1
      BY <1>7, <2>1, WordRange
    <2>3. HasProp(t, <<frag>>, "target-path") /\ w \in DOMAIN m /\ g.path = w
      BY <1>3, <1>5, <2>2
    <2>4. w = o.t[<<frag>>]["target-path"].path
      <3>1. "target-path" \notin Phandles
        BY DEF Phandles
      <3>2. <<frag>> \in DOMAIN o.t /\ "target-path" \in DOMAIN o.t[<<frag>>]
        BY <1>1, <2>3 DEF Alike, HasProp
      <3> QED BY <1>1, <3>1, <3>2 DEF Alike, w
    <2> QED BY <1>1, <1>4, <1>9, <2>3, <2>4 DEF IsTree
  <1> QED BY <1>8, <1>9

\* An edit that succeeds has been made.
LEMMA FitOk ==
    ASSUME NEW t, NEW new, NEW cp, Fit(t, new, cp).err = 0
    PROVE  Fit(t, new, cp).t = new
  <1>1. NOSPACE # 0
    BY DEF NOSPACE
  <1> QED BY <1>1 DEF Fit, Ok, Err

\* Each property of a node with another one merged into it.
LEMMA OverlaidAt ==
    ASSUME NEW g, NEW h, NEW v, v = Overlaid(g, h)
    PROVE  /\ \A x : x \in DOMAIN v <=> x \in DOMAIN g \/ x \in DOMAIN h
           /\ \A x \in DOMAIN g : v[x] = g[x]
           /\ \A x \in DOMAIN h : x \notin DOMAIN g => v[x] = h[x]
  BY DEF Overlaid

\* Nodes N of an overlay t, merged into m at the paths F: the result is u.
Applied(m, t, N, F, u) ==
    /\ DOMAIN u = DOMAIN m \cup {F[q] : q \in N}
    /\ IsTree(u)
    /\ \A q \in N : \A name \in DOMAIN t[q] :
         name \in DOMAIN u[F[q]] /\ u[F[q]][name] = t[q][name]
    /\ \A p \in DOMAIN m : DOMAIN m[p] \subseteq DOMAIN u[p]
    /\ \A p \in DOMAIN u : \A name \in DOMAIN u[p] :
         \/ \E q \in N : F[q] = p /\ name \in DOMAIN t[q]
         \/ HasProp(m, p, name) /\ u[p][name] = m[p][name]

\* A fragment's nodes, merged below target.
LEMMA ApplyNode ==
    ASSUME NEW m, NEW t, NEW target \in Seq(STRING), NEW frag \in STRING, NEW cp, IsTree(m), IsTree(t),
           NEW r, r = overlay_apply_node(m, target, t, <<frag, "__overlay__">>, cp), r.err = 0,
           NEW N, N = {q \in DOMAIN t : IsPrefix(<<frag, "__overlay__">>, q)},
           NEW F, F = [q \in N |-> target \o SubSeq(q, 3, Len(q))]
    PROVE  Applied(m, t, N, F, r.t)
  <1> DEFINE node == <<frag, "__overlay__">>
             at == [p \in {q \in DOMAIN t : IsPrefix(node, q)} |->
                      target \o SubSeq(p, Len(node) + 1, Len(p))]
             props(p) == IF \E q \in DOMAIN at : at[q] = p
                         THEN t[CHOOSE q \in DOMAIN at : at[q] = p] ELSE <<>>
             old(p) == IF p \in DOMAIN m THEN m[p] ELSE <<>>
             new == [p \in DOMAIN m \cup {at[q] : q \in DOMAIN at} |-> Overlaid(props(p), old(p))]
  <1>1. F = at /\ DOMAIN at = N
    <2>1. Len(node) + 1 = 3
      OBVIOUS
    <2> QED BY <2>1
  <1>2. r = Fit(m, new, cp)
    BY DEF overlay_apply_node
  <1> HIDE DEF at
  <1>3. r.t = new
    <2> HIDE DEF new
    <2> QED BY <1>2, FitOk
  <1>4. \A q \in N : q \in Seq(STRING) /\ Len(q) >= 2 /\ q[1] = frag /\ q[2] = "__overlay__"
    BY OverlayPath DEF IsTree
  <1>5. \A q \in N : F[q] = target \o SubSeq(q, 3, Len(q)) /\ F[q] \in Seq(STRING)
    <2> SUFFICES ASSUME NEW q \in N PROVE F[q] = target \o SubSeq(q, 3, Len(q)) /\ F[q] \in Seq(STRING)
      OBVIOUS
    <2>1. F[q] = target \o SubSeq(q, 3, Len(q))
      OBVIOUS
    <2>2. SubSeq(q, 3, Len(q)) \in Seq(STRING)
      BY <1>4, Rest
    <2> QED BY <2>1, <2>2, ConcatProperties
  <1>6. \A q, s \in N : F[q] = F[s] => q = s
    <2> SUFFICES ASSUME NEW q \in N, NEW s \in N, F[q] = F[s] PROVE q = s
      OBVIOUS
    <2>1. target \o SubSeq(q, 3, Len(q)) = target \o SubSeq(s, 3, Len(s))
      BY <1>5
    <2>2. /\ q \in Seq(STRING) /\ s \in Seq(STRING) /\ Len(q) >= 2 /\ Len(s) >= 2
          /\ q[1] = s[1] /\ q[2] = s[2]
      BY <1>4
    <2> QED BY <2>1, <2>2, SamePath
  <1>7. \A q \in N : props(F[q]) = t[q]
    <2> SUFFICES ASSUME NEW q \in N PROVE props(F[q]) = t[q]
      OBVIOUS
    <2>1. \A s \in N : F[s] = F[q] <=> s = q
      BY <1>6
    <2>2. (CHOOSE s \in DOMAIN at : at[s] = F[q]) = q
      BY <1>1, <2>1
    <2> QED BY <1>1, <2>2
  <1>8. \A p : (~\E q \in N : F[q] = p) => DOMAIN props(p) = {}
    <2> SUFFICES ASSUME NEW p, ~\E q \in N : F[q] = p PROVE DOMAIN props(p) = {}
      OBVIOUS
    <2>1. props(p) = <<>>
      BY <1>1
    <2>2. DOMAIN <<>> = {}
      OBVIOUS
    <2> HIDE DEF props
    <2> QED BY <2>1, <2>2, Zenon
  <1>9. /\ \A p \in DOMAIN m : old(p) = m[p]
        /\ \A p : p \notin DOMAIN m => DOMAIN old(p) = {}
    OBVIOUS
  <1>10. /\ DOMAIN new = DOMAIN m \cup {F[q] : q \in N}
         /\ \A p \in DOMAIN new : new[p] = Overlaid(props(p), old(p))
    BY <1>1
  <1> HIDE DEF props, old, new
  <1>11. \A q \in N : \A name \in DOMAIN t[q] :
             name \in DOMAIN new[F[q]] /\ new[F[q]][name] = t[q][name]
    <2> SUFFICES ASSUME NEW q \in N, NEW name \in DOMAIN t[q]
                 PROVE  name \in DOMAIN new[F[q]] /\ new[F[q]][name] = t[q][name]
      OBVIOUS
    <2>1. new[F[q]] = Overlaid(t[q], old(F[q]))
      BY <1>7, <1>10
    <2>2. PICK v, g, h : v = new[F[q]] /\ g = t[q] /\ h = old(F[q]) /\ v = Overlaid(g, h)
      BY <2>1
    <2>3. name \in DOMAIN v /\ v[name] = g[name]
      BY <2>2, OverlaidAt
    <2> QED BY <2>2, <2>3
  <1>12. \A p \in DOMAIN m : DOMAIN m[p] \subseteq DOMAIN new[p]
    <2> SUFFICES ASSUME NEW p \in DOMAIN m, NEW name \in DOMAIN m[p] PROVE name \in DOMAIN new[p]
      OBVIOUS
    <2>1. PICK v, g, h : v = new[p] /\ h = m[p] /\ v = Overlaid(g, h)
      BY <1>9, <1>10
    <2>2. name \in DOMAIN v
      BY <2>1, OverlaidAt
    <2> QED BY <2>1, <2>2
  <1>13. ASSUME NEW p \in DOMAIN new, NEW name \in DOMAIN new[p]
         PROVE  \/ \E q \in N : F[q] = p /\ name \in DOMAIN t[q]
                \/ HasProp(m, p, name) /\ new[p][name] = m[p][name]
    <2>1. PICK v, g, h : v = new[p] /\ g = props(p) /\ h = old(p) /\ v = Overlaid(g, h)
      BY <1>10
    <2>2. /\ name \in DOMAIN g \/ (name \in DOMAIN h /\ name \notin DOMAIN g)
          /\ name \in DOMAIN h /\ name \notin DOMAIN g => v[name] = h[name]
      BY <2>1, OverlaidAt
    <2>3. CASE name \in DOMAIN g
      <3>1. PICK q \in N : F[q] = p
        BY <1>8, <2>1, <2>3
      <3> QED BY <1>7, <2>1, <2>3, <3>1
    <2>4. CASE name \in DOMAIN h /\ name \notin DOMAIN g
      <3>1. p \in DOMAIN m /\ h = m[p]
        BY <1>9, <2>1, <2>4
      <3> QED BY <2>1, <2>2, <2>4, <3>1 DEF HasProp
    <2> QED BY <2>2, <2>3, <2>4
  <1>14. IsTree(new)
    <2>1. DOMAIN new \subseteq Seq(STRING)
      BY <1>5, <1>10 DEF IsTree
    <2>2. ASSUME NEW p \in DOMAIN new, NEW name \in DOMAIN new[p]
          PROVE  name \in STRING /\ new[p][name] \in ValueSet
      <3>1. CASE \E q \in N : F[q] = p /\ name \in DOMAIN t[q]
        <4>1. PICK q \in N : F[q] = p /\ name \in DOMAIN t[q]
          BY <3>1
        <4>2. new[p][name] = t[q][name] /\ q \in DOMAIN t
          BY <1>11, <4>1
        <4>3. DOMAIN t[q] \subseteq STRING /\ t[q][name] \in ValueSet
          BY <4>1, <4>2 DEF IsTree
        <4> QED BY <4>1, <4>2, <4>3
      <3>2. CASE HasProp(m, p, name) /\ new[p][name] = m[p][name]
        BY <3>2 DEF IsTree, HasProp
      <3> QED BY <1>13, <2>2, <3>1, <3>2
    <2> QED BY <2>1, <2>2 DEF IsTree
  <1>15. \A p \in DOMAIN new : \A name \in DOMAIN new[p] :
             \/ \E q \in N : F[q] = p /\ name \in DOMAIN t[q]
             \/ HasProp(m, p, name) /\ new[p][name] = m[p][name]
    BY <1>13
  <1>16. Applied(m, t, N, F, new)
    BY <1>10, <1>11, <1>12, <1>14, <1>15, Zenon DEF Applied
  <1> QED BY <1>3, <1>16

\* The nodes of the overlay that are merged before fragment n.
Done(o, n) == {p \in Merged(o) : \E j \in 1..(n - 1) : o.order[j] = p[1]}

\* overlay_merge adds the nodes of one fragment.
LEMMA MergeRight ==
    ASSUME NEW base, NEW o, NEW t, NEW m, NEW j \in 1..Len(o.order), NEW cp, Prepared(t, o, base),
           MergedTo(base, o, t, m, Done(o, j), {}), LastWins(base, o, t, m, j - 1, {}),
           NEW r, r = overlay_merge(m, o.order[j], t, cp), r.err = 0
    PROVE  MergedTo(base, o, t, r.t, Done(o, j + 1), {}) /\ LastWins(base, o, t, r.t, j, {})
  <1> DEFINE frag == o.order[j]
             D == Done(o, j)
             N == {p \in Merged(o) : p[1] = frag}
             node == <<frag, "__overlay__">>
  <1>1. o.order \in Seq(STRING) /\ IsTree(o.t) /\ HasParents(o.t) /\ Alike(t, o.t)
    BY DEF Prepared, IsOverlay
  <1>2. frag \in STRING /\ j \in Nat /\ Contains(o.order, frag)
    BY <1>1, ElementOfSeq, LenProperties DEF Contains
  <1>3. Done(o, j + 1) = D \cup N
    <2>1. \A i : i \in 1..(j + 1 - 1) <=> i \in 1..(j - 1) \/ i = j
      BY <1>2
    <2> QED BY <2>1 DEF Done
  <1>4. D \subseteq DOMAIN o.t /\ N \subseteq DOMAIN o.t
    BY DEF Done, Merged
  <1>5. N = {q \in DOMAIN t : IsPrefix(node, q)}
    <2>1. DOMAIN t = DOMAIN o.t /\ \A q \in DOMAIN t : q \in Seq(STRING)
      BY <1>1 DEF Alike, IsTree
    <2>2. ASSUME NEW q \in DOMAIN t
          PROVE  (q \in Merged(o) /\ q[1] = frag) <=> IsPrefix(node, q)
      BY <1>2, <2>1, <2>2, OverlayPath DEF Merged, Inside
    <2> QED BY <2>1, <2>2 DEF Merged
  <1>6. CASE node \notin DOMAIN t
    <2>1. r.t = m
      BY <1>6 DEF overlay_merge, Ok
    <2>2. N = {}
      <3> SUFFICES ASSUME NEW q \in N PROVE FALSE
        OBVIOUS
      <3>1. q \in DOMAIN o.t /\ q \in Seq(STRING) /\ IsPrefix(node, q) /\ Len(q) >= 2
        BY <1>4, <1>5, <1>1 DEF IsTree, Merged, Inside
      <3>2. SubSeq(node, 1, Len(node)) = SubSeq(q, 1, 2)
        BY <3>1 DEF IsPrefix
      <3>3. SubSeq(node, 1, Len(node)) = node
        <4>1. node \in Seq(STRING \cup {"__overlay__"})
          BY <1>2
        <4> HIDE DEF node
        <4> QED BY <4>1, SubSeqFull
      <3>4. 2 \in 0..Len(q)
        BY <3>1
      <3>5. SubSeq(q, 1, 2) \in DOMAIN o.t
        BY <1>1, <3>1, <3>4 DEF HasParents
      <3> QED BY <1>1, <1>6, <3>2, <3>3, <3>5 DEF Alike
    <2>3. LastWins(base, o, t, m, j, {})
      <3> SUFFICES ASSUME NEW q \in Merged(o), NEW c \in 1..j, NEW name \in DOMAIN o.t[q], o.order[c] = q[1],
                          \A i \in (c + 1)..j : \A x \in Merged(o) :
                             Final(base, o, x) = Final(base, o, q) /\ name \in DOMAIN o.t[x] => o.order[i] # x[1]
                   PROVE  m[Final(base, o, q)][name] = t[q][name]
        BY DEF LastWins
      <3>1. c # j
        BY <2>2
      <3>2. c \in 1..(j - 1) /\ \A i \in (c + 1)..(j - 1) : i \in (c + 1)..j
        BY <1>2, <3>1
      <3> QED BY <3>2 DEF LastWins
    <2> QED BY <1>3, <2>1, <2>2, <2>3
  <1>7. CASE node \in DOMAIN t
    <2>1. PICK g : g = overlay_get_target(m, t, frag)
      OBVIOUS
    <2>2. g.err = 0 /\ r = overlay_apply_node(m, g.path, t, node, cp)
      BY <1>7, <2>1 DEF overlay_merge, Err
    <2>3. g.path = TargetPath(base, o, frag) /\ g.path \in Seq(STRING)
      BY <1>4, <2>1, <2>2, TargetRight
    <2>4. PICK F : F = [q \in N |-> g.path \o SubSeq(q, 3, Len(q))]
      OBVIOUS
    <2>5. \A q \in N : F[q] = Final(base, o, q)
      BY <2>3, <2>4 DEF Final
    <2>6. IsTree(m) /\ DOMAIN m = DOMAIN base \cup {Final(base, o, p) : p \in D}
      BY DEF MergedTo
    <2> DEFINE u == r.t
    <2>a. Applied(m, t, N, F, u)
      <3> HIDE DEF N
      <3>1. IsTree(t)
        BY <1>1 DEF Alike
      <3> QED BY <1>2, <1>5, <2>2, <2>3, <2>4, <2>6, <3>1, ApplyNode
    <2>7. /\ DOMAIN u = DOMAIN m \cup {F[q] : q \in N}
          /\ IsTree(u)
          /\ \A q \in N : \A name \in DOMAIN t[q] :
               name \in DOMAIN u[F[q]] /\ u[F[q]][name] = t[q][name]
          /\ \A p \in DOMAIN m : DOMAIN m[p] \subseteq DOMAIN u[p]
          /\ \A p \in DOMAIN u : \A name \in DOMAIN u[p] :
               \/ \E q \in N : F[q] = p /\ name \in DOMAIN t[q]
               \/ HasProp(m, p, name) /\ u[p][name] = m[p][name]
      BY <2>a DEF Applied
    <2> HIDE DEF u, N, D
    <2>8. DOMAIN u = DOMAIN base \cup {Final(base, o, p) : p \in D \cup N} \cup {}
      BY <2>5, <2>6, <2>7
    <2>9. \A q \in N : DOMAIN t[q] = DOMAIN o.t[q]
      BY <1>1, <1>4 DEF Alike
    <2>10. ASSUME NEW p \in DOMAIN u, NEW name
           PROVE  Composed(base, o, t, u, D \cup N, p, name)
      <3>1. ASSUME name \in DOMAIN u[p]
            PROVE  \/ FromOverlay(base, o, t, u, D \cup N, p, name)
                   \/ FromBase(base, o, u, D \cup N, p, name)
        <4>1. CASE \E q \in N : F[q] = p /\ name \in DOMAIN t[q]
          <5>1. PICK q \in N : F[q] = p /\ name \in DOMAIN t[q]
            BY <4>1
          <5>2. u[p][name] = t[q][name] /\ Final(base, o, q) = p /\ name \in DOMAIN o.t[q]
            BY <2>5, <2>7, <2>9, <5>1
          <5> QED BY <5>2 DEF FromOverlay
        <4>2. CASE ~\E q \in N : F[q] = p /\ name \in DOMAIN t[q]
          <5>1. HasProp(m, p, name) /\ u[p][name] = m[p][name]
            BY <2>7, <3>1, <4>2
          <5>2. \/ FromOverlay(base, o, t, m, D, p, name)
                \/ FromBase(base, o, m, D, p, name)
            BY <5>1 DEF MergedTo, Composed, HasProp, D
          <5>3. CASE FromOverlay(base, o, t, m, D, p, name)
            BY <5>1, <5>3 DEF FromOverlay
          <5>4. CASE FromBase(base, o, m, D, p, name)
            <6>1. \A q \in N : Final(base, o, q) = p => name \notin DOMAIN o.t[q]
              BY <2>5, <2>9, <4>2
            <6> QED BY <5>1, <5>4, <6>1 DEF FromBase
          <5> QED BY <5>2, <5>3, <5>4
        <4> QED BY <4>1, <4>2
      <3>2. p \in DOMAIN m => Composed(base, o, t, m, D, p, name)
        BY DEF MergedTo, D
      <3>3. HasProp(base, p, name) => name \in DOMAIN u[p]
        BY <2>6, <2>7, <3>2 DEF Composed, HasProp
      <3>4. ASSUME NEW q \in D \cup N, Final(base, o, q) = p, name \in DOMAIN o.t[q]
            PROVE  name \in DOMAIN u[p]
        <4>1. CASE q \in D
          <5>1. p \in DOMAIN m
            BY <2>6, <3>4, <4>1
          <5> QED BY <2>7, <3>2, <3>4, <4>1, <5>1 DEF Composed
        <4>2. CASE q \in N
          BY <2>5, <2>7, <2>9, <3>4, <4>2
        <4> QED BY <3>4, <4>1, <4>2
      <3> QED BY <3>1, <3>3, <3>4 DEF Composed
    <2>11. LastWins(base, o, t, u, j, {})
      <3> SUFFICES ASSUME NEW q \in Merged(o), NEW c \in 1..j, NEW name \in DOMAIN o.t[q], o.order[c] = q[1],
                          \A i \in (c + 1)..j : \A x \in Merged(o) :
                             Final(base, o, x) = Final(base, o, q) /\ name \in DOMAIN o.t[x] => o.order[i] # x[1]
                   PROVE  u[Final(base, o, q)][name] = t[q][name]
        BY DEF LastWins
      <3> DEFINE p == Final(base, o, q)
      <3>1. CASE q \in N
        BY <2>5, <2>7, <2>9, <3>1
      <3>2. CASE q \notin N
        <4>1. c # j
          BY <3>2 DEF N
        <4>2. c \in 1..(j - 1) /\ j \in (c + 1)..j /\ \A i \in (c + 1)..(j - 1) : i \in (c + 1)..j
          BY <1>2, <4>1
        <4>3. m[p][name] = t[q][name]
          BY <4>2 DEF LastWins
        <4>4. ~\E x \in N : F[x] = p /\ name \in DOMAIN t[x]
          <5> SUFFICES ASSUME NEW x \in N, F[x] = p, name \in DOMAIN t[x] PROVE FALSE
            OBVIOUS
          <5>1. x \in Merged(o) /\ x[1] = o.order[j]
            BY DEF N
          <5>2. Final(base, o, x) = p /\ name \in DOMAIN o.t[x]
            BY <2>5, <2>9
          <5> QED BY <4>2, <5>1, <5>2
        <4>5. q \in D
          BY <4>2 DEF D, Done
        <4>6. p \in DOMAIN u /\ name \in DOMAIN u[p]
          <5>1. p \in DOMAIN u
            BY <2>8, <4>5
          <5>2. Composed(base, o, t, u, D \cup N, p, name)
            BY <2>10, <5>1
          <5> QED BY <4>5, <5>1, <5>2 DEF Composed
        <4> QED BY <2>7, <4>3, <4>4, <4>6
      <3> QED BY <3>1, <3>2
    <2> QED BY <1>3, <2>7, <2>8, <2>10, <2>11 DEF MergedTo, u
  <1> QED BY <1>6, <1>7

-----------------------------------------------------------------------------
(***************************************************************************)
(* The labels are added.                                                   *)
(***************************************************************************)
\* The labels of the overlay for its merged nodes name their final paths.
LabelsAdded(base, o, m) ==
    symbols \in DOMAIN o.t =>
        /\ \A label \in Brought(o.t) : label \in DOMAIN m[symbols]
        /\ \A label \in DOMAIN o.t[symbols] :
             Inside(o, o.t[symbols][label].path) =>
                 m[symbols][label].path = Final(base, o, o.t[symbols][label].path)

\* What else the tree has is as it was.
LabelsOnly(m, u, o, L) ==
    \A p \in DOMAIN m : \A name \in DOMAIN m[p] :
        p \notin L \/ name \notin Brought(o.t) => u[p][name] = m[p][name]

\* A target that is found is a node of the tree it is looked up in.
LEMMA TargetIn ==
    ASSUME NEW m, NEW t, NEW frag, NEW g, g = overlay_get_target(m, t, frag), g.err = 0
    PROVE  g.path \in DOMAIN m
  <1>1. BADPHANDLE # 0 /\ NOTFOUND # 0 /\ BADOVERLAY # 0
    BY DEF BADPHANDLE, NOTFOUND, BADOVERLAY
  <1>2. \A h : NodesByPhandle(m, h) # {} => (CHOOSE p \in NodesByPhandle(m, h) : TRUE) \in DOMAIN m
    <2> SUFFICES ASSUME NEW h, NodesByPhandle(m, h) # {}
                 PROVE  (CHOOSE p \in NodesByPhandle(m, h) : TRUE) \in DOMAIN m
      OBVIOUS
    <2>1. (CHOOSE p \in NodesByPhandle(m, h) : TRUE) \in NodesByPhandle(m, h)
      OBVIOUS
    <2> QED BY <2>1 DEF NodesByPhandle
  <1> QED BY <1>1, <1>2 DEF overlay_get_target

\* A value that is a path.
LEMMA PathValue ==
    ASSUME NEW p \in Seq(STRING)
    PROVE  PathVal(p) \in ValueSet /\ PathVal(p).path = p
  <1>1. <<>> \in Seq(0..(W - 1)) /\ <<>> \in Seq(PlaceSet)
    OBVIOUS
  <1> QED BY <1>1 DEF PathVal, ValueSet

\* overlay_symbol_update adds the labels and nothing else.
LEMMA SymbolRight ==
    ASSUME NEW base, NEW o, NEW t, NEW m, NEW D, NEW cp, Prepared(t, o, base), D \subseteq DOMAIN o.t,
           MergedTo(base, o, t, m, D, {}),
           NEW r, r = overlay_symbol_update(m, t, cp), r.err = 0
    PROVE  /\ MergedTo(base, o, t, r.t, D, {symbols} \cap DOMAIN o.t)
           /\ LabelsAdded(base, o, r.t) /\ LabelsOnly(m, r.t, o, {symbols} \cap DOMAIN o.t)
  <1>1. /\ IsTree(o.t) /\ Alike(t, o.t) /\ LabelsName(o.t) /\ DOMAIN t = DOMAIN o.t
        /\ IsTree(m) /\ IsTree(t)
    BY DEF Prepared, IsOverlay, Alike, MergedTo
  <1>2. CASE symbols \notin DOMAIN t
    <2>1. r.t = m /\ {symbols} \cap DOMAIN o.t = {}
      BY <1>1, <1>2 DEF overlay_symbol_update, Ok
    <2> QED BY <1>1, <1>2, <2>1 DEF LabelsAdded, LabelsOnly
  <1>3. CASE symbols \in DOMAIN t
    <2> DEFINE path == [label \in DOMAIN t[symbols] |-> t[symbols][label].path]
               moved == {label \in DOMAIN path : Len(path[label]) >= 2 /\ path[label][2] = "__overlay__"}
               target == [label \in moved |->
                            IF SubSeq(path[label], 1, 2) \notin DOMAIN t
                            THEN [path |-> <<>>, err |-> BADOVERLAY]
                            ELSE overlay_get_target(m, t, path[label][1])]
               new == [label \in moved |->
                         PathVal(SymbolPath(target[label].path, path[label]))]
               old == IF symbols \in DOMAIN m THEN m[symbols] ELSE <<>>
               errs == {target[label].err : label \in moved} \ {0}
               u == [p \in DOMAIN m \cup {symbols} |->
                       IF p = symbols THEN Overlaid(new, old) ELSE m[p]]
    <2>1. r = IF errs # {} THEN Outcome(errs, m) ELSE Fit(m, u, cp)
      BY <1>3 DEF overlay_symbol_update
    <2>2. 0 \notin errs
      OBVIOUS
    <2>3. errs = {} => \A label \in moved : target[label].err = 0
      OBVIOUS
    <2>4. DOMAIN new = moved
          /\ \A label \in moved : new[label] = PathVal(SymbolPath(target[label].path, path[label]))
      OBVIOUS
    <2>5. /\ \A label \in DOMAIN o.t[symbols] : /\ label \notin Phandles
                                                /\ path[label] = o.t[symbols][label].path
                                                /\ path[label] \in Seq(STRING)
          /\ DOMAIN path = DOMAIN o.t[symbols]
      BY <1>1, <1>3, TreeValue DEF Alike, LabelsName
    <2>6. \A label : label \in moved <=> /\ label \in DOMAIN o.t[symbols]
                                         /\ Len(path[label]) >= 2 /\ path[label][2] = "__overlay__"
      BY <2>5
    <2>7. \A label \in moved : target[label] = IF SubSeq(path[label], 1, 2) \notin DOMAIN t
                                               THEN [path |-> <<>>, err |-> BADOVERLAY]
                                               ELSE overlay_get_target(m, t, path[label][1])
      OBVIOUS
    <2>8. DOMAIN u = DOMAIN m \cup {symbols} /\ u[symbols] = Overlaid(new, old)
          /\ \A p \in DOMAIN m : p # symbols => u[p] = m[p]
      OBVIOUS
    <2>9. /\ symbols \in DOMAIN m => old = m[symbols]
          /\ symbols \notin DOMAIN m => DOMAIN old = {}
      <3>1. DOMAIN <<>> = {}
        OBVIOUS
      <3>2. symbols \notin DOMAIN m => old = <<>>
        OBVIOUS
      <3> QED BY <3>1, <3>2
    <2> HIDE DEF path, moved, target, new, old, errs, u
    <2>10. errs = {} /\ r.t = u
      <3>1. errs = {}
        BY <2>1, <2>2, OutcomeOk
      <3> QED BY <2>1, <3>1, FitOk
    <2>11. ASSUME NEW label \in moved
           PROVE  /\ target[label] = overlay_get_target(m, t, path[label][1])
                  /\ target[label].err = 0 /\ target[label].path \in Seq(STRING)
      <3>1. target[label].err = 0
        BY <2>3, <2>10
      <3>2. BADOVERLAY # 0
        BY DEF BADOVERLAY
      <3>3. target[label] = overlay_get_target(m, t, path[label][1])
        BY <2>7, <3>1, <3>2
      <3>4. target[label].path \in DOMAIN m
        BY <3>1, <3>3, TargetIn
      <3> QED BY <1>1, <3>1, <3>3, <3>4 DEF IsTree
    <2>12. ASSUME NEW label \in moved
           PROVE  /\ new[label] \in ValueSet
                  /\ new[label].path = target[label].path \o SubSeq(path[label], 3, Len(path[label]))
      <3>1. PICK s \in Seq(STRING) : s = SubSeq(path[label], 3, Len(path[label]))
        BY <2>5, <2>6, Rest
      <3>2. target[label].path \o s \in Seq(STRING)
        BY <2>11, ConcatProperties
      <3>3. new[label] = PathVal(target[label].path \o s)
        BY <2>4, <3>1 DEF SymbolPath
      <3> QED BY <3>1, <3>2, <3>3, PathValue
    <2>13. PICK v : v = u[symbols]
      OBVIOUS
    <2>14. /\ \A x : x \in DOMAIN v <=> x \in moved \/ x \in DOMAIN old
           /\ \A x \in moved : v[x] = new[x]
           /\ \A x \in DOMAIN old : x \notin moved => v[x] = old[x]
      BY <2>4, <2>8, <2>13, OverlaidAt
    <2>15. IsTree(u)
      <3>1. \A x \in DOMAIN old : x \in STRING /\ old[x] \in ValueSet
        BY <1>1, <2>9 DEF IsTree
      <3>2. \A x \in moved : x \in STRING
        BY <1>1, <1>3, <2>6 DEF IsTree
      <3>3. \A x \in DOMAIN v : x \in STRING /\ v[x] \in ValueSet
        BY <2>12, <2>14, <3>1, <3>2
      <3>4. symbols \in Seq(STRING)
        BY <1>1, <1>3 DEF IsTree
      <3> QED BY <1>1, <2>8, <2>13, <3>3, <3>4 DEF IsTree
    <2>16. DOMAIN u = DOMAIN base \cup {Final(base, o, p) : p \in D} \cup {symbols}
      BY <2>8 DEF MergedTo
    <2>17. ASSUME NEW p \in DOMAIN u, NEW name, p # symbols
           PROVE  Composed(base, o, t, u, D, p, name)
      <3>1. p \in DOMAIN m /\ u[p] = m[p] /\ Composed(base, o, t, m, D, p, name)
        BY <2>8, <2>17 DEF MergedTo
      <3> QED BY <3>1 DEF Composed, FromOverlay, FromBase
    <2>a. moved = Brought(o.t)
      BY <1>1, <1>3, <2>5, <2>6 DEF Brought
    <2>18. ASSUME NEW name, name \notin Brought(o.t)
           PROVE  Composed(base, o, t, u, D, symbols, name)
      <3>1. name \notin moved
        BY <2>a, <2>18
      <3>2. CASE symbols \in DOMAIN m
        <4>1. Composed(base, o, t, m, D, symbols, name)
          BY <3>2 DEF MergedTo
        <4>2. /\ name \in DOMAIN u[symbols] <=> name \in DOMAIN m[symbols]
              /\ name \in DOMAIN m[symbols] => u[symbols][name] = m[symbols][name]
          BY <2>9, <2>13, <2>14, <3>1, <3>2
        <4> QED BY <4>1, <4>2 DEF Composed, FromOverlay, FromBase
      <3>3. CASE symbols \notin DOMAIN m
        <4>1. name \notin DOMAIN u[symbols]
          BY <2>9, <2>13, <2>14, <3>1, <3>3
        <4>2. symbols \notin DOMAIN base /\ \A q \in D : Final(base, o, q) # symbols
          BY <3>3 DEF MergedTo
        <4> QED BY <4>1, <4>2 DEF Composed, HasProp
      <3> QED BY <3>2, <3>3
    <2>19. MergedTo(base, o, t, u, D, {symbols})
      BY <2>15, <2>16, <2>17, <2>18 DEF MergedTo
    <2>20. LabelsAdded(base, o, u)
      <3> SUFFICES ASSUME NEW label \in DOMAIN o.t[symbols], Inside(o, o.t[symbols][label].path)
                   PROVE  u[symbols][label].path = Final(base, o, o.t[symbols][label].path)
        BY <2>13, <2>14, <2>a DEF LabelsAdded
      <3>1. PICK p : p = path[label] /\ p = o.t[symbols][label].path
        BY <2>5
      <3>2. label \in moved /\ Contains(o.order, p[1])
        BY <2>6, <3>1 DEF Inside
      <3>3. PICK j \in 1..Len(o.order) : o.order[j] = p[1]
        BY <3>2 DEF Contains
      <3>4. PICK g : g = target[label]
        OBVIOUS
      <3>5. g = overlay_get_target(m, t, p[1]) /\ g.err = 0
        BY <2>11, <3>1, <3>2, <3>4
      <3>6. g.path = TargetPath(base, o, p[1])
        BY <3>3, <3>5, TargetRight
      <3>7. new[label].path = Final(base, o, p)
        BY <2>12, <3>1, <3>2, <3>4, <3>6 DEF Final
      <3> QED BY <2>13, <2>14, <3>1, <3>2, <3>7
    <2>21. {symbols} \cap DOMAIN o.t = {symbols}
      BY <1>1, <1>3
    <2>22. LabelsOnly(m, u, o, {symbols})
      BY <2>8, <2>9, <2>13, <2>14, <2>a DEF LabelsOnly
    <2> QED BY <2>10, <2>19, <2>20, <2>21, <2>22
  <1> QED BY <1>2, <1>3

-----------------------------------------------------------------------------
(***************************************************************************)
(* The state of the tool.                                                  *)
(***************************************************************************)
\* Nothing is merged before the first fragment,
LEMMA DoneNone == ASSUME NEW o PROVE Done(o, 1) = {}
  <1>1. 1..(1 - 1) = {}
    OBVIOUS
  <1> QED BY <1>1 DEF Done

\* and everything after the last one.
LEMMA DoneAll ==
    ASSUME NEW o, o.order \in Seq(STRING)
    PROVE  Done(o, Len(o.order) + 1) = Merged(o)
  <1>1. Len(o.order) \in Nat
    BY LenProperties
  <1>2. 1..((Len(o.order) + 1) - 1) = 1..Len(o.order)
    BY <1>1
  <1>3. \A p \in Merged(o) : \E j \in 1..Len(o.order) : o.order[j] = p[1]
    BY DEF Merged, Inside, Contains
  <1> QED BY <1>2, <1>3 DEF Done

\* The base itself is the tree with nothing merged.
LEMMA MergeStart ==
    ASSUME NEW base, NEW o, NEW t, GoodBase(base)
    PROVE  MergedTo(base, o, t, base, {}, {})
  <1>1. IsTree(base)
    BY DEF GoodBase
  <1>2. DOMAIN base = DOMAIN base \cup {Final(base, o, p) : p \in {}} \cup {}
    OBVIOUS
  <1>3. \A p \in DOMAIN base : \A name : Composed(base, o, t, base, {}, p, name)
    BY DEF Composed, FromBase, HasProp
  <1> QED BY <1>1, <1>2, <1>3 DEF MergedTo

\* The labels do not change what the last fragment counts for.
LEMMA LastKept ==
    ASSUME NEW base, NEW o, NEW t, NEW m, NEW u, NEW n, NEW L, MergedTo(base, o, t, m, Merged(o), {}),
           LastWins(base, o, t, m, n, {}), LabelsOnly(m, u, o, L)
    PROVE  LastWins(base, o, t, u, n, L)
  <1> SUFFICES ASSUME NEW q \in Merged(o), NEW j \in 1..n, NEW name \in DOMAIN o.t[q], o.order[j] = q[1],
                      Final(base, o, q) \notin L \/ name \notin Brought(o.t),
                      \A i \in (j + 1)..n : \A x \in Merged(o) :
                         Final(base, o, x) = Final(base, o, q) /\ name \in DOMAIN o.t[x] => o.order[i] # x[1]
               PROVE  u[Final(base, o, q)][name] = t[q][name]
    BY DEF LastWins
  <1> DEFINE p == Final(base, o, q)
  <1>1. m[p][name] = t[q][name]
    BY DEF LastWins
  <1>2. p \in DOMAIN m
    BY DEF MergedTo
  <1>3. Composed(base, o, t, m, Merged(o), p, name)
    BY <1>2 DEF MergedTo
  <1>4. name \in DOMAIN m[p]
    BY <1>3 DEF Composed
  <1> QED BY <1>1, <1>2, <1>4 DEF LabelsOnly

\* The cells that __local_fixups__ names are there.
LocalInRange(o) ==
    \A x \in DOMAIN o : IsPrefix(LocalPath(<<>>), x) =>
        /\ Tail(x) \in DOMAIN o
        /\ \A name \in DOMAIN o[x] :
             /\ name \in DOMAIN o[Tail(x)]
             /\ \A j \in DOMAIN o[x][name].cells :
                  ~(o[x][name].cells[j] + 1 > Len(o[Tail(x)][name].cells))

\* overlay_update_local_references fails unless they are.
LEMMA LocalRange ==
    ASSUME NEW o, NEW t, NEW d, LocalFixupsApart(o), Alike(t, o), Others(t, o),
           overlay_update_local_references(t, d).err = 0
    PROVE  LocalInRange(o)
  <1> DEFINE r == overlay_update_local_references(t, d)
             root == <<"__local_fixups__">>
             bad == {q \in {x \in DOMAIN t : IsPrefix(root, x)} :
                       \/ Tail(q) \notin DOMAIN t
                       \/ \E name \in DOMAIN t[q] :
                            \/ name \notin DOMAIN t[Tail(q)]
                            \/ \E j \in DOMAIN t[q][name].cells :
                                 t[q][name].cells[j] + 1 > Len(t[Tail(q)][name].cells)}
             errs == {BADOVERLAY : q \in bad}
  <1>1. \E u : r = Outcome(errs, u)
    BY DEF overlay_update_local_references
  <1>2. 0 \notin errs
    BY DEF BADOVERLAY
  <1>3. errs = {} => bad = {}
    OBVIOUS
  <1> HIDE DEF errs, bad, r
  <1>4. bad = {}
    <2>1. PICK u : r = Outcome(errs, u)
      BY <1>1
    <2>2. r.err = 0
      BY DEF r
    <2> QED BY <1>2, <1>3, <2>1, <2>2, OutcomeOk
  <1>5. LocalPath(<<>>) = root
    BY DEF LocalPath
  <1> SUFFICES ASSUME NEW x \in DOMAIN o, IsPrefix(root, x)
               PROVE  /\ Tail(x) \in DOMAIN o
                      /\ \A name \in DOMAIN o[x] :
                           /\ name \in DOMAIN o[Tail(x)]
                           /\ \A j \in DOMAIN o[x][name].cells :
                                ~(o[x][name].cells[j] + 1 > Len(o[Tail(x)][name].cells))
    BY <1>5 DEF LocalInRange
  <1> HIDE DEF root
  <1>6. DOMAIN t = DOMAIN o /\ \A p \in DOMAIN o : DOMAIN t[p] = DOMAIN o[p]
    BY DEF Alike
  <1>7. /\ Tail(x) \in DOMAIN t
        /\ \A name \in DOMAIN t[x] :
             /\ name \in DOMAIN t[Tail(x)]
             /\ \A j \in DOMAIN t[x][name].cells :
                  ~(t[x][name].cells[j] + 1 > Len(t[Tail(x)][name].cells))
    BY <1>4, <1>6 DEF bad
  <1>8. \A name \in DOMAIN o[x] : t[x][name] = o[x][name]
    BY <1>5 DEF LocalFixupsApart, Others
  <1>9. \A name \in DOMAIN o[Tail(x)] : Len(t[Tail(x)][name].cells) = Len(o[Tail(x)][name].cells)
    BY <1>6, <1>7 DEF Alike
  <1> QED BY <1>6, <1>7, <1>8, <1>9

\* A path inside __local_fixups__ is that of the node it is about.
LEMMA LocalTail ==
    ASSUME NEW x \in Seq(STRING), IsPrefix(LocalPath(<<>>), x)
    PROVE  LocalPath(Tail(x)) = x /\ Tail(x) \in Seq(STRING)
  <1> DEFINE S == STRING \cup {"__local_fixups__"}
             a == <<"__local_fixups__">>
  <1>1. a \in Seq(S) /\ Len(a) = 1 /\ LocalPath(<<>>) = a /\ a[1] \in S
    BY DEF LocalPath
  <1>2. x \in Seq(S)
    BY SeqMonotonic
  <1>3. Len(a) <= Len(x) /\ SubSeq(a, 1, 1) = SubSeq(x, 1, 1)
    BY <1>1 DEF IsPrefix
  <1> HIDE DEF a, S
  <1>4. Len(x) \in Nat /\ Len(x) >= 1 /\ x # <<>>
    BY <1>1, <1>2, <1>3, LenProperties, EmptySeq
  <1>5. x[1] = a[1]
    <2>1. x[1] \in S
      BY <1>2, <1>4, ElementIn
    <2>2. \A i \in 1..1 : x[i] \in S /\ a[i] \in S
      BY <1>1, <2>1
    <2>3. /\ SubSeq(a, 1, 1) \in Seq(S) /\ Len(SubSeq(a, 1, 1)) = 1
          /\ SubSeq(a, 1, 1)[1] = a[1]
      BY <2>2, SubSeqProperties
    <2>4. /\ SubSeq(x, 1, 1) \in Seq(S) /\ Len(SubSeq(x, 1, 1)) = 1
          /\ SubSeq(x, 1, 1)[1] = x[1]
      BY <2>2, SubSeqProperties
    <2> QED BY <1>3, <2>3, <2>4
  <1>6. PICK z : z = Tail(x)
    OBVIOUS
  <1>7. z \in Seq(S) /\ Len(z) = Len(x) - 1 /\ \A i \in 1..Len(z) : z[i] = x[i + 1]
    BY <1>2, <1>4, <1>6, HeadTailProperties
  <1>8. z \in Seq(STRING)
    BY <1>4, <1>6, HeadTailProperties
  <1>9. PICK y : y = a \o z
    OBVIOUS
  <1>10. y \in Seq(S) /\ Len(y) = Len(a) + Len(z)
    BY <1>1, <1>7, <1>9, ConcatProperties
  <1>11. \A i \in 1..(Len(a) + Len(z)) : y[i] = IF i <= Len(a) THEN a[i] ELSE z[i - Len(a)]
    <2>1. a \in Seq(S) /\ z \in Seq(S)
      BY <1>1, <1>7
    <2> QED BY <1>9, <2>1, ConcatProperties
  <1>12. ASSUME NEW i \in 1..Len(x) PROVE y[i] = x[i]
    <2>1. i \in 1..(Len(a) + Len(z))
      BY <1>1, <1>4, <1>7
    <2>2. CASE i = 1
      BY <1>1, <1>5, <1>11, <2>1, <2>2
    <2>3. CASE i # 1
      <3>1. ~(i <= 1) /\ i - 1 \in 1..Len(z) /\ (i - 1) + 1 = i
        BY <1>4, <1>7, <2>3
      <3> QED BY <1>1, <1>7, <1>11, <2>1, <3>1
    <2> QED BY <2>2, <2>3
  <1>13. Len(y) = Len(x)
    BY <1>1, <1>4, <1>7, <1>10
  <1>14. y = x
    BY <1>2, <1>10, <1>12, <1>13, SeqEqual
  <1> QED BY <1>6, <1>8, <1>9, <1>14 DEF LocalPath, a

\* The points where the program may be.
Phases == {"open", "adjust", "local", "fixup", "merge", "symbols", "applied",
           "error", "failed", "pack", "written"}
\* The base is a checked tree whenever an overlay is begun.
BaseInv ==
    /\ phase \in Phases /\ args \in OverlayLists /\ GoodBase(blob)
    /\ k \in Nat \ {0} /\ (phase \notin {"pack", "written"} => k <= Len(args))
\* Passes over the overlay leave the base as it is.
PassInv ==
    /\ phase \in {"adjust", "local", "fixup"} => tmp = blob /\ f = 1
    /\ phase = "adjust" => tmpo = ov.t
    /\ phase = "local" => /\ Alike(tmpo, ov.t) /\ Others(tmpo, ov.t)
                          /\ Moved(tmpo, ov.t, find_max_phandle(blob))
    /\ phase = "fixup" => /\ Alike(tmpo, ov.t)
                          /\ Moved(tmpo, ov.t, find_max_phandle(blob))
                          /\ LocalMoved(tmpo, ov.t, find_max_phandle(blob))
\* What update_local_references has found out about the overlay.
RangeInv == phase \in {"fixup", "merge", "symbols", "applied"} => LocalInRange(ov.t)
\* The base as far as the fragments and the labels are merged into it.
MergeInv ==
    /\ phase \in {"merge", "symbols", "applied"} => Prepared(tmpo, ov, blob)
    /\ phase = "merge" => /\ f \in 1..Len(ov.order)
                          /\ MergedTo(blob, ov, tmpo, tmp, Done(ov, f), {})
                          /\ LastWins(blob, ov, tmpo, tmp, f - 1, {})
    /\ phase = "symbols" => /\ MergedTo(blob, ov, tmpo, tmp, Merged(ov), {})
                            /\ LastWins(blob, ov, tmpo, tmp, Len(ov.order), {})
    /\ phase = "applied" => /\ MergedTo(blob, ov, tmpo, tmp, Merged(ov), Labelled)
                            /\ LastWins(blob, ov, tmpo, tmp, Len(ov.order), Labelled)
                            /\ LabelsAdded(blob, ov, tmp)
\* The inductive invariant.
Inv == BaseInv /\ PassInv /\ RangeInv /\ MergeInv

\* The files are checked trees.
LEMMA InitInv == Init => Inv
  <1> SUFFICES ASSUME Init PROVE Inv
    OBVIOUS
  <1>1. blob \in Bases /\ args \in OverlayLists /\ k = 1 /\ phase = "open"
    BY DEF Init
  <1>2. IsTree(blob) /\ CheckedPhandles(blob)
    BY <1>1, FilesAssumption
  <1>3. GoodBase(blob)
    BY <1>2 DEF GoodBase, Singles, CheckedPhandles
  <1>4. 1 <= Len(args)
    BY <1>1, FilesAssumption
  <1>5. BaseInv
    BY <1>1, <1>3, <1>4 DEF BaseInv, Phases
  <1> QED BY <1>1, <1>5 DEF Inv, PassInv, RangeInv, MergeInv

\* The overlay that is being applied is one of the files.
LEMMA OvGood ==
    ASSUME BaseInv, phase \notin {"pack", "written"}
    PROVE  IsOverlay(ov) /\ find_max_phandle(blob) \in 0..(W - 1) /\ Len(ov.order) \in Nat \ {0}
  <1>1. k \in 1..Len(args) /\ args \in OverlayLists
    <2>1. Len(args) \in Nat \ {0}
      BY FilesAssumption DEF BaseInv
    <2> QED BY <2>1 DEF BaseInv
  <1>2. IsOverlay(ov)
    BY <1>1, FilesAssumption DEF ov
  <1>3. find_max_phandle(blob) \in 0..(W - 1)
    BY MaxPhandle DEF BaseInv, GoodBase
  <1>4. ov.order \in Seq(STRING) /\ ov.order # <<>>
    BY <1>2 DEF IsOverlay
  <1>5. Len(ov.order) \in Nat \ {0}
    BY <1>4, EmptySeq, LenProperties
  <1> QED BY <1>2, <1>3, <1>5

\* The error exit needs nothing but the base.
LEMMA ErrorInv ==
    ASSUME BaseInv, phase \notin {"pack", "written"}, UNCHANGED <<blob, args, k>>,
           phase' \in {"open", "error", "failed"}
    PROVE  Inv'
  <1>1. BaseInv'
    BY DEF BaseInv, Phases
  <1> QED BY <1>1 DEF Inv, PassInv, RangeInv, MergeInv

\* Every step of an attempt keeps the invariant.
LEMMA NextInv == Inv /\ [Next]_vars => Inv'
  <1> SUFFICES ASSUME Inv, [Next]_vars PROVE Inv'
    OBVIOUS
  <1>0. BaseInv /\ PassInv /\ RangeInv /\ MergeInv
    BY DEF Inv
  <1> DEFINE d == find_max_phandle(blob)
  <1>1. CASE OpenCopy
    <2>1. /\ phase' = "adjust" /\ UNCHANGED <<blob, args, k>> /\ phase = "open"
          /\ tmp' = blob /\ tmpo' = ov.t /\ f' = 1
      BY <1>1 DEF OpenCopy
    <2>2. ov' = ov
      BY <2>1 DEF ov
    <2>3. BaseInv'
      BY <1>0, <2>1 DEF BaseInv, Phases
    <2> QED BY <2>1, <2>2, <2>3 DEF Inv, PassInv, RangeInv, MergeInv
  <1>2. CASE AdjustLocal
    <2> DEFINE r == overlay_adjust_local_phandles(tmpo, delta)
    <2>1. /\ phase = "adjust" /\ tmpo' = r.t /\ UNCHANGED <<blob, args, k, tmp, f>>
          /\ phase' = IF r.err = 0 THEN "local" ELSE "error"
      BY <1>2 DEF AdjustLocal, OnOverlay, Goto
    <2>2. CASE r.err # 0
      BY <1>0, <2>1, <2>2, ErrorInv
    <2>3. CASE r.err = 0
      <3>1. tmp = blob /\ f = 1 /\ tmpo = ov.t /\ delta = d
        BY <1>0, <2>1 DEF PassInv, delta
      <3>2. IsOverlay(ov) /\ d \in 0..(W - 1)
        BY <1>0, <2>1, OvGood
      <3>3. Alike(r.t, ov.t) /\ Moved(r.t, ov.t, d) /\ Others(r.t, ov.t)
        BY <2>3, <3>1, <3>2, AdjustRight DEF IsOverlay
      <3>4. phase' = "local" /\ ov' = ov
        BY <2>1, <2>3 DEF ov
      <3>5. BaseInv'
        BY <1>0, <2>1, <3>4 DEF BaseInv, Phases
      <3> HIDE DEF r
      <3> QED BY <2>1, <3>1, <3>3, <3>4, <3>5 DEF Inv, PassInv, RangeInv, MergeInv
    <2> QED BY <2>2, <2>3
  <1>3. CASE UpdateLocal
    <2> DEFINE r == overlay_update_local_references(tmpo, delta)
    <2>1. /\ phase = "local" /\ tmpo' = r.t /\ UNCHANGED <<blob, args, k, tmp, f>>
          /\ phase' = IF r.err = 0 THEN "fixup" ELSE "error"
      BY <1>3 DEF UpdateLocal, OnOverlay, Goto
    <2>2. CASE r.err # 0
      BY <1>0, <2>1, <2>2, ErrorInv
    <2>3. CASE r.err = 0
      <3>1. /\ tmp = blob /\ f = 1 /\ delta = d
            /\ Alike(tmpo, ov.t) /\ Others(tmpo, ov.t) /\ Moved(tmpo, ov.t, d)
        BY <1>0, <2>1 DEF PassInv, delta
      <3>2. IsOverlay(ov) /\ d \in 0..(W - 1)
        BY <1>0, <2>1, OvGood
      <3>3. Alike(r.t, ov.t) /\ Moved(r.t, ov.t, d) /\ LocalMoved(r.t, ov.t, d)
        BY <3>1, <3>2, UpdateRight DEF IsOverlay
      <3>6. LocalInRange(ov.t)
        BY <2>3, <3>1, <3>2, LocalRange DEF IsOverlay
      <3>4. phase' = "fixup" /\ ov' = ov
        BY <2>1, <2>3 DEF ov
      <3>5. BaseInv'
        BY <1>0, <2>1, <3>4 DEF BaseInv, Phases
      <3> HIDE DEF r
      <3> QED BY <2>1, <3>1, <3>3, <3>4, <3>5, <3>6 DEF Inv, PassInv, RangeInv, MergeInv
    <2> QED BY <2>2, <2>3
  <1>4. CASE FixupPhandles
    <2> DEFINE r == overlay_fixup_phandles(tmp, tmpo)
    <2>1. /\ phase = "fixup" /\ tmpo' = r.t /\ UNCHANGED <<blob, args, k, tmp, f>>
          /\ phase' = IF r.err = 0 THEN "merge" ELSE "error"
      BY <1>4 DEF FixupPhandles, OnOverlay, Goto
    <2>2. CASE r.err # 0
      BY <1>0, <2>1, <2>2, ErrorInv
    <2>3. CASE r.err = 0
      <3>1. /\ tmp = blob /\ f = 1
            /\ Alike(tmpo, ov.t) /\ Moved(tmpo, ov.t, d) /\ LocalMoved(tmpo, ov.t, d)
        BY <1>0, <2>1 DEF PassInv
      <3>2. IsOverlay(ov) /\ d \in 0..(W - 1) /\ Len(ov.order) \in Nat \ {0} /\ GoodBase(blob)
        BY <1>0, <2>1, OvGood DEF BaseInv
      <3>3. /\ Alike(r.t, ov.t) /\ Moved(r.t, ov.t, d) /\ LocalMoved(r.t, ov.t, d)
            /\ LabelsResolved(r.t, ov.t, blob)
        BY <2>3, <3>1, <3>2, FixupRight DEF IsOverlay, GoodBase
      <3>4. phase' = "merge" /\ ov' = ov
        BY <2>1, <2>3 DEF ov
      <3>5. BaseInv'
        BY <1>0, <2>1, <3>4 DEF BaseInv, Phases
      <3> HIDE DEF r
      <3>6. Prepared(r.t, ov, blob)
        BY <3>2, <3>3 DEF Prepared
      <3>7. MergedTo(blob, ov, r.t, blob, Done(ov, 1), {})
        BY <3>2, DoneNone, MergeStart
      <3>8. 1 \in 1..Len(ov.order)
        BY <3>2
      <3>9. LastWins(blob, ov, r.t, blob, 1 - 1, {})
        <4>1. 1..(1 - 1) = {}
          OBVIOUS
        <4> QED BY <4>1 DEF LastWins
      <3> QED BY <1>0, <2>1, <3>1, <3>4, <3>5, <3>6, <3>7, <3>8, <3>9 DEF Inv, PassInv, RangeInv, MergeInv
    <2> QED BY <2>2, <2>3
  <1>5. CASE Merge
    <2> DEFINE r == overlay_merge(tmp, ov.order[f], tmpo, cap)
    <2>1. /\ phase = "merge" /\ tmp' = r.t /\ UNCHANGED <<blob, args, k, tmpo>> /\ f' = f + 1
          /\ phase' = IF r.err = 0 THEN (IF f = Len(ov.order) THEN "symbols" ELSE "merge")
                      ELSE "error"
      BY <1>5 DEF Merge, OnBase, Goto
    <2>2. CASE r.err # 0
      BY <1>0, <2>1, <2>2, ErrorInv
    <2>3. CASE r.err = 0
      <3>1. /\ Prepared(tmpo, ov, blob) /\ f \in 1..Len(ov.order)
            /\ MergedTo(blob, ov, tmpo, tmp, Done(ov, f), {})
            /\ LastWins(blob, ov, tmpo, tmp, f - 1, {})
        BY <1>0, <2>1 DEF MergeInv
      <3>2. MergedTo(blob, ov, tmpo, r.t, Done(ov, f + 1), {}) /\ LastWins(blob, ov, tmpo, r.t, f, {})
        BY <2>3, <3>1, MergeRight
      <3>3. ov' = ov
        BY <2>1 DEF ov
      <3>4. phase' \in {"merge", "symbols"}
        BY <2>1, <2>3
      <3>5. BaseInv'
        BY <1>0, <2>1, <3>4 DEF BaseInv, Phases
      <3>6. Len(ov.order) \in Nat /\ ov.order \in Seq(STRING)
        BY <1>0, <2>1, OvGood DEF IsOverlay
      <3> HIDE DEF r
      <3>7. CASE f = Len(ov.order)
        <4>1. /\ phase' = "symbols" /\ MergedTo(blob, ov, tmpo, r.t, Merged(ov), {})
              /\ LastWins(blob, ov, tmpo, r.t, Len(ov.order), {})
          BY <2>1, <2>3, <3>2, <3>6, <3>7, DoneAll
        <4> QED BY <1>0, <2>1, <3>1, <3>3, <3>5, <4>1 DEF Inv, PassInv, RangeInv, MergeInv
      <3>8. CASE f # Len(ov.order)
        <4>1. phase' = "merge" /\ f + 1 \in 1..Len(ov.order) /\ (f + 1) - 1 = f
          BY <2>1, <2>3, <3>1, <3>6, <3>8
        <4> QED BY <1>0, <2>1, <3>1, <3>2, <3>3, <3>5, <4>1 DEF Inv, PassInv, RangeInv, MergeInv
      <3> QED BY <3>7, <3>8
    <2> QED BY <2>2, <2>3
  <1>6. CASE SymbolUpdate
    <2> DEFINE r == overlay_symbol_update(tmp, tmpo, cap)
    <2>1. /\ phase = "symbols" /\ tmp' = r.t /\ UNCHANGED <<blob, args, k, tmpo, f>>
          /\ phase' = IF r.err = 0 THEN "applied" ELSE "error"
      BY <1>6 DEF SymbolUpdate, OnBase, Goto
    <2>2. CASE r.err # 0
      BY <1>0, <2>1, <2>2, ErrorInv
    <2>3. CASE r.err = 0
      <3>1. /\ Prepared(tmpo, ov, blob) /\ MergedTo(blob, ov, tmpo, tmp, Merged(ov), {})
            /\ LastWins(blob, ov, tmpo, tmp, Len(ov.order), {})
        BY <1>0, <2>1 DEF MergeInv
      <3>2. Merged(ov) \subseteq DOMAIN ov.t
        BY DEF Merged
      <3>3. /\ MergedTo(blob, ov, tmpo, r.t, Merged(ov), Labelled)
            /\ LabelsAdded(blob, ov, r.t) /\ LabelsOnly(tmp, r.t, ov, Labelled)
        BY <2>3, <3>1, <3>2, SymbolRight DEF Labelled
      <3>4. phase' = "applied" /\ ov' = ov /\ Labelled' = Labelled
        BY <2>1, <2>3 DEF ov, Labelled
      <3>5. BaseInv'
        BY <1>0, <2>1, <3>4 DEF BaseInv, Phases
      <3> HIDE DEF r
      <3>6. LastWins(blob, ov, tmpo, r.t, Len(ov.order), Labelled)
        BY <3>1, <3>3, LastKept
      <3> QED BY <1>0, <2>1, <3>1, <3>3, <3>4, <3>5, <3>6 DEF Inv, PassInv, RangeInv, MergeInv
    <2> QED BY <2>2, <2>3
  <1>7. CASE Retry
    BY <1>0, <1>7, ErrorInv DEF Retry
  <1>8. CASE GiveUp
    BY <1>0, <1>8, ErrorInv DEF GiveUp
  <1>9. CASE TakeCopy
    <2>1. /\ phase = "applied" /\ blob' = tmp /\ k' = k + 1 /\ args' = args
          /\ phase' = IF k = Len(args) THEN "pack" ELSE "open"
      BY <1>9 DEF TakeCopy
    <2>2. Prepared(tmpo, ov, blob) /\ MergedTo(blob, ov, tmpo, tmp, Merged(ov), Labelled)
      BY <1>0, <2>1 DEF MergeInv
    <2>3. GoodBase(tmp)
      BY <2>2, MergedGood DEF Merged
    <2>4. Len(args) \in Nat /\ k \in Nat \ {0} /\ k <= Len(args)
      BY <1>0, <2>1, FilesAssumption DEF BaseInv
    <2>5. BaseInv'
      BY <1>0, <2>1, <2>3, <2>4 DEF BaseInv, Phases
    <2> QED BY <2>1, <2>5 DEF Inv, PassInv, RangeInv, MergeInv
  <1>10. CASE Write
    <2>1. phase' = "written" /\ UNCHANGED <<blob, args, k>>
      BY <1>10 DEF Write
    <2>2. BaseInv'
      BY <1>0, <2>1 DEF BaseInv, Phases
    <2> QED BY <2>1, <2>2 DEF Inv, PassInv, RangeInv, MergeInv
  <1>11. CASE UNCHANGED vars
    <2>1. UNCHANGED <<blob, args, k, tmp, tmpo, phase, f>> /\ ov' = ov /\ Labelled' = Labelled
      BY <1>11 DEF vars, ov, Labelled
    <2> QED BY <1>0, <2>1 DEF Inv, BaseInv, PassInv, RangeInv, MergeInv
  <1> QED BY <1>1, <1>2, <1>3, <1>4, <1>5, <1>6, <1>7, <1>8, <1>9, <1>10, <1>11 DEF Next

\* The invariant holds throughout.
LEMMA InvAlways == Spec => []Inv
  BY InitInv, NextInv, PTL DEF Spec

-----------------------------------------------------------------------------
(***************************************************************************)
(* What an applied overlay leaves.                                         *)
(***************************************************************************)
\* The state in which an overlay has been applied.
LEMMA AppliedState ==
    ASSUME Inv, phase = "applied"
    PROVE  /\ Prepared(tmpo, ov, blob) /\ LocalInRange(ov.t)
           /\ MergedTo(blob, ov, tmpo, tmp, Merged(ov), Labelled)
           /\ LastWins(blob, ov, tmpo, tmp, Len(ov.order), Labelled)
           /\ LabelsAdded(blob, ov, tmp)
           /\ Merged(ov) \subseteq DOMAIN ov.t
           /\ \A q \in Merged(ov) : Final(blob, ov, q) \in DOMAIN tmp
           /\ DOMAIN blob \subseteq DOMAIN tmp
  <1>1. /\ Prepared(tmpo, ov, blob) /\ LocalInRange(ov.t)
        /\ MergedTo(blob, ov, tmpo, tmp, Merged(ov), Labelled) /\ LabelsAdded(blob, ov, tmp)
        /\ LastWins(blob, ov, tmpo, tmp, Len(ov.order), Labelled)
    BY DEF Inv, RangeInv, MergeInv
  <1>2. Merged(ov) \subseteq DOMAIN ov.t
    BY DEF Merged
  <1> QED BY <1>1, <1>2 DEF MergedTo

\* No two nodes of the tree that an overlay leaves have the same phandle,
\* however many overlays come before it: those of the overlay are moved above
\* the base's (overlay_adjust_local_phandles), which makes the tree a base for
\* the next one.
THEOREM PhandlesUniqueTheorem == Spec => []PhandlesUnique
  <1>1. Inv => PhandlesUnique
    BY AppliedState, MergedGood DEF PhandlesUnique, GoodBase
  <1> QED BY <1>1, InvAlways, PTL

\* A property that the overlay sets is there,
LEMMA SetThere ==
    ASSUME Inv, phase = "applied", NEW q \in Merged(ov), NEW name \in DOMAIN ov.t[q],
           Final(blob, ov, q) # symbols \/ name \notin Brought(ov.t)
    PROVE  HasProp(tmp, Final(blob, ov, q), name)
  <1> DEFINE F == Final(blob, ov, q)
  <1>1. F \in DOMAIN tmp /\ MergedTo(blob, ov, tmpo, tmp, Merged(ov), Labelled)
    BY AppliedState
  <1>2. F \notin Labelled \/ name \notin Brought(ov.t)
    BY DEF Labelled
  <1>3. Composed(blob, ov, tmpo, tmp, Merged(ov), F, name)
    BY <1>1, <1>2 DEF MergedTo
  <1> QED BY <1>1, <1>3 DEF Composed, HasProp

\* with the value that the last fragment to set it has after the passes.
LEMMA LastValue ==
    ASSUME Inv, phase = "applied", NEW p, NEW name, NEW q, LastWriter(p, name, q),
           p # symbols \/ name \notin Brought(ov.t)
    PROVE  /\ HasProp(tmp, p, name) /\ tmp[p][name] = tmpo[q][name]
           /\ q \in Merged(ov) /\ name \in DOMAIN ov.t[q]
  <1>1. q \in Merged(ov) /\ Final(blob, ov, q) = p /\ name \in DOMAIN ov.t[q]
    BY DEF LastWriter, Writers
  <1>2. PICK j \in 1..Len(ov.order) :
            /\ ov.order[j] = q[1]
            /\ \A i \in (j + 1)..Len(ov.order) : \A x \in Writers(p, name) : ov.order[i] # x[1]
    BY DEF LastWriter
  <1>3. \A i \in (j + 1)..Len(ov.order) : \A x \in Merged(ov) :
            Final(blob, ov, x) = p /\ name \in DOMAIN ov.t[x] => ov.order[i] # x[1]
    BY <1>2 DEF Writers
  <1>4. p \notin Labelled \/ name \notin Brought(ov.t)
    BY DEF Labelled
  <1>5. LastWins(blob, ov, tmpo, tmp, Len(ov.order), Labelled)
    BY AppliedState
  <1>6. tmp[p][name] = tmpo[q][name]
    BY <1>1, <1>2, <1>3, <1>4, <1>5 DEF LastWins
  <1> QED BY <1>1, <1>6, SetThere

\* After the passes a value is what the overlay means by it.
LEMMA PassedValue ==
    ASSUME Inv, phase = "applied", NEW q \in Merged(ov), NEW name \in DOMAIN ov.t[q]
    PROVE  AsMeant(tmpo[q][name], q, name)
  <1> DEFINE c == ov.t[q][name].cells
             d == find_max_phandle(blob)
  <1>1. /\ Prepared(tmpo, ov, blob) /\ q \in DOMAIN ov.t /\ IsOverlay(ov) /\ Alike(tmpo, ov.t)
        /\ Moved(tmpo, ov.t, d) /\ LocalMoved(tmpo, ov.t, d) /\ LabelsResolved(tmpo, ov.t, blob)
        /\ IsTree(ov.t)
    BY AppliedState DEF Prepared, IsOverlay
  <1>2. /\ Len(tmpo[q][name].cells) = Len(c)
        /\ name \notin Phandles => /\ tmpo[q][name].path = ov.t[q][name].path
                                   /\ tmpo[q][name].places = ov.t[q][name].places
    BY <1>1 DEF Alike
  <1>3. ASSUME NEW i \in 1..Len(c) PROVE tmpo[q][name].cells[i] = Meant(q, name, i)
    <2> DEFINE labels == LabelsAt(ov.t, q, name, i)
    <2>1. Meant(q, name, i) =
            IF name \in Phandles THEN c[i] + d
            ELSE IF labels # {} THEN get_phandle(blob, Denotes(CHOOSE label \in labels : TRUE))
            ELSE IF LocalAt(ov.t, q, name, i) THEN (c[i] + d) % W
            ELSE c[i]
      BY DEF Meant
    <2>2. labels # {} <=> InLabel(ov.t, q, name, i)
      BY DEF LabelsAt, InLabel
    <2>3. CASE name \in Phandles
      <3>1. i = 1
        <4>1. Len(c) = 1
          BY <1>1, <2>3 DEF IsOverlay, CheckedPhandles
        <4> QED BY <4>1
      <3> QED BY <1>1, <2>1, <2>3, <3>1 DEF Moved
    <2>4. CASE name \notin Phandles /\ labels # {}
      <3>1. PICK label \in labels : label = CHOOSE x \in labels : TRUE
        BY <2>4
      <3>2. PICK place : place = Place(q, name, i - 1)
        OBVIOUS
      <3>3. label \in DOMAIN Fixups(ov.t) /\ place \in LabelPlaces(ov.t, label)
        BY <3>1, <3>2 DEF LabelsAt
      <3>4. place.path = q /\ place.name = name /\ place.off + 1 = i
        <4>1. i \in Int
          OBVIOUS
        <4> QED BY <3>2, <4>1 DEF Place
      <3>5. CellAt(tmpo, place.path, place) = get_phandle(blob, Denotes(label))
        BY <1>1, <3>3 DEF LabelsResolved, Denotes
      <3>6. tmpo[q][name].cells[i] = get_phandle(blob, Denotes(label))
        BY <3>4, <3>5 DEF CellAt
      <3> HIDE DEF labels
      <3> QED BY <2>1, <2>4, <3>1, <3>6
    <2>5. CASE name \notin Phandles /\ labels = {}
      <3>1. ~InLabel(ov.t, q, name, i)
        BY <2>2, <2>5
      <3> HIDE DEF labels
      <3> QED BY <1>1, <2>1, <2>5, <3>1 DEF LocalMoved
    <2> QED BY <2>3, <2>4, <2>5
  <1> QED BY <1>2, <1>3 DEF AsMeant

\* The tree has the nodes and properties of the base and of the fragments and
\* the labels brought, no more and no fewer; what no fragment sets is as it
\* was, and the rest has the value that the last fragment to set it means
\* (overlay_merge, overlay_apply_node, overlay_symbol_update), whichever
\* attempt it was that had room enough.
THEOREM MergeExactTheorem == Spec => []MergeExact
  <1>1. Inv => MergeExact
    <2> SUFFICES ASSUME Inv, phase = "applied" PROVE MergeExact
      BY DEF MergeExact
    <2> DEFINE brought(p) == IF p = symbols THEN Brought(ov.t) ELSE {}
               U(p) == UNION ({DOMAIN blob[q] : q \in {p} \cap DOMAIN blob}
                    \cup {DOMAIN ov.t[q] : q \in {r \in Merged(ov) : Final(blob, ov, r) = p}})
    <2>1. MergedTo(blob, ov, tmpo, tmp, Merged(ov), Labelled) /\ LabelsAdded(blob, ov, tmp)
      BY AppliedState
    <2>2. DOMAIN tmp = DOMAIN blob \cup {Final(blob, ov, p) : p \in Merged(ov)} \cup Labelled
      BY <2>1 DEF MergedTo
    <2>3. ASSUME NEW p \in DOMAIN tmp, NEW name, name \notin brought(p)
          PROVE  Composed(blob, ov, tmpo, tmp, Merged(ov), p, name)
      <3>1. p \notin Labelled \/ name \notin Brought(ov.t)
        BY <2>3 DEF Labelled
      <3> QED BY <2>1, <3>1 DEF MergedTo
    <2>4. ASSUME NEW p \in DOMAIN tmp PROVE DOMAIN tmp[p] = brought(p) \cup U(p)
      <3>1. \A name : name \in U(p) <=> \/ HasProp(blob, p, name)
                                        \/ \E q \in Merged(ov) : /\ Final(blob, ov, q) = p
                                                                 /\ name \in DOMAIN ov.t[q]
        BY DEF HasProp
      <3>2. \A name \in brought(p) : name \in DOMAIN tmp[p]
        <4>1. \A name \in Brought(ov.t) : symbols \in DOMAIN ov.t
          BY DEF Brought
        <4> QED BY <2>1, <4>1 DEF LabelsAdded
      <3> HIDE DEF U, brought
      <3>3. ASSUME NEW name, name \notin brought(p) PROVE name \in U(p) <=> name \in DOMAIN tmp[p]
        <4>1. Composed(blob, ov, tmpo, tmp, Merged(ov), p, name)
          BY <2>3, <3>3
        <4> QED BY <3>1, <4>1 DEF Composed, FromOverlay, FromBase
      <3>4. \A name : name \in brought(p) \cup U(p) <=> name \in DOMAIN tmp[p]
        BY <3>2, <3>3
      <3> QED BY <3>4
    <2>5. ASSUME NEW p \in DOMAIN tmp, NEW name \in DOMAIN tmp[p], name \notin brought(p),
                 Writers(p, name) = {}
          PROVE  tmp[p][name] = blob[p][name]
      <3>1. ~FromOverlay(blob, ov, tmpo, tmp, Merged(ov), p, name)
        BY <2>5 DEF FromOverlay, Writers
      <3>2. Composed(blob, ov, tmpo, tmp, Merged(ov), p, name)
        BY <2>3, <2>5
      <3> QED BY <3>1, <3>2 DEF Composed, FromBase
    <2>6. ASSUME NEW p \in DOMAIN tmp, NEW name \in DOMAIN tmp[p], name \notin brought(p),
                 NEW q \in Writers(p, name), LastWriter(p, name, q)
          PROVE  AsMeant(tmp[p][name], q, name)
      <3>1. p # symbols \/ name \notin Brought(ov.t)
        BY <2>6
      <3>2. tmp[p][name] = tmpo[q][name] /\ q \in Merged(ov) /\ name \in DOMAIN ov.t[q]
        BY <2>6, <3>1, LastValue
      <3> QED BY <3>2, PassedValue
    <2> QED BY <2>2, <2>4, <2>5, <2>6 DEF MergeExact
  <1> QED BY <1>1, InvAlways, PTL

\* The overlay's labels for merged nodes name them by their paths in the
\* result (overlay_symbol_update), where those nodes are.
THEOREM SymbolsResolveTheorem == Spec => []SymbolsResolve
  <1>1. Inv => SymbolsResolve
    <2> SUFFICES ASSUME Inv, phase = "applied", symbols \in DOMAIN ov.t,
                        NEW label \in DOMAIN ov.t[symbols], NEW p, p = ov.t[symbols][label].path,
                        Inside(ov, p)
                 PROVE  tmp[symbols][label].path = Final(blob, ov, p) /\ Final(blob, ov, p) \in DOMAIN tmp
      BY DEF SymbolsResolve
    <2>1. LabelsAdded(blob, ov, tmp) /\ LabelsName(ov.t)
      BY AppliedState DEF Prepared, IsOverlay
    <2>2. tmp[symbols][label].path = Final(blob, ov, p)
      BY <2>1 DEF LabelsAdded
    <2>3. p \in Merged(ov)
      BY <2>1 DEF LabelsName, Merged
    <2> QED BY <2>2, <2>3, AppliedState
  <1> QED BY <1>1, InvAlways, PTL

\* A node of the base that is not given another phandle keeps its own.
LEMMA KeptPhandle ==
    ASSUME Inv, phase = "applied", NEW p \in DOMAIN blob, get_phandle(blob, p) # 0, ~Rephandled(p)
    PROVE  get_phandle(tmp, p) = get_phandle(blob, p)
  <1>1. \A name \in Phandles : Writers(p, name) = {}
    BY DEF Rephandled
  <1>2. \A name \in Phandles, q \in Merged(ov) : Final(blob, ov, q) = p => name \notin DOMAIN ov.t[q]
    BY <1>1 DEF Writers
  <1> QED BY <1>2, AppliedState, PhandleFrom

\* A node that one node of the overlay alone gives a phandle has that one.
LEMMA GivenPhandle ==
    ASSUME Inv, phase = "applied", NEW q \in Merged(ov), get_phandle(ov.t, q) # 0,
           ~Rephandled(Final(blob, ov, q)), \A name \in Phandles : Sole(q, name)
    PROVE  get_phandle(tmp, Final(blob, ov, q)) = get_phandle(tmpo, q)
  <1> DEFINE F == Final(blob, ov, q)
  <1>1. /\ F \in DOMAIN tmp /\ MergedTo(blob, ov, tmpo, tmp, Merged(ov), Labelled)
        /\ Prepared(tmpo, ov, blob) /\ Merged(ov) \subseteq DOMAIN ov.t
    BY AppliedState
  <1>2. Singles(ov.t) /\ Singles(tmp)
    <2>1. Singles(ov.t)
      BY <1>1 DEF Prepared, IsOverlay, CheckedPhandles, Singles
    <2> QED BY <1>1, <2>1, MergedGood DEF GoodBase
  <1>3. PICK name \in Phandles : name \in DOMAIN ov.t[q]
    BY <1>2, SingleRange DEF HasProp
  <1>4. get_phandle(blob, F) = 0
    <2>1. q \in Writers(F, name)
      BY <1>3 DEF Writers
    <2> QED BY <2>1 DEF Rephandled
  <1>5. get_phandle(tmp, F) # 0
    <2>1. HasProp(tmp, F, name)
      BY <1>1, <1>3, SetThere, NoBrought DEF Prepared
    <2> QED BY <1>2, <2>1, SingleRange
  <1>6. PICK r \in Merged(ov) : /\ Final(blob, ov, r) = F /\ get_phandle(ov.t, r) # 0
                                /\ get_phandle(tmp, F) = get_phandle(tmpo, r)
    BY <1>1, <1>4, <1>5, PhandleFrom
  <1>7. PICK other \in Phandles : other \in DOMAIN ov.t[r]
    BY <1>2, <1>6, SingleRange DEF HasProp
  <1>8. r = q
    BY <1>6, <1>7 DEF Sole, Writers
  <1> QED BY <1>6, <1>8

\* Every cell that refers to a node holds that node's phandle in the result:
\* the references of the base, those resolved by overlay_fixup_phandles and
\* those moved by overlay_update_local_references.
THEOREM RefsResolveTheorem == Spec => []RefsResolve
  <1>1. Inv => RefsResolve
    <2> SUFFICES ASSUME Inv, phase = "applied" PROVE RefsResolve
      BY DEF RefsResolve
    <2>1. /\ Prepared(tmpo, ov, blob) /\ LocalInRange(ov.t)
          /\ MergedTo(blob, ov, tmpo, tmp, Merged(ov), Labelled)
          /\ DOMAIN blob \subseteq DOMAIN tmp
      BY AppliedState
    <2>2. /\ GoodBase(blob) /\ IsOverlay(ov) /\ Alike(tmpo, ov.t) /\ IsTree(ov.t) /\ IsTree(tmpo)
          /\ LabelsResolved(tmpo, ov.t, blob)
      BY <2>1 DEF Prepared, IsOverlay, Alike
    <2>3. ASSUME NEW p \in DOMAIN blob, p # symbols, NEW name \in DOMAIN blob[p], Writers(p, name) = {},
                 NEW i \in DOMAIN blob[p][name].cells,
                 NEW q \in Referred(blob, blob[p][name].cells[i]), ~Rephandled(q)
          PROVE  get_phandle(tmp, q) = tmp[p][name].cells[i]
      <3>1. p \in DOMAIN tmp /\ p \notin Labelled
        BY <2>1, <2>3 DEF Labelled
      <3>2. Composed(blob, ov, tmpo, tmp, Merged(ov), p, name)
        BY <2>1, <3>1 DEF MergedTo
      <3>3. ~FromOverlay(blob, ov, tmpo, tmp, Merged(ov), p, name)
        BY <2>3 DEF FromOverlay, Writers
      <3>4. tmp[p][name] = blob[p][name]
        BY <3>2, <3>3 DEF Composed, FromBase, HasProp
      <3>5. /\ q \in DOMAIN blob /\ get_phandle(blob, q) # 0
            /\ get_phandle(blob, q) = blob[p][name].cells[i]
        BY DEF Referred, NodesByPhandle
      <3> QED BY <2>3, <3>4, <3>5, KeptPhandle
    <2>4. ASSUME NEW label \in DOMAIN Fixups(ov.t), NEW place \in LabelPlaces(ov.t, label),
                 Cellular(place.path), ~Rephandled(Denotes(label)),
                 LastWriter(Final(blob, ov, place.path), place.name, place.path)
          PROVE  /\ HasCell(tmp, Final(blob, ov, place.path), place)
                 /\ CellAt(tmp, Final(blob, ov, place.path), place) = get_phandle(tmp, Denotes(label))
      <3>1. /\ Denotes(label) \in DOMAIN blob /\ get_phandle(blob, Denotes(label)) # 0
            /\ HasProp(ov.t, place.path, place.name)
            /\ place.off + 1 <= Len(ov.t[place.path][place.name].cells)
            /\ CellAt(tmpo, place.path, place) = get_phandle(blob, Denotes(label))
        BY <2>2 DEF LabelsResolved, Denotes
      <3>3. tmp[Final(blob, ov, place.path)][place.name] = tmpo[place.path][place.name]
        BY <2>4, LastValue DEF Cellular
      <3>4. get_phandle(tmp, Denotes(label)) = get_phandle(blob, Denotes(label))
        BY <2>4, <3>1, KeptPhandle
      <3>5. place.off + 1 \in DOMAIN tmpo[place.path][place.name].cells
        <4>1. /\ place.path \in DOMAIN tmpo /\ place.name \in DOMAIN tmpo[place.path]
              /\ Len(tmpo[place.path][place.name].cells) = Len(ov.t[place.path][place.name].cells)
          BY <2>2, <3>1 DEF Alike, HasProp
        <4>2. /\ DOMAIN tmpo[place.path][place.name].cells = 1..Len(tmpo[place.path][place.name].cells)
              /\ Len(tmpo[place.path][place.name].cells) \in Nat
          BY <2>2, <4>1, TreeValue
        <4>3. place.off \in Nat
          BY <2>2, PlaceOf
        <4> QED BY <3>1, <4>1, <4>2, <4>3
      <3> QED BY <3>1, <3>3, <3>4, <3>5 DEF HasCell, CellAt
    <2>5. ASSUME NEW place \in LocalPlaces(ov.t), Cellular(place.path),
                 LastWriter(Final(blob, ov, place.path), place.name, place.path),
                 NEW q \in Referred(ov.t, CellAt(ov.t, place.path, place)),
                 Inside(ov, q), ~Rephandled(Final(blob, ov, q)), \A name \in Phandles : Sole(q, name)
          PROVE  CellAt(tmp, Final(blob, ov, place.path), place) = get_phandle(tmp, Final(blob, ov, q))
      <3>0. PICK x \in DOMAIN ov.t : /\ IsPrefix(LocalPath(<<>>), x)
                                    /\ \E name \in DOMAIN ov.t[x] : \E c \in ToSet(ov.t[x][name].cells) :
                                         place = Place(Tail(x), name, c)
        BY DEF LocalPlaces
      <3>1. PICK name \in DOMAIN ov.t[x] : \E c \in ToSet(ov.t[x][name].cells) : place = Place(Tail(x), name, c)
        BY <3>0
      <3>4. PICK j \in DOMAIN ov.t[x][name].cells : place = Place(Tail(x), name, ov.t[x][name].cells[j])
        BY <3>1 DEF ToSet
      <3>5. /\ DOMAIN ov.t[x][name].cells = 1..Len(ov.t[x][name].cells)
            /\ ov.t[x][name].cells[j] \in 0..(W - 1)
        BY <2>2, <3>1, <3>4, TreeValue
      <3>c. PICK c \in Nat : c = ov.t[x][name].cells[j]
        BY <3>5, WordRange
      <3> DEFINE p == place.path
      <3>2. p = Tail(x) /\ place.name = name /\ place.off = c /\ place = Place(p, name, c)
        BY <3>4, <3>c DEF Place
      <3>3. LocalPath(p) = x /\ p \in Seq(STRING)
        BY <2>2, <3>0, <3>2, LocalTail DEF IsTree
      <3>6. /\ p \in DOMAIN ov.t /\ name \in DOMAIN ov.t[p]
            /\ ~(c + 1 > Len(ov.t[p][name].cells))
        BY <2>1, <3>0, <3>2, <3>c DEF LocalInRange
      <3>7. c + 1 \in 1..Len(ov.t[p][name].cells)
        <4>1. Len(ov.t[p][name].cells) \in Nat
          BY <2>2, <3>6, TreeValue
        <4> QED BY <3>2, <3>6, <4>1
      <3>8. c \in ToSet(ov.t[x][name].cells)
        BY <3>c DEF ToSet
      <3>9. (c + 1) - 1 = c
        BY <3>2
      <3> HIDE DEF p
      <3>10. LocalAt(ov.t, p, name, c + 1)
        BY <3>1, <3>3, <3>8, <3>9 DEF LocalAt, HasProp
      <3>11. ~InLabel(ov.t, p, name, c + 1)
        <4> SUFFICES ASSUME NEW label \in DOMAIN Fixups(ov.t), place \in LabelPlaces(ov.t, label)
                     PROVE  FALSE
          BY <3>2, <3>9 DEF InLabel
        <4>1. HasProp(ov.t, LocalPath(place.path), place.name) =>
                 place.off \notin ToSet(ov.t[LocalPath(place.path)][place.name].cells)
          BY <2>2 DEF IsOverlay, FixupsApart
        <4> QED BY <3>1, <3>2, <3>3, <3>8, <4>1 DEF HasProp, p
      <3>12. PICK d \in 0..(W - 1) : d = find_max_phandle(blob)
        BY <2>2, MaxPhandle DEF GoodBase
      <3>13. tmpo[p][name].cells[c + 1] = (ov.t[p][name].cells[c + 1] + d) % W
        BY <2>1, <3>6, <3>7, <3>10, <3>11, <3>12 DEF Prepared, LocalMoved
      <3>14. /\ q \in DOMAIN ov.t /\ get_phandle(ov.t, q) # 0
             /\ get_phandle(ov.t, q) = ov.t[p][name].cells[c + 1]
        BY <3>2 DEF Referred, NodesByPhandle, CellAt, p
      <3>15. /\ Singles(tmpo) /\ Singles(ov.t)
             /\ get_phandle(tmpo, q) = get_phandle(ov.t, q) + d
        <4>1. CheckedPhandles(ov.t) /\ Moved(tmpo, ov.t, d)
          BY <2>1, <2>2, <3>12 DEF Prepared, IsOverlay
        <4>2. Singles(tmpo) /\ Singles(ov.t)
          BY <2>2, <4>1, MovedPhandle
        <4>3. PICK other \in Phandles \cap DOMAIN ov.t[q] : TRUE
          BY <3>14, <4>2, SingleRange DEF HasProp
        <4> QED BY <2>2, <3>14, <4>1, <4>2, <4>3, MovedPhandle
      <3>16. tmpo[p][name].cells[c + 1] = get_phandle(tmpo, q)
        <4>1. PICK h \in 0..(W - 2) : h = get_phandle(tmpo, q)
          BY <3>15, SingleRange
        <4>2. h \in 0..(W - 1)
          BY WordRange
        <4> QED BY <3>13, <3>14, <3>15, <4>1, <4>2, ModWord
      <3>17. tmp[Final(blob, ov, p)][name] = tmpo[p][name]
        <4>1. Final(blob, ov, p) # symbols /\ LastWriter(Final(blob, ov, p), name, p)
          BY <2>5, <3>2 DEF Cellular, p
        <4> QED BY <4>1, LastValue
      <3>18. get_phandle(tmp, Final(blob, ov, q)) = get_phandle(tmpo, q)
        BY <2>5, <3>14, GivenPhandle DEF Merged
      <3> QED BY <3>2, <3>16, <3>17, <3>18 DEF CellAt, p
    <2> QED BY <2>3, <2>4, <2>5 DEF RefsResolve
  <1> QED BY <1>1, InvAlways, PTL

=============================================================================
