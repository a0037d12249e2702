---------------------------- MODULE OverlayTool ----------------------------
(***************************************************************************)
(* fdtoverlay (fdtoverlay.c): overlays are applied to a base tree one after*)
(* the other, each attempt on fresh copies because a failed attempt damages*)
(* both, and again with a larger buffer when the attempt ran out of room.  *)
(* One action per step of fdt_overlay_apply (fdt_overlay.c:830-882), since *)
(* an attempt may fail after any of them.                                  *)
(***************************************************************************)
EXTENDS FdtOverlay

CONSTANTS Bases, OverlayLists, Pads,    \* the files given to the tool
          BUF_INCREMENT, MaxCap         \* MaxCap bounds the retries

(***************************************************************************)
(* The files are trees of words, strings and paths as dtc writes them.     *)
(* check_phandle_prop and check_explicit_phandles (checks.c:485-566) refuse*)
(* a phandle that is not one cell, 0 or -1, two that differ in one node and*)
(* one that two nodes have; every node has its parent; the fragments are   *)
(* nodes, a fragment that has a target has it as the reference to a label, *)
(* a cell refers to one label or one node at most and a phandle to none,   *)
(* and a label names a node.                                               *)
(***************************************************************************)
Phandles == {"phandle", "linux,phandle"}
PlaceSet == [path : Seq(STRING), name : STRING, off : Nat]
ValueSet == [cells : Seq(0..(W - 1)), path : Seq(STRING), places : Seq(PlaceSet)]
IsTree(t) ==
    /\ DOMAIN t \subseteq Seq(STRING)
    /\ \A p \in DOMAIN t : /\ DOMAIN t[p] \subseteq STRING
                           /\ \A name \in DOMAIN t[p] : t[p][name] \in ValueSet
UniquePhandles(t) ==
    \A p, q \in DOMAIN t : p # q /\ get_phandle(t, p) # 0
                           => get_phandle(t, p) # get_phandle(t, q)
CheckedPhandles(t) ==
    /\ \A p \in DOMAIN t : \A name \in Phandles \cap DOMAIN t[p] :
          /\ Len(t[p][name].cells) = 1
          /\ t[p][name].cells[1] \in 1..(W - 2) /\ t[p][name].cells[1] = get_phandle(t, p)
    /\ UniquePhandles(t)
HasParents(t) == \A p \in DOMAIN t : \A i \in 0..Len(p) : SubSeq(p, 1, i) \in DOMAIN t

\* The places of each label of the base that the overlay refers to.
Fixups(t) == IF <<"__fixups__">> \in DOMAIN t THEN t[<<"__fixups__">>] ELSE <<>>
LabelPlaces(t, label) == ToSet(Fixups(t)[label].places)
LocalPath(p) == <<"__local_fixups__">> \o p
FixupsApart(t) ==
    \A label \in DOMAIN Fixups(t) : label \notin Phandles /\ \A place \in LabelPlaces(t, label) :
        /\ place.name \notin Phandles
        /\ \A other \in DOMAIN Fixups(t) : place \in LabelPlaces(t, other) => other = label
        /\ HasProp(t, LocalPath(place.path), place.name) =>
              place.off \notin ToSet(t[LocalPath(place.path)][place.name].cells)
LocalFixupsApart(t) ==
    \A q \in DOMAIN t : IsPrefix(LocalPath(<<>>), q) =>
        \A name \in DOMAIN t[q] :
           /\ name \notin Phandles
           /\ \A i, j \in DOMAIN t[q][name].cells :
                 t[q][name].cells[i] = t[q][name].cells[j] => i = j
TargetsRefer(o) ==
    \A i \in 1..Len(o.order) : HasProp(o.t, <<o.order[i]>>, "target") =>
        \E label \in DOMAIN Fixups(o.t) :
            Place(<<o.order[i]>>, "target", 0) \in LabelPlaces(o.t, label)
LabelsName(t) ==
    symbols \in DOMAIN t => \A label \in DOMAIN t[symbols] :
        label \notin Phandles /\ t[symbols][label].path \in DOMAIN t
IsOverlay(o) ==
    /\ o.order \in Seq(STRING) /\ o.order # <<>>
    /\ IsTree(o.t) /\ HasParents(o.t) /\ CheckedPhandles(o.t)
    /\ FixupsApart(o.t) /\ LocalFixupsApart(o.t) /\ TargetsRefer(o) /\ LabelsName(o.t)

ASSUME FilesAssumption ==
    /\ W \in Nat /\ W > 1
    /\ \A t \in Bases : IsTree(t) /\ CheckedPhandles(t)
    /\ \A l \in OverlayLists : /\ Len(l) \in Nat \ {0}     \* usage: missing overlay file(s)
                              /\ \A j \in 1..Len(l) : IsOverlay(l[j])

VARIABLES blob,    \* the base with the first k - 1 overlays
          args, k, \* the overlays, and the one being applied
          tmp, tmpo, cap, phase, ret,
          f        \* the fragment to merge next

vars == <<blob, args, k, tmp, tmpo, cap, phase, ret, f>>
ov == args[k]

Init ==
    /\ blob \in Bases
    /\ args \in OverlayLists
    /\ \E pad \in Pads : cap = Size(blob) + pad
    /\ k = 1 /\ tmp = <<>> /\ tmpo = <<>> /\ phase = "open" /\ ret = 0 /\ f = 1

OpenDamaged ==    \* mutant: a new attempt on the overlay that the last one has changed
    /\ phase = "open"
    /\ tmp' = blob /\ phase' = "adjust" /\ ret' = 0 /\ f' = 1
    /\ tmpo' = IF ret = NOSPACE THEN tmpo ELSE ov.t
    /\ UNCHANGED <<blob, args, k, cap>>
\* The copy always fits: cap is at least the size of the base.
OpenCopy ==
    /\ phase = "open"
    /\ tmp' = blob /\ tmpo' = ov.t /\ phase' = "adjust" /\ ret' = 0 /\ f' = 1
    /\ UNCHANGED <<blob, args, k, cap>>

\* The outcome of a step decides between the next step and the error exit.
Goto(err, next) ==
    /\ ret' = err
    /\ phase' = IF err = 0 THEN next ELSE "error"
    /\ UNCHANGED <<blob, args, k, cap>>

OnOverlay(step, next, r) ==
    /\ phase = step
    /\ Goto(r.err, next) /\ tmpo' = r.t /\ UNCHANGED <<tmp, f>>
OnBase(step, next, r) ==
    /\ phase = step
    /\ Goto(r.err, next) /\ tmp' = r.t /\ UNCHANGED tmpo

delta == find_max_phandle(tmp)
AdjustLocal == OnOverlay("adjust", "local", overlay_adjust_local_phandles(tmpo, delta))
UpdateLocal == OnOverlay("local", "fixup", overlay_update_local_references(tmpo, delta))
FixupPhandles == OnOverlay("fixup", "merge", overlay_fixup_phandles(tmp, tmpo))
Merge ==
    /\ OnBase("merge", IF f = Len(ov.order) THEN "symbols" ELSE "merge",
              overlay_merge(tmp, ov.order[f], tmpo, cap))
    /\ f' = f + 1
SymbolUpdate ==
    /\ OnBase("symbols", "applied", overlay_symbol_update(tmp, tmpo, cap))
    /\ UNCHANGED f

RetryAsIs ==      \* mutant: the buffer stays as it is
    /\ phase = "error" /\ ret = NOSPACE
    /\ phase' = "open"
    /\ UNCHANGED <<blob, args, k, tmp, tmpo, cap, ret, f>>
Retry ==
    /\ phase = "error" /\ ret = NOSPACE /\ cap + BUF_INCREMENT <= MaxCap
    /\ cap' = cap + BUF_INCREMENT /\ phase' = "open"
    /\ UNCHANGED <<blob, args, k, tmp, tmpo, ret, f>>

GiveUp ==
    /\ phase = "error" /\ ret # NOSPACE
    /\ phase' = "failed" /\ UNCHANGED <<blob, args, k, tmp, tmpo, cap, ret, f>>

TakeCopy ==
    /\ phase = "applied"
    /\ blob' = tmp /\ k' = k + 1
    /\ phase' = IF k = Len(args) THEN "pack" ELSE "open"
    /\ UNCHANGED <<args, tmp, tmpo, cap, ret, f>>

Write ==
    /\ phase = "pack"
    /\ phase' = "written" /\ UNCHANGED <<blob, args, k, tmp, tmpo, cap, ret, f>>

Next == \/ OpenCopy \/ AdjustLocal \/ UpdateLocal \/ FixupPhandles \/ Merge
        \/ SymbolUpdate \/ Retry \/ GiveUp \/ TakeCopy \/ Write

\* A sequential program goes on while it has a next statement.
Spec == Init /\ [][Next]_vars /\ WF_vars(Next)

-----------------------------------------------------------------------------
(***************************************************************************)
(* What an overlay o means for a base, read off the overlay as it was given*)
(* and the base as it was before.                                          *)
(***************************************************************************)
TargetPath(base, o, frag) ==
    LET here == Place(<<frag>>, "target", 0)
        labels == {label \in DOMAIN Fixups(o.t) : here \in LabelPlaces(o.t, label)}
    IN  IF labels # {} THEN base[symbols][CHOOSE label \in labels : TRUE].path
        ELSE o.t[<<frag>>]["target-path"].path

Inside(o, p) == Len(p) >= 2 /\ p[2] = "__overlay__" /\ Contains(o.order, p[1])
Merged(o) == {p \in DOMAIN o.t : Inside(o, p)}
Final(base, o, p) == TargetPath(base, o, p[1]) \o SubSeq(p, 3, Len(p))
LocalPlaces(t) ==
    UNION {UNION {{Place(Tail(x), name, c) : c \in ToSet(t[x][name].cells)} : name \in DOMAIN t[x]} :
           x \in {g \in DOMAIN t : IsPrefix(LocalPath(<<>>), g)}}
CellAt(t, p, place) == t[p][place.name].cells[place.off + 1]
HasCell(t, p, place) == place.off + 1 \in DOMAIN t[p][place.name].cells

\* The nodes of the overlay that give node p of the result its property.
Writers(p, name) == {q \in Merged(ov) : Final(blob, ov, q) = p /\ name \in DOMAIN ov.t[q]}
\* Where several fragments set a property, the last one in their order counts.
LastWriter(p, name, q) ==
    /\ q \in Writers(p, name)
    /\ \E j \in 1..Len(ov.order) :
          /\ ov.order[j] = q[1]
          /\ \A i \in (j + 1)..Len(ov.order) : \A x \in Writers(p, name) : ov.order[i] # x[1]
Sole(q, name) == Writers(Final(blob, ov, q), name) \subseteq {q}
\* __symbols__ has labels, not cells.
Cellular(q) == Inside(ov, q) /\ Final(blob, ov, q) # symbols

\* A node of the base with a phandle that the overlay gives another one.
Rephandled(p) == get_phandle(blob, p) # 0 /\ \E name \in Phandles : Writers(p, name) # {}
Denotes(label) == blob[symbols][label].path
\* The nodes that a cell refers to.
Referred(t, h) == IF h = 0 THEN {} ELSE NodesByPhandle(t, h)

\* What a cell of the overlay means: a phandle, or a reference to a node of the
\* overlay, is moved above the base's phandles, once; a reference to a label is
\* the phandle of its node; anything else is as it is.
LabelsAt(t, q, name, i) == {label \in DOMAIN Fixups(t) : Place(q, name, i - 1) \in LabelPlaces(t, label)}
LocalAt(t, q, name, i) ==
    HasProp(t, LocalPath(q), name) /\ i - 1 \in ToSet(t[LocalPath(q)][name].cells)
Meant(q, name, i) ==
    LET cell == ov.t[q][name].cells[i]
        labels == LabelsAt(ov.t, q, name, i)
    IN  IF name \in Phandles THEN cell + find_max_phandle(blob)
        ELSE IF labels # {} THEN get_phandle(blob, Denotes(CHOOSE label \in labels : TRUE))
        ELSE IF LocalAt(ov.t, q, name, i) THEN (cell + find_max_phandle(blob)) % W
        ELSE cell
AsMeant(v, q, name) ==
    LET given == ov.t[q][name]
    IN  /\ Len(v.cells) = Len(given.cells)
        /\ \A i \in 1..Len(given.cells) : v.cells[i] = Meant(q, name, i)
        /\ name \notin Phandles => v.path = given.path /\ v.places = given.places

\* The labels that the overlay brings, those of nodes below an __overlay__.
Labelled == {symbols} \cap DOMAIN ov.t
Brought(t) ==
    {label \in UNION {DOMAIN t[p] : p \in {symbols} \cap DOMAIN t} :
       Len(t[symbols][label].path) >= 2 /\ t[symbols][label].path[2] = "__overlay__"}

\* The tree after an overlay has exactly the nodes and properties of the base
\* and of the overlay's fragments, __symbols__ those of the base and the labels
\* brought; what the overlay does not set is as before, and what it sets has
\* the value it means, from the last fragment that sets it, shifted and
\* resolved once however many attempts there were (fdt_overlay.c,
\* overlay_merge, overlay_symbol_update; fdtoverlay.c:51-76).
MergeExact ==
    phase = "applied" =>
        /\ DOMAIN tmp = DOMAIN blob \cup {Final(blob, ov, p) : p \in Merged(ov)} \cup Labelled
        /\ \A p \in DOMAIN tmp :
             LET brought == IF p = symbols THEN Brought(ov.t) ELSE {}
             IN  /\ DOMAIN tmp[p] = brought \cup UNION ({DOMAIN blob[q] : q \in {p} \cap DOMAIN blob}
                        \cup {DOMAIN ov.t[q] : q \in {r \in Merged(ov) : Final(blob, ov, r) = p}})
                 /\ \A name \in DOMAIN tmp[p] \ brought :
                      /\ Writers(p, name) = {} => tmp[p][name] = blob[p][name]
                      /\ \A q \in Writers(p, name) :
                            LastWriter(p, name, q) => AsMeant(tmp[p][name], q, name)

\* Every cell that refers to a node holds the phandle which that node has in
\* the result: cells of the base, cells that name a label of the base, cells
\* that name a node of the overlay.  (A node whose phandle the overlay itself
\* overwrites is not covered: see the README.)
RefsResolve ==
    phase = "applied" =>
        /\ \A p \in DOMAIN blob \ {symbols} :
             \A name \in {n \in DOMAIN blob[p] : Writers(p, n) = {}} :
                \A i \in DOMAIN blob[p][name].cells :
                   \A q \in Referred(blob, blob[p][name].cells[i]) :
                      ~Rephandled(q) => get_phandle(tmp, q) = tmp[p][name].cells[i]
        /\ \A label \in DOMAIN Fixups(ov.t) : \A place \in LabelPlaces(ov.t, label) :
             LET final == Final(blob, ov, place.path)
             IN  (Cellular(place.path) /\ LastWriter(final, place.name, place.path)
                  /\ ~Rephandled(Denotes(label)))
                 => HasCell(tmp, final, place)
                    /\ CellAt(tmp, final, place) = get_phandle(tmp, Denotes(label))
        /\ \A place \in LocalPlaces(ov.t) :
             LET final == Final(blob, ov, place.path)
             IN  (Cellular(place.path) /\ LastWriter(final, place.name, place.path)) =>
                 \A q \in Referred(ov.t, CellAt(ov.t, place.path, place)) :
                    (/\ Inside(ov, q) /\ ~Rephandled(Final(blob, ov, q))
                     /\ \A name \in Phandles : Sole(q, name))
                    => CellAt(tmp, final, place) = get_phandle(tmp, Final(blob, ov, q))

\* No two nodes of the result have the same phandle, however many overlays
\* were applied (fdt_overlay.c:102-139 moves the overlay's above the base's).
PhandlesUnique == phase = "applied" => UniquePhandles(tmp)

\* Each label of the overlay that is about a merged node names that node in
\* the result, so that the next overlay may refer to it.
SymbolsResolve ==
    (phase = "applied" /\ symbols \in DOMAIN ov.t) =>
        \A label \in DOMAIN ov.t[symbols] :
            LET p == ov.t[symbols][label].path
            IN  Inside(ov, p) => /\ tmp[symbols][label].path = Final(blob, ov, p)
                                 /\ Final(blob, ov, p) \in DOMAIN tmp

FixupsInRange ==
    \A j \in DOMAIN args :
        LET t == args[j].t
        IN  \A label \in DOMAIN Fixups(t) : \A place \in LabelPlaces(t, label) :
              HasProp(t, place.path, place.name)
              => place.off < Len(t[place.path][place.name].cells)

\* The tool ends, with an output or an error, for overlays whose fixups lie in
\* the properties they are for: enough retries make the buffer large enough.
Ends == FixupsInRange => <>(phase \in {"written", "failed"})

=============================================================================
