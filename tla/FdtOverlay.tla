----------------------------- MODULE FdtOverlay -----------------------------
(***************************************************************************)
(* fdt_overlay_apply (fdt_overlay.c) and the tool around it (fdtoverlay.c).*)
(* A tree is a function from paths to properties, which is what FdtRw shows*)
(* the blob functions to implement (DevTree); a buffer has room for "cap"  *)
(* units (a node takes one, a property one and one per cell).  A value has *)
(* cells, or is a path, or the list of the places of one label in          *)
(* __fixups__.  Names are compared as wholes.  Where several places of an  *)
(* overlay are at fault, the code reports the first one in its order and   *)
(* the model any one of them.                                              *)
(***************************************************************************)
EXTENDS Integers, Sequences, FiniteSets, FiniteSetsExt, SequencesExt, Folds

CONSTANT W                \* 2^32: phandles are below W - 1
NOTFOUND == -1
NOSPACE == -3
BADPHANDLE == -6
BADOVERLAY == -16
NOPHANDLES == -17

Cells(c) == [cells |-> c, path |-> <<>>, places |-> <<>>]
PathVal(p) == [cells |-> <<>>, path |-> p, places |-> <<>>]
PlacesVal(l) == [cells |-> <<>>, path |-> <<>>, places |-> l]
symbols == <<"__symbols__">>
Place(path, name, off) == [path |-> path, name |-> name, off |-> off]

-----------------------------------------------------------------------------
\* The tree functions of libfdt that overlays are built on.
HasProp(t, p, name) == p \in DOMAIN t /\ name \in DOMAIN t[p]
ValueSize(v) == Len(v.cells) + Len(v.path) + Len(v.places)
NodeSize(props) == 1 + MapThenFoldSet(+, 0, LAMBDA name : 1 + ValueSize(props[name]),
                                      LAMBDA S : CHOOSE x \in S : TRUE, DOMAIN props)
Size(t) == MapThenFoldSet(+, 0, LAMBDA p : NodeSize(t[p]),
                          LAMBDA S : CHOOSE x \in S : TRUE, DOMAIN t)
Overlaid(g, h) == [x \in DOMAIN g \cup DOMAIN h |-> IF x \in DOMAIN g THEN g[x] ELSE h[x]]
Ok(t) == [t |-> t, err |-> 0]
Err(t, e) == [t |-> t, err |-> e]
\* An edit of the base that fits in its buffer, or does not.
Fit(t, new, cap) == IF Size(new) > cap THEN Err(t, NOSPACE) ELSE Ok(new)

get_phandle(t, p) ==
    LET word(name) == HasProp(t, p, name) /\ Len(t[p][name].cells) = 1
    IN  IF word("phandle") THEN t[p]["phandle"].cells[1]
        ELSE IF word("linux,phandle") THEN t[p]["linux,phandle"].cells[1] ELSE 0
find_max_phandle(t) == Max({0} \cup {get_phandle(t, p) : p \in DOMAIN t})
NodesByPhandle(t, h) == {p \in DOMAIN t : get_phandle(t, p) = h}

-----------------------------------------------------------------------------
(***************************************************************************)
(* The passes over the overlay.  Each changes properties independently of  *)
(* one another, and fails with the code of a place that is at fault.       *)
(***************************************************************************)
Outcome(errs, t) == IF errs = {} THEN Ok(t) ELSE Err(t, CHOOSE e \in errs : TRUE)

\* Phandles of the overlay move out of the way of those of the base.
phandle_add_offset_wraps(v, delta) ==      \* mutant: no test for wrapping
    IF Len(v) # 1 THEN BADPHANDLE
    ELSE IF (v[1] + delta) % W = W - 1 THEN NOPHANDLES
    ELSE (v[1] + delta) % W
overlay_phandle_add_offset(v, delta) ==
    IF Len(v) # 1 THEN BADPHANDLE
    ELSE IF v[1] + delta >= W THEN NOPHANDLES          \* wraps around
    ELSE IF v[1] + delta = W - 1 THEN NOPHANDLES
    ELSE v[1] + delta

overlay_adjust_local_phandles(t, delta) ==
    LET at == {pn \in (DOMAIN t) \X {"phandle", "linux,phandle"} : pn[2] \in DOMAIN t[pn[1]]}
        new == [pn \in at |-> overlay_phandle_add_offset(t[pn[1]][pn[2]].cells, delta)]
    IN  Outcome({new[pn] : pn \in {q \in at : new[q] < 0}},
                [p \in DOMAIN t |-> [name \in DOMAIN t[p] |->
                   IF <<p, name>> \in at THEN Cells(<<new[<<p, name>>]>>) ELSE t[p][name]]])

\* The cells that __local_fixups__ names hold phandles of the overlay itself.
overlay_update_local_references(t, delta) ==
    LET root == <<"__local_fixups__">>
        fixups == {q \in DOMAIN t : IsPrefix(root, q)}
        offs(p, name) == IF HasProp(t, root \o p, name) THEN t[root \o p][name].cells ELSE <<>>
        times(p, name, i) == Cardinality({j \in DOMAIN offs(p, name) : offs(p, name)[j] = i - 1})
        bad == {q \in fixups : \/ Tail(q) \notin DOMAIN t
                               \/ \E name \in DOMAIN t[q] :
                                    \/ name \notin DOMAIN t[Tail(q)]
                                    \/ \E j \in DOMAIN t[q][name].cells :
                                         t[q][name].cells[j] + 1 > Len(t[Tail(q)][name].cells)}
    IN  Outcome({BADOVERLAY : q \in bad},
                [p \in DOMAIN t |-> [name \in DOMAIN t[p] |->
                   [t[p][name] EXCEPT !.cells =
                      [i \in DOMAIN @ |-> (@[i] + times(p, name, i) * delta) % W]]]])

\* One place that refers to a label of the base gets that node's phandle: the
\* phandle, or an error.
overlay_fixup_one_phandle(base, t, label, place) ==
    LET target == base[symbols][label].path
    IN  IF ~HasProp(base, symbols, label) THEN NOTFOUND
        ELSE IF target \notin DOMAIN base THEN NOTFOUND
        ELSE IF get_phandle(base, target) = 0 THEN NOTFOUND
        ELSE IF place.path \notin DOMAIN t THEN BADOVERLAY
        ELSE IF place.name \notin DOMAIN t[place.path] THEN NOTFOUND
        ELSE IF place.off + 1 > Len(t[place.path][place.name].cells) THEN NOSPACE
        ELSE get_phandle(base, target)

\* The places of every label, one after the other.
FirstPlaces(fixups) == {<<label, Head(fixups[label].places)>> : label \in DOMAIN fixups}  \* mutant
overlay_fixup_phandle(fixups) ==
    UNION {{<<label, place>> : place \in ToSet(fixups[label].places)} : label \in DOMAIN fixups}

overlay_fixup_phandles(base, t) ==
    LET fixups == IF <<"__fixups__">> \in DOMAIN t THEN t[<<"__fixups__">>] ELSE <<>>
        at == overlay_fixup_phandle(fixups)
        new == [lp \in at |-> overlay_fixup_one_phandle(base, t, lp[1], lp[2])]
        here(p, name, i) == {lp \in at : lp[2] = Place(p, name, i - 1)}
    IN  Outcome({new[lp] : lp \in {x \in at : new[x] < 0}},
                [p \in DOMAIN t |-> [name \in DOMAIN t[p] |->
                   [t[p][name] EXCEPT !.cells =
                      [i \in DOMAIN @ |-> IF here(p, name, i) = {} THEN @[i]
                                          ELSE new[CHOOSE lp \in here(p, name, i) : TRUE]]]]])

-----------------------------------------------------------------------------
\* The fragments of the overlay, merged into the base in their order.
overlay_get_target_phandle(t, frag) ==
    LET v == t[<<frag>>]["target"].cells
    IN  IF ~HasProp(t, <<frag>>, "target") THEN 0
        ELSE IF Len(v) # 1 THEN W - 1 ELSE v[1]

\* The path of the node a fragment is for, or an error.
overlay_get_target(base, t, frag) ==
    LET h == overlay_get_target_phandle(t, frag)
        path == t[<<frag>>]["target-path"].path
        no(e) == [path |-> <<>>, err |-> e]
    IN  IF h = W - 1 THEN no(BADPHANDLE)
        ELSE IF h # 0
             THEN IF NodesByPhandle(base, h) = {} THEN no(NOTFOUND)
                  ELSE [path |-> CHOOSE p \in NodesByPhandle(base, h) : TRUE, err |-> 0]
        ELSE IF ~HasProp(t, <<frag>>, "target-path") THEN no(BADOVERLAY)
        ELSE IF path \notin DOMAIN base THEN no(NOTFOUND)
        ELSE [path |-> path, err |-> 0]

\* The node and all below it: existing nodes are reused, properties replaced.
\* The room is checked once for the node, where the code checks each edit.
overlay_apply_node(base, target, t, node, cap) ==
    LET at == [p \in {q \in DOMAIN t : IsPrefix(node, q)} |->
                 target \o SubSeq(p, Len(node) + 1, Len(p))]
        props(p) == IF \E q \in DOMAIN at : at[q] = p
                    THEN t[CHOOSE q \in DOMAIN at : at[q] = p] ELSE <<>>
        old(p) == IF p \in DOMAIN base THEN base[p] ELSE <<>>
    IN  Fit(base, [p \in DOMAIN base \cup {at[q] : q \in DOMAIN at} |-> Overlaid(props(p), old(p))], cap)

\* One fragment; one without an __overlay__ is not to be merged.
overlay_merge(base, frag, t, cap) ==
    LET target == overlay_get_target(base, t, frag)
    IN  IF <<frag, "__overlay__">> \notin DOMAIN t THEN Ok(base)
        ELSE IF target.err # 0 THEN Err(base, target.err)
        ELSE overlay_apply_node(base, target.path, t, <<frag, "__overlay__">>, cap)

\* The path in the base of a node of the overlay.
SymbolPathRelative(target, path) == SubSeq(path, 3, Len(path))     \* mutant
SymbolPath(target, path) == target \o SubSeq(path, 3, Len(path))

\* The overlay's labels become labels of the base; one that is not about a
\* node below an __overlay__ is left out.
overlay_symbol_update(base, t, cap) ==
    LET path == [label \in DOMAIN t[symbols] |-> t[symbols][label].path]
        moved == {label \in DOMAIN path : Len(path[label]) >= 2 /\ path[label][2] = "__overlay__"}
        target == [label \in moved |->
                     IF SubSeq(path[label], 1, 2) \notin DOMAIN t
                     THEN [path |-> <<>>, err |-> BADOVERLAY]
                     ELSE overlay_get_target(base, t, path[label][1])]
        new == [label \in moved |->
                  PathVal(SymbolPath(target[label].path, path[label]))]
        old == IF symbols \in DOMAIN base THEN base[symbols] ELSE <<>>
        errs == {target[label].err : label \in moved} \ {0}
    IN  IF symbols \notin DOMAIN t THEN Ok(base)
        ELSE IF errs # {} THEN Outcome(errs, base)
        ELSE Fit(base, [p \in DOMAIN base \cup {symbols} |->
                          IF p = symbols THEN Overlaid(new, old) ELSE base[p]], cap)

=============================================================================
