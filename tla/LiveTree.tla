------------------------------ MODULE LiveTree ------------------------------
(***************************************************************************)
(* dtc's tree in memory: property data with markers (data.c), nodes that   *)
(* are marked deleted rather than removed (livetree.c).                    *)
(*                                                                         *)
(* A tree is a sequence of nodes in the order of their allocation; a node  *)
(* is its index, the root is 1, 0 is NULL.  A name, a label and a reference*)
(* are sequences of characters; data is cells as in FdtMem.  A definition  *)
(* in the source is a nested record (Def) with its properties and subnodes *)
(* in the order of the text, deletions included.                           *)
(***************************************************************************)
EXTENDS FdtRo

N_name == <<110>>
N_target == <<116>>
N_target_path == <<116, 112>>
N_overlay == <<95>>
N_clocks == <<99>>
N_clock_cells == <<35>>
N_symbols == <<36>>
N_fixups == <<37>>
N_local_fixups == <<38>>
FragmentName(i) == <<102, AT, 48 + i>>

-----------------------------------------------------------------------------
\* Data: cells, and markers that say what is at an offset.
empty_data == [val |-> <<>>, markers |-> <<>>]
Marker(type, ref, off) == [type |-> type, ref |-> ref, off |-> off]

data_append_data(d, s) == [d EXCEPT !.val = @ \o s]
data_append_cell(d, w) == data_append_data(d, WordCells(w))
AlignUp(n, a) == ((n + a - 1) \div a) * a
data_add_marker(d, type, ref) ==
    [d EXCEPT !.markers = Append(@, Marker(type, ref, Len(d.val)))]
data_string(s) ==
    data_append_data(data_add_marker(empty_data, "STRING", <<>>), Append(s, NUL))

\* Inserting at the m-th marker moves what follows it, later markers included.
insert_keeping_markers(d, m, s) ==      \* mutant: the markers stay
    LET off == d.markers[m].off
    IN  [d EXCEPT !.val = SubSeq(@, 1, off) \o s \o SubSeq(@, off + 1, Len(@))]
data_insert_at_marker(d, m, s) ==
    LET off == d.markers[m].off
    IN  [val |-> SubSeq(d.val, 1, off) \o s \o SubSeq(d.val, off + 1, Len(d.val)),
         markers |-> [i \in DOMAIN d.markers |->
                        IF i > m THEN [d.markers[i] EXCEPT !.off = @ + Len(s)]
                        ELSE d.markers[i]]]

data_merge(d1, d2) ==
    [val |-> d1.val \o d2.val,
     markers |-> d1.markers \o [i \in DOMAIN d2.markers |->
                                  [d2.markers[i] EXCEPT !.off = @ + Len(d1.val)]]]

data_is_one_string(d) ==
    /\ d.val # <<>> /\ Last(d.val) = NUL
    /\ \A i \in 1..(Len(d.val) - 1) : d.val[i] # NUL

-----------------------------------------------------------------------------
\* Labels and properties.
add_label(labels, l) ==
    LET i == SelectInSeq(labels, LAMBDA x : x.label = l)
    IN  IF i # 0 THEN [labels EXCEPT ![i].deleted = FALSE]
        ELSE <<[label |-> l, deleted |-> FALSE]>> \o labels
AddLabels(labels, new) == FoldLeft(add_label, labels, new)
delete_labels(labels) == [i \in DOMAIN labels |-> [labels[i] EXCEPT !.deleted = TRUE]]
HasLabel(labels, l) == \E i \in DOMAIN labels : labels[i].label = l /\ ~labels[i].deleted

Property(name, val, labels) ==
    [name |-> name, val |-> val, deleted |-> FALSE, labels |-> AddLabels(<<>>, labels)]
build_property(name, val) == Property(name, val, <<>>)
build_property_delete(name) == [build_property(name, empty_data) EXCEPT !.deleted = TRUE]
delete_property(p) == [p EXCEPT !.deleted = TRUE, !.labels = delete_labels(@)]

\* A property of a later definition joins those of the node.
merge_property(props, p) ==
    LET i == SelectInSeq(props, LAMBDA x : x.name = p.name)
    IN  IF p.deleted
        THEN IF i = 0 THEN props ELSE [props EXCEPT ![i] = delete_property(@)]
        ELSE IF i = 0 THEN Append(props, p)
        ELSE [props EXCEPT ![i].val = p.val, ![i].deleted = FALSE,
                           ![i].labels = AddLabels(@, [j \in DOMAIN p.labels |-> p.labels[j].label])]

-----------------------------------------------------------------------------
\* Nodes.
Def(name, labels, props, kids) ==
    [name |-> name, labels |-> labels, props |-> props, kids |-> kids,
     omit |-> FALSE, deleted |-> FALSE]
build_node_delete(name) == [Def(name, <<>>, <<>>, <<>>) EXCEPT !.deleted = TRUE]
omit_node_if_unused(def) == [def EXCEPT !.omit = TRUE]

Node(def, parent) ==
    [name |-> def.name, deleted |-> def.deleted, labels |-> AddLabels(<<>>, def.labels),
     props |-> def.props, kids |-> <<>>, parent |-> parent, phandle |-> 0,
     omit |-> def.omit, refd |-> FALSE, filled |-> FALSE]

\* A definition becomes a new child, with all its subnodes as they are.
RECURSIVE add_child(_, _, _)
add_child(t, parent, def) ==
    LET id == Len(t) + 1
        grown == Append([t EXCEPT ![parent].kids = Append(@, id)], Node(def, parent))
    IN  FoldLeft(LAMBDA x, kid : add_child(x, id, kid), grown, def.kids)
build_node(def) == FoldLeft(LAMBDA x, kid : add_child(x, 1, kid), <<Node(def, 0)>>, def.kids)
add_property(t, n, p) == [t EXCEPT ![n].props = Append(@, p)]

Kids(t, n) == SelectSeq(t[n].kids, LAMBDA c : ~t[c].deleted)
RECURSIVE Preorder(_, _)
Preorder(t, n) == FoldLeft(LAMBDA s, c : s \o Preorder(t, c), <<n>>, Kids(t, n))
FirstNode1(t, Test(_)) ==
    LET s == Preorder(t, 1)
        i == SelectInSeq(s, Test)
    IN  IF i = 0 THEN 0 ELSE s[i]

delete_node_alone(t, n) == [t EXCEPT ![n].deleted = TRUE]     \* mutant: not what is below
delete_node(t, n) ==
    LET gone == ToSet(Preorder(t, n))
    IN  [m \in DOMAIN t |->
           IF m \notin gone THEN t[m]
           ELSE [t[m] EXCEPT !.deleted = TRUE, !.labels = delete_labels(@),
                             !.props = [i \in DOMAIN @ |-> delete_property(@[i])]]]

ChildNamed(t, n, name) ==     \* deleted ones too
    LET i == SelectInSeq(t[n].kids, LAMBDA c : t[c].name = name)
    IN  IF i = 0 THEN 0 ELSE t[n].kids[i]

RECURSIVE merge_nodes(_, _, _)
merge_nodes(t, old, def) ==
    LET own == [t EXCEPT ![old].deleted = FALSE,
                         ![old].labels = AddLabels(@, def.labels),
                         ![old].props = FoldLeft(merge_property, @, def.props)]
        kid(x, new) ==
            LET c == ChildNamed(x, old, new.name)
            IN  IF new.deleted THEN IF c = 0 THEN x ELSE delete_node(x, c)
                ELSE IF c = 0 THEN add_child(x, old, new)
                ELSE merge_nodes(x, c, new)
    IN  FoldLeft(kid, own, def.kids)

\* A definition for a node that is not in this tree, as an overlay fragment.
add_orphan_node(t, def, ref, next) ==
    LET target == IF ref[1] = SLASH
                  THEN build_property(N_target_path,
                           data_append_data(data_add_marker(empty_data, "STRING", ref), Append(ref, NUL)))
                  ELSE build_property(N_target,
                           data_append_cell(data_add_marker(empty_data, "REF_PHANDLE", ref), W - 1))
    IN  add_child(t, 1, Def(FragmentName(next), <<>>, <<target>>, <<[def EXCEPT !.name = N_overlay]>>))

-----------------------------------------------------------------------------
\* Lookups: live nodes and live properties, in the order of the tree.
get_property(t, n, name) == SelectInSeq(t[n].props, LAMBDA p : ~p.deleted /\ p.name = name)
get_subnode(t, n, name) ==
    LET i == SelectInSeq(t[n].kids, LAMBDA c : ~t[c].deleted /\ t[c].name = name)
    IN  IF i = 0 THEN 0 ELSE t[n].kids[i]

RECURSIVE ByPath(_, _, _)
ByPath(t, n, comps) ==
    IF comps = <<>> THEN IF t[n].deleted THEN 0 ELSE n
    ELSE LET c == get_subnode(t, n, Head(comps))
         IN  IF c = 0 THEN 0 ELSE ByPath(t, c, Tail(comps))
get_node_by_path(t, path) == ByPath(t, 1, Components(path))
get_node_by_label(t, l) == FirstNode1(t, LAMBDA n : HasLabel(t[n].labels, l))
get_node_by_phandle(t, h) ==
    LET n == FirstNode1(t, LAMBDA m : t[m].phandle = h)
    IN  IF h \in {0, W - 1} \/ n = 0 THEN 0 ELSE IF t[n].deleted THEN 0 ELSE n
get_node_by_ref(t, ref) ==
    IF ref = <<SLASH>> THEN 1
    ELSE IF ref[1] = SLASH THEN get_node_by_path(t, ref) ELSE get_node_by_label(t, ref)

\* The path of a node, and its name up to the '@'.  fill_fullpaths stores them
\* in the nodes that are there before the checks; those that dtc generates
\* later have neither.
RECURSIVE FullPath(_, _)
FullPath(t, n) ==
    IF n = 1 THEN <<SLASH>>
    ELSE LET up == FullPath(t, t[n].parent)
         IN  (IF Last(up) = SLASH THEN up ELSE Append(up, SLASH)) \o t[n].name
basename(name) ==
    LET i == SelectInSeq(name, LAMBDA c : c = AT) IN IF i = 0 THEN name ELSE SubSeq(name, 1, i - 1)
fill_fullpaths(t) ==
    [n \in DOMAIN t |-> [t[n] EXCEPT !.filled = n \in ToSet(Preorder(t, 1))]]

propval_cell(p) == p.val.val[TAGSIZE]

\* The marker places of one type in live properties of live nodes:
\* <<node, property, marker>> in the order of the walk.
NodeMarkers(t, n, type) ==
    LET props == SelectSeq([i \in DOMAIN t[n].props |-> i], LAMBDA i : ~t[n].props[i].deleted)
        ofprop(i) == SelectSeq([m \in DOMAIN t[n].props[i].val.markers |-> <<n, i, m>>],
                               LAMBDA x : t[n].props[i].val.markers[x[3]].type = type)
    IN  FoldLeft(LAMBDA s, i : s \o ofprop(i), <<>>, props)
Markers(t, type) == FoldLeft(LAMBDA s, n : s \o NodeMarkers(t, n, type), <<>>, Preorder(t, 1))
MarkerAt(t, x) == t[x[1]].props[x[2]].val.markers[x[3]]

\* The phandle of a node, allocated from a counter if it has none.  The
\* counter is static in the code: it goes on from call to call.
next_unchecked(t, h) == h + 1      \* mutant: taken phandles are not skipped
RECURSIVE NextFree(_, _)
NextFree(t, h) == IF get_node_by_phandle(t, h) # 0 THEN NextFree(t, h + 1) ELSE h
get_node_phandle(t, n, next, legacy, epapr) ==
    LET h == NextFree(t, next)
        d == data_append_cell(data_add_marker(empty_data, "UINT32", <<>>), h)
        with(x, on, name) == IF on /\ get_property(x, n, name) = 0
                             THEN add_property(x, n, build_property(name, d)) ELSE x
    IN  IF t[n].phandle \notin {0, W - 1} THEN [t |-> t, next |-> next]
        ELSE [t |-> with(with([t EXCEPT ![n].phandle = h], legacy, N_linux_phandle),
                         epapr, N_phandle),
              next |-> h]

-----------------------------------------------------------------------------
\* Sorting (-s): properties and subnodes by name, deleted ones too.
RECURSIVE LessName(_, _)
LessName(a, b) ==
    b # <<>> /\ (a = <<>> \/ Head(a) < Head(b) \/ (Head(a) = Head(b) /\ LessName(Tail(a), Tail(b))))
sort_reserve_entries(rsvs) ==
    SortSeq(rsvs, LAMBDA a, b : a[1] < b[1] \/ (a[1] = b[1] /\ a[2] < b[2]))
sort_tree(t) ==
    [n \in DOMAIN t |->
       [t[n] EXCEPT !.props = SortSeq(@, LAMBDA a, b : LessName(a.name, b.name)),
                    !.kids = SortSeq(@, LAMBDA a, b : LessName(t[a].name, t[b].name))]]

-----------------------------------------------------------------------------
\* The generated nodes: labels, fixups for references to nodes that are not
\* in this tree, and local fixups for those that are.
WithChild(t, n, name) ==
    IF get_subnode(t, n, name) # 0 THEN t ELSE add_child(t, n, Def(name, <<>>, <<>>, <<>>))
build_root_node(t, name) == WithChild(t, 1, name)

append_to_property(t, n, name, cells, type) ==
    LET i == get_property(t, n, name)
        grow(d) == data_append_data(data_add_marker(d, type, name), cells)
    IN  IF i # 0 THEN [t EXCEPT ![n].props[i].val = grow(@)]
        ELSE add_property(t, n, build_property(name, grow(empty_data)))

any_label_tree(t) == \E n \in ToSet(Preorder(t, 1)) : t[n].labels # <<>>

RECURSIVE LabelNodes(_, _, _, _, _, _, _)
LabelNodes(t, an, nodes, next, alloc, legacy, epapr) ==
    IF nodes = <<>> THEN [t |-> t, next |-> next]
    ELSE LET n == Head(nodes)
             one(x, l) == IF l.deleted \/ get_property(x, an, l.label) # 0 THEN x
                          ELSE add_property(x, an, build_property(l.label, data_string(FullPath(x, n))))
             phandle(x) == IF alloc /\ t[n].labels # <<>>
                           THEN get_node_phandle(x, n, next, legacy, epapr)
                           ELSE [t |-> x, next |-> next]
             rest(r) == LabelNodes(r.t, an, Tail(nodes), r.next, alloc, legacy, epapr)
         IN  rest(phandle(FoldLeft(one, t, t[n].labels)))
generate_label_tree(t, name, next, alloc, legacy, epapr) ==
    LET in(r) == LabelNodes(r, get_subnode(r, 1, name), Preorder(r, 1), next,
                            alloc, legacy, epapr)
    IN  IF ~any_label_tree(t) THEN [t |-> t, next |-> next] ELSE in(build_root_node(t, name))

\* An entry of __fixups__ is "path:property:offset".
COLON == 58
FixupEntry(t, x) ==
    FullPath(t, x[1]) \o <<COLON>> \o t[x[1]].props[x[2]].name
        \o <<COLON, 48 + MarkerAt(t, x).off, NUL>>
Unresolved(t) == SelectSeq(Markers(t, "REF_PHANDLE"), LAMBDA x : get_node_by_ref(t, MarkerAt(t, x).ref) = 0)
Resolved(t) == SelectSeq(Markers(t, "REF_PHANDLE"), LAMBDA x : get_node_by_ref(t, MarkerAt(t, x).ref) # 0)

generate_fixups_tree(t, name) ==
    LET r == build_root_node(t, name)
    IN  IF Unresolved(t) = <<>> THEN t
        ELSE FoldLeft(LAMBDA x, at : append_to_property(x, get_subnode(x, 1, name), MarkerAt(t, at).ref,
                                                        FixupEntry(t, at), "STRING"),
                      r, Unresolved(t))

\* The path of a node again below __local_fixups__, and the offset there.
RECURSIVE MirrorPath(_, _, _)
MirrorPath(t, wn, comps) ==
    IF comps = <<>> THEN [t |-> t, n |-> wn]
    ELSE LET x == WithChild(t, wn, Head(comps))
         IN  MirrorPath(x, get_subnode(x, wn, Head(comps)), Tail(comps))
add_local_fixup_entry(t, lfn, at) ==
    LET r == MirrorPath(t, lfn, Components(FullPath(t, at[1])))
    IN  append_to_property(r.t, r.n, t[at[1]].props[at[2]].name,
                           WordCells(MarkerAt(t, at).off), "UINT32")
generate_local_fixups_tree(t, name) ==
    LET r == build_root_node(t, name)
    IN  IF Resolved(t) = <<>> THEN t
        ELSE FoldLeft(LAMBDA x, at : add_local_fixup_entry(x, get_subnode(x, 1, name), at),
                      r, Resolved(t))

=============================================================================
