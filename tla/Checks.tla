------------------------------- MODULE Checks -------------------------------
(***************************************************************************)
(* dtc's checks (checks.c): the framework with prerequisites and levels,   *)
(* and the structural checks and reference fixups, which decide whether a  *)
(* tree is accepted and what its references become.  Of the warnings that  *)
(* follow them in check_table, seventeen have the phandle fixups as a      *)
(* prerequisite and so may be what makes them run: clocks and fifteen      *)
(* others like it, and gpios.  "clocks" stands for them.  The others are   *)
(* left out: they change nothing in the tree and need no check that does,  *)
(* as are the tests of the characters of names.                            *)
(*                                                                         *)
(* A session is [t, next, status, opts]: the tree, the counter of          *)
(* get_node_phandle, the status of each check and the command line.        *)
(***************************************************************************)
EXTENDS LiveTree

check_table == <<"duplicate_node_names", "duplicate_property_names", "name_is_string",
                 "name_properties", "duplicate_label", "explicit_phandles",
                 "phandle_references", "path_references", "omit_unused_nodes",
                 "clocks_property", "clocks_is_cell">>
CheckNames == ToSet(check_table)
prereq(c) ==
    CASE c = "name_properties" -> <<"name_is_string">>
      [] c = "phandle_references" -> <<"duplicate_node_names", "explicit_phandles">>
      [] c = "path_references" -> <<"duplicate_node_names">>
      [] c = "omit_unused_nodes" -> <<"phandle_references", "path_references">>
      [] c = "clocks_property" -> <<"clocks_is_cell", "phandle_references">>
      [] OTHER -> <<>>

\* A check function returns the tree, the counter and whether it failed.
Checked(t, next, failed) == [t |-> t, next |-> next, failed |-> failed]
Verdict(s, failed) == Checked(s.t, s.next, failed)
Live(t) == Preorder(t, 1)
LiveSet(t) == ToSet(Live(t))

-----------------------------------------------------------------------------
\* Structural checks.  A second child of the same name is an error even if it
\* is deleted; a second property only if it is not.
DuplicateKids(t, n) ==
    \E i, j \in DOMAIN t[n].kids :
        /\ i < j /\ ~t[t[n].kids[i]].deleted
        /\ t[t[n].kids[i]].name = t[t[n].kids[j]].name
check_duplicate_node_names(s) == Verdict(s, \E n \in LiveSet(s.t) : DuplicateKids(s.t, n))

DuplicateProps(props) ==
    \E i, j \in DOMAIN props :
        i < j /\ ~props[i].deleted /\ ~props[j].deleted /\ props[i].name = props[j].name
check_duplicate_property_names(s) ==
    Verdict(s, \E n \in LiveSet(s.t) : DuplicateProps(s.t[n].props))

check_name_is_string(s) ==
    Verdict(s, \E n \in LiveSet(s.t) :
                 LET i == get_property(s.t, n, N_name)
                 IN  i # 0 /\ ~data_is_one_string(s.t[n].props[i].val))

\* A correct "name" property is redundant and removed.  (The first one of that
\* name is looked at, deleted or not.)
NameProp(t, n) == SelectInSeq(t[n].props, LAMBDA p : p.name = N_name)
NameCorrect(t, n) == t[n].props[NameProp(t, n)].val.val = Append(basename(t[n].name), NUL)
check_name_properties(s) ==
    LET named == {n \in LiveSet(s.t) : NameProp(s.t, n) # 0}
        right == {n \in named : NameCorrect(s.t, n)}
    IN  Checked([n \in DOMAIN s.t |->
                   IF n \in right THEN [s.t[n] EXCEPT !.props = RemoveAt(@, NameProp(s.t, n))]
                   ELSE s.t[n]],
                s.next, named # right)

\* Labels of nodes, of properties and inside values share one name space.
LabelSites(t) ==
    UNION {{<<l, n, 0, 0>> : l \in {x.label : x \in {y \in ToSet(t[n].labels) : ~y.deleted}}}
           \cup UNION {{<<l, n, i, 0>> : l \in {x.label : x \in {y \in ToSet(t[n].props[i].labels) : ~y.deleted}}}
                       \cup {<<t[n].props[i].val.markers[m].ref, n, i, m>> :
                               m \in {k \in DOMAIN t[n].props[i].val.markers :
                                        t[n].props[i].val.markers[k].type = "LABEL"}} :
                       i \in {k \in DOMAIN t[n].props : ~t[n].props[k].deleted}} :
           n \in LiveSet(t)}
check_duplicate_label(s) ==
    Verdict(s, \E x, y \in LabelSites(s.t) : x # y /\ x[1] = y[1])

-----------------------------------------------------------------------------
\* Phandles that the source gives.  A phandle that refers to its own node asks
\* for one to be allocated.
check_phandle_prop(t, n, name) ==
    LET i == get_property(t, n, name)
        p == t[n].props[i]
        refs == {m \in ToSet(p.val.markers) : m.type = "REF_PHANDLE"}
        no(bad) == [h |-> 0, failed |-> bad]
    IN  IF i = 0 THEN no(FALSE)
        ELSE IF Len(p.val.val) # TAGSIZE THEN no(TRUE)
        ELSE IF refs # {} THEN no(\E m \in refs : get_node_by_ref(t, m.ref) # n)
        ELSE IF propval_cell(p) \in {0, W - 1} THEN no(TRUE)
        ELSE [h |-> propval_cell(p), failed |-> FALSE]

ExplicitPhandle(s, n) ==
    LET odd(a, l) == a.failed \/ l.failed \/ (a.h # 0 /\ l.h # 0 /\ a.h # l.h)
        give(h, bad) ==
            IF h = 0 THEN [s EXCEPT !.failed = @ \/ bad]
            ELSE IF get_node_by_phandle(s.t, h) \notin {0, n} THEN [s EXCEPT !.failed = TRUE]
            ELSE [s EXCEPT !.t[n].phandle = h, !.failed = @ \/ bad]
        explicit(a, l) == give(IF a.h # 0 THEN a.h ELSE l.h, odd(a, l))
    IN  explicit(check_phandle_prop(s.t, n, N_phandle),
                 check_phandle_prop(s.t, n, N_linux_phandle))
check_explicit_phandles(s) ==
    FoldLeft(ExplicitPhandle, Checked(s.t, s.next, FALSE), Live(s.t))

-----------------------------------------------------------------------------
\* References become phandles and paths, and mark the nodes they name.
SetCells(d, off, cells) ==
    [d EXCEPT !.val = [i \in DOMAIN @ |-> IF i - off \in DOMAIN cells THEN cells[i - off] ELSE @[i]]]
reference_forgotten(t, n) == t      \* mutant
reference_node(t, n) == [t EXCEPT ![n].refd = TRUE]

PhandleReference(s, x, opts) ==
    LET m == MarkerAt(s.t, x)
        put(t, h) == [t EXCEPT ![x[1]].props[x[2]].val = SetCells(@, m.off, WordCells(h))]
        refer(n, r) == [s EXCEPT !.t = reference_node(put(r.t, r.t[n].phandle), n),
                                 !.next = r.next]
        to(n) == IF n # 0
                 THEN refer(n, get_node_phandle(s.t, n, s.next, opts.legacy, opts.epapr))
                 ELSE IF ~opts.plugin THEN [s EXCEPT !.failed = TRUE]
                 ELSE [s EXCEPT !.t = put(s.t, W - 1)]
    IN  to(get_node_by_ref(s.t, m.ref))
fixup_phandle_references(s) ==
    FoldLeft(LAMBDA r, x : PhandleReference(r, x, s.opts), Checked(s.t, s.next, FALSE),
             Markers(s.t, "REF_PHANDLE"))

PathReference(s, x) ==
    LET n == get_node_by_ref(s.t, MarkerAt(s.t, x).ref)
        path == Append(FullPath(s.t, n), NUL)
    IN  IF n = 0 THEN [s EXCEPT !.failed = TRUE]
        ELSE [s EXCEPT !.t = reference_node([@ EXCEPT ![x[1]].props[x[2]].val =
                                               data_insert_at_marker(@, x[3], path)], n)]
fixup_path_references(s) ==
    FoldLeft(PathReference, Checked(s.t, s.next, FALSE), Markers(s.t, "REF_PATH"))

\* Nodes to be left out unless something refers to them.  With -@ any label,
\* even a deleted one, keeps the node.
OmitUnused(t, n, opts) ==
    IF t[n].deleted \/ (opts.symbols /\ t[n].labels # <<>>) THEN t
    ELSE IF t[n].omit /\ ~t[n].refd THEN delete_node(t, n) ELSE t
fixup_omit_unused_nodes(s) ==
    Checked(FoldLeft(LAMBDA t, n : OmitUnused(t, n, s.opts), s.t, Live(s.t)), s.next, FALSE)

-----------------------------------------------------------------------------
\* A list of phandles, each followed by as many cells as the node it names
\* asks for ("#clock-cells" is taken to be a count, not negative as an int).
\* Entries 0 and -1 are skipped; in an overlay they end the check.
check_is_cell(s, name) ==
    Verdict(s, \E n \in LiveSet(s.t) :
                 LET i == get_property(s.t, n, name)
                 IN  i # 0 /\ Len(s.t[n].props[i].val.val) # TAGSIZE)

RECURSIVE ArgsFailFrom(_, _, _, _)
ArgsFailFrom(t, d, cell, plugin) ==
    LET h == d.val[(cell + 1) * TAGSIZE]
        n == get_node_by_phandle(t, h)
        i == get_property(t, n, N_clock_cells)
        cellsize == propval_cell(t[n].props[i])
        marked == \E m \in ToSet(d.markers) : m.type = "REF_PHANDLE" /\ m.off = cell * TAGSIZE
    IN  /\ cell < Len(d.val) \div TAGSIZE
        /\ IF h \in {0, W - 1} THEN ~plugin /\ ArgsFailFrom(t, d, cell + 1, plugin)
           ELSE \/ n = 0
                \/ i = 0
                \/ d.markers # <<>> /\ ~marked
                \/ Len(d.val) < (cell + cellsize + 1) * TAGSIZE
                \/ ArgsFailFrom(t, d, cell + cellsize + 1, plugin)
check_property_phandle_args(t, d, plugin) ==
    Len(d.val) % TAGSIZE # 0 \/ ArgsFailFrom(t, d, 0, plugin)
check_provider_cells_property(s) ==
    Verdict(s, \E n \in LiveSet(s.t) :
                 LET i == get_property(s.t, n, N_clocks)
                 IN  i # 0 /\ check_property_phandle_args(s.t, s.t[n].props[i].val, s.opts.plugin))

CheckFn(c, s) ==
    CASE c = "duplicate_node_names" -> check_duplicate_node_names(s)
      [] c = "duplicate_property_names" -> check_duplicate_property_names(s)
      [] c = "name_is_string" -> check_name_is_string(s)
      [] c = "name_properties" -> check_name_properties(s)
      [] c = "duplicate_label" -> check_duplicate_label(s)
      [] c = "explicit_phandles" -> check_explicit_phandles(s)
      [] c = "phandle_references" -> fixup_phandle_references(s)
      [] c = "path_references" -> fixup_path_references(s)
      [] c = "omit_unused_nodes" -> fixup_omit_unused_nodes(s)
      [] c = "clocks_property" -> check_provider_cells_property(s)
      [] c = "clocks_is_cell" -> check_is_cell(s, N_clock_cells)

-----------------------------------------------------------------------------
(***************************************************************************)
(* The framework.  Prerequisites are run first whatever their level, but   *)
(* not after one of them has reported an error: the || of the code skips   *)
(* them, and they count as not passed.                                     *)
(***************************************************************************)
RECURSIVE run_check(_, _)
run_check(s, c) ==
    LET need(r, p) == IF r.error THEN r ELSE run_check(r.s, p)
        ready(x) == \A p \in ToSet(prereq(c)) : x.status[p] = "PASSED"
        with(x, f) == [x EXCEPT !.t = f.t, !.next = f.next,
                                !.status[c] = IF f.failed THEN "FAILED" ELSE "PASSED"]
        own(x) == IF ready(x) THEN with(x, CheckFn(c, x)) ELSE [x EXCEPT !.status[c] = "PREREQ"]
        run(r) == [s |-> own(r.s), error |-> r.error]
        report(r) == [r EXCEPT !.error = @ \/ (r.s.status[c] # "PASSED" /\ s.opts.levels.error[c])]
    IN  report(IF s.status[c] # "UNCHECKED" THEN [s |-> s, error |-> FALSE]
               ELSE run(FoldLeft(need, [s |-> s, error |-> FALSE], prereq(c))))

\* -W and -E.  A check has two levels: either makes it run, error makes its
\* failure one.  Raising a level raises it for what the check needs, lowering
\* it lowers it for what needs the check.
RECURSIVE enable_warning_error(_, _, _, _)
enable_warning_error(l, c, warn, error) ==
    LET raises == (warn /\ ~l.warn[c]) \/ (error /\ ~l.error[c])
        raise(x, p) == enable_warning_error(x, p, warn, error)
        raised == IF raises THEN FoldLeft(raise, l, prereq(c)) ELSE l
    IN  [raised EXCEPT !.warn[c] = @ \/ warn, !.error[c] = @ \/ error]
RECURSIVE disable_warning_error(_, _, _, _)
disable_warning_error(l, c, warn, error) ==
    LET lowers == (warn /\ l.warn[c]) \/ (error /\ l.error[c])
        users == SelectSeq(check_table, LAMBDA x : Contains(prereq(x), c))
        lower(x, u) == disable_warning_error(x, u, warn, error)
        lowered == IF lowers THEN FoldLeft(lower, l, users) ELSE l
    IN  [lowered EXCEPT !.warn[c] = @ /\ ~warn, !.error[c] = @ /\ ~error]
Warnings == {"clocks_property", "clocks_is_cell"}
DefaultLevels == [warn |-> [c \in CheckNames |-> c \in Warnings],
                  error |-> [c \in CheckNames |-> c \notin Warnings]]

=============================================================================
