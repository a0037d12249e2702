--------------------------------- MODULE Dtc ---------------------------------
(***************************************************************************)
(* A run of dtc (dtc.c): the definitions of a source are merged into a     *)
(* live tree one by one (the reductions of dtc-parser.y), the checks run in*)
(* the order of their table, the generated nodes are added, and the tree is*)
(* written as a blob.  "meaning" is what the source says, kept beside the  *)
(* tree: properties by path and labels.                                    *)
(***************************************************************************)
EXTENDS Checks, FlatTree

CONSTANTS Sources,    \* sequences of statements
          Options     \* command lines
VARIABLES src, opts, phase, s, at, error, out, frags,
          meaning, tidy, parsed
\* src: the statements left; s: the session; at: the next check; frags: the
\* fragments so far.  Kept for the properties: what the source means, whether
\* it is one that "meaning" is for, and the tree as it was parsed.
vars == <<src, opts, phase, s, at, error, out, frags, meaning, tidy, parsed>>

Define(def) == [op |-> "root", ref |-> <<>>, label |-> <<>>, def |-> def]
Extend(ref, def) == [op |-> "ref", ref |-> ref, label |-> <<>>, def |-> def]
ExtendLabelled(label, ref, def) == [op |-> "ref", ref |-> ref, label |-> label, def |-> def]
DeleteNode(ref) == [op |-> "del", ref |-> ref, label |-> <<>>, def |-> <<>>]
OmitNode(ref) == [op |-> "omit", ref |-> ref, label |-> <<>>, def |-> <<>>]
NoBlob == <<>>
EmptyRoot == Def(<<>>, <<>>, <<>>, <<>>)

-----------------------------------------------------------------------------
(***************************************************************************)
(* What a source means.  Definitions apply in order; a deletion takes a    *)
(* node with all that is below it, labels included.                        *)
(***************************************************************************)
Below(path, p) == IsPrefix(path, p)
Without(m, path) == [nodes |-> [p \in {q \in DOMAIN m.nodes : ~Below(path, q)} |-> m.nodes[p]],
                     labels |-> {x \in m.labels : ~Below(path, x[2])}]
Amend(props, p) == IF p.deleted THEN [q \in DOMAIN props \ {p.name} |-> props[q]]
                   ELSE (p.name :> p.val) @@ props
RECURSIVE Says(_, _, _)
Says(m, path, def) ==
    LET old == IF path \in DOMAIN m.nodes THEN m.nodes[path] ELSE <<>>
        own == [nodes |-> (path :> FoldLeft(Amend, old, def.props)) @@ m.nodes,
                labels |-> m.labels \cup {<<l, path>> : l \in ToSet(def.labels)}]
        kid(x, k) == IF k.deleted THEN Without(x, Append(path, k.name))
                     ELSE Says(x, Append(path, k.name), k)
    IN  FoldLeft(kid, own, def.kids)

\* A definition is tidy if it does not both delete and define one name, or
\* define it twice.
RECURSIVE TidyDef(_)
TidyDef(def) ==
    /\ \A i, j \in DOMAIN def.props : i # j => def.props[i].name # def.props[j].name
    /\ \A i, j \in DOMAIN def.kids : i # j => def.kids[i].name # def.kids[j].name
    /\ \A i \in DOMAIN def.kids : TidyDef(def.kids[i])
UniqueLabels(m) == \A x, y \in m.labels : x[1] = y[1] => x = y
PathOf(t, n) == Components(FullPath(t, n))

-----------------------------------------------------------------------------
Init ==
    /\ src \in Sources /\ opts \in Options
    /\ phase = "parse" /\ at = 1 /\ error = FALSE /\ out = NoBlob /\ frags = 0
    /\ s = [t |-> <<>>, next |-> 1, status |-> [c \in CheckNames |-> "UNCHECKED"], opts |-> opts]
    /\ meaning = [nodes |-> <<>>, labels |-> {}] /\ tidy = TRUE /\ parsed = <<>>

st == Head(src)
target == get_node_by_ref(s.t, st.ref)
Orphan == add_orphan_node(IF s.t = <<>> THEN build_node(EmptyRoot) ELSE s.t, st.def, st.ref, frags)

\* One reduction: the new tree, the new meaning, whether it is an error.
Reduce(t, m, bad) ==
    /\ s' = [s EXCEPT !.t = t]
    /\ meaning' = m /\ error' = (error \/ bad)
    /\ src' = Tail(src)
    /\ UNCHANGED <<opts, phase, at, out, parsed>>

ParseRoot ==
    /\ phase = "parse" /\ src # <<>> /\ st.op = "root"
    /\ LET m == Says(meaning, <<>>, st.def)
       IN  /\ Reduce(IF s.t = <<>> THEN build_node(st.def) ELSE merge_nodes(s.t, 1, st.def), m, FALSE)
           /\ tidy' = (tidy /\ TidyDef(st.def) /\ UniqueLabels(m))
    /\ UNCHANGED frags

\* &label {...} and &{/path} {...}.  In an overlay, a path, or a label that is
\* not here, makes a fragment.
AsFragment ==
    IF s.t = <<>> THEN TRUE
    ELSE opts.plugin /\ st.label = <<>> /\ (st.ref[1] = SLASH \/ target = 0)
ParseRef ==
    /\ phase = "parse" /\ src # <<>> /\ st.op = "ref"
    /\ IF AsFragment
       THEN /\ Reduce(Orphan, meaning, ~opts.plugin)
            /\ tidy' = FALSE /\ frags' = frags + 1
       ELSE IF target = 0
       THEN /\ Reduce(s.t, meaning, TRUE)
            /\ UNCHANGED <<tidy, frags>>
       ELSE LET labels == IF st.label = <<>> THEN <<>> ELSE <<st.label>>
                def == [st.def EXCEPT !.labels = labels]
                m == Says(meaning, PathOf(s.t, target), def)
            IN  /\ Reduce(merge_nodes(s.t, target, def), m, FALSE)
                /\ tidy' = (tidy /\ TidyDef(def) /\ UniqueLabels(m))
                /\ UNCHANGED frags

ParseDelete ==
    /\ phase = "parse" /\ src # <<>> /\ st.op = "del"
    /\ IF target = 0 THEN Reduce(s.t, meaning, TRUE)
       ELSE Reduce(delete_node(s.t, target), Without(meaning, PathOf(s.t, target)), FALSE)
    /\ UNCHANGED <<tidy, frags>>

ParseOmit ==
    /\ phase = "parse" /\ src # <<>> /\ st.op = "omit"
    /\ IF target = 0 THEN Reduce(s.t, meaning, TRUE)
       ELSE Reduce([s.t EXCEPT ![target].omit = TRUE], meaning, FALSE)
    /\ UNCHANGED <<tidy, frags>>

Goto(p) == phase' = p
ParseEnd ==
    /\ phase = "parse" /\ src = <<>>
    /\ Goto(IF error THEN "died" ELSE "checks")
    /\ s' = [s EXCEPT !.t = IF error THEN @ ELSE fill_fullpaths(@)]
    /\ parsed' = s.t
    /\ UNCHANGED <<src, opts, at, error, out, frags, meaning, tidy>>

\* process_checks: a check runs if it has a level; after an error none does.
ProcessCheck ==
    /\ phase = "checks" /\ at <= Len(check_table)
    /\ LET c == check_table[at]
           result(r) == s' = r.s /\ error' = r.error
       IN  IF (opts.levels.warn[c] \/ opts.levels.error[c]) /\ ~error THEN result(run_check(s, c)) ELSE UNCHANGED <<s, error>>
    /\ at' = at + 1
    /\ UNCHANGED <<src, opts, phase, out, frags, meaning, tidy, parsed>>

ChecksEnd ==
    /\ phase = "checks" /\ at > Len(check_table)
    /\ Goto(IF error /\ ~opts.force THEN "died" ELSE "labels")
    /\ UNCHANGED <<src, opts, s, at, error, out, frags, meaning, tidy, parsed>>

\* The stages after the checks.
Stage(from, to, t, next) ==
    /\ phase = from
    /\ s' = [s EXCEPT !.t = t, !.next = next]
    /\ Goto(to)
    /\ UNCHANGED <<src, opts, at, error, out, frags, meaning, tidy, parsed>>
GenerateLabels ==
    LET labels(x, on, name, alloc) ==
            IF on THEN generate_label_tree(x.t, name, x.next, alloc, opts.legacy, opts.epapr)
            ELSE x
        to(r) == Stage("labels", "fixups", r.t, r.next)
    IN  to(labels(labels([t |-> s.t, next |-> s.next], opts.aliases, N_aliases, FALSE),
                  opts.symbols, N_symbols, TRUE))
GenerateFixups ==
    Stage("fixups", "sort",
          IF opts.plugin
          THEN generate_local_fixups_tree(generate_fixups_tree(s.t, N_fixups), N_local_fixups)
          ELSE s.t, s.next)
\* Sorting takes the reserve entries too.
Reserved == IF opts.sort THEN sort_reserve_entries(opts.rsvs) ELSE opts.rsvs
Sort == Stage("sort", "emit", IF opts.sort THEN sort_tree(s.t) ELSE s.t, s.next)
Emit ==
    /\ phase = "emit"
    /\ IF opts.version \notin Versions THEN Goto("died") /\ UNCHANGED out
       ELSE IF NoPath(s.t, opts.version) THEN Goto("crashed") /\ UNCHANGED out
       ELSE Goto("done") /\ out' = dt_to_blob(s.t, Reserved, opts.version, opts)
    /\ UNCHANGED <<src, opts, s, at, error, frags, meaning, tidy, parsed>>

Next == \/ ParseRoot \/ ParseRef \/ ParseDelete \/ ParseOmit \/ ParseEnd
        \/ ProcessCheck \/ ChecksEnd \/ GenerateLabels \/ GenerateFixups \/ Sort \/ Emit
Spec == Init /\ [][Next]_vars

-----------------------------------------------------------------------------
(***************************************************************************)
(* What the references of the parsed tree should become: the value in the  *)
(* source with a phandle at each place of a phandle reference and a path   *)
(* put in at each path reference.                                          *)
(***************************************************************************)
Named(ref) == get_node_by_ref(parsed, ref)
RefPath(ref) == Append(FullPath(parsed, Named(ref)), NUL)
MarkersOf(d, type) == {i \in DOMAIN d.markers : d.markers[i].type = type}
\* Where marker i is once the paths before it are in.
Place(d, i) ==
    d.markers[i].off + MapThenSumSet(LAMBDA j : Len(RefPath(d.markers[j].ref)),
                                     {k \in MarkersOf(d, "REF_PATH") : k < i})
\* The value with its paths in.
Spread(d) ==
    LET cut(i) == d.markers[i].off
        end(i) == IF i = Len(d.markers) THEN Len(d.val) ELSE cut(i + 1)
        seg(i) == (IF d.markers[i].type = "REF_PATH" THEN RefPath(d.markers[i].ref) ELSE <<>>)
                  \o SubSeq(d.val, cut(i) + 1, end(i))
    IN  SubSeq(d.val, 1, IF d.markers = <<>> THEN Len(d.val) ELSE cut(1))
        \o FlattenSeq([i \in DOMAIN d.markers |-> seg(i)])

\* A run with a blob that libfdt reads, whose names were found unique and whose
\* references were fixed up, on whatever check's account (an error of another
\* check may have been forced); what is left in it of the source.
MaxProps == Max({Len(parsed[n].props) : n \in DOMAIN parsed})
Settled ==
    /\ phase = "done" /\ opts.version >= 16
    /\ \A c \in {"duplicate_property_names", "phandle_references", "path_references"} :
          s.status[c] = "PASSED"
Kept == DOMAIN parsed \cap LiveSet(s.t)
KeptProps == {x \in {<<n, i>> : n \in Kept, i \in 1..MaxProps} :
                 /\ x[2] \in DOMAIN parsed[x[1]].props
                 /\ ~parsed[x[1]].props[x[2]].deleted /\ parsed[x[1]].props[x[2]].name # N_name}
Source(x) == parsed[x[1]].props[x[2]]
Offset(n) == fdt_path_offset(out, FullPath(s.t, n))
\* Nodes that went with a parent that nothing refers to.
RECURSIVE BelowOmitted(_)
BelowOmitted(n) ==
    LET p == parsed[n].parent
    IN  p # 0 /\ ((parsed[p].omit /\ p \notin Kept) \/ BelowOmitted(p))

\* The tree after the last statement is what the source says: the same paths,
\* each with the properties and labels of the definitions applied in order,
\* however nodes were deleted and defined again (merge_nodes, delete_node).
SourceMeaning ==
    (phase = "checks" /\ at = 1 /\ tidy) =>
        LET live == LiveSet(s.t)
            props(n) == {<<p.name, p.val>> : p \in {q \in ToSet(s.t[n].props) : ~q.deleted}}
        IN  /\ {PathOf(s.t, n) : n \in live} = DOMAIN meaning.nodes
            /\ Cardinality(live) = Cardinality(DOMAIN meaning.nodes)
            /\ \A n \in live :
                 LET m == meaning.nodes[PathOf(s.t, n)]
                 IN  props(n) = {<<q, m[q]>> : q \in DOMAIN m}
            /\ meaning.labels = UNION {{<<l.label, PathOf(s.t, n)>> :
                                          l \in {k \in ToSet(s.t[n].labels) : ~k.deleted}} : n \in live}

\* In the blob every property of the source has its value, with its path
\* references in and in each phandle reference the phandle of the node it
\* names, which is in the blob and found by libfdt under that phandle (-1 if
\* the node is not in this source and the source is an overlay).
RefsExact ==
    Settled => \A x \in KeptProps :
        LET d == Source(x).val
            refs == MarkersOf(d, "REF_PHANDLE")
            words == UNION {(Place(d, i) + 1)..(Place(d, i) + TAGSIZE) : i \in refs}
            points(n, h) == IF n = 0 THEN opts.plugin /\ h = W - 1
                            ELSE \/ BelowOmitted(n)
                                 \/ n \in Kept /\ fdt_node_offset_by_phandle(out, h) = Offset(n)
            exact(v, plain) ==
                /\ Len(v) = Len(plain)
                /\ \A j \in (1..Len(v)) \ words : v[j] = plain[j]
                /\ \A i \in refs : points(Named(d.markers[i].ref), v[Place(d, i) + TAGSIZE])
            stored(o) == o >= 0 /\ exact(PropData(out, o), Spread(d))
        IN  stored(fdt_get_property(out, Offset(x[1]), Source(x).name))

\* In a blob without errors names and phandles are unique: every node is the
\* one that libfdt finds under its path and under its phandle, and no node
\* has two properties of one name.
OutputUnique ==
    Settled => \A o \in {n \in ToSet(NodesAfter(out, -1)) : n >= 0} :
        LET h == fdt_get_phandle(out, o)
            path == FlattenSeq([i \in DOMAIN fdt_get_path(out, o, W).names |->
                                   <<SLASH>> \o fdt_get_path(out, o, W).names[i]])
            props == {p \in ToSet(PropsFrom(out, fdt_first_property_offset(out, o))) : p >= 0}
        IN  /\ h # 0 => fdt_node_offset_by_phandle(out, h) = o
            /\ fdt_path_offset(out, path) = o
            /\ \A p, q \in props :
                 p # q => fdt_get_string(out, PropNameoff(out, p)) # fdt_get_string(out, PropNameoff(out, q))

\* Every blob that dtc writes, forced or not, of any version and padding, reads
\* back as its tree and reserve map; the versions before 16 add "name"
\* properties.  libfdt finds no fault in the others.
RECURSIVE Image(_, _, _)
Image(t, n, v) ==
    LET props == SelectSeq(t[n].props, LAMBDA p : ~p.deleted)
        name == IF FTF_NAMEPROPS(v) /\ \A i \in DOMAIN props : props[i].name # N_name
                THEN <<<<N_name, Append(basename(t[n].name), NUL)>>>> ELSE <<>>
    IN  [name |-> t[n].name,
         props |-> [i \in DOMAIN props |-> <<props[i].name, props[i].val.val>>] \o name,
         kids |-> [i \in DOMAIN Kids(t, n) |-> Image(t, Kids(t, n)[i], v)]]
RECURSIVE DefImage(_)
DefImage(def) == [name |-> def.name,
                  props |-> [i \in DOMAIN def.props |-> <<def.props[i].name, def.props[i].val.val>>],
                  kids |-> [i \in DOMAIN def.kids |-> DefImage(def.kids[i])]]
RoundTrip ==
    phase = "done" =>
        LET r == dt_from_blob(out)
        IN  /\ r.ok /\ r.rsvs = Reserved
            /\ DefImage(r.def) = Image(s.t, 1, opts.version)
            /\ opts.version >= 16 => fdt_check_full(out, out.totalsize) = 0

\* An overlay lists each of its references exactly once, at the offset where
\* it is in the blob: under its label in __fixups__ if the node is not in this
\* source, under its own path in __local_fixups__ if it is.
FixupsExact ==
    (Settled /\ opts.plugin) =>
        LET data(p) == IF p < 0 THEN <<>> ELSE PropData(out, p)
            found(o, name) == IF o < 0 THEN <<>> ELSE data(fdt_get_property(out, o, name))
            listed(path, name) == found(fdt_path_offset(out, path), name)
            refs == {x \in {<<y, i>> : y \in KeptProps, i \in 1..4} :
                       x[2] \in MarkersOf(Source(x[1]).val, "REF_PHANDLE")}
            ref(x) == Source(x[1]).val.markers[x[2]].ref
            place(x) == Place(Source(x[1]).val, x[2])
            entry(x) == FullPath(s.t, x[1][1]) \o <<COLON>> \o Source(x[1]).name
                            \o <<COLON, 48 + place(x)>>
            mirror(n) == <<SLASH>> \o N_local_fixups \o FullPath(s.t, n)
            missing == {x \in refs : Named(ref(x)) = 0}
            fixups(strings, want) ==
                ToSet(strings) = {entry(x) : x \in want} /\ Len(strings) = Cardinality(want)
            local(words, want) ==
                /\ {words[k * TAGSIZE] : k \in 1..(Len(words) \div TAGSIZE)} = {place(x) : x \in want}
                /\ Len(words) = TAGSIZE * Cardinality(want)
        IN  /\ \A l \in {ref(x) : x \in refs} :
                 fixups(StringList(listed(<<SLASH>> \o N_fixups, l)).strings,
                        {x \in missing : ref(x) = l})
            /\ \A y \in KeptProps :
                 local(listed(mirror(y[1]), Source(y).name),
                       {x \in refs \ missing : x[1] = y})

=============================================================================
