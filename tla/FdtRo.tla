-------------------------------- MODULE FdtRo --------------------------------
(***************************************************************************)
(* The read-only functions of libfdt (fdt_ro.c, the node walk of fdt.c,    *)
(* fdt_check.c, the cell counts of fdt_addresses.c) as operators on blobs. *)
(* A loop over nodes or properties is the sequence of the offsets it goes  *)
(* through, ending with the negative code that stops it.  A function that  *)
(* returns a pointer to a property returns its offset, or the error that   *)
(* the code leaves in *lenp.                                               *)
(***************************************************************************)
EXTENDS FdtMem, FiniteSetsExt, SequencesExt

FDT_MAX_PHANDLE == W - 2      \* -1 is no phandle

\* The characters and names libfdt knows, one cell per character; as in the
\* real names, "phandle" is a tail of "linux,phandle".
SLASH == 47
AT == 64
N_phandle == <<112>>
N_linux_phandle == <<108, 112>>
N_compatible == <<99>>
N_address_cells == <<35, 97>>
N_size_cells == <<35, 115>>
N_aliases == <<122>>
FDT_MAX_NCELLS == 4

-----------------------------------------------------------------------------
\* fdt_next_node, with a depth counter, or without (depth is NULL).
RECURSIVE NodeScan(_, _, _, _)
NodeScan(b, o, d, null) ==
    LET step(t) ==
          CASE t.tag \in {FDT_PROP, FDT_NOP} -> NodeScan(b, t.next, d, null)
            [] t.tag = FDT_BEGIN_NODE -> [off |-> o, depth |-> d + 1]
            [] t.tag = FDT_END_NODE ->
                  IF ~null /\ d - 1 < 0 THEN [off |-> t.next, depth |-> d - 1]
                  ELSE NodeScan(b, t.next, d - 1, null)
            [] t.tag = FDT_END ->
                  [off |-> IF t.next >= 0 \/ (t.next = -TRUNCATED /\ null)
                           THEN -NOTFOUND ELSE t.next,
                   depth |-> d]
    IN  step(fdt_next_tag(b, o))

NextNode(b, offset, d, null) ==
    LET from(n) == IF n < 0 THEN [off |-> n, depth |-> d] ELSE NodeScan(b, n, d, null)
    IN  from(IF offset < 0 THEN 0 ELSE fdt_check_node_offset_(b, offset))
fdt_next_node(b, offset, d) == NextNode(b, offset, d, FALSE)
fdt_next_node_nodepth(b, offset) == NextNode(b, offset, 0, TRUE).off

fdt_first_subnode(b, offset) ==
    LET child(n) == IF n.off < 0 \/ n.depth # 1 THEN -NOTFOUND ELSE n.off
    IN  child(fdt_next_node(b, offset, 0))

RECURSIVE SubnodeScan(_, _, _)
SubnodeScan(b, offset, d) ==
    LET sibling(n) == IF n.off < 0 \/ n.depth < 1 THEN -NOTFOUND
                      ELSE IF n.depth > 1 THEN SubnodeScan(b, n.off, n.depth) ELSE n.off
    IN  sibling(fdt_next_node(b, offset, d))
fdt_next_subnode(b, offset) == SubnodeScan(b, offset, 1)

\* The positions a loop over fdt_next_node visits, from [offset o, depth d].
RECURSIVE NodeWalk(_, _, _)
NodeWalk(b, o, d) ==
    LET on(n) == NodeWalk(b, n.off, n.depth)
    IN  <<[off |-> o, depth |-> d]>>
        \o IF o < 0 THEN <<>> ELSE on(fdt_next_node(b, o, d))

\* The nodes after "start" (-1: all of them), then the code that ends the loop.
RECURSIVE NodesAfter(_, _)
NodesAfter(b, start) ==
    LET from(n) == <<n>> \o IF n < 0 THEN <<>> ELSE NodesAfter(b, n)
    IN  from(fdt_next_node_nodepth(b, start))

-----------------------------------------------------------------------------
\* Names and paths.
fdt_get_name(b, node) ==
    IF fdt_ro_probe_(b) < 0 \/ fdt_check_node_offset_(b, node) < 0 THEN NoString
    ELSE StringAt(b, b.off_dt_struct + node + TAGSIZE, b.totalsize - 1)

\* A node is found by its full name, or by its name without unit address.
nodename_exact(b, offset, s) == fdt_get_name(b, offset) = s      \* mutant
fdt_nodename_eq_(b, offset, s) ==
    LET named(p) == /\ p # NoString /\ Len(p) >= Len(s)
                    /\ SubSeq(p, 1, Len(s)) = s
                    /\ \/ Len(p) = Len(s)
                       \/ ~Contains(s, AT) /\ p[Len(s) + 1] = AT
    IN  named(fdt_get_name(b, offset))

fdt_subnode_offset(b, offset, name) ==
    LET hit(e) == e.depth = 1 /\ fdt_nodename_eq_(b, e.off, name)
        end(e) == IF e.depth < 0 THEN -NOTFOUND ELSE e.off
        in(w) == end(w[Min({i \in 1..Len(w) : w[i].off < 0 \/ w[i].depth < 0 \/ hit(w[i])})])
    IN  IF fdt_ro_probe_(b) < 0 THEN fdt_ro_probe_(b) ELSE in(NodeWalk(b, offset, 0))

\* The components of a path: its longest runs without a slash.
RECURSIVE Components(_)
Components(path) ==
    IF path = <<>> THEN <<>>
    ELSE IF Head(path) = SLASH THEN Components(Tail(path))
    ELSE LET cut == {i \in 1..Len(path) : path[i] = SLASH}
             q == IF cut = {} THEN Len(path) + 1 ELSE Min(cut)
         IN  <<SubSeq(path, 1, q - 1)>> \o Components(SubSeq(path, q, Len(path)))

RECURSIVE Descend(_, _, _)
Descend(b, offset, comps) ==
    IF comps = <<>> THEN offset
    ELSE LET below(n) == IF n < 0 THEN n ELSE Descend(b, n, Tail(comps))
         IN  below(fdt_subnode_offset(b, offset, Head(comps)))

-----------------------------------------------------------------------------
\* Properties.
RECURSIVE nextprop_(_, _)
nextprop_(b, offset) ==
    LET step(t) == CASE t.tag = FDT_END -> IF t.next >= 0 THEN -BADSTRUCTURE ELSE t.next
                     [] t.tag = FDT_PROP -> offset
                     [] t.tag = FDT_NOP -> nextprop_(b, t.next)
                     [] OTHER -> -NOTFOUND
    IN  step(fdt_next_tag(b, offset))

PropAfter(b, n) == IF n < 0 THEN n ELSE nextprop_(b, n)
fdt_first_property_offset(b, node) == PropAfter(b, fdt_check_node_offset_(b, node))
fdt_next_property_offset(b, prop) == PropAfter(b, fdt_check_prop_offset_(b, prop))

RECURSIVE PropsFrom(_, _)
PropsFrom(b, o) ==
    <<o>> \o IF o < 0 THEN <<>> ELSE PropsFrom(b, fdt_next_property_offset(b, o))

fdt_get_property(b, node, name) ==
    LET named(o) == fdt_get_string(b, PropNameoff(b, o)) = name
        in(s) == s[Min({i \in 1..Len(s) : s[i] < 0 \/ named(s[i])})]
    IN  in(PropsFrom(b, fdt_first_property_offset(b, node)))

\* The value of the property at offset o.
PropData(b, o) ==
    [i \in 1..PropLen(b, o) |-> Cell(b, b.off_dt_struct + o + PropHdr + i - 1)]
DataWord(v) == v[TAGSIZE]

\* fdt_getprop_by_offset: the error left in *lenp, 0 when there is none.
fdt_getprop_by_offset(b, o) ==
    IF fdt_check_prop_offset_(b, o) < 0 THEN fdt_check_prop_offset_(b, o)
    ELSE IF fdt_get_string(b, PropNameoff(b, o)) = NoString THEN -BADOFFSET
    ELSE 0

phandle_new_only(b, node) ==      \* mutant: "linux,phandle" is not looked at
    LET word(p) == IF p >= 0 /\ PropLen(b, p) = TAGSIZE THEN DataWord(PropData(b, p)) ELSE 0
    IN  word(fdt_get_property(b, node, N_phandle))
fdt_get_phandle(b, node) ==
    LET word(p, else) == IF p >= 0 /\ PropLen(b, p) = TAGSIZE
                         THEN DataWord(PropData(b, p)) ELSE else
    IN  word(fdt_get_property(b, node, N_phandle),
             word(fdt_get_property(b, node, N_linux_phandle), 0))

RECURSIVE fdt_path_offset(_, _)
fdt_path_offset(b, path) ==
    LET comps == Components(path)
        string(v) == SubSeq(v, 1, SelectInSeq(v, LAMBDA c : c = NUL) - 1)
        below(o) == IF o < 0 THEN o ELSE Descend(b, o, Tail(comps))
        follow(alias) == IF alias < 0 THEN -BADPATH
                         ELSE below(fdt_path_offset(b, string(PropData(b, alias))))
        lookup(aliases) == IF aliases < 0 THEN -BADPATH
                           ELSE follow(fdt_get_property(b, aliases, comps[1]))
    IN  IF fdt_ro_probe_(b) < 0 THEN fdt_ro_probe_(b)
        ELSE IF path # <<>> /\ path[1] = SLASH THEN Descend(b, 0, comps)
        ELSE IF comps = <<>> THEN -BADPATH
        ELSE lookup(Descend(b, 0, <<N_aliases>>))

-----------------------------------------------------------------------------
\* Where a node is.  fdt_get_path keeps the names on the way down in the
\* caller's buffer and drops one level for each that the walk leaves.
PathLen(names) == FoldLeft(LAMBDA n, s : n + Len(s) + 1, 0, names)
BadWalkEnd(off) ==
    IF off = -NOTFOUND \/ off >= 0 THEN -BADOFFSET
    ELSE IF off = -BADOFFSET THEN -BADSTRUCTURE ELSE off

\* The walk as far as the node, or where it is found not to be there.
WalkTo(w, node) == SubSeq(w, 1, Min({i \in 1..Len(w) : w[i].off < 0 \/ w[i].off >= node}))

fdt_get_path(b, node, buflen) ==
    LET step(names, e) ==
            LET up == SubSeq(names, 1, Min({Len(names), e.depth}))
                name == fdt_get_name(b, e.off)
            IN  IF Len(up) >= e.depth /\ PathLen(up) + Len(name) + 1 <= buflen
                THEN Append(up, name) ELSE up
        no(err) == [err |-> err, names |-> <<>>]
        fits(names, depth) == IF Len(names) < depth + 1 THEN no(-NOSPACE)
                              ELSE [err |-> 0, names |-> names]
        along(w) == IF Last(w).off # node THEN no(BadWalkEnd(Last(w).off))
                    ELSE fits(FoldLeft(step, <<>>, w), Last(w).depth)
    IN  IF fdt_ro_probe_(b) < 0 THEN no(fdt_ro_probe_(b))
        ELSE IF buflen < 2 THEN no(-NOSPACE)
        ELSE along(WalkTo(NodeWalk(b, 0, 0), node))

\* The node's depth too, which the code stores through *nodedepth.
fdt_supernode_atdepth_offset(b, node, depth) ==
    LET above(w) ==
            CASE fdt_ro_probe_(b) < 0 -> fdt_ro_probe_(b)
              [] depth < 0 -> -NOTFOUND
              [] Last(w).off # node -> BadWalkEnd(Last(w).off)
              [] depth > Last(w).depth -> -NOTFOUND
              [] OTHER -> Last(SelectSeq(w, LAMBDA e : e.depth = depth)).off
        along(w) == [ret |-> above(w), depth |-> Last(w).depth]
    IN  along(WalkTo(NodeWalk(b, 0, 0), node))

fdt_node_depth(b, node) ==
    LET depth(r) == IF r.ret < 0 THEN r.ret ELSE IF r.ret > 0 THEN -INTERNAL ELSE r.depth
    IN  depth(fdt_supernode_atdepth_offset(b, node, 0))
fdt_parent_offset(b, node) ==
    LET above(d) == IF d < 0 THEN d ELSE fdt_supernode_atdepth_offset(b, node, d - 1).ret
    IN  above(fdt_node_depth(b, node))

-----------------------------------------------------------------------------
\* Searches over all nodes.
fdt_node_offset_by_prop_value(b, start, name, val) ==
    LET has(p) == p >= 0 /\ PropData(b, p) = val
        match(o) == has(fdt_get_property(b, o, name))
        first(s) == s[Min({i \in 1..Len(s) : s[i] < 0 \/ match(s[i])})]
    IN  IF fdt_ro_probe_(b) < 0 THEN fdt_ro_probe_(b) ELSE first(NodesAfter(b, start))

fdt_node_offset_by_phandle(b, phandle) ==
    LET match(o) == fdt_get_phandle(b, o) = phandle
        first(s) == s[Min({i \in 1..Len(s) : s[i] < 0 \/ match(s[i])})]
    IN  IF phandle \in {0, W - 1} THEN -BADPHANDLE
        ELSE IF fdt_ro_probe_(b) < 0 THEN fdt_ro_probe_(b)
        ELSE first(NodesAfter(b, -1))

fdt_find_max_phandle(b) ==
    LET max(s) == IF Last(s) # -NOTFOUND THEN Last(s)
                  ELSE Max({0} \cup {fdt_get_phandle(b, o) : o \in ToSet(Front(s))})
    IN  max(NodesAfter(b, -1))

fdt_generate_phandle(b) ==
    LET above(max) == IF max < 0 THEN max
                      ELSE IF max = FDT_MAX_PHANDLE THEN -NOPHANDLES ELSE (max + 1) % W
    IN  above(fdt_find_max_phandle(b))

\* A value as a list of strings: the strings, and whether the last one lacks
\* its NUL.
RECURSIVE StringList(_)
StringList(v) ==
    LET z == SelectInSeq(v, LAMBDA c : c = NUL)
        rest == StringList(SubSeq(v, z + 1, Len(v)))
    IN  IF v = <<>> THEN [strings |-> <<>>, bad |-> FALSE]
        ELSE IF z = 0 THEN [strings |-> <<>>, bad |-> TRUE]
        ELSE [strings |-> <<SubSeq(v, 1, z - 1)>> \o rest.strings, bad |-> rest.bad]

\* Like memcmp(str, strlist, len + 1), looks one cell past a value that ends
\* without NUL.
RECURSIVE fdt_stringlist_contains(_, _, _, _)
fdt_stringlist_contains(b, list, listlen, str) ==
    LET z == {k \in 0..(listlen - 1) : Cell(b, list + k) = NUL}
    IN  /\ listlen >= Len(str)
        /\ \/ \A i \in 1..(Len(str) + 1) : Cell(b, list + i - 1) = Append(str, NUL)[i]
           \/ /\ z # {}
              /\ fdt_stringlist_contains(b, list + Min(z) + 1, listlen - Min(z) - 1, str)

fdt_stringlist_count(b, node, name) ==
    LET count(l) == IF l.bad THEN -BADVALUE ELSE Len(l.strings)
        of(p) == IF p < 0 THEN p ELSE count(StringList(PropData(b, p)))
    IN  of(fdt_get_property(b, node, name))

fdt_stringlist_search(b, node, name, string) ==
    LET index(l) == LET i == SelectInSeq(l.strings, LAMBDA s : s = string)
                    IN  IF i > 0 THEN i - 1 ELSE IF l.bad THEN -BADVALUE ELSE -NOTFOUND
        of(p) == IF p < 0 THEN p ELSE index(StringList(PropData(b, p)))
    IN  of(fdt_get_property(b, node, name))

fdt_stringlist_get(b, node, name, idx) ==
    LET no(err) == [err |-> err, s |-> <<>>]
        at(l) == IF idx < Len(l.strings) THEN [err |-> 0, s |-> l.strings[idx + 1]]
                 ELSE no(IF l.bad THEN -BADVALUE ELSE -NOTFOUND)
        of(p) == IF p < 0 THEN no(p) ELSE at(StringList(PropData(b, p)))
    IN  of(fdt_get_property(b, node, name))

\* 0: compatible, 1: not, or an error.
fdt_node_check_compatible(b, node, compatible) ==
    LET of(p) == IF p < 0 THEN p
                 ELSE IF fdt_stringlist_contains(b, b.off_dt_struct + p + PropHdr,
                                                 PropLen(b, p), compatible)
                      THEN 0 ELSE 1
    IN  of(fdt_get_property(b, node, N_compatible))

fdt_node_offset_by_compatible(b, start, compatible) ==
    LET err(o) == fdt_node_check_compatible(b, o, compatible)
        found(o) == IF o >= 0 /\ err(o) < 0 THEN err(o) ELSE o
        first(s) == s[Min({i \in 1..Len(s) : s[i] < 0 \/ err(s[i]) \notin {1, -NOTFOUND}})]
    IN  IF fdt_ro_probe_(b) < 0 THEN fdt_ro_probe_(b)
        ELSE found(first(NodesAfter(b, start)))

-----------------------------------------------------------------------------
\* The reserve map, and the full check of fdt_check.c.
fdt_mem_rsv(b, n) == b.off_mem_rsvmap + n * RSVSIZE
MemRsvExists(b, n) == fdt_mem_rsv(b, n) <= b.totalsize - RSVSIZE
fdt_get_mem_rsv(b, n) ==
    <<Cell(b, fdt_mem_rsv(b, n)), Cell(b, fdt_mem_rsv(b, n) + RSVSIZE - 1)>>
fdt_num_mem_rsv(b) ==
    LET last(n) == MemRsvExists(b, n) /\ fdt_get_mem_rsv(b, n)[2] = 0
        N == 0..(b.totalsize \div RSVSIZE)
    IN  IF \E n \in N : last(n)
        THEN CHOOSE n \in N : last(n) /\ \A m \in 0..(n - 1) : ~last(m)
        ELSE -TRUNCATED

RECURSIVE CheckStruct(_, _, _, _)
CheckStruct(b, o, depth, expect_end) ==
    LET step(t) ==
          CASE t.tag = FDT_NOP -> CheckStruct(b, t.next, depth, expect_end)
            [] t.tag = FDT_END -> IF depth # 0 THEN -BADSTRUCTURE ELSE 0
            [] t.tag = FDT_BEGIN_NODE ->
                  IF depth = 0 /\ fdt_get_name(b, o) # <<>> THEN -BADSTRUCTURE
                  ELSE CheckStruct(b, t.next, depth + 1, expect_end)
            [] t.tag = FDT_END_NODE ->
                  IF depth = 0 THEN -BADSTRUCTURE
                  ELSE CheckStruct(b, t.next, depth - 1, depth = 1)
            [] t.tag = FDT_PROP ->
                  IF fdt_getprop_by_offset(b, o) # 0 THEN fdt_getprop_by_offset(b, o)
                  ELSE CheckStruct(b, t.next, depth, expect_end)
        tag(t) == IF t.next < 0 THEN t.next
                  ELSE IF expect_end /\ t.tag # FDT_END THEN -BADSTRUCTURE ELSE step(t)
    IN  tag(fdt_next_tag(b, o))

fdt_check_full(b, bufsize) ==
    IF bufsize < HDRSIZE THEN -TRUNCATED
    ELSE IF fdt_check_header(b) # 0 THEN fdt_check_header(b)
    ELSE IF bufsize < b.totalsize THEN -TRUNCATED
    ELSE IF fdt_num_mem_rsv(b) < 0 THEN fdt_num_mem_rsv(b)
    ELSE CheckStruct(b, 0, 0, FALSE)

-----------------------------------------------------------------------------
\* Cell counts.
fdt_cells(b, node, name) ==
    LET count(v) == IF Len(v) # TAGSIZE \/ DataWord(v) > FDT_MAX_NCELLS THEN -BADNCELLS
                    ELSE DataWord(v)
        of(p) == IF p < 0 THEN p ELSE count(PropData(b, p))
    IN  of(fdt_get_property(b, node, name))
fdt_address_cells(b, node) ==
    LET or2(c) == IF c = 0 THEN -BADNCELLS ELSE IF c = -NOTFOUND THEN 2 ELSE c
    IN  or2(fdt_cells(b, node, N_address_cells))
fdt_size_cells(b, node) ==
    LET or1(c) == IF c = -NOTFOUND THEN 1 ELSE c
    IN  or1(fdt_cells(b, node, N_size_cells))
=============================================================================
