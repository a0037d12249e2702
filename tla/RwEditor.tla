------------------------------ MODULE RwEditor ------------------------------
(***************************************************************************)
(* A client that opens a flattened tree (an empty one, or one of version   *)
(* 16 that another program wrote with the strings before the structure),   *)
(* and edits it with the calls of fdt_rw.c and fdt_wip.c in any order, in  *)
(* a buffer that may be too small.  It names nodes by their current        *)
(* offsets and does not rename the root.                                   *)
(***************************************************************************)
EXTENDS FdtRw

CONSTANTS Arena,      \* number of cells of the arena
          Buffers,    \* the buffers the client has: [base, size] records
          NodeNames, PropNames, Values,
          MaxCalls    \* bound on the number of calls

VARIABLES b,      \* the blob
          call,   \* the last call
          ret,    \* what it returned
          n,      \* the number of calls so far
          tree,   \* the tree that is in the blob: its tokens,
          offs,   \* the offsets they start at,
          rsvs    \* and the reserved ranges
vars == <<b, call, ret, n, tree, offs, rsvs>>

\* Reading the tree in a blob cell by cell, without libfdt, FDT_NOPs left out.
RECURSIVE TokensAt(_, _)
TokensAt(x, o) ==
    LET at == x.off_dt_struct + o
        tag == Word(x, at)
        name == StringAt(x, at + TAGSIZE, x.totalsize - 1)
        pname == StringAt(x, x.off_dt_strings + Word(x, at + 2 * TAGSIZE), x.totalsize - 1)
        len == Word(x, at + TAGSIZE)
        val == [i \in 1..len |-> Cell(x, at + 3 * TAGSIZE + i - 1)]
        tok(t, nm, v) == <<[off |-> o, tok |-> [tag |-> t, name |-> nm, val |-> v]]>>
    IN  CASE tag = FDT_END -> <<>>
          [] tag = FDT_NOP -> TokensAt(x, o + TAGSIZE)
          [] tag = FDT_END_NODE -> tok("end", <<>>, <<>>) \o TokensAt(x, o + TAGSIZE)
          [] tag = FDT_BEGIN_NODE ->
                tok("begin", name, <<>>)
                \o TokensAt(x, o + TAGSIZE + FDT_TAGALIGN(Len(name) + 1))
          [] tag = FDT_PROP ->
                tok("prop", pname, val)
                \o TokensAt(x, o + 3 * TAGSIZE + FDT_TAGALIGN(len))
RECURSIVE RsvAt(_, _)
RsvAt(x, o) == IF Cell(x, o + RSVSIZE - 1) = 0 THEN <<>>
               ELSE <<<<Cell(x, o), Cell(x, o + RSVSIZE - 1)>>>> \o RsvAt(x, o + RSVSIZE)
Toks(s) == [k \in 1..Len(s) |-> s[k].tok]
Offs(s) == [k \in 1..Len(s) |-> s[k].off]

CallRec(f, i, name, val) == [f |-> f, i |-> i, name |-> name, val |-> val]
DT == INSTANCE DevTree
      WITH Calls <- [f: STRING, i: Nat, name: Seq(Nat), val: Seq(Nat)]

-----------------------------------------------------------------------------
Garbage == [a \in 0..(Arena - 1) |-> 8]
Pad(s) == s \o [i \in 1..(FDT_TAGALIGN(Len(s)) - Len(s)) |-> 0]
BeginCells(name) == WordCells(FDT_BEGIN_NODE) \o Pad(Append(name, NUL))
PropCells(nameoff, val) ==
    WordCells(FDT_PROP) \o WordCells(Len(val)) \o WordCells(nameoff) \o Pad(val)
EndCells == WordCells(FDT_END_NODE)
\* A blob at the start of the arena that another program wrote.
BlobOf(version, strings, struct) ==
    LET first == HDRSIZE + RSVSIZE
        old == version < 17      \* no struct size, and the strings come first
        cells == [i \in 1..HDRSIZE |-> HDRMARK] \o [i \in 1..RSVSIZE |-> 0]
                 \o IF old THEN strings \o struct ELSE struct \o strings
    IN  [mem |-> memcpy(Garbage, 0, cells), base |-> 0, magic |-> FDT_MAGIC,
         version |-> version, last_comp_version |-> 16, totalsize |-> Len(cells),
         off_mem_rsvmap |-> HDRSIZE, size_dt_strings |-> Len(strings),
         off_dt_strings |-> IF old THEN first ELSE first + Len(struct),
         off_dt_struct |-> IF old THEN first + Len(strings) ELSE first,
         size_dt_struct |-> IF old THEN 0 ELSE Len(struct)]

\* / { phandle = 2; a@ { linux,phandle = FDT_MAX_PHANDLE; }; }, version 16.
Foreign ==
    BlobOf(16, Append(N_linux_phandle, NUL),
           BeginCells(<<>>) \o PropCells(1, WordCells(2))
           \o BeginCells(<<97, AT>>) \o PropCells(0, WordCells(FDT_MAX_PHANDLE))
           \o EndCells
           \o EndCells \o WordCells(FDT_END))
\* / { #address-cells = 1; aliases { q = "/a@"; }; a@ { compatible = "c", "d"; }; }
Alias == <<113>>
Board ==
    BlobOf(17, Append(N_address_cells, NUL) \o Append(Alias, NUL) \o Append(N_compatible, NUL),
           BeginCells(<<>>) \o PropCells(0, WordCells(1))
           \o BeginCells(N_aliases) \o PropCells(3, <<SLASH, 97, AT, NUL>>) \o EndCells
           \o BeginCells(<<97, AT>>) \o PropCells(5, <<99, NUL, 100, NUL>>) \o EndCells
           \o EndCells \o WordCells(FDT_END))

\* Bound: one call fewer on the largest tree.
Spent(blob) == IF blob = Board THEN 1 ELSE 0
Init == /\ b \in {Foreign, Board}
                 \cup {fdt_create_empty_tree(Garbage, buf.base, buf.size).b :
                          buf \in {x \in Buffers : x.base = 0}}
        /\ call = CallRec("none", 0, <<>>, <<>>) /\ ret = 0 /\ n = Spent(b)
        /\ tree = Toks(TokensAt(b, 0)) /\ offs = Offs(TokensAt(b, 0))
        /\ rsvs = RsvAt(b, b.off_mem_rsvmap)

Call(c, r) == /\ n < MaxCalls /\ n' = n + 1
              /\ call' = c /\ b' = r.b /\ ret' = r.err
              /\ LET s == TokensAt(r.b, 0) IN tree' = Toks(s) /\ offs' = Offs(s)
              /\ rsvs' = RsvAt(r.b, r.b.off_mem_rsvmap)

\* libfdt.h: a tree is opened with fdt_open_into before it is edited.
Opened == b.version = 17
Nodes == {i \in 1..Len(tree) : tree[i].tag = "begin"}
Off(i) == offs[i]

OpenInto == \E buf \in Buffers :
    Call(CallRec("open_into", 0, <<>>, <<>>), fdt_open_into(b, buf.base, buf.size))
Pack == Opened /\ Call(CallRec("pack", 0, <<>>, <<>>), fdt_pack(b))
SetProp == \E i \in Nodes, p \in PropNames, v \in Values :
    Opened /\ Call(CallRec("setprop", i, p, v), fdt_setprop(b, Off(i), p, v))
AppendProp == \E i \in Nodes, p \in PropNames, v \in Values :
    Opened /\ Call(CallRec("appendprop", i, p, v), fdt_appendprop(b, Off(i), p, v))
SetPropInplace == \E i \in Nodes, p \in PropNames, v \in Values :
    Opened /\ Call(CallRec("inplace", i, p, v), fdt_setprop_inplace(b, Off(i), p, v))
\* A "reg" entry of the root, whose cell counts default to 2 and 1.
AppendAddrRange == \E addr \in {3, W + 1} :
    LET count(p, default) == LET k == DT!PropOf(tree, 1, p)
                             IN  IF k = 0 THEN default ELSE tree[k].val[TAGSIZE]
        ac == count(N_address_cells, 2)
        bad == ac = 1 /\ addr >= W
        cells == CellsOf(addr, ac) \o CellsOf(1, count(N_size_cells, 1))
    IN  /\ Opened /\ Nodes # {}
        /\ Call(CallRec(IF bad THEN "bad_value" ELSE "appendprop", 1, <<114>>, cells),
                fdt_appendprop_addrrange(b, Off(1), Off(1), <<114>>, addr, 1))
DelProp == \E i \in Nodes, p \in PropNames :
    Opened /\ Call(CallRec("delprop", i, p, <<>>), fdt_delprop(b, Off(i), p))
NopProp == \E i \in Nodes, p \in PropNames :
    Opened /\ Call(CallRec("nop_property", i, p, <<>>), fdt_nop_property(b, Off(i), p))
AddSubnode == \E i \in Nodes, s \in NodeNames :
    Opened /\ Call(CallRec("add_subnode", i, s, <<>>), fdt_add_subnode(b, Off(i), s))
SetName == \E i \in Nodes \ {1}, s \in NodeNames :
    Opened /\ Call(CallRec("set_name", i, s, <<>>), fdt_set_name(b, Off(i), s))
DelNode == \E i \in Nodes :
    Opened /\ Call(CallRec("del_node", i, <<>>, <<>>), fdt_del_node(b, Off(i)))
NopNode == \E i \in Nodes :
    Opened /\ Call(CallRec("nop_node", i, <<>>, <<>>), fdt_nop_node(b, Off(i)))
AddMemRsv == Opened /\ Call(CallRec("add_mem_rsv", 0, <<>>, <<6, 1>>), fdt_add_mem_rsv(b, 6, 1))
DelMemRsv == \E k \in {0, 1} :
    Opened /\ Call(CallRec("del_mem_rsv", k, <<>>, <<>>), fdt_del_mem_rsv(b, k))

Next == \/ OpenInto \/ Pack \/ SetProp \/ AppendProp \/ SetPropInplace \/ DelProp
        \/ AppendAddrRange \/ NopProp \/ AddSubnode \/ SetName
        \/ DelNode \/ NopNode \/ AddMemRsv \/ DelMemRsv
Spec == Init /\ [][Next]_vars

-----------------------------------------------------------------------------
(* Properties *)

\* Every call does to the tree in the blob exactly what it promises, or fails
\* and leaves that tree as it was: whatever splicing, string sharing, rollback,
\* NOP runs, stale cells and moves between overlapping buffers happen below.
ImplementsDevTree == DT!Spec

\* The blob stays one that fdt_check_full accepts, with its blocks in order and
\* its header intact.
WellFormed ==
    /\ fdt_check_full(b, b.totalsize) = 0
    /\ Opened => ~fdt_blocks_misordered_(b, RSVSIZE, b.size_dt_struct)
    /\ \A k \in 0..(HDRSIZE - 1) : Cell(b, k) = HDRMARK
    /\ b.base + b.totalsize <= Arena

\* The path of a node as the names from the root.
PathOf(i) == [d \in 1..DT!Depth(tree, i) |->
    tree[Max({j \in Nodes : /\ j <= i /\ DT!EndOf(tree, j) >= i
                            /\ DT!Depth(tree, j) = d})].name]
FlatPath(names) == FoldLeft(LAMBDA s, x : s \o <<SLASH>> \o x, <<>>, Tail(names))
OffOr(i) == IF i = 0 THEN -NOTFOUND ELSE Off(i)

\* The node walks of fdt.c and fdt_ro.c agree with the tree: order, children,
\* siblings, depth, parent, lookup by name with and without unit address, path.
NavigationAgrees ==
    LET order == SetToSortSeq(Nodes, LAMBDA i, j : i < j)
    IN  /\ NodesAfter(b, -1) = [k \in 1..Len(order) |-> Off(order[k])] \o <<-NOTFOUND>>
        /\ \A i \in Nodes :
             LET kids == DT!ChildrenOf(tree, i)
             IN  /\ fdt_first_subnode(b, Off(i)) = OffOr(IF kids = {} THEN 0 ELSE Min(kids))
                 /\ \A c \in kids :
                      LET later == {k \in kids : k > c}
                      IN  /\ fdt_next_subnode(b, Off(c))
                                = OffOr(IF later = {} THEN 0 ELSE Min(later))
                          /\ fdt_parent_offset(b, Off(c)) = Off(i)
                 /\ fdt_node_depth(b, Off(i)) = DT!Depth(tree, i) - 1
                 /\ \A s \in NodeNames :
                      fdt_subnode_offset(b, Off(i), s) = OffOr(DT!ChildOf(tree, i, s))
                 /\ LET r == fdt_get_path(b, Off(i), 20)
                    IN  r.err = 0 /\ r.names = PathOf(i)
                 /\ fdt_path_offset(b, <<SLASH>> \o FlatPath(PathOf(i)))
                      = LET step(j, s) == IF j = 0 THEN 0 ELSE DT!ChildOf(tree, j, s)
                        IN  OffOr(FoldLeft(step, 1, Tail(PathOf(i))))

\* A value as the words or strings in it.
WordOf(p) == IF p # 0 /\ Len(tree[p].val) = TAGSIZE THEN tree[p].val[TAGSIZE] ELSE -1
Phandle(i) == LET w == WordOf(DT!PropOf(tree, i, N_phandle))
                  l == WordOf(DT!PropOf(tree, i, N_linux_phandle))
              IN  IF w >= 0 THEN w ELSE IF l >= 0 THEN l ELSE 0
Phandles == {Phandle(i) : i \in Nodes}
Least(S) == OffOr(IF S = {} THEN 0 ELSE Min(S))

ValueOf(i, p) == LET k == DT!PropOf(tree, i, p) IN IF k = 0 THEN NoString ELSE tree[k].val
\* The strings in a value: what stands between NULs.
StringsIn(v) ==
    {SubSeq(v, x[1], x[2] - 1) :
        x \in {<<j, k>> \in (1..Len(v)) \X (1..Len(v)) :
                 /\ j <= k /\ v[k] = NUL /\ (j = 1 \/ v[j - 1] = NUL)
                 /\ \A m \in j..(k - 1) : v[m] # NUL}}

\* The lookups of fdt_ro.c agree with the tree: properties by name although
\* names share cells, phandles in either spelling, the next free phandle and
\* that there is none above FDT_MAX_PHANDLE, searches by phandle, value
\* and compatible string, aliases, cell counts.
LookupsAgree ==
    /\ \A i \in Nodes :
         /\ \A p \in PropNames :
              LET o == fdt_get_property(b, Off(i), p)
                  k == DT!PropOf(tree, i, p)
              IN  o = OffOr(k) /\ (k # 0 => PropData(b, o) = tree[k].val)
         /\ fdt_get_phandle(b, Off(i)) = Phandle(i)
         /\ fdt_address_cells(b, Off(i))
              = LET w == WordOf(DT!PropOf(tree, i, N_address_cells))
                IN  IF ValueOf(i, N_address_cells) = NoString THEN 2 ELSE w
         /\ LET v == ValueOf(i, N_compatible)
            IN  v # NoString =>
                  /\ fdt_stringlist_count(b, Off(i), N_compatible) = Cardinality(StringsIn(v))
                  /\ \A s \in {<<99>>, <<100>>, <<99, 100>>} :
                       /\ (fdt_node_check_compatible(b, Off(i), s) = 0) = (s \in StringsIn(v))
                       /\ LET at == fdt_stringlist_search(b, Off(i), N_compatible, s)
                          IN  IF s \in StringsIn(v)
                              THEN fdt_stringlist_get(b, Off(i), N_compatible, at).s = s
                              ELSE at = -NOTFOUND
    /\ W - 1 \notin Phandles =>
         fdt_generate_phandle(b) = IF FDT_MAX_PHANDLE \in Phandles THEN -NOPHANDLES
                                   ELSE Max({0} \cup Phandles) + 1
    /\ \A h \in {0, 2, FDT_MAX_PHANDLE, W - 1} :
         fdt_node_offset_by_phandle(b, h)
           = IF h \in {0, W - 1} THEN -BADPHANDLE ELSE Least({i \in Nodes : Phandle(i) = h})
    /\ fdt_node_offset_by_prop_value(b, -1, N_phandle, WordCells(2))
         = Least({i \in Nodes : ValueOf(i, N_phandle) = WordCells(2)})
    /\ fdt_node_offset_by_compatible(b, -1, <<100>>)
         = Least({i \in Nodes : <<100>> \in StringsIn(ValueOf(i, N_compatible))})
    /\ LET z == IF Nodes = {} THEN 0 ELSE DT!ChildOf(tree, 1, N_aliases)
       IN  fdt_path_offset(b, Alias)
             = IF z = 0 \/ ValueOf(z, Alias) = NoString THEN -BADPATH
               ELSE OffOr(DT!ChildOf(tree, 1, <<97, AT>>))
=============================================================================
