------------------------------ MODULE FlatTree ------------------------------
(***************************************************************************)
(* dtc's blobs (flattree.c): a live tree written as a blob of any version, *)
(* and a blob read back.  The blob is the record of FdtMem, so that libfdt *)
(* can be asked what it makes of it.  8 bytes are two words.  The assembler*)
(* output goes through the same flatten_tree and is left out, and so are   *)
(* the sizes of the old headers.                                           *)
(***************************************************************************)
EXTENDS LiveTree

DWORD == 2 * TAGSIZE
Versions == {1, 2, 3, 16, 17}
last_comp_version(v) == IF v < 16 THEN 1 ELSE 16
FTF_FULLPATH(v) == v < 16
FTF_VARALIGN(v) == v < 16
FTF_NAMEPROPS(v) == v < 16
FTF_STRTABSIZE(v) == v >= 3
FTF_STRUCTSIZE(v) == v >= 17

-----------------------------------------------------------------------------
\* Writing.  The target of the emitter is [dt, str]: the two blocks so far.
Zeroes(n) == [i \in 1..n |-> 0]
Align(s, a) == s \o Zeroes(AlignUp(Len(s), a) - Len(s))
emit_cell(e, w) == [e EXCEPT !.dt = @ \o WordCells(w)]
emit_string(e, s) == [e EXCEPT !.dt = Align(@ \o Append(s, NUL), TAGSIZE)]

\* The offset of a string in the table: the tail of another one will do.
HasStringAt(str, i, s) ==
    i + Len(s) < Len(str) /\ SubSeq(str, i + 1, i + Len(s) + 1) = Append(s, NUL)
stringtable_find(str, s) ==
    IF \E i \in 0..(Len(str) - 1) : HasStringAt(str, i, s)
    THEN CHOOSE i \in 0..(Len(str) - 1) :
             HasStringAt(str, i, s) /\ \A j \in 0..(i - 1) : ~HasStringAt(str, j, s)
    ELSE Len(str)
stringtable_insert(str, s) ==
    IF stringtable_find(str, s) < Len(str) THEN str ELSE str \o Append(s, NUL)

emit_unaligned(e, name, cells, v) ==      \* mutant: no alignment in old versions
    [dt |-> Align(e.dt \o WordCells(FDT_PROP) \o WordCells(Len(cells))
                  \o WordCells(stringtable_find(e.str, name)) \o cells, TAGSIZE),
     str |-> stringtable_insert(e.str, name)]
emit_property(e, name, cells, v) ==
    LET words == WordCells(FDT_PROP) \o WordCells(Len(cells))
                 \o WordCells(stringtable_find(e.str, name))
        head == e.dt \o words
        at == IF FTF_VARALIGN(v) /\ Len(cells) >= DWORD THEN Align(head, DWORD) ELSE head
    IN  [dt |-> Align(at \o cells, TAGSIZE), str |-> stringtable_insert(e.str, name)]

RECURSIVE flatten_tree(_, _, _, _)
flatten_tree(t, n, e, v) ==
    LET named == emit_string(emit_cell(e, FDT_BEGIN_NODE),
                             IF FTF_FULLPATH(v) THEN FullPath(t, n) ELSE t[n].name)
        props == SelectSeq(t[n].props, LAMBDA p : ~p.deleted)
        owned == FoldLeft(LAMBDA x, p : emit_property(x, p.name, p.val.val, v), named, props)
        nameprop == FTF_NAMEPROPS(v) /\ \A i \in DOMAIN props : props[i].name # N_name
        full == IF nameprop
                THEN emit_property(owned, N_name, Append(basename(t[n].name), NUL), v) ELSE owned
    IN  IF t[n].deleted THEN e
        ELSE emit_cell(FoldLeft(LAMBDA x, c : flatten_tree(t, c, x, v), full, Kids(t, n)),
                       FDT_END_NODE)

\* The old versions name a node by its full path; strlen() of a path that was
\* never filled in ends the program.
NoPath(t, v) == FTF_FULLPATH(v) /\ \E n \in ToSet(Preorder(t, 1)) : ~t[n].filled

\* The reserve map, its spare entries (-R) and the one that ends it.
Entry(r) == [i \in 1..RSVSIZE |-> IF i = 1 THEN r[1] ELSE IF i = RSVSIZE THEN r[2] ELSE 0]
flatten_reserve_list(rsvs, reservenum) ==
    FlattenSeq([i \in DOMAIN rsvs |-> Entry(rsvs[i])]) \o Zeroes(reservenum * RSVSIZE)

PadLen(size, minsize, padsize, alignsize) ==
    LET min == IF minsize > size THEN minsize - size ELSE 0
        pad == IF padsize > 0 THEN padsize ELSE min
    IN  IF alignsize > 0 THEN AlignUp(size + pad, alignsize) - size ELSE pad

dt_to_blob(t, rsvs, v, opts) ==
    LET rsv == flatten_reserve_list(rsvs, opts.reservenum) \o Zeroes(RSVSIZE)
        blob(dt, str, cells) ==
            [magic |-> FDT_MAGIC, version |-> v, last_comp_version |-> last_comp_version(v),
             base |-> 0, totalsize |-> Len(cells), off_mem_rsvmap |-> HDRSIZE,
             off_dt_struct |-> HDRSIZE + Len(rsv),
             off_dt_strings |-> HDRSIZE + Len(rsv) + Len(dt),
             size_dt_strings |-> IF FTF_STRTABSIZE(v) THEN Len(str) ELSE W - 1,
             size_dt_struct |-> IF FTF_STRUCTSIZE(v) THEN Len(dt) ELSE W - 1,
             mem |-> [a \in 0..(Len(cells) - 1) |-> cells[a + 1]]]
        padded(s) == s \o Zeroes(PadLen(Len(s), opts.minsize, opts.padsize, opts.alignsize))
        blocks(dt, str) ==
            blob(dt, str, padded([i \in 1..HDRSIZE |-> HDRMARK] \o rsv \o dt \o str))
        from(e) == blocks(e.dt \o WordCells(FDT_END), e.str)
    IN  from(flatten_tree(t, 1, [dt |-> <<>>, str |-> <<>>], v))

-----------------------------------------------------------------------------
(***************************************************************************)
(* Reading.  Positions are relative to the structure block; a reader that  *)
(* would call die() returns position -1.                                   *)
(***************************************************************************)
Limit(b) == b.totalsize - b.off_dt_struct
flat_realign(b, o, a) == IF AlignUp(o, a) > Limit(b) THEN -1 ELSE AlignUp(o, a)
StructCells(b, o, n) == [i \in 1..n |-> Cell(b, b.off_dt_struct + o + i - 1)]

flat_read_string(b, o) ==
    LET last == b.totalsize - 1
        s == StringAt(b, b.off_dt_struct + o, last)
    IN  IF s = NoString THEN [s |-> s, next |-> -1]
        ELSE [s |-> s, next |-> flat_realign(b, o + Len(s) + 1, TAGSIZE)]

flat_read_stringtable(b, off) ==
    LET limit == IF b.version >= 3 THEN b.off_dt_strings + b.size_dt_strings ELSE b.totalsize
    IN  StringAt(b, b.off_dt_strings + off, limit - 1)

\* The property whose tag is before position o.
flat_read_property(b, o) ==
    LET len == StructWord(b, o)
        name == flat_read_stringtable(b, StructWord(b, o + TAGSIZE))
        start == IF FTF_VARALIGN(b.version) /\ len >= DWORD
                 THEN flat_realign(b, o + 2 * TAGSIZE, DWORD) ELSE o + 2 * TAGSIZE
        bad == [p |-> <<>>, next |-> -1]
    IN  IF o + 2 * TAGSIZE > Limit(b) THEN bad
        ELSE IF name = NoString \/ start < 0 \/ start + len > Limit(b) THEN bad
        ELSE [p |-> build_property(name, [val |-> StructCells(b, start, len), markers |-> <<>>]),
              next |-> IF len = 0 THEN start ELSE flat_realign(b, start + len, TAGSIZE)]

RECURSIVE flat_read_mem_reserve(_, _)
flat_read_mem_reserve(b, off) ==
    LET entry == <<Cell(b, off), Cell(b, off + RSVSIZE - 1)>>
    IN  IF entry[2] = 0 THEN <<>> ELSE <<entry>> \o flat_read_mem_reserve(b, off + RSVSIZE)

nodename_from_path(ppath, cpath) ==
    SubSeq(cpath, Len(ppath) + (IF ppath = <<SLASH>> THEN 1 ELSE 2), Len(cpath))

\* The rest of a node: def is what was read of it, path its flat name.
RECURSIVE UnflattenFrom(_, _, _, _)
RECURSIVE unflatten_tree(_, _, _)
UnflattenFrom(b, o, def, path) ==
    LET tag == StructWord(b, o)
        next == o + TAGSIZE
        die == [def |-> def, next |-> -1]
    IN  IF next > Limit(b) THEN die
        ELSE CASE tag = FDT_PROP ->
                    LET with(r) ==
                          IF r.next < 0 THEN die
                          ELSE UnflattenFrom(b, r.next, [def EXCEPT !.props = Append(@, r.p)], path)
                    IN  with(flat_read_property(b, next))
               [] tag = FDT_BEGIN_NODE ->
                    LET with(r) ==
                          IF r.next < 0 THEN die
                          ELSE UnflattenFrom(b, r.next, [def EXCEPT !.kids = Append(@, r.def)], path)
                    IN  with(unflatten_tree(b, next, path))
               [] tag = FDT_END_NODE -> [def |-> def, next |-> next]
               [] tag = FDT_NOP -> UnflattenFrom(b, next, def, path)
               [] OTHER -> die
unflatten_tree(b, o, parent) ==
    LET flat == flat_read_string(b, o)
        full == FTF_FULLPATH(b.version)
        name == IF full THEN nodename_from_path(parent, flat.s) ELSE flat.s
    IN  IF flat.next < 0 \/ (full /\ ~IsPrefix(parent, flat.s))
        THEN [def |-> Def(<<>>, <<>>, <<>>, <<>>), next |-> -1]
        ELSE UnflattenFrom(b, flat.next, Def(name, <<>>, <<>>, <<>>), flat.s)

\* A word sum that wraps, or goes beyond the blob, is refused.
Within(b, off, size) == off + size < W /\ off + size <= b.totalsize
HeaderSound(b) ==
    /\ b.magic = FDT_MAGIC
    /\ b.off_mem_rsvmap < b.totalsize /\ b.off_dt_struct < b.totalsize
    /\ b.off_dt_strings <= b.totalsize
    /\ b.version >= 3 => Within(b, b.off_dt_strings, b.size_dt_strings)
    /\ b.version >= 17 => Within(b, b.off_dt_struct, b.size_dt_struct)

NoTree == [def |-> Def(<<>>, <<>>, <<>>, <<>>), rsvs |-> <<>>, ok |-> FALSE]
dt_from_blob(b) ==
    LET end(r) ==
            IF r.next < 0 THEN NoTree
            ELSE IF r.next + TAGSIZE > Limit(b) \/ StructWord(b, r.next) # FDT_END THEN NoTree
            ELSE [def |-> r.def, rsvs |-> flat_read_mem_reserve(b, b.off_mem_rsvmap), ok |-> TRUE]
    IN  IF ~HeaderSound(b) THEN NoTree
        ELSE IF StructWord(b, 0) # FDT_BEGIN_NODE THEN NoTree
        ELSE end(unflatten_tree(b, TAGSIZE, <<>>))

=============================================================================
