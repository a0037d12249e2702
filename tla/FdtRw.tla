-------------------------------- MODULE FdtRw --------------------------------
(***************************************************************************)
(* The editing functions of libfdt as operators on blobs: fdt_rw.c, the    *)
(* write-in-place functions of fdt_wip.c, fdt_create_empty_tree and        *)
(* fdt_appendprop_addrrange.  Addresses are offsets from the start of the  *)
(* blob.                                                                   *)
(***************************************************************************)
EXTENDS FdtRo
Sw == INSTANCE FdtSw

Errcode(b, e) == [b |-> b, err |-> e]
Poke(b, off, s) == [b EXCEPT !.mem = memcpy(b.mem, b.base + off, s)]

fdt_blocks_misordered_(b, mem_rsv_size, struct_size) ==
    \/ b.off_mem_rsvmap < HDRSIZE
    \/ b.off_dt_struct < b.off_mem_rsvmap + mem_rsv_size
    \/ b.off_dt_strings < b.off_dt_struct + struct_size
    \/ b.totalsize < b.off_dt_strings + b.size_dt_strings

fdt_rw_probe_(b) ==
    IF fdt_ro_probe_(b) < 0 THEN fdt_ro_probe_(b)
    ELSE IF b.version < 17 THEN -BADVERSION
    ELSE IF fdt_blocks_misordered_(b, RSVSIZE, b.size_dt_struct) THEN -BADLAYOUT
    ELSE 0

fdt_data_size_(b) == b.off_dt_strings + b.size_dt_strings

\* Everything from p + oldlen to the end of the data moves to p + newlen.
fdt_splice_(b, p, oldlen, newlen) ==
    LET dsize == fdt_data_size_(b)
    IN  IF oldlen < 0 \/ p + oldlen > dsize \/ p < 0 \/ dsize + newlen < oldlen
        THEN Fail(b, BADOFFSET)
        ELSE IF dsize - oldlen + newlen > b.totalsize THEN Fail(b, NOSPACE)
        ELSE Done([b EXCEPT !.mem = memmove(b.mem, b.base + p + newlen, b.base + p + oldlen,
                                            dsize - (p + oldlen))])

fdt_splice_mem_rsv_(b, n, oldn, newn) ==
    LET r == fdt_splice_(b, fdt_mem_rsv(b, n), oldn * RSVSIZE, newn * RSVSIZE)
        delta == (newn - oldn) * RSVSIZE
    IN  IF r.err # 0 THEN r
        ELSE Done([r.b EXCEPT !.off_dt_struct = @ + delta, !.off_dt_strings = @ + delta])

splice_struct_only(b, off, oldlen, newlen) ==      \* mutant: off_dt_strings stays
    LET r == fdt_splice_(b, b.off_dt_struct + off, oldlen, newlen)
    IN  IF r.err # 0 THEN r
        ELSE Done([r.b EXCEPT !.size_dt_struct = @ + newlen - oldlen])
fdt_splice_struct_(b, off, oldlen, newlen) ==
    LET r == fdt_splice_(b, b.off_dt_struct + off, oldlen, newlen)
    IN  IF r.err # 0 THEN r
        ELSE Done([r.b EXCEPT !.size_dt_struct = @ + newlen - oldlen,
                              !.off_dt_strings = @ + newlen - oldlen])

fdt_splice_string_(b, newlen) ==
    LET r == fdt_splice_(b, fdt_data_size_(b), 0, newlen)
    IN  IF r.err # 0 THEN r ELSE Done([r.b EXCEPT !.size_dt_strings = @ + newlen])

fdt_del_last_string_(b, s) == [b EXCEPT !.size_dt_strings = @ - (Len(s) + 1)]

\* The offset of the string, or an error.
fdt_find_add_string_(b, s) ==
    LET p == fdt_find_string_(b, b.off_dt_strings, b.size_dt_strings, s)
        r == fdt_splice_string_(b, Len(s) + 1)
    IN  IF p >= 0 THEN [b |-> b, off |-> p, allocated |-> FALSE]
        ELSE IF r.err # 0 THEN [b |-> b, off |-> r.err, allocated |-> FALSE]
        ELSE [b |-> Poke(r.b, fdt_data_size_(b), Append(s, NUL)),
              off |-> b.size_dt_strings, allocated |-> TRUE]

fdt_add_mem_rsv(b, address, size) ==
    LET n == fdt_num_mem_rsv(b)
        r == fdt_splice_mem_rsv_(b, n, 0, 1)
    IN  IF fdt_rw_probe_(b) # 0 THEN Errcode(b, fdt_rw_probe_(b))
        ELSE IF r.err # 0 THEN r
        ELSE Done(Poke(r.b, fdt_mem_rsv(b, n), Sw!RsvCells(address, size)))

fdt_del_mem_rsv(b, n) ==
    IF fdt_rw_probe_(b) # 0 THEN Errcode(b, fdt_rw_probe_(b))
    ELSE IF n >= fdt_num_mem_rsv(b) THEN Fail(b, NOTFOUND)
    ELSE fdt_splice_mem_rsv_(b, n, 1, 0)

-----------------------------------------------------------------------------
\* Properties.  The operators that make room return the property's offset.
SetLenAligned(b, prop, len) ==      \* mutant: the room instead of the length
    Poke(b, b.off_dt_struct + prop + TAGSIZE, WordCells(FDT_TAGALIGN(len)))
SetLen(b, prop, len) == Poke(b, b.off_dt_struct + prop + TAGSIZE, WordCells(len))
PropValAt(b, prop, val, idx) == Poke(b, b.off_dt_struct + prop + PropHdr + idx, val)

fdt_resize_property_(b, prop, len) ==
    LET r == fdt_splice_struct_(b, prop + PropHdr, FDT_TAGALIGN(PropLen(b, prop)),
                                FDT_TAGALIGN(len))
    IN  IF r.err # 0 THEN r ELSE Done(SetLen(r.b, prop, len))

fdt_add_property_(b, node, name, len) ==
    LET write(r, s, next) ==
            IF r.err # 0
            THEN Errcode(IF s.allocated THEN fdt_del_last_string_(r.b, name) ELSE r.b, r.err)
            ELSE Done(Poke(r.b, r.b.off_dt_struct + next,
                           WordCells(FDT_PROP) \o WordCells(len) \o WordCells(s.off)))
        named(s, next) ==
            IF s.off < 0 THEN Errcode(b, s.off)
            ELSE write(fdt_splice_struct_(s.b, next, 0, PropHdr + FDT_TAGALIGN(len)), s, next)
        at(next) == IF next < 0 THEN Errcode(b, next)
                    ELSE named(fdt_find_add_string_(b, name), next)
    IN  at(fdt_check_node_offset_(b, node))

\* fdt_setprop_placeholder and the copy of the value by fdt_setprop.
fdt_setprop(b, node, name, val) ==
    LET copy(r, prop) == IF r.err # 0 THEN r ELSE Done(PropValAt(r.b, prop, val, 0))
        added(r) == copy(IF r.err = -NOTFOUND THEN fdt_add_property_(b, node, name, Len(val))
                         ELSE r, fdt_check_node_offset_(b, node))
        over(old) == IF old < 0 THEN added(Errcode(b, old))
                     ELSE copy(fdt_resize_property_(b, old, Len(val)), old)
    IN  IF fdt_rw_probe_(b) # 0 THEN Errcode(b, fdt_rw_probe_(b))
        ELSE over(fdt_get_property(b, node, name))

fdt_appendprop(b, node, name, val) ==
    LET copy(r, prop, idx) == IF r.err # 0 THEN r ELSE Done(PropValAt(r.b, prop, val, idx))
        after(old) ==
            IF old >= 0
            THEN copy(fdt_resize_property_(b, old, PropLen(b, old) + Len(val)), old, PropLen(b, old))
            ELSE copy(fdt_add_property_(b, node, name, Len(val)),
                      fdt_check_node_offset_(b, node), 0)
    IN  IF fdt_rw_probe_(b) # 0 THEN Errcode(b, fdt_rw_probe_(b))
        ELSE after(fdt_get_property(b, node, name))

fdt_delprop(b, node, name) ==
    LET prop == fdt_get_property(b, node, name)
    IN  IF fdt_rw_probe_(b) # 0 THEN Errcode(b, fdt_rw_probe_(b))
        ELSE IF prop < 0 THEN Errcode(b, prop)
        ELSE fdt_splice_struct_(b, prop, PropHdr + FDT_TAGALIGN(PropLen(b, prop)), 0)

\* Addresses and sizes below W are single cells, those of W and more take two.
CellsOf(v, n) == IF n = 1 THEN WordCells(v) ELSE WordCells(v \div W) \o WordCells(v % W)
fdt_appendprop_addrrange(b, parent, node, name, addr, size) ==
    LET append(ac, sc) ==
            IF ac < 0 THEN Errcode(b, ac)
            ELSE IF sc < 0 THEN Errcode(b, sc)
            ELSE IF ac = 1 /\ (addr > W - 1 \/ W - addr < size) THEN Fail(b, BADVALUE)
            ELSE IF ac \notin {1, 2} THEN Fail(b, BADNCELLS)
            ELSE IF sc = 1 /\ size > W - 1 THEN Fail(b, BADVALUE)
            ELSE IF sc \notin {1, 2} THEN Fail(b, BADNCELLS)
            ELSE fdt_appendprop(b, node, name, CellsOf(addr, ac) \o CellsOf(size, sc))
    IN  append(fdt_address_cells(b, parent), fdt_size_cells(b, parent))

fdt_setprop_inplace_partial(b, node, name, idx, val) ==
    LET prop == fdt_get_property(b, node, name)
    IN  IF prop < 0 THEN Errcode(b, prop)
        ELSE IF PropLen(b, prop) < Len(val) + idx THEN Fail(b, NOSPACE)
        ELSE Done(PropValAt(b, prop, val, idx))

fdt_setprop_inplace(b, node, name, val) ==
    LET prop == fdt_get_property(b, node, name)
    IN  IF prop < 0 THEN Errcode(b, prop)
        ELSE IF PropLen(b, prop) # Len(val) THEN Fail(b, NOSPACE)
        ELSE fdt_setprop_inplace_partial(b, node, name, 0, val)

\* Words of FDT_NOP over len cells, the last one possibly reaching further.
fdt_nop_region_(b, off, len) ==
    Poke(b, b.off_dt_struct + off,
         [i \in 1..FDT_TAGALIGN(len) |-> IF i % TAGSIZE = 0 THEN FDT_NOP ELSE 0])

fdt_nop_property(b, node, name) ==
    LET prop == fdt_get_property(b, node, name)
    IN  IF prop < 0 THEN Errcode(b, prop)
        ELSE Done(fdt_nop_region_(b, prop, PropLen(b, prop) + PropHdr))

-----------------------------------------------------------------------------
\* Nodes.
fdt_node_end_offset_(b, node) ==
    LET w == NodeWalk(b, node, 0)
    IN  w[Min({i \in 1..Len(w) : w[i].off < 0 \/ w[i].depth < 0})].off

fdt_nop_node(b, node) ==
    LET end == fdt_node_end_offset_(b, node)
    IN  IF end < 0 THEN Errcode(b, end) ELSE Done(fdt_nop_region_(b, node, end - node))

fdt_set_name(b, node, name) ==
    LET old == fdt_get_name(b, node)
        r == fdt_splice_struct_(b, node + TAGSIZE, FDT_TAGALIGN(Len(old) + 1),
                                FDT_TAGALIGN(Len(name) + 1))
    IN  IF fdt_rw_probe_(b) # 0 THEN Errcode(b, fdt_rw_probe_(b))
        ELSE IF old = NoString THEN Errcode(b, fdt_check_node_offset_(b, node))
        ELSE IF r.err # 0 THEN r
        ELSE Done(Poke(r.b, r.b.off_dt_struct + node + TAGSIZE, Append(name, NUL)))

RECURSIVE SkipProps(_, _)
SkipProps(b, o) ==
    LET t == fdt_next_tag(b, o)
    IN  IF t.tag \in {FDT_PROP, FDT_NOP} THEN SkipProps(b, t.next) ELSE o

\* The new node goes after the parent's properties; its offset is returned.
fdt_add_subnode(b, parent, name) ==
    LET found == fdt_subnode_offset(b, parent, name)
        off == SkipProps(b, fdt_next_tag(b, parent).next)
        namesz == FDT_TAGALIGN(Len(name) + 1)
        r == fdt_splice_struct_(b, off, 0, TAGSIZE + namesz + TAGSIZE)
        padded == [i \in 1..namesz |-> IF i <= Len(name) THEN name[i] ELSE NUL]
    IN  IF fdt_rw_probe_(b) # 0 THEN Errcode(b, fdt_rw_probe_(b))
        ELSE IF found >= 0 THEN Fail(b, EXISTS)
        ELSE IF found # -NOTFOUND THEN Errcode(b, found)
        ELSE IF fdt_next_tag(b, parent).tag # FDT_BEGIN_NODE THEN Fail(b, INTERNAL)
        ELSE IF r.err # 0 THEN r
        ELSE Errcode(Poke(r.b, r.b.off_dt_struct + off,
                          WordCells(FDT_BEGIN_NODE) \o padded \o WordCells(FDT_END_NODE)), off)

fdt_del_node(b, node) ==
    LET end == fdt_node_end_offset_(b, node)
    IN  IF fdt_rw_probe_(b) # 0 THEN Errcode(b, fdt_rw_probe_(b))
        ELSE IF end < 0 THEN Errcode(b, end)
        ELSE fdt_splice_struct_(b, node, end - node, 0)

-----------------------------------------------------------------------------
\* Whole blobs.  fdt_packblocks_ writes the blocks of b, in the standard order
\* and without gaps, to a blob at address "new" of the arena.
fdt_packblocks_(b, new, mem_rsv_size, struct_size) ==
    LET struct_off == HDRSIZE + mem_rsv_size
        strings_off == struct_off + struct_size
        m1 == memmove(b.mem, new + HDRSIZE, b.base + b.off_mem_rsvmap, mem_rsv_size)
        m2 == memmove(m1, new + struct_off, b.base + b.off_dt_struct, struct_size)
        m3 == memmove(m2, new + strings_off, b.base + b.off_dt_strings, b.size_dt_strings)
        hdr == [i \in 1..HDRSIZE |-> HDRMARK]
    IN  [b EXCEPT !.mem = memcpy(m3, new, hdr), !.base = new,
                  !.off_mem_rsvmap = HDRSIZE, !.off_dt_struct = struct_off,
                  !.size_dt_struct = struct_size, !.off_dt_strings = strings_off]

fdt_move(b, buf, bufsize) ==
    IF bufsize < 0 THEN Fail(b, NOSPACE)
    ELSE IF fdt_ro_probe_(b) < 0 THEN Errcode(b, fdt_ro_probe_(b))
    ELSE IF b.totalsize > bufsize THEN Fail(b, NOSPACE)
    ELSE Done([b EXCEPT !.mem = memmove(b.mem, buf, b.base, b.totalsize), !.base = buf])

RECURSIVE StructSize(_, _)
StructSize(b, o) ==
    LET t == fdt_next_tag(b, o)
    IN  IF t.tag # FDT_END THEN StructSize(b, t.next) ELSE t.next

fdt_open_into(b, buf, bufsize) ==
    LET rsv == (fdt_num_mem_rsv(b) + 1) * RSVSIZE
        struct == IF b.version >= 17 THEN b.size_dt_struct ELSE StructSize(b, 0)
        moved == fdt_move(b, buf, bufsize)
        newsize == HDRSIZE + rsv + struct + b.size_dt_strings
        end == b.base + b.totalsize
        overlap == buf + newsize > b.base /\ buf < end
        tmp == IF overlap THEN end ELSE buf
        packed == fdt_packblocks_(b, tmp, rsv, struct)
        opened(x) == [x EXCEPT !.version = 17, !.size_dt_struct = struct,
                               !.totalsize = bufsize]
    IN  IF fdt_ro_probe_(b) < 0 THEN Errcode(b, fdt_ro_probe_(b))
        ELSE IF b.version < 16 THEN Fail(b, BADVERSION)
        ELSE IF struct < 0 THEN Errcode(b, struct)
        ELSE IF ~fdt_blocks_misordered_(b, rsv, struct)
             THEN IF moved.err # 0 THEN moved ELSE Done(opened(moved.b))
        ELSE IF bufsize < newsize THEN Fail(b, NOSPACE)
        ELSE IF overlap /\ tmp + newsize > buf + bufsize THEN Fail(b, NOSPACE)
        ELSE Done([opened(packed) EXCEPT !.mem = memmove(packed.mem, buf, tmp, newsize),
                                         !.base = buf, !.magic = FDT_MAGIC,
                                         !.last_comp_version = 16])

fdt_pack(b) ==
    LET p == fdt_packblocks_(b, b.base, (fdt_num_mem_rsv(b) + 1) * RSVSIZE, b.size_dt_struct)
    IN  IF fdt_rw_probe_(b) # 0 THEN Errcode(b, fdt_rw_probe_(b))
        ELSE Done([p EXCEPT !.totalsize = fdt_data_size_(p)])

\* The calls of fdt_sw.c that make a tree with nothing but a root.
Then(r, Op(_)) == IF r.err # 0 THEN r ELSE Op(r.b)
fdt_create_empty_tree(mem, base, bufsize) ==
    LET created == Errcode(Sw!fdt_create_with_flags(mem, base, bufsize, 0),
                           Sw!CreateError(bufsize, 0))
        r1 == Then(created, Sw!fdt_finish_reservemap)
        r2 == Then(r1, LAMBDA b : Sw!fdt_begin_node(b, <<>>))
        r3 == Then(r2, Sw!fdt_end_node)
        r4 == Then(r3, Sw!fdt_finish)
    IN  Then(r4, LAMBDA b : fdt_open_into(b, base, bufsize))
=============================================================================
