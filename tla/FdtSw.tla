-------------------------------- MODULE FdtSw --------------------------------
(***************************************************************************)
(* The sequential-write functions of libfdt (fdt_sw.c) as operators on     *)
(* blobs.  The structure block grows up from off_dt_struct, the strings    *)
(* block down from totalsize; off_dt_strings tells the phases apart (0: the*)
(* reserve map is being written, totalsize: the structure block is).       *)
(***************************************************************************)
EXTENDS FdtMem

FDT_CREATE_FLAG_NO_NAME_DEDUP == 1
FDT_CREATE_FLAGS_ALL == {0, 1}
Align(x, n) == ((x + n - 1) \div n) * n
SwHdrSize == Align(HDRSIZE, RSVSIZE)

fdt_sw_probe_(b) ==
    IF b.magic = FDT_MAGIC THEN -BADSTATE
    ELSE IF b.magic # FDT_SW_MAGIC THEN -BADMAGIC ELSE 0

fdt_sw_probe_memrsv_(b) ==
    IF fdt_sw_probe_(b) # 0 THEN fdt_sw_probe_(b)
    ELSE IF b.off_dt_strings # 0 THEN -BADSTATE ELSE 0

fdt_sw_probe_struct_(b) ==
    IF fdt_sw_probe_(b) # 0 THEN fdt_sw_probe_(b)
    ELSE IF b.off_dt_strings # b.totalsize THEN -BADSTATE ELSE 0

sw_flags(b) == b.last_comp_version

\* fdt_grab_space_ fails (NULL) or extends the structure block by len.
HasSpaceToEnd(b, len) ==        \* mutant: the strings are forgotten
    b.size_dt_struct + len <= SubU(b.totalsize, b.off_dt_struct)
HasSpaceButOne(b, len) ==       \* mutant: the last cell stays free
    b.size_dt_struct + len < SubU(SubU(b.totalsize, b.off_dt_struct), b.size_dt_strings)
HasSpace(b, len) ==
    b.size_dt_struct + len <= SubU(SubU(b.totalsize, b.off_dt_struct), b.size_dt_strings)
fdt_grab_space_(b, len) == [b EXCEPT !.size_dt_struct = @ + len]
\* The address of what was grabbed: the old end of the structure block.
StructTop(b) == b.off_dt_struct + b.size_dt_struct
Store(b, off, s) == [b EXCEPT !.mem = memcpy(b.mem, b.base + off, s)]

fdt_create_with_flags(mem, base, bufsize, flags) ==
    [mem |-> [a \in DOMAIN mem |->
                 IF a \in base..(base + HDRSIZE - 1) THEN HDRMARK
                 ELSE IF a \in base..(base + bufsize - 1) THEN 0 ELSE mem[a]],
     base |-> base, magic |-> FDT_SW_MAGIC,
     version |-> FDT_LAST_SUPPORTED_VERSION, last_comp_version |-> flags,
     totalsize |-> bufsize, off_mem_rsvmap |-> SwHdrSize,
     off_dt_struct |-> SwHdrSize, off_dt_strings |-> 0,
     size_dt_strings |-> 0, size_dt_struct |-> 0]
CreateError(bufsize, flags) ==
    IF bufsize < SwHdrSize THEN -NOSPACE
    ELSE IF flags \notin FDT_CREATE_FLAGS_ALL THEN -BADFLAGS ELSE 0

\* Head and tail go to a buffer at buf, each moved as a whole, in the order
\* that keeps the second move's source intact.
MoveHeadFirst(b, buf, bufsize, head, tail) ==      \* mutant
    memmove(memmove(b.mem, buf, b.base, head),
            buf + bufsize - tail, b.base + b.totalsize - tail, tail)
MoveBoth(b, buf, bufsize, head, tail) ==
    LET oldtail == b.base + b.totalsize - tail
        newtail == buf + bufsize - tail
    IN  IF buf <= b.base
        THEN memmove(memmove(b.mem, buf, b.base, head), newtail, oldtail, tail)
        ELSE memmove(memmove(b.mem, newtail, oldtail, tail), buf, b.base, head)

\* The header travels with the head.
fdt_resize(b, buf, bufsize) ==
    LET head == StructTop(b)
        tail == b.size_dt_strings
        moved == MoveBoth(b, buf, bufsize, head, tail)
    IN  IF fdt_sw_probe_(b) # 0 THEN [b |-> b, err |-> fdt_sw_probe_(b)]
        ELSE IF head + tail > b.totalsize THEN Fail(b, INTERNAL)
        ELSE IF head + tail > bufsize THEN Fail(b, NOSPACE)
        ELSE Done([b EXCEPT !.mem = moved, !.base = buf, !.totalsize = bufsize,
                            !.off_dt_strings = IF @ # 0 THEN bufsize ELSE 0])

\* A reserve entry: its address, then its size.
RsvCells(addr, size) ==
    [i \in 1..RSVSIZE |-> IF i = 1 THEN addr ELSE IF i = RSVSIZE THEN size ELSE 0]

fdt_add_reservemap_entry(b, addr, size) ==
    IF fdt_sw_probe_memrsv_(b) # 0 THEN [b |-> b, err |-> fdt_sw_probe_memrsv_(b)]
    ELSE IF b.off_dt_struct + RSVSIZE > b.totalsize THEN Fail(b, NOSPACE)
    ELSE Done([Store(b, b.off_dt_struct, RsvCells(addr, size))
               EXCEPT !.off_dt_struct = @ + RSVSIZE])

fdt_finish_reservemap(b) ==
    LET r == fdt_add_reservemap_entry(b, 0, 0)
    IN  IF r.err # 0 THEN r
        ELSE Done([r.b EXCEPT !.off_dt_strings = r.b.totalsize])

fdt_begin_node(b, name) ==
    LET len == TAGSIZE + FDT_TAGALIGN(Len(name) + 1)
    IN  IF fdt_sw_probe_struct_(b) # 0 THEN [b |-> b, err |-> fdt_sw_probe_struct_(b)]
        ELSE IF ~HasSpace(b, len) THEN Fail(b, NOSPACE)
        ELSE Done(Store(fdt_grab_space_(b, len), StructTop(b),
                        WordCells(FDT_BEGIN_NODE) \o Append(name, NUL)))

fdt_end_node(b) ==
    IF fdt_sw_probe_struct_(b) # 0 THEN [b |-> b, err |-> fdt_sw_probe_struct_(b)]
    ELSE IF ~HasSpace(b, TAGSIZE) THEN Fail(b, NOSPACE)
    ELSE Done(Store(fdt_grab_space_(b, TAGSIZE), StructTop(b), WordCells(FDT_END_NODE)))

\* fdt_add_string_ returns 0 when there is no room, otherwise the (negative)
\* offset of the string from the end of the blob.
fdt_add_string_(b, s) ==
    LET len == Len(s) + 1
        offset == b.size_dt_strings + len
    IN  IF SubU(b.totalsize, offset) < StructTop(b) THEN [b |-> b, off |-> 0]
        ELSE [b |-> [Store(b, b.totalsize - offset, Append(s, NUL))
                     EXCEPT !.size_dt_strings = offset],
              off |-> -offset]

KeepLastString(b, s) == b       \* mutant: no rollback
fdt_del_last_string_(b, s) == [b EXCEPT !.size_dt_strings = @ - (Len(s) + 1)]

fdt_find_add_string_(b, s) ==
    LET p == fdt_find_string_(b, b.totalsize - b.size_dt_strings, b.size_dt_strings, s)
        r == fdt_add_string_(b, s)
    IN  IF p >= 0
        THEN [b |-> b, off |-> p - b.size_dt_strings, allocated |-> FALSE]
        ELSE [b |-> r.b, off |-> r.off, allocated |-> TRUE]

\* fdt_property_placeholder and the copy of the value by fdt_property.
fdt_property(b, name, val) ==
    LET s == IF sw_flags(b) = FDT_CREATE_FLAG_NO_NAME_DEDUP
             THEN [b |-> fdt_add_string_(b, name).b, off |-> fdt_add_string_(b, name).off,
                   allocated |-> TRUE]
             ELSE fdt_find_add_string_(b, name)
        len == PropHdr + FDT_TAGALIGN(Len(val))
    IN  IF fdt_sw_probe_struct_(b) # 0 THEN [b |-> b, err |-> fdt_sw_probe_struct_(b)]
        ELSE IF s.off = 0 THEN Fail(b, NOSPACE)
        ELSE IF ~HasSpace(s.b, len)
             THEN Fail(IF s.allocated THEN fdt_del_last_string_(s.b, name) ELSE s.b, NOSPACE)
        ELSE Done(Store(fdt_grab_space_(s.b, len), StructTop(s.b),
                        WordCells(FDT_PROP) \o WordCells(Len(val))
                        \o WordCells(s.off) \o val))

\* The offsets of the tags up to the final FDT_END, walked with fdt_next_tag.
TagOffsets(b) ==
    LET walk[o \in Nat] ==
            LET t == fdt_next_tag(b, o)
            IN  {o} \cup IF t.tag = FDT_END THEN {} ELSE walk[t.next]
    IN  walk[0]

\* fdt_finish: terminator, strings moved down to the structure block, string
\* offsets made relative to the start of the strings, header completed.
fdt_finish(b) ==
    LET g == Store(fdt_grab_space_(b, TAGSIZE), StructTop(b), WordCells(FDT_END))
        newoff == StructTop(g)
        m == [g EXCEPT !.mem = memmove(g.mem, g.base + newoff,
                                       g.base + g.totalsize - g.size_dt_strings,
                                       g.size_dt_strings),
                       !.off_dt_strings = newoff]
        tags == TagOffsets(m)
        names == {o \in tags : fdt_next_tag(m, o).tag = FDT_PROP}
        nameWord(o) == m.base + m.off_dt_struct + o + PropHdr - 1
        f == [m EXCEPT !.mem =
                 [a \in DOMAIN m.mem |-> IF \E o \in names : a = nameWord(o)
                                         THEN m.mem[a] + m.size_dt_strings
                                         ELSE m.mem[a]]]
        broken == {o \in tags : fdt_next_tag(m, o).next < 0}
    IN  IF fdt_sw_probe_struct_(b) # 0 THEN [b |-> b, err |-> fdt_sw_probe_struct_(b)]
        ELSE IF ~HasSpace(b, TAGSIZE) THEN Fail(b, NOSPACE)
        ELSE IF broken # {}
             THEN [b |-> f, err |-> fdt_next_tag(m, CHOOSE o \in broken : TRUE).next]
        ELSE Done([f EXCEPT !.totalsize = newoff + f.size_dt_strings,
                            !.last_comp_version = FDT_LAST_COMPATIBLE_VERSION,
                            !.magic = FDT_MAGIC])
=============================================================================
