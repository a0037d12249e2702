------------------------------- MODULE FdtMem -------------------------------
(***************************************************************************)
(* A flattened device tree as libfdt sees it: a header and an array of     *)
(* memory cells (fdt.c, the string lookup of fdt_ro.c, libfdt_internal.h). *)
(*                                                                         *)
(* A blob is a record: the header fields, and an arena "mem" of integer    *)
(* cells in which the blob starts at address "base" (so that two buffers   *)
(* may overlap).  A character is one cell (0 is NUL); a 32-bit word takes  *)
(* TAGSIZE cells, its value in the last one, and unsigned arithmetic wraps *)
(* at W.  The header words themselves are the record fields; the HDRSIZE   *)
(* cells they occupy hold HDRMARK, which a stray write destroys.           *)
(* Every FDT_ASSUME_* check is compiled in (FDT_ASSUME_MASK is 0).  Every  *)
(* buffer counts as aligned to 8 bytes, so FDT_ERR_ALIGNMENT never occurs; *)
(* the sizes of headers before version 17, and the property layout before  *)
(* version 16, are left out of libfdt's part (FlatTree has the latter).    *)
(***************************************************************************)
EXTENDS Integers, Sequences, FiniteSets

CONSTANTS TAGSIZE,   \* FDT_TAGSIZE, the size and alignment of a word (4)
          HDRSIZE,   \* sizeof(struct fdt_header) rounded for the reserve map
          RSVSIZE,   \* sizeof(struct fdt_reserve_entry)
          W          \* 2^32

ASSUME MemAssumption ==
    /\ TAGSIZE \in Nat \ {0} /\ HDRSIZE \in Nat \ {0}
    /\ RSVSIZE \in Nat \ {0, 1} /\ W \in Nat \ {0, 1}

\* The tags of the structure block, and the two magics.
FDT_BEGIN_NODE == 1
FDT_END_NODE == 2
FDT_PROP == 3
FDT_NOP == 4
FDT_END == 9
FDT_MAGIC == "d00dfeed"
FDT_SW_MAGIC == "~d00dfeed"
NUL == 0
HDRMARK == 99
FDT_FIRST_SUPPORTED_VERSION == 2
FDT_LAST_COMPATIBLE_VERSION == 16
FDT_LAST_SUPPORTED_VERSION == 17

NOTFOUND == 1
EXISTS == 2
NOSPACE == 3
BADOFFSET == 4
BADPATH == 5
BADPHANDLE == 6
BADSTATE == 7
TRUNCATED == 8
BADMAGIC == 9
BADVERSION == 10
BADSTRUCTURE == 11
BADLAYOUT == 12
INTERNAL == 13
BADNCELLS == 14
BADVALUE == 15
BADOVERLAY == 16
NOPHANDLES == 17
BADFLAGS == 18

\* Unsigned addition and subtraction of two words.
AddU(a, c) == IF a + c >= W THEN a + c - W ELSE a + c
SubU(a, c) == IF a >= c THEN a - c ELSE a - c + W
INT_MAX == (W \div 2) - 1

FDT_TAGALIGN(x) == ((x + TAGSIZE - 1) \div TAGSIZE) * TAGSIZE

-----------------------------------------------------------------------------
\* Cells, words and block moves.
Cell(b, off) == b.mem[b.base + off]
Word(b, off) == Cell(b, off + TAGSIZE - 1)
WordCells(v) == [i \in 1..TAGSIZE |-> IF i = TAGSIZE THEN v ELSE 0]
memcpy(mem, at, s) ==
    [a \in DOMAIN mem |->
        IF a \in at..(at + Len(s) - 1) THEN s[a - at + 1] ELSE mem[a]]
memmove(mem, dst, src, n) ==
    [a \in DOMAIN mem |->
        IF a \in dst..(dst + n - 1) THEN mem[src + (a - dst)] ELSE mem[a]]

\* A call's outcome: the blob it leaves and what it returns.
Done(b) == [b |-> b, err |-> 0]
Fail(b, code) == [b |-> b, err |-> -code]

\* The NUL-terminated string at address off of the blob, read no further
\* than "end"; none is the NULL of fdt_get_string.
NoString == <<-1>>
StringAt(b, off, end) ==
    IF \E k \in off..end : Cell(b, k) = NUL
    THEN LET z == CHOOSE k \in off..end : /\ Cell(b, k) = NUL
                                          /\ \A j \in off..(k - 1) : Cell(b, j) # NUL
         IN  [i \in 1..(z - off) |-> Cell(b, off + i - 1)]
    ELSE NoString

-----------------------------------------------------------------------------
\* Header checks.
probe_complete_only(b) ==       \* mutant: an unfinished blob is refused
    IF b.magic # FDT_MAGIC THEN -BADMAGIC ELSE b.totalsize
fdt_ro_probe_(b) ==
    IF b.magic = FDT_MAGIC
    THEN IF \/ b.version < FDT_FIRST_SUPPORTED_VERSION
            \/ b.last_comp_version > FDT_LAST_SUPPORTED_VERSION
         THEN -BADVERSION
         ELSE IF b.totalsize < INT_MAX THEN b.totalsize ELSE -TRUNCATED
    ELSE IF b.magic # FDT_SW_MAGIC THEN -BADMAGIC
    ELSE IF b.size_dt_struct = 0 THEN -BADSTATE
    ELSE IF b.totalsize < INT_MAX THEN b.totalsize ELSE -TRUNCATED

check_off_(hdrsize, totalsize, off) == off >= hdrsize /\ off <= totalsize

check_block_wrapping(hdrsize, totalsize, start, size) ==      \* mutant
    check_off_(hdrsize, totalsize, start) /\ check_off_(hdrsize, totalsize, AddU(start, size))
check_block_(hdrsize, totalsize, start, size) ==
    /\ check_off_(hdrsize, totalsize, start)
    /\ ~(AddU(start, size) < start)
    /\ check_off_(hdrsize, totalsize, AddU(start, size))

fdt_check_header(b) ==
    IF b.magic # FDT_MAGIC THEN -BADMAGIC
    ELSE IF \/ b.version < FDT_FIRST_SUPPORTED_VERSION
            \/ b.last_comp_version > FDT_LAST_SUPPORTED_VERSION
            \/ b.version < b.last_comp_version
         THEN -BADVERSION
    ELSE IF /\ b.totalsize >= HDRSIZE
            /\ b.totalsize <= INT_MAX
            /\ check_off_(HDRSIZE, b.totalsize, b.off_mem_rsvmap)
            /\ IF b.version < 17
               THEN check_off_(HDRSIZE, b.totalsize, b.off_dt_struct)
               ELSE check_block_(HDRSIZE, b.totalsize,
                                 b.off_dt_struct, b.size_dt_struct)
            /\ check_block_(HDRSIZE, b.totalsize,
                            b.off_dt_strings, b.size_dt_strings)
         THEN 0
    ELSE -TRUNCATED

-----------------------------------------------------------------------------
\* Reading the structure block.  fdt_offset_ptr is the test for non-NULL.
fdt_offset_ptr(b, offset, len) ==
    LET abs == AddU(offset, b.off_dt_struct)
    IN  /\ offset >= 0
        /\ ~(abs < offset) /\ ~(AddU(abs, len) < abs)
        /\ AddU(abs, len) <= b.totalsize
        /\ b.version >= 17 =>
              /\ ~(AddU(offset, len) < offset)
              /\ AddU(offset, len) <= b.size_dt_struct

StructWord(b, off) == Word(b, b.off_dt_struct + off)
PropLen(b, off) == StructWord(b, off + TAGSIZE)
PropNameoff(b, off) == StructWord(b, off + 2 * TAGSIZE)
PropHdr == 3 * TAGSIZE

\* One past the NUL of the node name at "off", or -1 if the block ends first.
NameEnd(b, off) ==
    LET limit == b.totalsize - b.off_dt_struct
        stop(k) == k = limit \/ Cell(b, b.off_dt_struct + k) = NUL
        after(z) == IF z < limit /\ fdt_offset_ptr(b, z, 1) THEN z + 1 ELSE -1
    IN  after(CHOOSE k \in off..limit : stop(k) /\ \A j \in off..(k - 1) : ~stop(j))

fdt_next_tag(b, start) ==
    LET tag == StructWord(b, start)
        off == start + TAGSIZE
        bad == [tag |-> FDT_END, next |-> -BADSTRUCTURE]
        after == CASE tag = FDT_BEGIN_NODE -> NameEnd(b, off)
                   [] tag = FDT_PROP ->
                        IF fdt_offset_ptr(b, off, TAGSIZE)
                        THEN AddU(off + PropHdr - TAGSIZE, PropLen(b, start))
                        ELSE -1
                   [] OTHER -> off
        upto(end) == IF end < 0 \/ ~fdt_offset_ptr(b, start, end - start) THEN bad
                     ELSE [tag |-> tag, next |-> FDT_TAGALIGN(end)]
    IN  IF ~fdt_offset_ptr(b, start, TAGSIZE)
        THEN [tag |-> FDT_END, next |-> -TRUNCATED]
        ELSE IF tag \notin {FDT_BEGIN_NODE, FDT_PROP, FDT_END, FDT_END_NODE, FDT_NOP}
             THEN bad
        ELSE upto(after)

fdt_check_offset_(b, offset, tag) ==
    IF offset < 0 \/ offset % TAGSIZE # 0 THEN -BADOFFSET
    ELSE LET found(t) == IF t.tag # tag THEN -BADOFFSET ELSE t.next
         IN  found(fdt_next_tag(b, offset))
fdt_check_node_offset_(b, offset) == fdt_check_offset_(b, offset, FDT_BEGIN_NODE)
fdt_check_prop_offset_(b, offset) == fdt_check_offset_(b, offset, FDT_PROP)

-----------------------------------------------------------------------------
\* The strings block.  fdt_find_string_ returns the index of the first place
\* of the table that holds s and its NUL (possibly the tail of another
\* string), -1 for NULL; the table starts at offset "tab" of the blob.
fdt_find_string_(b, tab, tabsize, s) ==
    LET z == Append(s, NUL)
        P == {p \in 0..(tabsize - Len(z)) :
                  \A i \in 1..Len(z) : Cell(b, tab + p + i - 1) = z[i]}
    IN  IF P = {} THEN -1 ELSE CHOOSE p \in P : \A q \in P : p <= q

fdt_get_string(b, stroffset) ==
    LET total == fdt_ro_probe_(b)
        abs == b.off_dt_strings + stroffset
        last == b.off_dt_strings + b.size_dt_strings
    IN  IF /\ total >= 0 /\ abs \in 0..(total - 1)
           /\ IF b.magic = FDT_MAGIC
              THEN stroffset >= 0 /\ (b.version >= 17 => stroffset < b.size_dt_strings)
              ELSE stroffset < 0 /\ -stroffset <= b.size_dt_strings
        THEN StringAt(b, abs, IF b.magic = FDT_MAGIC /\ b.version >= 17 /\ last < total
                              THEN last - 1 ELSE total - 1)
        ELSE NoString
=============================================================================
