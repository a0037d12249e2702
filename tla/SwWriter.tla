------------------------------ MODULE SwWriter ------------------------------
(***************************************************************************)
(* A client that writes a tree with the calls of fdt_sw.c, in any order,   *)
(* into an arena in which fdt_resize may move the unfinished blob to an    *)
(* overlapping buffer.  "log" and "rsvs" record what the calls that        *)
(* returned 0 were asked to write.                                         *)
(***************************************************************************)
EXTENDS FdtSw

CONSTANTS Arena,      \* number of cells of the arena
          Buffers,    \* the buffers the client has: [base, size] records
          NodeNames, PropNames, Values, RsvAddrs, Flags

\* The buffers lie in the arena; bufsize is an int, and not the one value of
\* it (INT32_MAX) that fdt_ro_probe_ refuses as a totalsize; and the longest
\* property name is shorter than the header and one reserve entry (31 against
\* 64 characters): then "totalsize - offset" in fdt_add_string_ cannot wrap.
ASSUME WriterAssumption ==
    /\ Arena \in Nat /\ Arena < W
    /\ \A buf \in Buffers : /\ buf.base \in Nat /\ buf.size \in Nat
                            /\ buf.base + buf.size <= Arena /\ buf.size < INT_MAX
    /\ NodeNames \subseteq Seq(Nat \ {0}) /\ PropNames \subseteq Seq(Nat \ {0})
    /\ Values \subseteq Seq(Nat) /\ RsvAddrs \subseteq Nat \ {0}
    /\ Flags \subseteq Nat
    /\ \A n \in PropNames : Len(n) + 1 <= SwHdrSize + RSVSIZE
    /\ SwHdrSize \in Nat /\ SwHdrSize >= HDRSIZE

VARIABLES b,      \* the blob
          ret,    \* what the last call returned
          log,    \* the tokens written so far
          rsvs    \* the reserve entries written so far
vars == <<b, ret, log, rsvs>>

Garbage == 8
NoBlob == [mem |-> [a \in 0..(Arena - 1) |-> Garbage], base |-> 0, magic |-> "none",
           version |-> 0, last_comp_version |-> 0, totalsize |-> 0,
           off_mem_rsvmap |-> 0, off_dt_struct |-> 0, off_dt_strings |-> 0,
           size_dt_strings |-> 0, size_dt_struct |-> 0]
Token(tag, name, val) == [tag |-> tag, name |-> name, val |-> val]

Init == b = NoBlob /\ ret = 0 /\ log = <<>> /\ rsvs = <<>>

\* One call: its blob and return code, and what it wrote if it succeeded.
Call(r, tokens, entries) ==
    /\ b' = r.b
    /\ ret' = r.err
    /\ log' = IF r.err = 0 THEN log \o tokens ELSE log
    /\ rsvs' = IF r.err = 0 THEN rsvs \o entries ELSE rsvs

\* One tree per behaviour: fdt_create is called on an untouched arena.
Create == \E buf \in Buffers, f \in Flags :
    /\ b.magic = "none"
    /\ LET e == CreateError(buf.size, f)
       IN  Call([b |-> IF e = 0 THEN fdt_create_with_flags(b.mem, buf.base, buf.size, f)
                       ELSE b, err |-> e], <<>>, <<>>)
Resize == \E buf \in Buffers : Call(fdt_resize(b, buf.base, buf.size), <<>>, <<>>)
AddReserve == \E a \in RsvAddrs : Call(fdt_add_reservemap_entry(b, a, 1), <<>>, <<a>>)
FinishReserve == Call(fdt_finish_reservemap(b), <<>>, <<0>>)
BeginNode == \E n \in NodeNames :
    Call(fdt_begin_node(b, n), <<Token(FDT_BEGIN_NODE, n, <<>>)>>, <<>>)
EndNode == Call(fdt_end_node(b), <<Token(FDT_END_NODE, <<>>, <<>>)>>, <<>>)
Property == \E n \in PropNames, v \in Values :
    Call(fdt_property(b, n, v), <<Token(FDT_PROP, n, v)>>, <<>>)
Finish == Call(fdt_finish(b), <<Token(FDT_END, <<>>, <<>>)>>, <<>>)

Next == \/ Create \/ Resize \/ AddReserve \/ FinishReserve
        \/ BeginNode \/ EndNode \/ Property \/ Finish
Spec == Init /\ [][Next]_vars

-----------------------------------------------------------------------------
(* Properties *)

\* The phases of fdt_sw.c.
InStruct == b.magic = FDT_SW_MAGIC /\ b.off_dt_strings = b.totalsize
Complete == b.magic = FDT_MAGIC

\* The blob lies in the arena, its structure block (growing up) and its
\* strings block (growing down, or moved up against it by fdt_finish) never
\* meet, and the reserve map lies between the header and the structure block:
\* fdt_grab_space_, fdt_add_string_, fdt_resize and fdt_finish compute these
\* bounds from different header fields, in unsigned arithmetic.
Layout ==
    /\ b.base + b.totalsize <= Arena
    /\ b.off_dt_struct + b.size_dt_struct + b.size_dt_strings <= b.totalsize
    /\ b.magic # "none" => /\ HDRSIZE <= b.off_mem_rsvmap
                           /\ b.off_mem_rsvmap <= b.off_dt_struct
    /\ Complete => b.off_dt_strings = StructTop(b)
    /\ (Complete \/ InStruct) => b.off_dt_struct >= b.off_mem_rsvmap + RSVSIZE

\* Where the i-th token of the log starts, from the sizes of those before.
TokenSize(t) ==
    CASE t.tag = FDT_BEGIN_NODE -> TAGSIZE + FDT_TAGALIGN(Len(t.name) + 1)
      [] t.tag = FDT_PROP -> PropHdr + FDT_TAGALIGN(Len(t.val))
      [] OTHER -> TAGSIZE
PosOf(l) ==
    LET start[i \in Nat] == IF i <= 1 THEN 0 ELSE start[i - 1] + TokenSize(l[i - 1])
    IN  start
Pos == PosOf(log)

Holds(off, s) == \A i \in 1..Len(s) : Cell(b, off + i - 1) = s[i]
StringsEnd == IF Complete THEN b.off_dt_strings ELSE b.totalsize

\* Everything a successful call wrote is in the blob, in order and unharmed by
\* what came later: a name found as the tail of another one, the moves of
\* fdt_resize between overlapping buffers, a name rolled back because its
\* property did not fit, the relocation of the strings by fdt_finish.
TokensIntact ==
    /\ b.size_dt_struct = Pos[Len(log) + 1]
    /\ b.magic # "none" => Holds(0, [i \in 1..HDRSIZE |-> HDRMARK])
    /\ \A i \in 1..Len(rsvs) :
           Cell(b, b.off_mem_rsvmap + (i - 1) * RSVSIZE) = rsvs[i]
    /\ \A i \in 1..Len(log) :
           LET t == log[i]
               at == b.off_dt_struct + Pos[i]
               nameoff == Word(b, at + 2 * TAGSIZE)
           IN  /\ Word(b, at) = t.tag
               /\ t.tag = FDT_BEGIN_NODE => Holds(at + TAGSIZE, Append(t.name, NUL))
               /\ t.tag = FDT_PROP =>
                     /\ Word(b, at + TAGSIZE) = Len(t.val)
                     /\ Holds(at + PropHdr, t.val)
                     /\ Holds(StringsEnd + nameoff, Append(t.name, NUL))

\* Of all start and size words a header may have, check_block_ accepts exactly
\* those of a block that lies between the header and the end of the finished
\* blob: neither its start nor its end outside, and its end not wrapped around
\* (fdt.c:52-67).
CheckBlockSound ==
    Complete => \A start, size \in 0..(W - 1) :
        check_block_(HDRSIZE, b.totalsize, start, size)
        <=> HDRSIZE <= start /\ start + size <= b.totalsize

\* The readers of fdt.c and fdt_ro.c work on the unfinished blob as on the
\* finished one: fdt_next_tag steps from token to token, fdt_get_string finds
\* every property's name, so that fdt_finish never stops halfway (which would
\* leave a blob of neither phase); and what it leaves passes fdt_check_header,
\* whose test of blocks is exact.
ReadersAgree ==
    /\ b.magic = FDT_SW_MAGIC => b.off_dt_strings \in {0, b.totalsize}
    /\ \A i \in 1..Len(log) :
           LET t == fdt_next_tag(b, Pos[i])
           IN  /\ t.tag = log[i].tag /\ t.next = Pos[i + 1]
               /\ log[i].tag = FDT_PROP =>
                      fdt_get_string(b, PropNameoff(b, Pos[i])) = log[i].name
    /\ Complete => fdt_check_header(b) = 0
    /\ CheckBlockSound

\* The cells that hold the header, the reserve map, the tokens and the names.
Used == (b.base..(b.base + StructTop(b) - 1))
        \cup ((b.base + b.totalsize - b.size_dt_strings)..(b.base + b.totalsize - 1))

\* A call that returns an error leaves the blob as it was: the same header,
\* and no cell in use overwritten (fdt_property writes the name before it
\* knows that the value fits).
HeaderOf(x) == <<x.base, x.magic, x.version, x.last_comp_version, x.totalsize,
                 x.off_mem_rsvmap, x.off_dt_struct, x.off_dt_strings,
                 x.size_dt_strings, x.size_dt_struct>>
FailureKeepsBlob ==
    [][ret' # 0 => /\ HeaderOf(b') = HeaderOf(b)
                   /\ \A a \in Used : b'.mem[a] = b.mem[a]]_vars

\* The gap between the blocks can be used to its last cell: a node, an end or a
\* property is refused exactly if it does not fit there.  A property takes room
\* at both ends, tested by two functions from different header fields, and for
\* its name only if no string already written ends in it (fdt_sw.c:94-107,
\* 250-335).
Gap == b.totalsize - b.size_dt_strings - StructTop(b)
Written(name) == \E at \in (b.totalsize - b.size_dt_strings)..(b.totalsize - Len(name) - 1) :
                     Holds(at, Append(name, NUL))
NameRoom(name) == IF sw_flags(b) # FDT_CREATE_FLAG_NO_NAME_DEDUP /\ Written(name)
                  THEN 0 ELSE Len(name) + 1
RefusesOnlyFull ==
    InStruct =>
      /\ \A n \in NodeNames :
           fdt_begin_node(b, n).err = 0 <=> TokenSize(Token(FDT_BEGIN_NODE, n, <<>>)) <= Gap
      /\ fdt_end_node(b).err = 0 <=> TAGSIZE <= Gap
      /\ \A n \in PropNames, v \in Values :
           fdt_property(b, n, v).err = 0
           <=> TokenSize(Token(FDT_PROP, n, v)) + NameRoom(n) <= Gap
=============================================================================
