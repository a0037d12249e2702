--------------------------- MODULE SwWriter_proofs ---------------------------
(***************************************************************************)
(* Every property of SwWriter for every arena, word size, buffers, names   *)
(* and values.  First Layout and CheckBlockSound, whose argument is about  *)
(* the header fields alone (Sound).  Then TokensIntact, ReadersAgree and   *)
(* FailureKeepsBlob, from an invariant about the memory cells as well      *)
(* (Intact): what each call of the writer stores and leaves alone, and     *)
(* what the readers make of it.  Last RefusesOnlyFull, from Sound.  Facts  *)
(* about the recursive functions PosOf and TagOffsets are proved from the  *)
(* least-number principle.                                                 *)
(***************************************************************************)
EXTENDS SwWriter, WellFoundedInduction, TLAPS

\* The header fields are words; a blob is a record with these fields.
Fields == {"mem", "base", "magic", "version", "last_comp_version", "totalsize",
           "off_mem_rsvmap", "off_dt_struct", "off_dt_strings", "size_dt_strings",
           "size_dt_struct"}
Header(x) ==
    /\ DOMAIN x = Fields /\ x = [f \in Fields |-> x[f]]
    /\ x.base \in Nat /\ x.totalsize \in Nat /\ x.off_mem_rsvmap \in Nat
    /\ x.off_dt_struct \in Nat /\ x.off_dt_strings \in Nat
    /\ x.size_dt_strings \in Nat /\ x.size_dt_struct \in Nat

\* The room: what Layout says of any blob.
Room(x) ==
    /\ x.base + x.totalsize <= Arena
    /\ StructTop(x) + x.size_dt_strings <= x.totalsize
    /\ x.magic # "none" => /\ HDRSIZE <= x.off_mem_rsvmap
                           /\ x.off_mem_rsvmap <= x.off_dt_struct

\* The strengthening.  While the blob is written, the reserve map starts at
\* SwHdrSize; nothing is in the two blocks before the map is finished; and
\* after that at least the entry that ends the map lies below the structure
\* block, which is what keeps "totalsize - offset" from wrapping.
Phase(x) ==
    /\ x.magic = FDT_SW_MAGIC =>
         /\ x.off_mem_rsvmap = SwHdrSize
         /\ x.off_dt_strings = 0 => x.size_dt_strings = 0 /\ x.size_dt_struct = 0
         /\ x.off_dt_strings # 0 => x.off_dt_struct >= SwHdrSize + RSVSIZE
    /\ x.magic = FDT_MAGIC =>
         /\ x.off_dt_strings = StructTop(x)
         /\ x.off_dt_struct >= x.off_mem_rsvmap + RSVSIZE

Sound(x) == Header(x) /\ Room(x) /\ Phase(x)

-----------------------------------------------------------------------------
\* The assumptions on sizes, without those on names and values.
LEMMA Sizes ==
    /\ TAGSIZE \in Nat /\ TAGSIZE > 0 /\ HDRSIZE \in Nat /\ HDRSIZE > 0
    /\ RSVSIZE \in Nat /\ RSVSIZE > 1
    /\ W \in Nat /\ Arena \in Nat /\ Arena < W
    /\ SwHdrSize \in Nat /\ SwHdrSize >= HDRSIZE
  <1>1. /\ TAGSIZE \in Nat /\ TAGSIZE > 0 /\ HDRSIZE \in Nat /\ HDRSIZE > 0
        /\ RSVSIZE \in Nat /\ RSVSIZE > 1 /\ W \in Nat
    BY MemAssumption
  <1>2. Arena \in Nat /\ Arena < W /\ SwHdrSize \in Nat /\ SwHdrSize >= HDRSIZE
    BY WriterAssumption
  <1> QED BY <1>1, <1>2

\* Where the blocks end, in a header of words.
LEMMA TopNat ==
    ASSUME NEW x, Header(x)
    PROVE  /\ x.totalsize \in Nat /\ x.size_dt_strings \in Nat
           /\ StructTop(x) \in Nat
  <1>1. /\ x.totalsize \in Nat /\ x.size_dt_strings \in Nat
        /\ x.off_dt_struct \in Nat /\ x.size_dt_struct \in Nat
    BY Zenon DEF Header
  <1>2. PICK o \in Nat, s \in Nat : o = x.off_dt_struct /\ s = x.size_dt_struct
    BY <1>1
  <1>3. o + s \in Nat
    OBVIOUS
  <1> QED BY <1>1, <1>2, <1>3 DEF StructTop

\* Alignment gives a natural number (FDT_TAGALIGN of libfdt_internal.h).
LEMMA TagAlignNat == ASSUME NEW n \in Nat PROVE FDT_TAGALIGN(n) \in Nat
  <1>1. TAGSIZE \in Nat /\ TAGSIZE > 0
    BY Sizes
  <1>2. n + TAGSIZE - 1 \in Nat
    BY <1>1
  <1>3. (n + TAGSIZE - 1) \div TAGSIZE \in Nat
    BY <1>1, <1>2
  <1>4. ((n + TAGSIZE - 1) \div TAGSIZE) * TAGSIZE \in Nat
    BY <1>1, <1>3
  <1> QED BY <1>4 DEF FDT_TAGALIGN

\* fdt_grab_space_ after its test leaves the blob sound, whatever is stored in
\* the cells: the strings are taken into account and nothing wraps.
LEMMA GrabSound ==
    ASSUME NEW x, Sound(x), fdt_sw_probe_struct_(x) = 0, NEW len \in Nat, HasSpace(x, len),
           NEW at, NEW cells
    PROVE  Sound(Store(fdt_grab_space_(x, len), at, cells))
  <1> DEFINE y == Store(fdt_grab_space_(x, len), at, cells)
  <1>1. x.magic = FDT_SW_MAGIC /\ x.off_dt_strings = x.totalsize
    BY DEF fdt_sw_probe_struct_, fdt_sw_probe_, BADSTATE, BADMAGIC
  <1>2. Header(x) /\ Room(x) /\ Phase(x)
    BY DEF Sound
  <1>3. /\ DOMAIN y = Fields /\ y = [f \in Fields |-> y[f]]
        /\ y.base = x.base /\ y.totalsize = x.totalsize /\ y.magic = x.magic
        /\ y.off_mem_rsvmap = x.off_mem_rsvmap /\ y.off_dt_struct = x.off_dt_struct
        /\ y.off_dt_strings = x.off_dt_strings /\ y.size_dt_strings = x.size_dt_strings
        /\ y.size_dt_struct = x.size_dt_struct + len
    BY <1>2 DEF Header, Fields, Store, fdt_grab_space_
  <1>4. SubU(SubU(x.totalsize, x.off_dt_struct), x.size_dt_strings)
          = x.totalsize - x.off_dt_struct - x.size_dt_strings
    BY <1>2, Sizes DEF Header, Room, StructTop, SubU
  <1>5. x.size_dt_struct + len <= x.totalsize - x.off_dt_struct - x.size_dt_strings
    BY <1>4 DEF HasSpace
  <1>6. x.off_dt_strings # 0
    BY <1>1, <1>2, Sizes DEF Header, Room, StructTop, FDT_SW_MAGIC
  <1>7. Header(y)
    BY <1>2, <1>3 DEF Header
  <1>8. Room(y)
    BY <1>2, <1>3, <1>5 DEF Header, Room, StructTop
  <1>9. Phase(y)
    BY <1>1, <1>2, <1>3, <1>6 DEF Phase, FDT_SW_MAGIC, FDT_MAGIC
  <1> HIDE DEF y
  <1>10. Sound(y)
    BY <1>7, <1>8, <1>9 DEF Sound
  <1> QED BY <1>10 DEF y

\* fdt_add_string_ leaves the blob sound: its one test, made with wrapping
\* subtraction, keeps the strings above the structure block.
LEMMA AddStringSound ==
    ASSUME NEW x, Sound(x), fdt_sw_probe_struct_(x) = 0, NEW s \in PropNames
    PROVE  /\ Sound(fdt_add_string_(x, s).b)
           /\ fdt_sw_probe_struct_(fdt_add_string_(x, s).b) = 0
           /\ fdt_add_string_(x, s).off # 0 =>
                Sound(fdt_del_last_string_(fdt_add_string_(x, s).b, s))
  <1> DEFINE len == Len(s) + 1
             offset == x.size_dt_strings + len
             y == [Store(x, x.totalsize - offset, Append(s, NUL)) EXCEPT !.size_dt_strings = offset]
             z == fdt_del_last_string_(y, s)
  <1>1. x.magic = FDT_SW_MAGIC /\ x.off_dt_strings = x.totalsize
    BY DEF fdt_sw_probe_struct_, fdt_sw_probe_, BADSTATE, BADMAGIC
  <1>2. Header(x) /\ Room(x) /\ Phase(x)
    BY DEF Sound
  <1>3. s \in Seq(Nat \ {0}) /\ Len(s) + 1 <= SwHdrSize + RSVSIZE
    BY WriterAssumption
  <1>4. len \in Nat /\ len > 0 /\ len <= SwHdrSize + RSVSIZE
    BY <1>3
  <1>5. x.off_dt_strings # 0
    BY <1>1, <1>2, Sizes DEF Header, Room, StructTop, FDT_SW_MAGIC
  <1>6. x.off_dt_struct >= SwHdrSize + RSVSIZE
    BY <1>1, <1>2, <1>5 DEF Phase
  <1> HIDE DEF len
  <1>7. offset \in Nat /\ SubU(x.totalsize, offset) = x.totalsize - offset
    BY <1>2, <1>4, <1>6, Sizes DEF Header, Room, StructTop, SubU
  <1> HIDE DEF offset
  <1>8. CASE SubU(x.totalsize, offset) < StructTop(x)
    <2>1. fdt_add_string_(x, s).b = x /\ fdt_add_string_(x, s).off = 0
      BY <1>8 DEF fdt_add_string_, offset, len
    <2> QED BY <2>1
  <1>9. CASE ~(SubU(x.totalsize, offset) < StructTop(x))
    <2>1. fdt_add_string_(x, s).b = y
      BY <1>9 DEF fdt_add_string_, offset, len
    <2>2. /\ DOMAIN y = Fields /\ y = [f \in Fields |-> y[f]]
          /\ y.base = x.base /\ y.totalsize = x.totalsize /\ y.magic = x.magic
          /\ y.off_mem_rsvmap = x.off_mem_rsvmap /\ y.off_dt_struct = x.off_dt_struct
          /\ y.off_dt_strings = x.off_dt_strings /\ y.size_dt_strings = offset
          /\ y.size_dt_struct = x.size_dt_struct
      BY <1>2 DEF Header, Fields, Store
    <2>3. StructTop(y) = StructTop(x)
      BY <2>2 DEF StructTop
    <2> HIDE DEF y
    <2>4. Header(y)
      BY <1>2, <1>7, <2>2 DEF Header
    <2>5. Room(y)
      BY <1>2, <1>7, <1>9, <2>2 DEF Header, Room, StructTop
    <2>6. Phase(y)
      BY <1>1, <1>2, <1>5, <2>2 DEF Phase, FDT_SW_MAGIC, FDT_MAGIC
    <2>7. fdt_sw_probe_struct_(y) = 0
      BY <1>1, <2>2 DEF fdt_sw_probe_struct_, fdt_sw_probe_, FDT_SW_MAGIC, FDT_MAGIC
    <2>8. /\ DOMAIN z = Fields /\ z = [f \in Fields |-> z[f]]
          /\ z.base = x.base /\ z.totalsize = x.totalsize /\ z.magic = x.magic
          /\ z.off_mem_rsvmap = x.off_mem_rsvmap /\ z.off_dt_struct = x.off_dt_struct
          /\ z.off_dt_strings = x.off_dt_strings /\ z.size_dt_strings = offset - len
          /\ z.size_dt_struct = x.size_dt_struct
      BY <2>2, <2>4 DEF Header, Fields, fdt_del_last_string_, len
    <2>9. z.size_dt_strings = x.size_dt_strings
      BY <2>8, <1>2, <1>4 DEF offset, Header
    <2> HIDE DEF z
    <2>10. Header(z)
      BY <1>2, <2>8, <2>9 DEF Header
    <2>11. Room(z)
      BY <1>2, <2>8, <2>9 DEF Room, StructTop
    <2>12. Phase(z)
      BY <1>1, <1>2, <1>5, <2>8, <2>9 DEF Phase, StructTop, FDT_SW_MAGIC, FDT_MAGIC
    <2> QED BY <2>1, <2>4, <2>5, <2>6, <2>7, <2>10, <2>11, <2>12 DEF Sound, z
  <1> QED BY <1>8, <1>9

\* A reserve entry moves the start of the empty structure block up, within the
\* buffer, and the entry that ends the map opens it.
LEMMA ReserveSound ==
    ASSUME NEW x, Sound(x), NEW addr, NEW size
    PROVE  /\ Sound(fdt_add_reservemap_entry(x, addr, size).b)
           /\ Sound(fdt_finish_reservemap(x).b)
  <1> DEFINE r == fdt_add_reservemap_entry(x, addr, size)
             e == fdt_add_reservemap_entry(x, 0, 0)
  <1>1. Header(x) /\ Room(x) /\ Phase(x)
    BY DEF Sound
  <1>2. ASSUME NEW a, NEW n, fdt_add_reservemap_entry(x, a, n).err = 0,
               NEW y, y = fdt_add_reservemap_entry(x, a, n).b
        PROVE  /\ DOMAIN y = Fields /\ y = [f \in Fields |-> y[f]]
               /\ y.base = x.base /\ y.totalsize = x.totalsize
               /\ x.magic = FDT_SW_MAGIC /\ y.magic = FDT_SW_MAGIC
               /\ y.off_mem_rsvmap = x.off_mem_rsvmap
               /\ y.off_dt_struct = x.off_dt_struct + RSVSIZE
               /\ x.off_dt_strings = 0 /\ y.off_dt_strings = 0
               /\ y.size_dt_strings = x.size_dt_strings
               /\ y.size_dt_struct = x.size_dt_struct
               /\ x.off_dt_struct + RSVSIZE <= x.totalsize
    <2>1. fdt_sw_probe_memrsv_(x) = 0 /\ ~(x.off_dt_struct + RSVSIZE > x.totalsize)
      BY <1>2 DEF fdt_add_reservemap_entry, Fail, NOSPACE
    <2>2. x.magic = FDT_SW_MAGIC /\ x.off_dt_strings = 0
      BY <2>1 DEF fdt_sw_probe_memrsv_, fdt_sw_probe_, BADSTATE, BADMAGIC
    <2>3. y = [Store(x, x.off_dt_struct, RsvCells(a, n)) EXCEPT !.off_dt_struct = @ + RSVSIZE]
      BY <1>2, <2>1 DEF fdt_add_reservemap_entry, Done
    <2>4. /\ DOMAIN y = Fields /\ y = [f \in Fields |-> y[f]]
          /\ y.base = x.base /\ y.totalsize = x.totalsize /\ y.magic = x.magic
          /\ y.off_mem_rsvmap = x.off_mem_rsvmap
          /\ y.off_dt_struct = x.off_dt_struct + RSVSIZE
          /\ y.off_dt_strings = x.off_dt_strings
          /\ y.size_dt_strings = x.size_dt_strings
          /\ y.size_dt_struct = x.size_dt_struct
      BY <1>1, <2>3 DEF Header, Fields, Store
    <2>5. x.off_dt_struct + RSVSIZE <= x.totalsize
      BY <1>1, <2>1, Sizes DEF Header
    <2> QED BY <2>2, <2>4, <2>5
  <1>3. ASSUME NEW a, NEW n
        PROVE  Sound(fdt_add_reservemap_entry(x, a, n).b)
    <2> DEFINE y == fdt_add_reservemap_entry(x, a, n).b
    <2>1. CASE fdt_add_reservemap_entry(x, a, n).err = 0
      <3>0. y = fdt_add_reservemap_entry(x, a, n).b
        OBVIOUS
      <3> HIDE DEF y
      <3>1. /\ DOMAIN y = Fields /\ y = [f \in Fields |-> y[f]]
            /\ y.base = x.base /\ y.totalsize = x.totalsize
            /\ x.magic = FDT_SW_MAGIC /\ y.magic = FDT_SW_MAGIC
            /\ y.off_mem_rsvmap = x.off_mem_rsvmap
            /\ y.off_dt_struct = x.off_dt_struct + RSVSIZE
            /\ x.off_dt_strings = 0 /\ y.off_dt_strings = 0
            /\ y.size_dt_strings = x.size_dt_strings
            /\ y.size_dt_struct = x.size_dt_struct
            /\ x.off_dt_struct + RSVSIZE <= x.totalsize
        BY <2>1, <3>0, <1>2
      <3>2. x.size_dt_strings = 0 /\ x.size_dt_struct = 0 /\ x.off_mem_rsvmap = SwHdrSize
        BY <1>1, <3>1 DEF Phase
      <3>3. Header(y)
        BY <1>1, <3>1, Sizes DEF Header
      <3>4. Room(y)
        BY <1>1, <3>1, <3>2, Sizes DEF Header, Room, StructTop, FDT_SW_MAGIC
      <3>5. Phase(y)
        BY <3>1, <3>2 DEF Phase, FDT_SW_MAGIC, FDT_MAGIC
      <3> QED BY <3>3, <3>4, <3>5 DEF Sound, y
    <2>2. CASE fdt_add_reservemap_entry(x, a, n).err # 0
      <3>1. y = x
        BY <2>2 DEF fdt_add_reservemap_entry, Fail, Done
      <3> QED BY <3>1
    <2> QED BY <2>1, <2>2
  <1>4. Sound(fdt_finish_reservemap(x).b)
    <2>1. CASE e.err # 0
      <3>1. fdt_finish_reservemap(x).b = e.b
        BY <2>1 DEF fdt_finish_reservemap
      <3> QED BY <3>1, <1>3
    <2>2. CASE e.err = 0
      <3> DEFINE y == e.b
                 z == [y EXCEPT !.off_dt_strings = y.totalsize]
      <3>1. fdt_finish_reservemap(x).b = z
        BY <2>2 DEF fdt_finish_reservemap, Done
      <3>2. /\ y.magic = FDT_SW_MAGIC
            /\ y.off_mem_rsvmap = x.off_mem_rsvmap
            /\ y.off_dt_struct = x.off_dt_struct + RSVSIZE
            /\ x.magic = FDT_SW_MAGIC
        BY <2>2, <1>2
      <3>3. Header(y) /\ Room(y) /\ Phase(y)
        BY <1>3 DEF Sound
      <3> HIDE DEF y, e
      <3>4. /\ DOMAIN z = Fields /\ z = [f \in Fields |-> z[f]]
            /\ z.base = y.base /\ z.totalsize = y.totalsize /\ z.magic = y.magic
            /\ z.off_mem_rsvmap = y.off_mem_rsvmap /\ z.off_dt_struct = y.off_dt_struct
            /\ z.off_dt_strings = y.totalsize /\ z.size_dt_strings = y.size_dt_strings
            /\ z.size_dt_struct = y.size_dt_struct
        BY <3>3 DEF Header, Fields
      <3> HIDE DEF z
      <3>5. x.off_dt_struct >= SwHdrSize /\ x.off_mem_rsvmap = SwHdrSize
        BY <1>1, <3>2 DEF Room, Phase, FDT_SW_MAGIC
      <3>6. y.totalsize # 0
        BY <3>2, <3>3, <3>5, <1>1, Sizes DEF Room, Header, StructTop
      <3>7. Header(z)
        BY <3>3, <3>4 DEF Header
      <3>8. Room(z)
        BY <3>3, <3>4 DEF Room, StructTop
      <3>9. Phase(z)
        BY <3>2, <3>3, <3>4, <3>5, <3>6, <1>1, Sizes DEF Phase, Header, FDT_SW_MAGIC, FDT_MAGIC
      <3> QED BY <3>1, <3>7, <3>8, <3>9 DEF Sound
    <2> QED BY <2>1, <2>2
  <1> QED BY <1>3, <1>4

\* fdt_resize: what fitted in the old buffer fits in the new one.
LEMMA ResizeSound ==
    ASSUME NEW x, Sound(x), NEW buf \in Buffers
    PROVE  Sound(fdt_resize(x, buf.base, buf.size).b)
  <1> DEFINE r == fdt_resize(x, buf.base, buf.size)
             y == r.b
  <1>1. Header(x) /\ Room(x) /\ Phase(x)
    BY DEF Sound
  <1>2. buf.base \in Nat /\ buf.size \in Nat /\ buf.base + buf.size <= Arena
    BY WriterAssumption
  <1>3. CASE r.err # 0
    <2>1. y = x
      BY <1>3 DEF fdt_resize, Fail, Done
    <2> QED BY <2>1
  <1>4. CASE r.err = 0
    <2>1. /\ fdt_sw_probe_(x) = 0
          /\ ~(StructTop(x) + x.size_dt_strings > buf.size)
      BY <1>4 DEF fdt_resize, Fail, INTERNAL, NOSPACE
    <2>2. x.magic = FDT_SW_MAGIC
      BY <2>1 DEF fdt_sw_probe_, BADSTATE, BADMAGIC
    <2>3. y = [x EXCEPT !.mem = MoveBoth(x, buf.base, buf.size, StructTop(x), x.size_dt_strings),
                        !.base = buf.base, !.totalsize = buf.size,
                        !.off_dt_strings = IF @ # 0 THEN buf.size ELSE 0]
      BY <1>4 DEF fdt_resize, Fail, Done, INTERNAL, NOSPACE
    <2> HIDE DEF y
    <2>4. /\ DOMAIN y = Fields /\ y = [f \in Fields |-> y[f]]
          /\ y.base = buf.base /\ y.totalsize = buf.size /\ y.magic = x.magic
          /\ y.off_mem_rsvmap = x.off_mem_rsvmap /\ y.off_dt_struct = x.off_dt_struct
          /\ y.off_dt_strings = (IF x.off_dt_strings # 0 THEN buf.size ELSE 0)
          /\ y.size_dt_strings = x.size_dt_strings /\ y.size_dt_struct = x.size_dt_struct
      BY <1>1, <2>3 DEF Header, Fields
    <2>5. Header(y)
      BY <1>1, <1>2, <2>4 DEF Header
    <2>6. Room(y)
      BY <1>1, <1>2, <2>1, <2>4 DEF Header, Room, StructTop
    <2>7. buf.size # 0
      BY <1>1, <1>2, <2>1, <2>2, Sizes DEF Header, Room, StructTop, FDT_SW_MAGIC
    <2>8. Phase(y)
      BY <1>1, <1>2, <2>2, <2>4, <2>7 DEF Phase, FDT_SW_MAGIC, FDT_MAGIC
    <2> QED BY <2>5, <2>6, <2>8 DEF Sound, y
  <1> QED BY <1>3, <1>4

\* fdt_create leaves an empty blob in its buffer.
LEMMA CreateSound ==
    ASSUME NEW mem, NEW buf \in Buffers, NEW f, CreateError(buf.size, f) = 0
    PROVE  Sound(fdt_create_with_flags(mem, buf.base, buf.size, f))
  <1> DEFINE y == fdt_create_with_flags(mem, buf.base, buf.size, f)
  <1>1. buf.base \in Nat /\ buf.size \in Nat /\ buf.base + buf.size <= Arena
    BY WriterAssumption
  <1>2. ~(buf.size < SwHdrSize)
    BY DEF CreateError, NOSPACE
  <1>3. /\ DOMAIN y = Fields /\ y = [g \in Fields |-> y[g]]
        /\ y.base = buf.base /\ y.totalsize = buf.size /\ y.magic = FDT_SW_MAGIC
        /\ y.off_mem_rsvmap = SwHdrSize /\ y.off_dt_struct = SwHdrSize
        /\ y.off_dt_strings = 0 /\ y.size_dt_strings = 0 /\ y.size_dt_struct = 0
    BY DEF fdt_create_with_flags, Fields
  <1> HIDE DEF y
  <1>4. Header(y)
    BY <1>1, <1>3, Sizes DEF Header
  <1>5. Room(y)
    BY <1>1, <1>2, <1>3, Sizes DEF Room, StructTop
  <1>6. Phase(y)
    BY <1>3 DEF Phase, FDT_SW_MAGIC, FDT_MAGIC
  <1> QED BY <1>4, <1>5, <1>6 DEF Sound, y

\* fdt_property: the name, then the space for the value or the rollback.
LEMMA PropertySound ==
    ASSUME NEW x, Sound(x), NEW name \in PropNames, NEW val \in Values
    PROVE  Sound(fdt_property(x, name, val).b)
  <1> DEFINE add == fdt_add_string_(x, name)
             s == IF sw_flags(x) = FDT_CREATE_FLAG_NO_NAME_DEDUP
                  THEN [b |-> add.b, off |-> add.off, allocated |-> TRUE]
                  ELSE fdt_find_add_string_(x, name)
             len == PropHdr + FDT_TAGALIGN(Len(val))
  <1>1. CASE fdt_sw_probe_struct_(x) # 0
    <2>1. fdt_property(x, name, val).b = x
      BY <1>1 DEF fdt_property
    <2> QED BY <2>1
  <1>2. CASE fdt_sw_probe_struct_(x) = 0
    <2>1. len \in Nat
      <3>1. Len(val) \in Nat
        BY WriterAssumption
      <3>2. FDT_TAGALIGN(Len(val)) \in Nat
        BY <3>1, TagAlignNat
      <3> QED BY <3>2, Sizes DEF PropHdr
    <2>2. \/ s.b = x /\ s.allocated = FALSE
          \/ s.b = add.b /\ s.off = add.off /\ s.allocated = TRUE
      BY DEF fdt_find_add_string_
    <2>3. /\ Sound(add.b) /\ fdt_sw_probe_struct_(add.b) = 0
          /\ add.off # 0 => Sound(fdt_del_last_string_(add.b, name))
      BY <1>2, AddStringSound
    <2>4. fdt_property(x, name, val) =
            IF s.off = 0 THEN Fail(x, NOSPACE)
            ELSE IF ~HasSpace(s.b, len)
                 THEN Fail(IF s.allocated THEN fdt_del_last_string_(s.b, name) ELSE s.b, NOSPACE)
            ELSE Done(Store(fdt_grab_space_(s.b, len), StructTop(s.b),
                            WordCells(FDT_PROP) \o WordCells(Len(val))
                            \o WordCells(s.off) \o val))
      BY <1>2 DEF fdt_property
    <2> HIDE DEF s, add, len
    <2>5. Sound(s.b) /\ fdt_sw_probe_struct_(s.b) = 0
      BY <2>2, <2>3, <1>2
    <2>6. CASE s.off = 0
      BY <2>4, <2>6 DEF Fail
    <2>7. CASE s.off # 0 /\ ~HasSpace(s.b, len)
      <3>1. fdt_property(x, name, val).b
              = IF s.allocated THEN fdt_del_last_string_(s.b, name) ELSE s.b
        BY <2>4, <2>7 DEF Fail
      <3> QED BY <2>2, <2>3, <2>5, <2>7, <3>1
    <2>8. CASE s.off # 0 /\ HasSpace(s.b, len)
      <3> DEFINE cells == WordCells(FDT_PROP) \o WordCells(Len(val)) \o WordCells(s.off) \o val
      <3>1. fdt_property(x, name, val).b
              = Store(fdt_grab_space_(s.b, len), StructTop(s.b), cells)
        BY <2>4, <2>8 DEF Done
      <3> HIDE DEF cells
      <3>2. Sound(Store(fdt_grab_space_(s.b, len), StructTop(s.b), cells))
        BY <2>1, <2>5, <2>8, GrabSound
      <3> QED BY <3>1, <3>2
    <2> QED BY <2>6, <2>7, <2>8
  <1> QED BY <1>1, <1>2

\* fdt_finish: the strings end up right above the structure block and the blob
\* becomes no longer than it was; a walk that fails halfway does no harm to
\* the layout either.
LEMMA FinishSound ==
    ASSUME NEW x, Sound(x)
    PROVE  Sound(fdt_finish(x).b)
  <1> DEFINE g == Store(fdt_grab_space_(x, TAGSIZE), StructTop(x), WordCells(FDT_END))
             newoff == StructTop(g)
             m == [g EXCEPT !.mem = memmove(g.mem, g.base + newoff,
                                            g.base + g.totalsize - g.size_dt_strings,
                                            g.size_dt_strings),
                            !.off_dt_strings = newoff]
             tags == TagOffsets(m)
             names == {o \in tags : fdt_next_tag(m, o).tag = FDT_PROP}
             nameWord(o) == m.base + m.off_dt_struct + o + PropHdr - 1
             f == [m EXCEPT !.mem =
                      [a \in DOMAIN m.mem |-> IF \E o \in names : a = nameWord(o)
                                              THEN m.mem[a] + m.size_dt_strings
                                              ELSE m.mem[a]]]
             h == [f EXCEPT !.totalsize = newoff + f.size_dt_strings,
                            !.last_comp_version = FDT_LAST_COMPATIBLE_VERSION,
                            !.magic = FDT_MAGIC]
  <1>1. CASE fdt_sw_probe_struct_(x) # 0 \/ ~HasSpace(x, TAGSIZE)
    <2>1. fdt_finish(x).b = x
      BY <1>1 DEF fdt_finish, Fail
    <2> QED BY <2>1
  <1>2. CASE fdt_sw_probe_struct_(x) = 0 /\ HasSpace(x, TAGSIZE)
    <2>1. fdt_finish(x).b = f \/ fdt_finish(x).b = h
      BY <1>2 DEF fdt_finish, Done
    <2>2. Sound(g)
      BY <1>2, GrabSound, Sizes
    <2>3. Header(g) /\ Room(g) /\ Phase(g)
      BY <2>2 DEF Sound
    <2>4. g.magic = FDT_SW_MAGIC /\ g.off_dt_strings # 0
      <3>1. x.magic = FDT_SW_MAGIC /\ x.off_dt_strings = x.totalsize
        BY <1>2 DEF fdt_sw_probe_struct_, fdt_sw_probe_, BADSTATE, BADMAGIC
      <3>2. Header(x) /\ Room(x)
        BY DEF Sound
      <3>3. g.magic = x.magic /\ g.off_dt_strings = x.off_dt_strings
        BY <3>2 DEF Header, Fields, Store, fdt_grab_space_
      <3>4. x.off_dt_strings # 0
        BY <3>1, <3>2, Sizes DEF Header, Room, StructTop, FDT_SW_MAGIC
      <3> QED BY <3>1, <3>3, <3>4
    <2> HIDE DEF g
    <2>5. /\ DOMAIN m = Fields /\ m = [k \in Fields |-> m[k]]
          /\ m.base = g.base /\ m.totalsize = g.totalsize /\ m.magic = g.magic
          /\ m.off_mem_rsvmap = g.off_mem_rsvmap /\ m.off_dt_struct = g.off_dt_struct
          /\ m.off_dt_strings = newoff /\ m.size_dt_strings = g.size_dt_strings
          /\ m.size_dt_struct = g.size_dt_struct
      BY <2>3 DEF Header, Fields
    <2> HIDE DEF m
    <2>6. /\ DOMAIN f = Fields /\ f = [k \in Fields |-> f[k]]
          /\ f.base = g.base /\ f.totalsize = g.totalsize /\ f.magic = g.magic
          /\ f.off_mem_rsvmap = g.off_mem_rsvmap /\ f.off_dt_struct = g.off_dt_struct
          /\ f.off_dt_strings = newoff /\ f.size_dt_strings = g.size_dt_strings
          /\ f.size_dt_struct = g.size_dt_struct
      BY <2>5 DEF Fields
    <2> HIDE DEF f
    <2>7. /\ DOMAIN h = Fields /\ h = [k \in Fields |-> h[k]]
          /\ h.base = g.base /\ h.totalsize = newoff + g.size_dt_strings /\ h.magic = FDT_MAGIC
          /\ h.off_mem_rsvmap = g.off_mem_rsvmap /\ h.off_dt_struct = g.off_dt_struct
          /\ h.off_dt_strings = newoff /\ h.size_dt_strings = g.size_dt_strings
          /\ h.size_dt_struct = g.size_dt_struct
      BY <2>6 DEF Fields
    <2> HIDE DEF h
    <2>8. /\ newoff = g.off_dt_struct + g.size_dt_struct /\ newoff \in Nat /\ newoff # 0
          /\ StructTop(f) = newoff /\ StructTop(h) = newoff
          /\ g.off_dt_struct >= SwHdrSize + RSVSIZE /\ g.off_mem_rsvmap = SwHdrSize
      <3>1. g.off_dt_struct >= SwHdrSize + RSVSIZE /\ g.off_mem_rsvmap = SwHdrSize
        BY <2>3, <2>4 DEF Phase
      <3> QED BY <3>1, <2>3, <2>6, <2>7, Sizes DEF StructTop, Header
    <2> HIDE DEF newoff
    <2>9. Header(f) /\ Header(h)
      BY <2>3, <2>6, <2>7, <2>8 DEF Header
    <2>10. Room(f) /\ Room(h)
      <3>1. Room(f)
        BY <2>3, <2>4, <2>6, <2>8 DEF Header, Room, newoff
      <3>2. newoff + g.size_dt_strings <= g.totalsize
        BY <2>3 DEF Room, newoff
      <3>3. h.base + h.totalsize <= Arena
        BY <2>3, <2>7, <2>8, <3>2, Sizes DEF Header, Room
      <3> QED BY <2>3, <2>4, <2>7, <2>8, <3>1, <3>3, <2>9 DEF Header, Room, FDT_SW_MAGIC
    <2>11. Phase(f)
      BY <2>4, <2>6, <2>8 DEF Phase, FDT_SW_MAGIC, FDT_MAGIC
    <2>12. Phase(h)
      BY <2>7, <2>8 DEF Phase, FDT_SW_MAGIC, FDT_MAGIC
    <2> QED BY <2>1, <2>9, <2>10, <2>11, <2>12 DEF Sound
  <1> QED BY <1>1, <1>2

-----------------------------------------------------------------------------
\* The three facts: initial state, step, consequence.
LEMMA SoundInit == Init => Sound(b)
  <1> SUFFICES ASSUME b = NoBlob PROVE Sound(b)
    BY DEF Init
  <1>1. /\ DOMAIN b = Fields /\ b = [f \in Fields |-> b[f]]
        /\ b.base = 0 /\ b.totalsize = 0 /\ b.magic = "none" /\ b.off_mem_rsvmap = 0
        /\ b.off_dt_struct = 0 /\ b.off_dt_strings = 0 /\ b.size_dt_strings = 0
        /\ b.size_dt_struct = 0
    BY DEF NoBlob, Fields
  <1>2. Header(b)
    BY <1>1 DEF Header
  <1>3. Room(b)
    BY <1>1, Sizes DEF Room, StructTop
  <1>4. Phase(b)
    BY <1>1 DEF Phase, FDT_SW_MAGIC, FDT_MAGIC
  <1> QED BY <1>2, <1>3, <1>4 DEF Sound

\* Every call of fdt_sw.c keeps the header sound.
LEMMA SoundStep == Sound(b) /\ [Next]_vars => Sound(b)'
  <1> SUFFICES ASSUME Sound(b), [Next]_vars PROVE Sound(b')
    BY DEF Sound, Header, Room, Phase, StructTop
  <1>1. CASE Create
    <2>1. PICK buf \in Buffers, f \in Flags :
            b' = IF CreateError(buf.size, f) = 0
                 THEN fdt_create_with_flags(b.mem, buf.base, buf.size, f) ELSE b
      BY <1>1 DEF Create, Call
    <2> QED BY <2>1, CreateSound
  <1>2. CASE Resize
    <2>1. PICK buf \in Buffers : b' = fdt_resize(b, buf.base, buf.size).b
      BY <1>2 DEF Resize, Call
    <2> QED BY <2>1, ResizeSound
  <1>3. CASE AddReserve
    <2>1. PICK a \in RsvAddrs : b' = fdt_add_reservemap_entry(b, a, 1).b
      BY <1>3 DEF AddReserve, Call
    <2> QED BY <2>1, ReserveSound
  <1>4. CASE FinishReserve
    <2>1. b' = fdt_finish_reservemap(b).b
      BY <1>4 DEF FinishReserve, Call
    <2> QED BY <2>1, ReserveSound
  <1>5. CASE BeginNode
    <2>1. PICK n \in NodeNames : b' = fdt_begin_node(b, n).b
      BY <1>5 DEF BeginNode, Call
    <2> DEFINE len == TAGSIZE + FDT_TAGALIGN(Len(n) + 1)
               cells == WordCells(FDT_BEGIN_NODE) \o Append(n, NUL)
    <2>2. len \in Nat
      <3>1. Len(n) + 1 \in Nat
        BY WriterAssumption
      <3>2. FDT_TAGALIGN(Len(n) + 1) \in Nat
        BY <3>1, TagAlignNat
      <3> QED BY <3>2, Sizes
    <2>3. \/ b' = b
          \/ /\ fdt_sw_probe_struct_(b) = 0 /\ HasSpace(b, len)
             /\ b' = Store(fdt_grab_space_(b, len), StructTop(b), cells)
      BY <2>1 DEF fdt_begin_node, Fail, Done
    <2> HIDE DEF len, cells
    <2> QED BY <2>2, <2>3, GrabSound
  <1>6. CASE EndNode
    <2>1. \/ b' = b
          \/ /\ fdt_sw_probe_struct_(b) = 0 /\ HasSpace(b, TAGSIZE)
             /\ b' = Store(fdt_grab_space_(b, TAGSIZE), StructTop(b), WordCells(FDT_END_NODE))
      BY <1>6 DEF EndNode, Call, fdt_end_node, Fail, Done
    <2> QED BY <2>1, GrabSound, Sizes
  <1>7. CASE Property
    <2>1. PICK n \in PropNames, v \in Values : b' = fdt_property(b, n, v).b
      BY <1>7 DEF Property, Call
    <2> QED BY <2>1, PropertySound
  <1>8. CASE Finish
    <2>1. b' = fdt_finish(b).b
      BY <1>8 DEF Finish, Call
    <2> QED BY <2>1, FinishSound
  <1>9. CASE UNCHANGED vars
    BY <1>9 DEF vars
  <1> QED BY <1>1, <1>2, <1>3, <1>4, <1>5, <1>6, <1>7, <1>8, <1>9 DEF Next

\* A sound header is what Layout and CheckBlockSound ask for.
LEMMA SoundLayout == Sound(b) => Layout
  <1> SUFFICES ASSUME Header(b), Room(b), Phase(b) PROVE Layout
    BY DEF Sound
  <1>1. InStruct => b.off_dt_struct >= b.off_mem_rsvmap + RSVSIZE
    <2> SUFFICES ASSUME b.magic = FDT_SW_MAGIC, b.off_dt_strings = b.totalsize
                 PROVE  b.off_dt_struct >= b.off_mem_rsvmap + RSVSIZE
      BY DEF InStruct
    <2>1. b.off_dt_strings # 0
      BY Sizes DEF Header, Room, StructTop, FDT_SW_MAGIC
    <2> QED BY <2>1 DEF Phase
  <1> QED BY <1>1 DEF Layout, Header, Room, Phase, Complete, StructTop

\* The block checks of a sound blob: what CheckBlockSound promises.
LEMMA SoundCheckBlock == Sound(b) => CheckBlockSound
  <1> SUFFICES ASSUME Header(b), Room(b), NEW start \in 0..(W - 1), NEW size \in 0..(W - 1)
               PROVE  check_block_(HDRSIZE, b.totalsize, start, size)
                      <=> HDRSIZE <= start /\ start + size <= b.totalsize
    BY DEF Sound, CheckBlockSound
  <1>0. b.totalsize \in Nat /\ b.totalsize < W
    BY Sizes DEF Header, Room
  <1>1. PICK n \in Nat, w \in Nat, h \in Nat : n = b.totalsize /\ w = W /\ h = HDRSIZE /\ n < w
    BY <1>0, Sizes
  <1>2. start \in Nat /\ size \in Nat /\ start < w /\ size < w
    BY <1>1
  <1>3. PICK end \in Nat : end = AddU(start, size)
                           /\ end = IF start + size >= w THEN start + size - w ELSE start + size
    BY <1>1, <1>2 DEF AddU
  <1>4. CASE start + size >= w
    <2>1. end < start /\ ~(start + size <= n)
      BY <1>1, <1>2, <1>3, <1>4
    <2> QED BY <1>1, <1>3, <2>1 DEF check_block_
  <1>5. CASE ~(start + size >= w)
    <2>1. end = start + size /\ ~(end < start)
      BY <1>2, <1>3, <1>5
    <2>2. (h <= start /\ end <= n) <=> (start >= h /\ start <= n /\ end >= h /\ end <= n)
      BY <1>1, <1>2, <2>1
    <2> QED BY <1>1, <1>3, <2>1, <2>2 DEF check_block_, check_off_
  <1> QED BY <1>4, <1>5

-----------------------------------------------------------------------------
\* In every state of the writer, whatever it calls in whatever order, the blob
\* lies in the arena and its blocks do not meet (fdt_sw.c).
THEOREM LayoutTheorem == Spec => []Layout
  <1>1. Init => Sound(b)
    BY SoundInit
  <1>2. Sound(b) /\ [Next]_vars => Sound(b)'
    BY SoundStep
  <1>3. Sound(b) => Layout
    BY SoundLayout
  <1> QED BY <1>1, <1>2, <1>3, PTL DEF Spec

\* check_block_ accepts exactly the blocks that lie between the header and the
\* end of the finished blob, whatever the start and size words of the header
\* are and for every word size (fdt.c:52-67).
THEOREM CheckBlockTheorem == Spec => []CheckBlockSound
  <1>1. Init => Sound(b)
    BY SoundInit
  <1>2. Sound(b) /\ [Next]_vars => Sound(b)'
    BY SoundStep
  <1>3. Sound(b) => CheckBlockSound
    BY SoundCheckBlock
  <1> QED BY <1>1, <1>2, <1>3, PTL DEF Spec

-----------------------------------------------------------------------------
(* Least numbers and alignment *)

\* Every nonempty set of naturals has a least element: the induction that the
\* proofs about recursive functions below are made of.
LEMMA LeastNat ==
    ASSUME NEW S \in SUBSET Nat, S # {}
    PROVE  \E m \in S : \A k \in S : m <= k
  <1> DEFINE R == OpToRel(<, Nat)
  <1>1. IsWellFoundedOn(R, Nat)
    BY NatLessThanWellFounded
  <1>2. \A k, m \in Nat : k < m => <<k, m>> \in R
    BY DEF OpToRel
  <1> HIDE DEF R
  <1>3. PICK m \in S : \A k \in S : ~(<<k, m>> \in R)
    BY <1>1, WFMin
  <1>4. m \in Nat /\ \A k \in S : k \in Nat
    OBVIOUS
  <1>5. \A k \in S : ~(k < m)
    BY <1>2, <1>3, <1>4, Zenon
  <1>6. \A k \in S : m <= k
    BY <1>4, <1>5
  <1> QED BY <1>6

\* A multiple of the word size.
Aligned(n) == \E k \in Nat : n = k * TAGSIZE

\* What FDT_TAGALIGN computes: the next multiple of TAGSIZE.
LEMMA TagAlign ==
    ASSUME NEW n \in Nat
    PROVE  /\ FDT_TAGALIGN(n) \in Nat /\ Aligned(FDT_TAGALIGN(n))
           /\ n <= FDT_TAGALIGN(n) /\ FDT_TAGALIGN(n) < n + TAGSIZE
  <1> DEFINE T == TAGSIZE
             x == n + T - 1
             q == x \div T
             r == x % T
  <1>1. T \in Nat /\ T > 0
    BY Sizes
  <1> HIDE DEF T
  <1>2. x \in Nat
    BY <1>1
  <1> HIDE DEF x
  <1>3. q \in Nat /\ r \in 0..(T - 1) /\ x = T * q + r
    BY <1>1, <1>2
  <1> HIDE DEF q, r
  <1>4. T * q \in Nat /\ q * T = T * q
    BY <1>1, <1>3
  <1>5. FDT_TAGALIGN(n) = T * q
    BY <1>4 DEF FDT_TAGALIGN, q, x, T
  <1>6. n <= T * q /\ T * q < n + T
    BY <1>1, <1>3, <1>4 DEF x
  <1> QED BY <1>3, <1>4, <1>5, <1>6 DEF Aligned, T

\* Two multiples of TAGSIZE that differ are TAGSIZE apart.
LEMMA AlignedGap ==
    ASSUME NEW j \in Nat, NEW k \in Nat, j < k
    PROVE  j * TAGSIZE + TAGSIZE <= k * TAGSIZE
  <1>1. TAGSIZE \in Nat /\ TAGSIZE > 0
    BY Sizes
  <1>2. k * TAGSIZE = j * TAGSIZE + (k - j) * TAGSIZE
    BY <1>1
  <1>3. (k - j) * TAGSIZE = TAGSIZE + (k - j - 1) * TAGSIZE
    BY <1>1
  <1>4. (k - j - 1) * TAGSIZE \in Nat
    BY <1>1
  <1>5. j * TAGSIZE \in Nat /\ k * TAGSIZE \in Nat
    BY <1>1
  <1> QED BY <1>1, <1>2, <1>3, <1>4, <1>5

\* There is only one multiple of TAGSIZE there.
LEMMA AlignUnique ==
    ASSUME NEW n \in Nat, NEW a \in Nat, Aligned(a), n <= a, a < n + TAGSIZE
    PROVE  FDT_TAGALIGN(n) = a
  <1>1. TAGSIZE \in Nat /\ TAGSIZE > 0
    BY Sizes
  <1>2. PICK k \in Nat : a = k * TAGSIZE
    BY DEF Aligned
  <1>3. /\ FDT_TAGALIGN(n) \in Nat /\ Aligned(FDT_TAGALIGN(n))
        /\ n <= FDT_TAGALIGN(n) /\ FDT_TAGALIGN(n) < n + TAGSIZE
    BY TagAlign
  <1>4. PICK j \in Nat : FDT_TAGALIGN(n) = j * TAGSIZE
    BY <1>3 DEF Aligned
  <1>5. ~(j < k)
    <2> SUFFICES ASSUME j < k PROVE FALSE
      OBVIOUS
    <2>1. j * TAGSIZE + TAGSIZE <= k * TAGSIZE
      BY AlignedGap
    <2> QED BY <2>1, <1>1, <1>2, <1>3, <1>4
  <1>6. ~(k < j)
    <2> SUFFICES ASSUME k < j PROVE FALSE
      OBVIOUS
    <2>1. k * TAGSIZE + TAGSIZE <= j * TAGSIZE
      BY AlignedGap
    <2> QED BY <2>1, <1>1, <1>2, <1>3, <1>4
  <1>7. j = k
    BY <1>5, <1>6
  <1> QED BY <1>2, <1>4, <1>7

\* Sums of multiples.
LEMMA AlignedSum ==
    ASSUME NEW p, NEW a, Aligned(p), Aligned(a)
    PROVE  p \in Nat /\ a \in Nat /\ p + a \in Nat /\ Aligned(p + a)
  <1>1. TAGSIZE \in Nat /\ TAGSIZE > 0
    BY Sizes
  <1>2. PICK k \in Nat : p = k * TAGSIZE
    BY DEF Aligned
  <1>3. PICK j \in Nat : a = j * TAGSIZE
    BY DEF Aligned
  <1>4. p \in Nat /\ a \in Nat
    BY <1>1, <1>2, <1>3
  <1>5. p + a = (k + j) * TAGSIZE
    BY <1>1, <1>2, <1>3
  <1>6. k + j \in Nat
    OBVIOUS
  <1> QED BY <1>4, <1>5, <1>6 DEF Aligned

\* A multiple of TAGSIZE can be taken out of FDT_TAGALIGN.
LEMMA AlignShift ==
    ASSUME NEW p, Aligned(p), NEW n \in Nat
    PROVE  FDT_TAGALIGN(p + n) = p + FDT_TAGALIGN(n)
  <1>1. /\ FDT_TAGALIGN(n) \in Nat /\ Aligned(FDT_TAGALIGN(n))
        /\ n <= FDT_TAGALIGN(n) /\ FDT_TAGALIGN(n) < n + TAGSIZE
    BY TagAlign
  <1>2. p \in Nat /\ p + FDT_TAGALIGN(n) \in Nat /\ Aligned(p + FDT_TAGALIGN(n))
    BY <1>1, AlignedSum
  <1>3. p + n \in Nat /\ p + n <= p + FDT_TAGALIGN(n)
        /\ p + FDT_TAGALIGN(n) < (p + n) + TAGSIZE
    BY <1>1, <1>2, Sizes
  <1> QED BY <1>2, <1>3, AlignUnique

-----------------------------------------------------------------------------
(* Tokens and their positions *)

\* The function that PosOf defines recursively exists: it satisfies its equation.
LEMMA PosDef ==
    ASSUME NEW l
    PROVE  PosOf(l) = [i \in Nat |-> IF i <= 1 THEN 0
                                     ELSE PosOf(l)[i - 1] + TokenSize(l[i - 1])]
  <1> DEFINE Size(i) == TokenSize(l[i - 1])
             Prefix(f, n) == f = [i \in 0..n |-> IF i <= 1 THEN 0 ELSE f[i - 1] + Size(i)]
             Bad == {n \in Nat : ~ \E f : Prefix(f, n)}
             F == [n \in Nat |-> (CHOOSE u : Prefix(u, n))[n]]
  <1> HIDE DEF Size
  <1>1. Bad = {}
    <2> SUFFICES ASSUME Bad # {} PROVE FALSE
      OBVIOUS
    <2>1. PICK m \in Bad : \A k \in Bad : m <= k
      BY LeastNat
    <2>2. m \in Nat /\ ~ \E f : Prefix(f, m)
      BY <2>1
    <2>3. CASE m = 0
      <3> DEFINE g == [i \in 0..0 |-> 0]
      <3>1. Prefix(g, 0)
        OBVIOUS
      <3> QED BY <2>2, <2>3, <3>1
    <2>4. CASE m # 0
      <3>1. m - 1 \in Nat /\ m - 1 \notin Bad
        BY <2>1, <2>2, <2>4
      <3>2. PICK f : Prefix(f, m - 1)
        BY <3>1
      <3> DEFINE g == [i \in 0..m |-> IF i <= m - 1 THEN f[i]
                                      ELSE IF i <= 1 THEN 0 ELSE f[i - 1] + Size(i)]
      <3>3. ASSUME NEW i \in 0..m
            PROVE  g[i] = IF i <= 1 THEN 0 ELSE g[i - 1] + Size(i)
        <4>1. CASE i <= m - 1
          <5>1. g[i] = f[i]
            BY <4>1
          <5>2. f[i] = IF i <= 1 THEN 0 ELSE f[i - 1] + Size(i)
            BY <3>1, <3>2, <4>1
          <5>3. ~(i <= 1) => g[i - 1] = f[i - 1]
            BY <3>1, <4>1
          <5> QED BY <5>1, <5>2, <5>3
        <4>2. CASE ~(i <= m - 1)
          <5>1. i = m
            BY <3>1, <4>2
          <5>2. g[i] = IF i <= 1 THEN 0 ELSE f[i - 1] + Size(i)
            BY <4>2
          <5>3. ~(i <= 1) => g[i - 1] = f[i - 1]
            BY <3>1, <5>1
          <5> QED BY <5>2, <5>3
        <4> QED BY <4>1, <4>2
      <3>4. Prefix(g, m)
        <4>1. g = [i \in 0..m |-> g[i]]
          OBVIOUS
        <4> HIDE DEF g
        <4> QED BY <3>3, <4>1
      <3> QED BY <2>2, <3>4
    <2> QED BY <2>3, <2>4
  <1>2. ASSUME NEW n \in Nat, NEW m \in Nat, NEW f, NEW g, Prefix(f, n), Prefix(g, m)
        PROVE  \A i \in Nat : i <= n /\ i <= m => f[i] = g[i]
    <2> DEFINE D == {i \in Nat : i <= n /\ i <= m /\ f[i] # g[i]}
    <2> SUFFICES ASSUME D # {} PROVE FALSE
      OBVIOUS
    <2>1. PICK i \in D : \A k \in D : i <= k
      BY LeastNat
    <2>2. i \in Nat /\ i <= n /\ i <= m /\ f[i] # g[i]
      BY <2>1
    <2>3. f[i] = IF i <= 1 THEN 0 ELSE f[i - 1] + Size(i)
      BY <1>2, <2>2
    <2>4. g[i] = IF i <= 1 THEN 0 ELSE g[i - 1] + Size(i)
      BY <1>2, <2>2
    <2>5. ~(i <= 1)
      BY <2>2, <2>3, <2>4
    <2>6. i - 1 \in Nat /\ i - 1 \notin D
      BY <2>1, <2>2, <2>5
    <2>7. f[i - 1] = g[i - 1]
      BY <2>2, <2>6
    <2> QED BY <2>2, <2>3, <2>4, <2>5, <2>7
  <1>3. \A n \in Nat : Prefix(CHOOSE u : Prefix(u, n), n)
    <2>1. \A n \in Nat : \E f : Prefix(f, n)
      BY <1>1
    <2> HIDE DEF Prefix
    <2> QED BY <2>1
  <1>4. ASSUME NEW n \in Nat
        PROVE  F[n] = IF n <= 1 THEN 0 ELSE F[n - 1] + Size(n)
    <2> DEFINE f == CHOOSE u : Prefix(u, n)
               g == CHOOSE u : Prefix(u, n - 1)
    <2>1. Prefix(f, n)
      BY <1>3
    <2>2. F[n] = f[n]
      OBVIOUS
    <2>3. CASE n <= 1
      <3> HIDE DEF f, F
      <3> QED BY <2>1, <2>2, <2>3
    <2>4. CASE ~(n <= 1)
      <3>1. n - 1 \in Nat
        BY <2>4
      <3>2. Prefix(g, n - 1)
        BY <1>3, <3>1
      <3>3. F[n - 1] = g[n - 1]
        BY <3>1
      <3> HIDE DEF f, g, F
      <3>4. f[n - 1] = g[n - 1]
        BY <1>2, <2>1, <3>1, <3>2
      <3>5. f[n] = f[n - 1] + Size(n)
        BY <2>1, <2>4
      <3> QED BY <2>2, <2>4, <3>3, <3>4, <3>5
    <2> QED BY <2>3, <2>4
  <1>5. F = [i \in Nat |-> IF i <= 1 THEN 0 ELSE F[i - 1] + Size(i)]
    <2>1. F = [i \in Nat |-> F[i]]
      OBVIOUS
    <2> HIDE DEF F
    <2> QED BY <1>4, <2>1
  <1> DEFINE Eq(s) == s = [i \in Nat |-> IF i <= 1 THEN 0 ELSE s[i - 1] + TokenSize(l[i - 1])]
  <1>6. Eq(F)
    <2> HIDE DEF F
    <2> QED BY <1>5 DEF Size
  <1>7. PosOf(l) = CHOOSE s : Eq(s)
    BY DEF PosOf
  <1> HIDE DEF F, Eq
  <1>8. Eq(PosOf(l))
    BY <1>6, <1>7
  <1> QED BY <1>8 DEF Eq

\* The tokens the calls write.
TokenSet == [tag : {FDT_BEGIN_NODE, FDT_END_NODE, FDT_PROP, FDT_END},
             name : Seq(Nat \ {0}), val : Seq(Nat)]

\* The size of a token, by its tag.
LEMMA TokenSizes ==
    ASSUME NEW t \in TokenSet
    PROVE  /\ Aligned(TokenSize(t)) /\ TokenSize(t) \in Nat /\ TokenSize(t) >= TAGSIZE
           /\ t.tag = FDT_BEGIN_NODE =>
                /\ TokenSize(t) = TAGSIZE + FDT_TAGALIGN(Len(t.name) + 1)
                /\ TokenSize(t) >= TAGSIZE + Len(t.name) + 1
           /\ t.tag = FDT_PROP =>
                /\ TokenSize(t) = 3 * TAGSIZE + FDT_TAGALIGN(Len(t.val))
                /\ TokenSize(t) >= 3 * TAGSIZE + Len(t.val)
           /\ t.tag \in {FDT_END_NODE, FDT_END} => TokenSize(t) = TAGSIZE
  <1>1. TAGSIZE \in Nat /\ TAGSIZE > 0
    BY Sizes
  <1>2. Aligned(TAGSIZE) /\ Aligned(3 * TAGSIZE)
    BY <1>1 DEF Aligned
  <1>3. /\ t.name \in Seq(Nat \ {0}) /\ t.val \in Seq(Nat)
        /\ t.tag \in {FDT_BEGIN_NODE, FDT_END_NODE, FDT_PROP, FDT_END}
    BY DEF TokenSet
  <1>4. Len(t.name) + 1 \in Nat /\ Len(t.name) \in Nat /\ Len(t.val) \in Nat
    BY <1>3
  <1> DEFINE n == FDT_TAGALIGN(Len(t.name) + 1)
             v == FDT_TAGALIGN(Len(t.val))
  <1>5. n \in Nat /\ Aligned(n) /\ n >= Len(t.name) + 1
    BY <1>4, TagAlign
  <1>6. v \in Nat /\ Aligned(v) /\ v >= Len(t.val)
    BY <1>4, TagAlign
  <1>7. Aligned(TAGSIZE + n) /\ Aligned(3 * TAGSIZE + v)
    BY <1>2, <1>5, <1>6, AlignedSum
  <1>8. TokenSize(t) = IF t.tag = FDT_BEGIN_NODE THEN TAGSIZE + n
                       ELSE IF t.tag = FDT_PROP THEN 3 * TAGSIZE + v ELSE TAGSIZE
    BY DEF TokenSize, PropHdr, FDT_BEGIN_NODE, FDT_PROP
  <1> HIDE DEF n, v
  <1>9. CASE t.tag = FDT_BEGIN_NODE
    <2>1. t.tag # FDT_PROP /\ t.tag \notin {FDT_END_NODE, FDT_END}
      BY <1>9 DEF FDT_BEGIN_NODE, FDT_PROP, FDT_END_NODE, FDT_END
    <2>2. TokenSize(t) = TAGSIZE + n
      BY <1>8, <1>9
    <2>3. TAGSIZE + n \in Nat /\ TAGSIZE + n >= TAGSIZE + Len(t.name) + 1 /\ TAGSIZE + n >= TAGSIZE
      BY <1>1, <1>4, <1>5
    <2> QED BY <1>7, <2>1, <2>2, <2>3, Zenon DEF n
  <1>10. CASE t.tag = FDT_PROP
    <2>1. t.tag # FDT_BEGIN_NODE /\ t.tag \notin {FDT_END_NODE, FDT_END}
      BY <1>10 DEF FDT_BEGIN_NODE, FDT_PROP, FDT_END_NODE, FDT_END
    <2>2. TokenSize(t) = 3 * TAGSIZE + v
      BY <1>8, <1>10, <2>1
    <2>3. 3 * TAGSIZE + v \in Nat /\ 3 * TAGSIZE + v >= 3 * TAGSIZE + Len(t.val)
          /\ 3 * TAGSIZE + v >= TAGSIZE
      BY <1>1, <1>4, <1>6
    <2> QED BY <1>7, <2>1, <2>2, <2>3, Zenon DEF v
  <1>11. CASE t.tag \in {FDT_END_NODE, FDT_END}
    <2>1. t.tag # FDT_BEGIN_NODE /\ t.tag # FDT_PROP
      BY <1>11 DEF FDT_BEGIN_NODE, FDT_PROP, FDT_END_NODE, FDT_END
    <2>2. TokenSize(t) = TAGSIZE
      BY <1>8, <2>1
    <2>3. TAGSIZE \in Nat /\ TAGSIZE >= TAGSIZE
      BY <1>1
    <2> QED BY <1>2, <2>1, <2>2, <2>3, Zenon
  <1> QED BY <1>3, <1>9, <1>10, <1>11

\* The equations of PosOf.
LEMMA PosStep ==
    ASSUME NEW l
    PROVE  /\ PosOf(l)[1] = 0
           /\ \A i \in Nat \ {0} : PosOf(l)[i + 1] = PosOf(l)[i] + TokenSize(l[i])
  <1> DEFINE P == PosOf(l)
             Size(i) == TokenSize(l[i])
  <1>1. P = [i \in Nat |-> IF i <= 1 THEN 0 ELSE P[i - 1] + Size(i - 1)]
    BY PosDef
  <1> HIDE DEF P, Size
  <1>2. P[1] = 0
    BY <1>1
  <1>3. ASSUME NEW i \in Nat \ {0} PROVE P[i + 1] = P[i] + Size(i)
    <2>1. i + 1 \in Nat /\ ~(i + 1 <= 1) /\ i + 1 - 1 = i
      OBVIOUS
    <2>2. P[i + 1] = P[i + 1 - 1] + Size(i + 1 - 1)
      BY <1>1, <2>1
    <2> QED BY <2>1, <2>2
  <1> QED BY <1>2, <1>3 DEF P, Size

\* The tokens of a log start at multiples of TAGSIZE and do not overlap.
LEMMA Positions ==
    ASSUME NEW l \in Seq(TokenSet)
    PROVE  /\ \A i \in 1..(Len(l) + 1) : PosOf(l)[i] \in Nat /\ Aligned(PosOf(l)[i])
           /\ \A i \in 1..Len(l) : PosOf(l)[i + 1] = PosOf(l)[i] + TokenSize(l[i])
           /\ \A i \in 1..Len(l) : \A j \in (i + 1)..(Len(l) + 1) :
                  PosOf(l)[i] + TokenSize(l[i]) <= PosOf(l)[j]
  <1> DEFINE P == PosOf(l)
             Size(i) == TokenSize(l[i])
             Bad == {i \in Nat : i \in 1..(Len(l) + 1) /\ ~Aligned(P[i])}
  <1>0. Len(l) \in Nat /\ \A i \in 1..Len(l) : l[i] \in TokenSet
    OBVIOUS
  <1>1. P[1] = 0 /\ \A i \in Nat \ {0} : P[i + 1] = P[i] + Size(i)
    BY PosStep
  <1>2. \A i \in 1..Len(l) : Aligned(Size(i)) /\ Size(i) \in Nat
    BY <1>0, TokenSizes
  <1> HIDE DEF P, Size
  <1>3. Aligned(0)
    BY Sizes DEF Aligned
  <1>4. Bad = {}
    <2> SUFFICES ASSUME Bad # {} PROVE FALSE
      OBVIOUS
    <2>1. PICK m \in Bad : \A k \in Bad : m <= k
      BY LeastNat
    <2>2. m \in Nat /\ m \in 1..(Len(l) + 1) /\ ~Aligned(P[m])
      BY <2>1
    <2>3. m # 1
      BY <1>1, <1>3, <2>2
    <2>4. m - 1 \in Nat \ {0} /\ m - 1 \in 1..Len(l) /\ m - 1 \in 1..(Len(l) + 1) /\ (m - 1) + 1 = m
      BY <2>2, <2>3, <1>0
    <2>5. m - 1 \notin Bad
      BY <2>1, <2>2, <2>4
    <2>6. Aligned(P[m - 1])
      BY <2>4, <2>5
    <2>7. P[m] = P[m - 1] + Size(m - 1)
      BY <1>1, <2>4
    <2>8. Aligned(P[m - 1] + Size(m - 1))
      BY <1>2, <2>4, <2>6, AlignedSum
    <2> QED BY <2>2, <2>7, <2>8
  <1>5. \A i \in 1..(Len(l) + 1) : Aligned(P[i])
    BY <1>0, <1>4
  <1>6. \A i \in 1..(Len(l) + 1) : P[i] \in Nat
    BY <1>5, <1>3, AlignedSum
  <1>7. \A i \in 1..Len(l) : P[i + 1] = P[i] + Size(i)
    BY <1>0, <1>1
  <1>8. ASSUME NEW i \in 1..Len(l), NEW j \in (i + 1)..(Len(l) + 1)
        PROVE  P[i] + Size(i) <= P[j]
    <2> DEFINE D == {k \in Nat : k \in (i + 1)..(Len(l) + 1) /\ ~(P[i + 1] <= P[k])}
    <2>0. D = {}
      <3> SUFFICES ASSUME D # {} PROVE FALSE
        OBVIOUS
      <3>1. PICK m \in D : \A k \in D : m <= k
        BY LeastNat
      <3>2. m \in Nat /\ m \in (i + 1)..(Len(l) + 1) /\ ~(P[i + 1] <= P[m])
        BY <3>1
      <3>3. m # i + 1
        <4>1. i + 1 \in 1..(Len(l) + 1)
          BY <1>0
        <4>2. P[i + 1] \in Nat
          BY <4>1, <1>6
        <4> QED BY <4>2, <3>2
      <3>4. m - 1 \in Nat /\ m - 1 \in (i + 1)..(Len(l) + 1) /\ m - 1 \in 1..Len(l) /\ (m - 1) + 1 = m
        BY <3>2, <3>3, <1>0
      <3>5. m - 1 \notin D
        BY <3>1, <3>2, <3>4
      <3>6. P[i + 1] <= P[m - 1]
        BY <3>4, <3>5
      <3>7. P[m] = P[m - 1] + Size(m - 1) /\ Size(m - 1) \in Nat
        BY <1>2, <1>7, <3>4
      <3>8. P[i + 1] \in Nat /\ P[m - 1] \in Nat
        BY <1>0, <1>6, <3>4
      <3> QED BY <3>2, <3>6, <3>7, <3>8
    <2>1. P[i + 1] <= P[j]
      BY <2>0, <1>0
    <2> QED BY <2>1, <1>7
  <1> QED BY <1>5, <1>6, <1>7, <1>8 DEF P, Size

\* Positions depend only on the tokens before.
LEMMA PosAppend ==
    ASSUME NEW l \in Seq(TokenSet), NEW t \in TokenSet
    PROVE  /\ \A i \in 1..(Len(l) + 1) : PosOf(Append(l, t))[i] = PosOf(l)[i]
           /\ PosOf(Append(l, t))[Len(l) + 2] = PosOf(l)[Len(l) + 1] + TokenSize(t)
  <1> DEFINE P == PosOf(l)
             k == Append(l, t)
             Q == PosOf(k)
             Size(i) == TokenSize(l[i])
             SizeK(i) == TokenSize(k[i])
             Bad == {i \in Nat : i \in 1..(Len(l) + 1) /\ Q[i] # P[i]}
  <1>0. Len(l) \in Nat
    OBVIOUS
  <1>1. P[1] = 0 /\ \A i \in Nat \ {0} : P[i + 1] = P[i] + Size(i)
    BY PosStep
  <1>2. Q[1] = 0 /\ \A i \in Nat \ {0} : Q[i + 1] = Q[i] + SizeK(i)
    BY PosStep
  <1>3. \A i \in 1..Len(l) : k[i] = l[i]
    OBVIOUS
  <1>4. k[Len(l) + 1] = t
    OBVIOUS
  <1>5. \A i \in 1..Len(l) : SizeK(i) = Size(i)
    BY <1>3
  <1>6. SizeK(Len(l) + 1) = TokenSize(t)
    BY <1>4
  <1> HIDE DEF P, Q, k, Size, SizeK
  <1>7. Bad = {}
    <2> SUFFICES ASSUME Bad # {} PROVE FALSE
      OBVIOUS
    <2>1. PICK m \in Bad : \A j \in Bad : m <= j
      BY LeastNat
    <2>2. m \in Nat /\ m \in 1..(Len(l) + 1) /\ Q[m] # P[m]
      BY <2>1
    <2>3. m # 1
      BY <1>1, <1>2, <2>2
    <2>4. m - 1 \in Nat \ {0} /\ m - 1 \in 1..Len(l) /\ m - 1 \in 1..(Len(l) + 1) /\ (m - 1) + 1 = m
      BY <2>2, <2>3, <1>0
    <2>5. m - 1 \notin Bad
      BY <2>1, <2>2, <2>4
    <2>6. Q[m - 1] = P[m - 1]
      BY <2>4, <2>5
    <2>7. P[m] = P[m - 1] + Size(m - 1) /\ Q[m] = Q[m - 1] + SizeK(m - 1)
      BY <1>1, <1>2, <2>4
    <2> QED BY <1>5, <2>2, <2>4, <2>6, <2>7
  <1>8. \A i \in 1..(Len(l) + 1) : Q[i] = P[i]
    BY <1>0, <1>7
  <1>9. Q[Len(l) + 2] = P[Len(l) + 1] + TokenSize(t)
    <2>1. Len(l) + 1 \in Nat \ {0} /\ Len(l) + 1 \in 1..(Len(l) + 1) /\ (Len(l) + 1) + 1 = Len(l) + 2
      BY <1>0
    <2>2. Q[(Len(l) + 1) + 1] = Q[Len(l) + 1] + SizeK(Len(l) + 1)
      BY <1>2, <2>1
    <2> QED BY <1>6, <1>8, <2>1, <2>2
  <1> QED BY <1>8, <1>9 DEF P, Q, k

-----------------------------------------------------------------------------
(* Cells: what a store writes and what it leaves alone *)

\* The cells are integers; the cells from off on hold the sequence s.
Memory(x) == x.mem \in [0..(Arena - 1) -> Int]
HoldsIn(x, off, s) == \A i \in 1..Len(s) : Cell(x, off + i - 1) = s[i]

\* What TokensIntact says of a token at p, apart from the property's name.
TokenCells(x, p, t) ==
    LET at == x.off_dt_struct + p
    IN  /\ Word(x, at) = t.tag
        /\ t.tag = FDT_BEGIN_NODE => HoldsIn(x, at + TAGSIZE, Append(t.name, NUL))
        /\ t.tag = FDT_PROP => /\ Word(x, at + TAGSIZE) = Len(t.val)
                               /\ HoldsIn(x, at + PropHdr, t.val)

\* The name: inside the strings block, whose offsets run from lo and count
\* from "origin".
NameOff(x, p) == Word(x, x.off_dt_struct + p + 2 * TAGSIZE)
NameCells(x, origin, lo, p, t) ==
    t.tag = FDT_PROP =>
        /\ NameOff(x, p) \in Int /\ lo <= NameOff(x, p)
        /\ NameOff(x, p) + Len(t.name) + 1 <= lo + x.size_dt_strings
        /\ HoldsIn(x, origin + NameOff(x, p), Append(t.name, NUL))

\* memcpy writes the cells of c, one after the other, and no other.
Copied(new, mem, d, c, n) ==
    /\ new \in [0..(Arena - 1) -> Int]
    /\ \A i \in 1..n : new[d + i - 1] = c[i]
    /\ \A a \in 0..(Arena - 1) : a < d \/ a >= d + n => new[a] = mem[a]
\* memcpy, in the arena.
LEMMA CopyCells ==
    ASSUME NEW mem \in [0..(Arena - 1) -> Int], NEW d \in Nat, NEW c \in Seq(Int),
           NEW n \in Nat, n = Len(c), d + n <= Arena
    PROVE  Copied(memcpy(mem, d, c), mem, d, c, n)
  <1> DEFINE new == memcpy(mem, d, c)
  <1>1. Arena \in Nat
    BY Sizes
  <1>2. new = [a \in 0..(Arena - 1) |-> IF a \in d..(d + n - 1) THEN c[a - d + 1] ELSE mem[a]]
    BY DEF memcpy
  <1>3. \A i \in 1..n : c[i] \in Int
    OBVIOUS
  <1> HIDE DEF new
  <1>4. \A a \in 0..(Arena - 1) : a \in d..(d + n - 1) => a - d + 1 \in 1..n
    BY <1>1
  <1>5. new \in [0..(Arena - 1) -> Int]
    BY <1>2, <1>3, <1>4
  <1>6. ASSUME NEW i \in 1..n PROVE new[d + i - 1] = c[i]
    <2>1. d + i - 1 \in 0..(Arena - 1) /\ d + i - 1 \in d..(d + n - 1) /\ (d + i - 1) - d + 1 = i
      BY <1>1
    <2> QED BY <1>2, <2>1
  <1>7. ASSUME NEW a \in 0..(Arena - 1), a < d \/ a >= d + n PROVE new[a] = mem[a]
    <2>1. a \notin d..(d + n - 1)
      BY <1>1, <1>7
    <2> QED BY <1>2, <2>1
  <1> QED BY <1>5, <1>6, <1>7 DEF new, Copied

\* y is x with the cells of c stored at an offset, inside the blob.
StoredAt(x, y, size, at, c) ==
    /\ x.base \in Nat /\ size \in Nat /\ at \in Nat /\ c \in Seq(Int)
    /\ x.base + size <= Arena /\ at + Len(c) <= size
    /\ y.base = x.base /\ y.mem = memcpy(x.mem, x.base + at, c)

\* c stored at "at" in a blob of the given size, and no other cell changed.
LEMMA StoreCells ==
    ASSUME NEW x, NEW y, NEW size, NEW at, NEW c, Memory(x), StoredAt(x, y, size, at, c)
    PROVE  /\ Memory(y) /\ HoldsIn(y, at, c)
           /\ \A k \in 0..(at - 1) : Cell(y, k) = Cell(x, k)
           /\ \A k \in (at + Len(c))..(size - 1) : Cell(y, k) = Cell(x, k)
  <1>a. PICK base \in Nat, n \in Nat : base = x.base /\ n = Len(c)
    BY DEF StoredAt
  <1>b. size \in Nat /\ at \in Nat /\ c \in Seq(Int)
    BY DEF StoredAt
  <1>c. base + size <= Arena /\ at + n <= size /\ y.base = base /\ y.mem = memcpy(x.mem, base + at, c)
    BY <1>a, Zenon DEF StoredAt
  <1>1. PICK mem \in [0..(Arena - 1) -> Int] : mem = x.mem
    BY DEF Memory
  <1>2. PICK A \in Nat : A = Arena
    BY Sizes
  <1>5. base + size <= A /\ at + n <= size
    BY <1>2, <1>c
  <1>6. base + at \in Nat /\ (base + at) + n <= Arena
    BY <1>b, <1>2, <1>5
  <1> DEFINE new == memcpy(mem, base + at, c)
  <1>7. /\ new \in [0..(Arena - 1) -> Int]
        /\ \A i \in 1..n : new[base + at + i - 1] = c[i]
        /\ \A a \in 0..(Arena - 1) : a < base + at \/ a >= base + at + n => new[a] = mem[a]
    <2>1. PICK d \in Nat : d = base + at
      BY <1>6
    <2>2. d + n <= Arena
      BY <1>6, <2>1
    <2>3. Copied(memcpy(mem, d, c), mem, d, c, n)
      BY <1>a, <1>b, <2>2, CopyCells
    <2> QED BY <2>1, <2>3 DEF Copied
  <1>8. y.mem = new /\ y.base = base
    BY <1>1, <1>c
  <1> HIDE DEF new
  <1>9. Memory(y)
    BY <1>7, <1>8 DEF Memory
  <1>10. \A k : Cell(y, k) = new[base + k] /\ Cell(x, k) = mem[base + k]
    BY <1>a, <1>1, <1>8 DEF Cell
  <1>11. ASSUME NEW i \in 1..n PROVE Cell(y, at + i - 1) = c[i]
    <2>1. base + (at + i - 1) = base + at + i - 1
      BY <1>b
    <2> QED BY <1>7, <1>10, <2>1
  <1>12. ASSUME NEW k \in 0..(size - 1), k < at \/ k >= at + n PROVE Cell(y, k) = Cell(x, k)
    <2>1. base + k \in 0..(Arena - 1) /\ (base + k < base + at \/ base + k >= base + at + n)
      BY <1>b, <1>2, <1>5, <1>12
    <2> QED BY <1>7, <1>10, <2>1
  <1>13. \A k \in 0..(at - 1) : Cell(y, k) = Cell(x, k)
    <2>1. \A k \in 0..(at - 1) : k \in 0..(size - 1) /\ k < at
      BY <1>b, <1>5
    <2> QED BY <1>12, <2>1
  <1>14. \A k \in (at + n)..(size - 1) : Cell(y, k) = Cell(x, k)
    <2>1. \A k \in (at + n)..(size - 1) : k \in 0..(size - 1) /\ k >= at + n
      BY <1>b, <1>5
    <2> QED BY <1>12, <2>1
  <1> QED BY <1>a, <1>9, <1>11, <1>13, <1>14 DEF HoldsIn

\* x and y hold the same below an offset, under which the token t at p lies.
SameBelow(x, y, top) ==
    /\ y.off_dt_struct = x.off_dt_struct /\ x.off_dt_struct \in Nat /\ top \in Nat
    /\ \A k \in 0..(top - 1) : Cell(y, k) = Cell(x, k)
Inside(x, p, t, top) ==
    p \in Nat /\ t \in TokenSet /\ x.off_dt_struct + p + TokenSize(t) <= top

\* A token below "top" is kept when the cells below "top" are.
LEMMA TokenKept ==
    ASSUME NEW x, NEW y, NEW p, NEW t, NEW top,
           SameBelow(x, y, top), Inside(x, p, t, top), TokenCells(x, p, t)
    PROVE  TokenCells(y, p, t) /\ (t.tag = FDT_PROP => NameOff(y, p) = NameOff(x, p))
  <1>a. /\ p \in Nat /\ t \in TokenSet /\ top \in Nat /\ x.off_dt_struct \in Nat
        /\ y.off_dt_struct = x.off_dt_struct
    BY DEF SameBelow, Inside
  <1> DEFINE at == x.off_dt_struct + p
  <1>0. \A k \in 0..(top - 1) : Cell(y, k) = Cell(x, k)
    BY DEF SameBelow
  <1>1. TAGSIZE \in Nat /\ TAGSIZE > 0
    BY Sizes
  <1>2. at \in Nat
    BY <1>a
  <1>3. /\ TokenSize(t) \in Nat /\ TokenSize(t) >= TAGSIZE
        /\ t.tag = FDT_BEGIN_NODE => TokenSize(t) >= TAGSIZE + Len(t.name) + 1
        /\ t.tag = FDT_PROP => TokenSize(t) >= 3 * TAGSIZE + Len(t.val)
    BY <1>a, TokenSizes
  <1>4. /\ t.name \in Seq(Nat \ {0}) /\ t.val \in Seq(Nat)
        /\ Len(t.name) \in Nat /\ Len(t.val) \in Nat
    BY <1>a DEF TokenSet
  <1>5. Append(t.name, NUL) \in Seq(Nat) /\ Len(Append(t.name, NUL)) = Len(t.name) + 1
    BY <1>4 DEF NUL
  <1>6. at + TokenSize(t) <= top
    BY DEF Inside
  <1> HIDE DEF at
  <1>7. Word(y, at) = Word(x, at)
    <2>1. at + TAGSIZE - 1 \in 0..(top - 1)
      BY <1>a, <1>1, <1>2, <1>3, <1>6
    <2> QED BY <1>0, <2>1 DEF Word
  <1>8. CASE t.tag = FDT_BEGIN_NODE
    <2>1. ASSUME NEW i \in 1..(Len(t.name) + 1)
          PROVE  Cell(y, at + TAGSIZE + i - 1) = Cell(x, at + TAGSIZE + i - 1)
      <3>1. at + TAGSIZE + i - 1 \in 0..(top - 1)
        BY <1>a, <1>1, <1>2, <1>3, <1>4, <1>6, <1>8
      <3> QED BY <1>0, <3>1
    <2>2. HoldsIn(x, at + TAGSIZE, Append(t.name, NUL))
      BY <1>8 DEF TokenCells, at
    <2>3. HoldsIn(y, at + TAGSIZE, Append(t.name, NUL))
      BY <1>5, <2>1, <2>2 DEF HoldsIn
    <2>4. t.tag # FDT_PROP
      BY <1>8 DEF FDT_BEGIN_NODE, FDT_PROP
    <2> QED BY <1>a, <1>7, <2>3, <2>4 DEF TokenCells, at
  <1>9. CASE t.tag = FDT_PROP
    <2>n. PICK n \in Nat : n = Len(t.val)
      BY <1>4
    <2>0. /\ PropHdr = 3 * TAGSIZE /\ PropHdr \in Nat
          /\ at + 3 * TAGSIZE + n <= top /\ at + PropHdr + n <= top
      <3>1. TokenSize(t) >= 3 * TAGSIZE + n
        BY <1>3, <1>9, <2>n
      <3> QED BY <1>a, <1>1, <1>2, <1>3, <1>6, <3>1 DEF PropHdr
    <2>1. ASSUME NEW i \in 1..Len(t.val)
          PROVE  Cell(y, at + PropHdr + i - 1) = Cell(x, at + PropHdr + i - 1)
      <3>0. i \in 1..n
        BY <2>n
      <3>1. PICK a \in Nat, h \in Nat : a = at /\ h = PropHdr
        BY <1>2, <2>0
      <3>2. a + h + n <= top
        BY <2>0, <3>1
      <3>3. a + h + i - 1 \in 0..(top - 1)
        BY <1>a, <3>0, <3>2
      <3> QED BY <1>0, <3>1, <3>3
    <2>2. HoldsIn(x, at + PropHdr, t.val) /\ Word(x, at + TAGSIZE) = Len(t.val)
      BY <1>9 DEF TokenCells, at
    <2>3. HoldsIn(y, at + PropHdr, t.val)
      BY <2>1, <2>2 DEF HoldsIn
    <2>4. t.tag # FDT_BEGIN_NODE
      BY <1>9 DEF FDT_BEGIN_NODE, FDT_PROP
    <2>5. Word(y, at + TAGSIZE) = Word(x, at + TAGSIZE)
      <3>1. at + TAGSIZE + TAGSIZE - 1 \in 0..(top - 1)
        BY <1>a, <1>1, <1>2, <2>0
      <3> QED BY <1>0, <3>1 DEF Word
    <2>6. NameOff(y, p) = NameOff(x, p)
      <3>1. at + 2 * TAGSIZE + TAGSIZE - 1 \in 0..(top - 1)
        BY <1>a, <1>1, <1>2, <2>0
      <3> QED BY <1>a, <1>0, <3>1 DEF Word, NameOff, at
    <2> QED BY <1>a, <1>7, <2>2, <2>3, <2>4, <2>5, <2>6 DEF TokenCells, at
  <1>10. CASE t.tag # FDT_BEGIN_NODE /\ t.tag # FDT_PROP
    BY <1>a, <1>7, <1>10 DEF TokenCells, at
  <1> QED BY <1>8, <1>9, <1>10

\* So is the name of a property when the strings are, from whatever origin.
LEMMA NameKept ==
    ASSUME NEW x, NEW y, NEW p, NEW t \in TokenSet,
           x.size_dt_strings \in Nat, y.size_dt_strings \in Nat,
           NEW ox \in Int, NEW oy \in Int, NEW lx \in Int, NEW ly \in Int,
           \A k \in lx..(lx + x.size_dt_strings - 1) : Cell(y, oy + k) = Cell(x, ox + k),
           ly <= lx, lx + x.size_dt_strings <= ly + y.size_dt_strings,
           t.tag = FDT_PROP => NameOff(y, p) = NameOff(x, p),
           NameCells(x, ox, lx, p, t)
    PROVE  NameCells(y, oy, ly, p, t)
  <1> SUFFICES ASSUME t.tag = FDT_PROP PROVE NameCells(y, oy, ly, p, t)
    BY DEF NameCells
  <1> DEFINE s == Append(t.name, NUL)
  <1>1. PICK n \in Int : n = NameOff(x, p)
    BY DEF NameCells
  <1>2. PICK len \in Nat : len = Len(t.name)
    BY DEF TokenSet
  <1>3. PICK sx \in Nat : sx = x.size_dt_strings
    OBVIOUS
  <1>4. PICK sy \in Nat : sy = y.size_dt_strings
    OBVIOUS
  <1>5. /\ lx <= n /\ n + len + 1 <= lx + sx /\ HoldsIn(x, ox + n, s) /\ NameOff(y, p) = n
    BY <1>1, <1>2, <1>3, Zenon DEF NameCells
  <1>6. ly <= lx /\ lx + sx <= ly + sy
    BY <1>3, <1>4, Zenon
  <1>7. Len(s) = len + 1
    BY <1>2 DEF TokenSet, NUL
  <1> HIDE DEF s
  <1>8. \A k \in lx..(lx + sx - 1) : Cell(y, oy + k) = Cell(x, ox + k)
    BY <1>3
  <1>9. ASSUME NEW i \in 1..(len + 1) PROVE Cell(y, oy + n + i - 1) = s[i]
    <2>1. n + i - 1 \in lx..(lx + sx - 1)
      BY <1>5
    <2>2. Cell(y, oy + (n + i - 1)) = Cell(x, ox + (n + i - 1))
      BY <1>8, <2>1
    <2>3. oy + (n + i - 1) = oy + n + i - 1 /\ ox + (n + i - 1) = ox + n + i - 1
      OBVIOUS
    <2>4. Cell(x, ox + n + i - 1) = s[i]
      BY <1>5, <1>7 DEF HoldsIn
    <2> QED BY <2>2, <2>3, <2>4
  <1>10. ly <= n /\ n + len + 1 <= ly + sy
    BY <1>5, <1>6
  <1>11. HoldsIn(y, oy + n, s)
    BY <1>7, <1>9 DEF HoldsIn
  <1> QED BY <1>2, <1>4, <1>5, <1>10, <1>11 DEF NameCells, s

\* A word takes TAGSIZE cells, its value in the last one.
LEMMA WordCellsSeq ==
    ASSUME NEW v \in Int
    PROVE  /\ WordCells(v) \in Seq(Int) /\ Len(WordCells(v)) = TAGSIZE
           /\ WordCells(v)[TAGSIZE] = v
  <1>1. TAGSIZE \in Nat /\ TAGSIZE > 0
    BY Sizes
  <1>2. WordCells(v) = [i \in 1..TAGSIZE |-> IF i = TAGSIZE THEN v ELSE 0]
    BY DEF WordCells
  <1>3. \A i \in 1..TAGSIZE : (IF i = TAGSIZE THEN v ELSE 0) \in Int
    OBVIOUS
  <1>4. TAGSIZE \in 1..TAGSIZE
    BY <1>1
  <1>5. WordCells(v) \in [1..TAGSIZE -> Int]
    BY <1>2, <1>3
  <1>6. WordCells(v) \in Seq(Int)
    BY <1>1, <1>5
  <1>7. Len(WordCells(v)) = TAGSIZE
    BY <1>1, <1>5
  <1> QED BY <1>2, <1>4, <1>6, <1>7

\* Concatenations of cells.
LEMMA ConcatSeq ==
    ASSUME NEW u \in Seq(Int), NEW v \in Seq(Int)
    PROVE  u \o v \in Seq(Int) /\ Len(u \o v) = Len(u) + Len(v)
  OBVIOUS

\* Cells written in one piece are there piece by piece.
LEMMA HoldsConcat ==
    ASSUME NEW x, NEW at \in Nat, NEW u \in Seq(Int), NEW v \in Seq(Int)
    PROVE  HoldsIn(x, at, u \o v) => HoldsIn(x, at, u) /\ HoldsIn(x, at + Len(u), v)
  <1>1. PICK m \in Nat : m = Len(u)
    OBVIOUS
  <1>2. PICK n \in Nat : n = Len(v)
    OBVIOUS
  <1>3. u \o v \in Seq(Int) /\ Len(u \o v) = m + n
    BY <1>1, <1>2
  <1>4. /\ \A i \in 1..m : (u \o v)[i] = u[i]
        /\ \A i \in 1..n : (u \o v)[m + i] = v[i]
    BY <1>1, <1>2
  <1> DEFINE c == u \o v
  <1> HIDE DEF c
  <1>5. ASSUME HoldsIn(x, at, c)
        PROVE  HoldsIn(x, at, u) /\ HoldsIn(x, at + m, v)
    <2>1. \A i \in 1..(m + n) : Cell(x, at + i - 1) = c[i]
      BY <1>3, <1>5 DEF HoldsIn, c
    <2>2. ASSUME NEW i \in 1..m PROVE Cell(x, at + i - 1) = u[i]
      <3>1. i \in 1..(m + n)
        OBVIOUS
      <3> QED BY <2>1, <3>1, <1>4 DEF c
    <2>3. ASSUME NEW i \in 1..n PROVE Cell(x, at + m + i - 1) = v[i]
      <3>1. m + i \in 1..(m + n) /\ at + (m + i) - 1 = at + m + i - 1
        OBVIOUS
      <3>2. Cell(x, at + (m + i) - 1) = c[m + i]
        BY <2>1, <3>1
      <3> QED BY <3>1, <3>2, <1>4 DEF c
    <2> QED BY <1>1, <1>2, <2>2, <2>3 DEF HoldsIn
  <1> QED BY <1>1, <1>2, <1>3, <1>5 DEF c

\* A word that was written is read back.
LEMMA HoldsWord ==
    ASSUME NEW x, NEW at \in Nat, NEW v \in Int, HoldsIn(x, at, WordCells(v))
    PROVE  Word(x, at) = v
  <1>1. PICK T \in Nat : T = TAGSIZE /\ T > 0
    BY Sizes
  <1>2. Len(WordCells(v)) = T /\ WordCells(v)[T] = v
    BY <1>1, WordCellsSeq
  <1>3. T \in 1..T
    BY <1>1
  <1>4. Cell(x, at + T - 1) = WordCells(v)[T]
    BY <1>2, <1>3 DEF HoldsIn
  <1> QED BY <1>1, <1>2, <1>4 DEF Word

\* The cells of a node's start and of a property, as the calls write them.
LEMMA NodeCells ==
    ASSUME NEW t \in TokenSet, t.tag = FDT_BEGIN_NODE
    PROVE  /\ WordCells(FDT_BEGIN_NODE) \o Append(t.name, NUL) \in Seq(Int)
           /\ Len(WordCells(FDT_BEGIN_NODE) \o Append(t.name, NUL)) <= TokenSize(t)
           /\ \A y, p : p \in Nat /\ y.off_dt_struct \in Nat
                 /\ HoldsIn(y, y.off_dt_struct + p, WordCells(FDT_BEGIN_NODE) \o Append(t.name, NUL))
                 => TokenCells(y, p, t)
  <1> DEFINE w == WordCells(FDT_BEGIN_NODE)
             s == Append(t.name, NUL)
  <1>1. t.name \in Seq(Nat \ {0}) /\ t.name \in Seq(Int)
    <2>1. t.name \in Seq(Nat \ {0})
      BY DEF TokenSet
    <2> QED BY <2>1
  <1>2. s \in Seq(Int) /\ Len(s) = Len(t.name) + 1 /\ Len(t.name) \in Nat
    BY <1>1 DEF NUL
  <1>3. w \in Seq(Int) /\ Len(w) = TAGSIZE
    BY WordCellsSeq DEF FDT_BEGIN_NODE
  <1>4. TokenSize(t) >= TAGSIZE + Len(t.name) + 1
    BY TokenSizes
  <1> HIDE DEF w, s
  <1>5. w \o s \in Seq(Int) /\ Len(w \o s) = Len(w) + Len(s)
    BY <1>2, <1>3, ConcatSeq, Zenon
  <1>6. Len(w \o s) <= TokenSize(t)
    <2>1. TAGSIZE \in Nat /\ TokenSize(t) \in Nat
      BY Sizes, TokenSizes
    <2> QED BY <2>1, <1>2, <1>3, <1>4, <1>5
  <1>7. ASSUME NEW y, NEW p \in Nat, y.off_dt_struct \in Nat, HoldsIn(y, y.off_dt_struct + p, w \o s)
        PROVE  TokenCells(y, p, t)
    <2>1. PICK at \in Nat : at = y.off_dt_struct + p
      BY <1>7
    <2>2. HoldsIn(y, at, w) /\ HoldsIn(y, at + Len(w), s)
      BY <1>2, <1>3, <1>7, <2>1, HoldsConcat
    <2>3. Word(y, at) = FDT_BEGIN_NODE
      BY <2>2, HoldsWord DEF w, FDT_BEGIN_NODE
    <2>4. t.tag # FDT_PROP
      BY DEF FDT_BEGIN_NODE, FDT_PROP
    <2> QED BY <1>3, <2>1, <2>2, <2>3, <2>4 DEF TokenCells, s
  <1> QED BY <1>5, <1>6, <1>7 DEF w, s

\* The cells of a token that is a tag alone.
LEMMA TagCells ==
    ASSUME NEW t \in TokenSet, t.tag \in {FDT_END_NODE, FDT_END}
    PROVE  /\ WordCells(t.tag) \in Seq(Int) /\ Len(WordCells(t.tag)) <= TokenSize(t)
           /\ \A y, p : p \in Nat /\ y.off_dt_struct \in Nat
                 /\ HoldsIn(y, y.off_dt_struct + p, WordCells(t.tag)) => TokenCells(y, p, t)
  <1>1. t.tag \in Int /\ t.tag # FDT_PROP /\ t.tag # FDT_BEGIN_NODE
    BY DEF FDT_BEGIN_NODE, FDT_PROP, FDT_END_NODE, FDT_END
  <1>2. WordCells(t.tag) \in Seq(Int) /\ Len(WordCells(t.tag)) = TAGSIZE
    BY <1>1, WordCellsSeq
  <1>3. TokenSize(t) = TAGSIZE /\ TAGSIZE \in Nat
    BY Sizes, TokenSizes
  <1>4. ASSUME NEW y, NEW p \in Nat, y.off_dt_struct \in Nat, HoldsIn(y, y.off_dt_struct + p, WordCells(t.tag))
        PROVE  TokenCells(y, p, t)
    <2>1. PICK at \in Nat : at = y.off_dt_struct + p
      BY <1>4
    <2>2. Word(y, at) = t.tag
      BY <1>1, <1>4, <2>1, HoldsWord
    <2> QED BY <1>1, <2>1, <2>2 DEF TokenCells
  <1>5. Len(WordCells(t.tag)) <= TokenSize(t)
    BY <1>2, <1>3
  <1> QED BY <1>2, <1>4, <1>5

\* The cells of a property, and that a blob which holds them has the token.
PropCells(t, off) == WordCells(FDT_PROP) \o WordCells(Len(t.val)) \o WordCells(off) \o t.val
WritesProp(c, t, off) ==
    /\ c \in Seq(Int) /\ Len(c) <= TokenSize(t)
    /\ \A u, p : p \in Nat /\ u.off_dt_struct \in Nat /\ HoldsIn(u, u.off_dt_struct + p, c)
              => TokenCells(u, p, t) /\ NameOff(u, p) = off
\* fdt_property writes the property's token.
LEMMA PropertyCells ==
    ASSUME NEW t \in TokenSet, t.tag = FDT_PROP, NEW off \in Int
    PROVE  WritesProp(PropCells(t, off), t, off)
  <1> DEFINE c == PropCells(t, off)
             w == WordCells(FDT_PROP)
             n == WordCells(Len(t.val))
             o == WordCells(off)
             v == t.val
  <1>0. PICK T \in Nat : T = TAGSIZE /\ T > 0
    BY Sizes
  <1>1. v \in Seq(Nat) /\ v \in Seq(Int)
    <2>1. v \in Seq(Nat)
      BY DEF TokenSet
    <2> QED BY <2>1
  <1>2. Len(v) \in Nat /\ Len(v) \in Int
    BY <1>1
  <1>3. w \in Seq(Int) /\ Len(w) = T
    BY <1>0, WordCellsSeq DEF FDT_PROP
  <1>4. n \in Seq(Int) /\ Len(n) = T
    BY <1>0, <1>2, WordCellsSeq
  <1>5. o \in Seq(Int) /\ Len(o) = T
    BY <1>0, WordCellsSeq
  <1>6. c = w \o n \o o \o v
    BY DEF PropCells
  <1> HIDE DEF c, w, n, o, v
  <1>7. w \o n \in Seq(Int) /\ Len(w \o n) = 2 * T
    <2>1. w \o n \in Seq(Int) /\ Len(w \o n) = T + T
      BY <1>3, <1>4, ConcatSeq, Zenon
    <2> QED BY <2>1
  <1>8. w \o n \o o \in Seq(Int) /\ Len(w \o n \o o) = 3 * T
    <2>1. w \o n \o o \in Seq(Int) /\ Len(w \o n \o o) = 2 * T + T
      BY <1>5, <1>7, ConcatSeq, Zenon
    <2> QED BY <2>1
  <1>9. c \in Seq(Int) /\ Len(c) = 3 * T + Len(v)
    BY <1>1, <1>6, <1>8, ConcatSeq, Zenon
  <1>10. Len(c) <= TokenSize(t)
    <2>1. TokenSize(t) \in Nat /\ TokenSize(t) >= 3 * T + Len(v)
      BY <1>0, TokenSizes DEF v
    <2> QED BY <2>1, <1>2, <1>9
  <1>11. ASSUME NEW y, NEW p \in Nat, y.off_dt_struct \in Nat, HoldsIn(y, y.off_dt_struct + p, c)
        PROVE  TokenCells(y, p, t) /\ NameOff(y, p) = off
    <2>1. PICK at \in Nat : at = y.off_dt_struct + p
      BY <1>11
    <2>2. HoldsIn(y, at, w \o n \o o) /\ HoldsIn(y, at + 3 * T, v)
      <3>1. HoldsIn(y, at, w \o n \o o \o v)
        BY <1>6, <1>11, <2>1, Zenon
      <3> QED BY <1>1, <1>8, <3>1, HoldsConcat, Zenon
    <2>3. HoldsIn(y, at, w \o n) /\ HoldsIn(y, at + 2 * T, o)
      BY <1>5, <1>7, <2>2, HoldsConcat
    <2>4. HoldsIn(y, at, w) /\ HoldsIn(y, at + T, n)
      BY <1>3, <1>4, <2>3, HoldsConcat
    <2>5. Word(y, at) = FDT_PROP
      BY <2>4, HoldsWord DEF w, FDT_PROP
    <2>6. Word(y, at + T) = Len(v)
      <3>1. at + T \in Nat
        OBVIOUS
      <3> QED BY <1>2, <2>4, <3>1, HoldsWord DEF n, v
    <2>7. Word(y, at + 2 * T) = off
      <3>1. at + 2 * T \in Nat
        OBVIOUS
      <3> QED BY <2>3, <3>1, HoldsWord DEF o
    <2>8. t.tag # FDT_BEGIN_NODE
      BY DEF FDT_BEGIN_NODE, FDT_PROP
    <2>9. PropHdr = 3 * T
      BY <1>0 DEF PropHdr
    <2> QED BY <1>0, <2>1, <2>2, <2>5, <2>6, <2>7, <2>8, <2>9 DEF TokenCells, NameOff, v
  <1> QED BY <1>9, <1>10, <1>11 DEF WritesProp, c

\* Everything TokensIntact says of the cells of a blob, for the log l and the
\* reserve entries r.
RsvAt(x, i) == x.off_mem_rsvmap + (i - 1) * RSVSIZE
Content(x, origin, lo, l, r) ==
    /\ HoldsIn(x, 0, [i \in 1..HDRSIZE |-> HDRMARK])
    /\ \A i \in 1..Len(r) : Cell(x, RsvAt(x, i)) = r[i]
    /\ \A i \in 1..Len(l) : TokenCells(x, PosOf(l)[i], l[i])
    /\ \A i \in 1..Len(l) : NameCells(x, origin, lo, PosOf(l)[i], l[i])

\* The log and the header fields agree.
Agree(x, l, r) ==
    /\ l \in Seq(TokenSet) /\ r \in Seq(Nat)
    /\ x.off_dt_struct = x.off_mem_rsvmap + Len(r) * RSVSIZE
    /\ x.size_dt_struct = PosOf(l)[Len(l) + 1]

\* y holds what x holds: the cells below the top of the structure block, and
\* the strings counted from another origin.
SameStrings(x, y, ox, oy, lx, ly) ==
    /\ \A k \in lx..(lx + x.size_dt_strings - 1) : Cell(y, oy + k) = Cell(x, ox + k)
    /\ ly <= lx /\ lx + x.size_dt_strings <= ly + y.size_dt_strings
SameStruct(x, y) ==
    y.off_mem_rsvmap = x.off_mem_rsvmap /\ SameBelow(x, y, StructTop(x))

\* Reserve entries do not overlap.
LEMMA RsvGap ==
    ASSUME NEW n \in Nat, NEW i \in 1..n
    PROVE  /\ (i - 1) * RSVSIZE \in Nat /\ n * RSVSIZE \in Nat
           /\ (i - 1) * RSVSIZE + RSVSIZE <= n * RSVSIZE
  <1>1. PICK R \in Nat : R = RSVSIZE
    BY Sizes
  <1>2. n * R = (i - 1) * R + (n - i + 1) * R
    OBVIOUS
  <1>3. (n - i + 1) * R = R + (n - i) * R
    OBVIOUS
  <1>4. (n - i) * R \in Nat /\ (i - 1) * R \in Nat /\ n * R \in Nat
    OBVIOUS
  <1>5. (i - 1) * R + R <= n * R
    BY <1>2, <1>3, <1>4
  <1> QED BY <1>1, <1>4, <1>5

\* Where the parts of the blob lie below the top of the structure block.
LEMMA Below ==
    ASSUME NEW x, Sound(x), x.magic # "none", NEW l, NEW r, Agree(x, l, r)
    PROVE  /\ StructTop(x) \in Nat /\ HDRSIZE <= StructTop(x)
           /\ \A i \in 1..Len(r) : RsvAt(x, i) \in 0..(StructTop(x) - 1)
           /\ \A i \in 1..Len(l) : Inside(x, PosOf(l)[i], l[i], StructTop(x))
  <1>1. Header(x) /\ Room(x)
    BY DEF Sound
  <1>2. PICK o \in Nat, m \in Nat, s \in Nat :
          o = x.off_dt_struct /\ m = x.off_mem_rsvmap /\ s = x.size_dt_struct
    BY <1>1 DEF Header
  <1>3. StructTop(x) = o + s /\ HDRSIZE <= m /\ m <= o
    BY <1>1, <1>2 DEF Room, StructTop
  <1>4. HDRSIZE \in Nat /\ RSVSIZE \in Nat /\ RSVSIZE > 0
    BY Sizes
  <1>5. StructTop(x) \in Nat /\ HDRSIZE <= StructTop(x)
    BY <1>3, <1>4
  <1>6. l \in Seq(TokenSet) /\ r \in Seq(Nat) /\ Len(l) \in Nat /\ Len(r) \in Nat
    BY DEF Agree
  <1>7. ASSUME NEW i \in 1..Len(r) PROVE RsvAt(x, i) \in 0..(StructTop(x) - 1)
    <2>1. PICK q \in Nat, e \in Nat : q = (i - 1) * RSVSIZE /\ e = Len(r) * RSVSIZE /\ q + RSVSIZE <= e
      BY <1>6, RsvGap
    <2>2. o = m + e
      BY <1>2, <2>1 DEF Agree
    <2>3. m + q \in 0..(o + s - 1)
      BY <1>4, <2>1, <2>2
    <2> QED BY <1>2, <1>3, <2>1, <2>3 DEF RsvAt
  <1>8. ASSUME NEW i \in 1..Len(l)
        PROVE  Inside(x, PosOf(l)[i], l[i], StructTop(x))
    <2>1. PosOf(l)[i] \in Nat
      BY <1>6, Positions
    <2>2. PICK p \in Nat : p = PosOf(l)[i]
      BY <2>1
    <2>3. PICK z \in Nat : z = TokenSize(l[i])
      BY <1>6, TokenSizes
    <2>4. p + z <= s
      <3>1. Len(l) + 1 \in (i + 1)..(Len(l) + 1)
        BY <1>6
      <3>2. PosOf(l)[i] + TokenSize(l[i]) <= PosOf(l)[Len(l) + 1]
        BY <1>6, <3>1, Positions
      <3> QED BY <1>2, <2>2, <2>3, <3>2 DEF Agree
    <2>5. o + p + z <= o + s
      BY <2>4
    <2>6. l[i] \in TokenSet
      BY <1>6
    <2> QED BY <1>2, <1>3, <2>1, <2>2, <2>3, <2>5, <2>6 DEF Inside
  <1> QED BY <1>5, <1>7, <1>8

\* A blob that holds the same cells holds the same tokens, names and entries.
LEMMA ContentKept ==
    ASSUME NEW x, Sound(x), x.magic # "none", NEW l, NEW r, Agree(x, l, r),
           NEW y, y.size_dt_strings \in Nat,
           NEW ox \in Int, NEW oy \in Int, NEW lx \in Int, NEW ly \in Int,
           SameStruct(x, y), SameStrings(x, y, ox, oy, lx, ly), Content(x, ox, lx, l, r)
    PROVE  Content(y, oy, ly, l, r)
  <1>1. Header(x) /\ Room(x)
    BY DEF Sound
  <1>2. x.off_dt_struct \in Nat /\ x.size_dt_strings \in Nat
    BY <1>1 DEF Header
  <1>3. PICK top \in Nat : top = StructTop(x) /\ HDRSIZE <= top
    BY Below
  <1>4. \A i \in 1..Len(r) : RsvAt(x, i) \in 0..(top - 1)
    BY <1>3, Below
  <1>5. \A i \in 1..Len(l) : Inside(x, PosOf(l)[i], l[i], top)
    BY <1>3, Below
  <1>6. y.off_mem_rsvmap = x.off_mem_rsvmap /\ SameBelow(x, y, top)
    BY <1>3 DEF SameStruct
  <1>7. HoldsIn(y, 0, [i \in 1..HDRSIZE |-> HDRMARK])
    <2>1. PICK h \in Nat : h = HDRSIZE
      BY Sizes
    <2> DEFINE s == [i \in 1..h |-> HDRMARK]
    <2>2. Len(s) = h
      OBVIOUS
    <2>3. HoldsIn(x, 0, s)
      BY <2>1 DEF Content
    <2> HIDE DEF s
    <2>4. ASSUME NEW i \in 1..h PROVE Cell(y, 0 + i - 1) = s[i]
      <3>1. 0 + i - 1 \in 0..(top - 1)
        BY <1>3, <2>1
      <3> QED BY <1>6, <2>2, <2>3, <3>1 DEF HoldsIn, SameBelow
    <2>5. HoldsIn(y, 0, s)
      BY <2>2, <2>4 DEF HoldsIn
    <2> QED BY <2>1, <2>5 DEF s
  <1>8. ASSUME NEW i \in 1..Len(r) PROVE Cell(y, RsvAt(y, i)) = r[i]
    <2>1. RsvAt(y, i) = RsvAt(x, i)
      BY <1>6 DEF RsvAt
    <2>2. Cell(y, RsvAt(x, i)) = Cell(x, RsvAt(x, i))
      BY <1>4, <1>6 DEF SameBelow
    <2> QED BY <2>1, <2>2 DEF Content
  <1>9. ASSUME NEW i \in 1..Len(l)
        PROVE  /\ TokenCells(y, PosOf(l)[i], l[i])
               /\ NameCells(y, oy, ly, PosOf(l)[i], l[i])
    <2>1. PICK p : p = PosOf(l)[i]
      OBVIOUS
    <2>2. PICK t \in TokenSet : t = l[i]
      BY DEF Agree
    <2>3. Inside(x, p, t, top)
      BY <1>5, <2>1, <2>2
    <2>4. TokenCells(x, p, t) /\ NameCells(x, ox, lx, p, t)
      BY <2>1, <2>2 DEF Content
    <2>5. TokenCells(y, p, t) /\ (t.tag = FDT_PROP => NameOff(y, p) = NameOff(x, p))
      BY <1>6, <2>3, <2>4, TokenKept
    <2>6. NameCells(y, oy, ly, p, t)
      BY <1>2, <2>4, <2>5, NameKept DEF SameStrings
    <2> QED BY <2>1, <2>2, <2>5, <2>6
  <1> QED BY <1>7, <1>8, <1>9 DEF Content

-----------------------------------------------------------------------------
(* The invariant, and the calls that add a token *)

\* The inductive invariant: what the header says, and what the cells hold.
Shape(x, l, r) ==
    /\ Memory(x) /\ x.magic \in {"none", FDT_SW_MAGIC, FDT_MAGIC}
    /\ x.magic = "none" => l = <<>> /\ r = <<>> /\ x.size_dt_struct = 0
    /\ x.magic # "none" => /\ x.version = FDT_LAST_SUPPORTED_VERSION
                           /\ x.totalsize < INT_MAX /\ Agree(x, l, r)
    /\ x.magic = FDT_SW_MAGIC => /\ x.off_dt_strings \in {0, x.totalsize}
                                 /\ l # <<>> => x.off_dt_strings = x.totalsize
                                 /\ \A i \in 1..Len(l) : l[i].tag # FDT_END
    /\ x.magic = FDT_MAGIC => /\ x.last_comp_version = FDT_LAST_COMPATIBLE_VERSION
                              /\ x.off_dt_strings + x.size_dt_strings = x.totalsize
Origin(x) == IF x.magic = FDT_MAGIC THEN x.off_dt_strings ELSE x.totalsize
Low(x) == IF x.magic = FDT_MAGIC THEN 0 ELSE -x.size_dt_strings
Intact(x, l, r) ==
    Shape(x, l, r) /\ (x.magic # "none" => Content(x, Origin(x), Low(x), l, r))

\* The fields a store in the structure block leaves alone, and those it sets.
SameHeader(x, y) ==
    /\ y.base = x.base /\ y.magic = x.magic /\ y.version = x.version
    /\ y.last_comp_version = x.last_comp_version /\ y.totalsize = x.totalsize
    /\ y.off_mem_rsvmap = x.off_mem_rsvmap /\ y.off_dt_struct = x.off_dt_struct
    /\ y.off_dt_strings = x.off_dt_strings

\* What fdt_sw_probe_struct_ tells about a blob.
LEMMA StructPhase ==
    ASSUME NEW x, Sound(x), fdt_sw_probe_struct_(x) = 0
    PROVE  /\ x.magic = FDT_SW_MAGIC /\ x.magic # "none" /\ x.magic # FDT_MAGIC
           /\ x.off_dt_strings = x.totalsize /\ x.off_dt_strings # 0
           /\ Origin(x) = x.totalsize /\ Low(x) = -x.size_dt_strings
  <1>1. x.magic = FDT_SW_MAGIC /\ x.off_dt_strings = x.totalsize
    BY DEF fdt_sw_probe_struct_, fdt_sw_probe_, BADSTATE, BADMAGIC
  <1>2. x.magic # "none" /\ x.magic # FDT_MAGIC
    BY <1>1 DEF FDT_SW_MAGIC, FDT_MAGIC
  <1>3. Header(x) /\ Room(x)
    BY DEF Sound
  <1>4. x.off_dt_strings # 0
    BY <1>1, <1>3, Sizes DEF Header, Room, StructTop, FDT_SW_MAGIC
  <1> QED BY <1>1, <1>2, <1>4 DEF Origin, Low

\* Space for len cells is free cells between the two blocks.
LEMMA SpaceFree ==
    ASSUME NEW x, Sound(x), fdt_sw_probe_struct_(x) = 0, NEW len \in Nat, HasSpace(x, len)
    PROVE  /\ StructTop(x) \in Nat
           /\ StructTop(x) + len <= x.totalsize - x.size_dt_strings
  <1>1. Header(x) /\ Room(x)
    BY DEF Sound
  <1>2. PICK o \in Nat, s \in Nat, n \in Nat, z \in Nat :
          /\ o = x.off_dt_struct /\ s = x.size_dt_struct
          /\ n = x.totalsize /\ z = x.size_dt_strings
    BY <1>1 DEF Header
  <1>3. StructTop(x) = o + s
    BY <1>2 DEF StructTop
  <1>4. x.base \in Nat /\ x.base + n <= Arena /\ o + s + z <= n
    BY <1>1, <1>2, <1>3 DEF Room, Header
  <1>5. SubU(n, o) = n - o
    BY <1>4 DEF SubU
  <1>6. SubU(SubU(n, o), z) = n - o - z
    BY <1>4, <1>5 DEF SubU
  <1>7. s + len <= n - o - z
    BY <1>2, <1>6 DEF HasSpace
  <1>8. o + s + len <= n - z
    BY <1>7
  <1> QED BY <1>2, <1>3, <1>8

\* What is kept when cells are stored above the structure block.
LEMMA GrabKeeps ==
    ASSUME NEW x, Sound(x), Memory(x), fdt_sw_probe_struct_(x) = 0,
           NEW len \in Nat, HasSpace(x, len), NEW c \in Seq(Int), Len(c) <= len,
           NEW y, y = Store(fdt_grab_space_(x, len), StructTop(x), c)
    PROVE  /\ Memory(y) /\ HoldsIn(y, StructTop(x), c)
           /\ SameHeader(x, y) /\ y.size_dt_strings = x.size_dt_strings
           /\ y.size_dt_struct = x.size_dt_struct + len
           /\ SameStruct(x, y)
           /\ SameStrings(x, y, Origin(x), Origin(y), Low(x), Low(y))
  <1>1. Header(x) /\ Room(x)
    BY DEF Sound
  <1>2. /\ SameHeader(x, y) /\ y.size_dt_strings = x.size_dt_strings
        /\ y.size_dt_struct = x.size_dt_struct + len
        /\ y.mem = memcpy(x.mem, x.base + StructTop(x), c)
    BY <1>1 DEF Header, Fields, Store, fdt_grab_space_, SameHeader
  <1>3. PICK base \in Nat, n \in Nat, z \in Nat :
          base = x.base /\ n = x.totalsize /\ z = x.size_dt_strings
    BY <1>1 DEF Header
  <1>4. PICK top \in Nat : top = StructTop(x) /\ top + len <= n - z
    BY <1>3, SpaceFree
  <1>5. PICK m \in Nat : m = Len(c) /\ m <= len
    OBVIOUS
  <1>6. base + n <= Arena
    BY <1>1, <1>3 DEF Room
  <1>7. top + m <= n
    BY <1>4, <1>5
  <1>8. y.base = base /\ y.mem = memcpy(x.mem, base + top, c)
    BY <1>2, <1>3, <1>4 DEF SameHeader
  <1>9. /\ Memory(y) /\ HoldsIn(y, top, c)
        /\ \A k \in 0..(top - 1) : Cell(y, k) = Cell(x, k)
        /\ \A k \in (top + m)..(n - 1) : Cell(y, k) = Cell(x, k)
    <2>1. StoredAt(x, y, n, top, c)
      BY <1>3, <1>5, <1>6, <1>7, <1>8 DEF StoredAt
    <2> QED BY <1>5, <2>1, StoreCells
  <1>10. SameStruct(x, y)
    BY <1>1, <1>2, <1>4, <1>9 DEF SameStruct, SameBelow, SameHeader, Header
  <1>11. Origin(x) = n /\ Origin(y) = n /\ Low(x) = -z /\ Low(y) = -z
    BY <1>2, <1>3, StructPhase DEF SameHeader, Origin, Low
  <1>12. ASSUME NEW k \in (-z)..(-z + z - 1) PROVE Cell(y, n + k) = Cell(x, n + k)
    <2>1. n + k \in (top + m)..(n - 1)
      BY <1>4, <1>5
    <2> QED BY <1>9, <2>1
  <1>13. SameStrings(x, y, n, n, -z, -z)
    BY <1>2, <1>3, <1>12 DEF SameStrings
  <1> QED BY <1>2, <1>4, <1>9, <1>10, <1>11, <1>13

\* A token added to the log at the end of the structure block.
LEMMA AppendContent ==
    ASSUME NEW x, Header(x), NEW l, NEW r, Agree(x, l, r), NEW t \in TokenSet,
           NEW y, y.off_dt_struct = x.off_dt_struct, y.off_mem_rsvmap = x.off_mem_rsvmap,
           y.size_dt_struct = x.size_dt_struct + TokenSize(t),
           NEW origin, NEW lo, Content(y, origin, lo, l, r),
           TokenCells(y, x.size_dt_struct, t), NameCells(y, origin, lo, x.size_dt_struct, t)
    PROVE  Content(y, origin, lo, Append(l, t), r) /\ Agree(y, Append(l, t), r)
  <1> DEFINE k == Append(l, t)
  <1>1. l \in Seq(TokenSet) /\ r \in Seq(Nat) /\ x.size_dt_struct = PosOf(l)[Len(l) + 1]
    BY DEF Agree
  <1>2. PICK n \in Nat : n = Len(l)
    BY <1>1
  <1>3. /\ \A i \in 1..(n + 1) : PosOf(k)[i] = PosOf(l)[i]
        /\ PosOf(k)[n + 2] = PosOf(l)[n + 1] + TokenSize(t)
    BY <1>1, <1>2, PosAppend
  <1>4. k \in Seq(TokenSet) /\ Len(k) = n + 1 /\ k[n + 1] = t
    BY <1>1, <1>2
  <1>5. \A i \in 1..n : k[i] = l[i]
    BY <1>1, <1>2
  <1> HIDE DEF k
  <1>6. ASSUME NEW i \in 1..(n + 1)
        PROVE  TokenCells(y, PosOf(k)[i], k[i]) /\ NameCells(y, origin, lo, PosOf(k)[i], k[i])
    <2>1. CASE i \in 1..n
      <3>1. PosOf(k)[i] = PosOf(l)[i] /\ k[i] = l[i]
        BY <1>3, <1>5, <2>1
      <3>2. TokenCells(y, PosOf(l)[i], l[i]) /\ NameCells(y, origin, lo, PosOf(l)[i], l[i])
        BY <1>2, <2>1 DEF Content
      <3> QED BY <3>1, <3>2
    <2>2. CASE i = n + 1
      <3>1. n + 1 \in 1..(n + 1)
        OBVIOUS
      <3>2. PosOf(k)[i] = x.size_dt_struct /\ k[i] = t
        BY <1>1, <1>2, <1>3, <1>4, <2>2, <3>1
      <3> QED BY <3>2
    <2>3. i \in 1..n \/ i = n + 1
      OBVIOUS
    <2> QED BY <2>1, <2>2, <2>3
  <1>7. Content(y, origin, lo, k, r)
    BY <1>4, <1>6 DEF Content
  <1>8. y.size_dt_struct = PosOf(k)[Len(k) + 1]
    <2>1. Len(k) + 1 = n + 2
      BY <1>4
    <2> QED BY <1>1, <1>2, <1>3, <2>1
  <1>9. Agree(y, k, r)
    BY <1>1, <1>4, <1>8 DEF Agree
  <1> QED BY <1>7, <1>9 DEF k

\* A new token: everything the blob held, and the token.
LEMMA GrabContent ==
    ASSUME NEW x, Sound(x), NEW l, NEW r, Intact(x, l, r), fdt_sw_probe_struct_(x) = 0,
           NEW t \in TokenSet, HasSpace(x, TokenSize(t)),
           NEW c \in Seq(Int), Len(c) <= TokenSize(t),
           NEW y, y = Store(fdt_grab_space_(x, TokenSize(t)), StructTop(x), c),
           TokenCells(y, x.size_dt_struct, t),
           NameCells(y, Origin(y), Low(y), x.size_dt_struct, t)
    PROVE  /\ Content(y, Origin(y), Low(y), Append(l, t), r) /\ Agree(y, Append(l, t), r)
           /\ Memory(y) /\ SameHeader(x, y) /\ y.size_dt_strings = x.size_dt_strings
           /\ y.size_dt_struct = x.size_dt_struct + TokenSize(t)
  <1>1. x.magic = FDT_SW_MAGIC /\ x.magic # "none"
    BY StructPhase
  <1>2. Memory(x) /\ Agree(x, l, r) /\ Content(x, Origin(x), Low(x), l, r)
    BY <1>1 DEF Intact, Shape
  <1>3. TokenSize(t) \in Nat
    BY TokenSizes
  <1>4. /\ Memory(y) /\ SameHeader(x, y) /\ y.size_dt_strings = x.size_dt_strings
        /\ y.size_dt_struct = x.size_dt_struct + TokenSize(t)
        /\ SameStruct(x, y) /\ SameStrings(x, y, Origin(x), Origin(y), Low(x), Low(y))
    <2>1. PICK len \in Nat : len = TokenSize(t)
      BY <1>3
    <2>2. HasSpace(x, len) /\ Len(c) <= len /\ y = Store(fdt_grab_space_(x, len), StructTop(x), c)
      BY <2>1
    <2>3. /\ Memory(y) /\ SameHeader(x, y) /\ y.size_dt_strings = x.size_dt_strings
          /\ y.size_dt_struct = x.size_dt_struct + len
          /\ SameStruct(x, y) /\ SameStrings(x, y, Origin(x), Origin(y), Low(x), Low(y))
      BY <1>2, <2>2, GrabKeeps
    <2> QED BY <2>1, <2>3
  <1>5. Header(x)
    BY DEF Sound
  <1>6. Origin(x) \in Int /\ Low(x) \in Int /\ Origin(y) \in Int /\ Low(y) \in Int
        /\ y.size_dt_strings \in Nat
    BY <1>4, <1>5 DEF SameHeader, Origin, Low, Header
  <1>7. Content(y, Origin(y), Low(y), l, r)
    BY <1>1, <1>2, <1>4, <1>6, ContentKept
  <1>8. y.off_dt_struct = x.off_dt_struct /\ y.off_mem_rsvmap = x.off_mem_rsvmap
    BY <1>4 DEF SameHeader
  <1>9. Content(y, Origin(y), Low(y), Append(l, t), r) /\ Agree(y, Append(l, t), r)
    BY <1>2, <1>4, <1>5, <1>7, <1>8, AppendContent
  <1> QED BY <1>4, <1>9

\* The invariant after a token other than FDT_END.
LEMMA GrabIntact ==
    ASSUME NEW x, Sound(x), NEW l, NEW r, Intact(x, l, r), fdt_sw_probe_struct_(x) = 0,
           NEW t \in TokenSet, t.tag # FDT_END, HasSpace(x, TokenSize(t)),
           NEW c \in Seq(Int), Len(c) <= TokenSize(t),
           NEW y, y = Store(fdt_grab_space_(x, TokenSize(t)), StructTop(x), c),
           TokenCells(y, x.size_dt_struct, t),
           NameCells(y, Origin(y), Low(y), x.size_dt_struct, t)
    PROVE  Intact(y, Append(l, t), r)
  <1>1. /\ Content(y, Origin(y), Low(y), Append(l, t), r) /\ Agree(y, Append(l, t), r)
        /\ Memory(y) /\ SameHeader(x, y) /\ y.size_dt_strings = x.size_dt_strings
    BY GrabContent
  <1>2. /\ x.magic = FDT_SW_MAGIC /\ x.magic # "none" /\ x.magic # FDT_MAGIC
        /\ x.off_dt_strings = x.totalsize
    BY StructPhase
  <1>3. /\ x.version = FDT_LAST_SUPPORTED_VERSION /\ x.totalsize < INT_MAX
        /\ \A i \in 1..Len(l) : l[i].tag # FDT_END /\ l \in Seq(TokenSet)
    BY <1>2 DEF Intact, Shape, Agree
  <1>4. \A i \in 1..Len(Append(l, t)) : Append(l, t)[i].tag # FDT_END
    <2>1. l \in Seq(TokenSet)
      BY <1>2 DEF Intact, Shape, Agree
    <2>2. ASSUME NEW i \in 1..(Len(l) + 1) PROVE Append(l, t)[i].tag # FDT_END
      <3>1. Append(l, t)[i] = IF i = Len(l) + 1 THEN t ELSE l[i]
        BY <2>1
      <3>2. i = Len(l) + 1 \/ i \in 1..Len(l)
        BY <2>1
      <3> QED BY <1>3, <3>1, <3>2
    <2>3. Len(Append(l, t)) = Len(l) + 1
      BY <2>1
    <2> QED BY <2>2, <2>3
  <1>5. /\ y.magic = FDT_SW_MAGIC /\ y.version = FDT_LAST_SUPPORTED_VERSION
        /\ y.totalsize < INT_MAX /\ y.off_dt_strings = y.totalsize
    BY <1>1, <1>2, <1>3 DEF SameHeader
  <1>6. Shape(y, Append(l, t), r)
    BY <1>1, <1>4, <1>5 DEF Shape, FDT_SW_MAGIC, FDT_MAGIC
  <1> QED BY <1>1, <1>6 DEF Intact

\* What a call leaves, with what it wrote if it succeeded.
Kept(res, l, t, r) == Intact(res.b, IF res.err = 0 THEN Append(l, t) ELSE l, r)

\* c is how the token t is written.
Writes(c, t) ==
    /\ c \in Seq(Int) /\ Len(c) <= TokenSize(t)
    /\ \A u, p : p \in Nat /\ u.off_dt_struct \in Nat
                 /\ HoldsIn(u, u.off_dt_struct + p, c) => TokenCells(u, p, t)

\* A token without a name in the strings block.
LEMMA PlainIntact ==
    ASSUME NEW x, Sound(x), NEW l, NEW r, Intact(x, l, r), fdt_sw_probe_struct_(x) = 0,
           NEW t \in TokenSet, t.tag # FDT_END, t.tag # FDT_PROP, HasSpace(x, TokenSize(t)),
           NEW c, Writes(c, t),
           NEW y, y = Store(fdt_grab_space_(x, TokenSize(t)), StructTop(x), c)
    PROVE  Intact(y, Append(l, t), r)
  <1>1. c \in Seq(Int) /\ Len(c) <= TokenSize(t) /\ TokenSize(t) \in Nat
    BY TokenSizes DEF Writes
  <1>2. Memory(x)
    BY DEF Intact, Shape
  <1>3. HoldsIn(y, StructTop(x), c) /\ SameHeader(x, y)
    BY <1>1, <1>2, GrabKeeps
  <1>4. TokenCells(y, x.size_dt_struct, t)
    <2>1. x.size_dt_struct \in Nat /\ x.off_dt_struct \in Nat
      BY DEF Sound, Header
    <2>2. y.off_dt_struct = x.off_dt_struct /\ StructTop(x) = y.off_dt_struct + x.size_dt_struct
      BY <1>3 DEF SameHeader, StructTop
    <2> QED BY <1>3, <2>1, <2>2 DEF Writes
  <1>5. NameCells(y, Origin(y), Low(y), x.size_dt_struct, t)
    BY DEF NameCells
  <1> QED BY <1>1, <1>4, <1>5, GrabIntact

\* fdt_begin_node: the node's token added, or nothing changed.
LEMMA BeginNodeIntact ==
    ASSUME NEW x, Sound(x), NEW l, NEW r, Intact(x, l, r), NEW name \in NodeNames
    PROVE  Kept(fdt_begin_node(x, name), l, Token(FDT_BEGIN_NODE, name, <<>>), r)
  <1> DEFINE t == Token(FDT_BEGIN_NODE, name, <<>>)
             c == WordCells(FDT_BEGIN_NODE) \o Append(name, NUL)
             y == Store(fdt_grab_space_(x, TokenSize(t)), StructTop(x), c)
             res == fdt_begin_node(x, name)
  <1>1. t \in TokenSet /\ t.tag = FDT_BEGIN_NODE /\ t.name = name
    <2>1. name \in Seq(Nat \ {0})
      BY WriterAssumption
    <2> QED BY <2>1 DEF TokenSet, Token
  <1>2. TokenSize(t) = TAGSIZE + FDT_TAGALIGN(Len(name) + 1)
    BY <1>1, TokenSizes
  <1>3. \/ res.b = x /\ res.err # 0
        \/ /\ fdt_sw_probe_struct_(x) = 0 /\ HasSpace(x, TokenSize(t))
           /\ res.b = y /\ res.err = 0
    BY <1>2 DEF fdt_begin_node, Fail, Done, NOSPACE
  <1>4. Writes(c, t)
    BY <1>1, NodeCells DEF Writes
  <1>5. t.tag # FDT_END /\ t.tag # FDT_PROP
    BY <1>1 DEF FDT_BEGIN_NODE, FDT_PROP, FDT_END
  <1> HIDE DEF t, c, res
  <1>6. CASE res.b = x /\ res.err # 0
    BY <1>6 DEF Kept, res, t
  <1>7. CASE fdt_sw_probe_struct_(x) = 0 /\ HasSpace(x, TokenSize(t)) /\ res.b = y /\ res.err = 0
    <2>1. Intact(y, Append(l, t), r)
      BY <1>1, <1>4, <1>5, <1>7, PlainIntact
    <2> QED BY <1>7, <2>1 DEF Kept, res, t
  <1> QED BY <1>3, <1>6, <1>7

\* fdt_end_node, likewise.
LEMMA EndNodeIntact ==
    ASSUME NEW x, Sound(x), NEW l, NEW r, Intact(x, l, r)
    PROVE  Kept(fdt_end_node(x), l, Token(FDT_END_NODE, <<>>, <<>>), r)
  <1> DEFINE t == Token(FDT_END_NODE, <<>>, <<>>)
             c == WordCells(FDT_END_NODE)
             y == Store(fdt_grab_space_(x, TokenSize(t)), StructTop(x), c)
             res == fdt_end_node(x)
  <1>1. t \in TokenSet /\ t.tag = FDT_END_NODE
    BY DEF TokenSet, Token
  <1>2. TokenSize(t) = TAGSIZE
    BY <1>1, TokenSizes
  <1>3. \/ res.b = x /\ res.err # 0
        \/ /\ fdt_sw_probe_struct_(x) = 0 /\ HasSpace(x, TokenSize(t))
           /\ res.b = y /\ res.err = 0
    BY <1>2 DEF fdt_end_node, Fail, Done, NOSPACE
  <1>4. Writes(c, t)
    BY <1>1, TagCells DEF Writes
  <1>5. t.tag # FDT_END /\ t.tag # FDT_PROP
    BY <1>1 DEF FDT_END_NODE, FDT_PROP, FDT_END
  <1> HIDE DEF t, c, res
  <1>6. CASE res.b = x /\ res.err # 0
    BY <1>6 DEF Kept, res, t
  <1>7. CASE fdt_sw_probe_struct_(x) = 0 /\ HasSpace(x, TokenSize(t)) /\ res.b = y /\ res.err = 0
    <2>1. Intact(y, Append(l, t), r)
      BY <1>1, <1>4, <1>5, <1>7, PlainIntact
    <2> QED BY <1>7, <2>1 DEF Kept, res, t
  <1> QED BY <1>3, <1>6, <1>7

-----------------------------------------------------------------------------
(* fdt_property: names added, found and taken back *)

\* y has x's header except for the size of the strings, and holds what x holds.
SameContent(x, y) ==
    /\ Memory(y) /\ SameHeader(x, y) /\ y.size_dt_struct = x.size_dt_struct
    /\ y.size_dt_strings \in Nat /\ SameStruct(x, y)
    /\ SameStrings(x, y, Origin(x), Origin(y), Low(x), Low(y))

\* The invariant holds of a blob with the same content.
LEMMA SameIntact ==
    ASSUME NEW x, Sound(x), fdt_sw_probe_struct_(x) = 0, NEW l, NEW r, Intact(x, l, r),
           NEW y, SameContent(x, y)
    PROVE  Intact(y, l, r)
  <1>1. /\ x.magic = FDT_SW_MAGIC /\ x.magic # "none" /\ x.magic # FDT_MAGIC
        /\ x.off_dt_strings = x.totalsize
    BY StructPhase
  <1>2. /\ Agree(x, l, r) /\ Content(x, Origin(x), Low(x), l, r)
        /\ x.version = FDT_LAST_SUPPORTED_VERSION /\ x.totalsize < INT_MAX
        /\ \A i \in 1..Len(l) : l[i].tag # FDT_END
    BY <1>1 DEF Intact, Shape
  <1>3. /\ Memory(y) /\ SameHeader(x, y) /\ y.size_dt_struct = x.size_dt_struct
        /\ y.size_dt_strings \in Nat /\ SameStruct(x, y)
        /\ SameStrings(x, y, Origin(x), Origin(y), Low(x), Low(y))
    BY DEF SameContent
  <1>4. Header(x)
    BY DEF Sound
  <1>5. Origin(x) \in Int /\ Low(x) \in Int /\ Origin(y) \in Int /\ Low(y) \in Int
    BY <1>3, <1>4 DEF SameHeader, Origin, Low, Header
  <1>6. Content(y, Origin(y), Low(y), l, r)
    BY <1>1, <1>2, <1>3, <1>5, ContentKept
  <1>7. Agree(y, l, r)
    BY <1>2, <1>3 DEF Agree, SameHeader
  <1>8. /\ y.magic = FDT_SW_MAGIC /\ y.version = FDT_LAST_SUPPORTED_VERSION
        /\ y.totalsize < INT_MAX /\ y.off_dt_strings = y.totalsize
    BY <1>1, <1>2, <1>3 DEF SameHeader
  <1>9. Shape(y, l, r)
    BY <1>2, <1>3, <1>7, <1>8 DEF Shape, FDT_SW_MAGIC, FDT_MAGIC
  <1> QED BY <1>6, <1>9 DEF Intact

\* The string s stands at the (negative) offset off from the end of the blob.
NamePlace(y, off, s) ==
    /\ off \in Int /\ -y.size_dt_strings <= off /\ off + Len(s) + 1 <= 0
    /\ HoldsIn(y, y.totalsize + off, Append(s, NUL))

\* fdt_add_string_ puts the string below the others and disturbs nothing; so
\* does fdt_del_last_string_ after it.
LEMMA AddStringKeeps ==
    ASSUME NEW x, Sound(x), Memory(x), fdt_sw_probe_struct_(x) = 0, NEW s \in PropNames,
           NEW y, y = fdt_add_string_(x, s).b, fdt_add_string_(x, s).off # 0
    PROVE  /\ SameContent(x, y) /\ NamePlace(y, fdt_add_string_(x, s).off, s)
           /\ SameContent(x, fdt_del_last_string_(y, s))
           /\ fdt_del_last_string_(y, s).size_dt_strings = x.size_dt_strings
  <1> DEFINE c == Append(s, NUL)
             z == fdt_del_last_string_(y, s)
  <1>1. Header(x) /\ Room(x)
    BY DEF Sound
  <1>2. s \in Seq(Nat \ {0}) /\ Len(s) + 1 <= SwHdrSize + RSVSIZE
    BY WriterAssumption
  <1>3. PICK len \in Nat : len = Len(s) + 1 /\ len > 0
    BY <1>2
  <1>4. c \in Seq(Int) /\ Len(c) = len
    <2>1. s \in Seq(Int)
      BY <1>2
    <2> QED BY <1>3, <2>1 DEF NUL
  <1>5. PICK base \in Nat, n \in Nat, o \in Nat, q \in Nat, w \in Nat :
          /\ base = x.base /\ n = x.totalsize /\ o = x.off_dt_struct
          /\ q = x.size_dt_struct /\ w = x.size_dt_strings
    BY <1>1 DEF Header
  <1>6. PICK top \in Nat : top = StructTop(x) /\ top = o + q
    BY <1>5 DEF StructTop
  <1>7. base + n <= Arena /\ top + w <= n
    BY <1>1, <1>5, <1>6 DEF Room
  <1>8. o >= SwHdrSize + RSVSIZE
    BY <1>5, StructPhase DEF Sound, Phase
  <1>9. PICK offset \in Nat : offset = w + len /\ offset = x.size_dt_strings + (Len(s) + 1)
    BY <1>3, <1>5
  <1>10. SubU(n, offset) = n - offset
    <2>1. len <= o
      BY <1>2, <1>3, <1>8, Sizes
    <2> QED BY <1>6, <1>7, <1>9, <2>1 DEF SubU
  <1>11. /\ ~(n - offset < top) /\ fdt_add_string_(x, s).off = -offset
         /\ y = [Store(x, n - offset, c) EXCEPT !.size_dt_strings = offset]
    BY <1>5, <1>6, <1>9, <1>10 DEF fdt_add_string_
  <1>12. PICK at \in Nat : at = n - offset /\ top <= at /\ at + len <= n - w
    BY <1>9, <1>11
  <1>13. /\ SameHeader(x, y) /\ y.size_dt_struct = x.size_dt_struct
         /\ y.size_dt_strings = offset /\ y.mem = memcpy(x.mem, base + at, c)
    BY <1>1, <1>5, <1>11, <1>12 DEF Header, Fields, Store, SameHeader
  <1>13a. DOMAIN y = Fields
    BY <1>1, <1>11 DEF Header, Fields, Store
  <1>14. /\ Memory(y) /\ HoldsIn(y, at, c)
         /\ \A k \in 0..(at - 1) : Cell(y, k) = Cell(x, k)
         /\ \A k \in (at + len)..(n - 1) : Cell(y, k) = Cell(x, k)
    <2>1. StoredAt(x, y, n, at, c)
      <3>1. at + len <= n
        BY <1>12
      <3> QED BY <1>4, <1>5, <1>7, <1>13, <3>1 DEF StoredAt, SameHeader
    <2> HIDE DEF c
    <2> QED BY <1>4, <2>1, StoreCells
  <1>15. SameStruct(x, y)
    <2>1. \A k \in 0..(top - 1) : Cell(y, k) = Cell(x, k)
      BY <1>12, <1>14
    <2> QED BY <1>5, <1>6, <1>13, <2>1 DEF SameStruct, SameBelow, SameHeader
  <1>16. Origin(x) = n /\ Low(x) = -w
    BY <1>5, StructPhase
  <1>17. \A k \in (-w)..(-w + w - 1) : Cell(y, n + k) = Cell(x, n + k)
    <2> SUFFICES ASSUME NEW k \in (-w)..(-w + w - 1) PROVE Cell(y, n + k) = Cell(x, n + k)
      OBVIOUS
    <2>1. n + k \in (at + len)..(n - 1)
      BY <1>12
    <2> QED BY <1>14, <2>1
  <1>18. SameContent(x, y)
    <2>1. Origin(y) = n /\ Low(y) = -offset
      BY <1>5, <1>13, StructPhase DEF SameHeader, Origin, Low
    <2>2. -offset <= -w /\ -w + w <= -offset + offset
      BY <1>9
    <2>3. SameStrings(x, y, n, n, -w, -offset)
      BY <1>5, <1>13, <1>17, <2>2 DEF SameStrings
    <2> QED BY <1>13, <1>14, <1>15, <1>16, <2>1, <2>3 DEF SameContent
  <1>19. NamePlace(y, -offset, s)
    <2>1. -offset \in Int /\ -offset + (Len(s) + 1) <= 0 /\ -offset <= -offset
      BY <1>3, <1>9
    <2>2. y.totalsize + (-offset) = at
      BY <1>5, <1>12, <1>13 DEF SameHeader
    <2>3. -offset + (Len(s) + 1) = -offset + Len(s) + 1
      BY <1>2, <1>9
    <2> QED BY <1>13, <1>14, <2>1, <2>2, <2>3 DEF NamePlace
  <1>20. SameContent(x, z) /\ z.size_dt_strings = x.size_dt_strings
    <2>1. /\ z.mem = y.mem /\ SameHeader(x, z) /\ z.size_dt_struct = x.size_dt_struct
          /\ z.size_dt_strings = offset - (Len(s) + 1)
      BY <1>13, <1>13a DEF fdt_del_last_string_, SameHeader, Fields
    <2>2. z.size_dt_strings = w
      BY <1>3, <1>9, <2>1
    <2>3. z.base = y.base
      BY <1>13, <2>1 DEF SameHeader
    <2> HIDE DEF z
    <2>4. \A k : Cell(z, k) = Cell(y, k)
      BY <2>1, <2>3 DEF Cell
    <2>5. Memory(z)
      BY <1>14, <2>1 DEF Memory
    <2>6. SameStruct(x, z)
      BY <1>15, <1>13, <2>1, <2>4 DEF SameStruct, SameBelow, SameHeader
    <2>7. Origin(z) = n /\ Low(z) = -w
      BY <1>5, <2>1, <2>2, StructPhase DEF SameHeader, Origin, Low
    <2>8. SameStrings(x, z, n, n, -w, -w)
      BY <1>5, <1>17, <2>2, <2>4 DEF SameStrings
    <2> QED BY <1>5, <1>16, <2>1, <2>2, <2>5, <2>6, <2>7, <2>8 DEF SameContent
  <1> QED BY <1>11, <1>18, <1>19, <1>20

\* fdt_find_string_ returns a place of the strings block where the string is.
LEMMA FindString ==
    ASSUME NEW x, Header(x), NEW s \in PropNames,
           fdt_find_string_(x, x.totalsize - x.size_dt_strings, x.size_dt_strings, s) >= 0
    PROVE  NamePlace(x, fdt_find_string_(x, x.totalsize - x.size_dt_strings,
                                         x.size_dt_strings, s) - x.size_dt_strings, s)
  <1> DEFINE z == Append(s, NUL)
  <1>1. PICK n \in Nat, w \in Nat : n = x.totalsize /\ w = x.size_dt_strings
    BY DEF Header
  <1>2. s \in Seq(Nat \ {0})
    BY WriterAssumption
  <1>3. PICK len \in Nat : len = Len(s)
    BY <1>2
  <1>4. Len(z) = len + 1
    BY <1>2, <1>3 DEF NUL
  <1> HIDE DEF z
  <1> DEFINE P == {p \in 0..(w - Len(z)) :
                     \A i \in 1..Len(z) : Cell(x, (n - w) + p + i - 1) = z[i]}
             f == fdt_find_string_(x, n - w, w, s)
  <1>5. f = IF P = {} THEN -1 ELSE CHOOSE p \in P : \A q \in P : p <= q
    BY DEF fdt_find_string_, z
  <1>6. f >= 0
    BY <1>1
  <1> HIDE DEF f
  <1>7. P # {}
    BY <1>5, <1>6
  <1>8. P \in SUBSET Nat
    BY <1>4
  <1> HIDE DEF P
  <1>9. \E p \in P : \A q \in P : p <= q
    BY <1>7, <1>8, LeastNat
  <1>10. f \in P
    BY <1>5, <1>7, <1>9
  <1>11. /\ f \in 0..(w - (len + 1))
         /\ \A i \in 1..(len + 1) : Cell(x, (n - w) + f + i - 1) = z[i]
    BY <1>4, <1>10 DEF P
  <1>12. PICK p \in Nat : p = f /\ p + len + 1 <= w
    BY <1>11
  <1>13. p - w \in Int /\ -w <= p - w /\ (p - w) + len + 1 <= 0
    BY <1>12
  <1>14. \A i \in 1..(len + 1) : Cell(x, n + (p - w) + i - 1) = z[i]
    <2> SUFFICES ASSUME NEW i \in 1..(len + 1) PROVE Cell(x, n + (p - w) + i - 1) = z[i]
      OBVIOUS
    <2>1. n + (p - w) + i - 1 = (n - w) + p + i - 1
      OBVIOUS
    <2> QED BY <1>11, <1>12, <2>1
  <1>15. HoldsIn(x, n + (p - w), z)
    BY <1>4, <1>14 DEF HoldsIn
  <1>16. NamePlace(x, p - w, s)
    BY <1>1, <1>3, <1>13, <1>15 DEF NamePlace, z
  <1> QED BY <1>1, <1>12, <1>16 DEF f

\* A name in place stays in place when the strings stay.
LEMMA PlaceKept ==
    ASSUME NEW x, Header(x), NEW y, NEW off, NEW s \in PropNames, NamePlace(x, off, s),
           y.totalsize = x.totalsize, y.size_dt_strings = x.size_dt_strings,
           SameStrings(x, y, x.totalsize, x.totalsize, -x.size_dt_strings, -x.size_dt_strings)
    PROVE  NamePlace(y, off, s)
  <1> DEFINE z == Append(s, NUL)
  <1>1. PICK n \in Nat, w \in Nat : n = x.totalsize /\ w = x.size_dt_strings
    BY DEF Header
  <1>2. s \in Seq(Nat \ {0})
    BY WriterAssumption
  <1>3. PICK len \in Nat : len = Len(s)
    BY <1>2
  <1>4. Len(z) = len + 1
    BY <1>2, <1>3 DEF NUL
  <1> HIDE DEF z
  <1>5. PICK o \in Int : o = off
    BY DEF NamePlace
  <1>6. -w <= o /\ o + len + 1 <= 0 /\ HoldsIn(x, n + o, z)
    BY <1>1, <1>3, <1>5 DEF NamePlace, z
  <1>7. \A k \in (-w)..(-w + w - 1) : Cell(y, n + k) = Cell(x, n + k)
    BY <1>1 DEF SameStrings
  <1>8. ASSUME NEW i \in 1..(len + 1) PROVE Cell(y, n + o + i - 1) = z[i]
    <2>1. o + i - 1 \in (-w)..(-w + w - 1) /\ n + (o + i - 1) = n + o + i - 1
      BY <1>6
    <2>2. Cell(y, n + o + i - 1) = Cell(x, n + o + i - 1)
      BY <1>7, <2>1
    <2> QED BY <1>4, <1>6, <2>2 DEF HoldsIn
  <1>9. HoldsIn(y, n + o, z)
    BY <1>4, <1>8 DEF HoldsIn
  <1> QED BY <1>1, <1>3, <1>5, <1>6, <1>9 DEF NamePlace, z

\* The string's offset as fdt_property gets it, with the blob it is in.
NameOf(x, name) ==
    IF sw_flags(x) = FDT_CREATE_FLAG_NO_NAME_DEDUP
    THEN [b |-> fdt_add_string_(x, name).b, off |-> fdt_add_string_(x, name).off,
          allocated |-> TRUE]
    ELSE fdt_find_add_string_(x, name)
Undone(s, name) == IF s.allocated THEN fdt_del_last_string_(s.b, name) ELSE s.b

\* The name of a property is found or added, and can be taken back.
LEMMA NameKeeps ==
    ASSUME NEW x, Sound(x), Memory(x), fdt_sw_probe_struct_(x) = 0, NEW name \in PropNames,
           NEW s, s = NameOf(x, name), s.off # 0
    PROVE  /\ s.b = x \/ SameContent(x, s.b)
           /\ NamePlace(s.b, s.off, name)
           /\ Sound(s.b) /\ fdt_sw_probe_struct_(s.b) = 0
           /\ \/ Undone(s, name) = x
              \/ /\ SameContent(x, Undone(s, name))
                 /\ Undone(s, name).size_dt_strings = x.size_dt_strings
  <1> DEFINE add == fdt_add_string_(x, name)
             p == fdt_find_string_(x, x.totalsize - x.size_dt_strings, x.size_dt_strings, name)
  <1>1. \/ /\ s.b = x /\ s.off = p - x.size_dt_strings /\ s.allocated = FALSE /\ p >= 0
        \/ /\ s.b = add.b /\ s.off = add.off /\ s.allocated = TRUE
    BY DEF NameOf, fdt_find_add_string_
  <1>2. Header(x)
    BY DEF Sound
  <1> HIDE DEF add, p
  <1>3. CASE s.b = x /\ s.off = p - x.size_dt_strings /\ s.allocated = FALSE /\ p >= 0
    <2>1. NamePlace(x, p - x.size_dt_strings, name)
      BY <1>2, <1>3, FindString DEF p
    <2> QED BY <1>3, <2>1 DEF Undone
  <1>4. CASE s.b = add.b /\ s.off = add.off /\ s.allocated = TRUE
    <2>1. add.off # 0
      BY <1>4
    <2>2. /\ SameContent(x, add.b) /\ NamePlace(add.b, add.off, name)
          /\ SameContent(x, fdt_del_last_string_(add.b, name))
          /\ fdt_del_last_string_(add.b, name).size_dt_strings = x.size_dt_strings
      BY <2>1, AddStringKeeps DEF add
    <2>3. Sound(add.b) /\ fdt_sw_probe_struct_(add.b) = 0
      BY AddStringSound DEF add
    <2> QED BY <1>4, <2>2, <2>3 DEF Undone
  <1> QED BY <1>1, <1>3, <1>4

\* fdt_property after its probe.
LEMMA PropertyCases ==
    ASSUME NEW x, NEW name, NEW val
    PROVE  LET s == NameOf(x, name)
               len == PropHdr + FDT_TAGALIGN(Len(val))
               res == fdt_property(x, name, val)
           IN  \/ res.b = x /\ res.err # 0
               \/ /\ fdt_sw_probe_struct_(x) = 0 /\ s.off # 0
                  /\ res.b = Undone(s, name) /\ res.err # 0
               \/ /\ fdt_sw_probe_struct_(x) = 0 /\ s.off # 0 /\ HasSpace(s.b, len)
                  /\ res.b = Store(fdt_grab_space_(s.b, len), StructTop(s.b),
                                   WordCells(FDT_PROP) \o WordCells(Len(val))
                                   \o WordCells(s.off) \o val)
                  /\ res.err = 0
  <1> DEFINE s == NameOf(x, name)
             len == PropHdr + FDT_TAGALIGN(Len(val))
             c == WordCells(FDT_PROP) \o WordCells(Len(val)) \o WordCells(s.off) \o val
             y == Store(fdt_grab_space_(s.b, len), StructTop(s.b), c)
             res == fdt_property(x, name, val)
  <1>1. res = IF fdt_sw_probe_struct_(x) # 0 THEN [b |-> x, err |-> fdt_sw_probe_struct_(x)]
              ELSE IF s.off = 0 THEN Fail(x, NOSPACE)
              ELSE IF ~HasSpace(s.b, len) THEN Fail(Undone(s, name), NOSPACE)
              ELSE Done(y)
    BY DEF fdt_property, NameOf, Undone
  <1> HIDE DEF s, len, y, res
  <1>2. \/ res.b = x /\ res.err # 0
        \/ /\ fdt_sw_probe_struct_(x) = 0 /\ s.off # 0
           /\ res.b = Undone(s, name) /\ res.err # 0
        \/ /\ fdt_sw_probe_struct_(x) = 0 /\ s.off # 0 /\ HasSpace(s.b, len)
           /\ res.b = y /\ res.err = 0
    BY <1>1 DEF Fail, Done, NOSPACE
  <1> QED BY <1>2, Zenon DEF s, len, y, res

\* fdt_property: the property added, or its name taken back.
LEMMA PropertyIntact ==
    ASSUME NEW x, Sound(x), NEW l, NEW r, Intact(x, l, r),
           NEW name \in PropNames, NEW val \in Values
    PROVE  Kept(fdt_property(x, name, val), l, Token(FDT_PROP, name, val), r)
  <1> DEFINE t == Token(FDT_PROP, name, val)
             s == NameOf(x, name)
             c == WordCells(FDT_PROP) \o WordCells(Len(val)) \o WordCells(s.off) \o val
             res == fdt_property(x, name, val)
  <1>1. t \in TokenSet /\ t.tag = FDT_PROP /\ t.name = name /\ t.val = val
    <2>1. name \in Seq(Nat \ {0}) /\ val \in Seq(Nat)
      BY WriterAssumption
    <2> QED BY <2>1 DEF TokenSet, Token
  <1>2. TokenSize(t) = PropHdr + FDT_TAGALIGN(Len(val))
    BY <1>1, TokenSizes DEF PropHdr
  <1>3. Memory(x)
    BY DEF Intact, Shape
  <1>4. \/ res.b = x /\ res.err # 0
        \/ /\ fdt_sw_probe_struct_(x) = 0 /\ s.off # 0
           /\ res.b = Undone(s, name) /\ res.err # 0
        \/ /\ fdt_sw_probe_struct_(x) = 0 /\ s.off # 0 /\ HasSpace(s.b, TokenSize(t))
           /\ res.b = Store(fdt_grab_space_(s.b, TokenSize(t)), StructTop(s.b), c)
           /\ res.err = 0
    BY <1>2, PropertyCases
  <1>5. s = NameOf(x, name) /\ c = WordCells(FDT_PROP) \o WordCells(Len(t.val)) \o WordCells(s.off) \o t.val
    BY <1>1
  <1> HIDE DEF t, s, c, res
  <1>6. CASE res.b = x /\ res.err # 0
    BY <1>6 DEF Kept, res, t
  <1>7. CASE fdt_sw_probe_struct_(x) = 0 /\ s.off # 0 /\ res.b = Undone(s, name) /\ res.err # 0
    <2>1. Undone(s, name) = x \/ SameContent(x, Undone(s, name))
      BY <1>3, <1>5, <1>7, NameKeeps
    <2>2. Intact(Undone(s, name), l, r)
      BY <1>7, <2>1, SameIntact
    <2> QED BY <1>7, <2>2 DEF Kept, res, t
  <1>8. CASE /\ fdt_sw_probe_struct_(x) = 0 /\ s.off # 0 /\ HasSpace(s.b, TokenSize(t))
             /\ res.b = Store(fdt_grab_space_(s.b, TokenSize(t)), StructTop(s.b), c)
             /\ res.err = 0
    <2>1. PICK u : u = s.b
      OBVIOUS
    <2>2. /\ u = x \/ SameContent(x, u)
          /\ NamePlace(u, s.off, name) /\ Sound(u) /\ fdt_sw_probe_struct_(u) = 0
      BY <1>3, <1>5, <1>8, <2>1, NameKeeps
    <2>3. Intact(u, l, r)
      BY <1>8, <2>2, SameIntact
    <2>4. Memory(u) /\ Header(u) /\ s.off \in Int
      BY <2>2, <2>3 DEF Intact, Shape, Sound, NamePlace
    <2>5. PICK y : y = Store(fdt_grab_space_(u, TokenSize(t)), StructTop(u), c)
      OBVIOUS
    <2>6. /\ c \in Seq(Int) /\ Len(c) <= TokenSize(t)
          /\ \A v, p : p \in Nat /\ v.off_dt_struct \in Nat /\ HoldsIn(v, v.off_dt_struct + p, c)
                 => TokenCells(v, p, t) /\ NameOff(v, p) = s.off
      <3>1. WritesProp(PropCells(t, s.off), t, s.off)
        BY <1>1, <2>4, PropertyCells
      <3>2. WritesProp(c, t, s.off)
        BY <1>5, <3>1, Zenon DEF PropCells
      <3> QED BY <3>2, Zenon DEF WritesProp
    <2>7. /\ HoldsIn(y, StructTop(u), c) /\ SameHeader(u, y)
          /\ y.size_dt_strings = u.size_dt_strings
          /\ SameStrings(u, y, Origin(u), Origin(y), Low(u), Low(y))
      <3>1. PICK len \in Nat : len = TokenSize(t)
        BY <1>1, TokenSizes
      <3>2. /\ HasSpace(u, len) /\ Len(c) <= len
            /\ y = Store(fdt_grab_space_(u, len), StructTop(u), c)
        BY <1>8, <2>1, <2>5, <2>6, <3>1
      <3> QED BY <2>2, <2>4, <2>6, <3>2, GrabKeeps
    <2>8. /\ Origin(u) = u.totalsize /\ Low(u) = -u.size_dt_strings
          /\ Origin(y) = u.totalsize /\ Low(y) = -u.size_dt_strings
      BY <2>2, <2>7, StructPhase DEF SameHeader, Origin, Low
    <2>9. TokenCells(y, u.size_dt_struct, t) /\ NameOff(y, u.size_dt_struct) = s.off
      <3>1. u.size_dt_struct \in Nat /\ u.off_dt_struct \in Nat
        BY <2>4 DEF Header
      <3>2. y.off_dt_struct = u.off_dt_struct /\ StructTop(u) = y.off_dt_struct + u.size_dt_struct
        BY <2>7 DEF SameHeader, StructTop
      <3>3. y.off_dt_struct \in Nat /\ HoldsIn(y, y.off_dt_struct + u.size_dt_struct, c)
        BY <2>7, <3>1, <3>2
      <3> QED BY <2>6, <3>1, <3>3
    <2>10. NamePlace(y, s.off, name)
      <3>1. SameStrings(u, y, u.totalsize, u.totalsize, -u.size_dt_strings, -u.size_dt_strings)
        BY <2>7, <2>8
      <3> QED BY <2>2, <2>4, <2>7, <3>1, PlaceKept DEF SameHeader
    <2>11. NameCells(y, Origin(y), Low(y), u.size_dt_struct, t)
      <3>1. PICK w \in Nat : w = u.size_dt_strings
        BY <2>4 DEF Header
      <3>2. -w + w = 0 /\ y.totalsize = u.totalsize
        BY <2>7 DEF SameHeader
      <3>3. /\ s.off \in Int /\ -w <= s.off /\ s.off + Len(name) + 1 <= 0
            /\ HoldsIn(y, u.totalsize + s.off, Append(name, NUL))
        BY <2>7, <2>10, <3>1, <3>2 DEF NamePlace
      <3>4. s.off + Len(name) + 1 <= Low(y) + y.size_dt_strings
        BY <2>7, <2>8, <3>1, <3>2, <3>3
      <3> QED BY <1>1, <2>7, <2>8, <2>9, <3>1, <3>3, <3>4 DEF NameCells
    <2>12. t.tag # FDT_END
      BY <1>1 DEF FDT_PROP, FDT_END
    <2>13. HasSpace(u, TokenSize(t))
      BY <1>8, <2>1
    <2>14. Intact(y, Append(l, t), r)
      BY <1>1, <2>2, <2>3, <2>5, <2>6, <2>9, <2>11, <2>12, <2>13, GrabIntact
    <2> QED BY <1>8, <2>1, <2>5, <2>14 DEF Kept, res, t
  <1> QED BY <1>4, <1>6, <1>7, <1>8

-----------------------------------------------------------------------------
(* fdt_resize *)

\* memmove as it appears in memory: n cells from src arrive at dst.
Moved(new, mem, dst, src, n) ==
    /\ new \in [0..(Arena - 1) -> Int]
    /\ \A k \in 0..(n - 1) : new[dst + k] = mem[src + k]
    /\ \A a \in 0..(Arena - 1) : a < dst \/ a >= dst + n => new[a] = mem[a]
\* memmove, in the arena; source and target may overlap.
LEMMA MoveCells ==
    ASSUME NEW mem \in [0..(Arena - 1) -> Int], NEW dst \in Nat, NEW src \in Nat, NEW n \in Nat,
           dst + n <= Arena, src + n <= Arena
    PROVE  Moved(memmove(mem, dst, src, n), mem, dst, src, n)
  <1> DEFINE new == memmove(mem, dst, src, n)
  <1>1. Arena \in Nat
    BY Sizes
  <1>2. new = [a \in 0..(Arena - 1) |-> IF a \in dst..(dst + n - 1) THEN mem[src + (a - dst)] ELSE mem[a]]
    BY DEF memmove
  <1> HIDE DEF new
  <1>3. \A a \in 0..(Arena - 1) : a \in dst..(dst + n - 1) => src + (a - dst) \in 0..(Arena - 1)
    BY <1>1
  <1>4. new \in [0..(Arena - 1) -> Int]
    BY <1>2, <1>3
  <1>5. ASSUME NEW k \in 0..(n - 1) PROVE new[dst + k] = mem[src + k]
    <2>1. /\ dst + k \in 0..(Arena - 1) /\ dst + k \in dst..(dst + n - 1)
          /\ src + ((dst + k) - dst) = src + k
      BY <1>1
    <2> QED BY <1>2, <2>1
  <1>6. ASSUME NEW a \in 0..(Arena - 1), a < dst \/ a >= dst + n PROVE new[a] = mem[a]
    <2>1. a \notin dst..(dst + n - 1)
      BY <1>1, <1>6
    <2> QED BY <1>2, <2>1
  <1> QED BY <1>4, <1>5, <1>6 DEF new, Moved

\* Two moves, of which the second one's source is above the first one's
\* target or below it, and whose targets do not meet.
Apart(p, n, q, m) == p + n <= q \/ q + m <= p
Fits(d, s, n) == d + n <= Arena /\ s + n <= Arena
Arrived(new, mem, d, s, n) == \A k \in 0..(n - 1) : new[d + k] = mem[s + k]
\* Both moves arrive.
LEMMA TwoMoves ==
    ASSUME NEW mem \in [0..(Arena - 1) -> Int],
           NEW d1 \in Nat, NEW s1 \in Nat, NEW n1 \in Nat, Fits(d1, s1, n1),
           NEW d2 \in Nat, NEW s2 \in Nat, NEW n2 \in Nat, Fits(d2, s2, n2),
           Apart(d1, n1, s2, n2), Apart(d1, n1, d2, n2),
           NEW new, new = memmove(memmove(mem, d1, s1, n1), d2, s2, n2)
    PROVE  /\ new \in [0..(Arena - 1) -> Int]
           /\ Arrived(new, mem, d1, s1, n1) /\ Arrived(new, mem, d2, s2, n2)
  <1>1. PICK mid : mid = memmove(mem, d1, s1, n1)
    OBVIOUS
  <1>2. Moved(mid, mem, d1, s1, n1)
    BY <1>1, MoveCells DEF Fits
  <1>3. mid \in [0..(Arena - 1) -> Int]
    BY <1>2 DEF Moved
  <1>4. Moved(new, mid, d2, s2, n2)
    BY <1>1, <1>3, MoveCells DEF Fits
  <1>5. PICK A \in Nat : A = Arena
    BY Sizes
  <1>6. ASSUME NEW k \in 0..(n1 - 1) PROVE new[d1 + k] = mem[s1 + k]
    <2>1. d1 + k \in 0..(Arena - 1) /\ (d1 + k < d2 \/ d1 + k >= d2 + n2)
      BY <1>5 DEF Apart, Fits
    <2>2. new[d1 + k] = mid[d1 + k]
      BY <1>4, <2>1 DEF Moved
    <2> QED BY <1>2, <2>2 DEF Moved
  <1>7. ASSUME NEW k \in 0..(n2 - 1) PROVE new[d2 + k] = mem[s2 + k]
    <2>1. s2 + k \in 0..(Arena - 1) /\ (s2 + k < d1 \/ s2 + k >= d1 + n1)
      BY <1>5 DEF Apart, Fits
    <2>2. mid[s2 + k] = mem[s2 + k]
      BY <1>2, <2>1 DEF Moved
    <2> QED BY <1>4, <2>2 DEF Moved
  <1> QED BY <1>4, <1>6, <1>7 DEF Moved, Arrived

\* The second source is out of the first target's way (the order of the moves).
MoveFits(base, n, buf, size, head, tail, old, nu) ==
    /\ base + n <= Arena /\ buf + size <= Arena /\ head + tail <= n /\ head + tail <= size
    /\ old = base + n - tail /\ nu = buf + size - tail
\* Head and tail fit in both buffers, and never get in each other's way in the
\* order that MoveBoth takes.
LEMMA MoveRoom ==
    ASSUME NEW base \in Nat, NEW n \in Nat, NEW buf \in Nat, NEW size \in Nat,
           NEW head \in Nat, NEW tail \in Nat, NEW old \in Nat, NEW nu \in Nat,
           MoveFits(base, n, buf, size, head, tail, old, nu)
    PROVE  /\ Fits(buf, base, head) /\ Fits(nu, old, tail)
           /\ buf <= base => Apart(buf, head, old, tail) /\ Apart(buf, head, nu, tail)
           /\ ~(buf <= base) => Apart(nu, tail, base, head) /\ Apart(nu, tail, buf, head)
  <1>1. PICK A \in Nat : A = Arena
    BY Sizes
  <1>2. Fits(buf, base, head) /\ Fits(nu, old, tail)
    BY <1>1 DEF Fits, MoveFits
  <1>3. buf <= base => Apart(buf, head, old, tail) /\ Apart(buf, head, nu, tail)
    BY DEF Apart, MoveFits
  <1>4. ~(buf <= base) => Apart(nu, tail, base, head) /\ Apart(nu, tail, buf, head)
    BY DEF Apart, MoveFits
  <1> QED BY <1>2, <1>3, <1>4

\* The order MoveBoth takes keeps the second source intact.
LEMMA MoveBothCells ==
    ASSUME NEW x, Memory(x), NEW base \in Nat, NEW n \in Nat, base = x.base, n = x.totalsize,
           NEW buf \in Nat, NEW size \in Nat, NEW head \in Nat, NEW tail \in Nat,
           base + n <= Arena, buf + size <= Arena, head + tail <= n, head + tail <= size,
           NEW new, new = MoveBoth(x, buf, size, head, tail)
    PROVE  /\ new \in [0..(Arena - 1) -> Int]
           /\ Arrived(new, x.mem, buf, base, head)
           /\ Arrived(new, x.mem, buf + size - tail, base + n - tail, tail)
  <1>1. PICK mem \in [0..(Arena - 1) -> Int] : mem = x.mem
    BY DEF Memory
  <1>2. PICK old \in Nat, nu \in Nat : old = base + n - tail /\ nu = buf + size - tail
    OBVIOUS
  <1>4. /\ Fits(buf, base, head) /\ Fits(nu, old, tail)
        /\ buf <= base => Apart(buf, head, old, tail) /\ Apart(buf, head, nu, tail)
        /\ ~(buf <= base) => Apart(nu, tail, base, head) /\ Apart(nu, tail, buf, head)
    <2>1. MoveFits(base, n, buf, size, head, tail, old, nu)
      BY <1>2, Zenon DEF MoveFits
    <2> QED BY <2>1, MoveRoom
  <1>5. new = IF buf <= base
              THEN memmove(memmove(mem, buf, base, head), nu, old, tail)
              ELSE memmove(memmove(mem, nu, old, tail), buf, base, head)
    <2>1. new = IF buf <= x.base
                THEN memmove(memmove(x.mem, buf, x.base, head), buf + size - tail,
                             x.base + x.totalsize - tail, tail)
                ELSE memmove(memmove(x.mem, buf + size - tail,
                                     x.base + x.totalsize - tail, tail), buf, x.base, head)
      BY Zenon DEF MoveBoth
    <2> QED BY <1>1, <1>2, <2>1, Zenon
  <1>6. new \in [0..(Arena - 1) -> Int] /\ Arrived(new, mem, buf, base, head)
        /\ Arrived(new, mem, nu, old, tail)
    <2>1. CASE buf <= base
      <3>1. Apart(buf, head, old, tail) /\ Apart(buf, head, nu, tail)
        BY <1>4, <2>1
      <3>2. new = memmove(memmove(mem, buf, base, head), nu, old, tail)
        BY <1>5, <2>1
      <3> QED BY <1>4, <3>1, <3>2, TwoMoves
    <2>2. CASE ~(buf <= base)
      <3>1. Apart(nu, tail, base, head) /\ Apart(nu, tail, buf, head)
        BY <1>4, <2>2
      <3>2. new = memmove(memmove(mem, nu, old, tail), buf, base, head)
        BY <1>5, <2>2
      <3> QED BY <1>4, <3>1, <3>2, TwoMoves
    <2> QED BY <2>1, <2>2
  <1> QED BY <1>1, <1>2, <1>6, Zenon

\* fdt_resize: head and tail arrive in the new buffer as they were.
LEMMA ResizeIntact ==
    ASSUME NEW x, Sound(x), NEW l, NEW r, Intact(x, l, r), NEW buf \in Buffers
    PROVE  Intact(fdt_resize(x, buf.base, buf.size).b, l, r)
  <1> DEFINE res == fdt_resize(x, buf.base, buf.size)
             y == res.b
  <1>1. Header(x) /\ Room(x)
    BY DEF Sound
  <1>2. PICK to \in Nat, size \in Nat : /\ to = buf.base /\ size = buf.size
                                        /\ to + size <= Arena /\ size < INT_MAX
    BY WriterAssumption
  <1>3. CASE res.err # 0
    <2>1. y = x
      BY <1>3 DEF fdt_resize, Fail, Done
    <2> QED BY <2>1
  <1>4. CASE res.err = 0
    <2>1. /\ fdt_sw_probe_(x) = 0
          /\ ~(StructTop(x) + x.size_dt_strings > size)
          /\ y = [x EXCEPT !.mem = MoveBoth(x, to, size, StructTop(x), x.size_dt_strings),
                           !.base = to, !.totalsize = size,
                           !.off_dt_strings = IF @ # 0 THEN size ELSE 0]
      BY <1>2, <1>4 DEF fdt_resize, Fail, Done, INTERNAL, NOSPACE
    <2>2. x.magic = FDT_SW_MAGIC /\ x.magic # "none" /\ x.magic # FDT_MAGIC
      BY <2>1 DEF fdt_sw_probe_, BADSTATE, BADMAGIC, FDT_SW_MAGIC, FDT_MAGIC
    <2> HIDE DEF y
    <2>3. /\ y.mem = MoveBoth(x, to, size, StructTop(x), x.size_dt_strings)
          /\ y.base = to /\ y.totalsize = size /\ y.magic = x.magic /\ y.version = x.version
          /\ y.off_mem_rsvmap = x.off_mem_rsvmap /\ y.off_dt_struct = x.off_dt_struct
          /\ y.off_dt_strings = (IF x.off_dt_strings # 0 THEN size ELSE 0)
          /\ y.size_dt_strings = x.size_dt_strings /\ y.size_dt_struct = x.size_dt_struct
      BY <1>1, <2>1 DEF Header, Fields
    <2>4. PICK base \in Nat, n \in Nat, tail \in Nat, head \in Nat :
            /\ base = x.base /\ n = x.totalsize /\ tail = x.size_dt_strings /\ head = StructTop(x)
      <3>1. x.base \in Nat /\ x.totalsize \in Nat /\ x.size_dt_strings \in Nat
        BY <1>1 DEF Header
      <3>2. StructTop(x) \in Nat
        BY <1>1, TopNat
      <3> QED BY <3>1, <3>2
    <2>5. base + n <= Arena /\ head + tail <= n /\ head + tail <= size
      BY <1>1, <2>1, <2>4 DEF Room
    <2>6. Memory(x) /\ Agree(x, l, r) /\ Content(x, Origin(x), Low(x), l, r)
      BY <2>2 DEF Intact, Shape
    <2>7. /\ y.mem \in [0..(Arena - 1) -> Int]
          /\ \A k \in 0..(head - 1) : y.mem[to + k] = x.mem[base + k]
          /\ \A k \in 0..(tail - 1) : y.mem[to + size - tail + k] = x.mem[base + n - tail + k]
      <3>1. PICK new : new = MoveBoth(x, to, size, head, tail)
        OBVIOUS
      <3>2. /\ new \in [0..(Arena - 1) -> Int]
            /\ Arrived(new, x.mem, to, base, head)
            /\ Arrived(new, x.mem, to + size - tail, base + n - tail, tail)
        BY <1>2, <2>4, <2>5, <2>6, <3>1, MoveBothCells
      <3>3. y.mem = new
        BY <2>3, <2>4, <3>1
      <3> QED BY <3>2, <3>3 DEF Arrived
    <2>8. Memory(y)
      BY <2>7 DEF Memory
    <2>9. \A k : Cell(y, k) = y.mem[to + k] /\ Cell(x, k) = x.mem[base + k]
      BY <2>3, <2>4 DEF Cell
    <2>10. SameStruct(x, y)
      <3>1. \A k \in 0..(head - 1) : Cell(y, k) = Cell(x, k)
        BY <2>7, <2>9
      <3> QED BY <1>1, <2>3, <2>4, <3>1 DEF SameStruct, SameBelow, Header
    <2>11. Origin(x) = n /\ Origin(y) = size /\ Low(x) = -tail /\ Low(y) = -tail
      BY <2>2, <2>3, <2>4 DEF Origin, Low
    <2>12. SameStrings(x, y, n, size, -tail, -tail)
      <3>1. ASSUME NEW k \in (-tail)..(-tail + tail - 1) PROVE Cell(y, size + k) = Cell(x, n + k)
        <4>1. PICK j \in 0..(tail - 1) : j = tail + k
          OBVIOUS
        <4>2. to + (size + k) = to + size - tail + j /\ base + (n + k) = base + n - tail + j
          BY <4>1
        <4> QED BY <2>7, <2>9, <4>1, <4>2
      <3> QED BY <2>3, <2>4, <3>1 DEF SameStrings
    <2>13. Content(y, size, -tail, l, r)
      <3>1. n \in Int /\ size \in Int /\ -tail \in Int /\ y.size_dt_strings \in Nat
        BY <2>3, <2>4
      <3>2. Content(x, n, -tail, l, r)
        BY <2>6, <2>11
      <3> QED BY <2>2, <2>6, <2>10, <2>12, <3>1, <3>2, ContentKept
    <2>14. Agree(y, l, r)
      BY <2>3, <2>6 DEF Agree
    <2>15. y.off_dt_strings \in {0, y.totalsize} /\ (l # <<>> => y.off_dt_strings = y.totalsize)
      <3>1. l # <<>> => x.off_dt_strings # 0
        <4>1. n # 0
          <5>1. HDRSIZE <= head
            BY <2>2, <2>4, <2>6, Below
          <5> QED BY <2>5, <5>1, Sizes
        <4> QED BY <2>2, <2>4, <4>1 DEF Intact, Shape
      <3> QED BY <2>3, <3>1
    <2>16. Shape(y, l, r)
      <3>1. x.version = FDT_LAST_SUPPORTED_VERSION /\ \A i \in 1..Len(l) : l[i].tag # FDT_END
        BY <2>2 DEF Intact, Shape
      <3> QED BY <1>2, <2>2, <2>3, <2>8, <2>14, <2>15, <3>1 DEF Shape
    <2>17. Intact(y, l, r)
      BY <2>11, <2>13, <2>16 DEF Intact
    <2> QED BY <2>17 DEF y
  <1> QED BY <1>3, <1>4

-----------------------------------------------------------------------------
(* fdt_create and the reserve map *)

\* A reserve entry at the end of the map.
ReserveKept(res, l, r, a) == Intact(res.b, l, IF res.err = 0 THEN Append(r, a) ELSE r)

\* fdt_add_reservemap_entry: the entry added, or nothing changed.
LEMMA EntryIntact ==
    ASSUME NEW x, Sound(x), NEW l, NEW r, Intact(x, l, r), NEW a \in Nat, NEW sz \in Nat
    PROVE  ReserveKept(fdt_add_reservemap_entry(x, a, sz), l, r, a)
  <1> DEFINE res == fdt_add_reservemap_entry(x, a, sz)
             c == RsvCells(a, sz)
             y == res.b
  <1>1. Header(x) /\ Room(x) /\ Phase(x)
    BY DEF Sound
  <1>2. CASE res.err # 0
    <2>1. res.b = x
      BY <1>2 DEF fdt_add_reservemap_entry, Fail, Done
    <2> QED BY <1>2, <2>1 DEF ReserveKept
  <1>3. CASE res.err = 0
    <2>1. /\ fdt_sw_probe_memrsv_(x) = 0 /\ ~(x.off_dt_struct + RSVSIZE > x.totalsize)
          /\ y = [Store(x, x.off_dt_struct, c) EXCEPT !.off_dt_struct = @ + RSVSIZE]
      BY <1>3 DEF fdt_add_reservemap_entry, Fail, Done, NOSPACE
    <2>2. x.magic = FDT_SW_MAGIC /\ x.off_dt_strings = 0 /\ x.magic # "none" /\ x.magic # FDT_MAGIC
      BY <2>1 DEF fdt_sw_probe_memrsv_, fdt_sw_probe_, BADSTATE, BADMAGIC, FDT_SW_MAGIC, FDT_MAGIC
    <2>3. x.size_dt_strings = 0 /\ x.size_dt_struct = 0
      BY <1>1, <2>2 DEF Phase
    <2> HIDE DEF y, c
    <2>4. /\ y.mem = memcpy(x.mem, x.base + x.off_dt_struct, c)
          /\ y.base = x.base /\ y.totalsize = x.totalsize /\ y.magic = x.magic
          /\ y.version = x.version
          /\ y.off_mem_rsvmap = x.off_mem_rsvmap
          /\ y.off_dt_struct = x.off_dt_struct + RSVSIZE
          /\ y.off_dt_strings = x.off_dt_strings /\ y.size_dt_strings = x.size_dt_strings
          /\ y.size_dt_struct = x.size_dt_struct
      BY <1>1, <2>1 DEF Header, Fields, Store
    <2>5. /\ Memory(x) /\ Agree(x, l, r) /\ Content(x, Origin(x), Low(x), l, r)
          /\ x.version = FDT_LAST_SUPPORTED_VERSION /\ x.totalsize < INT_MAX
      BY <2>2 DEF Intact, Shape
    <2>6. PICK R \in Nat : R = RSVSIZE /\ R > 1
      BY Sizes
    <2>7. c \in Seq(Int) /\ Len(c) = R /\ c[1] = a
      <3>1. c = [i \in 1..R |-> IF i = 1 THEN a ELSE IF i = R THEN sz ELSE 0]
        BY <2>6 DEF c, RsvCells
      <3>2. c \in [1..R -> Int]
        BY <3>1
      <3>3. 1 \in 1..R
        BY <2>6
      <3> QED BY <3>1, <3>2, <3>3
    <2>8. PICK base \in Nat, n \in Nat, o \in Nat, m \in Nat :
            base = x.base /\ n = x.totalsize /\ o = x.off_dt_struct /\ m = x.off_mem_rsvmap
      BY <1>1 DEF Header
    <2>9. base + n <= Arena /\ o + R <= n /\ HDRSIZE <= m /\ m <= o /\ StructTop(x) = o
      <3>1. StructTop(x) = o
        BY <2>3, <2>8 DEF StructTop
      <3>2. o + R <= n
        BY <2>1, <2>6, <2>8
      <3> QED BY <1>1, <2>2, <2>8, <3>1, <3>2 DEF Room
    <2>10. Memory(y) /\ HoldsIn(y, o, c) /\ \A k \in 0..(o - 1) : Cell(y, k) = Cell(x, k)
      <3>1. StoredAt(x, y, n, o, c)
        BY <2>4, <2>7, <2>8, <2>9 DEF StoredAt
      <3> QED BY <2>5, <3>1, StoreCells
    <2>11. l = <<>>
      <3>1. x.totalsize # 0
        BY <2>8, <2>9, Sizes
      <3> QED BY <2>2, <3>1 DEF Intact, Shape
    <2>12. PICK e \in Nat : e = Len(r) /\ r \in Seq(Nat)
      BY <2>5 DEF Agree
    <2>13. o = m + e * R
      BY <2>5, <2>6, <2>8, <2>12 DEF Agree
    <2>14. Cell(y, o) = a
      <3>1. 1 \in 1..Len(c) /\ o + 1 - 1 = o
        BY <2>6, <2>7
      <3> QED BY <2>7, <2>10, <3>1 DEF HoldsIn
    <2>15. Append(r, a) \in Seq(Nat) /\ Len(Append(r, a)) = e + 1
           /\ \A i \in 1..(e + 1) : Append(r, a)[i] = IF i = e + 1 THEN a ELSE r[i]
      BY <2>12
    <2>16. ASSUME NEW i \in 1..(e + 1) PROVE Cell(y, RsvAt(y, i)) = Append(r, a)[i]
      <3>1. RsvAt(y, i) = m + (i - 1) * R
        BY <2>4, <2>6, <2>8 DEF RsvAt
      <3>2. CASE i = e + 1
        <4>1. i - 1 = e
          BY <3>2
        <4>2. RsvAt(y, i) = o
          BY <2>13, <3>1, <4>1
        <4> QED BY <2>14, <2>15, <3>2, <4>2
      <3>3. CASE i # e + 1
        <4>1. i \in 1..Len(r)
          BY <2>12, <3>3
        <4>2. RsvAt(y, i) = RsvAt(x, i)
          BY <2>4 DEF RsvAt
        <4>3. RsvAt(x, i) \in 0..(o - 1)
          BY <2>2, <2>5, <2>9, <4>1, Below
        <4>4. Cell(x, RsvAt(x, i)) = r[i]
          BY <2>5, <4>1 DEF Content
        <4>5. Cell(y, RsvAt(x, i)) = Cell(x, RsvAt(x, i))
          BY <2>10, <4>3
        <4> QED BY <2>15, <3>3, <4>2, <4>4, <4>5
      <3> QED BY <3>2, <3>3
    <2>17. HoldsIn(y, 0, [i \in 1..HDRSIZE |-> HDRMARK])
      <3>1. PICK h \in Nat : h = HDRSIZE
        BY Sizes
      <3> DEFINE s == [i \in 1..h |-> HDRMARK]
      <3>2. Len(s) = h
        OBVIOUS
      <3>3. HoldsIn(x, 0, s)
        BY <2>5, <3>1 DEF Content
      <3> HIDE DEF s
      <3>4. ASSUME NEW i \in 1..h PROVE Cell(y, 0 + i - 1) = s[i]
        <4>1. 0 + i - 1 \in 0..(o - 1)
          BY <2>9, <3>1
        <4> QED BY <2>10, <3>2, <3>3, <4>1 DEF HoldsIn
      <3>5. HoldsIn(y, 0, s)
        BY <3>2, <3>4 DEF HoldsIn
      <3> QED BY <3>1, <3>5 DEF s
    <2>18. Content(y, Origin(y), Low(y), l, Append(r, a))
      <3>1. Len(l) = 0
        BY <2>11
      <3> QED BY <2>15, <2>16, <2>17, <3>1 DEF Content
    <2>19. Agree(y, l, Append(r, a))
      <3>1. (e + 1) * R = e * R + R /\ e * R \in Nat
        OBVIOUS
      <3>2. o + R = m + (e + 1) * R
        BY <2>13, <3>1
      <3>3. y.off_dt_struct = y.off_mem_rsvmap + Len(Append(r, a)) * RSVSIZE
        BY <2>4, <2>6, <2>8, <2>15, <3>2
      <3> QED BY <2>4, <2>5, <2>15, <3>3 DEF Agree
    <2>20. Shape(y, l, Append(r, a))
      <3>1. \A i \in 1..Len(l) : l[i].tag # FDT_END
        BY <2>2 DEF Intact, Shape
      <3> QED BY <2>2, <2>4, <2>5, <2>10, <2>11, <2>19, <3>1 DEF Shape
    <2>21. Intact(y, l, Append(r, a))
      BY <2>18, <2>20 DEF Intact
    <2> QED BY <1>3, <2>21 DEF ReserveKept, y
  <1> QED BY <1>2, <1>3

\* fdt_finish_reservemap, likewise.
LEMMA FinishReserveIntact ==
    ASSUME NEW x, Sound(x), NEW l, NEW r, Intact(x, l, r)
    PROVE  ReserveKept(fdt_finish_reservemap(x), l, r, 0)
  <1> DEFINE e == fdt_add_reservemap_entry(x, 0, 0)
             res == fdt_finish_reservemap(x)
  <1>1. ReserveKept(e, l, r, 0)
    BY EntryIntact
  <1>2. CASE e.err # 0
    <2>1. res = e
      BY <1>2 DEF fdt_finish_reservemap
    <2> QED BY <1>1, <2>1
  <1>3. CASE e.err = 0
    <2> DEFINE y == e.b
               z == [y EXCEPT !.off_dt_strings = y.totalsize]
    <2>1. res.b = z /\ res.err = 0
      BY <1>3 DEF fdt_finish_reservemap, Done
    <2>2. Sound(y)
      BY ReserveSound
    <2>3. y.magic = FDT_SW_MAGIC /\ y.magic # "none" /\ y.magic # FDT_MAGIC
      <3>1. Header(x)
        BY DEF Sound
      <3>2. fdt_sw_probe_memrsv_(x) = 0
        BY <1>3 DEF fdt_add_reservemap_entry, Fail, NOSPACE
      <3>3. x.magic = FDT_SW_MAGIC
        BY <3>2 DEF fdt_sw_probe_memrsv_, fdt_sw_probe_, BADSTATE, BADMAGIC
      <3>4. y = [Store(x, x.off_dt_struct, RsvCells(0, 0)) EXCEPT !.off_dt_struct = @ + RSVSIZE]
        BY <1>3 DEF fdt_add_reservemap_entry, Fail, Done, NOSPACE
      <3>5. y.magic = x.magic
        BY <3>1, <3>4 DEF Header, Fields, Store
      <3> QED BY <3>3, <3>5 DEF FDT_SW_MAGIC, FDT_MAGIC
    <2>4. PICK k : k = Append(r, 0)
      OBVIOUS
    <2>5. Intact(y, l, k)
      BY <1>1, <1>3, <2>4 DEF ReserveKept
    <2> HIDE DEF y, e, res
    <2>6. Header(y)
      BY <2>2 DEF Sound
    <2>7. /\ z.mem = y.mem /\ z.base = y.base /\ z.totalsize = y.totalsize /\ z.magic = y.magic
          /\ z.version = y.version
          /\ z.off_mem_rsvmap = y.off_mem_rsvmap /\ z.off_dt_struct = y.off_dt_struct
          /\ z.off_dt_strings = y.totalsize /\ z.size_dt_strings = y.size_dt_strings
          /\ z.size_dt_struct = y.size_dt_struct
      BY <2>6 DEF Header, Fields
    <2> HIDE DEF z
    <2>8. \A j : Cell(z, j) = Cell(y, j)
      BY <2>7 DEF Cell
    <2>9. /\ Memory(y) /\ Agree(y, l, k) /\ Content(y, Origin(y), Low(y), l, k)
          /\ y.version = FDT_LAST_SUPPORTED_VERSION /\ y.totalsize < INT_MAX
          /\ \A i \in 1..Len(l) : l[i].tag # FDT_END
      BY <2>3, <2>5 DEF Intact, Shape
    <2>10. Origin(z) = Origin(y) /\ Low(z) = Low(y) /\ Origin(y) \in Int /\ Low(y) \in Int
           /\ y.size_dt_strings \in Nat
      BY <2>3, <2>6, <2>7 DEF Origin, Low, Header
    <2>11. SameStruct(y, z)
      <3>1. StructTop(y) \in Nat /\ y.off_dt_struct \in Nat
        BY <2>6, TopNat DEF Header
      <3> QED BY <2>7, <2>8, <3>1 DEF SameStruct, SameBelow
    <2>12. SameStrings(y, z, Origin(y), Origin(z), Low(y), Low(z))
      BY <2>7, <2>8, <2>10 DEF SameStrings
    <2>13. Content(z, Origin(z), Low(z), l, k)
      BY <2>2, <2>3, <2>7, <2>9, <2>10, <2>11, <2>12, ContentKept
    <2>14. Agree(z, l, k)
      BY <2>7, <2>9 DEF Agree
    <2>15. Shape(z, l, k)
      BY <2>3, <2>7, <2>9, <2>14 DEF Shape, Memory
    <2>16. Intact(z, l, k)
      BY <2>13, <2>15 DEF Intact
    <2> QED BY <2>1, <2>4, <2>16 DEF ReserveKept, res
  <1> QED BY <1>2, <1>3

\* fdt_create: a header and nothing else.
LEMMA CreateIntact ==
    ASSUME NEW mem \in [0..(Arena - 1) -> Int], NEW buf \in Buffers, NEW f,
           CreateError(buf.size, f) = 0
    PROVE  Intact(fdt_create_with_flags(mem, buf.base, buf.size, f), <<>>, <<>>)
  <1> DEFINE y == fdt_create_with_flags(mem, buf.base, buf.size, f)
  <1>1. PICK base \in Nat, size \in Nat : /\ base = buf.base /\ size = buf.size
                                          /\ base + size <= Arena /\ size < INT_MAX
    BY WriterAssumption
  <1>2. ~(size < SwHdrSize)
    BY <1>1 DEF CreateError, NOSPACE
  <1>3. PICK h \in Nat, A \in Nat : h = HDRSIZE /\ h <= size /\ A = Arena
    BY <1>2, Sizes
  <1>4. /\ y.mem = [a \in 0..(Arena - 1) |->
                      IF a \in base..(base + h - 1) THEN HDRMARK
                      ELSE IF a \in base..(base + size - 1) THEN 0 ELSE mem[a]]
        /\ y.base = base /\ y.totalsize = size /\ y.magic = FDT_SW_MAGIC
        /\ y.version = FDT_LAST_SUPPORTED_VERSION
        /\ y.off_mem_rsvmap = SwHdrSize /\ y.off_dt_struct = SwHdrSize
        /\ y.off_dt_strings = 0 /\ y.size_dt_strings = 0 /\ y.size_dt_struct = 0
    BY <1>1, <1>3 DEF fdt_create_with_flags
  <1> HIDE DEF y
  <1>5. Memory(y)
    BY <1>4 DEF Memory, HDRMARK
  <1>6. HoldsIn(y, 0, [i \in 1..HDRSIZE |-> HDRMARK])
    <2> DEFINE s == [i \in 1..h |-> HDRMARK]
    <2>1. Len(s) = h
      OBVIOUS
    <2>2. ASSUME NEW i \in 1..h PROVE Cell(y, 0 + i - 1) = s[i]
      <3>0. base + size <= A /\ h <= size /\ i \in Nat /\ 1 <= i /\ i <= h
        BY <1>1, <1>3
      <3>1. base + (0 + i - 1) \in 0..(Arena - 1) /\ base + (0 + i - 1) \in base..(base + h - 1)
        <4>1. base + (0 + i - 1) \in 0..(A - 1)
          BY <3>0
        <4>2. base + (0 + i - 1) \in base..(base + h - 1)
          BY <3>0
        <4> QED BY <1>3, <4>1, <4>2
      <3>2. y.mem[base + (0 + i - 1)] = HDRMARK
        BY <1>4, <3>1
      <3> QED BY <1>4, <3>2 DEF Cell
    <2> HIDE DEF s
    <2>3. HoldsIn(y, 0, s)
      BY <2>1, <2>2 DEF HoldsIn
    <2> QED BY <1>3, <2>3 DEF s
  <1>7. Content(y, Origin(y), Low(y), <<>>, <<>>)
    BY <1>6 DEF Content
  <1>8. Agree(y, <<>>, <<>>)
    <2>1. PosOf(<<>>)[1] = 0
      BY PosStep
    <2>2. <<>> \in Seq(TokenSet) /\ <<>> \in Seq(Nat) /\ Len(<<>>) = 0
      OBVIOUS
    <2>3. SwHdrSize = SwHdrSize + 0 * RSVSIZE
      BY Sizes
    <2> QED BY <1>4, <2>1, <2>2, <2>3 DEF Agree
  <1>9. Shape(y, <<>>, <<>>)
    BY <1>1, <1>4, <1>5, <1>8 DEF Shape, FDT_SW_MAGIC, FDT_MAGIC
  <1> QED BY <1>7, <1>9 DEF Intact, y

-----------------------------------------------------------------------------
(* The readers *)

\* What the readers rely on in the header.
Readable(x) ==
    /\ x.version = FDT_LAST_SUPPORTED_VERSION
    /\ x.off_dt_struct \in Nat /\ x.size_dt_struct \in Nat /\ x.totalsize \in Nat
    /\ x.off_dt_struct + x.size_dt_struct <= x.totalsize /\ x.totalsize < W

\* fdt_offset_ptr accepts what lies in the structure block: no sum wraps.
LEMMA OffsetPtr ==
    ASSUME NEW x, Readable(x), NEW o \in Nat, NEW n \in Nat, o + n <= x.size_dt_struct
    PROVE  fdt_offset_ptr(x, o, n) = TRUE
  <1>1. PICK d \in Nat, s \in Nat, z \in Nat, w \in Nat :
          d = x.off_dt_struct /\ s = x.size_dt_struct /\ z = x.totalsize /\ w = W
    BY Sizes DEF Readable
  <1>2. d + s <= z /\ z < w /\ o + n <= s
    BY <1>1 DEF Readable
  <1>3. AddU(o, d) = o + d
    BY <1>1, <1>2 DEF AddU
  <1>4. AddU(o + d, n) = o + d + n /\ AddU(o, n) = o + n
    BY <1>1, <1>2 DEF AddU
  <1>5. /\ o >= 0 /\ ~(o + d < o) /\ ~(o + d + n < o + d) /\ o + d + n <= z
        /\ ~(o + n < o) /\ o + n <= s
    BY <1>2
  <1> QED BY <1>1, <1>3, <1>4, <1>5 DEF fdt_offset_ptr

\* The NUL that ends a string of characters is the first one.
LEMMA FirstNul ==
    ASSUME NEW x, NEW off \in Int, NEW s \in Seq(Nat \ {0}), HoldsIn(x, off, Append(s, NUL))
    PROVE  /\ Cell(x, off + Len(s)) = NUL
           /\ \A i \in 1..Len(s) : Cell(x, off + i - 1) = s[i]
           /\ \A j \in off..(off + Len(s) - 1) : Cell(x, j) # NUL
  <1>1. PICK n \in Nat : n = Len(s)
    OBVIOUS
  <1> DEFINE c == Append(s, NUL)
  <1>2. Len(c) = n + 1 /\ c[n + 1] = NUL /\ \A i \in 1..n : c[i] = s[i]
    BY <1>1
  <1> HIDE DEF c
  <1>3. \A i \in 1..(n + 1) : Cell(x, off + i - 1) = c[i]
    BY <1>2 DEF HoldsIn, c
  <1>4. Cell(x, off + n) = NUL
    <2>1. n + 1 \in 1..(n + 1) /\ off + (n + 1) - 1 = off + n
      OBVIOUS
    <2> QED BY <1>2, <1>3, <2>1
  <1>5. ASSUME NEW i \in 1..n PROVE Cell(x, off + i - 1) = s[i]
    <2>1. i \in 1..(n + 1)
      OBVIOUS
    <2>2. Cell(x, off + i - 1) = c[i]
      BY <1>3, <2>1
    <2> QED BY <1>2, <2>2
  <1>6. ASSUME NEW j \in off..(off + n - 1) PROVE Cell(x, j) # NUL
    <2>1. PICK i \in 1..n : i = j - off + 1
      OBVIOUS
    <2>2. off + i - 1 = j
      BY <2>1
    <2>3. s[i] # 0
      BY <1>1, <2>1
    <2> QED BY <1>5, <2>2, <2>3 DEF NUL
  <1> QED BY <1>1, <1>4, <1>5, <1>6

\* The node name that fdt_next_tag skips.
LEMMA NameEndOf ==
    ASSUME NEW x, Readable(x), NEW o \in Nat, NEW s \in Seq(Nat \ {0}),
           o + Len(s) + 1 <= x.size_dt_struct,
           HoldsIn(x, x.off_dt_struct + o, Append(s, NUL))
    PROVE  NameEnd(x, o) = o + Len(s) + 1
  <1>1. PICK d \in Nat, z \in Nat, q \in Nat : /\ d = x.off_dt_struct /\ z = x.totalsize
                                               /\ q = x.size_dt_struct /\ d + q <= z
    BY DEF Readable
  <1>2. PICK n \in Nat : n = Len(s)
    OBVIOUS
  <1>3. o + n + 1 <= q
    BY <1>1, <1>2
  <1> DEFINE limit == x.totalsize - x.off_dt_struct
             stop(k) == k = limit \/ Cell(x, x.off_dt_struct + k) = NUL
             after(k) == IF k < limit /\ fdt_offset_ptr(x, k, 1) THEN k + 1 ELSE -1
             first == CHOOSE k \in o..limit : stop(k) /\ \A j \in o..(k - 1) : ~stop(j)
  <1>4. NameEnd(x, o) = after(first)
    BY DEF NameEnd
  <1>5. limit = z - d /\ o + n < limit
    BY <1>1, <1>3
  <1>6. /\ Cell(x, (d + o) + n) = NUL
        /\ \A j \in (d + o)..((d + o) + n - 1) : Cell(x, j) # NUL
    <2>1. PICK at \in Int : at = d + o
      OBVIOUS
    <2>2. HoldsIn(x, at, Append(s, NUL))
      BY <1>1, <2>1
    <2> QED BY <1>2, <2>1, <2>2, FirstNul
  <1>7. stop(o + n)
    <2>1. d + (o + n) = (d + o) + n
      OBVIOUS
    <2> QED BY <1>1, <1>6, <2>1
  <1>8. ASSUME NEW j \in o..(o + n - 1) PROVE ~stop(j)
    <2>1. d + j \in (d + o)..((d + o) + n - 1) /\ j # limit
      BY <1>5
    <2> QED BY <1>1, <1>6, <2>1
  <1>9. o + n \in o..limit
    BY <1>1, <1>5
  <1>10. limit \in Int
    BY <1>1, <1>5
  <1> HIDE DEF limit, stop
  <1>11. first \in o..limit /\ stop(first) /\ \A j \in o..(first - 1) : ~stop(j)
    <2>1. \E k \in o..limit : stop(k) /\ \A j \in o..(k - 1) : ~stop(j)
      BY <1>7, <1>8, <1>9
    <2> QED BY <2>1
  <1> HIDE DEF first
  <1>12. first = o + n
    <2>1. first \in Int
      BY <1>10, <1>11
    <2>2. ~(first < o + n)
      <3> SUFFICES ASSUME first < o + n PROVE FALSE
        OBVIOUS
      <3>1. first \in o..(o + n - 1)
        BY <1>10, <1>11, <2>1
      <3> QED BY <1>8, <1>11, <3>1
    <2>3. ~(o + n < first)
      <3> SUFFICES ASSUME o + n < first PROVE FALSE
        OBVIOUS
      <3>1. o + n \in o..(first - 1)
        BY <2>1
      <3> QED BY <1>7, <1>11, <3>1
    <2> QED BY <2>1, <2>2, <2>3
  <1>13. fdt_offset_ptr(x, o + n, 1) = TRUE
    <2>1. o + n \in Nat /\ (o + n) + 1 <= x.size_dt_struct
      BY <1>1, <1>3
    <2> QED BY <2>1, OffsetPtr
  <1> QED BY <1>2, <1>4, <1>5, <1>12, <1>13

\* Alignment of the end of a token.
LEMMA TokenEnd ==
    ASSUME NEW p \in Nat, Aligned(p), NEW k \in {1, 3}, NEW n \in Nat
    PROVE  FDT_TAGALIGN(p + k * TAGSIZE + n) = p + k * TAGSIZE + FDT_TAGALIGN(n)
  <1>1. PICK T \in Nat : T = TAGSIZE /\ T > 0
    BY Sizes
  <1>2. Aligned(k * TAGSIZE) /\ k * TAGSIZE \in Nat
    BY <1>1 DEF Aligned
  <1>3. PICK q : q = p + k * TAGSIZE
    OBVIOUS
  <1>4. Aligned(q)
    BY <1>2, <1>3, AlignedSum
  <1>5. FDT_TAGALIGN(q + n) = q + FDT_TAGALIGN(n)
    BY <1>4, AlignShift
  <1> QED BY <1>3, <1>5

\* Where fdt_next_tag finds the end of a token, before it aligns it.
EndOf(x, p, tag) ==
    CASE tag = FDT_BEGIN_NODE -> NameEnd(x, p + TAGSIZE)
      [] tag = FDT_PROP -> IF fdt_offset_ptr(x, p + TAGSIZE, TAGSIZE)
                           THEN AddU(p + TAGSIZE + PropHdr - TAGSIZE, PropLen(x, p))
                           ELSE -1
      [] OTHER -> p + TAGSIZE

\* fdt_next_tag once the tag and the end of the token are known.
LEMMA NextTagGood ==
    ASSUME NEW x, Readable(x), NEW p \in Nat, NEW tag, NEW end \in Nat,
           tag \in {FDT_BEGIN_NODE, FDT_PROP, FDT_END, FDT_END_NODE},
           StructWord(x, p) = tag, p + TAGSIZE <= end, end <= x.size_dt_struct,
           EndOf(x, p, tag) = end
    PROVE  fdt_next_tag(x, p) = [tag |-> tag, next |-> FDT_TAGALIGN(end)]
  <1>1. PICK T \in Nat, s \in Nat : T = TAGSIZE /\ s = x.size_dt_struct
    BY Sizes DEF Readable
  <1>2. p + T <= end /\ end <= s
    BY <1>1
  <1>3. fdt_offset_ptr(x, p, TAGSIZE) = TRUE
    <2>1. p + T <= x.size_dt_struct
      BY <1>1, <1>2
    <2> QED BY <1>1, <2>1, OffsetPtr
  <1>4. fdt_offset_ptr(x, p, end - p) = TRUE
    <2>1. PICK n \in Nat : n = end - p /\ p + n <= s
      BY <1>2
    <2>2. p + n <= x.size_dt_struct
      BY <1>1, <2>1
    <2> QED BY <2>1, <2>2, OffsetPtr
  <1>5. ~(end < 0)
    OBVIOUS
  <1>6. tag \in {FDT_BEGIN_NODE, FDT_PROP, FDT_END, FDT_END_NODE, FDT_NOP}
    OBVIOUS
  <1> DEFINE e == EndOf(x, p, tag)
  <1>7. fdt_next_tag(x, p) =
          IF ~fdt_offset_ptr(x, p, TAGSIZE) THEN [tag |-> FDT_END, next |-> -TRUNCATED]
          ELSE IF tag \notin {FDT_BEGIN_NODE, FDT_PROP, FDT_END, FDT_END_NODE, FDT_NOP}
               THEN [tag |-> FDT_END, next |-> -BADSTRUCTURE]
          ELSE IF e < 0 \/ ~fdt_offset_ptr(x, p, e - p)
               THEN [tag |-> FDT_END, next |-> -BADSTRUCTURE]
               ELSE [tag |-> tag, next |-> FDT_TAGALIGN(e)]
    BY Zenon DEF fdt_next_tag, EndOf
  <1>8. e = end
    OBVIOUS
  <1> HIDE DEF e
  <1> QED BY <1>3, <1>4, <1>5, <1>6, <1>7, <1>8

\* fdt_next_tag on a token of the log: its tag, and where the next one starts.
LEMMA NextTag ==
    ASSUME NEW x, Readable(x), NEW p, Aligned(p), NEW t \in TokenSet,
           p + TokenSize(t) <= x.size_dt_struct, TokenCells(x, p, t)
    PROVE  fdt_next_tag(x, p) = [tag |-> t.tag, next |-> p + TokenSize(t)]
  <1>1. PICK T \in Nat, s \in Nat, z \in Nat, d \in Nat, w \in Nat :
          /\ T = TAGSIZE /\ T > 0 /\ s = x.size_dt_struct /\ z = TokenSize(t)
          /\ d = x.off_dt_struct /\ w = W /\ s < w
    <2>1. TokenSize(t) \in Nat
      BY TokenSizes
    <2>2. /\ x.size_dt_struct \in Nat /\ x.off_dt_struct \in Nat /\ x.size_dt_struct < W
      BY Sizes DEF Readable
    <2> QED BY <2>1, <2>2, Sizes
  <1>2. p \in Nat
    BY AlignedSum
  <1>3. p + z <= s /\ Word(x, d + p) = t.tag
    BY <1>1 DEF TokenCells
  <1>4. StructWord(x, p) = t.tag
    BY <1>1, <1>3 DEF StructWord
  <1>5. t.tag \in {FDT_BEGIN_NODE, FDT_PROP, FDT_END, FDT_END_NODE}
    BY DEF TokenSet
  <1>6. PICK nm \in Seq(Nat \ {0}), v \in Seq(Nat) : nm = t.name /\ v = t.val
    BY DEF TokenSet
  <1>7. CASE t.tag = FDT_BEGIN_NODE
    <2>1. PICK n \in Nat : n = Len(nm)
      OBVIOUS
    <2>2. z = T + FDT_TAGALIGN(n + 1) /\ z >= T + n + 1
      BY <1>1, <1>6, <1>7, <2>1, TokenSizes
    <2>3. PICK o \in Nat : o = p + T
      BY <1>2
    <2>4. o + n + 1 <= s
      BY <1>2, <1>3, <2>2, <2>3
    <2>5. NameEnd(x, o) = o + n + 1
      <3>1. HoldsIn(x, d + p + T, Append(nm, NUL))
        BY <1>1, <1>6, <1>7 DEF TokenCells
      <3>2. d + p + T = d + o
        BY <1>2, <2>3
      <3>3. HoldsIn(x, x.off_dt_struct + o, Append(nm, NUL))
        BY <1>1, <3>1, <3>2
      <3> QED BY <1>1, <2>1, <2>4, <3>3, NameEndOf
    <2>6. PICK end \in Nat : end = o + n + 1
      OBVIOUS
    <2>7. fdt_next_tag(x, p) = [tag |-> t.tag, next |-> FDT_TAGALIGN(end)]
      <3>1. p + TAGSIZE <= end /\ end <= x.size_dt_struct
        BY <1>1, <1>2, <2>3, <2>4, <2>6
      <3>2. NameEnd(x, p + TAGSIZE) = end
        BY <1>1, <2>3, <2>5, <2>6
      <3>3. EndOf(x, p, t.tag) = end
        <4>1. t.tag # FDT_PROP
          BY <1>7 DEF FDT_BEGIN_NODE, FDT_PROP
        <4> QED BY <1>7, <3>2, <4>1 DEF EndOf
      <3> QED BY <1>2, <1>4, <1>5, <3>1, <3>3, NextTagGood
    <2>8. FDT_TAGALIGN(end) = p + z
      <3>1. FDT_TAGALIGN(p + 1 * TAGSIZE + (n + 1)) = p + 1 * TAGSIZE + FDT_TAGALIGN(n + 1)
        BY <1>2, TokenEnd
      <3>2. p + 1 * TAGSIZE + (n + 1) = end /\ 1 * TAGSIZE = T
        BY <1>1, <1>2, <2>3, <2>6
      <3>3. PICK a \in Nat : a = FDT_TAGALIGN(n + 1)
        BY TagAlign
      <3>4. FDT_TAGALIGN(end) = p + T + a
        BY <3>1, <3>2, <3>3, Zenon
      <3>5. z = T + a
        BY <2>2, <3>3, Zenon
      <3> QED BY <1>2, <3>4, <3>5
    <2> QED BY <1>1, <2>7, <2>8
  <1>8. CASE t.tag = FDT_PROP
    <2>1. PICK n \in Nat : n = Len(v)
      OBVIOUS
    <2>2. z = 3 * T + FDT_TAGALIGN(n) /\ z >= 3 * T + n
      BY <1>1, <1>6, <1>8, <2>1, TokenSizes
    <2>3. PICK end \in Nat : end = p + 3 * T + n /\ end <= s
      BY <1>2, <1>3, <2>2
    <2>4. PropLen(x, p) = n
      <3>1. Word(x, d + p + T) = n
        BY <1>1, <1>6, <1>8, <2>1 DEF TokenCells
      <3>2. d + p + T = d + (p + T)
        BY <1>2
      <3> QED BY <1>1, <3>1, <3>2 DEF PropLen, StructWord
    <2>5. fdt_offset_ptr(x, p + TAGSIZE, TAGSIZE) = TRUE
      <3>1. PICK o \in Nat : o = p + T /\ o + T <= s
        BY <1>2, <2>3
      <3>2. o + T <= x.size_dt_struct
        BY <1>1, <3>1
      <3> QED BY <1>1, <3>1, <3>2, OffsetPtr
    <2>6. AddU(p + TAGSIZE + PropHdr - TAGSIZE, PropLen(x, p)) = end
      <3>1. p + TAGSIZE + PropHdr - TAGSIZE = p + 3 * T
        BY <1>1, <1>2 DEF PropHdr
      <3>2. p + 3 * T + n < w
        BY <1>1, <2>3
      <3>3. AddU(p + 3 * T, n) = p + 3 * T + n
        BY <1>1, <1>2, <3>2 DEF AddU
      <3> QED BY <2>3, <2>4, <3>1, <3>3
    <2>7. fdt_next_tag(x, p) = [tag |-> t.tag, next |-> FDT_TAGALIGN(end)]
      <3>1. p + TAGSIZE <= end /\ end <= x.size_dt_struct
        BY <1>1, <1>2, <2>3
      <3>2. t.tag # FDT_BEGIN_NODE
        BY <1>8 DEF FDT_BEGIN_NODE, FDT_PROP
      <3>3. EndOf(x, p, t.tag) = end
        BY <1>8, <2>5, <2>6, <3>2 DEF EndOf
      <3> QED BY <1>2, <1>4, <1>5, <3>1, <3>3, NextTagGood
    <2>8. FDT_TAGALIGN(end) = p + z
      <3>1. FDT_TAGALIGN(p + 3 * TAGSIZE + n) = p + 3 * TAGSIZE + FDT_TAGALIGN(n)
        BY <1>2, TokenEnd
      <3>2. FDT_TAGALIGN(n) \in Nat
        BY TagAlign
      <3> QED BY <1>1, <1>2, <2>2, <2>3, <3>1, <3>2
    <2> QED BY <1>1, <2>7, <2>8
  <1>9. CASE t.tag \in {FDT_END, FDT_END_NODE}
    <2>1. z = T
      BY <1>1, <1>9, TokenSizes
    <2>2. PICK end \in Nat : end = p + T /\ end <= s
      BY <1>2, <1>3, <2>1
    <2>3. fdt_next_tag(x, p) = [tag |-> t.tag, next |-> FDT_TAGALIGN(end)]
      <3>1. p + TAGSIZE <= end /\ end <= x.size_dt_struct /\ p + TAGSIZE = end
        BY <1>1, <1>2, <2>2
      <3>2. t.tag # FDT_BEGIN_NODE /\ t.tag # FDT_PROP
        BY <1>9 DEF FDT_BEGIN_NODE, FDT_PROP, FDT_END, FDT_END_NODE
      <3>3. EndOf(x, p, t.tag) = end
        BY <3>1, <3>2 DEF EndOf
      <3> QED BY <1>2, <1>4, <1>5, <3>1, <3>3, NextTagGood
    <2>4. FDT_TAGALIGN(end) = end
      <3>1. Aligned(TAGSIZE)
        BY <1>1 DEF Aligned
      <3>2. Aligned(end)
        BY <1>1, <2>2, <3>1, AlignedSum
      <3>3. end <= end /\ end < end + TAGSIZE
        BY <1>1
      <3> QED BY <3>2, <3>3, AlignUnique
    <2> QED BY <1>1, <2>1, <2>2, <2>3, <2>4
  <1> QED BY <1>5, <1>7, <1>8, <1>9

\* Reading a string that is there gives it back.
LEMMA ReadString ==
    ASSUME NEW x, NEW off \in Nat, NEW end \in Int, NEW s \in Seq(Nat \ {0}),
           off + Len(s) <= end, HoldsIn(x, off, Append(s, NUL))
    PROVE  StringAt(x, off, end) = s
  <1>1. PICK n \in Nat : n = Len(s)
    OBVIOUS
  <1>2. /\ Cell(x, off + n) = NUL
        /\ \A i \in 1..n : Cell(x, off + i - 1) = s[i]
        /\ \A j \in off..(off + n - 1) : Cell(x, j) # NUL
    BY <1>1, FirstNul
  <1>3. off + n <= end
    BY <1>1
  <1> DEFINE first == CHOOSE k \in off..end : /\ Cell(x, k) = NUL
                                              /\ \A j \in off..(k - 1) : Cell(x, j) # NUL
  <1>4. off + n \in off..end
    BY <1>3
  <1>5. first \in off..end /\ Cell(x, first) = NUL /\ \A j \in off..(first - 1) : Cell(x, j) # NUL
    <2>1. \E k \in off..end : Cell(x, k) = NUL /\ \A j \in off..(k - 1) : Cell(x, j) # NUL
      BY <1>2, <1>4
    <2> QED BY <2>1
  <1>6. StringAt(x, off, end) = [i \in 1..(first - off) |-> Cell(x, off + i - 1)]
    BY <1>2, <1>4 DEF StringAt
  <1> HIDE DEF first
  <1>7. first = off + n
    <2>1. first \in Int
      BY <1>5
    <2>2. ~(first < off + n)
      <3> SUFFICES ASSUME first < off + n PROVE FALSE
        OBVIOUS
      <3>1. first \in off..(off + n - 1)
        BY <1>5, <2>1
      <3> QED BY <1>2, <1>5, <3>1
    <2>3. ~(off + n < first)
      <3> SUFFICES ASSUME off + n < first PROVE FALSE
        OBVIOUS
      <3>1. off + n \in off..(first - 1)
        BY <2>1
      <3> QED BY <1>2, <1>5, <3>1
    <2> QED BY <2>1, <2>2, <2>3
  <1>8. first - off = n
    BY <1>7
  <1>9. s = [i \in 1..n |-> s[i]]
    BY <1>1
  <1>10. [i \in 1..n |-> Cell(x, off + i - 1)] = [i \in 1..n |-> s[i]]
    BY <1>2
  <1> QED BY <1>6, <1>8, <1>9, <1>10

\* fdt_get_string finds the name of a property, in both phases.
LEMMA GetString ==
    ASSUME NEW x, Sound(x), NEW l, NEW r, Intact(x, l, r), x.magic # "none",
           x.size_dt_struct # 0, NEW p \in Nat, NEW t \in TokenSet, t.tag = FDT_PROP,
           x.magic = FDT_SW_MAGIC => x.off_dt_strings = x.totalsize,
           NameCells(x, Origin(x), Low(x), p, t)
    PROVE  fdt_get_string(x, PropNameoff(x, p)) = t.name
  <1>1. Header(x) /\ Room(x) /\ Phase(x)
    BY DEF Sound
  <1>2. PICK n \in Nat, w \in Nat, o \in Nat, d \in Nat, T \in Nat :
          /\ n = x.totalsize /\ w = x.size_dt_strings /\ o = x.off_dt_strings
          /\ d = x.off_dt_struct /\ T = TAGSIZE
    <2>1. /\ x.totalsize \in Nat /\ x.size_dt_strings \in Nat /\ x.off_dt_strings \in Nat
          /\ x.off_dt_struct \in Nat
      BY <1>1 DEF Header
    <2> QED BY <2>1, Sizes
  <1>3. PICK off \in Int : off = NameOff(x, p)
    BY DEF NameCells
  <1>4. PropNameoff(x, p) = off
    <2>1. d + (p + 2 * T) = d + p + 2 * T
      OBVIOUS
    <2> QED BY <1>2, <1>3, <2>1 DEF PropNameoff, StructWord, NameOff
  <1>5. PICK nm \in Seq(Nat \ {0}) : nm = t.name
    BY DEF TokenSet
  <1>6. PICK len \in Nat : len = Len(nm)
    OBVIOUS
  <1>7. /\ Low(x) <= off /\ off + len + 1 <= Low(x) + w
        /\ HoldsIn(x, Origin(x) + off, Append(nm, NUL))
    BY <1>2, <1>3, <1>5, <1>6 DEF NameCells
  <1>8. w <= n
    <2>1. PICK top \in Nat : top = StructTop(x)
      <3>1. StructTop(x) \in Nat
        BY <1>1, TopNat
      <3> QED BY <3>1
    <2>2. top + w <= n
      BY <1>1, <1>2, <2>1 DEF Room
    <2> QED BY <2>2
  <1>9. n < INT_MAX /\ x.version = FDT_LAST_SUPPORTED_VERSION
        /\ x.magic \in {FDT_SW_MAGIC, FDT_MAGIC}
    BY <1>2 DEF Intact, Shape
  <1>10. CASE x.magic = FDT_SW_MAGIC
    <2>1. x.magic # FDT_MAGIC
      BY <1>10 DEF FDT_SW_MAGIC, FDT_MAGIC
    <2>2. Low(x) = -w /\ Origin(x) = n /\ o = n
      BY <1>2, <1>10, <2>1 DEF Low, Origin
    <2>3. fdt_ro_probe_(x) = n
      BY <1>2, <1>9, <1>10, <2>1 DEF fdt_ro_probe_
    <2>4. -w <= off /\ off + len + 1 <= 0
      BY <1>7, <2>2
    <2>5. PICK at \in Nat : at = n + off
      BY <1>8, <2>4
    <2>6. at \in 0..(n - 1) /\ at + len <= n - 1 /\ off < 0 /\ -off <= w /\ n >= 0
      BY <2>4, <2>5
    <2>7. fdt_get_string(x, off) = StringAt(x, at, n - 1)
      BY <1>2, <2>1, <2>2, <2>3, <2>5, <2>6 DEF fdt_get_string
    <2>8. HoldsIn(x, at, Append(nm, NUL))
      BY <1>7, <2>2, <2>5
    <2>9. StringAt(x, at, n - 1) = nm
      BY <1>6, <2>6, <2>8, ReadString
    <2> QED BY <1>4, <1>5, <2>7, <2>9
  <1>11. CASE x.magic = FDT_MAGIC
    <2>1. Low(x) = 0 /\ Origin(x) = o /\ o + w = n
      BY <1>2, <1>11 DEF Low, Origin, Intact, Shape
    <2>2. fdt_ro_probe_(x) = n
      BY <1>2, <1>9, <1>11 DEF fdt_ro_probe_, Intact, Shape, FDT_FIRST_SUPPORTED_VERSION,
           FDT_LAST_COMPATIBLE_VERSION, FDT_LAST_SUPPORTED_VERSION
    <2>3. 0 <= off /\ off + len + 1 <= w
      BY <1>7, <2>1
    <2>4. PICK at \in Nat : at = o + off
      BY <2>3
    <2>5. at \in 0..(n - 1) /\ at + len <= n - 1 /\ off >= 0 /\ off < w /\ n >= 0 /\ ~(o + w < n)
      BY <2>1, <2>3, <2>4
    <2>6. fdt_get_string(x, off) = StringAt(x, at, n - 1)
      BY <1>2, <1>11, <2>2, <2>4, <2>5 DEF fdt_get_string
    <2>7. HoldsIn(x, at, Append(nm, NUL))
      BY <1>7, <2>1, <2>4
    <2>8. StringAt(x, at, n - 1) = nm
      BY <1>6, <2>5, <2>7, ReadString
    <2> QED BY <1>4, <1>5, <2>6, <2>8
  <1> QED BY <1>9, <1>10, <1>11

\* The finished blob passes fdt_check_header.
LEMMA CheckHeader ==
    ASSUME NEW x, Sound(x), NEW l, NEW r, Intact(x, l, r), x.magic = FDT_MAGIC
    PROVE  fdt_check_header(x) = 0
  <1>1. Header(x) /\ Room(x) /\ Phase(x)
    BY DEF Sound
  <1>2. PICK n \in Nat, w \in Nat, o \in Nat, d \in Nat, s \in Nat, m \in Nat, base \in Nat :
          /\ n = x.totalsize /\ w = x.size_dt_strings /\ o = x.off_dt_strings
          /\ d = x.off_dt_struct /\ s = x.size_dt_struct /\ m = x.off_mem_rsvmap /\ base = x.base
    BY <1>1 DEF Header
  <1>3. PICK V \in Nat, h \in Nat, A \in Nat : V = W /\ h = HDRSIZE /\ A = Arena /\ A < V
    BY Sizes
  <1>4. /\ base + n <= A /\ d + s + w <= n /\ h <= m /\ m <= d /\ o = d + s
        /\ o + w = n /\ n < INT_MAX
        /\ x.version = FDT_LAST_SUPPORTED_VERSION
        /\ x.last_comp_version = FDT_LAST_COMPATIBLE_VERSION
    <2>1. x.magic # "none"
      BY DEF FDT_MAGIC
    <2>2. base + n <= A /\ d + s + w <= n /\ h <= m /\ m <= d /\ o = d + s
      BY <1>1, <1>2, <1>3, <2>1 DEF Room, Phase, StructTop
    <2> QED BY <1>2, <2>1, <2>2 DEF Intact, Shape
  <1>5. AddU(d, s) = d + s /\ AddU(o, w) = o + w
    BY <1>3, <1>4 DEF AddU
  <1>6. check_off_(h, n, m) /\ check_block_(h, n, d, s) /\ check_block_(h, n, o, w)
    BY <1>4, <1>5 DEF check_off_, check_block_
  <1>7. n >= h /\ n <= INT_MAX
    <2>1. INT_MAX \in Int
      BY Sizes DEF INT_MAX
    <2> QED BY <1>4, <2>1
  <1>8. ~(17 < 17)
    OBVIOUS
  <1> QED BY <1>2, <1>3, <1>4, <1>6, <1>7, <1>8
         DEF fdt_check_header, FDT_FIRST_SUPPORTED_VERSION, FDT_LAST_COMPATIBLE_VERSION,
             FDT_LAST_SUPPORTED_VERSION

\* What the invariant is for: the two properties about the cells.
LEMMA IntactTokens ==
    ASSUME Sound(b), Intact(b, log, rsvs)
    PROVE  TokensIntact
  <1>1. Shape(b, log, rsvs) /\ (b.magic # "none" => Content(b, Origin(b), Low(b), log, rsvs))
    BY DEF Intact
  <1>2. CASE b.magic = "none"
    <2>1. log = <<>> /\ rsvs = <<>> /\ b.size_dt_struct = 0
      BY <1>1, <1>2 DEF Shape
    <2>2. PosOf(<<>>)[1] = 0
      BY PosStep
    <2>3. Len(log) = 0 /\ Len(rsvs) = 0 /\ Len(log) + 1 = 1
      BY <2>1
    <2>4. b.size_dt_struct = Pos[Len(log) + 1]
      BY <2>1, <2>2, <2>3 DEF Pos
    <2> QED BY <1>2, <2>3, <2>4 DEF TokensIntact
  <1>3. CASE b.magic # "none"
    <2>1. Agree(b, log, rsvs)
      BY <1>1, <1>3 DEF Shape
    <2>2. Content(b, Origin(b), Low(b), log, rsvs)
      BY <1>1, <1>3
    <2>3. b.size_dt_struct = Pos[Len(log) + 1]
      BY <2>1 DEF Agree, Pos
    <2>4. \A off, s : Holds(off, s) <=> HoldsIn(b, off, s)
      BY DEF Holds, HoldsIn
    <2>5. StringsEnd = Origin(b)
      BY DEF StringsEnd, Origin, Complete
    <2>6. ASSUME NEW i \in 1..Len(log)
          PROVE  LET t == log[i]
                     at == b.off_dt_struct + Pos[i]
                     nameoff == Word(b, at + 2 * TAGSIZE)
                 IN  /\ Word(b, at) = t.tag
                     /\ t.tag = FDT_BEGIN_NODE => Holds(at + TAGSIZE, Append(t.name, NUL))
                     /\ t.tag = FDT_PROP =>
                           /\ Word(b, at + TAGSIZE) = Len(t.val)
                           /\ Holds(at + PropHdr, t.val)
                           /\ Holds(StringsEnd + nameoff, Append(t.name, NUL))
      <3>1. TokenCells(b, Pos[i], log[i]) /\ NameCells(b, StringsEnd, Low(b), Pos[i], log[i])
        BY <2>2, <2>5 DEF Content, Pos
      <3> QED BY <2>4, <3>1, Zenon DEF TokenCells, NameCells, NameOff
    <2>7. Holds(0, [i \in 1..HDRSIZE |-> HDRMARK])
      BY <2>2, <2>4 DEF Content
    <2>8. \A i \in 1..Len(rsvs) : Cell(b, b.off_mem_rsvmap + (i - 1) * RSVSIZE) = rsvs[i]
      BY <2>2 DEF Content, RsvAt
    <2> QED BY <2>3, <2>6, <2>7, <2>8, Zenon DEF TokensIntact
  <1> QED BY <1>2, <1>3

\* The invariant is what ReadersAgree asks for.
LEMMA IntactReaders ==
    ASSUME Sound(b), Intact(b, log, rsvs)
    PROVE  ReadersAgree
  <1>1. Shape(b, log, rsvs)
    BY DEF Intact
  <1>2. b.magic = FDT_SW_MAGIC => b.off_dt_strings \in {0, b.totalsize}
    BY <1>1 DEF Shape
  <1>3. Complete => fdt_check_header(b) = 0
    BY CheckHeader DEF Complete
  <1>4. ASSUME NEW i \in 1..Len(log)
        PROVE  /\ fdt_next_tag(b, Pos[i]).tag = log[i].tag /\ fdt_next_tag(b, Pos[i]).next = Pos[i + 1]
               /\ log[i].tag = FDT_PROP =>
                      fdt_get_string(b, PropNameoff(b, Pos[i])) = log[i].name
    <2>1. log # <<>>
      OBVIOUS
    <2>2. b.magic # "none"
      BY <1>1, <2>1 DEF Shape
    <2>3. Agree(b, log, rsvs) /\ Content(b, Origin(b), Low(b), log, rsvs)
      BY <1>1, <2>2 DEF Shape, Intact
    <2>4. log \in Seq(TokenSet)
      BY <2>3 DEF Agree
    <2>5. PICK t \in TokenSet, p \in Nat : t = log[i] /\ p = Pos[i] /\ Aligned(p)
      <3>1. log[i] \in TokenSet
        BY <2>4
      <3>2. i \in 1..(Len(log) + 1)
        BY <2>4
      <3>3. PosOf(log)[i] \in Nat /\ Aligned(PosOf(log)[i])
        BY <2>4, <3>2, Positions
      <3> QED BY <3>1, <3>3 DEF Pos
    <2>6. Pos[i + 1] = p + TokenSize(t)
      BY <2>4, <2>5, Positions DEF Pos
    <2>7. TokenCells(b, p, t) /\ NameCells(b, Origin(b), Low(b), p, t)
      BY <2>3, <2>5 DEF Content, Pos
    <2>8. Readable(b)
      <3>1. Header(b) /\ Room(b)
        BY DEF Sound
      <3>2. PICK n \in Nat, base \in Nat, s \in Nat, d \in Nat, w \in Nat :
              /\ n = b.totalsize /\ base = b.base /\ s = b.size_dt_struct /\ d = b.off_dt_struct
              /\ w = b.size_dt_strings
        BY <3>1 DEF Header
      <3>3. base + n <= Arena /\ d + s + w <= n
        BY <3>1, <3>2 DEF Room, StructTop
      <3>4. n < W /\ d + s <= n
        BY <3>3, Sizes
      <3> QED BY <1>1, <2>2, <3>2, <3>4 DEF Readable, Shape
    <2>9. PICK s \in Nat, z \in Nat : s = b.size_dt_struct /\ z = TokenSize(t) /\ p + z <= s /\ z > 0
      <3>1. Len(log) + 1 \in (i + 1)..(Len(log) + 1)
        BY <2>4
      <3>2. PosOf(log)[i] + TokenSize(log[i]) <= PosOf(log)[Len(log) + 1]
        BY <2>4, <3>1, Positions
      <3>3. p + TokenSize(t) <= b.size_dt_struct
        BY <2>3, <2>5, <3>2 DEF Agree, Pos
      <3>4. TokenSize(t) \in Nat /\ TokenSize(t) > 0
        <4>1. TokenSize(t) \in Nat /\ TokenSize(t) >= TAGSIZE
          BY TokenSizes
        <4> QED BY <4>1, Sizes
      <3>5. b.size_dt_struct \in Nat
        BY <2>8 DEF Readable
      <3> QED BY <3>3, <3>4, <3>5
    <2>10. fdt_next_tag(b, p) = [tag |-> t.tag, next |-> p + TokenSize(t)]
      BY <2>5, <2>7, <2>8, <2>9, NextTag
    <2>11. t.tag = FDT_PROP => fdt_get_string(b, PropNameoff(b, p)) = t.name
      <3>1. b.size_dt_struct # 0
        BY <2>9
      <3>2. b.magic = FDT_SW_MAGIC => b.off_dt_strings = b.totalsize
        BY <1>1, <2>1 DEF Shape
      <3> QED BY <2>2, <2>7, <3>1, <3>2, GetString
    <2> QED BY <2>5, <2>6, <2>10, <2>11
  <1>5. CheckBlockSound
    BY SoundCheckBlock
  <1> QED BY <1>2, <1>3, <1>4, <1>5 DEF ReadersAgree

-----------------------------------------------------------------------------
(* fdt_finish: its walk, its move and its relocation *)

\* What fdt_offset_ptr accepts lies in the structure block.
LEMMA OffsetPtrOnly ==
    ASSUME NEW x, Readable(x), NEW o \in Nat, NEW n \in Nat, n < W, fdt_offset_ptr(x, o, n)
    PROVE  o + n <= x.size_dt_struct
  <1>1. PICK d \in Nat, s \in Nat, z \in Nat, w \in Nat :
          d = x.off_dt_struct /\ s = x.size_dt_struct /\ z = x.totalsize /\ w = W
    BY Sizes DEF Readable
  <1>2. d + s <= z /\ z < w /\ n < w
    BY <1>1 DEF Readable
  <1>3. /\ ~(AddU(o, d) < o) /\ ~(AddU(o, n) < o) /\ AddU(o, n) <= s
    BY <1>1 DEF fdt_offset_ptr, Readable, FDT_LAST_SUPPORTED_VERSION
  <1>4. AddU(o, n) = IF o + n >= w THEN o + n - w ELSE o + n
    BY <1>1 DEF AddU
  <1>5. ~(o + n >= w)
    BY <1>2, <1>3, <1>4
  <1> QED BY <1>1, <1>3, <1>4, <1>5

\* NameEnd is a number wherever the block has not ended.
LEMMA NameEndInt ==
    ASSUME NEW x, Readable(x), NEW o \in Nat, o <= x.size_dt_struct
    PROVE  NameEnd(x, o) \in Int
  <1>1. PICK d \in Nat, z \in Nat, s \in Nat : /\ d = x.off_dt_struct /\ z = x.totalsize
                                               /\ s = x.size_dt_struct /\ d + s <= z
    BY DEF Readable
  <1> DEFINE limit == x.totalsize - x.off_dt_struct
             stop(k) == k = limit \/ Cell(x, x.off_dt_struct + k) = NUL
             after(k) == IF k < limit /\ fdt_offset_ptr(x, k, 1) THEN k + 1 ELSE -1
             first == CHOOSE k \in o..limit : stop(k) /\ \A j \in o..(k - 1) : ~stop(j)
             S == {k \in Nat : k \in o..limit /\ stop(k)}
  <1>2. NameEnd(x, o) = after(first)
    BY DEF NameEnd
  <1>3. limit \in Nat /\ o <= limit
    BY <1>1
  <1>4. stop(limit)
    OBVIOUS
  <1> HIDE DEF limit, stop
  <1>5. limit \in S
    BY <1>3, <1>4
  <1>6. S # {} /\ S \in SUBSET Nat
    BY <1>5
  <1>7. PICK k \in S : \A j \in S : k <= j
    BY <1>6, LeastNat
  <1>8. k \in o..limit /\ stop(k) /\ k \in Nat
    BY <1>7
  <1>9. ASSUME NEW j \in o..(k - 1) PROVE ~stop(j)
    <2>1. j \in Nat /\ j \in o..limit /\ ~(k <= j)
      BY <1>3, <1>8
    <2> QED BY <1>7, <2>1
  <1>10. first \in o..limit
    <2>1. \E i \in o..limit : stop(i) /\ \A j \in o..(i - 1) : ~stop(j)
      BY <1>8, <1>9
    <2> QED BY <2>1
  <1> HIDE DEF first, S
  <1>11. first \in Int
    BY <1>3, <1>10
  <1> QED BY <1>2, <1>11

\* fdt_next_tag from any offset: a tag that is not FDT_END leads on to an offset.
InArena(x) ==
    /\ Memory(x) /\ x.base \in Nat /\ x.base + x.totalsize <= Arena
    /\ TAGSIZE <= x.size_dt_struct
\* A tag other than FDT_END leads on to an offset that is not negative.
LEMMA NextTagNat ==
    ASSUME NEW x, Readable(x), InArena(x), NEW o \in Nat, fdt_next_tag(x, o).tag # FDT_END
    PROVE  fdt_next_tag(x, o).next \in Nat
  <1> DEFINE tag == StructWord(x, o)
             e == EndOf(x, o, tag)
  <1>1. PICK T \in Nat, s \in Nat, d \in Nat, z \in Nat, base \in Nat, A \in Nat, w \in Nat :
          /\ T = TAGSIZE /\ T > 0 /\ s = x.size_dt_struct /\ d = x.off_dt_struct
          /\ z = x.totalsize /\ base = x.base /\ A = Arena /\ w = W
    BY Sizes DEF Readable, InArena
  <1>2. T <= s /\ d + s <= z /\ z < w /\ base + z <= A
    BY <1>1 DEF Readable, InArena
  <1>3. fdt_next_tag(x, o) =
          IF ~fdt_offset_ptr(x, o, TAGSIZE) THEN [tag |-> FDT_END, next |-> -TRUNCATED]
          ELSE IF tag \notin {FDT_BEGIN_NODE, FDT_PROP, FDT_END, FDT_END_NODE, FDT_NOP}
               THEN [tag |-> FDT_END, next |-> -BADSTRUCTURE]
          ELSE IF e < 0 \/ ~fdt_offset_ptr(x, o, e - o)
               THEN [tag |-> FDT_END, next |-> -BADSTRUCTURE]
               ELSE [tag |-> tag, next |-> FDT_TAGALIGN(e)]
    BY Zenon DEF fdt_next_tag, EndOf
  <1> HIDE DEF tag, e
  <1>4. /\ fdt_offset_ptr(x, o, TAGSIZE) /\ ~(e < 0)
        /\ tag \in {FDT_BEGIN_NODE, FDT_PROP, FDT_END, FDT_END_NODE, FDT_NOP}
        /\ fdt_next_tag(x, o).next = FDT_TAGALIGN(e)
    BY <1>3
  <1>5. o + T <= s
    <2>1. T < W
      BY <1>1, <1>2
    <2> QED BY <1>1, <1>4, <2>1, OffsetPtrOnly
  <1>6. e \in Int
    <2>1. CASE tag = FDT_BEGIN_NODE
      <3>1. e = NameEnd(x, o + T)
        <4>1. tag # FDT_PROP
          BY <2>1 DEF FDT_BEGIN_NODE, FDT_PROP
        <4> QED BY <1>1, <2>1, <4>1 DEF e, EndOf
      <3>2. PICK q \in Nat : q = o + T /\ q <= x.size_dt_struct
        BY <1>1, <1>5
      <3>3. NameEnd(x, q) \in Int
        BY <3>2, NameEndInt
      <3> QED BY <3>1, <3>2, <3>3
    <2>2. CASE tag = FDT_PROP
      <3>1. e = IF fdt_offset_ptr(x, o + T, T) THEN AddU(o + T + PropHdr - T, PropLen(x, o)) ELSE -1
        <4>1. tag # FDT_BEGIN_NODE
          BY <2>2 DEF FDT_BEGIN_NODE, FDT_PROP
        <4> QED BY <1>1, <2>2, <4>1 DEF e, EndOf
      <3>2. CASE fdt_offset_ptr(x, o + T, T)
        <4>1. (o + T) + T <= s
          <5>1. T < W
            BY <1>1, <1>2
          <5>2. PICK q \in Nat : q = o + T
            OBVIOUS
          <5> QED BY <1>1, <3>2, <5>1, <5>2, OffsetPtrOnly
        <4>2. base + (d + (o + T) + T - 1) \in 0..(A - 1)
          BY <1>1, <1>2, <4>1
        <4>3. x.mem[base + (d + (o + T) + T - 1)] \in Int
          BY <1>1, <4>2 DEF InArena, Memory
        <4>4. PropLen(x, o) \in Int
          BY <1>1, <4>3 DEF PropLen, StructWord, Word, Cell
        <4>5. o + T + PropHdr - T \in Int
          BY <1>1 DEF PropHdr
        <4>6. \A i, j \in Int : AddU(i, j) \in Int
          BY <1>1 DEF AddU
        <4> QED BY <3>1, <3>2, <4>4, <4>5, <4>6
      <3>3. CASE ~fdt_offset_ptr(x, o + T, T)
        BY <3>1, <3>3
      <3> QED BY <3>2, <3>3
    <2>3. CASE tag # FDT_BEGIN_NODE /\ tag # FDT_PROP
      <3>1. e = o + T
        BY <1>1, <2>3 DEF e, EndOf
      <3> QED BY <3>1
    <2> QED BY <2>1, <2>2, <2>3
  <1>7. e \in Nat
    BY <1>4, <1>6
  <1> QED BY <1>4, <1>7, TagAlign

\* A walk along a successor function is well defined: its value at o is what
\* every set closed under the successor and holding o contains.
LEMMA WalkExists ==
    ASSUME NEW end \in [Nat -> BOOLEAN], NEW nxt \in [Nat -> Nat]
    PROVE  \E w : w = [o \in Nat |-> {o} \cup IF end[o] THEN {} ELSE w[nxt[o]]]
  <1> DEFINE Closed(S) == \A q \in S : end[q] = FALSE => nxt[q] \in S
             Reach(o) == {q \in Nat : \A S \in SUBSET Nat : o \in S /\ Closed(S) => q \in S}
             w == [o \in Nat |-> Reach(o)]
  <1>1. ASSUME NEW o \in Nat
        PROVE  Reach(o) = {o} \cup IF end[o] THEN {} ELSE Reach(nxt[o])
    <2>1. \A q \in Nat : end[q] \in BOOLEAN /\ nxt[q] \in Nat
      OBVIOUS
    <2>2. \A q \in Nat : q \in Reach(q) /\ Closed(Reach(q)) /\ Reach(q) \in SUBSET Nat
      <3> SUFFICES ASSUME NEW q \in Nat
                   PROVE  q \in Reach(q) /\ Closed(Reach(q)) /\ Reach(q) \in SUBSET Nat
        OBVIOUS
      <3>1. q \in Reach(q) /\ Reach(q) \in SUBSET Nat
        OBVIOUS
      <3>2. Closed(Reach(q))
        BY <2>1
      <3> QED BY <3>1, <3>2
    <2>3. CASE end[o] = TRUE
      <3>1. Closed({o}) /\ {o} \in SUBSET Nat
        BY <2>3
      <3>2. Reach(o) \subseteq {o}
        BY <3>1
      <3>3. o \in Reach(o)
        BY <2>2
      <3> HIDE DEF Reach
      <3> QED BY <2>3, <3>2, <3>3
    <2>4. CASE end[o] = FALSE
      <3> DEFINE n == nxt[o]
                 U == {o} \cup Reach(n)
      <3>0. n \in Nat
        BY <2>1
      <3>1. n \in Reach(n) /\ Closed(Reach(n)) /\ Reach(n) \in SUBSET Nat
        BY <2>2, <3>0
      <3>2. Closed(U) /\ U \in SUBSET Nat /\ o \in U
        <4> HIDE DEF Reach
        <4> QED BY <3>1
      <3>3. Reach(o) \subseteq U
        <4> HIDE DEF Closed, U
        <4> QED BY <3>2
      <3>4. Reach(n) \subseteq Reach(o)
        <4> SUFFICES ASSUME NEW q \in Reach(n), NEW S \in SUBSET Nat, o \in S, Closed(S)
                     PROVE  q \in S
          BY <3>1
        <4>1. n \in S
          BY <2>4
        <4> HIDE DEF n, Closed
        <4> QED BY <4>1
      <3>5. o \in Reach(o)
        BY <2>2
      <3> HIDE DEF Reach
      <3> QED BY <2>4, <3>3, <3>4, <3>5
    <2> QED BY <2>1, <2>3, <2>4
  <1> HIDE DEF Reach
  <1>2. \A o \in Nat : w[o] = {o} \cup IF end[o] THEN {} ELSE w[nxt[o]]
    BY <1>1
  <1>3. w = [o \in Nat |-> w[o]]
    OBVIOUS
  <1> HIDE DEF w
  <1>4. w = [o \in Nat |-> {o} \cup IF end[o] THEN {} ELSE w[nxt[o]]]
    BY <1>2, <1>3
  <1> QED BY <1>4

\* The equation of the walk of fdt_finish.
LEMMA TagOffsetsDef ==
    ASSUME NEW x, Readable(x), InArena(x)
    PROVE  \E w : /\ TagOffsets(x) = w[0]
                  /\ \A o \in Nat : w[o] = {o} \cup IF fdt_next_tag(x, o).tag = FDT_END THEN {}
                                                    ELSE w[fdt_next_tag(x, o).next]
  <1> DEFINE Tag(o) == fdt_next_tag(x, o).tag
             Nxt(o) == fdt_next_tag(x, o).next
             Eq(u) == u = [o \in Nat |-> {o} \cup IF Tag(o) = FDT_END THEN {} ELSE u[Nxt(o)]]
  <1>1. TagOffsets(x) = (CHOOSE u : Eq(u))[0]
    BY DEF TagOffsets
  <1>2. \A o \in Nat : Tag(o) # FDT_END => Nxt(o) \in Nat
    BY NextTagNat
  <1> HIDE DEF Tag, Nxt
  <1> DEFINE end == [o \in Nat |-> Tag(o) = FDT_END]
             nxt == [o \in Nat |-> IF Tag(o) = FDT_END THEN 0 ELSE Nxt(o)]
  <1>3. end \in [Nat -> BOOLEAN] /\ nxt \in [Nat -> Nat]
    BY <1>2
  <1>4. \A o \in Nat : (end[o] <=> Tag(o) = FDT_END) /\ (Tag(o) # FDT_END => nxt[o] = Nxt(o))
    OBVIOUS
  <1> HIDE DEF end, nxt
  <1>5. PICK u : u = [o \in Nat |-> {o} \cup IF end[o] THEN {} ELSE u[nxt[o]]]
    BY <1>3, WalkExists
  <1>6. \A o \in Nat : u[o] = {o} \cup IF Tag(o) = FDT_END THEN {} ELSE u[Nxt(o)]
    <2> SUFFICES ASSUME NEW o \in Nat
                 PROVE  u[o] = {o} \cup IF Tag(o) = FDT_END THEN {} ELSE u[Nxt(o)]
      OBVIOUS
    <2>1. u[o] = {o} \cup IF end[o] THEN {} ELSE u[nxt[o]]
      BY <1>5
    <2>2. CASE Tag(o) = FDT_END
      BY <1>4, <2>1, <2>2
    <2>3. CASE Tag(o) # FDT_END
      BY <1>4, <2>1, <2>3
    <2> QED BY <2>2, <2>3
  <1>7. Eq(u)
    <2>1. u = [o \in Nat |-> u[o]]
      BY <1>5
    <2> QED BY <1>6, <2>1
  <1> HIDE DEF Eq
  <1> DEFINE v == CHOOSE z : Eq(z)
  <1>8. Eq(v)
    BY <1>7
  <1> HIDE DEF v
  <1>9. \A o \in Nat : v[o] = {o} \cup IF Tag(o) = FDT_END THEN {} ELSE v[Nxt(o)]
    BY <1>8 DEF Eq
  <1>10. TagOffsets(x) = v[0]
    BY <1>1 DEF v
  <1> QED BY <1>9, <1>10 DEF Tag, Nxt

\* A blob whose structure block holds the tokens of l, the last one FDT_END.
Terminated(x, l) ==
    /\ Readable(x) /\ InArena(x) /\ l \in Seq(TokenSet) /\ Len(l) > 0
    /\ \A i \in 1..Len(l) : l[i].tag = FDT_END <=> i = Len(l)
    /\ \A i \in 1..Len(l) : TokenCells(x, PosOf(l)[i], l[i])
    /\ x.size_dt_struct = PosOf(l)[Len(l) + 1]

\* fdt_next_tag at each of these tokens.
LEMMA TagAt ==
    ASSUME NEW x, NEW l, Terminated(x, l), NEW i \in 1..Len(l)
    PROVE  fdt_next_tag(x, PosOf(l)[i]) = [tag |-> l[i].tag, next |-> PosOf(l)[i + 1]]
  <1>1. l \in Seq(TokenSet) /\ Readable(x)
    BY DEF Terminated
  <1>2. PICK t \in TokenSet : t = l[i]
    BY <1>1
  <1>3. i \in 1..(Len(l) + 1) /\ Len(l) + 1 \in (i + 1)..(Len(l) + 1)
    BY <1>1
  <1>4. PICK p \in Nat : p = PosOf(l)[i] /\ Aligned(p)
    <2>1. PosOf(l)[i] \in Nat /\ Aligned(PosOf(l)[i])
      BY <1>1, <1>3, Positions
    <2> QED BY <2>1
  <1>5. PosOf(l)[i + 1] = p + TokenSize(t)
    BY <1>1, <1>2, <1>4, Positions
  <1>6. p + TokenSize(t) <= x.size_dt_struct
    <2>1. PosOf(l)[i] + TokenSize(l[i]) <= PosOf(l)[Len(l) + 1]
      BY <1>1, <1>3, Positions
    <2> QED BY <1>2, <1>4, <2>1 DEF Terminated
  <1>7. TokenCells(x, p, t)
    BY <1>2, <1>4 DEF Terminated
  <1>8. fdt_next_tag(x, p) = [tag |-> t.tag, next |-> p + TokenSize(t)]
    BY <1>1, <1>4, <1>6, <1>7, NextTag
  <1> QED BY <1>2, <1>4, <1>5, <1>8

\* The walk visits the tokens, and nothing else.
LEMMA WalkTokens ==
    ASSUME NEW x, NEW l, Terminated(x, l)
    PROVE  TagOffsets(x) = {PosOf(l)[i] : i \in 1..Len(l)}
  <1> DEFINE P == PosOf(l)
  <1>1. l \in Seq(TokenSet) /\ Readable(x) /\ InArena(x)
    BY DEF Terminated
  <1>2. PICK n \in Nat : n = Len(l) /\ n > 0
    BY <1>1 DEF Terminated
  <1>3. PICK w : /\ TagOffsets(x) = w[0]
                 /\ \A o \in Nat : w[o] = {o} \cup IF fdt_next_tag(x, o).tag = FDT_END THEN {}
                                                    ELSE w[fdt_next_tag(x, o).next]
    BY <1>1, TagOffsetsDef
  <1>4. \A i \in 1..n : P[i] \in Nat
    <2>1. \A i \in 1..n : i \in 1..(Len(l) + 1)
      BY <1>2
    <2> QED BY <1>1, <2>1, Positions
  <1>5. \A i \in 1..n : fdt_next_tag(x, P[i]) = [tag |-> l[i].tag, next |-> P[i + 1]]
    BY <1>2, TagAt
  <1>6. \A i \in 1..n : l[i].tag = FDT_END <=> i = n
    BY <1>2 DEF Terminated
  <1>7. P[1] = 0
    BY PosStep
  <1> HIDE DEF P
  <1>8. \A i \in 1..n : w[P[i]] = {P[i]} \cup IF i = n THEN {} ELSE w[P[i + 1]]
    <2> SUFFICES ASSUME NEW i \in 1..n
                 PROVE  w[P[i]] = {P[i]} \cup IF i = n THEN {} ELSE w[P[i + 1]]
      OBVIOUS
    <2>1. w[P[i]] = {P[i]} \cup IF fdt_next_tag(x, P[i]).tag = FDT_END THEN {}
                               ELSE w[fdt_next_tag(x, P[i]).next]
      BY <1>3, <1>4
    <2>2. fdt_next_tag(x, P[i]).tag = l[i].tag /\ fdt_next_tag(x, P[i]).next = P[i + 1]
      <3>1. PICK q : q = fdt_next_tag(x, P[i])
        OBVIOUS
      <3>2. PICK g, p : g = l[i].tag /\ p = P[i + 1]
        OBVIOUS
      <3>3. q = [tag |-> g, next |-> p]
        BY <1>5, <3>1, <3>2, Zenon
      <3>4. q.tag = g /\ q.next = p
        BY <3>3
      <3> QED BY <3>1, <3>2, <3>4, Zenon
    <2>3. CASE i = n
      BY <1>6, <2>1, <2>2, <2>3
    <2>4. CASE i # n
      BY <1>6, <2>1, <2>2, <2>4
    <2> QED BY <2>3, <2>4
  <1> DEFINE Rest(i) == {P[j] : j \in i..n}
             Bad == {k \in Nat : k \in 0..(n - 1) /\ w[P[n - k]] # Rest(n - k)}
  <1>9. Bad = {}
    <2> SUFFICES ASSUME Bad # {} PROVE FALSE
      OBVIOUS
    <2>1. PICK k \in Bad : \A j \in Bad : k <= j
      BY LeastNat
    <2>2. k \in Nat /\ k \in 0..(n - 1) /\ w[P[n - k]] # Rest(n - k)
      BY <2>1
    <2>3. PICK i \in 1..n : i = n - k
      BY <2>2
    <2>4. CASE i = n
      <3>1. w[P[i]] = {P[n]}
        BY <1>8, <2>4
      <3>2. Rest(i) = {P[n]}
        <4>1. \A j : j \in n..n <=> j = n
          OBVIOUS
        <4> QED BY <2>4, <4>1
      <3> QED BY <2>2, <2>3, <3>1, <3>2
    <2>5. CASE i # n
      <3>1. k - 1 \in Nat /\ k - 1 \in 0..(n - 1) /\ ~(k <= k - 1) /\ n - (k - 1) = i + 1
        BY <2>2, <2>3, <2>5
      <3>2. w[P[i + 1]] = Rest(i + 1)
        BY <2>1, <3>1
      <3>3. w[P[i]] = {P[i]} \cup w[P[i + 1]]
        BY <1>8, <2>5
      <3>4. Rest(i) = {P[i]} \cup Rest(i + 1)
        <4>1. \A j : j \in i..n <=> j = i \/ j \in (i + 1)..n
          BY <2>5
        <4> QED BY <4>1
      <3> QED BY <2>2, <2>3, <3>2, <3>3, <3>4
    <2> QED BY <2>4, <2>5
  <1>10. w[P[1]] = Rest(1)
    <2>1. PICK k \in Nat : k = n - 1 /\ k \in 0..(n - 1) /\ n - k = 1
      BY <1>2
    <2>2. k \notin Bad
      BY <1>9
    <2> QED BY <2>1, <2>2
  <1>11. TagOffsets(x) = Rest(1)
    BY <1>3, <1>7, <1>10
  <1> QED BY <1>2, <1>11 DEF P

\* The cells of the token t at p are the same in x and y, but for the word of a
\* property's name offset.
SameToken(x, y, p, t) ==
    LET at == x.off_dt_struct + p
    IN  /\ y.off_dt_struct = x.off_dt_struct /\ at \in Nat /\ t \in TokenSet
        /\ \A k \in at..(at + TokenSize(t) - 1) :
              (t.tag = FDT_PROP => k # at + 3 * TAGSIZE - 1) => Cell(y, k) = Cell(x, k)

\* Such a token is still there.
LEMMA TokenSame ==
    ASSUME NEW x, NEW y, NEW p, NEW t, SameToken(x, y, p, t), TokenCells(x, p, t)
    PROVE  TokenCells(y, p, t)
  <1>1. t \in TokenSet /\ y.off_dt_struct = x.off_dt_struct
    BY DEF SameToken
  <1>2. PICK at \in Nat : at = x.off_dt_struct + p
    BY DEF SameToken
  <1>3. PICK T \in Nat, z \in Nat : T = TAGSIZE /\ T > 0 /\ z = TokenSize(t) /\ z >= T
    BY <1>1, Sizes, TokenSizes
  <1>4. \A k \in at..(at + z - 1) :
           (t.tag = FDT_PROP => k # at + 3 * T - 1) => Cell(y, k) = Cell(x, k)
    BY <1>2, <1>3 DEF SameToken
  <1>5. t.name \in Seq(Nat \ {0}) /\ t.val \in Seq(Nat)
    BY <1>1 DEF TokenSet
  <1>6. PICK n \in Nat, v \in Nat : n = Len(t.name) /\ v = Len(t.val)
    BY <1>5
  <1>7. at + T - 1 \in at..(at + z - 1) /\ at + T - 1 # at + 3 * T - 1
    BY <1>3
  <1>8. Word(y, at) = Word(x, at)
    BY <1>3, <1>4, <1>7 DEF Word
  <1>9. Word(x, at) = t.tag
    BY <1>2 DEF TokenCells
  <1>10. CASE t.tag = FDT_BEGIN_NODE
    <2>1. t.tag # FDT_PROP
      BY <1>10 DEF FDT_BEGIN_NODE, FDT_PROP
    <2>2. z >= T + n + 1
      BY <1>1, <1>3, <1>6, <1>10, TokenSizes
    <2>3. PICK s : s = Append(t.name, NUL)
      OBVIOUS
    <2>4. Len(s) = n + 1
      BY <1>5, <1>6, <2>3
    <2>5. HoldsIn(x, at + T, s)
      BY <1>2, <1>3, <1>10, <2>3 DEF TokenCells
    <2>6. ASSUME NEW i \in 1..(n + 1) PROVE Cell(y, at + T + i - 1) = Cell(x, at + T + i - 1)
      <3>1. at + T + i - 1 \in at..(at + z - 1)
        BY <2>2
      <3> QED BY <1>4, <2>1, <3>1
    <2>7. HoldsIn(y, at + T, s)
      BY <2>4, <2>5, <2>6 DEF HoldsIn
    <2> QED BY <1>1, <1>2, <1>3, <1>8, <1>9, <2>1, <2>3, <2>7 DEF TokenCells
  <1>11. CASE t.tag = FDT_PROP
    <2>1. t.tag # FDT_BEGIN_NODE
      BY <1>11 DEF FDT_BEGIN_NODE, FDT_PROP
    <2>2. z >= 3 * T + v
      BY <1>1, <1>3, <1>6, <1>11, TokenSizes
    <2>3. PropHdr = 3 * T
      BY <1>3 DEF PropHdr
    <2>4. HoldsIn(x, at + 3 * T, t.val) /\ Word(x, at + T) = v
      BY <1>2, <1>3, <1>6, <1>11, <2>3 DEF TokenCells
    <2>5. ASSUME NEW i \in 1..v PROVE Cell(y, at + 3 * T + i - 1) = Cell(x, at + 3 * T + i - 1)
      <3>1. PICK q \in Nat : q = 3 * T
        OBVIOUS
      <3>2. at + q + i - 1 \in at..(at + z - 1) /\ at + q + i - 1 # at + q - 1
        BY <2>2, <3>1
      <3> QED BY <1>4, <3>1, <3>2
    <2>6. HoldsIn(y, at + 3 * T, t.val)
      BY <1>6, <2>4, <2>5 DEF HoldsIn
    <2>7. Word(y, at + T) = v
      <3>1. at + T + T - 1 \in at..(at + z - 1) /\ at + T + T - 1 # at + 3 * T - 1
        BY <1>3, <2>2
      <3>2. Cell(y, at + T + T - 1) = Cell(x, at + T + T - 1)
        BY <1>4, <3>1
      <3> QED BY <1>3, <2>4, <3>2 DEF Word
    <2> QED BY <1>1, <1>2, <1>3, <1>6, <1>8, <1>9, <2>1, <2>3, <2>6, <2>7 DEF TokenCells
  <1>12. CASE t.tag # FDT_BEGIN_NODE /\ t.tag # FDT_PROP
    BY <1>1, <1>2, <1>8, <1>9, <1>12 DEF TokenCells
  <1> QED BY <1>10, <1>11, <1>12

\* The words fdt_finish relocates: the name offsets of the properties of l,
\* in a structure block that starts at o.
NameWord(o, l, k) ==
    \E j \in 1..Len(l) : l[j].tag = FDT_PROP /\ k = o + PosOf(l)[j] + 3 * TAGSIZE - 1
OwnWord(o, l, k, p, t) ==
    k \in (o + p)..(o + p + TokenSize(t) - 1) =>
        (NameWord(o, l, k) <=> t.tag = FDT_PROP /\ k = o + p + 3 * TAGSIZE - 1)

\* Each of them lies in its own token.
LEMMA NameWords ==
    ASSUME NEW o \in Nat, NEW l \in Seq(TokenSet), NEW k \in Nat
    PROVE  /\ NameWord(o, l, k) => o <= k /\ k < o + PosOf(l)[Len(l) + 1]
           /\ \A i \in 1..Len(l) : OwnWord(o, l, k, PosOf(l)[i], l[i])
  <1>1. PICK n \in Nat : n = Len(l)
    OBVIOUS
  <1>2. PICK T \in Nat : T = TAGSIZE /\ T > 0
    BY Sizes
  <1> DEFINE P == PosOf(l)
             Z(i) == TokenSize(l[i])
  <1>3. /\ \A i \in 1..(n + 1) : P[i] \in Nat
        /\ \A i \in 1..n : \A j \in (i + 1)..(n + 1) : P[i] + Z(i) <= P[j]
    BY <1>1, Positions
  <1>4. \A i \in 1..n : /\ Z(i) \in Nat /\ Z(i) >= T
                        /\ l[i].tag = FDT_PROP => Z(i) >= 3 * T
    <2> SUFFICES ASSUME NEW i \in 1..n
                 PROVE  Z(i) \in Nat /\ Z(i) >= T /\ (l[i].tag = FDT_PROP => Z(i) >= 3 * T)
      OBVIOUS
    <2>1. PICK t \in TokenSet : t = l[i]
      BY <1>1
    <2>2. Len(t.val) \in Nat
      BY DEF TokenSet
    <2>3. /\ TokenSize(t) \in Nat /\ TokenSize(t) >= TAGSIZE
          /\ t.tag = FDT_PROP => TokenSize(t) >= 3 * TAGSIZE + Len(t.val)
      BY TokenSizes
    <2>4. PICK z \in Nat, v \in Nat : z = TokenSize(t) /\ v = Len(t.val)
      BY <2>2, <2>3
    <2>5. z >= T /\ (t.tag = FDT_PROP => z >= 3 * T + v)
      BY <1>2, <2>3, <2>4
    <2>6. t.tag = FDT_PROP => z >= 3 * T
      BY <2>5
    <2> QED BY <2>1, <2>4, <2>5, <2>6
  <1> HIDE DEF P, Z
  <1>5. ASSUME NEW j \in 1..n, l[j].tag = FDT_PROP, k = o + P[j] + 3 * T - 1
        PROVE  o + P[j] <= k /\ k < o + P[j] + Z(j)
    <2>1. PICK p \in Nat, z \in Nat : p = P[j] /\ z = Z(j) /\ z >= 3 * T
      BY <1>3, <1>4, <1>5
    <2>2. k = o + p + 3 * T - 1
      BY <1>5, <2>1
    <2> QED BY <1>2, <2>1, <2>2
  <1>6. ASSUME NEW j \in 1..n, l[j].tag = FDT_PROP, k = o + P[j] + 3 * T - 1
        PROVE  o <= k /\ k < o + P[n + 1]
    <2>1. PICK p \in Nat, z \in Nat, e \in Nat : p = P[j] /\ z = Z(j) /\ e = P[n + 1] /\ p + z <= e
      <3>1. n + 1 \in (j + 1)..(n + 1) /\ n + 1 \in 1..(n + 1) /\ j \in 1..(n + 1)
        OBVIOUS
      <3> QED BY <1>3, <1>4, <3>1
    <2>2. o + p <= k /\ k < o + p + z
      BY <1>5, <1>6, <2>1
    <2> QED BY <2>1, <2>2
  <1>7. ASSUME NEW i \in 1..n, k \in (o + P[i])..(o + P[i] + Z(i) - 1),
               NEW j \in 1..n, l[j].tag = FDT_PROP, k = o + P[j] + 3 * T - 1
        PROVE  i = j
    <2>1. PICK pi \in Nat, zi \in Nat, pj \in Nat, zj \in Nat :
             pi = P[i] /\ zi = Z(i) /\ pj = P[j] /\ zj = Z(j)
      <3>1. i \in 1..(n + 1) /\ j \in 1..(n + 1)
        OBVIOUS
      <3>2. P[i] \in Nat /\ P[j] \in Nat
        BY <1>3, <3>1
      <3>3. Z(i) \in Nat /\ Z(j) \in Nat
        BY <1>4
      <3> QED BY <3>2, <3>3
    <2>2. o + pj <= k /\ k < o + pj + zj
      BY <1>5, <1>7, <2>1
    <2>3. o + pi <= k /\ k < o + pi + zi
      <3>1. k \in (o + pi)..(o + pi + zi - 1)
        BY <1>7, <2>1
      <3> QED BY <3>1
    <2>4. i < j => pi + zi <= pj
      <3> SUFFICES ASSUME i < j PROVE pi + zi <= pj
        OBVIOUS
      <3>1. j \in (i + 1)..(n + 1)
        OBVIOUS
      <3>2. P[i] + Z(i) <= P[j]
        BY <1>3, <3>1
      <3> QED BY <2>1, <3>2
    <2>5. j < i => pj + zj <= pi
      <3> SUFFICES ASSUME j < i PROVE pj + zj <= pi
        OBVIOUS
      <3>1. i \in (j + 1)..(n + 1)
        OBVIOUS
      <3>2. P[j] + Z(j) <= P[i]
        BY <1>3, <3>1
      <3> QED BY <2>1, <3>2
    <2> QED BY <2>2, <2>3, <2>4, <2>5
  <1>8. NameWord(o, l, k) <=> \E j \in 1..n : l[j].tag = FDT_PROP /\ k = o + P[j] + 3 * T - 1
    BY <1>1, <1>2 DEF NameWord, P
  <1>9. NameWord(o, l, k) => o <= k /\ k < o + P[n + 1]
    BY <1>6, <1>8
  <1>10. ASSUME NEW i \in 1..n, k \in (o + P[i])..(o + P[i] + Z(i) - 1)
         PROVE  NameWord(o, l, k) <=> l[i].tag = FDT_PROP /\ k = o + P[i] + 3 * T - 1
    BY <1>7, <1>8, <1>10
  <1>11. \A i \in 1..Len(l) : OwnWord(o, l, k, PosOf(l)[i], l[i])
    BY <1>1, <1>2, <1>10 DEF P, Z, OwnWord
  <1>12. NameWord(o, l, k) => o <= k /\ k < o + PosOf(l)[Len(l) + 1]
    BY <1>1, <1>9 DEF P
  <1> QED BY <1>11, <1>12

\* y is x with the name offsets counted from the start of the strings, which
\* lie right above the structure block.
Relocated(x, y, l, r) ==
    /\ x.off_dt_struct \in Nat /\ x.off_mem_rsvmap \in Nat /\ x.size_dt_strings \in Nat
    /\ HDRSIZE <= x.off_mem_rsvmap /\ x.off_mem_rsvmap <= x.off_dt_struct /\ Agree(x, l, r)
    /\ y.off_dt_struct = x.off_dt_struct /\ y.off_mem_rsvmap = x.off_mem_rsvmap
    /\ y.size_dt_strings = x.size_dt_strings
    /\ \A k \in 0..(StructTop(x) + x.size_dt_strings - 1) :
          Cell(y, k) = IF NameWord(x.off_dt_struct, l, k) THEN Cell(x, k) + x.size_dt_strings
                       ELSE Cell(x, k)

\* What the relocation leaves alone, and what it adds to.
LEMMA RelocatedCells ==
    ASSUME NEW x, NEW y, NEW l, NEW r, Relocated(x, y, l, r),
           NEW o \in Nat, o = x.off_dt_struct, NEW top \in Nat, top = StructTop(x),
           NEW w \in Nat, w = x.size_dt_strings
    PROVE  /\ o <= top
           /\ \A k \in 0..(o - 1) : Cell(y, k) = Cell(x, k)
           /\ \A k \in top..(top + w - 1) : Cell(y, k) = Cell(x, k)
           /\ \A i \in 1..Len(l) : SameToken(x, y, PosOf(l)[i], l[i])
           /\ \A i \in 1..Len(l) : l[i].tag = FDT_PROP =>
                 NameOff(y, PosOf(l)[i]) = NameOff(x, PosOf(l)[i]) + w
  <1>1. l \in Seq(TokenSet) /\ x.size_dt_struct = PosOf(l)[Len(l) + 1]
    BY DEF Relocated, Agree
  <1>2. PICK n \in Nat : n = Len(l)
    BY <1>1
  <1>3. PICK e \in Nat : e = PosOf(l)[n + 1] /\ e = x.size_dt_struct
    <2>1. Len(l) + 1 \in 1..(Len(l) + 1)
      BY <1>1
    <2>2. PosOf(l)[Len(l) + 1] \in Nat
      BY <1>1, <2>1, Positions
    <2> QED BY <1>1, <1>2, <2>2
  <1>4. top = o + e
    BY <1>3 DEF StructTop
  <1>5. \A k \in 0..(top + w - 1) : Cell(y, k) = IF NameWord(o, l, k) THEN Cell(x, k) + w ELSE Cell(x, k)
    BY DEF Relocated
  <1>6. \A k \in Nat : NameWord(o, l, k) => o <= k /\ k < o + e
    BY <1>1, <1>2, <1>3, NameWords
  <1>7. ASSUME NEW k \in 0..(o - 1) PROVE Cell(y, k) = Cell(x, k)
    <2>1. k \in Nat /\ k \in 0..(top + w - 1) /\ ~(o <= k)
      BY <1>4
    <2>2. ~NameWord(o, l, k)
      BY <1>6, <2>1
    <2> QED BY <1>5, <2>1, <2>2
  <1>8. ASSUME NEW k \in top..(top + w - 1) PROVE Cell(y, k) = Cell(x, k)
    <2>1. k \in Nat /\ k \in 0..(top + w - 1) /\ ~(k < o + e)
      BY <1>4
    <2>2. ~NameWord(o, l, k)
      BY <1>6, <2>1
    <2> QED BY <1>5, <2>1, <2>2
  <1>9. ASSUME NEW i \in 1..n
        PROVE  /\ SameToken(x, y, PosOf(l)[i], l[i])
               /\ l[i].tag = FDT_PROP => NameOff(y, PosOf(l)[i]) = NameOff(x, PosOf(l)[i]) + w
    <2>1. PICK t \in TokenSet : t = l[i]
      BY <1>1, <1>2
    <2>2. PICK p \in Nat : p = PosOf(l)[i]
      <3>1. i \in 1..(Len(l) + 1)
        BY <1>2
      <3>2. PosOf(l)[i] \in Nat
        BY <1>1, <3>1, Positions
      <3> QED BY <3>2
    <2>3. PICK T \in Nat, z \in Nat : T = TAGSIZE /\ T > 0 /\ z = TokenSize(t)
      BY Sizes, TokenSizes
    <2>4. p + z <= e
      <3>1. i \in 1..Len(l) /\ Len(l) + 1 \in (i + 1)..(Len(l) + 1)
        BY <1>2
      <3>2. PosOf(l)[i] + TokenSize(l[i]) <= PosOf(l)[Len(l) + 1]
        BY <1>1, <3>1, Positions
      <3> QED BY <1>2, <1>3, <2>1, <2>2, <2>3, <3>2
    <2>5. ASSUME NEW k \in (o + p)..(o + p + z - 1)
          PROVE  /\ k \in 0..(top + w - 1)
                 /\ NameWord(o, l, k) <=> t.tag = FDT_PROP /\ k = o + p + 3 * T - 1
      <3>1. k \in Nat /\ k \in 0..(top + w - 1)
        BY <1>4, <2>4
      <3>2. i \in 1..Len(l)
        BY <1>2
      <3>3. OwnWord(o, l, k, p, t)
        BY <1>1, <2>1, <2>2, <3>1, <3>2, NameWords
      <3>4. NameWord(o, l, k) <=> t.tag = FDT_PROP /\ k = o + p + 3 * T - 1
        BY <2>3, <3>3 DEF OwnWord
      <3> QED BY <3>1, <3>4
    <2>6. SameToken(x, y, p, t)
      <3>1. ASSUME NEW k \in (o + p)..(o + p + z - 1), t.tag = FDT_PROP => k # o + p + 3 * T - 1
            PROVE  Cell(y, k) = Cell(x, k)
        BY <1>5, <2>5, <3>1
      <3>2. y.off_dt_struct = o /\ o + p \in Nat
        BY DEF Relocated
      <3> QED BY <2>3, <3>1, <3>2 DEF SameToken
    <2>7. ASSUME t.tag = FDT_PROP PROVE NameOff(y, p) = NameOff(x, p) + w
      <3>1. z >= 3 * T
        <4>1. PICK v \in Nat : v = Len(t.val)
          BY DEF TokenSet
        <4>2. z >= 3 * T + v
          BY <2>3, <2>7, <4>1, TokenSizes
        <4> QED BY <4>2
      <3>2. PICK k \in Nat : k = o + p + 2 * T + T - 1 /\ k \in (o + p)..(o + p + z - 1) /\ k = o + p + 3 * T - 1
        BY <2>3, <3>1
      <3>3. Cell(y, k) = Cell(x, k) + w
        BY <1>5, <2>5, <2>7, <3>2
      <3>4. NameOff(y, p) = Cell(y, k) /\ NameOff(x, p) = Cell(x, k)
        BY <2>3, <3>2 DEF NameOff, Word, Relocated
      <3> QED BY <3>3, <3>4
    <2> QED BY <2>1, <2>2, <2>6, <2>7
  <1> QED BY <1>2, <1>4, <1>7, <1>8, <1>9

\* The name of a property, found from the new origin.
LEMMA RelocatedName ==
    ASSUME NEW x, NEW y, NEW p, NEW t \in TokenSet, NEW top \in Nat, NEW w \in Nat,
           x.size_dt_strings = w, y.size_dt_strings = w,
           \A k \in top..(top + w - 1) : Cell(y, k) = Cell(x, k),
           t.tag = FDT_PROP => NameOff(y, p) = NameOff(x, p) + w,
           NameCells(x, top + w, -w, p, t)
    PROVE  NameCells(y, top, 0, p, t)
  <1> SUFFICES ASSUME t.tag = FDT_PROP PROVE NameCells(y, top, 0, p, t)
    BY DEF NameCells
  <1>1. PICK s : s = Append(t.name, NUL)
    OBVIOUS
  <1>2. PICK off \in Int : off = NameOff(x, p)
    BY DEF NameCells
  <1>3. PICK n \in Nat : n = Len(t.name)
    BY DEF TokenSet
  <1>4. Len(s) = n + 1
    BY <1>1, <1>3 DEF TokenSet
  <1>5. -w <= off /\ off + n + 1 <= -w + w /\ HoldsIn(x, top + w + off, s)
    BY <1>1, <1>2, <1>3, Zenon DEF NameCells
  <1>6. PICK q \in Int : q = off + w /\ q = NameOff(y, p)
    BY <1>2
  <1>7. 0 <= q /\ q + n + 1 <= 0 + w
    BY <1>5, <1>6
  <1>8. ASSUME NEW i \in 1..(n + 1) PROVE Cell(y, top + q + i - 1) = s[i]
    <2>1. top + q + i - 1 \in top..(top + w - 1) /\ top + q + i - 1 = top + w + off + i - 1
      BY <1>6, <1>7
    <2>2. Cell(x, top + w + off + i - 1) = s[i]
      BY <1>4, <1>5 DEF HoldsIn
    <2> QED BY <2>1, <2>2
  <1>9. HoldsIn(y, top + q, s)
    BY <1>4, <1>8 DEF HoldsIn
  <1> QED BY <1>1, <1>3, <1>6, <1>7, <1>9 DEF NameCells

\* Everything the blob held is there after the relocation.
LEMMA RelocatedContent ==
    ASSUME NEW x, NEW y, NEW l, NEW r, Relocated(x, y, l, r),
           NEW top \in Nat, top = StructTop(x), NEW w \in Nat, w = x.size_dt_strings,
           Content(x, top + w, -w, l, r)
    PROVE  Content(y, top, 0, l, r)
  <1>1. PICK o \in Nat, m \in Nat : o = x.off_dt_struct /\ m = x.off_mem_rsvmap /\ m <= o
                                    /\ HDRSIZE <= m
    BY DEF Relocated
  <1>2. /\ o <= top
        /\ \A k \in 0..(o - 1) : Cell(y, k) = Cell(x, k)
        /\ \A k \in top..(top + w - 1) : Cell(y, k) = Cell(x, k)
        /\ \A i \in 1..Len(l) : SameToken(x, y, PosOf(l)[i], l[i])
        /\ \A i \in 1..Len(l) : l[i].tag = FDT_PROP =>
              NameOff(y, PosOf(l)[i]) = NameOff(x, PosOf(l)[i]) + w
    BY <1>1, RelocatedCells
  <1>3. l \in Seq(TokenSet) /\ r \in Seq(Nat) /\ o = m + Len(r) * RSVSIZE
    BY <1>1 DEF Relocated, Agree
  <1>4. HoldsIn(y, 0, [i \in 1..HDRSIZE |-> HDRMARK])
    <2>1. PICK h \in Nat : h = HDRSIZE
      BY Sizes
    <2> DEFINE s == [i \in 1..h |-> HDRMARK]
    <2>2. Len(s) = h
      OBVIOUS
    <2>3. HoldsIn(x, 0, s)
      BY <2>1 DEF Content
    <2> HIDE DEF s
    <2>4. ASSUME NEW i \in 1..h PROVE Cell(y, 0 + i - 1) = s[i]
      <3>1. 0 + i - 1 \in 0..(o - 1)
        BY <1>1, <2>1
      <3> QED BY <1>2, <2>2, <2>3, <3>1 DEF HoldsIn
    <2>5. HoldsIn(y, 0, s)
      BY <2>2, <2>4 DEF HoldsIn
    <2> QED BY <2>1, <2>5 DEF s
  <1>5. ASSUME NEW i \in 1..Len(r) PROVE Cell(y, RsvAt(y, i)) = r[i]
    <2>0. Len(r) \in Nat
      BY <1>3
    <2>a. PICK z \in Nat : z = RSVSIZE /\ z > 0
      BY Sizes
    <2>b. PICK q \in Nat, e \in Nat : q = (i - 1) * RSVSIZE /\ e = Len(r) * RSVSIZE /\ q + RSVSIZE <= e
      BY <2>0, RsvGap
    <2>1. q = (i - 1) * RSVSIZE /\ q + z <= e
      BY <2>a, <2>b
    <2>c. o = m + e
      BY <1>3, <2>b
    <2>2. m + q \in 0..(o - 1)
      BY <2>a, <2>1, <2>c
    <2>3. RsvAt(y, i) = m + q /\ RsvAt(x, i) = m + q
      BY <1>1, <2>1 DEF RsvAt, Relocated
    <2>4. Cell(x, m + q) = r[i]
      BY <2>3 DEF Content
    <2> QED BY <1>2, <2>2, <2>3, <2>4
  <1>6. ASSUME NEW i \in 1..Len(l)
        PROVE  TokenCells(y, PosOf(l)[i], l[i]) /\ NameCells(y, top, 0, PosOf(l)[i], l[i])
    <2>1. PICK p : p = PosOf(l)[i]
      OBVIOUS
    <2>2. PICK t \in TokenSet : t = l[i]
      BY <1>3
    <2>3. /\ SameToken(x, y, p, t) /\ TokenCells(x, p, t) /\ NameCells(x, top + w, -w, p, t)
          /\ t.tag = FDT_PROP => NameOff(y, p) = NameOff(x, p) + w
      BY <1>2, <2>1, <2>2 DEF Content
    <2>4. TokenCells(y, p, t)
      BY <2>3, TokenSame
    <2>5. y.size_dt_strings = w
      BY DEF Relocated
    <2>6. NameCells(y, top, 0, p, t)
      BY <1>2, <2>3, <2>5, RelocatedName
    <2> QED BY <2>1, <2>2, <2>4, <2>6
  <1> QED BY <1>4, <1>5, <1>6 DEF Content

\* The steps of fdt_finish: the strings moved down against the structure block,
\* the words with name offsets, the blob with those words relocated, and the
\* completed header.
Lowered(x) ==
    [x EXCEPT !.mem = memmove(x.mem, x.base + StructTop(x),
                              x.base + x.totalsize - x.size_dt_strings, x.size_dt_strings),
              !.off_dt_strings = StructTop(x)]
NamesOf(x) == {o \in TagOffsets(x) : fdt_next_tag(x, o).tag = FDT_PROP}
Renamed(x) ==
    [x EXCEPT !.mem = [a \in DOMAIN x.mem |->
                          IF \E o \in NamesOf(x) : a = x.base + x.off_dt_struct + o + PropHdr - 1
                          THEN x.mem[a] + x.size_dt_strings ELSE x.mem[a]]]
BrokenAt(x) == {o \in TagOffsets(x) : fdt_next_tag(x, o).next < 0}
Completed(x, newoff) ==
    [x EXCEPT !.totalsize = newoff + x.size_dt_strings,
              !.last_comp_version = FDT_LAST_COMPATIBLE_VERSION, !.magic = FDT_MAGIC]

Ended(x) == Store(fdt_grab_space_(x, TAGSIZE), StructTop(x), WordCells(FDT_END))
\* fdt_finish in these steps.
LEMMA FinishSteps ==
    ASSUME NEW x
    PROVE  fdt_finish(x) =
             IF fdt_sw_probe_struct_(x) # 0 THEN [b |-> x, err |-> fdt_sw_probe_struct_(x)]
             ELSE IF ~HasSpace(x, TAGSIZE) THEN Fail(x, NOSPACE)
             ELSE IF BrokenAt(Lowered(Ended(x))) # {}
                  THEN [b |-> Renamed(Lowered(Ended(x))),
                        err |-> fdt_next_tag(Lowered(Ended(x)),
                                             CHOOSE o \in BrokenAt(Lowered(Ended(x))) : TRUE).next]
             ELSE Done(Completed(Renamed(Lowered(Ended(x))), StructTop(Ended(x))))
  BY DEF fdt_finish, Lowered, NamesOf, Renamed, BrokenAt, Completed, Ended

\* When the walk meets no error, fdt_finish does all of it or nothing.
LEMMA FinishCases ==
    ASSUME NEW x,
           fdt_sw_probe_struct_(x) = 0 /\ HasSpace(x, TAGSIZE) => BrokenAt(Lowered(Ended(x))) = {}
    PROVE  \/ fdt_finish(x).b = x /\ fdt_finish(x).err # 0
           \/ /\ fdt_sw_probe_struct_(x) = 0 /\ HasSpace(x, TAGSIZE) /\ fdt_finish(x).err = 0
              /\ fdt_finish(x).b = Completed(Renamed(Lowered(Ended(x))), StructTop(Ended(x)))
  <1>3. CASE fdt_sw_probe_struct_(x) # 0
    <2>1. fdt_finish(x) = [b |-> x, err |-> fdt_sw_probe_struct_(x)]
      BY <1>3, FinishSteps
    <2> QED BY <1>3, <2>1
  <1>4. CASE fdt_sw_probe_struct_(x) = 0 /\ ~HasSpace(x, TAGSIZE)
    <2>1. fdt_finish(x) = Fail(x, NOSPACE)
      BY <1>4, FinishSteps
    <2> QED BY <2>1 DEF Fail, NOSPACE
  <1>5. CASE fdt_sw_probe_struct_(x) = 0 /\ HasSpace(x, TAGSIZE)
    <2>1. fdt_finish(x) = Done(Completed(Renamed(Lowered(Ended(x))), StructTop(Ended(x))))
      BY <1>5, FinishSteps
    <2> QED BY <1>5, <2>1 DEF Done
  <1> QED BY <1>3, <1>4, <1>5

EndToken == Token(FDT_END, <<>>, <<>>)

\* An unfinished blob that holds the tokens l, the last one FDT_END.
Ending(x, l, r) ==
    /\ Sound(x) /\ Memory(x) /\ Agree(x, l, r) /\ Content(x, x.totalsize, -x.size_dt_strings, l, r)
    /\ x.magic = FDT_SW_MAGIC /\ x.version = FDT_LAST_SUPPORTED_VERSION /\ x.totalsize < INT_MAX
    /\ Len(l) > 0 /\ \A i \in 1..Len(l) : l[i].tag = FDT_END <=> i = Len(l)

\* fdt_finish starts by writing FDT_END.
LEMMA EndedEnding ==
    ASSUME NEW x, Sound(x), NEW l, NEW r, Intact(x, l, r), fdt_sw_probe_struct_(x) = 0,
           HasSpace(x, TAGSIZE)
    PROVE  Ending(Ended(x), Append(l, EndToken), r)
  <1> DEFINE t == EndToken
             c == WordCells(FDT_END)
             g == Ended(x)
  <1>1. t \in TokenSet /\ t.tag = FDT_END
    BY DEF TokenSet, Token, EndToken
  <1> HIDE DEF t
  <1>2. TokenSize(t) = TAGSIZE /\ TAGSIZE \in Nat
    BY <1>1, TokenSizes, Sizes
  <1>3. Writes(c, t)
    BY <1>1, TagCells DEF Writes
  <1>4. t.tag # FDT_PROP
    BY <1>1 DEF FDT_PROP, FDT_END
  <1> HIDE DEF c
  <1>5. g = Store(fdt_grab_space_(x, TokenSize(t)), StructTop(x), c) /\ HasSpace(x, TokenSize(t))
    BY <1>2 DEF Ended, c
  <1> HIDE DEF g
  <1>6. c \in Seq(Int) /\ Len(c) <= TokenSize(t) /\ TokenSize(t) \in Nat
    BY <1>1, <1>3, TokenSizes DEF Writes
  <1>7. Memory(x)
    BY DEF Intact, Shape
  <1>8. HoldsIn(g, StructTop(x), c) /\ SameHeader(x, g)
    BY <1>5, <1>6, <1>7, GrabKeeps
  <1>9. TokenCells(g, x.size_dt_struct, t)
    <2>1. x.size_dt_struct \in Nat /\ x.off_dt_struct \in Nat
      BY DEF Sound, Header
    <2>2. g.off_dt_struct = x.off_dt_struct /\ StructTop(x) = g.off_dt_struct + x.size_dt_struct
      BY <1>8 DEF SameHeader, StructTop
    <2> QED BY <1>3, <1>8, <2>1, <2>2 DEF Writes
  <1>10. NameCells(g, Origin(g), Low(g), x.size_dt_struct, t)
    BY <1>4 DEF NameCells
  <1>11. /\ Content(g, Origin(g), Low(g), Append(l, t), r) /\ Agree(g, Append(l, t), r)
         /\ Memory(g) /\ g.size_dt_strings = x.size_dt_strings
    BY <1>1, <1>5, <1>6, <1>9, <1>10, GrabContent
  <1>12. /\ x.magic = FDT_SW_MAGIC /\ x.magic # "none" /\ x.magic # FDT_MAGIC
         /\ x.off_dt_strings = x.totalsize
    BY StructPhase
  <1>13. /\ x.version = FDT_LAST_SUPPORTED_VERSION /\ x.totalsize < INT_MAX
         /\ l \in Seq(TokenSet) /\ \A i \in 1..Len(l) : l[i].tag # FDT_END
    BY <1>12 DEF Intact, Shape, Agree
  <1>14. /\ g.magic = FDT_SW_MAGIC /\ g.version = FDT_LAST_SUPPORTED_VERSION
         /\ g.totalsize < INT_MAX /\ Origin(g) = g.totalsize /\ Low(g) = -g.size_dt_strings
    BY <1>8, <1>12, <1>13 DEF SameHeader, Origin, Low
  <1>15. Sound(g)
    BY <1>2, GrabSound DEF g, Ended
  <1>16. PICK n \in Nat : n = Len(l)
    BY <1>13
  <1>17. /\ Len(Append(l, t)) = n + 1
         /\ \A i \in 1..(n + 1) : Append(l, t)[i] = IF i = n + 1 THEN t ELSE l[i]
    BY <1>13, <1>16
  <1>18. \A i \in 1..(n + 1) : Append(l, t)[i].tag = FDT_END <=> i = n + 1
    <2> SUFFICES ASSUME NEW i \in 1..(n + 1)
                 PROVE  Append(l, t)[i].tag = FDT_END <=> i = n + 1
      OBVIOUS
    <2>1. CASE i = n + 1
      <3>1. Append(l, t)[i] = t
        BY <1>17, <2>1
      <3> QED BY <1>1, <2>1, <3>1
    <2>2. CASE i # n + 1
      <3>1. i \in 1..n
        BY <2>2
      <3>2. Append(l, t)[i] = l[i]
        BY <1>17, <2>2
      <3>3. l[i].tag # FDT_END
        BY <1>13, <1>16, <3>1
      <3> QED BY <2>2, <3>2, <3>3
    <2> QED BY <2>1, <2>2
  <1>19. Ending(g, Append(l, t), r)
    BY <1>11, <1>14, <1>15, <1>17, <1>18 DEF Ending
  <1> QED BY <1>19 DEF g, t

\* Then it moves the strings down against the structure block.
Settled(g, m, l, r) ==
    /\ m.base = g.base /\ m.totalsize = g.totalsize /\ m.magic = g.magic /\ m.version = g.version
    /\ m.off_mem_rsvmap = g.off_mem_rsvmap /\ m.off_dt_struct = g.off_dt_struct
    /\ m.off_dt_strings = StructTop(g) /\ m.size_dt_strings = g.size_dt_strings
    /\ m.size_dt_struct = g.size_dt_struct /\ Memory(m) /\ Agree(m, l, r)
    /\ Content(m, StructTop(g) + g.size_dt_strings, -g.size_dt_strings, l, r)
\* The move keeps the structure block, and the strings arrive.
LEMMA LoweredSettled ==
    ASSUME NEW g, NEW l, NEW r, Ending(g, l, r)
    PROVE  Settled(g, Lowered(g), l, r)
  <1> DEFINE m == Lowered(g)
  <1>1. /\ Header(g) /\ Room(g) /\ Memory(g) /\ Sound(g) /\ Agree(g, l, r)
        /\ Content(g, g.totalsize, -g.size_dt_strings, l, r) /\ g.magic # "none"
    BY DEF Ending, Sound, FDT_SW_MAGIC
  <1>2. /\ m.base = g.base /\ m.totalsize = g.totalsize /\ m.magic = g.magic /\ m.version = g.version
        /\ m.off_mem_rsvmap = g.off_mem_rsvmap /\ m.off_dt_struct = g.off_dt_struct
        /\ m.off_dt_strings = StructTop(g) /\ m.size_dt_strings = g.size_dt_strings
        /\ m.size_dt_struct = g.size_dt_struct
        /\ m.mem = memmove(g.mem, g.base + StructTop(g),
                           g.base + g.totalsize - g.size_dt_strings, g.size_dt_strings)
    BY <1>1 DEF Header, Fields, Lowered
  <1> HIDE DEF m
  <1>3. PICK base \in Nat, n \in Nat, w \in Nat :
          base = g.base /\ n = g.totalsize /\ w = g.size_dt_strings
    BY <1>1 DEF Header
  <1>4. PICK top \in Nat : top = StructTop(g)
    <2>1. StructTop(g) \in Nat
      BY <1>1, Below
    <2> QED BY <2>1
  <1>5. base + n <= Arena /\ top + w <= n
    BY <1>1, <1>3, <1>4 DEF Room
  <1>6. PICK mem \in [0..(Arena - 1) -> Int] : mem = g.mem
    BY <1>1 DEF Memory
  <1>7. PICK dst \in Nat, src \in Nat : dst = base + top /\ src = base + n - w
    BY <1>5
  <1>8. PICK A \in Nat : A = Arena
    BY Sizes
  <1>9. dst + w <= Arena /\ src + w <= Arena
    BY <1>5, <1>7, <1>8
  <1>10. m.mem = memmove(mem, dst, src, w)
    BY <1>2, <1>3, <1>4, <1>6, <1>7
  <1>11. Moved(m.mem, mem, dst, src, w)
    BY <1>9, <1>10, MoveCells
  <1>12. Memory(m)
    BY <1>11 DEF Moved, Memory
  <1>13. \A k : Cell(m, k) = m.mem[base + k] /\ Cell(g, k) = mem[base + k]
    BY <1>2, <1>3, <1>6 DEF Cell
  <1>14. ASSUME NEW k \in 0..(top - 1) PROVE Cell(m, k) = Cell(g, k)
    <2>1. base + k \in 0..(Arena - 1) /\ base + k < dst
      BY <1>5, <1>7, <1>8
    <2>2. m.mem[base + k] = mem[base + k]
      BY <1>11, <2>1 DEF Moved
    <2> QED BY <1>13, <2>2
  <1>15. SameStruct(g, m)
    BY <1>1, <1>2, <1>4, <1>14 DEF SameStruct, SameBelow, Header
  <1>16. ASSUME NEW k \in (-w)..(-w + w - 1) PROVE Cell(m, top + w + k) = Cell(g, n + k)
    <2>1. PICK j \in 0..(w - 1) : j = w + k
      OBVIOUS
    <2>2. base + (top + w + k) = dst + j /\ base + (n + k) = src + j
      BY <1>7, <2>1
    <2>3. m.mem[dst + j] = mem[src + j]
      BY <1>11 DEF Moved
    <2> QED BY <1>13, <2>2, <2>3
  <1>17. SameStrings(g, m, n, top + w, -w, -w)
    BY <1>2, <1>3, <1>16 DEF SameStrings
  <1>18. Content(m, top + w, -w, l, r)
    <2>1. n \in Int /\ top + w \in Int /\ -w \in Int /\ m.size_dt_strings \in Nat
      BY <1>2, <1>3
    <2>2. Content(g, n, -w, l, r)
      BY <1>1, <1>3
    <2> QED BY <1>1, <1>15, <1>17, <2>1, <2>2, ContentKept
  <1>19. Agree(m, l, r)
    BY <1>1, <1>2 DEF Agree
  <1>20. Settled(g, m, l, r)
    BY <1>2, <1>3, <1>4, <1>12, <1>18, <1>19 DEF Settled
  <1> QED BY <1>20 DEF m

\* The walk of fdt_finish then finds every token and no error.
LEMMA SettledWalk ==
    ASSUME NEW g, NEW m, NEW l, NEW r, Ending(g, l, r), Settled(g, m, l, r)
    PROVE  /\ Terminated(m, l) /\ BrokenAt(m) = {}
           /\ NamesOf(m) = {o \in Nat : \E i \in 1..Len(l) : l[i].tag = FDT_PROP /\ o = PosOf(l)[i]}
  <1>1. Header(g) /\ Room(g)
    BY DEF Ending, Sound
  <1>2. PICK n \in Nat : n = Len(l) /\ n > 0 /\ l \in Seq(TokenSet)
    <2>1. l \in Seq(TokenSet) /\ Len(l) > 0
      BY DEF Ending, Agree
    <2> QED BY <2>1
  <1>3. PICK o \in Nat, s \in Nat, z \in Nat, base \in Nat, w \in Nat :
          /\ o = m.off_dt_struct /\ s = m.size_dt_struct /\ z = m.totalsize /\ base = m.base
          /\ w = m.size_dt_strings
    BY <1>1 DEF Header, Settled
  <1>4. o + s + w <= z /\ base + z <= Arena
    <2>1. StructTop(g) = o + s
      BY <1>3 DEF StructTop, Settled
    <2> QED BY <1>1, <1>3, <2>1 DEF Room, Settled
  <1>5. PICK A \in Nat, V \in Nat : A = Arena /\ V = W /\ A < V
    BY Sizes
  <1>6. Readable(m)
    <2>1. o + s <= z /\ z < V
      BY <1>4, <1>5
    <2> QED BY <1>3, <1>5, <2>1 DEF Readable, Settled, Ending
  <1>7. \A i \in 1..(n + 1) : PosOf(l)[i] \in Nat
    BY <1>2, Positions
  <1>8. s = PosOf(l)[n + 1]
    BY <1>2, <1>3 DEF Settled, Agree
  <1>9. TAGSIZE <= s
    <2>1. PICK t \in TokenSet : t = l[n]
      BY <1>2
    <2>2. PosOf(l)[n + 1] = PosOf(l)[n] + TokenSize(t)
      BY <1>2, <2>1, Positions
    <2>3. PICK p \in Nat, q \in Nat, T \in Nat : p = PosOf(l)[n] /\ q = TokenSize(t) /\ T = TAGSIZE /\ q >= T
      <3>1. PosOf(l)[n] \in Nat
        BY <1>2, <1>7
      <3>2. TokenSize(t) \in Nat /\ TokenSize(t) >= TAGSIZE /\ TAGSIZE \in Nat
        BY TokenSizes, Sizes
      <3> QED BY <3>1, <3>2
    <2>4. s = p + q
      BY <1>8, <2>2, <2>3
    <2> QED BY <2>3, <2>4
  <1>10. InArena(m)
    BY <1>3, <1>4, <1>9 DEF InArena, Settled
  <1>11. Terminated(m, l)
    <2>1. \A i \in 1..Len(l) : l[i].tag = FDT_END <=> i = Len(l)
      BY DEF Ending
    <2>2. \A i \in 1..Len(l) : TokenCells(m, PosOf(l)[i], l[i])
      BY DEF Settled, Content
    <2> QED BY <1>2, <1>3, <1>6, <1>8, <1>10, <2>1, <2>2 DEF Terminated
  <1>12. TagOffsets(m) = {PosOf(l)[i] : i \in 1..n}
    BY <1>2, <1>11, WalkTokens
  <1>13. ASSUME NEW i \in 1..n
         PROVE  /\ fdt_next_tag(m, PosOf(l)[i]).tag = l[i].tag
                /\ fdt_next_tag(m, PosOf(l)[i]).next \in Nat
    <2>1. PICK q : q = fdt_next_tag(m, PosOf(l)[i])
      OBVIOUS
    <2>2. PICK u, p : u = l[i].tag /\ p = PosOf(l)[i + 1]
      OBVIOUS
    <2>3. i \in 1..Len(l)
      BY <1>2
    <2>4. fdt_next_tag(m, PosOf(l)[i]) = [tag |-> l[i].tag, next |-> PosOf(l)[i + 1]]
      BY <1>11, <2>3, TagAt
    <2>5. q = [tag |-> u, next |-> p]
      BY <2>1, <2>2, <2>4, Zenon
    <2>6. q.tag = u /\ q.next = p
      BY <2>5
    <2>7. p \in Nat
      <3>1. i + 1 \in 1..(n + 1)
        OBVIOUS
      <3> QED BY <1>7, <2>2, <3>1
    <2> QED BY <2>1, <2>2, <2>6, <2>7, Zenon
  <1>14. BrokenAt(m) = {}
    <2> SUFFICES ASSUME NEW e \in BrokenAt(m) PROVE FALSE
      OBVIOUS
    <2>1. PICK i \in 1..n : e = PosOf(l)[i]
      BY <1>12 DEF BrokenAt
    <2>2. PICK v \in Nat : v = fdt_next_tag(m, e).next
      BY <1>13, <2>1
    <2>3. v < 0
      BY <2>2 DEF BrokenAt
    <2> QED BY <2>3
  <1>15. NamesOf(m) = {e \in Nat : \E i \in 1..n : l[i].tag = FDT_PROP /\ e = PosOf(l)[i]}
    <2>1. \A i \in 1..n : PosOf(l)[i] \in Nat
      BY <1>7
    <2>2. \A e : e \in NamesOf(m) <=> \E i \in 1..n : e = PosOf(l)[i] /\ fdt_next_tag(m, e).tag = FDT_PROP
      BY <1>12 DEF NamesOf
    <2>3. \A e : e \in NamesOf(m) <=> \E i \in 1..n : e = PosOf(l)[i] /\ l[i].tag = FDT_PROP
      BY <1>13, <2>2
    <2> QED BY <2>1, <2>3
  <1> QED BY <1>2, <1>11, <1>14, <1>15

\* The words that the walk finds are those of the properties.
LEMMA RenamedRelocated ==
    ASSUME NEW g, NEW m, NEW l, NEW r, Ending(g, l, r), Settled(g, m, l, r),
           NEW f, f = Renamed(m), DOMAIN m = Fields
    PROVE  /\ Relocated(m, f, l, r) /\ Memory(f)
           /\ SameHeader(m, f) /\ f.size_dt_struct = m.size_dt_struct
           /\ f.size_dt_strings = m.size_dt_strings
  <1>1. Header(g) /\ Room(g) /\ g.magic # "none"
    BY DEF Ending, Sound, FDT_SW_MAGIC
  <1>2. /\ SameHeader(m, f) /\ f.size_dt_struct = m.size_dt_struct
        /\ f.size_dt_strings = m.size_dt_strings
        /\ f.mem = [a \in DOMAIN m.mem |->
                      IF \E e \in NamesOf(m) : a = m.base + m.off_dt_struct + e + PropHdr - 1
                      THEN m.mem[a] + m.size_dt_strings ELSE m.mem[a]]
    BY DEF Fields, Renamed, SameHeader
  <1>3. PICK o \in Nat, base \in Nat, z \in Nat, w \in Nat :
          /\ o = m.off_dt_struct /\ base = m.base /\ z = m.totalsize /\ w = m.size_dt_strings
    BY <1>1 DEF Header, Settled
  <1>4. PICK mem \in [0..(Arena - 1) -> Int] : mem = m.mem
    BY DEF Settled, Memory
  <1>5. PICK h \in Nat, A \in Nat : h = 3 * TAGSIZE /\ h = PropHdr /\ A = Arena
    BY Sizes DEF PropHdr
  <1> DEFINE N == {e \in Nat : \E i \in 1..Len(l) : l[i].tag = FDT_PROP /\ e = PosOf(l)[i]}
  <1>6. NamesOf(m) = N
    BY SettledWalk
  <1> HIDE DEF N
  <1>7. f.mem = [a \in 0..(Arena - 1) |-> IF \E e \in N : a = base + o + e + h - 1
                                          THEN mem[a] + w ELSE mem[a]]
    BY <1>2, <1>3, <1>4, <1>5, <1>6
  <1>8. Memory(f)
    <2>1. \A a \in 0..(Arena - 1) : mem[a] \in Int /\ mem[a] + w \in Int
      OBVIOUS
    <2> QED BY <1>7, <2>1 DEF Memory
  <1>9. PICK top \in Nat : top = StructTop(m) /\ top = StructTop(g) /\ top + w <= z
    <2>1. StructTop(m) = StructTop(g)
      BY DEF StructTop, Settled
    <2>2. StructTop(g) \in Nat
      BY <1>1, TopNat DEF Settled
    <2>3. StructTop(g) + w <= z
      BY <1>1, <1>3 DEF Room, Settled
    <2> QED BY <2>1, <2>2, <2>3
  <1>10. base + z <= A
    BY <1>1, <1>3, <1>5 DEF Room, Settled
  <1>11. ASSUME NEW k \in 0..(top + w - 1)
         PROVE  Cell(f, k) = IF NameWord(o, l, k) THEN Cell(m, k) + w ELSE Cell(m, k)
    <2>1. base + k \in 0..(Arena - 1)
      BY <1>5, <1>9, <1>10
    <2>2. Cell(f, k) = f.mem[base + k] /\ Cell(m, k) = mem[base + k]
      BY <1>2, <1>3, <1>4 DEF Cell, SameHeader
    <2>3. f.mem[base + k] = IF \E e \in N : base + k = base + o + e + h - 1
                            THEN mem[base + k] + w ELSE mem[base + k]
      BY <1>7, <2>1
    <2>4. (\E e \in N : base + k = base + o + e + h - 1) <=> (\E e \in N : k = o + e + h - 1)
      <3>1. \A e \in N : e \in Nat
        BY DEF N
      <3>2. \A e \in Nat : base + k = base + o + e + h - 1 <=> k = o + e + h - 1
        OBVIOUS
      <3> QED BY <3>1, <3>2
    <2>5. (\E e \in N : k = o + e + h - 1) <=> NameWord(o, l, k)
      <3>1. l \in Seq(TokenSet)
        BY DEF Ending, Agree
      <3>2. \A i \in 1..Len(l) : PosOf(l)[i] \in Nat
        <4>1. \A i \in 1..Len(l) : i \in 1..(Len(l) + 1)
          BY <3>1
        <4> QED BY <3>1, <4>1, Positions
      <3> QED BY <1>5, <3>2 DEF N, NameWord
    <2> QED BY <2>2, <2>3, <2>4, <2>5
  <1>12. /\ m.off_mem_rsvmap \in Nat /\ HDRSIZE <= m.off_mem_rsvmap
         /\ m.off_mem_rsvmap <= m.off_dt_struct
    BY <1>1 DEF Header, Room, Settled
  <1>13. Agree(m, l, r)
    BY DEF Settled
  <1>14. Relocated(m, f, l, r)
    BY <1>2, <1>3, <1>9, <1>11, <1>12, <1>13 DEF Relocated, SameHeader
  <1> QED BY <1>2, <1>8, <1>14

\* What fdt_finish completes.
LEMMA CompletedIntact ==
    ASSUME NEW g, NEW m, NEW l, NEW r, Ending(g, l, r), Settled(g, m, l, r), DOMAIN m = Fields,
           NEW y, y = Completed(Renamed(m), StructTop(g))
    PROVE  Intact(y, l, r)
  <1>1. PICK f : f = Renamed(m)
    OBVIOUS
  <1>2. /\ Relocated(m, f, l, r) /\ Memory(f)
        /\ SameHeader(m, f) /\ f.size_dt_struct = m.size_dt_struct
        /\ f.size_dt_strings = m.size_dt_strings
    BY <1>1, RenamedRelocated
  <1>3. DOMAIN f = Fields
    BY <1>1 DEF Renamed, Fields
  <1>4. /\ y.mem = f.mem /\ y.base = f.base /\ y.magic = FDT_MAGIC /\ y.version = f.version
        /\ y.last_comp_version = FDT_LAST_COMPATIBLE_VERSION
        /\ y.totalsize = StructTop(g) + f.size_dt_strings
        /\ y.off_mem_rsvmap = f.off_mem_rsvmap /\ y.off_dt_struct = f.off_dt_struct
        /\ y.off_dt_strings = f.off_dt_strings /\ y.size_dt_strings = f.size_dt_strings
        /\ y.size_dt_struct = f.size_dt_struct
    BY <1>1, <1>3 DEF Completed, Fields
  <1>5. Header(g) /\ Room(g)
    BY DEF Ending, Sound
  <1>6. PICK top \in Nat, w \in Nat, z \in Nat :
          top = StructTop(g) /\ w = m.size_dt_strings /\ z = g.totalsize /\ top + w <= z
    <2>1. StructTop(g) \in Nat /\ g.size_dt_strings \in Nat /\ g.totalsize \in Nat
      BY <1>5, TopNat
    <2>2. m.size_dt_strings = g.size_dt_strings
      BY DEF Settled
    <2> QED BY <1>5, <2>1, <2>2 DEF Room
  <1>7. StructTop(m) = top
    BY <1>6 DEF Settled, StructTop
  <1>8. Content(m, top + w, -w, l, r)
    BY <1>6 DEF Settled
  <1>9. Content(f, top, 0, l, r)
    BY <1>2, <1>6, <1>7, <1>8, RelocatedContent
  <1>10. \A k : Cell(y, k) = Cell(f, k)
    BY <1>4 DEF Cell
  <1>11. Content(y, top, 0, l, r)
    <2>1. \A off, c : HoldsIn(f, off, c) => HoldsIn(y, off, c)
      BY <1>10 DEF HoldsIn
    <2>2. \A off : Word(y, off) = Word(f, off)
      BY <1>10 DEF Word
    <2>3. \A p : NameOff(y, p) = NameOff(f, p)
      BY <1>4, <2>2 DEF NameOff
    <2>4. \A p, t : TokenCells(f, p, t) => TokenCells(y, p, t)
      BY <1>4, <2>1, <2>2 DEF TokenCells
    <2>5. \A p, t : NameCells(f, top, 0, p, t) => NameCells(y, top, 0, p, t)
      BY <1>4, <2>1, <2>3 DEF NameCells
    <2>6. \A i : RsvAt(y, i) = RsvAt(f, i)
      BY <1>4 DEF RsvAt
    <2>7. \A i \in 1..Len(r) : Cell(y, RsvAt(y, i)) = r[i]
      BY <1>9, <1>10, <2>6 DEF Content
    <2> QED BY <1>9, <2>1, <2>4, <2>5, <2>7 DEF Content
  <1>12. Origin(y) = top /\ Low(y) = 0
    BY <1>2, <1>4, <1>6 DEF Origin, Low, SameHeader, Settled
  <1>13. Agree(y, l, r)
    BY <1>2, <1>4 DEF Agree, Settled, SameHeader
  <1>14. y.totalsize < INT_MAX
    <2>1. PICK q \in Int : q = INT_MAX /\ z < q
      <3>1. INT_MAX \in Int
        BY Sizes DEF INT_MAX
      <3> QED BY <1>6, <3>1 DEF Ending
    <2>2. y.totalsize = top + w
      BY <1>2, <1>4, <1>6
    <2> QED BY <1>6, <2>1, <2>2
  <1>15. y.version = FDT_LAST_SUPPORTED_VERSION
    BY <1>2, <1>4 DEF SameHeader, Settled, Ending
  <1>16. y.off_dt_strings + y.size_dt_strings = y.totalsize
    BY <1>2, <1>4, <1>6 DEF SameHeader, Settled
  <1>17. Memory(y)
    BY <1>2, <1>4 DEF Memory
  <1>18. Shape(y, l, r)
    BY <1>4, <1>13, <1>14, <1>15, <1>16, <1>17 DEF Shape, FDT_MAGIC, FDT_SW_MAGIC
  <1> QED BY <1>4, <1>11, <1>12, <1>18 DEF Intact

\* fdt_finish: the whole tree, readable from the finished header; or nothing
\* changed.
LEMMA FinishIntact ==
    ASSUME NEW x, Sound(x), NEW l, NEW r, Intact(x, l, r)
    PROVE  /\ Kept(fdt_finish(x), l, Token(FDT_END, <<>>, <<>>), r)
           /\ fdt_finish(x).err # 0 => fdt_finish(x).b = x
  <1> DEFINE g == Ended(x)
             m == Lowered(g)
             k == Append(l, EndToken)
  <1>1. ASSUME fdt_sw_probe_struct_(x) = 0, HasSpace(x, TAGSIZE)
        PROVE  Ending(g, k, r) /\ Settled(g, m, k, r) /\ BrokenAt(m) = {} /\ DOMAIN m = Fields
    <2>1. Ending(g, k, r)
      BY <1>1, EndedEnding
    <2>2. DOMAIN m = Fields
      <3>1. DOMAIN g = Fields
        BY <2>1 DEF Ending, Sound, Header
      <3> HIDE DEF g
      <3> QED BY <3>1 DEF Lowered
    <2> HIDE DEF g, k
    <2>3. Settled(g, m, k, r)
      BY <2>1, LoweredSettled
    <2> HIDE DEF m
    <2> QED BY <2>1, <2>2, <2>3, SettledWalk
  <1>2. \/ fdt_finish(x).b = x /\ fdt_finish(x).err # 0
        \/ /\ fdt_sw_probe_struct_(x) = 0 /\ HasSpace(x, TAGSIZE) /\ fdt_finish(x).err = 0
           /\ fdt_finish(x).b = Completed(Renamed(m), StructTop(g))
    BY <1>1, FinishCases
  <1> HIDE DEF g, m
  <1>3. CASE fdt_finish(x).b = x /\ fdt_finish(x).err # 0
    BY <1>3 DEF Kept
  <1>4. CASE /\ fdt_sw_probe_struct_(x) = 0 /\ HasSpace(x, TAGSIZE) /\ fdt_finish(x).err = 0
             /\ fdt_finish(x).b = Completed(Renamed(m), StructTop(g))
    <2>1. Ending(g, k, r) /\ Settled(g, m, k, r) /\ DOMAIN m = Fields
      BY <1>1, <1>4
    <2>2. Intact(fdt_finish(x).b, k, r)
      <3> HIDE DEF k
      <3>1. PICK y : y = fdt_finish(x).b
        OBVIOUS
      <3> QED BY <1>4, <2>1, <3>1, CompletedIntact
    <2> QED BY <1>4, <2>2 DEF Kept, EndToken
  <1> QED BY <1>2, <1>3, <1>4

-----------------------------------------------------------------------------
(* Every step, and the theorems *)

\* The inductive invariant of the writer.
Inv == Sound(b) /\ Intact(b, log, rsvs)

\* The untouched arena.
LEMMA InvInit == Init => Inv
  <1> SUFFICES ASSUME Init PROVE Inv
    OBVIOUS
  <1>1. Sound(b)
    BY SoundInit
  <1>2. b = NoBlob /\ log = <<>> /\ rsvs = <<>>
    BY DEF Init
  <1>3. b.magic = "none" /\ b.size_dt_struct = 0 /\ b.mem = [a \in 0..(Arena - 1) |-> Garbage]
    BY <1>2 DEF NoBlob
  <1>4. Memory(b)
    BY <1>3 DEF Memory, Garbage
  <1>5. Shape(b, log, rsvs)
    BY <1>2, <1>3, <1>4 DEF Shape, FDT_SW_MAGIC, FDT_MAGIC
  <1> QED BY <1>1, <1>3, <1>5 DEF Inv, Intact

\* The log and the reserve entries are sequences.
LEMMA LogSeq ==
    ASSUME Intact(b, log, rsvs)
    PROVE  log \in Seq(TokenSet) /\ rsvs \in Seq(Nat)
  <1>1. CASE b.magic = "none"
    <2>1. log = <<>> /\ rsvs = <<>>
      BY <1>1 DEF Intact, Shape
    <2> QED BY <2>1
  <1>2. CASE b.magic # "none"
    BY <1>2 DEF Intact, Shape, Agree
  <1> QED BY <1>1, <1>2

\* A call that may write a token, or a reserve entry, or nothing.
LEMMA TokenCall ==
    ASSUME Intact(b, log, rsvs), NEW res, NEW t \in TokenSet,
           Call(res, <<t>>, <<>>), Kept(res, log, t, rsvs)
    PROVE  Intact(b', log', rsvs')
  <1>1. log \in Seq(TokenSet) /\ rsvs \in Seq(Nat)
    BY LogSeq
  <1>2. log \o <<t>> = Append(log, t) /\ rsvs \o <<>> = rsvs
    BY <1>1
  <1>3. /\ b' = res.b /\ rsvs' = rsvs
        /\ log' = IF res.err = 0 THEN Append(log, t) ELSE log
    BY <1>2 DEF Call
  <1> QED BY <1>3 DEF Kept
\* The same for a reserve entry.
LEMMA EntryCall ==
    ASSUME Intact(b, log, rsvs), NEW res, NEW a \in Nat,
           Call(res, <<>>, <<a>>), ReserveKept(res, log, rsvs, a)
    PROVE  Intact(b', log', rsvs')
  <1>1. log \in Seq(TokenSet) /\ rsvs \in Seq(Nat)
    BY LogSeq
  <1>2. rsvs \o <<a>> = Append(rsvs, a) /\ log \o <<>> = log
    BY <1>1
  <1>3. /\ b' = res.b /\ log' = log
        /\ rsvs' = IF res.err = 0 THEN Append(rsvs, a) ELSE rsvs
    BY <1>2 DEF Call
  <1> QED BY <1>3 DEF ReserveKept
\* A call that writes neither.
LEMMA PlainCall ==
    ASSUME Intact(b, log, rsvs), NEW res, Call(res, <<>>, <<>>)
    PROVE  b' = res.b /\ log' = log /\ rsvs' = rsvs
  <1>1. log \in Seq(TokenSet) /\ rsvs \in Seq(Nat)
    BY LogSeq
  <1>2. rsvs \o <<>> = rsvs /\ log \o <<>> = log
    BY <1>1
  <1> QED BY <1>2 DEF Call

\* Every call of fdt_sw.c keeps what was written.
LEMMA IntactStep ==
    ASSUME Sound(b), Intact(b, log, rsvs), [Next]_vars
    PROVE  Intact(b', log', rsvs')
  <1>1. CASE Create
    <2>1. PICK buf \in Buffers, f \in Flags :
            /\ b.magic = "none"
            /\ Call([b |-> IF CreateError(buf.size, f) = 0
                           THEN fdt_create_with_flags(b.mem, buf.base, buf.size, f) ELSE b,
                     err |-> CreateError(buf.size, f)], <<>>, <<>>)
      BY <1>1 DEF Create
    <2>2. /\ b' = IF CreateError(buf.size, f) = 0
                  THEN fdt_create_with_flags(b.mem, buf.base, buf.size, f) ELSE b
          /\ log' = log /\ rsvs' = rsvs
      BY <2>1, PlainCall
    <2>3. log = <<>> /\ rsvs = <<>> /\ b.mem \in [0..(Arena - 1) -> Int]
      BY <2>1 DEF Intact, Shape, Memory
    <2>4. CASE CreateError(buf.size, f) = 0
      <3>1. Intact(fdt_create_with_flags(b.mem, buf.base, buf.size, f), <<>>, <<>>)
        BY <2>3, <2>4, CreateIntact
      <3> QED BY <2>2, <2>3, <2>4, <3>1
    <2>5. CASE CreateError(buf.size, f) # 0
      BY <2>2, <2>5
    <2> QED BY <2>4, <2>5
  <1>2. CASE Resize
    <2>1. PICK buf \in Buffers : Call(fdt_resize(b, buf.base, buf.size), <<>>, <<>>)
      BY <1>2 DEF Resize
    <2>2. b' = fdt_resize(b, buf.base, buf.size).b /\ log' = log /\ rsvs' = rsvs
      BY <2>1, PlainCall
    <2> QED BY <2>2, ResizeIntact
  <1>3. CASE AddReserve
    <2>1. PICK a \in RsvAddrs : Call(fdt_add_reservemap_entry(b, a, 1), <<>>, <<a>>)
      BY <1>3 DEF AddReserve
    <2>2. a \in Nat
      BY WriterAssumption
    <2>3. ReserveKept(fdt_add_reservemap_entry(b, a, 1), log, rsvs, a)
      BY <2>2, EntryIntact
    <2> QED BY <2>1, <2>2, <2>3, EntryCall
  <1>4. CASE FinishReserve
    <2>1. Call(fdt_finish_reservemap(b), <<>>, <<0>>)
      BY <1>4 DEF FinishReserve
    <2>2. ReserveKept(fdt_finish_reservemap(b), log, rsvs, 0)
      BY FinishReserveIntact
    <2> QED BY <2>1, <2>2, EntryCall
  <1>5. CASE BeginNode
    <2>1. PICK n \in NodeNames :
            Call(fdt_begin_node(b, n), <<Token(FDT_BEGIN_NODE, n, <<>>)>>, <<>>)
      BY <1>5 DEF BeginNode
    <2>2. Token(FDT_BEGIN_NODE, n, <<>>) \in TokenSet
      BY WriterAssumption DEF Token, TokenSet
    <2>3. Kept(fdt_begin_node(b, n), log, Token(FDT_BEGIN_NODE, n, <<>>), rsvs)
      BY BeginNodeIntact
    <2> QED BY <2>1, <2>2, <2>3, TokenCall
  <1>6. CASE EndNode
    <2>1. Call(fdt_end_node(b), <<Token(FDT_END_NODE, <<>>, <<>>)>>, <<>>)
      BY <1>6 DEF EndNode
    <2>2. Token(FDT_END_NODE, <<>>, <<>>) \in TokenSet
      BY DEF Token, TokenSet
    <2>3. Kept(fdt_end_node(b), log, Token(FDT_END_NODE, <<>>, <<>>), rsvs)
      BY EndNodeIntact
    <2> QED BY <2>1, <2>2, <2>3, TokenCall
  <1>7. CASE Property
    <2>1. PICK n \in PropNames, v \in Values :
            Call(fdt_property(b, n, v), <<Token(FDT_PROP, n, v)>>, <<>>)
      BY <1>7 DEF Property
    <2>2. Token(FDT_PROP, n, v) \in TokenSet
      BY WriterAssumption DEF Token, TokenSet
    <2>3. Kept(fdt_property(b, n, v), log, Token(FDT_PROP, n, v), rsvs)
      BY PropertyIntact
    <2> QED BY <2>1, <2>2, <2>3, TokenCall
  <1>8. CASE Finish
    <2>1. Call(fdt_finish(b), <<Token(FDT_END, <<>>, <<>>)>>, <<>>)
      BY <1>8 DEF Finish
    <2>2. Token(FDT_END, <<>>, <<>>) \in TokenSet
      BY DEF Token, TokenSet
    <2>3. Kept(fdt_finish(b), log, Token(FDT_END, <<>>, <<>>), rsvs)
      BY FinishIntact
    <2> QED BY <2>1, <2>2, <2>3, TokenCall
  <1>9. CASE UNCHANGED vars
    <2>1. b' = b /\ log' = log /\ rsvs' = rsvs
      BY <1>9 DEF vars
    <2> QED BY <2>1
  <1> QED BY <1>1, <1>2, <1>3, <1>4, <1>5, <1>6, <1>7, <1>8, <1>9 DEF Next

\* The invariant is inductive.
LEMMA InvStep == Inv /\ [Next]_vars => Inv'
  <1> SUFFICES ASSUME Sound(b), Intact(b, log, rsvs), [Next]_vars PROVE Inv'
    BY DEF Inv
  <1>1. Sound(b)'
    BY SoundStep
  <1>2. Intact(b', log', rsvs')
    BY IntactStep
  <1>3. Intact(b, log, rsvs)'
    BY <1>2 DEF Intact, Shape, Memory, Agree, PosOf, TokenSize, PropHdr, FDT_TAGALIGN, TokenSet
  <1> QED BY <1>1, <1>3 DEF Inv

\* What FailureKeepsBlob asks of a call.
UsedOf(x) == (x.base..(x.base + StructTop(x) - 1))
             \cup ((x.base + x.totalsize - x.size_dt_strings)..(x.base + x.totalsize - 1))
Untouched(x, y) == HeaderOf(y) = HeaderOf(x) /\ \A a \in UsedOf(x) : y.mem[a] = x.mem[a]

\* A name that is taken back leaves nothing behind where the blob is in use.
LEMMA SameUntouched ==
    ASSUME NEW x, Sound(x), fdt_sw_probe_struct_(x) = 0, NEW y, SameContent(x, y),
           y.size_dt_strings = x.size_dt_strings
    PROVE  Untouched(x, y)
  <1>1. Header(x) /\ Room(x)
    BY DEF Sound
  <1>2. HeaderOf(y) = HeaderOf(x) /\ y.base = x.base
    BY DEF HeaderOf, SameContent, SameHeader
  <1>3. PICK base \in Nat, n \in Nat, w \in Nat :
          base = x.base /\ n = x.totalsize /\ w = x.size_dt_strings
    BY <1>1 DEF Header
  <1>4. PICK top \in Nat : top = StructTop(x)
    <2>1. StructTop(x) \in Nat
      BY <1>1, TopNat
    <2> QED BY <2>1
  <1>5. \A k \in 0..(top - 1) : Cell(y, k) = Cell(x, k)
    BY <1>4 DEF SameContent, SameStruct, SameBelow
  <1>6. Origin(x) = n /\ Origin(y) = n /\ Low(x) = -w
    <2>1. Origin(x) = x.totalsize /\ Low(x) = -x.size_dt_strings /\ x.magic # FDT_MAGIC
      BY StructPhase
    <2>2. y.magic = x.magic /\ y.totalsize = x.totalsize
      BY DEF SameContent, SameHeader
    <2> QED BY <1>3, <2>1, <2>2 DEF Origin
  <1>7. \A k \in (-w)..(-w + w - 1) : Cell(y, n + k) = Cell(x, n + k)
    BY <1>3, <1>6 DEF SameContent, SameStrings
  <1>8. \A k : Cell(y, k) = y.mem[base + k] /\ Cell(x, k) = x.mem[base + k]
    BY <1>2, <1>3 DEF Cell
  <1>9. ASSUME NEW a \in UsedOf(x) PROVE y.mem[a] = x.mem[a]
    <2>1. a \in base..(base + top - 1) \/ a \in (base + n - w)..(base + n - 1)
      BY <1>3, <1>4 DEF UsedOf
    <2>2. CASE a \in base..(base + top - 1)
      <3>1. PICK k \in 0..(top - 1) : a = base + k
        BY <2>2
      <3> QED BY <1>5, <1>8, <3>1
    <2>3. CASE a \in (base + n - w)..(base + n - 1)
      <3>1. PICK k \in (-w)..(-w + w - 1) : a = base + (n + k)
        <4>1. a - base - n \in (-w)..(-w + w - 1) /\ a = base + (n + (a - base - n))
          BY <2>3
        <4> QED BY <4>1
      <3> QED BY <1>7, <1>8, <3>1
    <2> QED BY <2>1, <2>2, <2>3
  <1> QED BY <1>2, <1>9 DEF Untouched

\* fdt_property on failure.
LEMMA PropertyUntouched ==
    ASSUME NEW x, Sound(x), Memory(x), NEW name \in PropNames, NEW val,
           fdt_property(x, name, val).err # 0
    PROVE  Untouched(x, fdt_property(x, name, val).b)
  <1> DEFINE res == fdt_property(x, name, val)
  <1>0. PICK s : s = NameOf(x, name)
    OBVIOUS
  <1>1. \/ res.b = x
        \/ fdt_sw_probe_struct_(x) = 0 /\ s.off # 0 /\ res.b = Undone(s, name)
    BY <1>0, PropertyCases
  <1> HIDE DEF res
  <1>2. CASE res.b = x
    BY <1>2 DEF Untouched, res
  <1>3. CASE fdt_sw_probe_struct_(x) = 0 /\ s.off # 0 /\ res.b = Undone(s, name)
    <2>1. \/ Undone(s, name) = x
          \/ /\ SameContent(x, Undone(s, name))
             /\ Undone(s, name).size_dt_strings = x.size_dt_strings
      BY <1>0, <1>3, NameKeeps
    <2>2. CASE Undone(s, name) = x
      BY <1>3, <2>2 DEF Untouched, res
    <2>3. CASE /\ SameContent(x, Undone(s, name))
               /\ Undone(s, name).size_dt_strings = x.size_dt_strings
      BY <1>3, <2>3, SameUntouched DEF res
    <2> QED BY <2>1, <2>2, <2>3
  <1> QED BY <1>1, <1>2, <1>3

\* Every call of fdt_sw.c that fails.
LEMMA FailureStep ==
    ASSUME Inv, [Next]_vars, ret' # 0
    PROVE  Untouched(b, b')
  <1>0. Sound(b) /\ Intact(b, log, rsvs) /\ Memory(b)
    BY DEF Inv, Intact, Shape
  <1>a. ASSUME b' = b PROVE Untouched(b, b')
    BY <1>a DEF Untouched
  <1>1. CASE Create
    <2>1. PICK buf \in Buffers, f \in Flags :
            /\ b' = IF CreateError(buf.size, f) = 0
                    THEN fdt_create_with_flags(b.mem, buf.base, buf.size, f) ELSE b
            /\ ret' = CreateError(buf.size, f)
      BY <1>1 DEF Create, Call
    <2>2. b' = b
      BY <2>1
    <2> QED BY <2>2, <1>a
  <1>2. CASE Resize
    <2>1. PICK buf \in Buffers : /\ b' = fdt_resize(b, buf.base, buf.size).b
                                 /\ ret' = fdt_resize(b, buf.base, buf.size).err
      BY <1>2 DEF Resize, Call
    <2>2. b' = b
      BY <2>1 DEF fdt_resize, Fail, Done
    <2> QED BY <2>2, <1>a
  <1>3. CASE AddReserve
    <2>1. PICK e \in RsvAddrs : /\ b' = fdt_add_reservemap_entry(b, e, 1).b
                                /\ ret' = fdt_add_reservemap_entry(b, e, 1).err
      BY <1>3 DEF AddReserve, Call
    <2>2. b' = b
      BY <2>1 DEF fdt_add_reservemap_entry, Fail, Done
    <2> QED BY <2>2, <1>a
  <1>4. CASE FinishReserve
    <2>1. b' = fdt_finish_reservemap(b).b /\ ret' = fdt_finish_reservemap(b).err
      BY <1>4 DEF FinishReserve, Call
    <2>2. PICK e : e = fdt_add_reservemap_entry(b, 0, 0)
      OBVIOUS
    <2>3. e.err # 0 => e.b = b
      BY <2>2 DEF fdt_add_reservemap_entry, Fail, Done
    <2>4. \/ e.err # 0 /\ b' = e.b
          \/ ret' = 0
      BY <2>1, <2>2 DEF fdt_finish_reservemap, Done
    <2> QED BY <2>3, <2>4, <1>a
  <1>5. CASE BeginNode
    <2>1. PICK n \in NodeNames : b' = fdt_begin_node(b, n).b /\ ret' = fdt_begin_node(b, n).err
      BY <1>5 DEF BeginNode, Call
    <2>2. b' = b
      BY <2>1 DEF fdt_begin_node, Fail, Done
    <2> QED BY <2>2, <1>a
  <1>6. CASE EndNode
    <2>1. b' = fdt_end_node(b).b /\ ret' = fdt_end_node(b).err
      BY <1>6 DEF EndNode, Call
    <2>2. b' = b
      BY <2>1 DEF fdt_end_node, Fail, Done
    <2> QED BY <2>2, <1>a
  <1>7. CASE Property
    <2>1. PICK n \in PropNames, v \in Values :
            b' = fdt_property(b, n, v).b /\ ret' = fdt_property(b, n, v).err
      BY <1>7 DEF Property, Call
    <2> QED BY <1>0, <2>1, PropertyUntouched
  <1>8. CASE Finish
    <2>1. b' = fdt_finish(b).b /\ ret' = fdt_finish(b).err
      BY <1>8 DEF Finish, Call
    <2>2. b' = b
      BY <1>0, <2>1, FinishIntact
    <2> QED BY <2>2, <1>a
  <1>9. CASE UNCHANGED vars
    BY <1>9, <1>a DEF vars
  <1> QED BY <1>1, <1>2, <1>3, <1>4, <1>5, <1>6, <1>7, <1>8, <1>9 DEF Next

-----------------------------------------------------------------------------
(* Calls that are refused *)

\* Nothing wraps in the test of fdt_grab_space_: it is for the gap.
LEMMA SpaceExact ==
    ASSUME NEW x, Sound(x), NEW len \in Nat
    PROVE  HasSpace(x, len) <=> len <= x.totalsize - x.size_dt_strings - StructTop(x)
  <1>1. Header(x) /\ Room(x)
    BY DEF Sound
  <1>2. PICK o \in Nat, s \in Nat, n \in Nat, z \in Nat :
          /\ o = x.off_dt_struct /\ s = x.size_dt_struct
          /\ n = x.totalsize /\ z = x.size_dt_strings
    BY <1>1 DEF Header
  <1>3. StructTop(x) = o + s /\ o + s + z <= n
    BY <1>1, <1>2 DEF StructTop, Room
  <1>4. SubU(n, o) = n - o
    BY <1>3 DEF SubU
  <1>5. SubU(SubU(n, o), z) = n - o - z
    BY <1>3, <1>4 DEF SubU
  <1>6. HasSpace(x, len) <=> s + len <= n - o - z
    BY <1>2, <1>5 DEF HasSpace
  <1> QED BY <1>2, <1>3, <1>6

\* Nor in that of fdt_add_string_, which leaves the gap smaller by the string.
LEMMA NameExact ==
    ASSUME NEW x, Sound(x), fdt_sw_probe_struct_(x) = 0, NEW s \in PropNames,
           NEW y, y = fdt_add_string_(x, s).b
    PROVE  /\ fdt_add_string_(x, s).off # 0
              <=> Len(s) + 1 <= x.totalsize - x.size_dt_strings - StructTop(x)
           /\ fdt_add_string_(x, s).off # 0 =>
                y.totalsize - y.size_dt_strings - StructTop(y)
                  = x.totalsize - x.size_dt_strings - StructTop(x) - (Len(s) + 1)
  <1>1. Header(x) /\ Room(x)
    BY DEF Sound
  <1>2. s \in Seq(Nat \ {0}) /\ Len(s) + 1 <= SwHdrSize + RSVSIZE
    BY WriterAssumption
  <1>3. PICK len \in Nat : len = Len(s) + 1 /\ len > 0
    BY <1>2
  <1>4. PICK n \in Nat, o \in Nat, q \in Nat, w \in Nat :
          /\ n = x.totalsize /\ o = x.off_dt_struct
          /\ q = x.size_dt_struct /\ w = x.size_dt_strings
    BY <1>1 DEF Header
  <1>5. PICK top \in Nat : top = StructTop(x) /\ top = o + q
    BY <1>4 DEF StructTop
  <1>6. top + w <= n
    BY <1>1, <1>4, <1>5 DEF Room
  <1>7. o >= SwHdrSize + RSVSIZE
    BY <1>4, StructPhase DEF Sound, Phase
  <1>8. PICK offset \in Nat : offset = w + len /\ offset = x.size_dt_strings + (Len(s) + 1)
    BY <1>3, <1>4
  <1>9. SubU(n, offset) = n - offset
    <2>1. len <= o
      BY <1>2, <1>3, <1>7, Sizes
    <2> QED BY <1>5, <1>6, <1>8, <2>1 DEF SubU
  <1>10. CASE n - offset < top
    <2>1. fdt_add_string_(x, s).off = 0
      BY <1>4, <1>5, <1>8, <1>9, <1>10 DEF fdt_add_string_
    <2>2. ~(len <= n - w - top)
      BY <1>8, <1>10
    <2> QED BY <1>3, <1>4, <1>5, <2>1, <2>2
  <1>11. CASE ~(n - offset < top)
    <2>1. /\ fdt_add_string_(x, s).off = -offset
          /\ y = [Store(x, n - offset, Append(s, NUL)) EXCEPT !.size_dt_strings = offset]
      BY <1>4, <1>5, <1>8, <1>9, <1>11 DEF fdt_add_string_
    <2>2. /\ y.totalsize = n /\ y.off_dt_struct = o /\ y.size_dt_struct = q
          /\ y.size_dt_strings = offset
      BY <1>1, <1>4, <2>1 DEF Header, Fields, Store
    <2>3. StructTop(y) = top
      BY <1>5, <2>2 DEF StructTop
    <2>4. -offset # 0 /\ len <= n - w - top /\ n - offset - top = n - w - top - len
      BY <1>3, <1>8, <1>11
    <2> QED BY <1>3, <1>4, <1>5, <2>1, <2>2, <2>3, <2>4
  <1> QED BY <1>10, <1>11

\* fdt_find_string_ finds a name exactly if it stands in the strings block.
LEMMA FoundWritten ==
    ASSUME Header(b), b.size_dt_strings <= b.totalsize, NEW s \in PropNames
    PROVE  fdt_find_string_(b, b.totalsize - b.size_dt_strings, b.size_dt_strings, s) >= 0
           <=> Written(s)
  <1> DEFINE z == Append(s, NUL)
  <1>1. PICK n \in Nat, w \in Nat : n = b.totalsize /\ w = b.size_dt_strings /\ w <= n
    BY DEF Header
  <1>2. s \in Seq(Nat \ {0})
    BY WriterAssumption
  <1>3. PICK len \in Nat : len = Len(s)
    BY <1>2
  <1>4. Len(z) = len + 1
    BY <1>2, <1>3 DEF NUL
  <1> HIDE DEF z
  <1> DEFINE P == {p \in 0..(w - Len(z)) :
                     \A i \in 1..Len(z) : Cell(b, (n - w) + p + i - 1) = z[i]}
             f == fdt_find_string_(b, n - w, w, s)
  <1>5. f = IF P = {} THEN -1 ELSE CHOOSE p \in P : \A q \in P : p <= q
    BY DEF fdt_find_string_, z
  <1>6. Written(s) <=> \E at \in (n - w)..(n - len - 1) : Holds(at, z)
    BY <1>1, <1>3, Zenon DEF Written, z
  <1> HIDE DEF f
  <1>7. ASSUME NEW p \in P PROVE Written(s)
    <2>1. /\ p \in 0..(w - (len + 1))
          /\ \A i \in 1..Len(z) : Cell(b, (n - w) + p + i - 1) = z[i]
      BY <1>4, <1>7
    <2>2. PICK at : at = (n - w) + p
      OBVIOUS
    <2>3. at \in (n - w)..(n - len - 1)
      BY <2>1, <2>2
    <2>4. Holds(at, z)
      BY <2>1, <2>2, Zenon DEF Holds
    <2> QED BY <1>6, <2>3, <2>4
  <1>8. ASSUME Written(s) PROVE P # {}
    <2>1. PICK at \in (n - w)..(n - len - 1) : Holds(at, z)
      BY <1>6, <1>8
    <2>2. PICK p : p = at - (n - w)
      OBVIOUS
    <2>3. p \in 0..(w - (len + 1)) /\ (n - w) + p = at
      BY <2>1, <2>2
    <2>4. \A i \in 1..Len(z) : Cell(b, (n - w) + p + i - 1) = z[i]
      BY <2>1, <2>3, Zenon DEF Holds
    <2>5. p \in P
      BY <1>4, <2>3, <2>4
    <2> QED BY <2>5
  <1>9. P \in SUBSET Nat
    BY <1>4
  <1> HIDE DEF P
  <1>10. P # {} => f \in P
    <2>1. P # {} => \E p \in P : \A q \in P : p <= q
      BY <1>9, LeastNat
    <2> QED BY <1>5, <2>1
  <1>11. f >= 0 <=> P # {}
    <2>1. P = {} => ~(f >= 0)
      BY <1>5
    <2>2. P # {} => f \in Nat
      BY <1>9, <1>10, Zenon
    <2>3. f \in Nat => f >= 0
      OBVIOUS
    <2> QED BY <2>1, <2>2, <2>3, Zenon
  <1>12. f >= 0 <=> Written(s)
    BY <1>7, <1>8, <1>11
  <1> QED BY <1>1, <1>12 DEF f

\* fdt_property_placeholder: both tests together are for the whole property.
LEMMA PropertyExact ==
    ASSUME Sound(b), InStruct, NEW name \in PropNames, NEW val \in Values
    PROVE  fdt_property(b, name, val).err = 0
           <=> TokenSize(Token(FDT_PROP, name, val)) + NameRoom(name) <= Gap
  <1> DEFINE s == NameOf(b, name)
             len == PropHdr + FDT_TAGALIGN(Len(val))
             add == fdt_add_string_(b, name)
             p == fdt_find_string_(b, b.totalsize - b.size_dt_strings, b.size_dt_strings, name)
             dedup == sw_flags(b) # FDT_CREATE_FLAG_NO_NAME_DEDUP
  <1>1. Header(b) /\ Room(b)
    BY DEF Sound
  <1>2. fdt_sw_probe_struct_(b) = 0
    BY DEF InStruct, fdt_sw_probe_struct_, fdt_sw_probe_, FDT_SW_MAGIC, FDT_MAGIC
  <1>3. name \in Seq(Nat \ {0}) /\ val \in Seq(Nat)
    BY WriterAssumption
  <1>4. PICK k \in Nat : k = Len(name) + 1 /\ k > 0
    BY <1>3
  <1>5. TokenSize(Token(FDT_PROP, name, val)) = len
    BY DEF TokenSize, Token, FDT_PROP, FDT_BEGIN_NODE
  <1>6. len \in Nat
    <2>1. Len(val) \in Nat
      BY <1>3
    <2>2. PICK v \in Nat : v = FDT_TAGALIGN(Len(val))
      BY <2>1, TagAlignNat
    <2>3. 3 * TAGSIZE + v \in Nat
      BY Sizes
    <2> QED BY <2>2, <2>3 DEF PropHdr
  <1>7. PICK g \in Int : g = Gap /\ g = b.totalsize - b.size_dt_strings - StructTop(b)
    <2>1. b.totalsize - b.size_dt_strings - StructTop(b) \in Int
      BY <1>1, TopNat
    <2> QED BY <2>1, Zenon DEF Gap
  <1>8. p >= 0 <=> Written(name)
    <2>1. b.size_dt_strings <= b.totalsize
      BY <1>1 DEF Header, Room, StructTop
    <2> QED BY <1>1, <2>1, FoundWritten
  <1>9. fdt_property(b, name, val).err = 0 <=> s.off # 0 /\ HasSpace(s.b, len)
    <2>1. fdt_property(b, name, val).err
            = IF s.off = 0 \/ ~HasSpace(s.b, len) THEN -NOSPACE ELSE 0
      BY <1>2 DEF fdt_property, NameOf, Fail, Done
    <2> QED BY <2>1 DEF NOSPACE
  <1>10. CASE dedup /\ Written(name)
    <2>1. s.b = b /\ s.off = p - b.size_dt_strings
      BY <1>8, <1>10 DEF NameOf, fdt_find_add_string_
    <2>2. NamePlace(b, p - b.size_dt_strings, name)
      BY <1>1, <1>8, <1>10, FindString
    <2>3. s.off # 0
      BY <1>4, <2>1, <2>2 DEF NamePlace
    <2>4. HasSpace(b, len) <=> len <= g
      BY <1>6, <1>7, SpaceExact
    <2>5. NameRoom(name) = 0
      BY <1>10 DEF NameRoom
    <2> HIDE DEF s, len
    <2> QED BY <1>5, <1>6, <1>7, <1>9, <2>1, <2>3, <2>4, <2>5
  <1>11. CASE ~(dedup /\ Written(name))
    <2>1. s.b = add.b /\ s.off = add.off
      BY <1>8, <1>11 DEF NameOf, fdt_find_add_string_
    <2>2. NameRoom(name) = k
      BY <1>4, <1>11 DEF NameRoom
    <2>3. add.off # 0 <=> k <= g
      BY <1>2, <1>4, <1>7, NameExact
    <2>4. ASSUME add.off # 0 PROVE HasSpace(add.b, len) <=> len <= g - k
      <3>1. Sound(add.b)
        BY <1>2, AddStringSound
      <3>2. add.b.totalsize - add.b.size_dt_strings - StructTop(add.b) = g - k
        BY <1>2, <1>4, <1>7, <2>4, NameExact
      <3> QED BY <1>6, <3>1, <3>2, SpaceExact
    <2> HIDE DEF s, len, add
    <2> QED BY <1>4, <1>5, <1>6, <1>7, <1>9, <2>1, <2>2, <2>3, <2>4
  <1> QED BY <1>10, <1>11

\* The three calls of the structure phase.
LEMMA SoundRefuses == Sound(b) => RefusesOnlyFull
  <1> SUFFICES ASSUME Sound(b), InStruct PROVE RefusesOnlyFull
    BY DEF RefusesOnlyFull
  <1>1. fdt_sw_probe_struct_(b) = 0
    BY DEF InStruct, fdt_sw_probe_struct_, fdt_sw_probe_, FDT_SW_MAGIC, FDT_MAGIC
  <1>2. ASSUME NEW n \in NodeNames
        PROVE  fdt_begin_node(b, n).err = 0
               <=> TokenSize(Token(FDT_BEGIN_NODE, n, <<>>)) <= Gap
    <2> DEFINE len == TAGSIZE + FDT_TAGALIGN(Len(n) + 1)
    <2>1. n \in Seq(Nat \ {0})
      BY WriterAssumption
    <2>2. len \in Nat
      BY <2>1, TagAlignNat, Sizes
    <2>3. TokenSize(Token(FDT_BEGIN_NODE, n, <<>>)) = len
      <3>1. PICK t : t = Token(FDT_BEGIN_NODE, n, <<>>)
        OBVIOUS
      <3>2. t \in TokenSet /\ t.tag = FDT_BEGIN_NODE /\ t.name = n
        BY <2>1, <3>1 DEF TokenSet, Token
      <3> QED BY <3>1, <3>2, TokenSizes
    <2>4. fdt_begin_node(b, n).err = IF HasSpace(b, len) THEN 0 ELSE -NOSPACE
      BY <1>1 DEF fdt_begin_node, Fail, Done
    <2> HIDE DEF len
    <2> QED BY <2>2, <2>3, <2>4, SpaceExact DEF NOSPACE, Gap
  <1>3. fdt_end_node(b).err = 0 <=> TAGSIZE <= Gap
    <2>1. fdt_end_node(b).err = IF HasSpace(b, TAGSIZE) THEN 0 ELSE -NOSPACE
      BY <1>1 DEF fdt_end_node, Fail, Done
    <2> QED BY <2>1, SpaceExact, Sizes DEF NOSPACE, Gap
  <1> QED BY <1>2, <1>3, PropertyExact DEF RefusesOnlyFull

-----------------------------------------------------------------------------
\* Everything a call of fdt_sw.c that returned 0 has written is in the blob, in
\* order and unharmed, whatever is called afterwards: TokensIntact, for every
\* arena, word size, set of buffers, names and values.
THEOREM TokensTheorem == Spec => []TokensIntact
  <1>1. Init => Inv
    BY InvInit
  <1>2. Inv /\ [Next]_vars => Inv'
    BY InvStep
  <1>3. Inv => TokensIntact
    BY IntactTokens DEF Inv
  <1> QED BY <1>1, <1>2, <1>3, PTL DEF Spec

\* The readers of fdt.c and fdt_ro.c find these tokens and names, in the
\* unfinished blob and in the finished one, and fdt_check_header accepts what
\* fdt_finish leaves and no block outside of it.
THEOREM ReadersTheorem == Spec => []ReadersAgree
  <1>1. Init => Inv
    BY InvInit
  <1>2. Inv /\ [Next]_vars => Inv'
    BY InvStep
  <1>3. Inv => ReadersAgree
    BY IntactReaders DEF Inv
  <1> QED BY <1>1, <1>2, <1>3, PTL DEF Spec

\* A call of fdt_sw.c that returns an error leaves the header and every cell in
\* use as they were, the name that fdt_property takes back included.
THEOREM FailureTheorem == Spec => FailureKeepsBlob
  <1>1. Init => Inv
    BY InvInit
  <1>2. Inv /\ [Next]_vars => Inv'
    BY InvStep
  <1>3. Inv /\ [Next]_vars
        => [ret' # 0 => /\ HeaderOf(b') = HeaderOf(b)
                        /\ \A a \in Used : b'.mem[a] = b.mem[a]]_vars
    <2> SUFFICES ASSUME Inv, [Next]_vars, ret' # 0
                 PROVE  HeaderOf(b') = HeaderOf(b) /\ \A a \in Used : b'.mem[a] = b.mem[a]
      OBVIOUS
    <2>1. Untouched(b, b')
      BY FailureStep
    <2> QED BY <2>1 DEF Untouched, UsedOf, Used
  <1> QED BY <1>1, <1>2, <1>3, PTL DEF Spec, FailureKeepsBlob

\* A node, an end or a property is refused exactly if it does not fit in what
\* is left between the two blocks, whatever lengths and contents: no test of
\* fdt_sw.c wraps, and none leaves room unused.
THEOREM RefusalTheorem == Spec => []RefusesOnlyFull
  <1>1. Init => Sound(b)
    BY SoundInit
  <1>2. Sound(b) /\ [Next]_vars => Sound(b)'
    BY SoundStep
  <1>3. Sound(b) => RefusesOnlyFull
    BY SoundRefuses
  <1> QED BY <1>1, <1>2, <1>3, PTL DEF Spec
=============================================================================
