# A TLA+ model of V-Mate

V-Mate is a 32-bit RISC-V core in Verilog and SystemVerilog (`src/rtl`): a five-stage
pipeline with machine-mode CSRs, M, A, F and D extensions, and an out-of-order (OoO)
mode that software switches on with bit 0 of a custom CSR, `moooctrl` (0x7C0). The
repository also carries, in C, the device tree compiler that its reference simulator is built
with (`src/dtc-1.6.1`): dtc itself and libfdt, the library that writes, reads, edits
and overlays flattened device trees.

This directory holds TLA+ modules for both. Of the core they model the part that decides
*when* things happen: hazards, forwarding, dispatch, completion, commit, flush and the
switch of modes. Of the C code they model what is done to trees and to the bytes that hold
them: space, offsets, references, order of passes, failure and retry. TLC checks the modules
on small instances and TLAPS proves the core facts for every size.

One step of a module of the core is one edge of the gated clock; one step of a module of the
C code is one call of the library, or one pass of a tool.

## The system

### The core

| component | state | operations | talks to |
|---|---|---|---|
| `pc.v` | `pc_out` | load mtvec, mepc, branch target or pc+4; hold | hazard unit (stall), CSR file, EX or commit |
| `pipe_*.v` | the four stage registers | flush, hold, advance | hazard unit, `final_flush` |
| `hazard_unit.v` | none | trap/return, redirect and load-use/CSR/fflags stalls, in that priority | all stages |
| `forwarding_unit.v`, muxes of `riscv_top.v:345-369` | none | select MEM, WB, commit port or the register read in ID | MEM, WB, reorder buffer |
| `register_file.v`, `fpr.v` | 32 registers each | write at the edge, read through the write port | WB (in order) or commit (OoO) |
| `control_unit.v` | none | decode; except on illegal words and on FP with FS Off | CSR file (mstatus.FS, frm) |
| `csr_file.v` | machine CSRs, fcsr, moooctrl | trap, return, CSR write, FP flag update, in that priority | MEM, commit |
| `rob.sv` | 16 entries, head, tail, count | dispatch, complete, commit, flush | ID, CDB, register files, `final_*` |
| `rat.sv` | slot and valid bit for each register | rename, free at commit, flush | ID, reorder buffer |
| `iq.sv` | 8 entries | allocate, wake, issue, flush | ID, CDB |
| CDB, `riscv_top.v:637-757` | valid, slot and done bits for each stage | WB before MEM before EX, one completion per edge | reorder buffer, issue queue |
| `dmem.v`, `imem.v` | memory, LR reservation | read, write, AMO, LR/SC | MEM, IF |
| `alu.v`, `imm_gen.v`, `fp_*.sv` | none | combinational arithmetic | EX |
| `icg.v` | a latch | gate a clock | everything with state |

In OoO mode the issue queue's outputs drive nothing: instructions still go through EX, MEM
and WB in order, but complete on the CDB from whichever stage has their result, and write
registers and redirect fetch only at commit. Loads, stores, AMOs, CSR accesses,
fences and everything that excepts wait in ID until the reorder buffer is empty.

### The device tree tools

A flattened tree (blob) is a header, a reserve map, a structure block of tags and a
block of strings, in one buffer. A live tree is what dtc keeps in memory between parsing
and writing.

| component | state | operations | talks to |
|---|---|---|---|
| `libfdt/fdt_sw.c` | the half-built blob; structure grows up, strings grow down | create, resize, reserve map, begin, end, property, finish | caller's buffer |
| `libfdt/fdt.c`, `fdt_ro.c`, `fdt_check.c`, `fdt_addresses.c` | none | probe, walk, look up by path, name, phandle, value; check | any blob |
| `libfdt/fdt_rw.c`, `fdt_wip.c`, `fdt_empty_tree.c` | the blob | splice: set, append, delete, add, rename; in place: write, NOP; open into, pack | caller's buffer, read functions |
| `libfdt/fdt_overlay.c` | base and overlay blob | shift phandles, local references, fixups, merge, symbols | edit and read functions |
| `fdtoverlay.c` | base, copies, buffer length | copy, apply, retry with more room, next overlay, write | `fdt_overlay_apply` |
| `data.c`, `livetree.c` | live tree: nodes, properties, labels, markers, a phandle counter | build, merge, delete, omit, look up, allocate phandles, generate symbols and fixups | parser, checks |
| `checks.c` | a status per check | run prerequisites, check, fix references, drop unused nodes | live tree |
| `flattree.c` | the two blocks being written, or the blob being read | flatten, unflatten, versions 1 to 17 | live tree |
| `dtc-parser.y`, `dtc.c` | the tree so far, options | apply a statement, order the passes | all of the above |
| lexer, `treesource.c`, `yamltree.c`, `fstree.c`, `fdtdump.c`, `fdtget.c`, `fdtput.c`, `srcpos.c`, `util.c`, `pylibfdt` | | text, printing, command lines | |

### What is hard here

* One result lives in several places (MEM, WB, commit port, register file) at different
  times in the two modes, and an operand must be taken from the right one each cycle.
* EX, MEM and WB compete for one CDB; who loses completes later from another stage, whose
  result multiplexer is a different piece of code.
* Control transfers happen in EX (branches, in order), MEM (traps and returns, in order) or
  at commit (OoO); what they flush and what they leave is decided in several modules.
* Memory and CSRs are written in MEM in both modes, ahead of commit; serialization has to
  keep wrong-path instructions out.
* Stalls, flushes and traps coincide; one priority decides.
* `moooctrl` switches the write port, the flush sources and three clocks between two edges
  with instructions in flight.
* The circular buffer wraps, fills, empties and is flushed while its slot numbers are
  held elsewhere (alias table, issue queue, stages).
* Two blocks grow towards each other in one buffer, sizes are unsigned and wrap, a blob moves
  to a buffer that overlaps it, and a call that fails for lack of room has already written.
* A splice moves everything behind it, and three header fields have to follow.
* Applying an overlay is five passes over two blobs; any of them may fail, and it is tried
  again with more room.
* References are offsets in values that other references make longer; nodes are deleted,
  defined again and omitted; phandles are allocated in the middle of resolving them.

`PROJECT.json` lists these as hazards, each with its line and the properties aimed at it.

## Modules

| module | models | state |
|---|---|---|
| `Rob` | `rob.sv`, under any use of its ports | entries, `head_ptr`, `tail_ptr`, `count` |
| `CommitQueue` | abstract: what the rest of the core takes the buffer for | one sequence |
| `Rat` | `rat.sv`: updates as operators | `rat_idx`, `rat_valid` |
| `Rename` | `Rob` and `Rat` on the wires of `riscv_top.v:276-290` | both |
| `Iq` | `iq.sv`: updates as operators | `entries` |
| `Backend` | `Rob` and `Iq` with operands that wait, as `iq.sv` is written to be used | both, and what was issued |
| `InstrClass` | decode: control signals as functions of 21 classes of instruction | none |
| `Pipeline` | `riscv_top.v` and what it instantiates, both modes; includes `Rob` and `Iq` | stages, registers, CSR bits, buffer, queue, ghosts |
| `FdtMem` | the blob: cells in an arena, header fields, probes, tag walk, strings | none |
| `FdtSw` | `fdt_sw.c`: each call as an operator from blob to blob and return code | none |
| `SwWriter` | a client of `fdt_sw.c` that makes the calls in any order | the blob, what was written |
| `FdtRo` | `fdt_ro.c`, `fdt_check.c`, walks of `fdt.c` | none |
| `FdtRw` | `fdt_rw.c`, `fdt_wip.c`, `fdt_empty_tree.c` as operators | none |
| `DevTree` | abstract: what the editing functions promise about a tree | tokens, reserve map |
| `RwEditor` | a client of the editing functions | the blob, the tree read from it |
| `FdtOverlay` | `fdt_overlay.c`: each pass as an operator on trees with a size | none |
| `OverlayTool` | `fdtoverlay.c` and `fdt_overlay_apply` | base, copies, capacity, pass |
| `LiveTree` | `data.c`, `livetree.c` as operators | none |
| `Checks` | `checks.c`: machinery with levels and prerequisites, structural checks, fixups, and the warnings on phandle lists, which run the fixups too | none |
| `FlatTree` | `flattree.c`: blob output and input | none |
| `Dtc` | grammar actions and `main`: from statements to a blob | live tree, status of checks, blob, what the source means |
| `Rob_proofs`, `CommitQueue_proofs`, `Rename_proofs`, `Backend_proofs` | theorems about the buffer, alone and with what hangs on it | |
| `InOrder_proofs`, `Ooo_proofs` | theorems about the core: types and in-order mode, OoO mode | |
| `SwWriter_proofs` | theorems about the sequential writer | |
| `OverlayTool_proofs` | theorems about overlays | |
| `MCRename`, `MCBackend`, `MCPipeline`, `MCSwWriter`, `MCRwEditor`, `MCOverlayTool`, `MCDtc` | instances for TLC | |

How they compose: `SwWriter` reads back what it writes with the accessors of `FdtMem`, `RwEditor` with `FdtRo`; `Dtc` writes blobs
in the form of `FdtMem`, so that its properties ask libfdt (`FdtRo`) what is in them; `FdtOverlay`
works on trees because `RwEditor` shows that the blob functions implement `DevTree`.

Actions. `Rob`: `RobFlush`, and `RobUpdate(d, c)` with the dispatch port, the completion port
and the commit of the same edge (all read the state before it; where two write the same field
the textually later assignment wins). `Rename`: `Flush`, `Edge`. `Backend`: `Flush`,
`Step`, `DispatchStep`. `Pipeline`: one action per decision for the front end (`Trap`,
`Return`, `Redirect`, `HazardStall`, `DispatchStall`, `Advance`); in each, `MemWb`, `CsrFile`,
`OooUnits` and the register write give what the rest of the machine does in that edge.
`SwWriter`, `RwEditor`: one action per library call. `OverlayTool`: one action per pass of
`fdt_overlay_apply` and per decision of `apply_one`. `Dtc`: one action per kind of statement,
one per check of the table, one per pass of `main`.

### Abstractions of Pipeline

* **Fetch.** Instruction memory returns any word of `Program`, so a run covers every program
  over those words. Addresses are left out. The ghost `pc_ok` says that fetch is at the
  address the program has next; `want` is the transfer that the youngest instruction of the
  path still owes; `right` marks instructions of the path. A redirect keeps `pc_ok` only if it
  is the transfer owed, made for the instruction that owes it.
* **Data.** A result is an arbitrary value chosen in EX. It travels on the bus of the unit that
  produces it; every other bus carries `Junk` for this instruction, so a multiplexer that
  selects the wrong bus shows. `gold` holds the registers after the instructions of the
  program's path that have left EX, in order. Nothing else ever changes it: the wrong path of OoO mode
  leaves it alone, and so does a flush, after which the registers must agree with it again. That includes the link
  value of the jump that flushed.
* **Registers.** Numbers 0 and 1 of each kind. One source `rs` stands for rs1, rs2, rs3.
* **The double driver** of `final_pc_target` is a choice over `Drivers`. All runs use the
  driver of line 969, the intended one.
* **`ooo_en` at the start** is a constant of the run; software sets it with a CSR write, which
  the mode runs perform.

### Abstractions of the device tree modules

* **Cells.** A character is one cell; a word takes `TAGSIZE` cells and has its value in the last. The
  header is a record; its `HDRSIZE` cells hold a mark that a stray write destroys. Unsigned
  arithmetic wraps at `W`, which stands for 2^32. The arena around a buffer holds garbage, so
  a read outside shows. Buffers count as aligned.
* **Errors** are the codes of `libfdt.h`; every `FDT_ASSUME_*` check is compiled in, as in this build.
* **Overlays** are trees with sizes in units: one per node, one per property and one per cell. A
  pass that needs more than `cap` units fails with `FDT_ERR_NOSPACE`. Where several places of
  an overlay are at fault, the model reports any one of them.
* **Sources** of `Dtc` are sequences of parsed statements. Numbers, strings, and references by label
  and by path are values with markers, as the parser builds them.

## Runs

| run | question | answer |
|---|---|---|
| `rename` | is the buffer an in-order queue across wrap, full, empty and flush, and does the alias table name the youngest live writer? | holds |
| `backend` | is a wakeup lost, an operand wrong, a slot in two places? | holds |
| `backend_live` | does every queue entry leave? | holds |
| `in_order` | five-stage pipeline: data, path, flags, traps, FS | holds |
| `ooo_data` | a program that switches OoO mode on: data and path | holds |
| `ooo_control` | OoO mode with transfers at commit, and the switch back: the same, and occupancy | holds |
| `live` | both modes: are transfers made and do stalls end? | holds |
| `sw` | sequential writer: is anything lost, overlapped or left half done, and do readers find it? | holds |
| `rw` | editing: does each call do to the tree what it says, or nothing, and do all lookups agree with it? | holds |
| `overlay` | fdtoverlay: merge, references, phandles, symbols, end | holds |
| `dtc` | from source to blob and back: tree, references, phandles, fixups | holds |
| `trap_vector` | a statement of the architecture document | violated, see Findings |

The passing runs of the core write `moooctrl` with `csrrw x0`, once per run.

### Properties of the core

`DataRight`: an instruction executes with the result of the youngest older writer of its
source, and once the back end is empty the register files hold the program's result.
`PathRight`: fetch leaves the sequence exactly when, and to where, the program does; registers, memory
and CSRs are changed only by instructions of the program that do not except; a flush drops
nothing that the program needs.
`FflagsOnPath`: the same for FP flags. `TrapsPrecise`: a trap is charged to the oldest instruction, which is
on the path. `DecodeSeesFs`: decode uses the mstatus.FS of all earlier instructions.
`TrapsVector`: a trap sends fetch to mtvec. `OccupancyBounded`: at most four buffer entries and one queue
entry are ever in use. `TransfersHappen`, `FetchGoesOn`: liveness.

### Properties of the device tree modules

`sw`. `Layout`: the blocks lie inside the buffer in order, and structure and strings never meet.
`TokensIntact`: all that successful calls wrote is there, in order, at its offsets, whatever was
resized and rolled back. `ReadersAgree`: the read functions step through the blob in every phase, and the finished
one passes `fdt_check_header`. `FailureKeepsBlob`: a call that returns an error changes
nothing in use. `RefusesOnlyFull`: a node, an end or a property is refused exactly if it does not fit in the gap
between the blocks. `CheckBlockSound`, a part of `ReadersAgree`: of all start and size words the header check accepts exactly those of
a block between the header and the end of the blob.

`rw`. `ImplementsDevTree`: every call is a step of `DevTree`, seen through a reading of the blob that does not
use libfdt. `WellFormed`: `fdt_check_full` accepts every blob. `NavigationAgrees`, `LookupsAgree`: walks,
paths, parents, names with and without unit address, phandles in both spellings, compatible
strings, aliases and cell counts agree with the tree; a generated phandle is free, and none is
generated above `FDT_MAX_PHANDLE`.

`overlay`. `MergeExact`: base plus fragments, and nothing else: each property has the value of the last fragment that sets
it, else that of the base, labels in `__symbols__` included, with phandles shifted and labels
resolved once, however many attempts were made. `RefsResolve`: every reference, in any property and at any offset, holds
the phandle its node has in the result. `PhandlesUnique`. `SymbolsResolve`: labels of the overlay name the merged
nodes. `Ends`: with an output or an error.

`dtc`. `SourceMeaning`: the parsed tree is what the statements say, computed beside it on paths and sets.
`RefsExact`: each value in the blob is the source's, with the paths put in and the phandles of the nodes named.
`OutputUnique`: libfdt finds each node of the blob under its path and its phandle. `RoundTrip`: reading
any blob that dtc writes gives the tree back. `FixupsExact`: an overlay lists each reference exactly once,
at the offset it has in the blob.

### Bounds

* `rename`, `backend`: three slots. The pointers wrap, the buffer fills, two live writers
  of one register exist beside a third instruction, a younger entry completes before two older
  ones. The theorems remove this bound for `Rob`, `Rename`, `Backend` and the
  refinement of `CommitQueue`.
* `Pipeline`: five reorder-buffer slots (six in `ooo_control`) and two queue entries behave
  as the real 16 and 8, because `OccupancyBounded` shows that no more than four and one
  are used; `ooo_control`, with a slot to spare, checks exactly this. `in_order`
  never dispatches and needs none.
* `Program` is a set of words per question (`MCPipeline`), chosen so that the words that share a
  hazard, a bus or a flush meet: nineteen words in `in_order`, seven in `ooo_data`, nine in
  `ooo_control`. The mixes of the passing OoO runs leave out what the findings show
  broken: words that except, doubles, FP to integer, switching OoO mode off and on again.
* Two values: wrong data shows as soon as two results differ.
* `VIEW` in `MCPipeline` and `MCBackend` drops fields that are written before they are read (named
  in the comment of `View`); `SYMMETRY` permutes values, which are only copied and compared. The
  liveness runs use neither.
* `sw`: words of two cells, two buffers that overlap in a 32-cell arena, property names of which one is the tail
  of the other. The smaller buffer is full after about three tokens, so every call meets both outcomes; the
  larger one takes the blob on. Calls are not counted: the buffers bound the run.
  The theorems of `SwWriter_proofs` remove the bounds for all five properties.
* `rw`: three calls (`MaxCalls`) on an empty tree and on one of version 16 with its strings first and with the largest
  phandle there is, in a word of one cell (`W - 2`), two (`Spent`)
  on a board with aliases, compatible strings and cell counts. Three calls are enough to
  open, make room and use it, and to free that phandle, or to set one to -1; three overlapping buffers, one nearly full.
* `overlay`: three bases (one with phandles next to the limit `W - 1`, one without labels) and seven overlays
  (in one, two fragments set the same properties, at offsets up to 5),
  alone, in pairs, and in triples that build on one another; three sizes of the first buffer. `MaxCap` is
  beyond what any result needs, so it stops only a retry that could not end. The theorems of
  `OverlayTool_proofs` remove the bounds, except for `Ends`.
* `dtc`: two first definitions and an overlay source, up to three statements more out of nine, nine command
  lines (versions 17, 16, 3, 2, 1 and an unknown one; symbols, aliases, sorting, padding, plugin, forced, a
  check lowered, a warning raised to an error).

### Fairness

`Pipeline!FairSpec` is weak fairness of `Next`: the clock runs. Nothing else is assumed; the
core has no other scheduler. `Backend!FairSpec` assumes also that an issued instruction is
broadcast in the end: the units behind the queue are pipelines of fixed length, and the CDB
grants older stages first. `OverlayTool!Spec` is weak fairness of `Next`: a sequential program goes on.

Deadlock checking is on in the runs of the core and in `sw`: some step is always possible. `overlay` and
`dtc` are programs that end, and `rw` stops after `MaxCalls` calls.

## Findings

1. `trap_vector` (run): in OoO mode the program counter is given `exception_mem`, not
   `final_exception`; a trap flushes and fetch goes on where it was.

Eight more of the core are shown in the same way by `MCTrapVector.cfg` with the constants and the
property of this table (`moooctrl` and FS are `Modes` and `FsModes`; a liveness property
needs `FairSpec`):

| | `Program` | moooctrl | FS | invariant violated |
|---|---|---|---|---|
| 2. in OoO mode `final_exception` is the exception bit of the head entry, without its valid bit; a flush leaves it set (`rob.sv:109`), so the empty head slot traps again (`riscv_top.v:963`, against `src/docs/uvm_test_plan.md:34`) | `EcallMix` | TRUE | TRUE | `TrapsPrecise` |
| 3. clearing `moooctrl` freezes the buffer with the clearing instruction in it; setting it again leaves that entry incomplete for ever, and serializing instructions wait for it (`riscv_top.v:251`, against `src/tb/uvm/riscv_sva.sv:20`) | `ModeMix` | FALSE | TRUE | `FetchGoesOn` |
| 4. `final_pc_target` has two drivers; with the one of line 396 a commit redirects to another instruction's target (`Drivers = {"ex"}`) | `OooControlMix` | TRUE | TRUE | `PathRight` |
| 5. a wrong-path FP instruction accrues its flags in OoO mode (`riscv_top.v:903`) | `FpBranchMix` | TRUE | TRUE | `FflagsOnPath` |
| 6. FCMP, FCVT.W, FMV.X, FCLASS commit the integer ALU's output in OoO mode (`riscv_top.v:710`) | `FpToIntMix` | TRUE | TRUE | `DataRight` |
| 7. a double is NaN-boxed as a single in OoO mode, by the format of another instruction or of the undriven `complete_instruction` (`riscv_top.v:372-374,722`) | `FpDoubleMix` | TRUE | TRUE | `DataRight` |
| 8. `csrrw rd, moooctrl, rs` loses its write of rd when the mode changes (`riscv_top.v:438`) | `ModeReadMix` | FALSE | TRUE | `DataRight` |
| 9. an FP store that excepts with FS Off writes memory in in-order mode: decode leaves the write enables set (`control_unit.v:588`, against the assertion of `src/tb/uvm/riscv_sva.sv:55`) | `FpStoreMix` | FALSE | FALSE | `PathRight` |

10. `register_file.v:42` forwards the write port to the reads; its header comment (line 11) says
    "No write forwarding (read returns old value)". The pipeline needs the forwarding: without
    it `DataRight` fails (mutant `ReadIdNoBypass`).

Seen, not runs of their own: `iq.sv:112` compares with opcode 0101011 where AMO is 0101111
(without effect, since AMOs serialize); the alias table's outputs are unused; `rs*_wait` is
tied to 0, so the queue's wakeup logic never works in this core (`Backend` checks it anyway).

Of the device tree tools:

11. A fixup that lies beyond the end of its property makes `fdt_overlay_apply` return `FDT_ERR_NOSPACE`
    (`fdt_overlay.c:403`, from `fdt_wip.c:27`), which `libfdt.h:2094` documents as "there's not enough space in
    the base device tree"; `apply_one` takes it for that and retries with a larger buffer for ever
    (`fdtoverlay.c:71-74`). `Ends` without its premise `FixupsInRange` fails; the overlay is `beyond` of
    `MCOverlayTool`.
12. An overlay that gives a node of the base another phandle leaves the references of the base to the old
    one (`Rephandled` in `RefsResolve`).
13. A node below an `/omit-if-no-ref/` parent goes with it although it is referred to itself, and the
    reference stays as a phandle of no node (`checks.c:668-675`; `BelowOmitted` in `RefsExact`).
Seen while modelling, and in the model as they are in the code: `fdt_find_max_phandle` counts a phandle of -1 (`fdt_ro.c:132`), which
`libfdt.h:381` says of `fdt_get_max_phandle` is ignored, and `fdt_generate_phandle` then returns 0 (`LookupsAgree` leaves
that case out); a reserve entry of size 0 ends the map for
readers; `/omit-if-no-ref/` on a definition that is merged into an existing node is ignored; a
deletion inside a first definition stays in the tree as a deleted node, which the check for duplicate names
still looks at; `error || run_check()` does not run a prerequisite after one has failed; labels of
deleted nodes still count for `-@` and for omission; `-E no-explicit_phandles`
lowers with that check also those that have it as a prerequisite, so unused nodes are not omitted, while references are still fixed
up, later than usual, because seventeen warnings (`checks.c:1477,1534`) have the fixup as a prerequisite; full
paths are filled in before the checks (`dtc.c:320`), so the nodes that dtc generates have none, and an output version below 16 with `-A`,
`-@` or a plugin passes a null pointer to `strlen` (`flattree.c:249,57`; phase `crashed` of `Dtc`); `check_property_phandle_args` does not end if a
`#...-cells` is -1 (`checks.c:1400`; not in the model, which takes it for a count).

## Proofs

The eight `_proofs` modules are checked by TLAPS for every value of the constants that the named assumptions allow.

`Rob_proofs`, `Rename_proofs`: every `ROB_DEPTH` in Nat \ {0}, every set of registers, instructions, results
and targets. The only assumptions are `DepthAssumption` (a buffer has an entry) and `DestAssumption`
(x0 is a register and each instruction names one).

* `RobTyping`, `RobWindowTheorem`: `RobSpec => []RobTypeOK`, `RobSpec => []RobWindow`. Together they
  are inductive: `count` stays in range only because dispatch is refused at `ROB_DEPTH` and
  commit needs `count > 0`; the valid bits follow the pointers only because the slot at
  `tail_ptr` is free exactly when the buffer is not full. The argument rests on `Age`, the
  distance of a slot from the head around the wrap: a commit lowers the age of every other slot
  by one, a dispatch makes valid the slot of age `count`.
* `RenameTyping`, `RatYoungestTheorem`: `Spec => []TypeOK`, `Spec => []RatYoungest`. `Rename` refines
  `RobSpec` (`RenameUsesRob`), so the window invariant is available; it gives that the slot being
  dispatched is older than none (`AgeNamedStep`), and that the slot being committed is older than all,
  so a register that still has another live writer cannot be named by it (`WritersStep`).


`CommitQueue_proofs`: the same constants.

* `RobImplementsCommitQueue`: `RobSpec => ImplementsCommitQueue`, the refinement mapping being `robQueue`, the entries
  from head to tail. In a well-typed state `robQueue` is a sequence of `count` items (`QueueIsSeq`); the abstract queue
  must commit exactly when `commit_en` holds (`CommitsTogether`, from `RobWindow`: the head of a
  nonempty buffer is valid); and one clock edge, with dispatch, completion and commit in any combination, is one step of the
  queue (`EdgeRefines`). A completion for an entry that is free, or that commits at that edge, changes nothing the queue shows;
  one for a live entry settles the item at the age of its slot. `RenameUsesRob` carries the result
  over to `Rename`, where the run `rename` checks it.

`Backend_proofs`: every `ROB_DEPTH` and `IQ_DEPTH` above 0, every set of operand ports, instructions and values, under
`BackendAssumption` (operand values are results).

* `BackendTyping`, `EachSlotOnceTheorem`, `NoLostWakeupTheorem`, `OperandsDeliveredTheorem`. The three properties need one
  another and `RobWindow`: a wakeup is not lost because a slot that is broadcast is no longer incomplete, and
  a slot is broadcast only if it was issued; it is issued once because it is in the queue once. The
  delicate edge is the one that dispatches, broadcasts, issues and commits together: `QueueEdge` says what each
  entry becomes, `IncompleteStep` which slots stay incomplete, and the slot that is
  dispatched is at `tail_ptr`, so no entry of the queue can name it yet. That the
  queue's choice (`Lowest`) exists and is unique comes from well-foundedness of `<` on Nat (`LowestExists`).

`InOrder_proofs`, types: every program, set of registers and values, depth, initial mode and driver that
`PipelineAssumption` allows (instruction words are well-formed, x0 exists, buffer and queue have an entry).

* `PipelineTyping`: `Spec => []TypeOK`. `Pipeline` instantiates `Rob`; the proof instantiates `Rob_proofs` (`R`) in the same
  way, shows that both mean the same (`SameRob`) and that the core uses the ports as `RobSpec` allows
  (`RobPortsUsed`), and so gets `RobWindow` for the buffer inside the core without proving it again.

`InOrder_proofs`, in-order mode: the core that starts in in-order mode and whose program does not set moooctrl (`InOrderMode`).

* `InOrderDataRight`, `InOrderPathRight`, `InOrderFflags`, `InOrderTrapsPrecise`, `InOrderDecodeSeesFs`: the five properties of the
  run `in_order`, for every program. `InOrderPathRight` also asks for `NoFpStores`, because finding 9 violates it
  otherwise. The inductive invariant `Inv` says where the program's knowledge is: the transfer that is owed is owed by
  the instruction in MEM if it traps or returns, else by the one in EX, so the wrong path reaches EX only behind a trap or a
  return and never MEM (`OnPath`); the program's mstatus.FS is ahead of the register by the write in MEM only
  (`FsAhead`); and the program's value of a register is in MEM, else in WB, else in the file, while EX holds what
  the file holds, and never depends on an FP load in MEM (`ValuesHeld`). It was checked by TLC on the instance of the run
  first. None of the five is inductive: they speak of one stage, and what makes them true is
  in the stage behind.

`Ooo_proofs`: both modes. Programs whose writes of moooctrl all write the same bit (`SwitchesOnce`), so that OoO mode is entered or left
at most once. Finding 3 is what happens otherwise: entries frozen when the mode is cleared come back when it is set.

* `OccupancyTheorem`: `Spec => []OccupancyBounded`, for every depth, with trapping and returning programs. It is why the runs with five and
  six entries speak for the real 16. The invariant `Tracked` says that every entry is that of the instruction in EX,
  MEM or WB, counted from the tail, except one at the head that has completed and commits at this edge; so an
  instruction that loses the CDB in EX gets it in MEM or WB at the latest, where it has precedence. `Issues` says
  that the queue's entry can issue at once, a memory operation because it was dispatched into an empty buffer. `Grants` and
  `Completes` are the arbitration of the CDB, `OooEdge` what an edge does to the buffer, `TrackedStep` joins them.
* `CoreDataRight`, `CorePathRight`: `DataRight` and `PathRight` from either mode, in OoO mode and across one change of mode.
  The hypothesis `Plain` leaves out of the program exactly what the findings show broken: words that
  except (1, 2; so mstatus.FS stays on), the other driver of `final_pc_target` (4), FP to integer (6), doubles (7), a
  `moooctrl` write that sets the bit and also writes a register (8), and switching back and forth (3). Branches, jumps, returns, loads,
  stores, AMOs, CSR accesses and single-precision FP are all allowed; the programs of `ooo_data` and `ooo_control` are of this kind.
  The invariant `Computes` has the in-order invariant of `InOrder_proofs` in one mode and four parts in the other, on top of `Tracked`:
  an entry is its stage's instruction and, once completed, has its result and says whether it transfers (`Buffered`);
  what serializes is alone (`Alone`); the program's instructions come first in the buffer and only the last of them can owe a
  transfer, so what is behind it is the wrong path and the flush that its commit makes takes nothing else (`OooPath`); the
  value of a register is in MEM, else in WB, else in the one entry that has left WB and commits at this
  edge, else in the file (`OooValues`), where MEM and WB count only if they are of the program's path. A flush therefore leaves
  the program's values in the file: what it drops is the wrong path, and the link value of the jump that commits is written at
  that edge (`HeadRight`, `FlushValues`). The entry that commits is why the commit port has to be forwarded: without it (mutant `OperandNoCommit`) an operand
  read at that edge is stale. `SwitchOn` and `SwitchOff` carry one form of the invariant into the other: a CSR write stalls what
  follows it (`CsrAlone`), so the back end holds nothing else when the mode changes. `Computes` was checked
  by TLC on the instances of both runs first.

The other three properties of `in_order` are not stated of OoO mode: findings 2 and 5 violate two of them there, and with FS
always on the third says nothing.

`SwWriter_proofs`: every arena, word width, buffers, names, values and flags, under `MemAssumption` (sizes are
positive) and `WriterAssumption`: buffers lie in the arena, which is smaller than `W`; `bufsize` is an `int`, and not
the one value of it, INT32_MAX, that `fdt_ro_probe_` refuses as a totalsize; and a
property name is no longer than header and one reserve entry together (libfdt does not check this, but the
31 characters that the device tree specification allows are far below 64). All five properties of the run `sw` are proved.

* `LayoutTheorem`: `Spec => []Layout`. `Layout` is not inductive: `fdt_add_string_` tests for room with
  `totalsize - offset`, which wraps for a name longer than the buffer, and whether the blob has reached the
  structure phase is encoded in `off_dt_strings` only. The invariant `Sound` adds to the room of `Layout`
  (`Room`) that the header fields are words (`Header`), and for each phase (`Phase`) where the reserve
  map starts, that nothing is in the two blocks before the map is finished, and that afterwards the
  structure block lies at least one reserve entry above it, which is what keeps the subtraction from
  wrapping. One lemma per operation that moves a boundary (`GrabSound`, `AddStringSound`, `ReserveSound`,
  `ResizeSound`, `CreateSound`, `PropertySound` with its rollback, `FinishSound`); `SoundStep` joins them.
* `CheckBlockTheorem`: `Spec => []CheckBlockSound`, from `Sound`: `totalsize` is a word, so a sum that wraps is below its
  start, and the two `check_off_` tests do the rest.
* `RefusalTheorem`: `Spec => []RefusesOnlyFull`, from `Sound`. The subtractions of `fdt_grab_space_` and `fdt_add_string_` do
  not wrap (`SpaceExact`, `NameExact`), so their tests are for the gap; a name takes room exactly if the search does not find it
  (`FoundWritten`); and both tests of a property together are for all of it (`PropertyExact`).
* `TokensTheorem`: `Spec => []TokensIntact`. Here the invariant is about the memory cells: `Inv` is `Sound` and `Intact`,
  where `Intact` has a part about header fields and log (`Shape`: the phase that `off_dt_strings` encodes, the
  structure size that the log adds up to) and one about the cells (`Content`: the marks of the header, the reserve
  entries, the cells of each token, and for each property the cells of its name, with the offset counted from the
  end of the buffer while the blob is written and from the strings block afterwards). TLC checked `Intact` on the
  instance of the run first. One lemma per call: `BeginNodeIntact`, `EndNodeIntact`, `EntryIntact`,
  `FinishReserveIntact`, `CreateIntact`; `PropertyIntact`, where `NameKeeps` covers a name that is found, added, or
  added and taken back; `ResizeIntact`, where `MoveBothCells` is the argument that the order of the two moves
  (which depends on the direction) lets neither run over the other block; `FinishIntact`, where `WalkTokens` says that the
  walk over the tags reaches exactly the logged tokens, so each name offset is translated once.
* `ReadersTheorem`: `Spec => []ReadersAgree`, from the same invariant: `NextTag`, `GetString` and `CheckHeader` are what the
  bounds-checked readers make of intact cells. It contains `CheckBlockSound`.
* `FailureTheorem`: `Spec => FailureKeepsBlob`. A failing call changes nothing (`SameUntouched`), or takes back what it stored
  below the names in use (`PropertyUntouched`). `fdt_finish` returns what `fdt_next_tag` reports if its walk meets a broken
  tag, when it has already stored the end tag and moved the strings; `SettledWalk` shows that this return is never
  taken.

`PosOf` and `TagOffsets` are recursive functions over Nat. What they compute is proved from the least-number principle
(`LeastNat`, from the well-foundedness of `<`), and their existence (`PosDef`, `TagOffsetsDef`) likewise.

`OverlayTool_proofs`: every base, list of overlays, buffer, increment and word width, under `FilesAssumption`: the
files are trees as dtc writes them. That is what `check_phandle_prop` and `check_explicit_phandles`
(`checks.c:485-566`) accept, namely phandles of one cell, neither 0 nor -1, that agree within a node and differ between nodes;
and the form of what dtc generates: nodes have their parents, a fragment's `target`
is a reference to a label, a cell is a reference to one label or to one node, no phandle is a reference, labels
name nodes. The overlays of the run, the faulty ones included, satisfy it (TLC evaluates it there). An overlay may still name labels
that the base does not have, places that do not exist, and targets that are not there; it may write one node from
several fragments; and its phandles may run into the end of the words.

* `PhandlesUniqueTheorem`, `MergeExactTheorem`, `SymbolsResolveTheorem`, `RefsResolveTheorem`: the four invariants of the run `overlay`.
  None is inductive: they speak of the result and of the files, and the steps in between work on two copies that are
  changed in place. The invariant `Inv` says for each step of `fdt_overlay_apply` how far the copies are. Over the
  overlay's copy: `Alike` (what no pass touches), `Moved` (its phandles are those of the file plus the base's
  largest), `LocalMoved` and `LocalInRange` (so are the cells that `__local_fixups__` names, and they exist; the other cells are those of
  the file), `LabelsResolved` (each place
  of a label holds the phandle of the label's node). Over the base's copy: `MergedTo`, which gives for each property the
  node of the overlay it came from, or the base if none of the fragments merged so far sets it; `LastWins`, that where several
  set it, it came from the last of them; and after the symbol pass `LabelsAdded`, for the labels it brings
  (`Brought`). One lemma per pass:
  `AdjustRight`, `UpdateRight`, `FixupRight`, `MergeRight`, `SymbolRight`. After an error nothing is known of either
  copy, and nothing needs to be: `apply_one` starts again from the files.
* The step that a reader would doubt is the lookup of a target by its phandle in a base that earlier fragments have
  changed (`overlay_get_target`), once more in the symbol pass. `LowPhandle` shows that a phandle of the half-merged tree that is not above the
  base's largest still belongs to the node that had it; so the node found is the one the label meant (`TargetRight`).
  `MergedGood` closes the loop over the overlays: the result is again a tree that the next overlay may be applied to.
* `MergeExact` says what each cell is (`Meant`): a phandle or a reference to a node of the overlay is the overlay's number plus the
  base's largest phandle, a reference to a label is the phandle of the label's node, any other cell is the file's. A pass that ran
  twice over one copy, or an attempt that started from a used copy (`OpenCopy`), would add the
  offset twice.
* `RefsResolve` covers every property and every offset, and leaves out these cells, in the run and in the theorem: those of a fragment
  that is not the last one to set the property (`LastWriter`); references to a node whose phandle several nodes of the
  overlay set (`Sole`), or that has a phandle in the base and is given another one (`Rephandled`), since the code rewrites
  references of the overlay only; a cell that is 0, which refers to no node; and `__symbols__`, which has paths
  instead of cells.

`OverlayTool_proofs` is about trees; that the blob functions below it implement trees is what `RwEditor` model-checks.

Only model-checked: `RwEditor` (with its refinement of `DevTree`), `Dtc`, and all liveness (`EntriesLeave`, `TransfersHappen`,
`FetchGoesOn`, `Ends`). Out of this prover's reach are liveness under fairness and `ENABLED`. The
schemas of induction of the library cannot be used, as they take a predicate as parameter; recursive functions over Nat are
handled with the least-number principle instead. That leaves the recursive operators, which switch off the arithmetic
prover in every module that reaches them: the walks over tags and trees of `FdtRo`, `FdtRw`,
`LiveTree`, `Checks` and `FlatTree`, and with them `RwEditor` and `Dtc`.

## Not modelled

Core: arithmetic (`alu.v`, `fp_*.sv`), immediates, bit patterns inside a class, data memory contents and LR/SC,
trap CSR contents, interrupts (the core has none: `mip` and `mie` are plain registers), `icg.v`
(a gated register keeps its value), reset in mid-run, the test environment.

Device tree tools: the lexer and the output of source, YAML and file systems (characters in and
out); the assembler output of `flattree.c` (the same traversal with another emitter); the checks of `checks.c` that
only print and need no check that does more (buses, interrupts, graphs, style); `fdtdump`, `fdtget`, `fdtput` (printing and command
lines over modelled calls); positions and utilities; the Python bindings; the copy of the headers in `src/dtc_install`; headers
shorter than that of version 17 and misaligned buffers in libfdt; expressions, `/include/`, `/incbin/` and `/bits/` in sources.

## Plan

Done: all modules above. Next, in this order:

1. `CsrFile`: all of `csr_file.v` (trap entry and return, mepc/mcause/mtval, fflags accrual against
   CSR writes, moooctrl), composed with the two sources of its inputs.
2. `Dmem`: byte-addressed memory with widths, LR/SC reservation and AMOs, against an abstract
   word memory with reservations.
3. Theorems: what is left of OoO mode with traps; `RwEditor` and `Dtc`, after their recursive operators are rewritten as
   recursive functions.
4. `Decode`, `Alu`, `ImmGen`, then the FP units on a small format, as operators against reference
   definitions.
