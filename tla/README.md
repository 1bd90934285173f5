# oemu in TLA+

oemu is an AArch64 emulator: a user-mode interpreter (`oemu run`) and a
full-system machine (`oemu boot`) that takes a Linux kernel from its entry
point to a serial shell. This directory specifies the parts of it that are hard
to test, checks them with TLC on small instances and proves the properties that
matter most with TLAPS. The reference is the C code; every definition that
models code is listed in `PROJECT.json` under `map` with the lines it stands
for.

## 1. The system

Everything runs in one thread. The hard part is not parallelism but *order*:
the guest may execute any instruction, pins and typed bytes may arrive between
any two of them, and several pieces of state are kept twice (a live stack
pointer and its bank, flags outside PSTATE, a TLB in front of page tables, a
sampled copy of interrupt levels, a flag register beside a ring).

| Component | State | Operations | Hard behaviour | What makes it correct |
| --- | --- | --- | --- | --- |
| GICv2 (`dev/gicv2.c`) | per-line enable, pending, active, priority, target; PMR, two enables | register reads and writes, IAR, EOIR, `set_pending` | acknowledge and end in any order, ties, spurious reads | nesting by priority, one line per acknowledge, pin and acknowledge agree |
| Exceptions (`exc/exc.c`, `sysreg/sysreg.c`) | PSTATE, SP and its banks, SPSR, ELR, VBAR, NZCV | take, ERET, MSR of those registers | interrupts between any two instructions, nesting, a guest that writes SPSR | resumed code sees its own state; privilege rises only through vectors |
| vCPU (`vcpu/vcpu.c`) | pins, event register, quantum | step, run, rearm, set_irq, set_fiq | lost wake-ups, interrupt storms | precise interrupts, slices end, parked cores wake |
| MMU (`mmu/mmu.c`) | TLB, epoch of five registers, fault record | translate, fetch, read, write, validate, flush | a guest that rewrites its tables, even with the store being translated | "the TLB is only ever faster, never different"; all or nothing |
| Executor (`exec/exec.c`) | register file, exclusive monitor | one instruction | faults half way through a pair | precise: a faulting instruction committed nothing |
| PL011 (`dev/pl011.c`) | two rings, CR, IMSC, RIS, FR, counters | DR, CR, IMSC, ICR, pump, inject | overflow, wrap-around, loopback, FIFO on and off | no uncounted loss, FIFO order, status and ring agree |
| Generic timer (`dev/gtimer.c`) | counter, two comparators | level of a comparator | wrap-around, stale level | expired exactly when the counter passed |
| Run loop (`main.c`: `boot_run`) | budget, held input, end of file | slice, refresh levels, pump, stdin, verdict, await | a power event, a spent budget and a parked core at one boundary | right exit status, no lost input or log, no hang |
| Machine, PSCI (`machine/`, `fw/`) | power event, exit code | poweroff, reset, dispatch | an event between two instructions | final, and decides the exit |
| Boot set-up (`main.c`: `main`, `boot`, `read_file`) | options, file buffers, placement of kernel, initrd, DTB | parse, load, patch, build the machine, clean up | any allocation or read fails; sizes near the end of RAM | every exit frees everything; what the guest is told is where it was put |
| Address space, memory (`aspace/`, `memory/`) | region tables | map, attach, find, read, write | ranges that touch 2^64 | regions are disjoint; an access is inside one |
| User mode (`core/sysenv.c`, `exec_run`, `main.c`: `run`) | registers, exclusive monitor, exit flag, output | one instruction, system calls, run | width boundaries, faults half way, a store inside a reservation | exact results, no half-done call, no abort |
| Loaders (`elf/`, `kernel/image.c`) | parsed headers | validate, map, copy | offsets that wrap, one allocation of several fails | validate, then commit; the image in memory is the file's |
| Device tree (`fdt/`, `dev/virt_dtb.c`) | a builder's words, strings and depth | begin, prop, end, finish, find | refused calls in the middle, a scratch that is just full | what was accepted reads back; the tree describes the machine |
| Buffer, allocator (`buffer/`, `core/allocator.c`) | length and capacity; blocks | append, dispose; alloc, free | growth at SIZE_MAX, failure at any call | no leak, no double free, no write past a block |
| Decoder (`decode/`) | none | a pure function of a 32-bit word | - | covered by the repository's golden corpus |

How they interact: `boot_run` calls `oemu_vcpu_run`; a step takes a pending
interrupt or fetches through the MMU, decodes and dispatches; loads and stores
go through the MMU to the address space and from there to RAM or to the GIC and
the UART. Between sub-slices the loop samples the UART's and the timers' levels
into the GIC and the GIC's verdict into the vCPU's pin; between slices it drains
the UART, feeds it from stdin, and looks at the machine's power event, which
PSCI sets from a firmware call inside an instruction. Before that, `boot`
reads its files into buffers, builds or patches a device tree, assembles the
machine's region table and places kernel, tree and ramdisk in its RAM; `run`
loads an ELF file into region-table memory and steps the user-mode dispatch,
whose `SVC` reaches the system calls.

The hazards of this code, each at its line and with the properties that watch
it, are in `PROJECT.json` under `hazards`.

## 2. Modules

| Module | Models | Used by |
| --- | --- | --- |
| `GicPriority` | eligibility, running priority and the best line, as definitions | `GicV2`, `GicAckLoop` |
| `GicV2` | the controller: one action per register write, IAR, EOIR, and the run loop's sampling of sources and pin | |
| `GicAckLoop` | `gic_acknowledge` iteration by iteration | |
| `Stacks` | abstract: one stack pointer per bank | `Exception` (refinement) |
| `Exception` | PSTATE, SP banks, SPSR, ELR; entry, ERET, MSR, any other instruction | `Vcpu` |
| `Vcpu` | step, pins, waits, event register, quantum; refines `Exception` | |
| `Pl011` | the UART | |
| `BootLoop` | `boot_run` with core, timer, UART, PSCI and terminal | |
| `PageWalk` | the stage-1 walk as a function | `Mmu` |
| `Mmu` | TLB, epoch, TLBI, AT, fetch, single, pair and misaligned accesses | |
| `Regions` | the range arithmetic and tables of `aspace.c` and `memory.c`, and the range tests of `elf.c`, over the addresses `0 .. Top` | `Executor`, `BootSetup` |
| `Alu` | the pure arithmetic of `regs.c` and `exec.c`, at widths that are constants | `Executor` |
| `Executor` | user-mode dispatch, loads and stores, exclusive monitor, system calls, the budgeted run loop | `UserRun` |
| `Host` | the allocator seam, the growable buffer, `read_file` | `UserRun`, `BootSetup` |
| `UserRun` | `run()`: ELF loader, stack, guest, cleanup | `Main` |
| `BootSetup` | `boot()`: files, tree, patchers, Image header, machine, placement, cleanup | `Main` |
| `Main` | `main()`: the command line, and both commands composed | |
| `Fdt` | the device-tree builder and reader | `VirtDtb` |
| `VirtDtb` | `oemu_virt_dtb_build` call by call, and any other client of the builder | |
| `MC*` | the instances TLC checks | |
| `VcpuProofs` | theorems about `Vcpu` and, because it refines it, `Exception` | |
| `MainProofs` | theorems about the process: `Regions`, `Host`, `Executor`, `UserRun`, `BootSetup`, `Main` | |
| other `*Proofs` | theorems about the component of that name | |

Correspondence in short:

- **GicV2.** The byte tables are sets of lines (enable, pending, active,
  target) and a function (priority). `Acknowledge` is a read of IAR with its
  side effects, `EndOfInterrupt` a write of EOIR. Group, configuration,
  binary point and SGIR are stored by the code and never read in a decision.
  `tampered` is a history variable: the guest changed an active bit or the
  priority of an active line by hand, after which nesting is its own business.
  `iar` remembers the last acknowledged line. `Refresh` is
  `boot_refresh_levels`: the levels of the `Wired` sources overwrite their
  pending state, whatever the guest or an acknowledgement left there, and the
  controller's verdict goes into `pin`, where it stays until the next refresh.
  `since` is a history variable: whether anything the guest wrote since then
  could take lines out of the scan's reach, or put lines into it.
- **Exception.** PSTATE is `[el, spsel, daif]`; the flags are in `nzcv`, as in
  the register file. `Take` is `oemu_exc_take` whole: vector, bank switch,
  SPSR, ELR, PC. An instruction that touches none of this state is `Compute`,
  `WriteSp` or `Branch`. `frame` is a history variable: what was interrupted,
  live until software rewrites the link registers. ESR and FAR are left out: no
  decision of the emulator reads them. SP_EL0 is writable by name from EL0, as
  its row in the table says.
- **Vcpu.** `Step` is `oemu_vcpu_step`: quantum, pending interrupt, fetch
  fault, SEV, wait or execute. `at_op` records the wait a core is parked at.
  The pins are moved by `Machine` at any time.
- **Pl011.** Rings are arrays with head, count and tail modulo their size.
  `sent`, `accepted`, `got` and the log are history.
- **BootLoop.** `at` is the place in `boot_run`. The guest is any program:
  `passes` is the set of sources its masks let through, `ris` the UART's
  status, `timer` the counts until the comparator fires. Typed bytes are
  numbered, so that order can be stated.
- **PageWalk, Mmu.** Tables have `Fanout` entries, a physical page is a frame
  number, an address is `[half, vpn, tag]` and TCR widths are whole index
  fields. The walk loop is unrolled: level 3 holds no table, so it turns at
  most four times. Page tables are ordinary memory; a store may rewrite the
  descriptor that maps its own second half. The exception level is an input of
  each access. A split access is grouped per page. `cache.seen` is a history
  variable: the leaves the tables have mapped each key to since the TLB was
  last emptied. Not covered: a pair whose two transfers are both misaligned,
  and the fault record, which is consumed in the step that makes it.
- **Regions.** Pure operators. `Top` is UINT64_MAX; `Plus` and `Minus` wrap as
  the code's unsigned arithmetic does. The two files spell containment
  differently, so there are two operators (`Covers`, `MemCovers`), shown equal.
- **Alu, Executor.** An instruction is the record the decoder returns; the
  guest's text is a sequence of them, a word past its end is one the decoder
  refuses, and text is never stored to. `Decoded` says what the decoder promises
  of such a record: the types of its fields and how the encodings bound them.
  Widths are constants: a register has
  `XBits`, W registers half of them, a byte an eighth. Loops over bits and bytes
  are recursive functions on `0 .. n` (`Pow2`, `SumTo`, `SumBits`, `StoreAll`,
  the CRC), so that they can be evaluated and reasoned about alike. Each group
  of cases of the dispatch switch is an action. `touched` (the bytes stored
  since the last LDXR, and by which path; `Marked` tells those past the top of
  memory apart) and `compared` (the operands the flags come from) are history
  variables.
- **Host.** A block has the name of the pointer that owns it; `heap` is what is
  live, `ptr` the pointers that are not NULL, `faults` the frees and copies that
  hit a dead or too small block. Every allocation and every read may fail.
- **UserRun, BootSetup, Main.** `phase` is the place in `run()` or `boot()`.
  A file is the record of the fields the code reads of it; a byte in RAM is
  known by its source file and offset, so that "complete" and "overwritten" can
  be told apart. A device-tree file is its length and its tokens, each with the
  offset behind its word (`pos`), the length its property claims and the offset
  where its name ends (`str`), in bytes of `TokenBytes` per word. The walks of
  the two patchers collect where each range they read or rewrite ends
  (`Touch`, `Found`); what lies behind the block is recorded in `faults`. The
  run loop of `boot` is one step that ends with any exit
  status: `BootLoop` is its detail. A command line is a sequence of options with
  values that parse or do not.
- **Fdt, VirtDtb.** The structure block is a sequence of words tagged with what
  they hold, the strings block a set of offsets and names; lengths are bytes.
  A 64-bit number is two cells of `CellBase`, high cell first (`Split`), and a
  path below the root that consists of one empty name is the root's own, "/", as
  in the code. `log` (the calls accepted) and `stray` (how many were, when a
  refused `finish` first left its END in the scratch) are history variables. `VirtDtb` keeps virt_dtb.c's own copy of the
  layout beside main.c's, which is a constant, because the two must agree.

## 3. Runs

| Run | Instance | States | Shows |
| --- | --- | --- | --- |
| `gic` | lines 27 and 33, both wired, priorities 0, 64, 128, masks 0 (at reset), 65, 255 | 1.1 million | nesting, `LastAckRuns`, `PinAgrees`, exact acknowledgement, spurious reads included |
| `gic_ack_loop` | three lines, priorities 0 and 7 | 1.8 million | both loops compute their definitions |
| `exception` | guest from EL1, two code words, two flag values, two SP values | 426 thousand | frames, ERET, privilege, stack refinement |
| `vcpu` | the same guest, quantum 2 | 117 thousand | refinement of `Exception`, precision, parking, three liveness properties |
| `pl011` | rings of 2, four sends, one host byte | 2.9 million | conservation, order, status, flags |
| `boot_loop` | budget 5, slice 3, sub-slice 2, held 2, ring 1, three keystrokes | 325 thousand | input order, fresh levels, complete log, exit status, power events |
| `mmu` | Fanout 2, two TLB sets, four frames, one store, two MSRs, EL0, EL1, EL3 | 9 thousand | parity, precision |
| `main` | 8-bit registers, a byte is one bit, 256 addresses; ELF, kernel, tree and ramdisk files at every limit; every option, also missing and malformed | 336 thousand | ten properties, below |
| `fdt` | scratch of 12, 44 and 52 bytes for any client; 12 to 1686 for boot's own tree, exactly enough and one short; cells of 28 bits and RAM below, at and above what one holds | 91 thousand | round trip, and the tree against the machine |
| `vcpu_user`, `mmu_align`, `exec_monitor` | as `vcpu`, `mmu`, `main` | | three disagreements, section 6 |

What `main` checks: no path leaks, frees twice or reaches past a block
(`HeapSound`; exempt is the block of a `-dtb` file whose own properties run past
its end, observation 21); both region tables stay disjoint and inside the address space
(`TableSound`); the ELF loader validates before it maps (`ValidateThenCommit`)
and the guest starts in exactly its image (`LoadedExactly`); the machine's guest
finds kernel, tree and ramdisk complete where it is told they are (`Placement`);
no access that passed validation fails (`NoPanic`); a live reservation was not
stored to (`ExclusiveSafe`); arithmetic is exact, flags included
(`ResultsMatch`), a conditional branch decides the relation it is named for
(`ComparesDecide`), and a system call happens whole or not at all
(`SyscallsAtomic`).

Why the bounds are enough. GIC: a shared and a private line differ in how their
target is written; two lines and three priorities give a winner, a tie and a
line below the mask. A pin is sampled at any moment, so that every sequence of
writes lies between a sample and an acknowledgement. Exception: two code words give "this instruction" and "the
next one", two flag values tell whose flags they are, two SP values tell banks
apart; nesting is bounded only by the vectors. UART: a ring of two wraps, fills
and overflows within four sends. Run loop: the budget is not a multiple of the
slice nor the slice of the sub-slice, and the held queue is smaller than what
can be typed. MMU: two sets collide, one store is enough to rewrite the table
of its own second half, two MSRs change the epoch and change it back. `Parity`
and `Precise` are stated over every access the guest *could* make in the
current state, so one store does not limit what is looked at. Executor: at eight bits, W
is half a register, every shift and mask boundary is within reach, and so is
the top of the address space; operands are the edges 0, 1, 7, 8, 15, 127, 128,
170, 254 and 255; text lies at 16, data at 208, and the stack ends at the top.
Region tables hold 3 and 5 entries, as full as the code can make them. RAM is
64 bytes at 128, with the margins of `boot` scaled alike. A `-dtb` file has
one-byte words, a command line of 5 bytes and a reg of 4, and is also given cut
behind, in and before each part of the properties that are rewritten, and with
a name that ends past it. Device tree: a cell of 28 bits instead of 32 keeps
both halves of a split number within TLC's integers; names
and values lie around each multiple of a word, and the scratch is exhausted by
structure, by strings and exactly. A parked run loop
at a closed console stops, and so does an interrupt controller nobody drives;
where a configuration turns deadlock checking off, this is why. `main` and
`fdt` check deadlock: only a process that has exited, or a client that has
nothing left to call, stutters.

Fairness. `vcpu`: `WF(Step)` and `WF(Rearm)`, because `boot_run` steps an armed
core and re-arms it at the end of its slice; nothing is assumed of the pins.
`boot_loop`: `WF(Loop)`, because the loop never pauses by itself; nobody has to
type. No strong fairness is used.

Each property has a mutant of a mapped definition that TLC must find violating
it; they stand beside the definition they change and are marked in a comment.

Type invariants are proved for every value of the constants (section 4) rather
than run.

## 4. Proofs

The theorems hold for every value of the constants under the named assumptions
of the modules, which TLC evaluates on every instance. No recursive operator is
used in the modules proved about; a loop is a recursive function on `0 .. n`.
That such a function satisfies its equation, and facts about all its values, are
inductions over a bounded range: `RecursionExists` and `BoundedInduction` in
`MainProofs` get them from the least number at which a set of naturals fails, so
that the induction step is a fact about one set and not about an operator.

- **GIC.** `TypeCorrect`, `Nesting`, `LastAcknowledged`, `PinMeansAck`,
  `AckExact`. Nesting needs that the last acknowledged line, while active, is
  the running one: a new line is below every active one because the floor
  excludes ties. `PinMeansAck` (`PinAgrees`) keeps, from one sample to the next,
  that a pin was the scan's verdict and that each write since then either cannot
  shrink the set of eligible lines or is remembered as one that can, and the
  same for growing it; an end of interrupt can only raise the floor, an
  acknowledgement only lower it. The facts about minima over sets of lines are in
  `GicPriorityProofs`.
- **The acknowledge loop.** `LoopInvariant`, `AckCorrect`: the loops compute
  the definitions for tables of any length. The invariant says what has been
  seen so far; the step is that the best of a set extended by its new maximum
  index is the old best unless the new line is strictly better.
- **Exceptions.** `ExcTypeCorrect`, `StacksImplemented` (refinement of
  `Stacks`), `PrivilegeIsGated`, `FramesIntact`, `EretResumes`. The last two
  rest on `FrameInv` = types, the level is 0 or 1, frames intact, and assume
  that the guest does not start at EL3: an EL3 guest may enter EL2, whose
  exceptions go down to EL1, and there the saved state names a level ERET
  refuses.
- **vCPU.** `VcpuImplementsException`: every step is a step of `Exception` or
  leaves its state alone, so that the theorems above carry over. With it
  `VcpuTypeCorrect`, `InterruptsPrecise`, `ParkingSound`.
- **UART.** `UartTypeCorrect`, `NoSilentLoss`, `RxAlwaysSignalled`,
  `FlagsAlwaysFresh`, and the order of both rings, `RxInOrder` and `TxNewest`,
  for rings of any size. `RxFifo` speaks of a queue read off the ring; the
  inductive form `RxFlow` says slot by slot which accepted byte lies where, and
  that the tail is head plus count modulo the ring, so that an arrival lands
  behind the last byte. `TxFlow` says that the queued bytes ascend and that
  whatever is younger than the oldest of them is queued or emitted: an overflow
  moves the head over the oldest only, a pass-through write enters `out`.
- **Run loop.** `BootTypes`, `BootInput`, `BootLevels`, `BootLog`, `BootExit`,
  `BootPowerEvent`, for any budget, slice, sub-slice and queue. The inductive
  `LoopInv` adds to the types what each place of the loop knows (`AtPoint`): how
  much of the sub-slice the age of the levels and the steps still to come share,
  that the ring is empty from the drain to the exit, that the status is
  "blocked" only while parked without an event. `BootInput` needs that
  `boot_inject_held` only moves the border between what was delivered and what
  is held: their concatenation is the same before and after, so that new bytes
  go behind all earlier ones.
- **MMU.** `MmuTypeCorrect`, `TlbParity`, `StoresPrecise`. The inductive
  invariant `CacheOK` says that each entry in use sits in the set of its key and
  holds a leaf of `seen`, and that `seen` contains what the tables map now. It
  needs that a flush or a changed register empties the table together with
  `seen`. Precision is a property of one instruction in any such state: a probe
  that succeeds *pins* its page in the TLB, where no store reaches, so the
  transfer that follows gets the same frame although the first half of the
  store rewrote the table. The pins of two adjacent pages must not evict each
  other: that is `NeighboursAssumption`, at least two sets
  (`OEMU_MMU_TLB_ENTRIES` is 4096, `mmu.h:76`).
- **Regions.** For every `Top` (`TopAssumption`): `OverlapExact` (the test
  without a sum holds exactly when two ranges share a byte, also when one ends
  at the top), `CoversExact` (both spellings of containment say what they mean),
  `MapKeepsSound` (an accepted mapping keeps the table disjoint and inside the
  address space), `FindUnique` (at most one region of a sound table covers an
  access, so the order of the table does not matter, nor which spelling asks),
  and `ElfArithmetic` (the loader's `Within` is `off + span <= len` without the
  sum, and its overlap test agrees with the memory's).
- **The process.** `ProcessInvariant` is the induction for `main`, `run` and
  `boot` together, with every allocation and read free to fail. `ProcessInv` is
  - `Control`: the phase belongs to the command given, with the file and the
    options it parsed, and there is an exit status only after it;
  - `Storage`: every pointer that is not NULL owns a live block; `Contained`:
    nothing went wrong so far, unless the tree's file is one that is not `Whole`;
    `Owned`: the live blocks are among those the cleanup of the
    current phase frees. From the three, `HeapIsSound`. That `append` never copies
    past its block needs that growth by halves ends with room for the length
    asked for. Each turn moves the capacity up within `size_t`; a capacity for
    which the loop had no answer would have a greatest one, whose next turn has
    an answer. That the two patchers stay inside the block of a whole tree is an
    induction over the tokens: a walk has only touched ranges that end within
    the block (`WalkState`), because a token it gets to lies inside, and its two
    words, its name and as much of the value as is rewritten lie inside with the
    property as a whole: the lengths tested, 257 and 16, are those written;
  - `Loading`: what guest memory holds after each number of segments mapped.
    From it `TablesSound`, `LoaderCommits`, and with `FindUnique`
    `GuestLoadedExactly`. The loader's own overlap test and its limit leave
    `oemu_memory_map` nothing to refuse, so that only memory can run out half
    way;
  - `Booting`: what is known of tree, entry, machine and RAM from each phase on.
    From it `TablesSound` and `PlacementHolds`. The formulas of `boot` are never
    compared with each other, and hold together for three reasons: a write the
    bus accepts cannot go round the top of the address space, because there is
    no RAM at address 0; a generated tree is no longer than the quarter of RAM
    between itself and the ramdisk; and with `-dtb` a ramdisk would be written
    to address 0, so that a boot that gets past it had an empty one;
  - `NoPanic`, hence `NeverPanics`: a store validates each range it then
    writes, and a step between validation and write changes no region.

- **The executor.** Four theorems about whatever a guest runs, for every register
  width, byte width, clock, polynomial, text and region table:
  - `CoreTyped`: registers, memory bytes, flags, thread pointer and monitor stay
    values of their widths. It has one lemma per group of the dispatch switch,
    resting on lemmas about each operator of `Alu`: what it returns is a number
    of its width. Bits are put together by `SumBits`, which an induction bounds;
  - `ReservationsSafe` (`ExclusiveSafe`). The inductive `ExecInv` adds `Core` to
    it, because the overlap test of `note_store` is only right for addresses
    that are register values, and the region table from `ProcessInv`: a store
    that was served lies inside a region, so its bytes do not go round. The two
    halves of a pair are each inside a region but need not be neighbours; the
    attempt to prove that they are is what led to `TopPairClears`, section 6;
  - `ComparisonsDecide` (`ComparesDecide`). `CompareInv` adds that the flags
    held are those of subtracting the remembered operands, through SUBS, CCMP
    and whatever runs in between. The arithmetic is `ConditionDecides`: carry
    out of `n + ~m + 1` means `n >= m` unsigned, and N differs from V exactly
    when `n < m` signed, at the width the instruction had, which may be half the
    register;
  - `SystemCallsAtomic` (`SyscallsAtomic`). `SyscallInv` adds the output. A
    refused call has no effect before its refusal; a write validates the range
    it then sends byte by byte; a clock reading is stored by two writes that were
    both validated, of bytes that are apart also where the second goes round the
    top, and `LoadIs` gives back from the bytes the number that was stored.

  They are induced together with `ProcessInv`, from which they take the
  soundness of the region table and what memory holds when the guest starts.

  Three more are about what the operators of `Alu` compute, part of what
  `ResultsMatch` compares: `SumsExact` (value and flags of the adder, where the
  register-wide form has to notice a carry-in that alone makes the sum wrap),
  `HighWordsExact` (the product in base 2^32, digit by digit: the carries of the
  middle column are what the code's `mid` collects, and the signed form differs
  by a multiple of the register and one correction per negative operand) and
  `DivisionsExact` (C divides towards zero; only the smallest number by -1 does
  not fit).

  Assumptions of the process and the executor: `HostAssumption`;
  `WidthAssumption` (a register is eight bytes); `ExecAssumption` (the address
  space is what a register can name, `UINT64_MAX`; a polynomial and the host's
  time fit a register); `UserAssumption` (`size_t` is no wider than an
  address; every segment's block has a name; bytes of a file are bytes; the
  stack's alignment is positive), `BootAssumption` (RAM does not
  start at 0, the first stack frame lies inside the margin above the ramdisk and
  16 bytes below the top of RAM exist: `BOOT_RAM_BASE` is 0x40000000) and
  `CommandLineAssumption` (a parsed `-m` is a positive number of MiB, and a
  quarter of one MiB holds a generated tree, which `BOOT_DTB_MAX` limits to 64
  KiB and a header, `main.c:141`; fields of files are unsigned numbers, and
  instructions are what the decoder returns, `Decoded`).

Only model-checked, and why:

- liveness (`WakeUp`, `SliceEnds`, `FiqServiced`, `PowerOffEnds`): fairness and
  ENABLED are outside the prover;
- `ResultsMatch` as a whole. Its sums, high words and quotients are theorems
  about the operators, above, and every result is a number of its width
  (`CoreTyped`). Bit fields, rotations and EXTR need that `Or` of disjoint masks
  is their sum, bit by bit, and the CRC taken in two halves needs that a shift
  register is linear over exclusive or: both are inductions over bits that have
  not been done;
- `RoundTrip`, `TreeDescribesMachine`: they compare what a walk over words finds
  with the calls that emitted them, an induction over nested nodes that has not
  been done.

## 5. What is not modelled

- **Decoder.** A pure function of one word: a model would transcribe its
  tables. Executor and vCPU take any decoded record.
- DC ZVA and the trace ring of the executor; the trace only records.
- The system-register rows that are plain storage, and the PSCI version and
  feature queries, which are constants.
- `map_alias` and `map_ram_alias`, which no code under `src/src` calls, and the
  buffer operations without a caller (reserve, resize).
- The signed 64-bit compare of the generic timer: `BootLoop` counts what is left
  until the comparator fires.
- Formatting, messages, status names, the version, the memory-dump diagnostic,
  ESR and FAR contents, the constant words of a device tree's header.
- `BootLoop` leaves out the exit for a status that is neither parked nor
  timeout: the step returns one only for a NULL argument.

## 6. Disagreements found

With a run that shows the violation, both sides quoted in `PROJECT.json` under
`findings`:

- `vcpu_user`: MSR DAIFSet, DAIFClr or SPSel at EL0 neither executes nor traps
  (`exec.c:1259`).
- `mmu_align`: with alignment checking on, a misaligned access passes
  `validate` and then aborts the emulator (`mmu.c:791`).
- `exec_monitor`: a vector STR (`exec.c:849`) and the timespec of
  `clock_gettime` (`sysenv.c:100`) leave a reservation alive that they overlap;
  `exec.h:41` says any store clears it.

With a property that holds and a comment that denies it, also under `findings`:

- `WakeUp`: a masked pin wakes a parked core. `vcpu_wait` says so
  (`vcpu.c:96-101`); `vcpu.c:29-30` ("neither delivers nor wakes") and
  `vcpu_internal.h:20-23` ("must not wake a WFI either") say it does not.
- `InputInOrder`: a byte the receiver refuses is held and offered again
  (`main.c:630-642`); the comment at the call (`main.c:765-767`) still says that
  it is dropped.
- `TreeDescribesMachine`: the virtual timer is PPI 27, in the tree and in what
  the loop drives; `main.c:613-614` says 26.
- `RoundTrip`: a blob has the length of its calls exactly when no `finish` was
  refused for want of memory (observation 11); `fdt.c:16` says that "a refusal
  leaves the builder exactly as it was".

### Observations

Met while modelling, without a run of their own. Paths are under `src/src` and
`src/include/oemu` unless given.

1. `BlockedMeansDeadlock` (`main.c:782`): the verdict uses the status from
   before the levels were sampled, so the loop exits "blocked", or sleeps in
   `read`, with a level high that would wake the core; `main.c:99` says "nothing
   that could wake it". `BootLoop` states the property.
2. `HostNeverSpins` (`main.c:703`): a parked guest whose receiver is off and a
   held byte make the loop turn for ever without spending budget, against
   `src/docs/task-cards/m5-linux-boot.md:45`.
3. `LogInOrder` (`pl011.c:201`): clearing FEN with bytes queued lets a later
   byte overtake them, against `main.c:296`. `Pl011` states the property.
4. `boot` parses the Image header before any check of the file's length
   (`main.c:1027`, `image.h:45`): for a short file the fields are whatever the
   buffer holds, and the model chooses them freely. The later check of the
   length refuses such a file.
5. `image.h` says a file shorter than `text_offset + image_size` is refused;
   nothing compares them. The comment on the tail (`image.c:111`) describes
   another write than the zero-padded one the code makes.
6. Nothing checks that the kernel ends below the tree and the ramdisk.
   `Placement` promises a complete kernel only to one that does.
7. `-dtb` with `-initrd` prints a note that the ramdisk needs the generated
   tree, then still writes it, at address 0, which the bus refuses: the boot
   ends with an error.
8. `sysenv.c:50` refuses a write whose range ends exactly at 2^64, which is a
   valid range.
9. The comment on `stack_base_for` says the stack cannot overlap a segment;
   near 2^64 it can, and `oemu_memory_map` refuses it.
10. CLS of zero and LSR by an immediate of zero follow the repository's tests,
    not the architecture.
11. `finish` emits its END before it allocates the blob (`fdt.c:384`, `:397`),
    and a failed allocation leaves it there, although `fdt.h` calls the object
    "intact and retryable". Each retry is a word longer; with the scratch exactly
    full it is refused for ever; and calls accepted between the two (a second
    root, for the depth is 0) lie behind an END, where no reader finds them.
    `RoundTrip` says of such a builder that its blob is not dense, and that it
    reads back as long as nothing but `finish` is called again.
12. `fdt.h` calls `cap` the ceiling of the finished blob; header and reserve
    map come on top, up to 56 bytes.
13. The comment at `virt_dtb.c:235` lists the timer interrupts in another order
    than the values, which are right.
14. The comment at `exec.c:1716` says the smallest integer divided by -1 gives
    zero; the code gives the smallest integer, as the architecture does.

15. The count `write` returns is the length asked for, and a length of 2^63 or
    more reads as a negative number, an error to the guest, although every byte
    went out. It needs a mapping of half the address space; `SyscallsAtomic`
    exempts exactly this case.
16. `TopPairClears` (`exec.c:741`, `:815`): a pair stored at the last bytes of
    the address space has its second half at address 0. `note_store` is told of
    one range from the first half on and leaves a reservation at 0 alive,
    against `exec.h:41`. `Executor` states the property, the guests
    `WrapGuests` of `main` violate it, and `ExclusiveSafe` exempts these bytes.
17. The two comments at `pending_kind` on masked pins (`vcpu.c:29-30`,
    `vcpu_internal.h:20-23`) do not describe the wake-up, which does not go
    through that function.
18. `main.c:765-767` describes the input path from before `boot_inject_held`.
19. `main.c:611-615` describes the wiring of the virtual timer that
    `main.c:130-136` calls the earlier, wrong one.
20. `exec.h:75-76` says that vector accesses are refused in user mode. The
    user-mode dispatch serves the vector loads and stores, single and pair, and
    so does the model.
21. The two `-dtb` patchers compare only a token's own word with the end of the
    block (`main.c:385`, `:403`, `:451`). The words behind it, the name, the 257
    bytes at `main.c:417-420` and the 16 at `main.c:474-478` are where the file
    says, and `main.c:1002` has checked no more than the header: a file cut
    inside a property is read and rewritten past its block. `HeapSound` and
    `HeapIsSound` promise the block's bounds for trees that are `Whole`.

## 7. State and plan

Done, in order of importance: exceptions and vCPU, GIC, MMU, UART, run loop;
then regions, executor, loaders, boot set-up, command line and device tree.
What is left:

1. DC ZVA composed with `Mmu`, and the monitor over translated stores.
2. The system-register table (search, masks) and the timer's compare as
   operators checked against reference definitions.
3. Proofs: `FrameIntact` for a guest that starts at EL3 and uses only the levels
   whose exceptions do not go down; the rest of `ResultsMatch`
   (bit fields, rotations, leading zeros, CRC); `RoundTrip`.

`BootLoop` composes abstractions of the core, the UART and the GIC; composing
the detailed modules under one run is beyond a five-minute run, so the links are
the predicates they share (`IrqLevel`, `RxSignalled`, `PinAgrees`).
