------------------------------ MODULE BootSetup ------------------------------
(***************************************************************************)
(* `oemu boot' up to the run loop and after it: boot() of main.c with      *)
(* dtb_load and the two in-place patchers, the Image loader of             *)
(* kernel/image.c and the machine of machine.c on the region table of      *)
(* aspace.c.  The run loop itself is the module BootLoop; here it is one   *)
(* step that ends with any of its exit statuses.                           *)
(*                                                                         *)
(* Files are records of the fields the code reads; a byte in RAM is known  *)
(* by the file it came from and its offset there.                          *)
(***************************************************************************)
EXTENDS Regions, Host

CONSTANTS
  Kernel(_),        \* a kernel file: [size, code, magic, be, page, text]
  Initrd(_),        \* the size of a ramdisk file
  Dtb(_),           \* a tree file: [size, magic, total, tokens], a token being
                    \* [t, name, len, pos, str]: pos is just past its word, str just
                    \* past its name in the strings block
  RamBase,          \* BOOT_RAM_BASE
  Uart, Dist, Cpuif,\* <<base, size>> of the three devices
  BootCapacity,     \* BOOT_REGION_CAPACITY
  ImageHeader,      \* OEMU_IMAGE_HEADER_SIZE
  PageSize,         \* 4 KiB
  TextLimit,        \* 2 MiB
  DwordBytes,       \* the loader's write size
  DtbMin, DtbMax,   \* the 40-byte header, BOOT_DTB_MAX
  GeneratedLen,     \* the length of a generated tree
  BootlineLen, CmdlineMax,
  TokenBytes,       \* a token, or a cell: 4
  InitrdMargin,     \* BOOT_INITRD_MARGIN
  StackGap          \* SP starts this far below the top of RAM

ASSUME BootAssumption ==
  /\ RamBase \in Address \ {0}
  /\ \A d \in {Uart, Dist, Cpuif} : d[1] \in Address /\ d[2] \in Address
  /\ BootCapacity \in Nat
  /\ {ImageHeader, PageSize, DwordBytes} \subseteq Nat \ {0}
  /\ {TextLimit, GeneratedLen, StackGap, InitrdMargin, TokenBytes} \subseteq Nat
  /\ StackGap < InitrdMargin /\ StackGap < RamBase

VARIABLES
  opts,       \* boot_opts
  tree,       \* the blob to place: its length, what it advertises, what was patched
  hdr,        \* the parsed Image header's text_offset
  machine     \* the region table, RAM's content, and the vCPU's first state

bootVars == <<opts, tree, hdr, machine>>

NoOpts == [kernel |-> NoFile, initrd |-> NoFile, dtb |-> NoFile, cmdline |-> -1,
           ram |-> 0, serial |-> "stdout", entry |-> 0]
NoTree == [len |-> 0, initrd |-> <<0, 0>>, bootline |-> 0, memory |-> 0]
NoMachine == [regions |-> <<>>, mem |-> <<>>, entry |-> 0, initrd |-> 0, pc |-> 0, sp |-> 0,
              x0 |-> 0]

BootIdle ==
  /\ opts = NoOpts
  /\ tree = NoTree
  /\ hdr = 0
  /\ machine = NoMachine

TreeFile(f) ==
  /\ Dtb(f).size \in Nat /\ Len(Dtb(f).tokens) \in Nat
  /\ DOMAIN Dtb(f).tokens = 1 .. Len(Dtb(f).tokens)
  /\ \A i \in DOMAIN Dtb(f).tokens :
       {Dtb(f).tokens[i].len, Dtb(f).tokens[i].pos, Dtb(f).tokens[i].str} \subseteq Nat

KernelFile(f) == Kernel(f).size \in Nat /\ Kernel(f).text \in Nat

\* A number of mebibytes; a quarter of the least is room for a generated tree.
RamSize(n) == n \in Address /\ n % 4 = 0 /\ GeneratedLen <= n \div 4

HaveInitrd == opts.initrd # NoFile
Generated == opts.dtb = NoFile
KernelLen == bufs["image"].len
InitrdLen == bufs["initrd"].len

Stay == UNCHANGED bootVars

-----------------------------------------------------------------------------
(* The device tree.                                                        *)

\* Mutant: the margin is forgotten.
InitrdAddrTight(ram, len) ==
  LET base == RamBase + (ram \div 4) * 3
  IN IF base + len > RamBase + ram THEN 0 ELSE base

\* boot_initrd_addr: the three-quarter mark, or 0 when it does not fit.
InitrdAddr(ram, len) ==
  LET base == RamBase + (ram \div 4) * 3
  IN IF base + len + InitrdMargin > RamBase + ram THEN 0 ELSE base

\* oemu_fdt_init
TreeScratch == phase = "boot_tree" /\ Generated /\ AllocThen({"sb"}, "boot_build", "boot_done")
                 /\ Stay

\* The initrd's address, then oemu_virt_dtb_build, which may fail at any call
\* and whose last one swaps the scratch for the finished blob.
BuildTree ==
  LET at == IF HaveInitrd THEN InitrdAddr(opts.ram, InitrdLen) ELSE 0
  IN /\ phase = "boot_build"
     /\ \/ Goto("boot_done") /\ Stay
        \/ /\ HaveInitrd => at # 0
           /\ tree' = [tree EXCEPT !.len = GeneratedLen,
                                   !.initrd = <<at, IF HaveInitrd THEN at + InitrdLen ELSE 0>>]
           /\ machine' = [machine EXCEPT !.initrd = at]
           /\ heap' = (heap \ {"sb"}) \cup {"data"}
           /\ ptr' = (ptr \ {"sb"}) \cup {"data"}
           /\ phase' = "boot_header"
           /\ UNCHANGED <<opts, hdr, exit, faults, bufs, left>>

\* dtb_load: the file's bytes, copied; the buffer is disposed of either way.
LoadDtb ==
  \/ ReadFile("boot_dtb", "file", Dtb(opts.dtb).size, "boot_copy", "boot_unread") /\ Stay
  \/ /\ phase = "boot_unread"
     /\ Freed({"file"}) /\ BufferCleared({"file"}) /\ phase' = "boot_done"
     /\ UNCHANGED <<bootVars, exit, left>>
  \/ /\ phase = "boot_copy"
     /\ \/ /\ Freed({"file"}) /\ phase' = "boot_done" /\ tree' = tree
        \/ /\ heap' = (heap \ {"file"}) \cup {"dtb"}
           /\ ptr' = (ptr \ {"file"}) \cup {"dtb"}
           /\ faults' = faults
           /\ phase' = "boot_patch"
           /\ tree' = [tree EXCEPT !.len = bufs["file"].len]
     /\ BufferCleared({"file"})
     /\ UNCHANGED <<opts, hdr, machine, exit, left>>

\* The walk over the tokens both patchers make: a state with `at' the token
\* found, `stop' once the walk is over, and `ends' where each range of the block
\* it read or wrote ends.  Only a token's own word is checked against the
\* block's end: what follows it is read, and rewritten, unchecked.
WalkStart == [depth |-> 0, inside |-> FALSE, at |-> 0, stop |-> FALSE, ends |-> {}]
Over(s) == [s EXCEPT !.stop = TRUE]
Touch(s, ends) == [s EXCEPT !.ends = @ \cup ends]
Found(s, i, end) == [s EXCEPT !.at = i, !.stop = TRUE, !.ends = @ \cup {end}]

Walk(tokens, len, Step(_, _, _)) ==
  LET walked[i \in 0 .. Len(tokens)] ==
        IF i = 0 THEN WalkStart
        ELSE IF walked[i - 1].stop \/ tokens[i].pos > len THEN Over(walked[i - 1])
        ELSE Step(walked[i - 1], tokens[i], i)
  IN walked[Len(tokens)]

\* Past a property's two words, dlen and name_off, is its value.
ValueAt(tok) == tok.pos + 2 * TokenBytes

\* dtb_patch_bootline: only the first /chosen counts, up to its first child,
\* its end, or a token that is not a property.  The line it writes fills the
\* value, pad and terminator.
BootlineStep(s, tok, i) ==
  LET sized == tok.len = BootlineLen
      named == Touch(s, {ValueAt(tok)} \cup (IF sized THEN {tok.str} ELSE {}))
  IN CASE s.inside /\ tok.t = "PROP" ->
            IF sized /\ tok.name = "bootline" THEN Found(named, i, ValueAt(tok) + BootlineLen)
            ELSE named
       [] ~s.inside /\ tok.t = "END_NODE" -> [s EXCEPT !.depth = @ - 1]
       [] ~s.inside /\ tok.t = "BEGIN" ->
            [s EXCEPT !.depth = @ + 1, !.inside = s.depth = 1 /\ tok.name = "chosen"]
       [] ~s.inside /\ tok.t = "PROP" -> Touch(s, {tok.pos + TokenBytes})
       [] OTHER -> Over(s)

\* Mutant: a reg of one 64-bit number is rewritten as if it held two.
MemoryStepShort(s, tok, i) ==
  LET named == Touch(s, {ValueAt(tok)} \cup (IF s.inside THEN {tok.str} ELSE {}))
  IN CASE tok.t = "END_NODE" -> [s EXCEPT !.depth = @ - 1, !.inside = FALSE]
       [] tok.t = "BEGIN" ->
            [s EXCEPT !.depth = @ + 1, !.inside = s.depth = 1 /\ tok.name = "memory@"]
       [] tok.t = "PROP" ->
            IF s.inside /\ tok.name = "reg" /\ tok.len >= 2 * TokenBytes
            THEN Found(named, i, ValueAt(tok) + 4 * TokenBytes) ELSE named
       [] OTHER -> Over(s)

\* dtb_patch_node: the first reg of /memory@, unless a child came before it;
\* its first two 64-bit numbers are rewritten.
MemoryStep(s, tok, i) ==
  LET named == Touch(s, {ValueAt(tok)} \cup (IF s.inside THEN {tok.str} ELSE {}))
  IN CASE tok.t = "END_NODE" -> [s EXCEPT !.depth = @ - 1, !.inside = FALSE]
       [] tok.t = "BEGIN" ->
            [s EXCEPT !.depth = @ + 1, !.inside = s.depth = 1 /\ tok.name = "memory@"]
       [] tok.t = "PROP" ->
            IF s.inside /\ tok.name = "reg" /\ tok.len >= 4 * TokenBytes
            THEN Found(named, i, ValueAt(tok) + 4 * TokenBytes) ELSE named
       [] OTHER -> Over(s)

\* The -dtb branch of boot(), after dtb_load: what lies past the block's end
\* and was touched all the same is a fault.
PatchTree ==
  LET f == Dtb(opts.dtb)
      invalid == tree.len < DtbMin \/ ~f.magic \/ f.total > tree.len \/ tree.len > DtbMax
      line == IF opts.cmdline = -1 \/ opts.cmdline >= CmdlineMax THEN WalkStart
              ELSE Walk(f.tokens, tree.len, BootlineStep)
      memory == Walk(f.tokens, tree.len, MemoryStep)
      refused == opts.cmdline # -1 /\ line.at = 0
      reached == IF invalid THEN {} ELSE IF refused THEN line.ends ELSE line.ends \cup memory.ends
  IN /\ phase = "boot_patch"
     /\ IF invalid \/ refused
        THEN phase' = "boot_done" /\ tree' = tree
        ELSE /\ phase' = "boot_header"
             /\ tree' = [tree EXCEPT !.bootline = line.at, !.memory = memory.at]
     /\ faults' = IF \E end \in reached : end > tree.len THEN faults \cup {"dtb"} ELSE faults
     /\ UNCHANGED <<opts, hdr, machine, exit, heap, ptr, bufs, left>>

\* A tree whose properties, values and names, lie inside its file.
Whole(tokens, len) ==
  \A i \in DOMAIN tokens :
    tokens[i].t = "PROP" /\ tokens[i].pos <= len =>
      ValueAt(tokens[i]) + tokens[i].len <= len /\ tokens[i].str <= len

-----------------------------------------------------------------------------
(* image.c *)

\* oemu_image_parse_header.  boot() calls it before any length is checked:
\* of a file shorter than the header it may read anything.
ParseHeader(k) ==
  IF KernelLen = 0 THEN {[ok |-> FALSE, text |-> 0]}
  ELSE IF KernelLen < ImageHeader
  THEN {[ok |-> ok, text |-> t * PageSize] : ok \in BOOLEAN,
                                             t \in 0 .. (TextLimit \div PageSize) - 1}
  ELSE {[ok |-> /\ k.code \in {"branch", "bti"} /\ k.magic /\ ~k.be
                /\ k.page \notin {"16K", "64K"}
                /\ k.text % PageSize = 0 /\ k.text < TextLimit,
         text |-> k.text]}

Entry(text) == IF opts.entry # 0 THEN opts.entry ELSE RamBase + text

\* The header, the entry point, and the serial log.
CheckKernel ==
  /\ phase = "boot_header"
  /\ \E h \in ParseHeader(Kernel(opts.kernel)) :
       IF \/ ~h.ok
          \/ Entry(h.text) % 4 # 0
          \/ Entry(h.text) < RamBase \/ Entry(h.text) >= RamBase + opts.ram
       THEN Goto("boot_done") /\ Stay
       ELSE /\ Goto("boot_serial")
            /\ hdr' = h.text
            /\ machine' = [machine EXCEPT !.entry = Entry(h.text)]
            /\ UNCHANGED <<opts, tree>>

OpenSerial ==
  /\ phase = "boot_serial"
  /\ IF opts.serial = "file" THEN AllocThen({"serial"}, "boot_machine", "boot_done")
     ELSE Goto("boot_machine")
  /\ Stay

-----------------------------------------------------------------------------
(* machine.c and aspace.c *)

Zeroed(base, n) == [a \in Bytes(base, n) |-> <<"zero", 0>>]

\* oemu_machine_init: the table, then RAM.  Without a table nothing was kept,
\* and without RAM the table is freed again and the struct zeroed, so that the
\* cleanup finds no pointer in it.
MachineInit ==
  /\ phase = "boot_machine"
  /\ \/ Goto("boot_done") /\ Stay
     \/ IF MapCommon(<<>>, BootCapacity, RamBase, opts.ram, Perms) # "OK"
        THEN Goto("boot_done") /\ Stay
        ELSE /\ machine' = [machine EXCEPT
                  !.regions = <<[base |-> RamBase, size |-> opts.ram, perms |-> Perms,
                                 kind |-> "ram"]>>,
                  !.mem = Zeroed(RamBase, opts.ram)]
             /\ Allocated({"table", "ram"})
             /\ phase' = "boot_devices"
             /\ UNCHANGED <<opts, tree, hdr, exit, faults, bufs, left>>

\* oemu_aspace_attach_device
Attach(table, d) ==
  Append(table, [base |-> d[1], size |-> d[2], perms |-> {"r", "w"}, kind |-> "device"])

\* The UART, then the distributor, then the CPU interface.
AttachDevices ==
  LET after(n) == IF n = 0 THEN machine.regions
                  ELSE IF n = 1 THEN Attach(machine.regions, Uart)
                  ELSE Attach(Attach(machine.regions, Uart), Dist)
      refused(d, n) == AttachArgs(after(n), BootCapacity, d[1], d[2]) # "OK"
  IN /\ phase = "boot_devices"
     /\ IF refused(Uart, 0) \/ refused(Dist, 1) \/ refused(Cpuif, 2)
        THEN Goto("boot_done") /\ Stay
        ELSE /\ Goto("place_kernel")
             /\ machine' = [machine EXCEPT !.regions = Attach(after(2), Cpuif)]
             /\ UNCHANGED <<opts, tree, hdr>>

\* A run of bus writes of `step' bytes each that covers [at, at + n): the
\* bytes of the source from `from' on, zeros past its end.
Accepts(at, step, n) ==
  \A i \in 0 .. n - 1 : i % step = 0 =>
     LET r == Find(machine.regions, Plus(at, i), step, {"w"})
     IN r # 0 /\ machine.regions[r].kind = "ram"
Written(m, at, n, source, from, end) ==
  [a \in DOMAIN m |->
     IF at <= a /\ a < at + n
     THEN (IF from + (a - at) < end THEN <<source, from + (a - at)>> ELSE <<"zero", 0>>)
     ELSE m[a]]

\* oemu_image_load: dwords, the last one padded.
PlaceKernel ==
  LET n == KernelLen - hdr
      padded == ((n + DwordBytes - 1) \div DwordBytes) * DwordBytes
  IN /\ phase = "place_kernel"
     /\ IF \/ KernelLen < ImageHeader \/ hdr >= KernelLen \/ KernelLen > opts.ram
           \/ ~Accepts(RamBase + hdr, DwordBytes, padded)
        THEN Goto("boot_done") /\ Stay
        ELSE /\ Goto("place_tree")
             /\ machine' = [machine EXCEPT !.mem =
                  Written(@, RamBase + hdr, padded, "kernel", hdr, KernelLen)]
             /\ UNCHANGED <<opts, tree, hdr>>

DtbAddr == RamBase + opts.ram \div 2

PlaceTree ==
  /\ phase = "place_tree"
  /\ IF ~Accepts(DtbAddr, 1, tree.len) THEN Goto("boot_done") /\ Stay
     ELSE /\ Goto("place_initrd")
          /\ machine' = [machine EXCEPT !.mem = Written(@, DtbAddr, tree.len, "tree", 0, tree.len)]
          /\ UNCHANGED <<opts, tree, hdr>>

\* With -dtb no address was chosen, and the writes start at 0.
PlaceInitrd ==
  /\ phase = "place_initrd"
  /\ IF ~HaveInitrd THEN Goto("boot_vcpu") /\ Stay
     ELSE IF ~Accepts(machine.initrd, 1, InitrdLen) THEN Goto("boot_done") /\ Stay
     ELSE /\ Goto("boot_vcpu")
          /\ machine' = [machine EXCEPT !.mem =
               Written(@, machine.initrd, InitrdLen, "initrd", 0, InitrdLen)]
          /\ UNCHANGED <<opts, tree, hdr>>

\* oemu_vcpu_init and x0.
VcpuInit ==
  /\ phase = "boot_vcpu"
  /\ Goto("boot_run")
  /\ machine' = [machine EXCEPT !.pc = machine.entry, !.sp = RamBase + opts.ram - StackGap,
                                !.x0 = DtbAddr]
  /\ UNCHANGED <<opts, tree, hdr>>

-----------------------------------------------------------------------------
(* boot()'s one cleanup; the status is the run loop's, or EXIT_ERROR.      *)
TreeOwner == IF Generated THEN {"sb", "data"} ELSE {"dtb"}
InitrdOwner == IF HaveInitrd THEN {"initrd"} ELSE {}

BootDone(code) ==
  /\ exit' = code
  /\ phase' = "exited"
  /\ Freed({"serial", "table", "ram", "image"} \cup TreeOwner \cup InitrdOwner)
  /\ BufferCleared({"image"} \cup InitrdOwner)
  /\ UNCHANGED <<bootVars, left>>

BootNext ==
  \/ ReadFile("boot_kernel", "image", Kernel(opts.kernel).size, "boot_initrd", "boot_done") /\ Stay
  \/ IF HaveInitrd
     THEN ReadFile("boot_initrd", "initrd", Initrd(opts.initrd), "boot_tree", "boot_done") /\ Stay
     ELSE phase = "boot_initrd" /\ Goto("boot_tree") /\ Stay
  \/ phase = "boot_tree" /\ ~Generated /\ Goto("boot_dtb") /\ Stay
  \/ TreeScratch
  \/ BuildTree
  \/ LoadDtb
  \/ PatchTree
  \/ CheckKernel
  \/ OpenSerial
  \/ MachineInit
  \/ AttachDevices
  \/ PlaceKernel
  \/ PlaceTree
  \/ PlaceInitrd
  \/ VcpuInit
  \/ phase = "boot_run" /\ \E code \in {0, 1, 3, 4} : BootDone(code)
  \/ phase = "boot_done" /\ BootDone(1)

-----------------------------------------------------------------------------
(* When the guest takes over, the machine is what the boot protocol and    *)
(* the tree say it is: the entry point is an aligned address in RAM and    *)
(* the file had a whole header; x0 points at the tree, complete; a ramdisk *)
(* is complete at the addresses the tree advertises, and the first stack   *)
(* frame above it; and a kernel that ends below the tree is complete too.  *)
(* boot() computes these four ranges apart from each other and never       *)
(* compares them.                                                          *)
Placement ==
  phase = "boot_run" =>
    LET ram == Bytes(RamBase, opts.ram)
        holds(at, n, source, from) ==
          \A i \in 0 .. n - 1 : at + i \in ram /\ machine.mem[at + i] = <<source, from + i>>
    IN /\ machine.pc \in ram /\ machine.pc % 4 = 0
       /\ KernelLen >= ImageHeader
       /\ holds(machine.x0, tree.len, "tree", 0)
       /\ HaveInitrd => /\ tree.initrd[2] - tree.initrd[1] = InitrdLen
                        /\ holds(tree.initrd[1], InitrdLen, "initrd", 0)
                        /\ tree.initrd[2] < machine.sp
       /\ KernelLen <= opts.ram \div 2 => holds(RamBase + hdr, KernelLen - hdr, "kernel", hdr)
=============================================================================
