------------------------------- MODULE UserRun -------------------------------
(***************************************************************************)
(* `oemu run': run() of main.c, from the ELF file to the exit status.      *)
(* oemu_elf_load (elf.c) validates every segment before it maps the first, *)
(* memory.c maps them and the stack, and the Executor does the rest.       *)
(***************************************************************************)
EXTENDS Executor, Host

CONSTANTS
  Elf(_),          \* the header fields of an ELF file
  FileByte(_),     \* the content of an ELF file, by offset
  HeaderSize,      \* OEMU_ELF_MIN_HEADER
  PhEntSize,       \* OEMU_ELF_PHENTSIZE
  StackBase, StackSize, StackAlign,
  RegionCapacity,  \* REGION_CAPACITY
  SegmentBlock     \* names for the blocks behind the segments

\* size_t is no wider than an address; every segment's block has a name.
ASSUME UserAssumption ==
  /\ SizeMax <= Top
  /\ StackBase \in Address /\ StackSize \in Address \ {0} /\ StackAlign \in Nat \ {0}
  /\ RegionCapacity \in Nat
  /\ \A o \in 0 .. SizeMax : FileByte(o) \in Byte
  /\ SegmentBlock \in Seq(STRING) /\ Len(SegmentBlock) >= RegionCapacity

VARIABLE load      \* oemu_elf_load: its status, the segments mapped, the image

EXIT_ERROR == 1
EXIT_TIMEOUT == 3

Image == Elf(prog)
ImageLen == bufs["image"].len

userVars == <<execVars, guestVars, load>>

UserIdle ==
  /\ ExecIdle
  /\ load = [status |-> "none", mapped |-> 0, entry |-> 0, max |-> 0]

-----------------------------------------------------------------------------
(* oemu_elf_load.  A header: [magic, supported, entsize, phoff, ph, entry],*)
(* ph the program headers.                                                 *)
Header == [type : {"LOAD"}, flags : SUBSET Perms, align : Address,
           vaddr : Address, memsz : Address, offset : Address, filesz : Address]

TableBytes == Len(Image.ph) * PhEntSize
Loadable(ph) == ph.type = "LOAD" /\ ph.memsz # 0
Segments == SelectSeq(Image.ph, Loadable)

\* The fields of a file are unsigned integers of fixed width, its instructions
\* what the decoder makes of them.
ElfFile(f) ==
  /\ Elf(f).size \in Nat /\ Elf(f).entry \in Address
  /\ \A i \in DOMAIN Code(f) : Decoded(Code(f)[i])
  /\ SelectSeq(Elf(f).ph, Loadable) \in Seq(Header)

\* Everything that is refused before the segment array is allocated.
ElfHeader ==
  CASE ImageLen < HeaderSize \/ ~Image.magic               -> "INVALID_ARG"
    [] ImageLen >= HeaderSize /\ Image.magic /\ ~Image.supported -> "UNSUPPORTED"
    [] OTHER ->
       IF \/ Image.entsize # PhEntSize \/ Image.ph = <<>>
          \/ Image.phoff > Top - TableBytes \/ Plus(Image.phoff, TableBytes) > ImageLen
          \/ Segments = <<>>
       THEN "INVALID_ARG"
       ELSE IF Len(regions) + Len(Segments) > RegionCapacity THEN "RANGE"
       ELSE "OK"

\* Mutant: the bound is the sum the code avoids.
ValidateSegmentSum(ph) ==
  IF ph.align = 0 \/ ph.flags = {} \/ ph.memsz = 0 THEN "INVALID_ARG"
  ELSE IF ph.filesz > ph.memsz \/ Plus(ph.offset, ph.filesz) > ImageLen THEN "INVALID_ARG"
  ELSE IF ph.vaddr > Top - ph.memsz THEN "OVERFLOW"
  ELSE "OK"

\* oemu_elf_internal_validate_segment
ValidateSegment(ph) ==
  IF ph.align = 0 \/ ph.flags = {} \/ ph.memsz = 0 THEN "INVALID_ARG"
  ELSE IF ph.filesz > ph.memsz \/ ~Within(ph.offset, ph.filesz, ImageLen) THEN "INVALID_ARG"
  ELSE IF ph.vaddr > Top - ph.memsz THEN "OVERFLOW"
  ELSE "OK"

\* The first segment that is refused; 0 when none is.
FirstRefused == First(Segments, LAMBDA ph : ValidateSegment(ph) # "OK")

\* Mutant: the segments are not compared with each other.
ElfSegmentsApart == IF FirstRefused # 0 THEN ValidateSegment(Segments[FirstRefused]) ELSE "OK"

\* The first segment that is refused decides; then no two may overlap.
ElfSegments ==
  IF FirstRefused # 0 THEN ValidateSegment(Segments[FirstRefused])
  ELSE IF \E a, b \in DOMAIN Segments :
            a < b /\ ElfOverlap(Segments[a].vaddr, Segments[a].memsz,
                                Segments[b].vaddr, Segments[b].memsz)
  THEN "RANGE" ELSE "OK"

LoadFails(verdict) == load' = [load EXCEPT !.status = verdict] /\ UNCHANGED <<execVars, guestVars>>

CheckHeader ==
  /\ phase = "elf" /\ load.status = "none"
  /\ \/ ElfHeader # "OK" /\ LoadFails(ElfHeader) /\ Goto("run_done")
     \/ ElfHeader = "OK" /\ LoadFails("NO_MEMORY") /\ Goto("run_done")
     \/ /\ ElfHeader = "OK" /\ LoadFails("checked")
        /\ Allocated({"segs"}) /\ UNCHANGED <<phase, exit, faults, bufs, left>>

CheckSegments ==
  /\ phase = "elf" /\ load.status = "checked"
  /\ IF ElfSegments # "OK"
     THEN /\ LoadFails(ElfSegments) /\ phase' = "run_done"
          /\ Freed({"segs"}) /\ UNCHANGED <<exit, bufs, left>>
     ELSE LoadFails("mapping") /\ UNCHANGED hostVars

-----------------------------------------------------------------------------
(* memory.c: the order is arguments, room in the table, overlap.           *)
MemMap(base, n, perms) ==
  IF CheckMapArgs(base, n, perms) # "OK" THEN CheckMapArgs(base, n, perms)
  ELSE IF Len(regions) >= RegionCapacity THEN "RANGE"
  ELSE IF \E i \in DOMAIN regions : Overlap(base, n, regions[i].base, regions[i].size)
         THEN "RANGE"
  ELSE "OK"

\* memory_map of an owned block: zeroed, then its prefix copied in.
Mapped(block, base, n, perms, content) ==
  /\ regions' = Append(regions, [base |-> base, size |-> n, perms |-> perms, block |-> block])
  /\ mem' = [a \in DOMAIN mem \cup Bytes(base, n) |->
               IF a \in Bytes(base, n)
               THEN (IF a - base < content.size THEN FileByte(content.offset + (a - base)) ELSE 0)
               ELSE mem[a]]
  /\ UNCHANGED <<regs, v, monitor, tpidr, env, status, done, touched, compared, guestVars>>

Segment == Segments[load.mapped + 1]
MaxOf(a, b) == IF a < b THEN b ELSE a

\* One turn of the mapping loop; a failure leaves the earlier segments mapped.
MapSegment ==
  LET verdict == MemMap(Segment.vaddr, Segment.memsz, Segment.flags)
      block == SegmentBlock[load.mapped + 1]
  IN /\ phase = "elf" /\ load.status = "mapping" /\ load.mapped < Len(Segments)
     /\ \/ /\ verdict # "OK"
           /\ LoadFails(verdict) /\ phase' = "run_done"
           /\ Freed({"segs"}) /\ UNCHANGED <<exit, bufs, left>>
        \/ /\ verdict = "OK"
           /\ LoadFails("NO_MEMORY") /\ phase' = "run_done"
           /\ Freed({"segs"}) /\ UNCHANGED <<exit, bufs, left>>
        \/ /\ verdict = "OK"
           /\ Mapped(block, Segment.vaddr, Segment.memsz, Segment.flags,
                     [offset |-> Segment.offset, size |-> Segment.filesz])
           /\ textBase' = IF "x" \in Segment.flags THEN Segment.vaddr ELSE textBase
           /\ load' = [load EXCEPT !.mapped = @ + 1,
                                   !.max = MaxOf(@, Plus(Segment.vaddr, Segment.memsz))]
           /\ Allocated({block}) /\ UNCHANGED <<phase, exit, faults, bufs, left>>

Loaded ==
  /\ phase = "elf" /\ load.status = "mapping" /\ load.mapped = Len(Segments)
  /\ load' = [load EXCEPT !.status = "OK", !.entry = Image.entry]
  /\ phase' = "stack"
  /\ Freed({"segs"})
  /\ UNCHANGED <<execVars, guestVars, exit, bufs, left>>

-----------------------------------------------------------------------------
(* run(): the rest of the function, and its one exit.                      *)
AlignUp(a, align) == (Plus(a, align - 1) \div align) * align

\* stack_base_for; both sums may wrap.
StackAt ==
  MaxOf(StackBase, Plus(AlignUp(load.max, StackSize), StackSize))

MapStack ==
  LET verdict == MemMap(StackAt, StackSize, {"r", "w"})
  IN /\ phase = "stack"
     /\ \/ UNCHANGED userVars /\ Goto("run_done")        \* refused, or no memory
        \/ /\ verdict = "OK"
           /\ Mapped("stack", StackAt, StackSize, {"r", "w"}, [offset |-> 0, size |-> 0])
           /\ Allocated({"stack"})
           /\ phase' = "cpu"
           /\ UNCHANGED <<textBase, load, exit, faults, bufs, left>>

\* oemu_sysenv_init, oemu_cpu_init and the call of oemu_exec_run.
CpuInit ==
  /\ phase = "cpu"
  /\ StartExec(load.entry, (Plus(StackAt, StackSize) \div StackAlign) * StackAlign)
  /\ Goto("exec")
  /\ UNCHANGED <<load, textBase, regions>>

RunGuest ==
  /\ phase = "exec"
  /\ \/ ExecStep /\ UNCHANGED hostVars
     \/ status \notin {"running", "panic"} /\ UNCHANGED <<execVars, guestVars>> /\ Goto("run_done")
  /\ UNCHANGED load

Result ==
  IF env.exited THEN Truncate(env.exit_code, ByteBits)
  ELSE IF status = "TIMEOUT" THEN EXIT_TIMEOUT ELSE EXIT_ERROR

MemoryBlocks == {"table", "stack"} \cup Range(SegmentBlock)

\* oemu_memory_dispose and oemu_buffer_dispose.
RunDone ==
  /\ phase = "run_done"
  /\ exit' = Result
  /\ phase' = "exited"
  /\ Freed(MemoryBlocks \cup {"image"})
  /\ BufferCleared({"image"})
  /\ UNCHANGED <<userVars, left>>

UserNext ==
  \/ ReadFile("run_file", "image", Image.size, "memory", "run_done") /\ UNCHANGED userVars
  \/ phase = "memory" /\ AllocThen({"table"}, "elf", "run_done") /\ UNCHANGED userVars
  \/ CheckHeader
  \/ CheckSegments
  \/ MapSegment
  \/ Loaded
  \/ MapStack
  \/ CpuInit
  \/ RunGuest
  \/ RunDone

-----------------------------------------------------------------------------
(* oemu_elf_load validates, then commits: a load that fails for any reason *)
(* but memory has not mapped a byte, and running out of memory leaves only *)
(* a prefix of the segments, for run() to dispose of.                      *)
ValidateThenCommit ==
  /\ load.status \in {"INVALID_ARG", "UNSUPPORTED", "RANGE", "OVERFLOW"} => regions = <<>>
  /\ load.status = "NO_MEMORY" => Len(regions) = load.mapped /\ load.mapped < Len(Segments)

(* The guest starts in exactly its image: each byte of a segment has the   *)
(* segment's permissions and, up to filesz, the byte of the file at its    *)
(* offset, which lies inside the file however offset and size are chosen;  *)
(* the rest is zero; and beside the segments there is a zeroed stack of    *)
(* full size.                                                              *)
LoadedExactly ==
  phase = "cpu" =>
    LET segs == Segments
        mine(i) == Bytes(segs[i].vaddr, segs[i].memsz)
        stack == Bytes(StackAt, StackSize)
    IN /\ \A i \in DOMAIN segs : \A a \in mine(i) :
            LET o == segs[i].offset + (a - segs[i].vaddr)
                r == MemFind(regions, a, 1, {})
            IN /\ r # 0 /\ regions[r].perms = segs[i].flags
               /\ IF a - segs[i].vaddr < segs[i].filesz
                  THEN o < ImageLen /\ mem[a] = FileByte(o)
                  ELSE mem[a] = 0
       /\ \A a \in stack : MemFind(regions, a, 1, {"r", "w"}) # 0 /\ mem[a] = 0
       /\ DOMAIN mem = stack \cup UNION {mine(i) : i \in DOMAIN segs}
       /\ Cardinality(stack) = StackSize
=============================================================================
