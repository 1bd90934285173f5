----------------------------- MODULE MainProofs -----------------------------
(***************************************************************************)
(* The process of Main for every command line and every file it names: the *)
(* range arithmetic of the region tables, the heap of both commands, the   *)
(* loader, and the executor's promise never to abort.  Then the executor   *)
(* itself, at every width: what its helpers compute, that every            *)
(* instruction keeps the core and guest memory well formed and live        *)
(* reservations true, that a conditional branch after a comparison goes    *)
(* the way of the operands compared, that system calls are atomic, and     *)
(* that sums, high words of products and quotients are exact.              *)
(***************************************************************************)
EXTENDS Main, WellFoundedInduction, FiniteSetTheorems, TLAPS

\* Sizes are uint64_t as well, and positive.
Sizes == Address \ {0}

\* The uint64_t difference of two addresses in order does not wrap.
LEMMA MinusExact ==
  ASSUME NEW a \in Address, NEW b \in Address, b <= a
  PROVE  Minus(a, b) = a - b /\ Minus(a, b) \in Address
BY TopAssumption DEF Minus, Address

\* ranges_overlap holds of two ranges that exist exactly when they share a
\* byte.
THEOREM OverlapExact ==
  ASSUME NEW a \in Address, NEW m \in Sizes, a + m <= Top + 1,
         NEW b \in Address, NEW n \in Sizes, b + n <= Top + 1
  PROVE  Overlap(a, m, b, n) <=> Bytes(a, m) \cap Bytes(b, n) # {}
<1>1. CASE a <= b
  <2>0. Minus(b, a) = b - a
    BY <1>1, MinusExact
  <2>1. Overlap(a, m, b, n) <=> b < a + m
    BY <1>1, <2>0, TopAssumption DEF Overlap, Address, Sizes
  <2>2. b < a + m => b \in Bytes(a, m) \cap Bytes(b, n)
    BY <1>1, TopAssumption DEF Bytes, Address, Sizes
  <2>3. ASSUME NEW x \in Bytes(a, m) \cap Bytes(b, n)
        PROVE  b < a + m
    BY TopAssumption DEF Bytes, Address, Sizes
  <2> QED BY <2>1, <2>2, <2>3
<1>2. CASE b < a
  <2>0. Minus(a, b) = a - b
    BY <1>2, MinusExact DEF Address
  <2>1. Overlap(a, m, b, n) <=> a < b + n
    BY <1>2, <2>0, TopAssumption DEF Overlap, Address, Sizes
  <2>2. a < b + n => a \in Bytes(a, m) \cap Bytes(b, n)
    BY <1>2, TopAssumption DEF Bytes, Address, Sizes
  <2>3. ASSUME NEW x \in Bytes(a, m) \cap Bytes(b, n)
        PROVE  a < b + n
    BY TopAssumption DEF Bytes, Address, Sizes
  <2> QED BY <2>1, <2>2, <2>3
<1> QED BY <1>1, <1>2 DEF Address

\* aspace.c's find and memory.c's find, which spell containment differently,
\* both hold exactly when the whole access lies inside the region.
THEOREM CoversExact ==
  ASSUME NEW r, Exists(r), NEW pa \in Address, NEW n \in Sizes
  PROVE  /\ Covers(r, pa, n) <=> (r.base <= pa /\ pa + n <= r.base + r.size)
         /\ MemCovers(r, pa, n) <=> (r.base <= pa /\ pa + n <= r.base + r.size)
<1> DEFINE base == r.base
           size == r.size
<1>1. base \in Address /\ size \in Sizes /\ base + size <= Top + 1
  BY DEF Exists, Sizes
<1>2. 1 \in Address
  BY <1>1, TopAssumption DEF Sizes, Address
<1>3. Minus(size, 1) = size - 1
  BY <1>1, <1>2, MinusExact DEF Sizes, Address
<1>4. CASE base <= pa
  <2>1. Minus(pa, base) = pa - base /\ pa - base \in Address
    BY <1>1, <1>4, MinusExact
  <2>2. CASE pa - base < size
    <3>1. Minus(size, pa - base) = size - (pa - base)
      BY <1>1, <2>1, <2>2, MinusExact DEF Sizes, Address
    <3> HIDE DEF base, size
    <3>2. /\ Minus(pa, base) <= Minus(size, 1)
          /\ Minus(pa, base) < size
      BY <1>1, <1>3, <2>1, <2>2 DEF Sizes, Address
    <3>3. /\ Minus(size, Minus(pa, base)) >= n <=> pa + n <= base + size
          /\ n <= Minus(size, Minus(pa, base)) <=> pa + n <= base + size
      BY <1>1, <2>1, <3>1 DEF Sizes, Address
    <3> QED BY <1>4, <3>2, <3>3 DEF Covers, MemCovers, base, size
  <2>3. CASE ~(pa - base < size)
    <3> HIDE DEF base, size
    <3>1. ~(Minus(pa, base) <= Minus(size, 1)) /\ ~(Minus(pa, base) < size)
      BY <1>1, <1>3, <2>1, <2>3 DEF Sizes, Address
    <3>2. ~(pa + n <= base + size)
      BY <1>1, <2>1, <2>3 DEF Sizes, Address
    <3> QED BY <3>1, <3>2 DEF Covers, MemCovers, base, size
  <2> QED BY <2>2, <2>3
<1>5. CASE ~(base <= pa)
  BY <1>5 DEF Covers, MemCovers
<1> QED BY <1>4, <1>5

\* A region that the mapper lets in keeps the table sound: the arguments it
\* accepts describe bytes that exist, and none of them is taken.
THEOREM MapKeepsSound ==
  ASSUME NEW R, NEW table \in Seq(R), SoundTable(table), NEW capacity \in Nat,
         NEW base \in Address, NEW n \in Address, NEW perms,
         MapCommon(table, capacity, base, n, perms) = "OK",
         NEW new \in R, new.base = base, new.size = n
  PROVE  SoundTable(Append(table, new))
<1> DEFINE grown == Append(table, new)
           last == Len(table) + 1
<1>1. CheckMapArgs(base, n, perms) = "OK"
  BY DEF MapCommon
<1>2. n \in Sizes /\ base + n <= Top + 1
  BY <1>1, TopAssumption DEF CheckMapArgs, Sizes, Address
<1>3. Exists(new)
  BY <1>2 DEF Exists, Sizes
<1>4. ASSUME NEW i \in DOMAIN table
      PROVE  ~Overlap(base, n, table[i].base, table[i].size)
  BY <1>1 DEF MapCommon
<1>5. ASSUME NEW i \in DOMAIN table
      PROVE  Bytes(base, n) \cap Bytes(table[i].base, table[i].size) = {}
  <2>1. Exists(table[i])
    BY DEF SoundTable
  <2> QED BY <1>2, <1>4, <2>1, OverlapExact DEF Exists, Sizes
<1>6. /\ DOMAIN grown = 1 .. last
      /\ DOMAIN table = 1 .. Len(table) /\ Len(table) \in Nat
      /\ grown[last] = new
      /\ \A i \in DOMAIN table : grown[i] = table[i]
  OBVIOUS
<1> HIDE DEF grown
<1>7. \A i \in DOMAIN grown : i = last \/ i \in DOMAIN table
  BY <1>6
<1>8. \A i \in DOMAIN grown : Exists(grown[i])
  BY <1>3, <1>6, <1>7 DEF SoundTable
<1>9. ASSUME NEW i \in DOMAIN grown, NEW j \in DOMAIN grown, i # j
      PROVE  Bytes(grown[i].base, grown[i].size) \cap Bytes(grown[j].base, grown[j].size) = {}
  <2>1. CASE i = last
    BY <1>5, <1>6, <1>7, <1>9, <2>1
  <2>2. CASE j = last
    BY <1>5, <1>6, <1>7, <1>9, <2>2
  <2>3. CASE i \in DOMAIN table /\ j \in DOMAIN table
    BY <1>6, <1>9, <2>3 DEF SoundTable
  <2> QED BY <1>7, <2>1, <2>2, <2>3
<1> QED BY <1>8, <1>9 DEF SoundTable, grown

\* In a sound table at most one region serves an access, so the first that
\* find meets is the only one, and both finds agree on it.
THEOREM FindUnique ==
  ASSUME NEW table, SoundTable(table), NEW pa \in Address, NEW n \in Sizes,
         NEW i \in DOMAIN table, NEW j \in DOMAIN table,
         Covers(table[i], pa, n), MemCovers(table[j], pa, n)
  PROVE  i = j
<1>1. Exists(table[i]) /\ Exists(table[j])
  BY DEF SoundTable
<1>2. table[i].base <= pa /\ pa + n <= table[i].base + table[i].size
  BY <1>1, CoversExact
<1>3. table[j].base <= pa /\ pa + n <= table[j].base + table[j].size
  BY <1>1, CoversExact
<1>4. pa \in Bytes(table[i].base, table[i].size)
  BY <1>1, <1>2 DEF Exists, Bytes, Sizes, Address
<1>5. pa \in Bytes(table[j].base, table[j].size)
  BY <1>1, <1>3 DEF Exists, Bytes, Sizes, Address
<1> QED BY <1>4, <1>5 DEF SoundTable

\* The loader's bound on a range of the file is the sum it does not form, and
\* its overlap test, which does form sums, agrees with the mapper's on ranges
\* that end below the top, as validate_segment asks of every segment.
THEOREM ElfArithmetic ==
  ASSUME NEW a \in Address, NEW m \in Sizes, a + m <= Top,
         NEW b \in Address, NEW n \in Sizes, b + n <= Top,
         NEW off \in Address, NEW span \in Address, NEW len \in Address
  PROVE  /\ Within(off, span, len) <=> off + span <= len
         /\ ElfOverlap(a, m, b, n) <=> Overlap(a, m, b, n)
<1>1. Within(off, span, len) <=> off + span <= len
  <2>1. off <= len => Minus(len, off) = len - off
    BY MinusExact
  <2> QED BY <2>1, TopAssumption DEF Within, Address
<1>2. Plus(b, n) = b + n /\ Plus(a, m) = a + m
  BY TopAssumption DEF Plus, Address, Sizes
<1>3. ElfOverlap(a, m, b, n) <=> (a < b + n /\ b < a + m)
  BY <1>2 DEF ElfOverlap, Sizes
<1>4. CASE a <= b
  <2>1. Minus(b, a) = b - a
    BY <1>4, MinusExact
  <2> QED BY <1>1, <1>3, <1>4, <2>1, TopAssumption DEF Overlap, Address, Sizes
<1>5. CASE b < a
  <2>1. Minus(a, b) = a - b
    BY <1>5, MinusExact DEF Address
  <2> QED BY <1>1, <1>3, <1>5, <2>1, TopAssumption DEF Overlap, Address, Sizes
<1> QED BY <1>1, <1>4, <1>5 DEF Address

-----------------------------------------------------------------------------
(* The executor never aborts.                                              *)

\* A step that did not abort, and left the text and the region table alone.
Stepped == status' # "panic" /\ UNCHANGED <<prog, budget, textBase, regions>>

\* Stores that the bus accepts, each of them, do not abort.
LEMMA ServedStores ==
  ASSUME NEW pieces, NEW how, NEW mon, NEW r, Stores(pieces, how, mon, r),
         \A i \in DOMAIN pieces : Serves(pieces[i].addr, pieces[i].n, "w")
  PROVE  Stepped
<1>1. Retire(r)
  BY DEF Stores
<1> QED BY <1>1 DEF Retire, Stepped, guestVars

LEMMA QuietRuns ==
  ASSUME NEW r, Quiet(r)
  PROVE  Stepped
BY DEF Quiet, Retire, Stepped, guestVars

LEMMA RetireRuns ==
  ASSUME NEW r, Retire(r)
  PROVE  Stepped
BY DEF Retire, Stepped, guestVars

LEMMA RefusalRuns ==
  ASSUME NEW verdict, Refuse(verdict), verdict # "panic"
  PROVE  Stepped
BY DEF Refuse, Stepped, guestVars

\* One store, validated.
LEMMA SingleRuns ==
  ASSUME NEW in, SingleMem(in)
  PROVE  Stepped
<1> DEFINE addr == IF in.kind = "IMM" THEN in.imm ELSE Resolve(in).addr
           piece == Piece(addr, in.size, ReadX(in.rd, in.bits))
<1>1. CASE Refuse("FAULT")
  BY <1>1, RefusalRuns
<1>2. ASSUME NEW r, Quiet(r) PROVE Stepped
  BY <1>2, QuietRuns
<1>3. ASSUME NEW mon, NEW r, Serves(addr, in.size, "w"), Stores(<<piece>>, "scalar", mon, r)
      PROVE  Stepped
  <2>1. piece.addr = addr /\ piece.n = in.size
    BY DEF Piece
  <2> HIDE DEF addr, piece
  <2>2. \A i \in DOMAIN <<piece>> : <<piece>>[i] = piece
    OBVIOUS
  <2> QED BY <1>3, <2>1, <2>2, ServedStores
<1> QED BY <1>1, <1>2, <1>3 DEF SingleMem

\* Both halves of a pair, validated.
LEMMA PairRuns ==
  ASSUME NEW in, Pair(in)
  PROVE  Stepped
<1> DEFINE addr == Resolve(in).addr
           addr2 == Plus(addr, in.size)
           one == Piece(addr, in.size, ReadX(in.rd, in.bits))
           two == Piece(addr2, in.size, ReadX(in.rt2, in.bits))
<1>1. CASE Refuse("FAULT")
  BY <1>1, RefusalRuns
<1>2. ASSUME NEW r, Quiet(r) PROVE Stepped
  BY <1>2, QuietRuns
<1>3. ASSUME NEW mon, NEW r, PairValid(in, addr, "w"), Stores(<<one, two>>, "pair", mon, r)
      PROVE  Stepped
  <2>1. /\ one.addr = addr /\ one.n = in.size /\ Serves(addr, in.size, "w")
        /\ two.addr = addr2 /\ two.n = in.size /\ Serves(addr2, in.size, "w")
    BY <1>3 DEF Piece, PairValid
  <2> HIDE DEF addr, addr2, one, two
  <2>2. \A i \in DOMAIN <<one, two>> : <<one, two>>[i] = one \/ <<one, two>>[i] = two
    OBVIOUS
  <2> QED BY <1>3, <2>1, <2>2, ServedStores
<1>4. PairValid(in, addr, "r") => Serves(addr2, in.size, "r")
  BY DEF PairValid
<1> QED BY <1>1, <1>2, <1>3, <1>4 DEF Pair

\* The pieces of one or two vector registers, validated.
LEMMA VectorRuns ==
  ASSUME NEW in, NEW rs, NEW how, NEW mon, VectorTransfer(in, rs, how, mon)
  PROVE  Stepped
<1> DEFINE pieces(r) == Pieces(Plus(Resolve(in).addr, (r - 1) * in.size), in.size, v[rs[r]])
           all == IF Len(rs) = 1 THEN pieces(1) ELSE pieces(1) \o pieces(2)
           store == in.op \in {"STR", "STP"}
<1>1. CASE Refuse("FAULT")
  BY <1>1, RefusalRuns
<1>2. CASE Retire(Advance(Writeback(regs, in)))
  BY <1>2, RetireRuns
<1>3. CASE ~Refuse("FAULT") /\ ~Retire(Advance(Writeback(regs, in)))
  <2>1. /\ ~ \E i \in DOMAIN all : ~Serves(all[i].addr, all[i].n, IF store THEN "w" ELSE "r")
        /\ store
        /\ Stores(all, how, mon, Advance(Writeback(regs, in)))
    BY <1>3 DEF VectorTransfer
  <2> HIDE DEF all, store
  <2>2. \A i \in DOMAIN all : Serves(all[i].addr, all[i].n, "w")
    BY <2>1
  <2> QED BY <2>1, <2>2, ServedStores
<1> QED BY <1>1, <1>2, <1>3

LEMMA ExclusiveRuns ==
  ASSUME NEW in, Exclusive(in)
  PROVE  Stepped
<1> DEFINE addr == ReadSp(in.rn, XBits)
           piece == Piece(addr, in.size, ReadX(in.rd, in.bits))
<1>1. CASE Refuse("FAULT")
  BY <1>1, RefusalRuns
<1>2. ASSUME NEW r, Retire(r) PROVE Stepped
  BY <1>2, RetireRuns
<1>3. ASSUME NEW mon, NEW r, Serves(addr, in.size, "w"), Stores(<<piece>>, "exclusive", mon, r)
      PROVE  Stepped
  <2>1. piece.addr = addr /\ piece.n = in.size
    BY DEF Piece
  <2> HIDE DEF addr, piece
  <2>2. \A i \in DOMAIN <<piece>> : <<piece>>[i] = piece
    OBVIOUS
  <2> QED BY <1>3, <2>1, <2>2, ServedStores
<1> QED BY <1>1, <1>2, <1>3 DEF Exclusive

LEMMA DispatchRuns ==
  ASSUME NEW in, Dispatch(in)
  PROVE  Stepped
<1>1. CASE DataProcessing(in) \/ ConditionalCompare(in) \/ VecDup(in)
  BY <1>1, RetireRuns DEF DataProcessing, ConditionalCompare, VecDup
<1>2. CASE Branch(in) \/ Nop(in)
  BY <1>2, QuietRuns DEF Branch, Nop
<1>3. CASE SingleMem(in)
  BY <1>3, SingleRuns
<1>4. CASE Pair(in)
  BY <1>4, PairRuns
<1>5. CASE SingleVector(in) \/ PairVector(in)
  BY <1>5, VectorRuns DEF SingleVector, PairVector
<1>6. CASE Exclusive(in)
  BY <1>6, ExclusiveRuns
<1>7. CASE Svc(in)
  <2>1. CASE SysExit
    BY <2>1, RetireRuns DEF SysExit
  <2>2. CASE SysWrite
    BY <2>2, RetireRuns DEF SysWrite
  <2>3. CASE SysClock
    BY <2>3, RetireRuns, QuietRuns DEF SysClock
  <2>4. CASE SysOther
    BY <2>4, QuietRuns DEF SysOther
  <2> QED BY <1>7, <2>1, <2>2, <2>3, <2>4 DEF Svc
<1>8. CASE Mrs(in)
  BY <1>8, QuietRuns, RefusalRuns DEF Mrs
<1>9. CASE Msr(in)
  BY <1>9, RetireRuns, RefusalRuns DEF Msr
<1>10. CASE Trap(in)
  BY <1>10, RefusalRuns DEF Trap
<1> QED
  BY <1>1, <1>2, <1>3, <1>4, <1>5, <1>6, <1>7, <1>8, <1>9, <1>10 DEF Dispatch

LEMMA ExecRuns ==
  ASSUME ExecStep
  PROVE  Stepped
BY RefusalRuns, DispatchRuns DEF ExecStep, FetchFault, DecodeError

-----------------------------------------------------------------------------
(* Where the process is.                                                   *)
RunPhases == {"run_file", "memory", "elf", "stack", "cpu", "exec", "run_done"}

\* What a step of `oemu run' leaves alone, and where it may lead.
LEMMA UserFrame ==
  ASSUME UserNext, phase \in RunPhases
  PROVE  /\ UNCHANGED <<prog, budget>>
         /\ phase' \in RunPhases \cup {"exited"}
         /\ phase' # "exited" => exit' = exit
<1>1. CASE ReadFile("run_file", "image", Image.size, "memory", "run_done") /\ UNCHANGED userVars
  BY <1>1 DEF ReadFile, OpenFile, ReadChunk, CloseFile, RunPhases, userVars, guestVars
<1>2. CASE phase = "memory" /\ AllocThen({"table"}, "elf", "run_done") /\ UNCHANGED userVars
  BY <1>2 DEF AllocThen, RunPhases, userVars, guestVars
<1>3. CASE CheckHeader
  BY <1>3 DEF CheckHeader, LoadFails, Goto, RunPhases, guestVars
<1>4. CASE CheckSegments
  BY <1>4 DEF CheckSegments, LoadFails, hostVars, RunPhases, guestVars
<1>5. CASE MapSegment
  BY <1>5 DEF MapSegment, LoadFails, Mapped, RunPhases, guestVars
<1>6. CASE Loaded
  BY <1>6 DEF Loaded, RunPhases, guestVars
<1>7. CASE MapStack
  BY <1>7 DEF MapStack, Mapped, Goto, RunPhases, userVars, guestVars
<1>8. CASE CpuInit
  BY <1>8 DEF CpuInit, StartExec, Goto, RunPhases, guestVars
<1>9. CASE RunGuest
  BY <1>9, ExecRuns DEF RunGuest, Stepped, Goto, RunPhases, guestVars, hostVars
<1>10. CASE RunDone
  BY <1>10 DEF RunDone, RunPhases, userVars, guestVars
<1> QED
  BY <1>1, <1>2, <1>3, <1>4, <1>5, <1>6, <1>7, <1>8, <1>9, <1>10 DEF UserNext

BootPhases ==
  {"boot_kernel", "boot_initrd", "boot_tree", "boot_build", "boot_dtb", "boot_unread",
   "boot_copy", "boot_patch", "boot_header", "boot_serial", "boot_machine", "boot_devices",
   "place_kernel", "place_tree", "place_initrd", "boot_vcpu", "boot_run", "boot_done"}

\* Where boot() is only with a tree of its own, or only with a file's.
Branched ==
  /\ phase = "boot_build" => Generated
  /\ phase \in {"boot_dtb", "boot_unread", "boot_copy", "boot_patch"} => ~Generated

LEMMA BootFrame ==
  ASSUME BootNext, phase \in BootPhases, Branched
  PROVE  /\ UNCHANGED opts
         /\ phase' \in BootPhases \cup {"exited"}
         /\ phase' # "exited" => exit' = exit
         /\ Branched'
<1> USE DEF Branched, Generated, BootPhases
<1>1. CASE ReadFile("boot_kernel", "image", Kernel(opts.kernel).size, "boot_initrd", "boot_done")
             /\ Stay
  BY <1>1 DEF ReadFile, OpenFile, ReadChunk, CloseFile, Stay, bootVars
<1>2. CASE IF HaveInitrd
           THEN ReadFile("boot_initrd", "initrd", Initrd(opts.initrd), "boot_tree", "boot_done")
                  /\ Stay
           ELSE phase = "boot_initrd" /\ Goto("boot_tree") /\ Stay
  BY <1>2 DEF ReadFile, OpenFile, ReadChunk, CloseFile, Goto, Stay, bootVars
<1>3. CASE phase = "boot_tree" /\ ~Generated /\ Goto("boot_dtb") /\ Stay
  BY <1>3 DEF Goto, Stay, bootVars
<1>4. CASE TreeScratch
  BY <1>4 DEF TreeScratch, AllocThen, Stay, bootVars
<1>5. CASE BuildTree
  BY <1>5 DEF BuildTree, Goto, Stay, bootVars
<1>6. CASE LoadDtb
  BY <1>6 DEF LoadDtb, ReadFile, OpenFile, ReadChunk, CloseFile, Stay, bootVars
<1>7. CASE PatchTree
  BY <1>7 DEF PatchTree, Goto, Stay, bootVars
<1>8. CASE CheckKernel
  BY <1>8 DEF CheckKernel, Goto, Stay, bootVars
<1>9. CASE OpenSerial
  BY <1>9 DEF OpenSerial, AllocThen, Goto, Stay, bootVars
<1>10. CASE MachineInit
  BY <1>10 DEF MachineInit, Goto, Stay, bootVars
<1>11. CASE AttachDevices
  BY <1>11 DEF AttachDevices, Goto, Stay, bootVars
<1>12. CASE PlaceKernel \/ PlaceTree \/ PlaceInitrd
  BY <1>12 DEF PlaceKernel, PlaceTree, PlaceInitrd, Goto, Stay, bootVars
<1>13. CASE VcpuInit
  BY <1>13 DEF VcpuInit, Goto
<1>14. ASSUME NEW code, BootDone(code) PROVE UNCHANGED opts /\ phase' = "exited" /\ Branched'
  BY <1>14 DEF BootDone, bootVars
<1> QED
  BY <1>1, <1>2, <1>3, <1>4, <1>5, <1>6, <1>7, <1>8, <1>9, <1>10, <1>11, <1>12, <1>13, <1>14
  DEF BootNext

-----------------------------------------------------------------------------
(* What main() hands to the two commands.                                  *)

\* Every non-empty set of natural numbers has a least element, ...
LEMMA LeastNatural ==
  ASSUME NEW T \in SUBSET Nat, T # {}
  PROVE  \E x \in T : \A y \in T : x <= y
<1>1. PICK x \in T : \A y \in T : ~ (<<y, x>> \in OpToRel(<, Nat))
  BY NatLessThanWellFounded, WFMin
<1>2. ASSUME NEW y \in T PROVE x <= y
  <2>1. ~ (y < x)
    BY <1>1 DEF OpToRel
  <2> QED BY <2>1
<1> QED BY <1>2

\* ... and a bounded one a greatest.
LEMMA GreatestNatural ==
  ASSUME NEW n \in Nat, NEW T \in SUBSET (0 .. n), T # {}
  PROVE  \E x \in T : \A y \in T : y <= x
<1> DEFINE below == {n - x : x \in T}
<1>1. below # {} /\ below \in SUBSET Nat
  <2>1. \A x \in T : x \in 0 .. n
    OBVIOUS
  <2>2. \A x \in T : n - x \in Nat
    BY <2>1
  <2> QED BY <2>2
<1>2. PICK b \in below : \A y \in below : b <= y
  BY <1>1, LeastNatural
<1>3. PICK x \in T : b = n - x
  OBVIOUS
<1>4. ASSUME NEW y \in T PROVE y <= x
  <2>1. n - x <= n - y
    BY <1>2, <1>3
  <2> QED BY <2>1
<1> QED BY <1>4

\* The value of an option is its default or one that was given for it.
LEMMA LastIs ==
  ASSUME NEW args, Len(args) \in Nat, DOMAIN args = 1 .. Len(args), NEW names, NEW default
  PROVE  \/ LastOf(args, names, default) = default
         \/ \E i \in DOMAIN args : /\ args[i].name \in names
                                   /\ LastOf(args, names, default) = args[i].value
<1> DEFINE hits == {i \in DOMAIN args : args[i].name \in names}
           last == CHOOSE i \in hits : \A j \in hits : j <= i
<1>1. CASE hits = {}
  BY <1>1 DEF LastOf
<1>2. CASE hits # {}
  <2>1. \E i \in hits : \A j \in hits : j <= i
    <3>1. hits \in SUBSET (0 .. Len(args))
      OBVIOUS
    <3> HIDE DEF hits
    <3> QED BY <1>2, <3>1, GreatestNatural
  <2>2. last \in hits
    BY <2>1
  <2>3. LastOf(args, names, default) = args[last].value
    BY <1>2 DEF LastOf
  <2> QED BY <2>2, <2>3
<1> QED BY <1>1, <1>2

\* The options boot() starts with.
BootOptions(o) ==
  /\ KernelFile(o.kernel)
  /\ o.initrd # NoFile => Initrd(o.initrd) \in Nat
  /\ o.dtb # NoFile => TreeFile(o.dtb)
  /\ RamSize(o.ram)
  /\ o.entry \in Nat

LEMMA BootOptionsTyped ==
  ASSUME argv \in CommandLines, argv.cmd = "boot", argv.file # NoFile,
         \A i \in DOMAIN argv.args : ~Refused(argv.args[i])
  PROVE  BootOptions(BootOpts)
<1> DEFINE args == argv.args
<1>1. Len(args) \in Nat /\ DOMAIN args = 1 .. Len(args)
  BY CommandLineAssumption
<1>2. \A i \in DOMAIN args : OptionValue(args[i])
  BY CommandLineAssumption
<1>3. KernelFile(argv.file)
  BY CommandLineAssumption
<1> HIDE DEF args
<1>4. ASSUME NEW default
      PROVE  LET value == LastOf(args, {"-initrd"}, default)
             IN value = default \/ Initrd(value) \in Nat
  BY <1>1, <1>2, LastIs DEF OptionValue
<1>5. ASSUME NEW default
      PROVE  LET value == LastOf(args, {"-dtb"}, default)
             IN value = default \/ TreeFile(value)
  BY <1>1, <1>2, LastIs DEF OptionValue
<1>6. RamSize(LastOf(args, {"-m"}, <<"number", RamDefault>>)[2])
  <2>1. <<"number", RamDefault>>[2] = RamDefault
    OBVIOUS
  <2> QED BY <1>1, <1>2, <2>1, LastIs, CommandLineAssumption DEF OptionValue
<1>7. LastOf(args, {"--entry"}, <<"number", 0>>)[2] \in Nat
  <2>1. <<"number", 0>>[2] = 0
    OBVIOUS
  <2> QED BY <1>1, <1>2, <2>1, LastIs DEF OptionValue
<1> QED BY <1>3, <1>4, <1>5, <1>6, <1>7 DEF BootOpts, BootOptions, NumberOf, args

\* The process is in one of the two commands, with its files and options, or
\* before or after them; it has an exit status only after.
Control ==
  /\ argv \in CommandLines
  /\ phase \in {"main", "exited"} \cup RunPhases \cup BootPhases
  /\ phase # "exited" => exit = -1
  /\ phase \in RunPhases => argv.cmd = "run" /\ ElfFile(prog)
  /\ phase \in BootPhases => argv.cmd = "boot" /\ BootOptions(opts)
  /\ Branched

LEMMA PhasesApart ==
  /\ RunPhases \cap BootPhases = {}
  /\ {"main", "exited"} \cap (RunPhases \cup BootPhases) = {}
BY DEF RunPhases, BootPhases

\* ParseArgs leaves, or enters one of the commands.
LEMMA ParsedTo ==
  ASSUME Control, ParseArgs
  PROVE  \/ phase' = "exited" /\ UNCHANGED <<userVars, bootVars, heap, ptr, faults, bufs, left>>
         \/ /\ phase' = "boot_kernel" /\ argv.cmd = "boot" /\ opts' = BootOpts
            /\ BootOptions(opts') /\ UNCHANGED <<userVars, tree, hdr, machine>>
            /\ UNCHANGED <<exit, heap, ptr, faults, bufs, left>>
         \/ /\ phase' = "run_file" /\ argv.cmd = "run" /\ ElfFile(prog')
            /\ UNCHANGED <<execVars, load, bootVars>>
            /\ UNCHANGED <<exit, heap, ptr, faults, bufs, left>>
<1>1. CASE MainHelp \/ MainUsage
  BY <1>1 DEF MainHelp, MainUsage, Leave
<1>2. CASE MainBoot
  <2>1. CASE Leave(EXIT_USAGE)
    BY <2>1 DEF Leave
  <2>2. CASE ~Leave(EXIT_USAGE)
    <3>1. /\ argv.file # NoFile /\ \A i \in DOMAIN argv.args : ~Refused(argv.args[i])
          /\ argv.cmd = "boot" /\ opts' = BootOpts /\ Goto("boot_kernel")
          /\ UNCHANGED <<tree, hdr, machine, userVars>>
      BY <1>2, <2>2 DEF MainBoot
    <3>2. BootOptions(opts')
      BY <3>1, BootOptionsTyped DEF Control
    <3> QED BY <3>1, <3>2 DEF Goto
  <2> QED BY <2>1, <2>2
<1>3. CASE MainRun
  <2>1. CASE Leave(EXIT_USAGE)
    BY <2>1 DEF Leave
  <2>2. CASE ~Leave(EXIT_USAGE)
    <3>1. /\ argv.file # NoFile /\ argv.cmd = "run" /\ prog' = argv.file /\ Goto("run_file")
          /\ UNCHANGED <<execVars, load, bootVars>>
      BY <1>3, <2>2 DEF MainRun
    <3>2. ElfFile(prog')
      BY <3>1, CommandLineAssumption DEF Control
    <3> QED BY <3>1, <3>2 DEF Goto
  <2> QED BY <2>1, <2>2
<1> QED BY <1>1, <1>2, <1>3 DEF ParseArgs

LEMMA ControlStep ==
  ASSUME Control, [Next]_vars
  PROVE  Control'
<1>1. CASE ParseArgs
  <2>1. UNCHANGED argv /\ phase = "main"
    BY <1>1 DEF ParseArgs
  <2>2. phase' \in {"exited", "boot_kernel", "run_file"}
    BY <1>1, ParsedTo
  <2>3. Branched'
    BY <2>2 DEF Branched
  <2>4. /\ phase' \in RunPhases => phase' = "run_file"
        /\ phase' \in BootPhases => phase' = "boot_kernel"
        /\ phase' \in {"exited"} \cup RunPhases \cup BootPhases
    BY <2>2, PhasesApart DEF RunPhases, BootPhases
  <2> QED BY <1>1, <2>1, <2>2, <2>3, <2>4, ParsedTo DEF Control
<1>2. CASE RunStep
  <2>1. UserNext /\ UNCHANGED <<bootVars, argv>> /\ argv.cmd = "run"
    BY <1>2 DEF RunStep
  <2>2. phase \in RunPhases
    <3>1. phase \in RunPhases \cup {"cpu"}
      BY <2>1 DEF UserNext, ReadFile, OpenFile, ReadChunk, CloseFile, CheckHeader, CheckSegments,
         MapSegment, Loaded, MapStack, CpuInit, RunGuest, RunDone, RunPhases
    <3> QED BY <3>1 DEF RunPhases
  <2>3. /\ UNCHANGED <<prog, budget>> /\ phase' \in RunPhases \cup {"exited"}
        /\ phase' # "exited" => exit' = exit
    BY <2>1, <2>2, UserFrame
  <2>4. phase' \notin BootPhases /\ phase' # "main" /\ phase # "exited"
    BY <2>2, <2>3, PhasesApart
  <2>5. Branched'
    BY <2>4 DEF Branched, BootPhases
  <2> QED BY <2>1, <2>2, <2>3, <2>4, <2>5 DEF Control
<1>3. CASE BootStep
  <2>1. BootNext /\ UNCHANGED <<userVars, argv>> /\ argv.cmd = "boot"
    BY <1>3 DEF BootStep
  <2>2. phase \in BootPhases
    BY <2>1 DEF BootNext, ReadFile, OpenFile, ReadChunk, CloseFile, TreeScratch, BuildTree,
       LoadDtb, PatchTree, CheckKernel, OpenSerial, MachineInit, AttachDevices, PlaceKernel,
       PlaceTree, PlaceInitrd, VcpuInit, BootPhases
  <2>3. /\ UNCHANGED opts /\ phase' \in BootPhases \cup {"exited"}
        /\ phase' # "exited" => exit' = exit
        /\ Branched'
    BY <2>1, <2>2, BootFrame DEF Control
  <2>4. phase' \notin RunPhases /\ phase # "exited"
    BY <2>2, <2>3, PhasesApart
  <2>5. prog' = prog
    BY <2>1 DEF userVars, guestVars
  <2> QED BY <2>1, <2>2, <2>3, <2>4, <2>5 DEF Control
<1>4. CASE Exited \/ UNCHANGED vars
  <2>1. UNCHANGED <<argv, phase, exit, prog, opts>>
    BY <1>4 DEF Exited, vars, hostVars, userVars, guestVars, bootVars
  <2> QED BY <2>1 DEF Control, Branched, Generated
<1> QED BY <1>1, <1>2, <1>3, <1>4 DEF Next

-----------------------------------------------------------------------------
(* buffer.c: the growth loop ends, with room for what is asked.            *)

\* One turn of the loop: f answers for the next capacity.
GrowthTurn(f, cap, required) ==
  IF cap >= required THEN cap
  ELSE IF cap > SizeMax - cap \div 2 \/ cap \div 2 = 0 THEN required
  ELSE f[cap + cap \div 2]

\* A turn that does not end the loop moves the capacity up, within size_t.
LEMMA GrowthMoves ==
  ASSUME NEW cap \in 0 .. SizeMax, ~(cap > SizeMax - cap \div 2 \/ cap \div 2 = 0)
  PROVE  cap + cap \div 2 \in (cap + 1) .. SizeMax
<1>1. cap \div 2 \in Nat
  OBVIOUS
<1> QED BY <1>1, HostAssumption

LEMMA GrowthExists ==
  ASSUME NEW required \in 0 .. SizeMax
  PROVE  \E f : f = [cap \in 0 .. SizeMax |-> GrowthTurn(f, cap, required)]
<1> USE HostAssumption
<1> DEFINE Solves(f, k) == /\ f = [c \in k .. SizeMax |-> f[c]]
                           /\ \A c \in k .. SizeMax : f[c] = GrowthTurn(f, c, required)
           Open == {k \in 0 .. SizeMax : ~ \E f : Solves(f, k)}
<1>1. \E f : Solves(f, SizeMax)
  <2> DEFINE f == [c \in SizeMax .. SizeMax |-> c]
  <2>1. Solves(f, SizeMax)
    BY DEF GrowthTurn
  <2> QED BY <2>1
<1>2. ASSUME NEW k \in 0 .. SizeMax, k + 1 <= SizeMax, NEW f, Solves(f, k + 1)
      PROVE  \E g : Solves(g, k)
  <2> DEFINE g == [c \in k .. SizeMax |-> IF c = k THEN GrowthTurn(f, k, required) ELSE f[c]]
  <2>1. ASSUME NEW c \in k .. SizeMax
        PROVE  GrowthTurn(g, c, required) = GrowthTurn(f, c, required)
    <3>1. CASE c > SizeMax - c \div 2 \/ c \div 2 = 0
      BY <3>1 DEF GrowthTurn
    <3>2. CASE ~(c > SizeMax - c \div 2 \/ c \div 2 = 0)
      <4>1. c \in 0 .. SizeMax
        OBVIOUS
      <4>2. c + c \div 2 \in (c + 1) .. SizeMax
        BY <3>2, <4>1, GrowthMoves
      <4>3. g[c + c \div 2] = f[c + c \div 2]
        BY <4>1, <4>2
      <4> QED BY <4>3 DEF GrowthTurn
    <3> QED BY <3>1, <3>2
  <2>2. ASSUME NEW c \in k .. SizeMax
        PROVE  g[c] = GrowthTurn(g, c, required)
    <3>1. CASE c = k
      BY <2>1, <3>1
    <3>2. CASE c # k
      <4>1. c \in (k + 1) .. SizeMax
        BY <3>2
      <4>2. f[c] = GrowthTurn(f, c, required)
        BY <1>2, <4>1
      <4>3. g[c] = f[c]
        BY <3>2
      <4> QED BY <2>1, <4>2, <4>3
    <3> QED BY <3>1, <3>2
  <2>3. g = [c \in k .. SizeMax |-> g[c]]
    OBVIOUS
  <2> HIDE DEF g
  <2> QED BY <2>2, <2>3
<1> HIDE DEF Solves
<1>3. Open = {}
  <2> SUFFICES ASSUME Open # {} PROVE FALSE
    OBVIOUS
  <2>1. Open \in SUBSET (0 .. SizeMax)
    OBVIOUS
  <2>2. PICK k \in Open : \A y \in Open : y <= k
    <3> HIDE DEF Open
    <3> QED BY <2>1, GreatestNatural
  <2>3. k \in 0 .. SizeMax /\ ~ \E f : Solves(f, k)
    OBVIOUS
  <2>4. k # SizeMax
    BY <1>1, <2>3
  <2>5. k + 1 \in 0 .. SizeMax /\ ~(k + 1 <= k)
    BY <2>3, <2>4
  <2>6. k + 1 \notin Open
    BY <2>2, <2>5
  <2>7. \E f : Solves(f, k + 1)
    BY <2>5, <2>6
  <2> QED BY <1>2, <2>3, <2>5, <2>7
<1>4. PICK f : Solves(f, 0)
  BY <1>3
<1>5. f = [cap \in 0 .. SizeMax |-> GrowthTurn(f, cap, required)]
  BY <1>4 DEF Solves
<1> QED BY <1>5

LEMMA GrowthIs ==
  ASSUME NEW required \in 0 .. SizeMax, NEW cap \in 0 .. SizeMax
  PROVE  Growth(required)[cap] = GrowthTurn(Growth(required), cap, required)
<1>1. PICK f : f = [c \in 0 .. SizeMax |-> GrowthTurn(f, c, required)]
  BY GrowthExists
<1>2. Growth(required) = [c \in 0 .. SizeMax |-> GrowthTurn(Growth(required), c, required)]
  BY <1>1 DEF Growth, GrowthTurn
<1> QED BY <1>2

LEMMA GrowthEnough ==
  ASSUME NEW required \in 0 .. SizeMax, NEW cap \in 0 .. SizeMax
  PROVE  Growth(required)[cap] \in required .. SizeMax
<1> USE HostAssumption
<1> DEFINE G == Growth(required)
           Short == {c \in 0 .. SizeMax : G[c] \notin required .. SizeMax}
<1>1. \A c \in 0 .. SizeMax : G[c] = GrowthTurn(G, c, required)
  BY GrowthIs
<1> HIDE DEF G
<1>2. Short = {}
  <2> SUFFICES ASSUME Short # {} PROVE FALSE
    OBVIOUS
  <2>1. Short \in SUBSET (0 .. SizeMax)
    OBVIOUS
  <2>2. PICK c \in Short : \A y \in Short : y <= c
    <3> HIDE DEF Short
    <3> QED BY <2>1, GreatestNatural
  <2>3. c \in 0 .. SizeMax /\ G[c] \notin required .. SizeMax
    OBVIOUS
  <2>4. ~(c >= required) /\ ~(c > SizeMax - c \div 2 \/ c \div 2 = 0)
    BY <1>1, <2>3 DEF GrowthTurn
  <2>5. G[c] = G[c + c \div 2]
    BY <1>1, <2>3, <2>4 DEF GrowthTurn
  <2>6. c + c \div 2 \in (c + 1) .. SizeMax
    BY <2>3, <2>4, GrowthMoves
  <2>7. c + c \div 2 \in Short
    BY <2>3, <2>5, <2>6
  <2> QED BY <2>2, <2>3, <2>6, <2>7
<1> QED BY <1>2 DEF G

BufferType == [len : 0 .. SizeMax, cap : 0 .. SizeMax]

\* buffer_grow makes room for the bytes it is asked for.
LEMMA CapacityEnough ==
  ASSUME NEW b \in BufferType, NEW n \in Nat, b.len + n <= SizeMax
  PROVE  BufferCapacity(b, n) \in (b.len + n) .. SizeMax
<1> USE HostAssumption DEF BufferType
<1> DEFINE cap == b.cap
           required == b.len + n
           start == IF cap < MinCap THEN MinCap ELSE cap
<1>1. cap \in 0 .. SizeMax /\ required \in 0 .. SizeMax /\ start \in 0 .. SizeMax
  OBVIOUS
<1> HIDE DEF start
<1>2. Growth(required)[start] \in required .. SizeMax
  <2> HIDE DEF required
  <2> QED BY <1>1, GrowthEnough
<1> QED BY <1>1, <1>2 DEF BufferCapacity, GrowCapacity, start

-----------------------------------------------------------------------------
(* Recursion over 0 .. n: every sum, power and CRC of the executor, and    *)
(* every walk over a tree's tokens, is the last value of a function f with *)
(* f[0] = base and f[i] = step[i][f[i-1]].                                 *)

Follows(f, n, base, step) ==
  f = [i \in 0 .. n |-> IF i = 0 THEN base ELSE step[i][f[i - 1]]]

\* A property of 0 that every step keeps holds up to n.
LEMMA BoundedInduction ==
  ASSUME NEW n \in Nat, NEW P \in SUBSET (0 .. n), 0 \in P,
         \A i \in 1 .. n : i - 1 \in P => i \in P
  PROVE  \A i \in 0 .. n : i \in P
<1> DEFINE Rest == (0 .. n) \ P
<1> SUFFICES ASSUME Rest # {} PROVE FALSE
  OBVIOUS
<1>1. PICK k \in Rest : \A y \in Rest : k <= y
  <2>1. Rest \in SUBSET Nat
    OBVIOUS
  <2> HIDE DEF Rest
  <2> QED BY <2>1, LeastNatural
<1>2. k \in 1 .. n
  OBVIOUS
<1>3. k - 1 \notin Rest
  BY <1>1, <1>2
<1> QED BY <1>2, <1>3

\* Such a function exists, and its values stay in any set the steps map into
\* itself.
LEMMA RecursionExists ==
  ASSUME NEW n \in Nat, NEW S, NEW base \in S, NEW step \in [1 .. n -> [S -> S]]
  PROVE  \E f \in [0 .. n -> S] : Follows(f, n, base, step)
<1> DEFINE Solves(f, k) == f \in [0 .. k -> S] /\ Follows(f, k, base, step)
           P == {k \in 0 .. n : \E f : Solves(f, k)}
<1>1. 0 \in P
  <2> DEFINE f == [i \in 0 .. 0 |-> base]
  <2>1. Solves(f, 0)
    BY DEF Follows
  <2> HIDE DEF f, Solves
  <2> QED BY <2>1
<1>2. ASSUME NEW k \in 1 .. n, NEW f, Solves(f, k - 1)
      PROVE  \E g : Solves(g, k)
  <2> DEFINE g == [i \in 0 .. k |-> IF i = k THEN step[k][f[k - 1]] ELSE f[i]]
  <2>1. g \in [0 .. k -> S]
    <3>1. k - 1 \in 0 .. k - 1 /\ f[k - 1] \in S
      BY <1>2
    <3>2. step[k][f[k - 1]] \in S
      BY <3>1
    <3> QED BY <1>2, <3>2
  <2>2. ASSUME NEW i \in 0 .. k
        PROVE  g[i] = IF i = 0 THEN base ELSE step[i][g[i - 1]]
    <3>1. CASE i = k
      <4>1. g[i - 1] = f[i - 1] /\ g[i] = step[k][f[k - 1]]
        BY <3>1
      <4> QED BY <3>1, <4>1
    <3>2. CASE i # k
      <4>1. i \in 0 .. k - 1
        BY <3>2
      <4>2. f[i] = IF i = 0 THEN base ELSE step[i][f[i - 1]]
        BY <1>2, <4>1 DEF Follows
      <4>3. g[i] = f[i] /\ (i # 0 => g[i - 1] = f[i - 1])
        BY <4>1
      <4> QED BY <4>2, <4>3
    <3> QED BY <3>1, <3>2
  <2>3. Follows(g, k, base, step)
    <3> HIDE DEF g
    <3> QED BY <2>1, <2>2 DEF Follows
  <2> HIDE DEF g
  <2> QED BY <2>1, <2>3
<1> HIDE DEF Solves
<1>3. n \in P
  <2>1. P \in SUBSET (0 .. n)
    OBVIOUS
  <2>2. \A i \in 1 .. n : i - 1 \in P => i \in P
    BY <1>2
  <2>3. n \in 0 .. n
    OBVIOUS
  <2> HIDE DEF P
  <2> QED BY <1>1, <2>1, <2>2, <2>3, BoundedInduction
<1> QED BY <1>3 DEF Solves

-----------------------------------------------------------------------------
(* The heap: every pointer that is not NULL owns a live block, so no free  *)
(* and no copy into a buffer goes wrong.                                   *)
Storage ==
  /\ bufs \in [Buffers -> BufferType]
  /\ left \in Nat \cup {-1}
  /\ heap = ptr

LEMMA FreedOnce ==
  ASSUME Storage, NEW os, Freed(os)
  PROVE  heap' = heap \ os /\ heap' = ptr' /\ faults' = faults
BY DEF Storage, Freed

LEMMA ClearedTyped ==
  ASSUME Storage, NEW os, BufferCleared(os)
  PROVE  bufs' \in [Buffers -> BufferType]
<1>1. [len |-> 0, cap |-> 0] \in BufferType
  BY HostAssumption DEF BufferType
<1> QED BY <1>1 DEF Storage, BufferCleared

LEMMA AppendStores ==
  ASSUME Storage, NEW o \in Buffers, NEW n \in Nat, BufferAppend(o, n)
  PROVE  /\ bufs' \in [Buffers -> BufferType]
         /\ heap' = ptr' /\ heap' = heap \cup {o} /\ faults' = faults
<1> DEFINE b == bufs[o]
           cap == BufferCapacity(b, n)
<1>1. b \in BufferType /\ b.len + n <= SizeMax
  BY DEF Storage, BufferAppend
<1>2. cap \in (b.len + n) .. SizeMax
  BY <1>1, CapacityEnough
<1>3. b.len \in 0 .. SizeMax
  BY <1>1 DEF BufferType
<1>4. [len |-> b.len + n, cap |-> cap] \in BufferType
  BY <1>1, <1>2, <1>3, HostAssumption DEF BufferType
<1>5. /\ bufs' = [bufs EXCEPT ![o] = [len |-> b.len + n, cap |-> cap]]
      /\ faults' = IF b.len + n > cap THEN faults \cup {o} ELSE faults
      /\ heap' = heap \cup {o} /\ ptr' = ptr \cup {o}
  BY DEF BufferAppend
<1> HIDE DEF cap
<1>6. faults' = faults
  BY <1>2, <1>3, <1>5, HostAssumption DEF Storage
<1> QED BY <1>4, <1>5, <1>6 DEF Storage

LEMMA ReadFileStores ==
  ASSUME Storage, NEW at, NEW o \in Buffers, NEW size \in Nat, NEW next, NEW failed,
         ReadFile(at, o, size, next, failed)
  PROVE  /\ Storage'
         /\ heap' \subseteq heap \cup {o} /\ faults' = faults
         /\ phase = at /\ phase' \in {at, next, failed}
<1>1. CASE OpenFile(at, size, failed)
  BY <1>1 DEF OpenFile, Storage
<1>2. CASE CloseFile(at, next, failed)
  BY <1>2 DEF CloseFile, Storage
<1>3. CASE ReadChunk(at, o, failed)
  <2>1. left \in Nat \ {0}
    BY <1>3 DEF ReadChunk, Storage
  <2>2. Chunk \in Nat /\ Chunk <= left
    BY <2>1, HostAssumption DEF Chunk
  <2>3. CASE BufferAppend(o, Chunk) /\ left' = left - Chunk /\ phase' = phase
    <3>1. left - Chunk \in Nat
      BY <2>1, <2>2
    <3>2. /\ bufs' \in [Buffers -> BufferType]
          /\ heap' = ptr' /\ heap' = heap \cup {o} /\ faults' = faults
      BY <2>2, <2>3, AppendStores
    <3> QED BY <1>3, <2>3, <3>1, <3>2 DEF Storage, ReadChunk
  <2>4. CASE left' = -1 /\ phase' = failed /\ UNCHANGED <<heap, ptr, faults, bufs>>
    BY <1>3, <2>4 DEF Storage, ReadChunk
  <2> QED BY <1>3, <2>3, <2>4 DEF ReadChunk
<1> QED BY <1>1, <1>2, <1>3 DEF ReadFile

-----------------------------------------------------------------------------
(* The loader.                                                             *)

LEMMA SegmentsTyped ==
  ASSUME ElfFile(prog)
  PROVE  /\ Segments \in Seq(Header) /\ Len(Segments) \in Nat
         /\ DOMAIN Segments = 1 .. Len(Segments)
         /\ \A i \in DOMAIN Segments : Segments[i] \in Header
         /\ Image.size \in Nat /\ Image.entry \in Address
<1>1. /\ Segments \in Seq(Header) /\ Image.size \in Nat /\ Image.entry \in Address
  BY DEF ElfFile, Segments, Image
<1> QED BY <1>1

\* First finds nothing only where there is nothing to find.
LEMMA FirstRefusedIs ==
  ASSUME ElfFile(prog)
  PROVE  \/ FirstRefused = 0 /\ \A i \in DOMAIN Segments : ValidateSegment(Segments[i]) = "OK"
         \/ /\ FirstRefused \in DOMAIN Segments
            /\ ValidateSegment(Segments[FirstRefused]) # "OK"
<1> DEFINE hits == {i \in DOMAIN Segments : ValidateSegment(Segments[i]) # "OK"}
           least == CHOOSE i \in hits : \A j \in hits : i <= j
<1>1. CASE hits = {}
  BY <1>1 DEF FirstRefused, First
<1>2. CASE hits # {}
  <2>1. hits \in SUBSET Nat
    BY SegmentsTyped
  <2>2. \E i \in hits : \A j \in hits : i <= j
    <3> HIDE DEF hits
    <3> QED BY <1>2, <2>1, LeastNatural
  <2>3. least \in hits
    BY <2>2
  <2>4. FirstRefused = least
    BY <1>2 DEF FirstRefused, First
  <2> QED BY <2>3, <2>4
<1> QED BY <1>1, <1>2

Refusals == {"INVALID_ARG", "UNSUPPORTED", "RANGE", "OVERFLOW"}

LEMMA HeaderVerdict ==
  ASSUME ElfFile(prog), regions = <<>>
  PROVE  \/ ElfHeader \in Refusals
         \/ ElfHeader = "OK" /\ Len(Segments) \in 1 .. RegionCapacity
<1>1. CASE ImageLen < HeaderSize \/ ~Image.magic
  BY <1>1 DEF ElfHeader, Refusals
<1>2. CASE ImageLen >= HeaderSize /\ Image.magic /\ ~Image.supported
           /\ ~(ImageLen < HeaderSize \/ ~Image.magic)
  BY <1>2 DEF ElfHeader, Refusals
<1>3. CASE /\ ~(ImageLen < HeaderSize \/ ~Image.magic)
           /\ ~(ImageLen >= HeaderSize /\ Image.magic /\ ~Image.supported)
  <2> DEFINE wrong == \/ Image.entsize # PhEntSize \/ Image.ph = <<>>
                      \/ Image.phoff > Top - TableBytes
                      \/ Plus(Image.phoff, TableBytes) > ImageLen
                      \/ Segments = <<>>
  <2>1. ElfHeader = IF wrong THEN "INVALID_ARG"
                    ELSE IF Len(regions) + Len(Segments) > RegionCapacity THEN "RANGE"
                    ELSE "OK"
    BY <1>3 DEF ElfHeader
  <2>2. ~wrong => Segments # <<>>
    OBVIOUS
  <2> HIDE DEF wrong
  <2>3. Segments # <<>> => Len(Segments) # 0
    BY SegmentsTyped
  <2>4. Len(regions) = 0
    OBVIOUS
  <2> QED BY <2>1, <2>2, <2>3, <2>4, SegmentsTyped, UserAssumption DEF Refusals
<1> QED BY <1>1, <1>2, <1>3

\* What oemu_elf_load has established when it maps the first segment.
Validated ==
  /\ Len(Segments) \in 1 .. RegionCapacity
  /\ \A i \in DOMAIN Segments : ValidateSegment(Segments[i]) = "OK"
  /\ \A a, b \in DOMAIN Segments :
       a < b => ~ElfOverlap(Segments[a].vaddr, Segments[a].memsz,
                            Segments[b].vaddr, Segments[b].memsz)

LEMMA SegmentsVerdict ==
  ASSUME ElfFile(prog), Len(Segments) \in 1 .. RegionCapacity
  PROVE  \/ ElfSegments \in Refusals
         \/ ElfSegments = "OK" /\ Validated
<1>1. \A i \in DOMAIN Segments : ValidateSegment(Segments[i]) \in Refusals \cup {"OK"}
  BY DEF ValidateSegment, Refusals
<1>2. CASE FirstRefused \in DOMAIN Segments /\ ValidateSegment(Segments[FirstRefused]) # "OK"
  <2>1. FirstRefused # 0
    BY <1>2, SegmentsTyped
  <2> QED BY <1>1, <1>2, <2>1 DEF ElfSegments
<1>3. CASE FirstRefused = 0 /\ \A i \in DOMAIN Segments : ValidateSegment(Segments[i]) = "OK"
  BY <1>3 DEF ElfSegments, Validated, Refusals
<1> QED BY <1>2, <1>3, FirstRefusedIs

\* A segment that passed validation: bytes that exist, below the top, and a
\* part of the file that exists.
LEMMA SegmentFits ==
  ASSUME ElfFile(prog), Validated, ImageLen \in Address, NEW i \in DOMAIN Segments
  PROVE  LET ph == Segments[i]
         IN /\ ph.vaddr \in Address /\ ph.memsz \in Sizes /\ ph.vaddr + ph.memsz <= Top
            /\ ph.offset \in Address /\ ph.filesz \in Address
            /\ ph.filesz <= ph.memsz /\ ph.offset + ph.filesz <= ImageLen
            /\ ph.flags \in SUBSET Perms /\ ph.flags # {}
<1> DEFINE ph == Segments[i]
<1>1. ph \in Header
  BY SegmentsTyped
<1>2. /\ ph.vaddr \in Address /\ ph.memsz \in Address /\ ph.offset \in Address
      /\ ph.filesz \in Address /\ ph.flags \in SUBSET Perms
  BY <1>1 DEF Header
<1>3. ValidateSegment(ph) = "OK"
  BY DEF Validated
<1> HIDE DEF ph
<1>4. /\ ph.flags # {} /\ ph.memsz # 0 /\ ~(ph.filesz > ph.memsz)
      /\ Within(ph.offset, ph.filesz, ImageLen) /\ ~(ph.vaddr > Top - ph.memsz)
  BY <1>3 DEF ValidateSegment
<1>5. ph.offset + ph.filesz <= ImageLen
  <2>1. ph.offset <= ImageLen /\ ph.filesz <= Minus(ImageLen, ph.offset)
    BY <1>4 DEF Within
  <2>2. Minus(ImageLen, ph.offset) = ImageLen - ph.offset
    BY <1>2, <2>1, MinusExact
  <2> QED BY <1>2, <2>1, <2>2, TopAssumption DEF Address
<1> QED BY <1>2, <1>4, <1>5, TopAssumption DEF Address, Sizes, ph

\* memory.c asks for room and overlap in the other order: what it lets in,
\* aspace.c's map_common lets in too.
LEMMA MemMapSound ==
  ASSUME NEW R, regions \in Seq(R), SoundTable(regions),
         NEW base \in Address, NEW n \in Address, NEW perms, MemMap(base, n, perms) = "OK",
         NEW new \in R, new.base = base, new.size = n
  PROVE  /\ SoundTable(Append(regions, new))
         /\ n \in Sizes /\ base + n <= Top + 1
         /\ Len(regions) < RegionCapacity
<1>1. /\ CheckMapArgs(base, n, perms) = "OK"
      /\ ~(Len(regions) >= RegionCapacity)
      /\ ~ \E i \in DOMAIN regions : Overlap(base, n, regions[i].base, regions[i].size)
  BY DEF MemMap
<1>2. Len(regions) \in Nat /\ RegionCapacity \in Nat
  BY UserAssumption
<1>3. MapCommon(regions, RegionCapacity, base, n, perms) = "OK"
  BY <1>1, <1>2 DEF MapCommon
<1>4. n \in Sizes /\ base + n <= Top + 1
  BY <1>1, TopAssumption DEF CheckMapArgs, Sizes, Address
<1> QED BY <1>1, <1>2, <1>3, <1>4, MapKeepsSound

\* The names of the blocks behind the guest's memory.
Blocks == {"stack"} \cup Range(SegmentBlock)

Region == [base : Address, size : Address, perms : SUBSET Perms, block : Blocks]
Statuses == Refusals \cup {"none", "checked", "mapping", "OK", "NO_MEMORY"}
LoadType == [status : Statuses, mapped : Nat, entry : Address, max : Address]

SegmentBytes(i) == Bytes(Segments[i].vaddr, Segments[i].memsz)
SegmentByte(i, a) ==
  IF a - Segments[i].vaddr < Segments[i].filesz
  THEN FileByte(Segments[i].offset + (a - Segments[i].vaddr)) ELSE 0

\* The first n segments are mapped, in order, ...
Layout(n) ==
  \A i \in 1 .. n : /\ regions[i].base = Segments[i].vaddr
                    /\ regions[i].size = Segments[i].memsz
                    /\ regions[i].perms = Segments[i].flags
\* ... and filled.
Filled(n) == \A i \in 1 .. n : \A a \in SegmentBytes(i) : mem[a] = SegmentByte(i, a)
Covered(n) == UNION {SegmentBytes(i) : i \in 1 .. n}

Idle ==
  /\ regions = <<>> /\ mem = <<>>
  /\ load.status = "none" /\ load.mapped = 0

Mapping ==
  /\ Validated
  /\ load.mapped \in 0 .. Len(Segments)
  /\ Len(regions) = load.mapped
  /\ Layout(load.mapped) /\ Filled(load.mapped)
  /\ DOMAIN mem = Covered(load.mapped)

InElf ==
  \/ load.status = "none" /\ Idle
  \/ /\ load.status = "checked" /\ regions = <<>> /\ mem = <<>> /\ load.mapped = 0
     /\ Len(Segments) \in 1 .. RegionCapacity
  \/ load.status = "mapping" /\ Mapping

\* The guest's memory when the core starts.
Started ==
  LET n == Len(Segments)
      stack == Bytes(StackAt, StackSize)
  IN /\ Validated
     /\ Len(regions) = n + 1
     /\ Layout(n) /\ Filled(n)
     /\ regions[n + 1].base = StackAt /\ regions[n + 1].size = StackSize
     /\ regions[n + 1].perms = {"r", "w"}
     /\ \A a \in stack : mem[a] = 0
     /\ DOMAIN mem = stack \cup Covered(n)

\* What is mapped in each phase.
Loading ==
  /\ regions \in Seq(Region) /\ load \in LoadType
  /\ SoundTable(regions)
  /\ phase \in {"main", "run_file", "memory"} \cup BootPhases => Idle
  /\ phase = "elf" => InElf
  /\ phase = "stack" => load.status = "OK" /\ load.mapped = Len(Segments) /\ Mapping
  /\ phase = "cpu" => load.status = "OK" /\ Started
  /\ phase = "exec" => load.status = "OK"
  /\ ValidateThenCommit

\* oemu_elf_load's own overlap test and limit leave the mapper nothing to
\* refuse.
LEMMA MapperAgrees ==
  ASSUME ElfFile(prog), ImageLen \in Address, Mapping, Loading, load.mapped < Len(Segments)
  PROVE  MemMap(Segment.vaddr, Segment.memsz, Segment.flags) = "OK"
<1> DEFINE k == load.mapped + 1
           ph == Segments[k]
<1>1. k \in DOMAIN Segments /\ load.mapped \in Nat /\ Segment = ph
  BY SegmentsTyped DEF Mapping, Segment
<1>2. /\ ph.vaddr \in Address /\ ph.memsz \in Sizes /\ ph.vaddr + ph.memsz <= Top
      /\ ph.flags # {}
  BY <1>1, SegmentFits DEF Mapping
<1>3. CheckMapArgs(ph.vaddr, ph.memsz, ph.flags) = "OK"
  <2> HIDE DEF ph
  <2> QED BY <1>2, TopAssumption DEF CheckMapArgs, Address, Sizes
<1>4. Len(regions) < RegionCapacity
  BY <1>1, SegmentsTyped, UserAssumption DEF Mapping, Validated
<1>5. ASSUME NEW i \in DOMAIN regions
      PROVE  ~Overlap(ph.vaddr, ph.memsz, regions[i].base, regions[i].size)
  <2> DEFINE old == Segments[i]
  <2>1. i \in 1 .. load.mapped
    BY DEF Mapping, Loading
  <2>2. i \in DOMAIN Segments /\ i < k
    BY <1>1, <2>1, SegmentsTyped DEF Mapping
  <2>3. regions[i].base = old.vaddr /\ regions[i].size = old.memsz
    BY <2>1 DEF Mapping, Layout
  <2>4. old.vaddr \in Address /\ old.memsz \in Sizes /\ old.vaddr + old.memsz <= Top
    BY <2>2, SegmentFits DEF Mapping
  <2>5. ~ElfOverlap(old.vaddr, old.memsz, ph.vaddr, ph.memsz)
    BY <1>1, <2>2 DEF Mapping, Validated
  <2> HIDE DEF old, ph, k
  <2>6. ~ElfOverlap(ph.vaddr, ph.memsz, old.vaddr, old.memsz)
    BY <2>5 DEF ElfOverlap
  <2>7. ElfOverlap(ph.vaddr, ph.memsz, old.vaddr, old.memsz)
          <=> Overlap(ph.vaddr, ph.memsz, old.vaddr, old.memsz)
    BY <1>2, <2>4, ElfArithmetic
  <2> QED BY <2>3, <2>6, <2>7
<1>6. ~(Len(regions) >= RegionCapacity)
  BY <1>4, UserAssumption DEF Loading
<1> HIDE DEF ph, k
<1> QED BY <1>1, <1>3, <1>5, <1>6 DEF MemMap

\* A region appended to the table, and its block filled.
Grown(base, n, perms, content) ==
  LET k == Len(regions) + 1
  IN /\ regions' \in Seq(Region) /\ SoundTable(regions')
     /\ n \in Sizes /\ base + n <= Top + 1
     /\ k \in Nat /\ Len(regions') = k
     /\ regions'[k].base = base /\ regions'[k].size = n /\ regions'[k].perms = perms
     /\ \A i \in 1 .. Len(regions) :
          /\ regions'[i] = regions[i]
          /\ Bytes(regions[i].base, regions[i].size) \cap Bytes(base, n) = {}
     /\ DOMAIN mem' = DOMAIN mem \cup Bytes(base, n)
     /\ \A a \in Bytes(base, n) :
          mem'[a] = IF a - base < content.size THEN FileByte(content.offset + (a - base)) ELSE 0
     /\ \A a \in DOMAIN mem : a \notin Bytes(base, n) => mem'[a] = mem[a]

LEMMA MappedIs ==
  ASSUME Loading, NEW block \in Blocks, NEW base \in Address, NEW n \in Address,
         NEW perms \in SUBSET Perms, NEW content, MemMap(base, n, perms) = "OK",
         Mapped(block, base, n, perms, content)
  PROVE  Grown(base, n, perms, content)
<1> DEFINE new == [base |-> base, size |-> n, perms |-> perms, block |-> block]
           k == Len(regions) + 1
<1>1. new \in Region /\ new.base = base /\ new.size = n /\ new.perms = perms
  BY DEF Region
<1>2. regions' = Append(regions, new)
  BY DEF Mapped
<1>3. mem' = [a \in DOMAIN mem \cup Bytes(base, n) |->
               IF a \in Bytes(base, n)
               THEN (IF a - base < content.size THEN FileByte(content.offset + (a - base)) ELSE 0)
               ELSE mem[a]]
  BY DEF Mapped
<1> HIDE DEF new
<1>4. SoundTable(regions') /\ n \in Sizes /\ base + n <= Top + 1
  BY <1>1, <1>2, MemMapSound DEF Loading
<1>5. /\ regions \in Seq(Region) /\ Len(regions) \in Nat
      /\ regions' \in Seq(Region) /\ Len(regions') = k /\ regions'[k] = new
      /\ \A i \in 1 .. Len(regions) : regions'[i] = regions[i]
      /\ DOMAIN regions' = 1 .. k
  BY <1>1, <1>2 DEF Loading
<1>6. ASSUME NEW i \in 1 .. Len(regions)
      PROVE  Bytes(regions[i].base, regions[i].size) \cap Bytes(base, n) = {}
  <2>1. i \in DOMAIN regions' /\ k \in DOMAIN regions' /\ i # k
    BY <1>5
  <2>2. Bytes(regions'[i].base, regions'[i].size) \cap Bytes(regions'[k].base, regions'[k].size)
          = {}
    BY <1>4, <2>1 DEF SoundTable
  <2> QED BY <1>1, <1>5, <2>2
<1>7. /\ DOMAIN mem' = DOMAIN mem \cup Bytes(base, n)
      /\ \A a \in Bytes(base, n) :
           mem'[a] = IF a - base < content.size THEN FileByte(content.offset + (a - base)) ELSE 0
      /\ \A a \in DOMAIN mem : a \notin Bytes(base, n) => mem'[a] = mem[a]
  BY <1>3
<1> QED BY <1>1, <1>4, <1>5, <1>6, <1>7 DEF Grown

LEMMA ImageStable ==
  ASSUME prog' = prog
  PROVE  /\ Segments' = Segments /\ Image' = Image
         /\ bufs' = bufs => (Validated <=> Validated')
<1>1. Segments' = Segments /\ Image' = Image
  BY DEF Segments, Image
<1>2. ASSUME bufs' = bufs PROVE Validated <=> Validated'
  <2>1. ImageLen' = ImageLen
    BY <1>2 DEF ImageLen
  <2> QED BY <1>1, <2>1 DEF Validated, ValidateSegment
<1> QED BY <1>1, <1>2

\* Nothing that the loader looks at has changed.
LEMMA LoadingStable ==
  ASSUME Loading, UNCHANGED <<prog, regions, mem, load, bufs>>,
         phase' # phase => phase' \in {"run_done", "exited"}
  PROVE  Loading'
<1>1. /\ Segments' = Segments /\ (Validated <=> Validated')
  BY ImageStable
<1>2. phase' = phase \/ phase' \in {"run_done", "exited"}
  OBVIOUS
<1>3. ValidateThenCommit'
  BY <1>1 DEF Loading, ValidateThenCommit
<1>4. /\ regions' \in Seq(Region) /\ load' \in LoadType /\ SoundTable(regions')
  BY DEF Loading
<1>5. CASE phase' \in {"run_done", "exited"}
  <2>1. phase' \notin {"main", "run_file", "memory", "elf", "stack", "cpu", "exec"} \cup BootPhases
    BY <1>5 DEF BootPhases
  <2> QED BY <1>3, <1>4, <2>1 DEF Loading
<1>6. CASE phase' = phase
  <2>1. (Idle <=> Idle') /\ (Mapping <=> Mapping')
    BY <1>1 DEF Idle, Mapping, Layout, Filled, Covered, SegmentBytes, SegmentByte
  <2>2. InElf <=> InElf'
    BY <1>1, <2>1 DEF InElf
  <2>3. StackAt' = StackAt
    BY DEF StackAt
  <2>4. Started <=> Started'
    BY <1>1, <2>3 DEF Started, Layout, Filled, Covered, SegmentBytes, SegmentByte
  <2> QED BY <1>1, <1>3, <1>4, <1>6, <2>1, <2>2, <2>4 DEF Loading
<1> QED BY <1>2, <1>5, <1>6

\* A verdict of the loader that maps nothing.
LEMMA VerdictLoads ==
  ASSUME ElfFile(prog), Loading, NEW verdict \in Statuses, LoadFails(verdict), bufs' = bufs,
         \/ phase' = "elf" /\ verdict \in {"checked", "mapping"} /\ InElf'
         \/ phase' = "run_done" /\ verdict \in Refusals /\ regions = <<>>
         \/ /\ phase' = "run_done" /\ verdict = "NO_MEMORY"
            /\ Len(regions) = load.mapped /\ load.mapped < Len(Segments)
  PROVE  Loading'
<1>1. /\ load' = [load EXCEPT !.status = verdict]
      /\ UNCHANGED <<prog, regions, mem>>
  BY DEF LoadFails, execVars, guestVars
<1>2. Segments' = Segments
  BY <1>1, ImageStable
<1>3. load' \in LoadType /\ load'.status = verdict /\ load'.mapped = load.mapped
  BY <1>1 DEF Loading, LoadType
<1>4. regions' \in Seq(Region) /\ SoundTable(regions')
  BY <1>1 DEF Loading
<1>5. ValidateThenCommit'
  BY <1>1, <1>2, <1>3 DEF ValidateThenCommit, Refusals
<1>6. /\ phase' \in {"elf", "run_done"}
      /\ phase' \notin {"main", "run_file", "memory", "stack", "cpu", "exec"} \cup BootPhases
      /\ phase' = "elf" => InElf'
  BY DEF BootPhases
<1> QED BY <1>3, <1>4, <1>5, <1>6 DEF Loading

LEMMA ImageLength ==
  ASSUME Storage
  PROVE  ImageLen \in Address
<1>1. bufs["image"] \in BufferType
  BY DEF Storage, Buffers
<1> QED BY <1>1, UserAssumption, HostAssumption, TopAssumption DEF ImageLen, BufferType, Address

LEMMA CheckLoads ==
  ASSUME ElfFile(prog), Storage, Loading, CheckHeader \/ CheckSegments
  PROVE  Loading'
<1>1. CASE CheckHeader
  <2>1. Idle /\ phase = "elf"
    BY <1>1 DEF CheckHeader, Loading, InElf
  <2>2. \/ ElfHeader \in Refusals
        \/ ElfHeader = "OK" /\ Len(Segments) \in 1 .. RegionCapacity
    BY <2>1, HeaderVerdict DEF Idle
  <2>3. ElfHeader \in Statuses /\ "OK" \notin Refusals
    BY <2>2 DEF Refusals, Statuses
  <2>4. Len(regions) = load.mapped /\ load.mapped = 0
    BY <2>1 DEF Idle
  <2>5. CASE ElfHeader # "OK" /\ LoadFails(ElfHeader) /\ Goto("run_done")
    <3>1. ElfHeader \in Refusals
      BY <2>2, <2>5
    <3>2. phase' = "run_done" /\ bufs' = bufs
      BY <2>5 DEF Goto
    <3>3. regions = <<>>
      BY <2>1 DEF Idle
    <3> QED BY <2>3, <2>5, <3>1, <3>2, <3>3, VerdictLoads
  <2>6. CASE ElfHeader = "OK" /\ LoadFails("NO_MEMORY") /\ Goto("run_done")
    <3>1. load.mapped < Len(Segments)
      BY <2>2, <2>3, <2>4, <2>6
    <3>2. phase' = "run_done" /\ bufs' = bufs
      BY <2>6 DEF Goto
    <3> QED BY <2>4, <2>6, <3>1, <3>2, VerdictLoads DEF Statuses
  <2>7. CASE /\ ElfHeader = "OK" /\ LoadFails("checked")
             /\ UNCHANGED <<phase, bufs>>
    <3>1. UNCHANGED <<prog, regions, mem>> /\ load' = [load EXCEPT !.status = "checked"]
      BY <2>7 DEF LoadFails, execVars, guestVars
    <3>2. load'.status = "checked" /\ load'.mapped = load.mapped
      BY <3>1 DEF Loading, LoadType
    <3>3. Segments' = Segments
      BY <3>1, ImageStable
    <3>4. InElf'
      BY <2>1, <2>2, <2>3, <2>4, <2>7, <3>1, <3>2, <3>3 DEF InElf, Idle
    <3> QED BY <2>1, <2>7, <3>4, VerdictLoads DEF Statuses
  <2> QED BY <1>1, <2>5, <2>6, <2>7 DEF CheckHeader
<1>2. CASE CheckSegments
  <2>1. /\ phase = "elf" /\ load.status = "checked" /\ regions = <<>> /\ mem = <<>>
        /\ load.mapped = 0 /\ Len(Segments) \in 1 .. RegionCapacity
    BY <1>2 DEF CheckSegments, Loading, InElf, Idle
  <2>2. \/ ElfSegments \in Refusals
        \/ ElfSegments = "OK" /\ Validated
    BY <2>1, SegmentsVerdict
  <2>3. ElfSegments \in Statuses /\ "OK" \notin Refusals
    BY <2>2 DEF Refusals, Statuses
  <2>4. CASE ElfSegments # "OK"
    <3>1. LoadFails(ElfSegments) /\ phase' = "run_done" /\ bufs' = bufs
      BY <1>2, <2>4 DEF CheckSegments
    <3> QED BY <2>1, <2>2, <2>3, <2>4, <3>1, VerdictLoads
  <2>5. CASE ElfSegments = "OK"
    <3>1. LoadFails("mapping") /\ phase' = "elf" /\ bufs' = bufs
      BY <1>2, <2>1, <2>5 DEF CheckSegments, hostVars
    <3>2. UNCHANGED <<prog, regions, mem>> /\ load' = [load EXCEPT !.status = "mapping"]
      BY <3>1 DEF LoadFails, execVars, guestVars
    <3>3. load'.status = "mapping" /\ load'.mapped = 0
      BY <2>1, <3>2 DEF Loading, LoadType
    <3>4. Segments' = Segments /\ Validated'
      BY <2>2, <2>3, <2>5, <3>1, <3>2, ImageStable
    <3>5. Len(regions') = 0 /\ DOMAIN mem' = {}
      BY <2>1, <3>2
    <3>6. Mapping'
      BY <2>1, <3>3, <3>4, <3>5 DEF Mapping, Layout, Filled, Covered
    <3>7. InElf'
      BY <3>3, <3>6 DEF InElf
    <3> QED BY <3>1, <3>7, VerdictLoads DEF Statuses
  <2> QED BY <2>4, <2>5
<1> QED BY <1>1, <1>2


\* A step of the mapping loop maps the next segment, or runs out of memory.
LEMMA MapSegmentLoads ==
  ASSUME ElfFile(prog), Storage, Loading, MapSegment
  PROVE  Loading'
<1> DEFINE k == load.mapped + 1
           ph == Segments[k]
           block == SegmentBlock[k]
<1>1. /\ phase = "elf" /\ load.status = "mapping" /\ load.mapped < Len(Segments) /\ Mapping
  BY DEF MapSegment, Loading, InElf, Idle
<1>2. ImageLen \in Address
  BY ImageLength
<1>3. MemMap(Segment.vaddr, Segment.memsz, Segment.flags) = "OK"
  BY <1>1, <1>2, MapperAgrees
<1>4. k \in DOMAIN Segments /\ load.mapped \in Nat /\ Segment = ph
  BY <1>1, SegmentsTyped DEF Mapping, Segment
<1>5. /\ ph.vaddr \in Address /\ ph.memsz \in Sizes /\ ph.vaddr + ph.memsz <= Top
      /\ ph.flags \in SUBSET Perms
  BY <1>1, <1>2, <1>4, SegmentFits DEF Mapping
<1>6. CASE LoadFails("NO_MEMORY") /\ phase' = "run_done" /\ bufs' = bufs
  BY <1>1, <1>6, VerdictLoads DEF Mapping, Statuses
<1>7. CASE /\ Mapped(block, ph.vaddr, ph.memsz, ph.flags,
                     [offset |-> ph.offset, size |-> ph.filesz])
           /\ load' = [load EXCEPT !.mapped = @ + 1,
                                   !.max = MaxOf(@, Plus(ph.vaddr, ph.memsz))]
           /\ UNCHANGED <<phase, bufs>>
  <2> DEFINE content == [offset |-> ph.offset, size |-> ph.filesz]
             n == Len(regions)
  <2>0. block \in Blocks
    <3>1. k \in 1 .. Len(SegmentBlock)
      BY <1>1, <1>4, SegmentsTyped, UserAssumption DEF Mapping, Validated
    <3> QED BY <3>1, UserAssumption DEF Blocks, Range
  <2>1. ph.memsz \in Address /\ n = load.mapped
    BY <1>1, <1>5 DEF Sizes, Mapping
  <2>2. /\ regions' \in Seq(Region) /\ SoundTable(regions')
        /\ Len(regions') = k
        /\ regions'[k].base = ph.vaddr /\ regions'[k].size = ph.memsz
        /\ regions'[k].perms = ph.flags
        /\ \A i \in 1 .. n :
             /\ regions'[i] = regions[i]
             /\ Bytes(regions[i].base, regions[i].size) \cap Bytes(ph.vaddr, ph.memsz) = {}
        /\ DOMAIN mem' = DOMAIN mem \cup Bytes(ph.vaddr, ph.memsz)
        /\ \A a \in Bytes(ph.vaddr, ph.memsz) :
             mem'[a] = IF a - ph.vaddr < content.size
                       THEN FileByte(content.offset + (a - ph.vaddr)) ELSE 0
        /\ \A a \in DOMAIN mem : a \notin Bytes(ph.vaddr, ph.memsz) => mem'[a] = mem[a]
    <3>1. /\ MemMap(ph.vaddr, ph.memsz, ph.flags) = "OK"
          /\ Mapped(block, ph.vaddr, ph.memsz, ph.flags, content)
          /\ k = n + 1
      BY <1>3, <1>4, <1>7, <2>1
    <3>2. Grown(ph.vaddr, ph.memsz, ph.flags, content)
      <4> HIDE DEF ph, block, content
      <4> QED BY <1>5, <2>0, <2>1, <3>1, MappedIs
    <3> HIDE DEF ph, content, k
    <3> QED BY <3>1, <3>2 DEF Grown
  <2>3. content.size = ph.filesz /\ content.offset = ph.offset
    OBVIOUS
  <2>4. prog' = prog
    BY <1>7 DEF Mapped, guestVars
  <2>5. Segments' = Segments /\ Validated'
    BY <1>1, <1>7, <2>4, ImageStable DEF Mapping
  <2>6. Plus(ph.vaddr, ph.memsz) \in Address
    <3> HIDE DEF ph
    <3> QED BY <1>5, TopAssumption DEF Plus, Address, Sizes
  <2>7. load' \in LoadType /\ load'.mapped = k /\ load'.status = "mapping"
    <3>1. MaxOf(load.max, Plus(ph.vaddr, ph.memsz)) \in Address
      BY <2>6 DEF MaxOf, Loading, LoadType
    <3>2. load \in LoadType
      BY DEF Loading
    <3> DEFINE max == MaxOf(load.max, Plus(ph.vaddr, ph.memsz))
    <3>3. load' = [load EXCEPT !.mapped = k, !.max = max]
      BY <1>7
    <3>4. max \in Address /\ k \in Nat
      BY <1>4, <3>1
    <3> HIDE DEF max, k
    <3> QED BY <1>1, <3>2, <3>3, <3>4 DEF LoadType
  <2> HIDE DEF content
  <2>8. 1 .. k = (1 .. n) \cup {k} /\ k \notin 1 .. n
    BY <1>4, <2>1
  <2>9. Layout(load.mapped)'
    <3>1. \A i \in 1 .. n : /\ regions'[i].base = Segments[i].vaddr
                            /\ regions'[i].size = Segments[i].memsz
                            /\ regions'[i].perms = Segments[i].flags
      BY <1>1, <2>1, <2>2 DEF Mapping, Layout
    <3>2. ASSUME NEW i \in 1 .. k
          PROVE  /\ regions'[i].base = Segments[i].vaddr
                 /\ regions'[i].size = Segments[i].memsz
                 /\ regions'[i].perms = Segments[i].flags
      BY <2>2, <2>8, <3>1
    <3> QED BY <2>5, <2>7, <3>2 DEF Layout
  <2>10. \A i \in 1 .. n : /\ SegmentBytes(i) \cap SegmentBytes(k) = {}
                           /\ SegmentBytes(i) \subseteq DOMAIN mem
    BY <1>1, <2>1, <2>2 DEF Mapping, Layout, SegmentBytes, Covered
  <2>11. Filled(load.mapped)'
    <3>1. ASSUME NEW i \in 1 .. k, NEW a \in SegmentBytes(i)
          PROVE  mem'[a] = SegmentByte(i, a)
      <4>1. CASE i = k
        BY <2>2, <2>3, <4>1 DEF SegmentBytes, SegmentByte
      <4>2. CASE i \in 1 .. n
        <5>1. mem[a] = SegmentByte(i, a)
          BY <1>1, <2>1, <4>2 DEF Mapping, Filled
        <5>2. a \in DOMAIN mem /\ a \notin Bytes(ph.vaddr, ph.memsz)
          BY <2>10, <4>2 DEF SegmentBytes
        <5> QED BY <2>2, <5>1, <5>2
      <4> QED BY <2>8, <4>1, <4>2
    <3> QED BY <2>5, <2>7, <3>1 DEF Filled, SegmentBytes, SegmentByte
  <2>12. DOMAIN mem' = Covered(k)
    <3>1. DOMAIN mem = Covered(n) /\ Bytes(ph.vaddr, ph.memsz) = SegmentBytes(k)
      BY <1>1, <2>1 DEF Mapping, SegmentBytes
    <3>2. Covered(k) = Covered(n) \cup SegmentBytes(k)
      <4> HIDE DEF k, n
      <4> QED BY <2>8 DEF Covered
    <3> QED BY <2>2, <3>1, <3>2
  <2>13. Covered(load.mapped)' = Covered(k)
    BY <2>5, <2>7 DEF Covered, SegmentBytes
  <2>14. Mapping'
    BY <1>4, <2>2, <2>5, <2>7, <2>9, <2>11, <2>12, <2>13, SegmentsTyped DEF Mapping
  <2>15. InElf' /\ phase' = "elf"
    BY <1>1, <1>7, <2>7, <2>14 DEF InElf
  <2>16. ValidateThenCommit'
    BY <2>7 DEF ValidateThenCommit
  <2>17. phase' \notin {"main", "run_file", "memory", "stack", "cpu", "exec"} \cup BootPhases
    BY <2>15 DEF BootPhases
  <2> QED BY <2>2, <2>7, <2>15, <2>16, <2>17 DEF Loading
<1> QED BY <1>3, <1>4, <1>6, <1>7 DEF MapSegment


\* Rounding down to a multiple does not go up or below zero.
LEMMA RoundDown ==
  ASSUME NEW x \in Nat, NEW d \in Nat \ {0}
  PROVE  (x \div d) * d \in 0 .. x
<1> DEFINE q == x \div d
           r == x % d
<1>1. q \in Nat /\ r \in 0 .. d - 1 /\ x = d * q + r
  OBVIOUS
<1>2. d * q = q * d /\ q * d \in Nat
  BY <1>1
<1> HIDE DEF q, r
<1> QED BY <1>1, <1>2 DEF q

\* stack_base_for yields an address, whatever the sums in it do.
LEMMA StackTyped ==
  ASSUME Loading
  PROVE  StackAt \in Address
<1> USE UserAssumption, TopAssumption
<1> DEFINE a == Plus(load.max, StackSize - 1)
           b == (a \div StackSize) * StackSize
<1>1. a \in Address /\ StackSize \in Nat \ {0}
  BY DEF Loading, LoadType, Plus, Address
<1>2. b \in 0 .. a
  <2> HIDE DEF a
  <2> QED BY <1>1, RoundDown DEF Address
<1>3. b \in Address
  BY <1>1, <1>2 DEF Address
<1> HIDE DEF b
<1>4. Plus(b, StackSize) \in Address
  BY <1>3 DEF Plus, Address
<1> QED BY <1>4 DEF StackAt, AlignUp, MaxOf, a, b

LEMMA LoadedLoads ==
  ASSUME ElfFile(prog), Loading, Loaded
  PROVE  Loading'
<1>1. /\ phase = "elf" /\ load.status = "mapping" /\ load.mapped = Len(Segments) /\ Mapping
  BY DEF Loaded, Loading, InElf, Idle
<1>2. /\ UNCHANGED <<prog, regions, mem, bufs>> /\ phase' = "stack"
      /\ load' = [load EXCEPT !.status = "OK", !.entry = Image.entry]
  BY DEF Loaded, execVars, guestVars
<1>3. load' \in LoadType /\ load'.status = "OK" /\ load'.mapped = load.mapped
  BY <1>2, SegmentsTyped DEF Loading, LoadType, Statuses
<1>4. Segments' = Segments /\ Validated'
  BY <1>1, <1>2, ImageStable DEF Mapping
<1>5. Mapping'
  BY <1>1, <1>2, <1>3, <1>4 DEF Mapping, Layout, Filled, Covered, SegmentBytes, SegmentByte
<1>6. phase' \notin {"main", "run_file", "memory", "elf", "cpu", "exec"} \cup BootPhases
  BY <1>2 DEF BootPhases
<1>7. ValidateThenCommit'
  BY <1>3 DEF ValidateThenCommit
<1> QED BY <1>1, <1>2, <1>3, <1>4, <1>5, <1>6, <1>7 DEF Loading

LEMMA MapStackLoads ==
  ASSUME ElfFile(prog), Storage, Loading, MapStack
  PROVE  Loading'
<1>1. phase = "stack" /\ load.status = "OK" /\ load.mapped = Len(Segments) /\ Mapping
  BY DEF MapStack, Loading
<1>2. CASE UNCHANGED userVars /\ Goto("run_done")
  BY <1>2, LoadingStable DEF userVars, execVars, guestVars, Goto
<1>3. CASE /\ MemMap(StackAt, StackSize, {"r", "w"}) = "OK"
           /\ Mapped("stack", StackAt, StackSize, {"r", "w"}, [offset |-> 0, size |-> 0])
           /\ phase' = "cpu" /\ UNCHANGED <<load, bufs>>
  <2> DEFINE n == Len(Segments)
             content == [offset |-> 0, size |-> 0]
             stack == Bytes(StackAt, StackSize)
  <2>1. Grown(StackAt, StackSize, {"r", "w"}, content)
    <3>0. "stack" \in Blocks
      BY DEF Blocks
    <3>1. {"r", "w"} \in SUBSET Perms
      BY DEF Perms
    <3>2. StackAt \in Address /\ StackSize \in Address
      BY StackTyped, UserAssumption
    <3> HIDE DEF content
    <3> QED BY <1>3, <3>0, <3>1, <3>2, MappedIs DEF content
  <2>2. prog' = prog
    BY <1>3 DEF Mapped, guestVars
  <2>3. Segments' = Segments /\ Validated' /\ StackAt' = StackAt
    BY <1>1, <1>3, <2>2, ImageStable DEF Mapping, StackAt
  <2>4. Len(regions) = n
    BY <1>1 DEF Mapping
  <2>5. /\ regions' \in Seq(Region) /\ SoundTable(regions')
        /\ Len(regions') = n + 1
        /\ regions'[n + 1].base = StackAt /\ regions'[n + 1].size = StackSize
        /\ regions'[n + 1].perms = {"r", "w"}
        /\ \A i \in 1 .. n : /\ regions'[i] = regions[i]
                             /\ Bytes(regions[i].base, regions[i].size) \cap stack = {}
        /\ DOMAIN mem' = DOMAIN mem \cup stack
        /\ \A a \in DOMAIN mem : a \notin stack => mem'[a] = mem[a]
    BY <2>1, <2>4 DEF Grown
  <2>6. \A a \in stack : mem'[a] = 0
    <3>1. ASSUME NEW a \in stack PROVE ~(a - StackAt < content.size)
      <4>1. a \in Address /\ StackAt <= a
        BY DEF Bytes
      <4>2. StackAt \in Address
        BY StackTyped
      <4> HIDE DEF stack
      <4> QED BY <4>1, <4>2, TopAssumption DEF Address
    <3> HIDE DEF content
    <3> QED BY <2>1, <3>1 DEF Grown
  <2>7. Layout(Len(Segments))'
    BY <1>1, <2>3, <2>5 DEF Mapping, Layout
  <2>8. \A i \in 1 .. n : /\ SegmentBytes(i) \cap stack = {}
                          /\ SegmentBytes(i) \subseteq DOMAIN mem
    BY <1>1, <2>5 DEF Mapping, Layout, SegmentBytes, Covered
  <2>9. Filled(Len(Segments))'
    <3>1. ASSUME NEW i \in 1 .. n, NEW a \in SegmentBytes(i)
          PROVE  mem'[a] = SegmentByte(i, a)
      <4>1. mem[a] = SegmentByte(i, a)
        BY <1>1 DEF Mapping, Filled
      <4> QED BY <2>5, <2>8, <4>1
    <3> QED BY <2>3, <3>1 DEF Filled, SegmentBytes, SegmentByte
  <2>10. DOMAIN mem' = stack \cup Covered(n) /\ Covered(Len(Segments))' = Covered(n)
    BY <1>1, <2>3, <2>5 DEF Mapping, Covered, SegmentBytes
  <2>11. Started'
    BY <2>3, <2>5, <2>6, <2>7, <2>9, <2>10 DEF Started
  <2>12. phase' \notin {"main", "run_file", "memory", "elf", "stack", "exec"} \cup BootPhases
    BY <1>3 DEF BootPhases
  <2>13. ValidateThenCommit' /\ load' \in LoadType /\ load'.status = "OK"
    BY <1>1, <1>3 DEF ValidateThenCommit, Loading
  <2> QED BY <1>3, <2>5, <2>11, <2>12, <2>13 DEF Loading
<1> QED BY <1>2, <1>3 DEF MapStack

\* Once the guest runs, its memory changes and the table does not.
LEMMA RunLoads ==
  ASSUME Loading, CpuInit \/ RunGuest
  PROVE  Loading'
<1>1. load.status = "OK" /\ phase \in {"cpu", "exec"}
  BY DEF CpuInit, RunGuest, Loading
<1>2. UNCHANGED <<prog, regions, load>>
  BY ExecRuns DEF CpuInit, StartExec, RunGuest, Stepped, execVars, guestVars
<1>3. phase' \in {"exec", "run_done"}
  BY DEF CpuInit, RunGuest, Goto, hostVars
<1>4. phase' \notin {"main", "run_file", "memory", "elf", "stack", "cpu"} \cup BootPhases
  BY <1>3 DEF BootPhases
<1>5. ValidateThenCommit'
  BY <1>1, <1>2 DEF ValidateThenCommit
<1> QED BY <1>1, <1>2, <1>4, <1>5 DEF Loading

\* Before the loader, nothing is mapped.
LEMMA IdleLoads ==
  ASSUME Loading, Idle, UNCHANGED <<regions, mem, load>>,
         phase' \in {"run_file", "memory", "elf", "run_done", "exited"} \cup BootPhases
  PROVE  Loading'
<1>1. Idle' /\ InElf'
  BY DEF Idle, InElf
<1>2. phase' \notin {"stack", "cpu", "exec"}
  BY DEF BootPhases
<1>3. ValidateThenCommit'
  BY <1>1 DEF Idle, ValidateThenCommit
<1> QED BY <1>1, <1>2, <1>3 DEF Loading

LEMMA LoadingStep ==
  ASSUME Control, Storage, Loading, [Next]_vars
  PROVE  Loading'
<1>1. CASE ParseArgs
  <2>1. Idle
    BY <1>1 DEF ParseArgs, Loading
  <2>2. UNCHANGED <<regions, mem, load>>
    BY <1>1, ParsedTo DEF userVars, execVars
  <2>3. phase' \in {"exited", "boot_kernel", "run_file"}
    BY <1>1, ParsedTo
  <2>4. phase' \in {"run_file", "memory", "elf", "run_done", "exited"} \cup BootPhases
    BY <2>3 DEF BootPhases
  <2> QED BY <2>1, <2>2, <2>4, IdleLoads
<1>2. CASE RunStep
  <2>1. UserNext
    BY <1>2 DEF RunStep
  <2>2. CASE ReadFile("run_file", "image", Image.size, "memory", "run_done")
               /\ UNCHANGED userVars
    <3>1. phase = "run_file" /\ phase' \in {"run_file", "memory", "run_done"}
      BY <2>2 DEF ReadFile, OpenFile, ReadChunk, CloseFile
    <3> QED BY <2>2, <3>1, IdleLoads DEF Loading, userVars, execVars
  <2>3. CASE phase = "memory" /\ AllocThen({"table"}, "elf", "run_done") /\ UNCHANGED userVars
    BY <2>3, IdleLoads DEF Loading, AllocThen, userVars, execVars
  <2>4. CASE phase \in {"elf", "stack", "cpu", "exec", "run_done"}
    <3>1. ElfFile(prog)
      BY <2>4 DEF Control, RunPhases
    <3>2. CASE CheckHeader \/ CheckSegments
      BY <3>1, <3>2, CheckLoads
    <3>3. CASE MapSegment
      BY <3>1, <3>3, MapSegmentLoads
    <3>4. CASE Loaded
      BY <3>1, <3>4, LoadedLoads
    <3>5. CASE MapStack
      BY <3>1, <3>5, MapStackLoads
    <3>6. CASE CpuInit \/ RunGuest
      BY <3>6, RunLoads
    <3>7. CASE RunDone
      <4>1. /\ UNCHANGED <<prog, regions, mem, load>> /\ phase' = "exited"
        BY <3>7 DEF RunDone, userVars, execVars, guestVars
      <4>2. Segments' = Segments
        BY <4>1, ImageStable
      <4>3. ValidateThenCommit'
        BY <4>1, <4>2 DEF Loading, ValidateThenCommit
      <4>4. phase' \notin {"main", "run_file", "memory", "elf", "stack", "cpu", "exec"}
                            \cup BootPhases
        BY <4>1 DEF BootPhases
      <4> QED BY <4>1, <4>3, <4>4 DEF Loading
    <3> QED BY <2>1, <2>2, <2>3, <3>2, <3>3, <3>4, <3>5, <3>6, <3>7 DEF UserNext
  <2> QED
    BY <2>1, <2>2, <2>3, <2>4
    DEF UserNext, CheckHeader, CheckSegments, MapSegment, Loaded, MapStack, CpuInit, RunGuest,
        RunDone
<1>3. CASE BootStep
  <2>1. BootNext /\ UNCHANGED userVars
    BY <1>3 DEF BootStep
  <2>2. phase \in BootPhases
    BY <2>1 DEF BootNext, ReadFile, OpenFile, ReadChunk, CloseFile, TreeScratch, BuildTree,
       LoadDtb, PatchTree, CheckKernel, OpenSerial, MachineInit, AttachDevices, PlaceKernel,
       PlaceTree, PlaceInitrd, VcpuInit, BootPhases
  <2>3. Idle /\ phase' \in BootPhases \cup {"exited"}
    BY <2>1, <2>2, BootFrame DEF Control, Loading
  <2> QED BY <2>1, <2>3, IdleLoads DEF userVars, execVars
<1>4. CASE Exited \/ UNCHANGED vars
  <2>1. UNCHANGED <<prog, regions, mem, load, bufs, phase>>
    BY <1>4 DEF Exited, vars, hostVars, userVars, execVars, guestVars
  <2> QED BY <2>1, LoadingStable
<1> QED BY <1>1, <1>2, <1>3, <1>4 DEF Next

-----------------------------------------------------------------------------
(* Who owns which block.                                                   *)

\* The blocks run() may hold: those its cleanup frees, and the segment array
\* while oemu_elf_load is at work.
RunOwners ==
  MemoryBlocks \cup {"image"}
    \cup (IF phase = "elf" /\ load.status # "none" THEN {"segs"} ELSE {})

\* The blocks boot() may hold: those its cleanup frees, and the file's buffer
\* while dtb_load is at work.
BootOwners ==
  {"serial", "table", "ram", "image"} \cup TreeOwner \cup InitrdOwner
    \cup (IF phase \in {"boot_dtb", "boot_copy", "boot_unread"} THEN {"file"} ELSE {})

Owned ==
  /\ phase \in {"main", "exited"} => heap = {}
  /\ phase \in RunPhases => heap \subseteq RunOwners
  /\ phase \in BootPhases => heap \subseteq BootOwners

LEMMA RunStores ==
  ASSUME Control, Storage, Owned, Loading, RunStep
  PROVE  Storage' /\ Owned'
<1>0. UserNext /\ phase \in RunPhases /\ phase' \in RunPhases \cup {"exited"}
  <2>1. UserNext
    BY DEF RunStep
  <2>2. phase \in RunPhases
    BY <2>1 DEF UserNext, ReadFile, OpenFile, ReadChunk, CloseFile, CheckHeader, CheckSegments,
       MapSegment, Loaded, MapStack, CpuInit, RunGuest, RunDone, RunPhases
  <2> QED BY <2>1, <2>2, UserFrame
<1>1. ElfFile(prog) /\ heap \subseteq RunOwners
  BY <1>0 DEF Control, Owned
<1>2. /\ phase' \in {"exited"} \cup RunPhases
      /\ phase' \in RunPhases => phase' \notin BootPhases /\ phase' \notin {"main", "exited"}
      /\ "exited" \notin BootPhases \cup RunPhases
  BY <1>0, PhasesApart
<1>3. ASSUME Storage', phase' \in RunPhases, heap' \subseteq RunOwners'
      PROVE  Storage' /\ Owned'
  BY <1>2, <1>3 DEF Owned
<1>4. CASE ReadFile("run_file", "image", Image.size, "memory", "run_done") /\ UNCHANGED userVars
  <2>1. /\ Storage' /\ heap' \subseteq heap \cup {"image"}
        /\ phase = "run_file" /\ phase' \in {"run_file", "memory", "run_done"}
    BY <1>1, <1>4, ReadFileStores, SegmentsTyped DEF Buffers
  <2>2. heap' \subseteq RunOwners'
    BY <1>1, <2>1 DEF RunOwners
  <2>3. phase' \in RunPhases
    BY <2>1 DEF RunPhases
  <2> QED BY <1>3, <2>1, <2>2, <2>3
<1>5. CASE phase = "memory" /\ AllocThen({"table"}, "elf", "run_done") /\ UNCHANGED userVars
  <2>1. Storage'
    BY <1>5 DEF AllocThen, Allocated, Storage
  <2>2. heap' \subseteq RunOwners' /\ phase' \in RunPhases
    BY <1>1, <1>5 DEF AllocThen, Allocated, RunOwners, MemoryBlocks, RunPhases
  <2> QED BY <1>3, <2>1, <2>2
<1>6. CASE CheckHeader
  <2>1. /\ phase = "elf" /\ load.status = "none" /\ load \in LoadType
    BY <1>6 DEF CheckHeader, Loading
  <2>2. CASE Goto("run_done")
    BY <1>1, <1>3, <2>1, <2>2 DEF Goto, Storage, RunOwners, RunPhases
  <2>3. CASE /\ LoadFails("checked") /\ Allocated({"segs"})
             /\ UNCHANGED <<phase, exit, faults, bufs, left>>
    <3>1. load'.status = "checked"
      BY <2>1, <2>3 DEF LoadFails, LoadType
    <3>2. heap' \subseteq RunOwners' /\ phase' \in RunPhases
      BY <1>1, <2>1, <2>3, <3>1 DEF Allocated, RunOwners, RunPhases
    <3>3. Storage'
      BY <2>3 DEF Allocated, Storage
    <3> QED BY <1>3, <3>2, <3>3
  <2> QED BY <1>6, <2>2, <2>3 DEF CheckHeader
<1>7. ASSUME phase = "elf", Freed({"segs"}), phase' \in {"run_done", "stack"},
             UNCHANGED <<bufs, left>>
      PROVE  Storage' /\ Owned'
  <2>1. heap' = heap \ {"segs"} /\ heap' = ptr' /\ faults' = faults
    BY <1>7, FreedOnce
  <2>2. heap' \subseteq RunOwners' /\ phase' \in RunPhases
    BY <1>1, <1>7, <2>1 DEF RunOwners, RunPhases
  <2>3. Storage'
    BY <1>7, <2>1 DEF Storage
  <2> QED BY <1>3, <2>2, <2>3
<1>8. CASE CheckSegments
  <2>1. CASE LoadFails("mapping") /\ UNCHANGED hostVars
    <3>1. phase = "elf" /\ load'.status = "mapping" /\ load.status = "checked"
      BY <1>8, <2>1 DEF CheckSegments, LoadFails, Loading, LoadType
    <3>2. heap' \subseteq RunOwners' /\ phase' \in RunPhases /\ Storage'
      BY <1>1, <2>1, <3>1 DEF hostVars, RunOwners, RunPhases, Storage
    <3> QED BY <1>3, <3>2
  <2> QED BY <1>7, <1>8, <2>1 DEF CheckSegments
<1>9. CASE MapSegment
  <2> DEFINE block == SegmentBlock[load.mapped + 1]
  <2>1. CASE Freed({"segs"}) /\ phase' = "run_done" /\ UNCHANGED <<bufs, left>>
    BY <1>7, <1>9, <2>1 DEF MapSegment
  <2>2. CASE /\ Allocated({block}) /\ UNCHANGED <<phase, exit, faults, bufs, left>>
             /\ load' = [load EXCEPT !.mapped = @ + 1,
                                     !.max = MaxOf(@, Plus(Segment.vaddr, Segment.memsz))]
    <3>1. phase = "elf" /\ load.status = "mapping" /\ load'.status = load.status
      BY <1>9, <2>2 DEF MapSegment, Loading, LoadType
    <3>2. block \in Range(SegmentBlock)
      <4>1. load.mapped + 1 \in 1 .. Len(SegmentBlock)
        <5>1. /\ load.mapped \in 0 .. Len(Segments) /\ load.mapped < Len(Segments)
              /\ Len(Segments) \in 1 .. RegionCapacity
          BY <1>9, <3>1 DEF MapSegment, Loading, InElf, Mapping, Validated, Idle
        <5> QED BY <5>1, UserAssumption
      <4> QED BY <4>1, UserAssumption DEF Range
    <3> HIDE DEF block
    <3>3. heap' \subseteq RunOwners' /\ phase' \in RunPhases
      BY <1>1, <2>2, <3>1, <3>2 DEF Allocated, RunOwners, RunPhases, MemoryBlocks
    <3>4. Storage'
      BY <2>2 DEF Allocated, Storage
    <3> QED BY <1>3, <3>3, <3>4
  <2> QED BY <1>9, <2>1, <2>2 DEF MapSegment
<1>10. CASE Loaded
  BY <1>7, <1>10 DEF Loaded
<1>11. CASE MapStack
  <2>1. phase = "stack"
    BY <1>11 DEF MapStack
  <2>2. CASE Goto("run_done")
    BY <1>1, <1>3, <2>1, <2>2 DEF Goto, Storage, RunOwners, RunPhases
  <2>3. CASE Allocated({"stack"}) /\ phase' = "cpu" /\ UNCHANGED <<exit, faults, bufs, left>>
    <3>1. heap' \subseteq RunOwners' /\ phase' \in RunPhases
      BY <1>1, <2>1, <2>3 DEF Allocated, RunOwners, RunPhases, MemoryBlocks
    <3>2. Storage'
      BY <2>3 DEF Allocated, Storage
    <3> QED BY <1>3, <3>1, <3>2
  <2> QED BY <1>11, <2>2, <2>3 DEF MapStack
<1>12. CASE CpuInit \/ RunGuest
  <2>1. /\ phase \in {"cpu", "exec"} /\ phase' \in {"exec", "run_done"}
        /\ UNCHANGED <<heap, ptr, faults, bufs, left>>
    BY <1>12 DEF CpuInit, RunGuest, Goto, hostVars
  <2>2. heap' \subseteq RunOwners' /\ phase' \in RunPhases /\ Storage'
    BY <1>1, <2>1 DEF RunOwners, RunPhases, Storage
  <2> QED BY <1>3, <2>2
<1>13. CASE RunDone
  <2>1. phase = "run_done" /\ phase' = "exited" /\ left' = left
    BY <1>13 DEF RunDone
  <2>2. /\ heap' = heap \ (MemoryBlocks \cup {"image"}) /\ heap' = ptr' /\ faults' = faults
    <3>1. Freed(MemoryBlocks \cup {"image"})
      BY <1>13 DEF RunDone
    <3> QED BY <3>1, FreedOnce
  <2>3. heap' = {}
    BY <1>1, <2>1, <2>2 DEF RunOwners
  <2>4. bufs' \in [Buffers -> BufferType]
    BY <1>13, ClearedTyped DEF RunDone
  <2>5. Storage'
    BY <2>1, <2>2, <2>4 DEF Storage
  <2> QED BY <1>2, <2>1, <2>3, <2>5 DEF Owned
<1> QED
  BY <1>0, <1>4, <1>5, <1>6, <1>8, <1>9, <1>10, <1>11, <1>12, <1>13 DEF UserNext

LEMMA BootStores ==
  ASSUME Control, Storage, Owned, BootStep
  PROVE  Storage' /\ Owned'
<1>0. BootNext /\ phase \in BootPhases
  <2>1. BootNext
    BY DEF BootStep
  <2> QED
    BY <2>1 DEF BootNext, ReadFile, OpenFile, ReadChunk, CloseFile, TreeScratch, BuildTree,
       LoadDtb, PatchTree, CheckKernel, OpenSerial, MachineInit, AttachDevices, PlaceKernel,
       PlaceTree, PlaceInitrd, VcpuInit, BootPhases
<1>1. /\ phase' \in BootPhases \cup {"exited"} /\ opts' = opts
      /\ heap \subseteq BootOwners /\ BootOptions(opts) /\ Branched
  BY <1>0, BootFrame DEF Control, Owned
<1>2. /\ TreeOwner' = TreeOwner /\ InitrdOwner' = InitrdOwner
  BY <1>1 DEF TreeOwner, InitrdOwner, Generated, HaveInitrd
<1>3. ASSUME Storage', phase' \in BootPhases, heap' \subseteq BootOwners'
      PROVE  Storage' /\ Owned'
  <2>1. phase' \notin RunPhases /\ phase' \notin {"main", "exited"}
    BY <1>3, PhasesApart
  <2> QED BY <1>3, <2>1 DEF Owned
<1> DEFINE reading == {"boot_dtb", "boot_copy", "boot_unread"}
\* Most steps leave the heap alone, and end no dtb_load.
<1>4. ASSUME UNCHANGED <<heap, ptr, bufs, left>>, phase \notin reading,
             phase' \in BootPhases
      PROVE  Storage' /\ Owned'
  <2>1. heap' \subseteq BootOwners'
    BY <1>1, <1>2, <1>4 DEF BootOwners
  <2>2. Storage'
    BY <1>4 DEF Storage
  <2> QED BY <1>3, <1>4, <2>1, <2>2
\* A step that adds what the cleanup frees.
<1>5. ASSUME NEW os, os \subseteq {"serial", "table", "ram", "image"} \cup TreeOwner \cup InitrdOwner,
             Allocated(os), UNCHANGED <<faults, bufs, left>>, phase \notin reading,
             phase' \in BootPhases
      PROVE  Storage' /\ Owned'
  <2>1. heap' \subseteq BootOwners'
    BY <1>1, <1>2, <1>5 DEF BootOwners, Allocated
  <2>2. Storage'
    BY <1>5 DEF Storage, Allocated
  <2> QED BY <1>3, <1>5, <2>1, <2>2
<1>6. CASE ReadFile("boot_kernel", "image", Kernel(opts.kernel).size, "boot_initrd", "boot_done")
             /\ Stay
  <2>1. /\ Storage' /\ heap' \subseteq heap \cup {"image"}
        /\ phase = "boot_kernel" /\ phase' \in {"boot_kernel", "boot_initrd", "boot_done"}
    BY <1>1, <1>6, ReadFileStores DEF Buffers, BootOptions, KernelFile
  <2>2. heap' \subseteq BootOwners' /\ phase' \in BootPhases
    BY <1>1, <1>2, <2>1 DEF BootOwners, BootPhases
  <2> QED BY <1>3, <2>1, <2>2
<1>7. CASE IF HaveInitrd
           THEN ReadFile("boot_initrd", "initrd", Initrd(opts.initrd), "boot_tree", "boot_done")
                  /\ Stay
           ELSE phase = "boot_initrd" /\ Goto("boot_tree") /\ Stay
  <2>1. CASE HaveInitrd
    <3>0. Initrd(opts.initrd) \in Nat
      BY <1>1, <2>1 DEF BootOptions, HaveInitrd
    <3>1. /\ Storage' /\ heap' \subseteq heap \cup {"initrd"}
          /\ phase = "boot_initrd" /\ phase' \in {"boot_initrd", "boot_tree", "boot_done"}
      BY <1>7, <2>1, <3>0, ReadFileStores DEF Buffers
    <3>2. heap' \subseteq BootOwners' /\ phase' \in BootPhases
      BY <1>1, <1>2, <2>1, <3>1 DEF BootOwners, BootPhases, InitrdOwner
    <3> QED BY <1>3, <3>1, <3>2
  <2>2. CASE ~HaveInitrd
    BY <1>4, <1>7, <2>2 DEF Goto, BootPhases
  <2> QED BY <2>1, <2>2
<1>8. CASE phase = "boot_tree" /\ ~Generated /\ Goto("boot_dtb") /\ Stay
  BY <1>4, <1>8 DEF Goto, BootPhases
<1>9. CASE TreeScratch
  <2>1. /\ phase = "boot_tree" /\ Generated /\ phase' \in {"boot_build", "boot_done"}
        /\ Allocated({"sb"}) \/ UNCHANGED <<heap, ptr>>
        /\ UNCHANGED <<faults, bufs, left>>
    BY <1>9 DEF TreeScratch, AllocThen
  <2>2. {"sb"} \subseteq TreeOwner
    BY <2>1 DEF TreeOwner
  <2>3. phase \notin reading /\ phase' \in BootPhases
    BY <2>1 DEF BootPhases
  <2> QED BY <1>4, <1>5, <2>1, <2>2, <2>3
<1>10. CASE BuildTree
  <2>1. CASE Goto("boot_done")
    BY <1>4, <1>10, <2>1 DEF BuildTree, Goto, BootPhases
  <2>2. CASE /\ heap' = (heap \ {"sb"}) \cup {"data"} /\ ptr' = (ptr \ {"sb"}) \cup {"data"}
             /\ phase' = "boot_header" /\ UNCHANGED <<exit, faults, bufs, left>>
    <3>1. Generated /\ phase = "boot_build"
      BY <1>1, <1>10 DEF BuildTree, Branched
    <3>2. heap' \subseteq BootOwners' /\ phase' \in BootPhases
      BY <1>1, <1>2, <2>2, <3>1 DEF BootOwners, BootPhases, TreeOwner
    <3>3. Storage'
      BY <2>2 DEF Storage
    <3> QED BY <1>3, <3>2, <3>3
  <2> QED BY <1>10, <2>1, <2>2 DEF BuildTree
<1>11. CASE LoadDtb
  <2>1. CASE ReadFile("boot_dtb", "file", Dtb(opts.dtb).size, "boot_copy", "boot_unread") /\ Stay
    <3>0. Dtb(opts.dtb).size \in Nat
      <4>1. phase = "boot_dtb"
        BY <2>1 DEF ReadFile, OpenFile, ReadChunk, CloseFile
      <4> QED BY <1>1, <4>1 DEF BootOptions, Branched, Generated, TreeFile
    <3>1. /\ Storage' /\ heap' \subseteq heap \cup {"file"}
          /\ phase = "boot_dtb" /\ phase' \in {"boot_dtb", "boot_copy", "boot_unread"}
      BY <2>1, <3>0, ReadFileStores DEF Buffers
    <3>2. heap' \subseteq BootOwners' /\ phase' \in BootPhases
      BY <1>1, <1>2, <3>1 DEF BootOwners, BootPhases
    <3> QED BY <1>3, <3>1, <3>2
  <2>2. CASE Freed({"file"}) /\ BufferCleared({"file"}) /\ phase' = "boot_done" /\ left' = left
    <3>1. heap' = heap \ {"file"} /\ heap' = ptr' /\ faults' = faults
      BY <2>2, FreedOnce
    <3>2. heap' \subseteq BootOwners' /\ phase' \in BootPhases
      BY <1>1, <1>2, <2>2, <3>1 DEF BootOwners, BootPhases
    <3>3. Storage'
      BY <2>2, <3>1, ClearedTyped DEF Storage
    <3> QED BY <1>3, <3>2, <3>3
  <2>3. CASE /\ phase = "boot_copy"
             /\ heap' = (heap \ {"file"}) \cup {"dtb"} /\ ptr' = (ptr \ {"file"}) \cup {"dtb"}
             /\ faults' = faults /\ phase' = "boot_patch" /\ BufferCleared({"file"})
             /\ left' = left
    <3>1. ~Generated
      BY <1>1, <2>3 DEF Branched
    <3>2. heap' \subseteq BootOwners' /\ phase' \in BootPhases
      BY <1>1, <1>2, <2>3, <3>1 DEF BootOwners, BootPhases, TreeOwner
    <3>3. Storage'
      BY <2>3, ClearedTyped DEF Storage
    <3> QED BY <1>3, <3>2, <3>3
  <2> QED BY <1>11, <2>1, <2>2, <2>3 DEF LoadDtb
<1>12. CASE PatchTree
  <2>1. /\ phase = "boot_patch" /\ phase' \in {"boot_done", "boot_header"}
        /\ UNCHANGED <<heap, ptr, bufs, left>>
    BY <1>12 DEF PatchTree
  <2>2. phase \notin reading /\ phase' \in BootPhases
    BY <2>1 DEF BootPhases
  <2> QED BY <1>4, <2>1, <2>2
<1>13. CASE CheckKernel
  BY <1>4, <1>13 DEF CheckKernel, Goto, BootPhases
<1>14. CASE OpenSerial
  <2>1. /\ phase = "boot_serial" /\ phase' \in {"boot_machine", "boot_done"}
        /\ Allocated({"serial"}) \/ UNCHANGED <<heap, ptr>>
        /\ UNCHANGED <<faults, bufs, left>>
    BY <1>14 DEF OpenSerial, AllocThen, Goto
  <2>2. phase \notin reading /\ phase' \in BootPhases
    BY <2>1 DEF BootPhases
  <2> QED BY <1>4, <1>5, <2>1, <2>2
<1>15. CASE MachineInit
  <2>1. /\ phase = "boot_machine" /\ phase' \in {"boot_done", "boot_devices"}
        /\ Allocated({"table", "ram"}) \/ UNCHANGED <<heap, ptr>>
        /\ UNCHANGED <<faults, bufs, left>>
    BY <1>15 DEF MachineInit, Goto
  <2>2. phase \notin reading /\ phase' \in BootPhases
    BY <2>1 DEF BootPhases
  <2> QED BY <1>4, <1>5, <2>1, <2>2
<1>16. CASE AttachDevices
  BY <1>4, <1>16 DEF AttachDevices, Goto, BootPhases
<1>17. CASE PlaceKernel \/ PlaceTree \/ PlaceInitrd
  BY <1>4, <1>17 DEF PlaceKernel, PlaceTree, PlaceInitrd, Goto, BootPhases
<1>18. CASE VcpuInit
  BY <1>4, <1>18 DEF VcpuInit, Goto, BootPhases
<1>19. ASSUME NEW code, phase \in {"boot_run", "boot_done"}, BootDone(code)
       PROVE  Storage' /\ Owned'
  <2> DEFINE os == {"serial", "table", "ram", "image"} \cup TreeOwner \cup InitrdOwner
  <2>1. /\ Freed(os) /\ BufferCleared({"image"} \cup InitrdOwner)
        /\ phase' = "exited" /\ left' = left
    BY <1>19 DEF BootDone
  <2>2. heap' = heap \ os /\ heap' = ptr' /\ faults' = faults
    BY <2>1, FreedOnce
  <2>3. heap' = {}
    BY <1>1, <1>19, <2>2 DEF BootOwners
  <2>4. Storage'
    BY <2>1, <2>2, ClearedTyped DEF Storage
  <2>5. phase' \notin RunPhases \cup BootPhases
    BY <2>1, PhasesApart
  <2> QED BY <2>1, <2>3, <2>4, <2>5 DEF Owned
<1> QED
  BY <1>0, <1>6, <1>7, <1>8, <1>9, <1>10, <1>11, <1>12, <1>13, <1>14, <1>15, <1>16, <1>17,
     <1>18, <1>19
  DEF BootNext

LEMMA StorageStep ==
  ASSUME Control, Storage, Owned, Loading, [Next]_vars
  PROVE  Storage' /\ Owned'
<1>1. CASE ParseArgs
  <2>1. phase = "main" /\ heap = {}
    BY <1>1 DEF ParseArgs, Owned
  <2>2. UNCHANGED <<heap, ptr, faults, bufs, left>>
    BY <1>1, ParsedTo
  <2> QED BY <2>1, <2>2 DEF Storage, Owned
<1>2. CASE Exited \/ UNCHANGED vars
  <2>1. UNCHANGED <<phase, heap, ptr, faults, bufs, left, opts, load>>
    BY <1>2 DEF Exited, vars, hostVars, userVars, bootVars
  <2>2. RunOwners' = RunOwners /\ BootOwners' = BootOwners
    BY <2>1 DEF RunOwners, BootOwners, TreeOwner, InitrdOwner, Generated, HaveInitrd
  <2> QED BY <2>1, <2>2 DEF Storage, Owned
<1> QED BY <1>1, <1>2, RunStores, BootStores DEF Next

-----------------------------------------------------------------------------
(* The machine's table, and what boot() puts in RAM.                       *)
BootRegion ==
  [base : Address, size : Address, perms : SUBSET Perms, kind : {"ram", "device"}]

\* RAM is the only region that the loaders may write.
RamOnly(table, ram) ==
  \A i \in DOMAIN table : table[i].kind = "ram" => table[i].base = RamBase /\ table[i].size = ram

\* attach_device keeps the table sound, and adds no RAM.
LEMMA AttachSound ==
  ASSUME NEW table \in Seq(BootRegion), SoundTable(table), NEW ram, RamOnly(table, ram),
         NEW d \in {Uart, Dist, Cpuif}, AttachArgs(table, BootCapacity, d[1], d[2]) = "OK"
  PROVE  /\ Attach(table, d) \in Seq(BootRegion)
         /\ SoundTable(Attach(table, d))
         /\ RamOnly(Attach(table, d), ram)
<1> DEFINE new == [base |-> d[1], size |-> d[2], perms |-> {"r", "w"}, kind |-> "device"]
<1>1. d[1] \in Address /\ d[2] \in Address /\ BootCapacity \in Nat
  BY BootAssumption
<1>2. MapCommon(table, BootCapacity, d[1], d[2], {"r", "w"}) = "OK"
  BY DEF AttachArgs
<1>3. /\ new \in BootRegion /\ new.base = d[1] /\ new.size = d[2] /\ new.kind # "ram"
  BY <1>1 DEF BootRegion, Perms
<1>4. Attach(table, d) = Append(table, new)
  BY DEF Attach
<1> HIDE DEF new
<1>5. SoundTable(Append(table, new))
  BY <1>1, <1>2, <1>3, MapKeepsSound
<1>6. RamOnly(Append(table, new), ram)
  <2>1. ASSUME NEW i \in DOMAIN Append(table, new)
        PROVE  \/ i \in DOMAIN table /\ Append(table, new)[i] = table[i]
               \/ Append(table, new)[i] = new
    OBVIOUS
  <2> QED BY <1>3, <2>1 DEF RamOnly
<1> QED BY <1>3, <1>4, <1>5, <1>6

\* What find returns serves the access.
LEMMA FindServes ==
  ASSUME NEW table \in Seq(BootRegion), NEW pa, NEW n, NEW perms, Find(table, pa, n, perms) # 0
  PROVE  LET r == Find(table, pa, n, perms)
         IN r \in DOMAIN table /\ Covers(table[r], pa, n) /\ perms \subseteq table[r].perms
<1> DEFINE hits == {i \in DOMAIN table : Covers(table[i], pa, n) /\ perms \subseteq table[i].perms}
           least == CHOOSE i \in hits : \A j \in hits : i <= j
<1>1. hits # {} /\ Find(table, pa, n, perms) = least
  BY DEF Find, First
<1>2. hits \in SUBSET Nat
  OBVIOUS
<1>3. \E i \in hits : \A j \in hits : i <= j
  <2> HIDE DEF hits
  <2> QED BY <1>1, <1>2, LeastNatural
<1>4. least \in hits
  BY <1>3
<1> HIDE DEF least
<1> QED BY <1>1, <1>4

\* The machine's RAM exists, and its content is all there.
MachineReady ==
  /\ opts.ram \in Sizes /\ RamBase + opts.ram <= Top + 1
  /\ RamOnly(machine.regions, opts.ram)
  /\ DOMAIN machine.mem = Bytes(RamBase, opts.ram)

\* A run of byte writes that the bus accepts stays in RAM: it cannot even go
\* round the top of the address space, because no RAM is at address 0.
LEMMA AcceptsInRam ==
  ASSUME machine.regions \in Seq(BootRegion), SoundTable(machine.regions), MachineReady,
         NEW at \in Address, NEW n \in Nat, Accepts(at, 1, n)
  PROVE  \A i \in 0 .. n - 1 : at + i \in DOMAIN machine.mem
<1> USE TopAssumption
<1>1. RamBase \in Address /\ RamBase # 0 /\ 1 \in Sizes
  BY BootAssumption DEF Address, Sizes
<1>2. ASSUME NEW i \in 0 .. n - 1
      PROVE  Plus(at, i) \in Address => Plus(at, i) \in Bytes(RamBase, opts.ram)
  <2> DEFINE pa == Plus(at, i)
             r == Find(machine.regions, pa, 1, {"w"})
  <2> SUFFICES ASSUME pa \in Address PROVE pa \in Bytes(RamBase, opts.ram)
    OBVIOUS
  <2>1. i % 1 = 0
    OBVIOUS
  <2>2. r # 0 /\ machine.regions[r].kind = "ram"
    BY <2>1 DEF Accepts
  <2> HIDE DEF pa
  <2>3. r \in DOMAIN machine.regions /\ Covers(machine.regions[r], pa, 1)
    BY <2>2, FindServes
  <2>4. /\ Exists(machine.regions[r])
        /\ machine.regions[r].base = RamBase /\ machine.regions[r].size = opts.ram
    BY <2>2, <2>3 DEF SoundTable, MachineReady, RamOnly
  <2> HIDE DEF r
  <2>5. RamBase <= pa /\ pa + 1 <= RamBase + opts.ram
    BY <1>1, <2>3, <2>4, CoversExact
  <2> QED BY <1>1, <2>5 DEF Bytes, Address, MachineReady, Sizes
<1>3. ASSUME NEW i \in 0 .. n - 1 PROVE at + i <= Top
  <2> SUFFICES ASSUME at + i > Top PROVE FALSE
    BY DEF Address
  <2> DEFINE j == Top + 1 - at
  <2>1. j \in 0 .. n - 1 /\ Plus(at, j) = 0
    BY DEF Plus, Address
  <2>2. 0 \in Address
    BY DEF Address
  <2> HIDE DEF j
  <2>3. 0 \in Bytes(RamBase, opts.ram)
    BY <1>2, <2>1, <2>2
  <2> QED BY <1>1, <2>3 DEF Bytes, Address
<1>4. ASSUME NEW i \in 0 .. n - 1 PROVE Plus(at, i) = at + i /\ at + i \in Address
  BY <1>3 DEF Plus, Address
<1> QED BY <1>2, <1>4 DEF MachineReady

\* n bytes of a source, from `from' on, are in the memory m from `at' on.
Holds(m, at, n, source, from) ==
  \A i \in 0 .. n - 1 : at + i \in DOMAIN m /\ m[at + i] = <<source, from + i>>

\* What was written is there, ...
LEMMA WrittenHolds ==
  ASSUME NEW m, NEW at \in Nat, NEW n \in Nat, NEW source, NEW from \in Nat, NEW end \in Nat,
         NEW k \in Nat, k <= n, from + k <= end, \A i \in 0 .. k - 1 : at + i \in DOMAIN m
  PROVE  Holds(Written(m, at, n, source, from, end), at, k, source, from)
<1>1. ASSUME NEW i \in 0 .. k - 1
      PROVE  /\ at + i \in DOMAIN Written(m, at, n, source, from, end)
             /\ Written(m, at, n, source, from, end)[at + i] = <<source, from + i>>
  <2> DEFINE a == at + i
  <2>1. /\ a \in DOMAIN m /\ at <= a /\ a < at + n
        /\ from + (a - at) < end /\ from + (a - at) = from + i
    OBVIOUS
  <2> HIDE DEF a
  <2>2. Written(m, at, n, source, from, end)[a] = <<source, from + (a - at)>>
    BY <2>1 DEF Written
  <2>3. a \in DOMAIN Written(m, at, n, source, from, end)
    BY <2>1 DEF Written
  <2> QED BY <2>1, <2>2, <2>3 DEF a
<1> QED BY <1>1 DEF Holds

\* ... and what was not in its way still is.
LEMMA WrittenKeeps ==
  ASSUME NEW m, NEW at \in Nat, NEW n \in Nat, NEW source, NEW from, NEW end,
         NEW b \in Nat, NEW k \in Nat, b + k <= at \/ at + n <= b \/ n = 0,
         NEW other, NEW start, Holds(m, b, k, other, start)
  PROVE  Holds(Written(m, at, n, source, from, end), b, k, other, start)
<1>1. ASSUME NEW i \in 0 .. k - 1
      PROVE  /\ b + i \in DOMAIN Written(m, at, n, source, from, end)
             /\ Written(m, at, n, source, from, end)[b + i] = <<other, start + i>>
  <2> DEFINE a == b + i
  <2>1. ~(at <= a /\ a < at + n)
    OBVIOUS
  <2>2. a \in DOMAIN m /\ m[a] = <<other, start + i>>
    BY DEF Holds
  <2> HIDE DEF a
  <2>3. /\ a \in DOMAIN Written(m, at, n, source, from, end)
        /\ Written(m, at, n, source, from, end)[a] = m[a]
    BY <2>1, <2>2 DEF Written
  <2> QED BY <2>2, <2>3 DEF a
<1> QED BY <1>1 DEF Holds

\* Rounding up to a multiple does not go down.
LEMMA RoundUp ==
  ASSUME NEW n \in Nat, NEW d \in Nat \ {0}
  PROVE  /\ ((n + d - 1) \div d) * d \in Nat
         /\ n <= ((n + d - 1) \div d) * d
<1> DEFINE x == n + d - 1
           q == x \div d
           r == x % d
<1>0. x \in Nat
  OBVIOUS
<1>1. q \in Nat /\ r \in 0 .. d - 1 /\ x = d * q + r
  <2> HIDE DEF x
  <2> QED BY <1>0
<1>2. d * q = q * d /\ q * d \in Nat
  BY <1>1
<1>3. n <= q * d
  <2> HIDE DEF q, r
  <2> QED BY <1>1, <1>2
<1> QED BY <1>2, <1>3

MachineFields == {"regions", "mem", "entry", "initrd", "pc", "sp", "x0"}

\* The fields the two records have, and the machine's table.
Shapes ==
  /\ DOMAIN machine = MachineFields
  /\ {"len", "initrd"} \subseteq DOMAIN tree
  /\ machine.regions \in Seq(BootRegion) /\ SoundTable(machine.regions)

\* Before a tree is ready, it advertises no ramdisk.
TreeUnready == tree.initrd = <<0, 0>> /\ tree.len \in Nat /\ machine.initrd = 0

\* A generated tree advertises the ramdisk where boot_initrd_addr put it; a
\* tree from a file advertises none, and the ramdisk has no address.
TreeReady ==
  /\ tree.len \in Nat
  /\ Generated => tree.len = GeneratedLen
  /\ IF Generated /\ HaveInitrd
     THEN /\ machine.initrd # 0 /\ machine.initrd = InitrdAddr(opts.ram, InitrdLen)
          /\ tree.initrd = <<machine.initrd, machine.initrd + InitrdLen>>
     ELSE tree.initrd = <<0, 0>> /\ machine.initrd = 0

EntryReady ==
  /\ hdr \in Nat
  /\ machine.entry \in Nat /\ machine.entry % 4 = 0
  /\ RamBase <= machine.entry /\ machine.entry < RamBase + opts.ram

KernelPlaced ==
  /\ KernelLen \in Nat /\ KernelLen >= ImageHeader /\ hdr < KernelLen
  /\ KernelLen <= opts.ram \div 2
       => Holds(machine.mem, RamBase + hdr, KernelLen - hdr, "kernel", hdr)

TreePlaced == Holds(machine.mem, DtbAddr, tree.len, "tree", 0)

InitrdPlaced ==
  HaveInitrd => /\ ~Generated => InitrdLen = 0
                /\ Holds(machine.mem, machine.initrd, InitrdLen, "initrd", 0)

CoreReady ==
  /\ machine.pc = machine.entry
  /\ machine.sp = RamBase + opts.ram - StackGap
  /\ machine.x0 = DtbAddr

\* The phases from which each of these holds.
WithCore == {"boot_run"}
WithInitrd == WithCore \cup {"boot_vcpu"}
WithTree == WithInitrd \cup {"place_initrd"}
WithKernel == WithTree \cup {"place_tree"}
WithMachine == WithKernel \cup {"place_kernel", "boot_devices"}
WithEntry == WithMachine \cup {"boot_serial", "boot_machine"}
WithBlob == WithEntry \cup {"boot_header"}
WithoutBlob ==
  {"main", "boot_kernel", "boot_initrd", "boot_tree", "boot_build", "boot_dtb", "boot_unread",
   "boot_copy", "boot_patch"}

Booting ==
  /\ Shapes
  /\ phase \in WithoutBlob => TreeUnready
  /\ phase \in WithBlob => TreeReady
  /\ phase \in WithEntry => EntryReady
  /\ phase \in WithMachine => MachineReady
  /\ phase \in WithKernel => KernelPlaced
  /\ phase \in WithTree => TreePlaced
  /\ phase \in WithInitrd => InitrdPlaced
  /\ phase \in WithCore => CoreReady

\* What depends on nothing that changed.
LEMMA BootFactsStable ==
  ASSUME UNCHANGED bootVars
  PROVE  /\ Shapes => Shapes'
         /\ TreeUnready => TreeUnready'
         /\ EntryReady => EntryReady'
         /\ MachineReady => MachineReady'
         /\ TreePlaced => TreePlaced'
         /\ CoreReady => CoreReady'
         /\ bufs' = bufs => /\ TreeReady => TreeReady'
                            /\ KernelPlaced => KernelPlaced'
                            /\ InitrdPlaced => InitrdPlaced'
<1>1. UNCHANGED <<opts, tree, hdr, machine>>
  BY DEF bootVars
<1>2. Shapes => Shapes'
  BY <1>1 DEF Shapes
<1>3. (TreeUnready => TreeUnready') /\ (EntryReady => EntryReady')
  BY <1>1 DEF TreeUnready, EntryReady
<1>4. MachineReady => MachineReady'
  BY <1>1 DEF MachineReady
<1>5. (TreePlaced => TreePlaced') /\ (CoreReady => CoreReady')
  BY <1>1 DEF TreePlaced, CoreReady, DtbAddr
<1>6. ASSUME bufs' = bufs
      PROVE  /\ TreeReady => TreeReady'
             /\ KernelPlaced => KernelPlaced'
             /\ InitrdPlaced => InitrdPlaced'
  BY <1>1, <1>6 DEF TreeReady, KernelPlaced, InitrdPlaced, Generated, HaveInitrd, InitrdLen,
     KernelLen
<1> QED BY <1>2, <1>3, <1>4, <1>5, <1>6

\* Steps that end boot(), and steps before a tree is ready.
LEMMA BootingEnds ==
  ASSUME Booting, UNCHANGED bootVars, phase' \notin WithoutBlob \cup WithBlob
  PROVE  Booting'
BY BootFactsStable DEF Booting, WithBlob, WithEntry, WithMachine, WithKernel, WithTree,
   WithInitrd, WithCore

LEMMA BootingReads ==
  ASSUME Booting, phase \in WithoutBlob, Shapes', TreeUnready',
         phase' \in WithoutBlob \/ phase' \notin WithBlob
  PROVE  Booting'
<1>1. phase' \notin WithBlob
  BY DEF WithoutBlob, WithBlob, WithEntry, WithMachine, WithKernel, WithTree, WithInitrd, WithCore
<1> QED BY <1>1 DEF Booting, WithBlob, WithEntry, WithMachine, WithKernel, WithTree,
   WithInitrd, WithCore

LEMMA BuildTreeBoots ==
  ASSUME Control, Booting, BuildTree
  PROVE  Booting'
<1>1. phase = "boot_build" /\ TreeUnready /\ Generated /\ Shapes
  BY DEF BuildTree, Booting, WithoutBlob, Control, Branched
<1>2. CASE Goto("boot_done") /\ Stay
  <2>1. phase' \notin WithoutBlob \cup WithBlob
    BY <1>2 DEF Goto, WithoutBlob, WithBlob, WithEntry, WithMachine, WithKernel, WithTree,
       WithInitrd, WithCore
  <2> QED BY <1>2, <2>1, BootingEnds DEF Stay
<1> DEFINE at == IF HaveInitrd THEN InitrdAddr(opts.ram, InitrdLen) ELSE 0
           pair == <<at, IF HaveInitrd THEN at + InitrdLen ELSE 0>>
<1>3. CASE /\ HaveInitrd => at # 0
           /\ tree' = [tree EXCEPT !.len = GeneratedLen, !.initrd = pair]
           /\ machine' = [machine EXCEPT !.initrd = at]
           /\ phase' = "boot_header"
           /\ UNCHANGED <<opts, hdr, bufs>>
  <2> HIDE DEF at, pair
  <2>1. /\ DOMAIN machine' = DOMAIN machine /\ machine'.initrd = at
        /\ machine'.regions = machine.regions
    BY <1>1, <1>3 DEF Shapes, MachineFields
  <2>2. DOMAIN tree' = DOMAIN tree /\ tree'.len = GeneratedLen /\ tree'.initrd = pair
    BY <1>1, <1>3 DEF Shapes
  <2>3. Shapes'
    BY <1>1, <2>1, <2>2 DEF Shapes
  <2>4. (Generated <=> Generated') /\ (HaveInitrd <=> HaveInitrd') /\ InitrdLen' = InitrdLen
    BY <1>3 DEF Generated, HaveInitrd, InitrdLen
  <2>5. TreeReady'
    <3>1. CASE HaveInitrd
      BY <1>1, <1>3, <2>1, <2>2, <2>4, <3>1, BootAssumption DEF TreeReady, at, pair
    <3>2. CASE ~HaveInitrd
      BY <1>1, <1>3, <2>1, <2>2, <2>4, <3>2, BootAssumption DEF TreeReady, at, pair
    <3> QED BY <3>1, <3>2
  <2>6. phase' \notin WithoutBlob \cup WithEntry
    BY <1>3 DEF WithoutBlob, WithEntry, WithMachine, WithKernel, WithTree, WithInitrd, WithCore
  <2> QED BY <2>3, <2>5, <2>6 DEF Booting, WithEntry, WithMachine, WithKernel, WithTree,
         WithInitrd, WithCore
<1> QED BY <1>2, <1>3 DEF BuildTree

LEMMA LoadDtbBoots ==
  ASSUME Storage, Booting, LoadDtb
  PROVE  Booting'
<1>1. /\ phase \in {"boot_dtb", "boot_unread", "boot_copy"} /\ phase \in WithoutBlob
      /\ TreeUnready /\ Shapes
  BY DEF LoadDtb, ReadFile, OpenFile, ReadChunk, CloseFile, Booting, WithoutBlob
<1>2. CASE UNCHANGED bootVars
  <2>1. phase' \in {"boot_dtb", "boot_copy", "boot_unread", "boot_done", "boot_patch"}
    BY DEF LoadDtb, ReadFile, OpenFile, ReadChunk, CloseFile
  <2>2. phase' \in WithoutBlob \/ phase' \notin WithBlob
    BY <2>1 DEF WithoutBlob, WithBlob, WithEntry, WithMachine, WithKernel, WithTree, WithInitrd,
       WithCore
  <2> QED BY <1>1, <1>2, <2>2, BootingReads, BootFactsStable
<1>3. CASE /\ phase' = "boot_patch" /\ tree' = [tree EXCEPT !.len = bufs["file"].len]
           /\ UNCHANGED <<opts, hdr, machine>>
  <2>1. bufs["file"].len \in Nat
    <3>1. bufs["file"] \in BufferType
      BY DEF Storage, Buffers
    <3> QED BY <3>1, HostAssumption DEF BufferType
  <2>2. /\ tree'.len = bufs["file"].len /\ tree'.initrd = tree.initrd
        /\ DOMAIN tree' = DOMAIN tree
    BY <1>1, <1>3 DEF Shapes
  <2>3. Shapes' /\ TreeUnready'
    BY <1>1, <1>3, <2>1, <2>2 DEF Shapes, TreeUnready
  <2>4. phase' \in WithoutBlob
    BY <1>3 DEF WithoutBlob
  <2> QED BY <1>1, <2>3, <2>4, BootingReads
<1>4. CASE phase' = "boot_done" /\ tree' = tree /\ UNCHANGED <<opts, hdr, machine>>
  BY <1>2, <1>4 DEF bootVars
<1> QED BY <1>2, <1>3, <1>4 DEF LoadDtb, Stay

LEMMA PatchTreeBoots ==
  ASSUME Control, Booting, PatchTree
  PROVE  Booting'
<1>1. phase = "boot_patch" /\ TreeUnready /\ Shapes /\ ~Generated
  BY DEF PatchTree, Booting, WithoutBlob, Control, Branched
<1>2. CASE phase' = "boot_done" /\ tree' = tree /\ UNCHANGED <<opts, hdr, machine>>
  <2>1. phase' \notin WithoutBlob \cup WithBlob
    BY <1>2 DEF WithoutBlob, WithBlob, WithEntry, WithMachine, WithKernel, WithTree,
       WithInitrd, WithCore
  <2> QED BY <1>2, <2>1, BootingEnds DEF bootVars
<1>3. ASSUME NEW b, NEW m, phase' = "boot_header", UNCHANGED <<opts, hdr, machine>>,
             tree' = [tree EXCEPT !.bootline = b, !.memory = m]
      PROVE  Booting'
  <2>1. tree'.len = tree.len /\ tree'.initrd = tree.initrd /\ DOMAIN tree' = DOMAIN tree
    BY <1>1, <1>3 DEF Shapes
  <2>2. Shapes'
    BY <1>1, <1>3, <2>1 DEF Shapes
  <2>3. TreeReady'
    BY <1>1, <1>3, <2>1 DEF TreeUnready, TreeReady, Generated
  <2>4. phase' \notin WithoutBlob \cup WithEntry
    BY <1>3 DEF WithoutBlob, WithEntry, WithMachine, WithKernel, WithTree, WithInitrd,
       WithCore
  <2> QED BY <2>2, <2>3, <2>4 DEF Booting, WithEntry, WithMachine, WithKernel, WithTree,
         WithInitrd, WithCore
<1> QED BY <1>2, <1>3 DEF PatchTree

\* The tree's conjunct looks only at the ramdisk's address in the machine.
LEMMA TreeReadyKept ==
  ASSUME TreeReady, UNCHANGED <<opts, tree, bufs>>, machine'.initrd = machine.initrd
  PROVE  TreeReady'
BY DEF TreeReady, Generated, HaveInitrd, InitrdLen

LEMMA CheckKernelBoots ==
  ASSUME Control, Booting, CheckKernel
  PROVE  Booting'
<1>1. /\ phase = "boot_header" /\ TreeReady /\ Shapes /\ BootOptions(opts)
  BY DEF CheckKernel, Booting, WithBlob, Control, BootPhases
<1>2. CASE Goto("boot_done") /\ Stay
  <2>1. phase' \notin WithoutBlob \cup WithBlob
    BY <1>2 DEF Goto, WithoutBlob, WithBlob, WithEntry, WithMachine, WithKernel, WithTree,
       WithInitrd, WithCore
  <2> QED BY <1>2, <2>1, BootingEnds DEF Stay
<1>3. ASSUME NEW h \in ParseHeader(Kernel(opts.kernel)),
             ~(Entry(h.text) % 4 # 0), ~(Entry(h.text) < RamBase),
             ~(Entry(h.text) >= RamBase + opts.ram), Goto("boot_serial"), hdr' = h.text,
             machine' = [machine EXCEPT !.entry = Entry(h.text)], UNCHANGED <<opts, tree>>
      PROVE  Booting'
  <2>1. h.text \in Nat
    <3>1. PageSize \in Nat
      BY BootAssumption
    <3>2. \A t \in 0 .. (TextLimit \div PageSize) - 1 : t * PageSize \in Nat
      BY <3>1
    <3>3. Kernel(opts.kernel).text \in Nat
      BY <1>1 DEF BootOptions, KernelFile
    <3> QED BY <3>2, <3>3 DEF ParseHeader
  <2>2. /\ RamBase \in Nat /\ opts.ram \in Nat /\ opts.entry \in Nat
    BY <1>1, BootAssumption, TopAssumption DEF BootOptions, RamSize, Address
  <2>3. Entry(h.text) \in Nat
    BY <2>1, <2>2 DEF Entry
  <2> DEFINE e == Entry(h.text)
  <2> HIDE DEF e
  <2>4. /\ DOMAIN machine' = DOMAIN machine /\ machine'.entry = e
        /\ machine'.regions = machine.regions /\ machine'.initrd = machine.initrd
    BY <1>1, <1>3 DEF Shapes, MachineFields, e
  <2>5. Shapes' /\ TreeReady'
    BY <1>1, <1>3, <2>4, TreeReadyKept DEF Shapes, Goto
  <2>6. e \in Nat /\ e % 4 = 0 /\ RamBase <= e /\ e < RamBase + opts.ram
    BY <1>3, <2>2, <2>3 DEF e
  <2>7. EntryReady'
    BY <1>3, <2>1, <2>4, <2>6 DEF EntryReady
  <2>8. phase' \notin WithoutBlob \cup WithMachine
    BY <1>3 DEF Goto, WithoutBlob, WithMachine, WithKernel, WithTree, WithInitrd, WithCore
  <2> QED BY <2>5, <2>7, <2>8 DEF Booting, WithMachine, WithKernel, WithTree, WithInitrd, WithCore
<1> QED BY <1>2, <1>3 DEF CheckKernel

LEMMA OpenSerialBoots ==
  ASSUME Booting, OpenSerial
  PROVE  Booting'
<1>1. /\ phase = "boot_serial" /\ phase' \in {"boot_machine", "boot_done"}
      /\ UNCHANGED bootVars /\ bufs' = bufs
  BY DEF OpenSerial, AllocThen, Goto, Stay
<1>2. Shapes /\ TreeReady /\ EntryReady
  BY <1>1 DEF Booting, WithBlob, WithEntry
<1>3. phase' \notin WithoutBlob \cup WithMachine
  BY <1>1 DEF WithoutBlob, WithMachine, WithKernel, WithTree, WithInitrd, WithCore
<1>4. Shapes' /\ TreeReady' /\ EntryReady'
  BY <1>1, <1>2, BootFactsStable
<1> QED BY <1>3, <1>4 DEF Booting, WithMachine, WithKernel, WithTree, WithInitrd, WithCore

LEMMA MachineInitBoots ==
  ASSUME Control, Booting, MachineInit
  PROVE  Booting'
<1>1. /\ phase = "boot_machine" /\ TreeReady /\ EntryReady /\ Shapes /\ BootOptions(opts)
  BY DEF MachineInit, Booting, WithBlob, WithEntry, Control, BootPhases
<1>2. CASE phase' = "boot_done" /\ UNCHANGED bootVars
  <2>1. phase' \notin WithoutBlob \cup WithBlob
    BY <1>2 DEF WithoutBlob, WithBlob, WithEntry, WithMachine, WithKernel, WithTree,
       WithInitrd, WithCore
  <2> QED BY <1>2, <2>1, BootingEnds
<1> DEFINE new == [base |-> RamBase, size |-> opts.ram, perms |-> Perms, kind |-> "ram"]
           zeros == Zeroed(RamBase, opts.ram)
<1>3. CASE /\ MapCommon(<<>>, BootCapacity, RamBase, opts.ram, Perms) = "OK"
           /\ machine' = [machine EXCEPT !.regions = <<new>>, !.mem = zeros]
           /\ phase' = "boot_devices"
           /\ UNCHANGED <<opts, tree, hdr, bufs>>
  <2>1. /\ opts.ram \in Address /\ RamBase \in Address /\ BootCapacity \in Nat
    BY <1>1, BootAssumption DEF BootOptions, RamSize
  <2>2. new \in BootRegion /\ new.base = RamBase /\ new.size = opts.ram
    BY <2>1 DEF BootRegion
  <2>3. DOMAIN zeros = Bytes(RamBase, opts.ram)
    BY DEF Zeroed
  <2> HIDE DEF new, zeros
  <2>4. opts.ram \in Sizes /\ RamBase + opts.ram <= Top + 1
    <3>1. CheckMapArgs(RamBase, opts.ram, Perms) = "OK"
      BY <1>3 DEF MapCommon
    <3> QED BY <2>1, <3>1, TopAssumption DEF CheckMapArgs, Sizes, Address
  <2>5. <<new>> \in Seq(BootRegion) /\ SoundTable(<<new>>)
    <3>1. <<>> \in Seq(BootRegion) /\ SoundTable(<<>>) /\ Append(<<>>, new) = <<new>>
      BY DEF SoundTable
    <3>2. SoundTable(Append(<<>>, new))
      BY <1>3, <2>1, <2>2, <3>1, MapKeepsSound
    <3> QED BY <2>2, <3>1, <3>2
  <2>6. RamOnly(<<new>>, opts.ram)
    BY <2>2 DEF RamOnly
  <2>7. /\ DOMAIN machine' = DOMAIN machine /\ machine'.regions = <<new>> /\ machine'.mem = zeros
        /\ machine'.entry = machine.entry /\ machine'.initrd = machine.initrd
    BY <1>1, <1>3 DEF Shapes, MachineFields
  <2>8. Shapes'
    BY <1>1, <1>3, <2>5, <2>7 DEF Shapes
  <2>9. TreeReady' /\ EntryReady'
    BY <1>1, <1>3, <2>7, TreeReadyKept DEF EntryReady
  <2>10. MachineReady'
    BY <1>3, <2>3, <2>4, <2>6, <2>7 DEF MachineReady
  <2>11. phase' \notin WithoutBlob \cup WithKernel
    BY <1>3 DEF WithoutBlob, WithKernel, WithTree, WithInitrd, WithCore
  <2> QED BY <2>8, <2>9, <2>10, <2>11 DEF Booting, WithKernel, WithTree, WithInitrd, WithCore
<1> QED BY <1>2, <1>3 DEF MachineInit, Goto, Stay

LEMMA AttachDevicesBoots ==
  ASSUME Booting, AttachDevices
  PROVE  Booting'
<1>1. /\ phase = "boot_devices" /\ TreeReady /\ EntryReady /\ MachineReady /\ Shapes
  BY DEF AttachDevices, Booting, WithBlob, WithEntry, WithMachine
<1>2. CASE Goto("boot_done") /\ Stay
  <2>1. phase' \notin WithoutBlob \cup WithBlob
    BY <1>2 DEF Goto, WithoutBlob, WithBlob, WithEntry, WithMachine, WithKernel, WithTree,
       WithInitrd, WithCore
  <2> QED BY <1>2, <2>1, BootingEnds DEF Stay
<1> DEFINE t0 == machine.regions
           t1 == Attach(t0, Uart)
           t2 == Attach(t1, Dist)
           t3 == Attach(t2, Cpuif)
<1>3. CASE /\ AttachArgs(t0, BootCapacity, Uart[1], Uart[2]) = "OK"
           /\ AttachArgs(t1, BootCapacity, Dist[1], Dist[2]) = "OK"
           /\ AttachArgs(t2, BootCapacity, Cpuif[1], Cpuif[2]) = "OK"
           /\ Goto("place_kernel")
           /\ machine' = [machine EXCEPT !.regions = t3]
           /\ UNCHANGED <<opts, tree, hdr>>
  <2>1. t0 \in Seq(BootRegion) /\ SoundTable(t0) /\ RamOnly(t0, opts.ram)
    BY <1>1 DEF Shapes, MachineReady
  <2> HIDE DEF t0
  <2>2. t1 \in Seq(BootRegion) /\ SoundTable(t1) /\ RamOnly(t1, opts.ram)
    BY <1>3, <2>1, AttachSound
  <2> HIDE DEF t1
  <2>3. t2 \in Seq(BootRegion) /\ SoundTable(t2) /\ RamOnly(t2, opts.ram)
    BY <1>3, <2>2, AttachSound
  <2> HIDE DEF t2
  <2>4. t3 \in Seq(BootRegion) /\ SoundTable(t3) /\ RamOnly(t3, opts.ram)
    BY <1>3, <2>3, AttachSound
  <2> HIDE DEF t3
  <2>5. /\ DOMAIN machine' = DOMAIN machine /\ machine'.regions = t3 /\ machine'.mem = machine.mem
        /\ machine'.entry = machine.entry /\ machine'.initrd = machine.initrd
    BY <1>1, <1>3 DEF Shapes, MachineFields
  <2>6. Shapes'
    BY <1>1, <1>3, <2>4, <2>5 DEF Shapes
  <2>7. TreeReady' /\ EntryReady'
    BY <1>1, <1>3, <2>5, TreeReadyKept DEF EntryReady, Goto
  <2>8. MachineReady'
    BY <1>1, <1>3, <2>4, <2>5 DEF MachineReady
  <2>9. phase' \notin WithoutBlob \cup WithKernel
    BY <1>3 DEF Goto, WithoutBlob, WithKernel, WithTree, WithInitrd, WithCore
  <2> QED BY <2>6, <2>7, <2>8, <2>9 DEF Booting, WithKernel, WithTree, WithInitrd, WithCore
<1> QED BY <1>2, <1>3 DEF AttachDevices

\* RAM after a loader's run of writes: nothing else has changed.
Rewrote(m) ==
  /\ machine' = [machine EXCEPT !.mem = m]
  /\ DOMAIN m = DOMAIN machine.mem
  /\ UNCHANGED <<opts, tree, hdr, bufs>>

LEMMA RewroteKeeps ==
  ASSUME Shapes, TreeReady, EntryReady, MachineReady, NEW m, Rewrote(m)
  PROVE  /\ Shapes' /\ TreeReady' /\ EntryReady' /\ MachineReady'
         /\ machine'.mem = m /\ machine'.initrd = machine.initrd
<1>1. /\ DOMAIN machine' = DOMAIN machine /\ machine'.regions = machine.regions
      /\ machine'.mem = m /\ machine'.entry = machine.entry /\ machine'.initrd = machine.initrd
  BY DEF Rewrote, Shapes, MachineFields
<1>2. UNCHANGED <<opts, tree, hdr, bufs>> /\ DOMAIN m = DOMAIN machine.mem
  BY DEF Rewrote
<1>3. Shapes'
  BY <1>1, <1>2 DEF Shapes
<1>4. TreeReady' /\ EntryReady'
  BY <1>1, <1>2, TreeReadyKept DEF EntryReady
<1>5. MachineReady'
  BY <1>1, <1>2 DEF MachineReady
<1> QED BY <1>1, <1>3, <1>4, <1>5

LEMMA WrittenDomain ==
  ASSUME NEW m, NEW at, NEW n, NEW source, NEW from, NEW end
  PROVE  DOMAIN Written(m, at, n, source, from, end) = DOMAIN m
BY DEF Written

\* The numbers the three loaders work with.
LEMMA BootNumbers ==
  ASSUME Storage, BootOptions(opts), MachineReady
  PROVE  /\ KernelLen \in Address /\ InitrdLen \in Address
         /\ RamBase \in Nat \ {0} /\ opts.ram \in Nat \ {0} /\ RamBase + opts.ram <= Top + 1
         /\ opts.ram % 4 = 0 /\ GeneratedLen <= opts.ram \div 4
         /\ DtbAddr \in Address /\ DtbAddr = RamBase + opts.ram \div 2
         /\ DOMAIN machine.mem = Bytes(RamBase, opts.ram)
<1> USE TopAssumption
<1>1. bufs["image"] \in BufferType /\ bufs["initrd"] \in BufferType
  BY DEF Storage, Buffers
<1>2. KernelLen \in Address /\ InitrdLen \in Address
  BY <1>1, UserAssumption, HostAssumption DEF KernelLen, InitrdLen, BufferType, Address
<1>3. RamBase \in Nat \ {0} /\ opts.ram \in Nat \ {0} /\ RamBase + opts.ram <= Top + 1
  <2>1. RamBase \in Address \ {0}
    BY BootAssumption, Zenon
  <2>2. opts.ram \in Address \ {0} /\ RamBase + opts.ram <= Top + 1
    BY Zenon DEF MachineReady, Sizes
  <2> QED BY <2>1, <2>2 DEF Address
<1>4. opts.ram % 4 = 0 /\ GeneratedLen <= opts.ram \div 4
  BY DEF BootOptions, RamSize
<1>5. DtbAddr \in Address
  BY <1>3 DEF DtbAddr, Address
<1> QED BY <1>2, <1>3, <1>4, <1>5 DEF DtbAddr, MachineReady

LEMMA PlaceKernelBoots ==
  ASSUME Control, Storage, Booting, PlaceKernel
  PROVE  Booting'
<1>1. /\ phase = "place_kernel" /\ TreeReady /\ EntryReady /\ MachineReady /\ Shapes
      /\ BootOptions(opts)
  BY DEF PlaceKernel, Booting, WithBlob, WithEntry, WithMachine, Control, BootPhases
<1>2. CASE Goto("boot_done") /\ Stay
  <2>1. phase' \notin WithoutBlob \cup WithBlob
    BY <1>2 DEF Goto, WithoutBlob, WithBlob, WithEntry, WithMachine, WithKernel, WithTree,
       WithInitrd, WithCore
  <2> QED BY <1>2, <2>1, BootingEnds DEF Stay
<1> DEFINE n == KernelLen - hdr
           padded == ((n + DwordBytes - 1) \div DwordBytes) * DwordBytes
           m == Written(machine.mem, RamBase + hdr, padded, "kernel", hdr, KernelLen)
<1>3. CASE /\ ~(KernelLen < ImageHeader) /\ ~(hdr >= KernelLen) /\ ~(KernelLen > opts.ram)
           /\ Goto("place_tree")
           /\ machine' = [machine EXCEPT !.mem = m]
           /\ UNCHANGED <<opts, tree, hdr>>
  <2>1. /\ hdr \in Nat /\ KernelLen \in Nat /\ RamBase \in Nat /\ opts.ram \in Nat
        /\ RamBase + opts.ram <= Top + 1 /\ DOMAIN machine.mem = Bytes(RamBase, opts.ram)
        /\ ImageHeader \in Nat /\ DwordBytes \in Nat \ {0}
    BY <1>1, BootNumbers, BootAssumption, TopAssumption DEF EntryReady, Address
  <2>2. n \in Nat /\ hdr < KernelLen /\ KernelLen <= opts.ram /\ KernelLen >= ImageHeader
    BY <1>3, <2>1
  <2>3. padded \in Nat /\ n <= padded
    <3> HIDE DEF n
    <3> QED BY <2>1, <2>2, RoundUp
  <2>4. ASSUME NEW i \in 0 .. n - 1 PROVE RamBase + hdr + i \in DOMAIN machine.mem
    <3> HIDE DEF padded, m
    <3> QED BY <2>1, <2>2, TopAssumption DEF Bytes, Address
  <2>5. Rewrote(m)
    BY <1>3, WrittenDomain DEF Rewrote, Goto
  <2>6. Holds(m, RamBase + hdr, n, "kernel", hdr)
    <3>1. RamBase + hdr \in Nat /\ hdr + n <= KernelLen
      BY <2>1
    <3> HIDE DEF n, padded
    <3> QED BY <2>1, <2>2, <2>3, <2>4, <3>1, WrittenHolds
  <2> HIDE DEF m
  <2>7. Shapes' /\ TreeReady' /\ EntryReady' /\ MachineReady' /\ machine'.mem = m
    BY <1>1, <2>5, RewroteKeeps
  <2>8. KernelLen' = KernelLen
    BY <1>3 DEF Goto, KernelLen
  <2>9. KernelPlaced'
    BY <1>3, <2>1, <2>2, <2>6, <2>7, <2>8 DEF KernelPlaced
  <2>10. phase' \notin WithoutBlob \cup WithTree
    BY <1>3 DEF Goto, WithoutBlob, WithTree, WithInitrd, WithCore
  <2> QED BY <2>7, <2>9, <2>10 DEF Booting, WithTree, WithInitrd, WithCore
<1> QED BY <1>2, <1>3 DEF PlaceKernel

LEMMA PlaceTreeBoots ==
  ASSUME Control, Storage, Booting, PlaceTree
  PROVE  Booting'
<1>1. /\ phase = "place_tree" /\ TreeReady /\ EntryReady /\ MachineReady /\ Shapes
      /\ BootOptions(opts) /\ KernelPlaced
  BY DEF PlaceTree, Booting, WithBlob, WithEntry, WithMachine, WithKernel, Control, BootPhases
<1>2. CASE Goto("boot_done") /\ Stay
  <2>1. phase' \notin WithoutBlob \cup WithBlob
    BY <1>2 DEF Goto, WithoutBlob, WithBlob, WithEntry, WithMachine, WithKernel, WithTree,
       WithInitrd, WithCore
  <2> QED BY <1>2, <2>1, BootingEnds DEF Stay
<1> DEFINE n == tree.len
           m == Written(machine.mem, DtbAddr, n, "tree", 0, n)
<1>3. CASE /\ Accepts(DtbAddr, 1, n) /\ Goto("place_initrd")
           /\ machine' = [machine EXCEPT !.mem = m]
           /\ UNCHANGED <<opts, tree, hdr>>
  <2>1. /\ n \in Nat /\ DtbAddr \in Address /\ DtbAddr \in Nat /\ hdr \in Nat /\ KernelLen \in Nat
        /\ RamBase \in Nat /\ opts.ram \in Nat /\ DtbAddr = RamBase + opts.ram \div 2
    BY <1>1, BootNumbers, TopAssumption DEF TreeReady, EntryReady, Address
  <2> HIDE DEF n
  <2>2. \A i \in 0 .. n - 1 : DtbAddr + i \in DOMAIN machine.mem
    BY <1>1, <1>3, <2>1, AcceptsInRam DEF Shapes
  <2>3. Rewrote(m)
    BY <1>3, WrittenDomain DEF Rewrote, Goto
  <2>4. Holds(m, DtbAddr, n, "tree", 0)
    <3>1. n <= n /\ 0 + n <= n /\ 0 \in Nat
      BY <2>1
    <3> QED BY <2>1, <2>2, <3>1, WrittenHolds
  <2>5. KernelLen <= opts.ram \div 2 => Holds(m, RamBase + hdr, KernelLen - hdr, "kernel", hdr)
    <3> SUFFICES ASSUME KernelLen <= opts.ram \div 2
                 PROVE  Holds(m, RamBase + hdr, KernelLen - hdr, "kernel", hdr)
      OBVIOUS
    <3> DEFINE b == RamBase + hdr
               k == KernelLen - hdr
    <3>1. b \in Nat /\ k \in Nat /\ b + k <= DtbAddr
      BY <1>1, <2>1 DEF KernelPlaced
    <3>2. Holds(machine.mem, b, k, "kernel", hdr)
      BY <1>1 DEF KernelPlaced
    <3> HIDE DEF b, k
    <3>3. Holds(m, b, k, "kernel", hdr)
      BY <2>1, <3>1, <3>2, WrittenKeeps
    <3> QED BY <3>3 DEF b, k
  <2> HIDE DEF m
  <2>6. Shapes' /\ TreeReady' /\ EntryReady' /\ MachineReady' /\ machine'.mem = m
    BY <1>1, <2>3, RewroteKeeps
  <2>7. KernelLen' = KernelLen /\ DtbAddr' = DtbAddr
    BY <1>3 DEF Goto, KernelLen, DtbAddr
  <2>8. KernelPlaced'
    BY <1>1, <1>3, <2>5, <2>6, <2>7 DEF KernelPlaced
  <2>9. TreePlaced'
    BY <1>3, <2>4, <2>6, <2>7 DEF TreePlaced, n
  <2>10. phase' \notin WithoutBlob \cup WithInitrd
    BY <1>3 DEF Goto, WithoutBlob, WithInitrd, WithCore
  <2> QED BY <2>6, <2>8, <2>9, <2>10 DEF Booting, WithInitrd, WithCore
<1> QED BY <1>2, <1>3 DEF PlaceTree

\* A ramdisk that is placed lies behind the tree and behind a kernel that
\* ends below the tree, and in RAM; or it is empty.
LEMMA InitrdApart ==
  ASSUME Storage, BootOptions(opts), MachineReady, Shapes, TreeReady, HaveInitrd,
         Accepts(machine.initrd, 1, InitrdLen)
  PROVE  /\ machine.initrd \in Address
         /\ \A i \in 0 .. InitrdLen - 1 : machine.initrd + i \in DOMAIN machine.mem
         /\ ~Generated => InitrdLen = 0
         /\ InitrdLen = 0 \/ /\ DtbAddr + tree.len <= machine.initrd
                             /\ RamBase + opts.ram \div 2 <= machine.initrd
<1> USE TopAssumption
<1>1. /\ InitrdLen \in Nat /\ RamBase \in Nat \ {0} /\ opts.ram \in Nat \ {0}
      /\ RamBase + opts.ram <= Top + 1
      /\ opts.ram % 4 = 0 /\ GeneratedLen <= opts.ram \div 4
      /\ DtbAddr = RamBase + opts.ram \div 2 /\ DOMAIN machine.mem = Bytes(RamBase, opts.ram)
  BY BootNumbers DEF Address
<1>2. CASE Generated
  <2>1. /\ machine.initrd # 0 /\ machine.initrd = InitrdAddr(opts.ram, InitrdLen)
        /\ tree.len = GeneratedLen
    BY <1>2 DEF TreeReady
  <2>2. machine.initrd = RamBase + (opts.ram \div 4) * 3
    BY <2>1 DEF InitrdAddr
  <2>3. machine.initrd \in Address
    BY <1>1, <2>2 DEF Address
  <2>4. DtbAddr + GeneratedLen <= RamBase + (opts.ram \div 4) * 3
    <3>1. GeneratedLen \in Nat
      BY BootAssumption
    <3> QED BY <1>1, <3>1
  <2>5. RamBase + opts.ram \div 2 <= RamBase + (opts.ram \div 4) * 3
    BY <1>1
  <2>6. \A i \in 0 .. InitrdLen - 1 : machine.initrd + i \in DOMAIN machine.mem
    BY <1>1, <2>3, AcceptsInRam DEF Shapes
  <2> QED BY <1>2, <2>1, <2>2, <2>3, <2>4, <2>5, <2>6
<1>3. CASE ~Generated
  <2>1. machine.initrd = 0
    BY <1>3 DEF TreeReady
  <2>2. machine.initrd \in Address
    BY <2>1 DEF Address
  <2>3. \A i \in 0 .. InitrdLen - 1 : machine.initrd + i \in DOMAIN machine.mem
    BY <1>1, <2>2, AcceptsInRam DEF Shapes
  <2>4. InitrdLen = 0
    <3> SUFFICES ASSUME InitrdLen # 0 PROVE FALSE
      OBVIOUS
    <3>1. 0 + 0 \in Bytes(RamBase, opts.ram)
      BY <1>1, <2>1, <2>3
    <3> QED BY <1>1, <3>1 DEF Bytes
  <2> QED BY <2>2, <2>3, <2>4
<1> QED BY <1>2, <1>3

LEMMA PlaceInitrdBoots ==
  ASSUME Control, Storage, Booting, PlaceInitrd
  PROVE  Booting'
<1>1. /\ phase = "place_initrd" /\ TreeReady /\ EntryReady /\ MachineReady /\ Shapes
      /\ BootOptions(opts) /\ KernelPlaced /\ TreePlaced
  BY DEF PlaceInitrd, Booting, WithBlob, WithEntry, WithMachine, WithKernel, WithTree, Control,
     BootPhases
<1>2. CASE Goto("boot_done") /\ Stay
  <2>1. phase' \notin WithoutBlob \cup WithBlob
    BY <1>2 DEF Goto, WithoutBlob, WithBlob, WithEntry, WithMachine, WithKernel, WithTree,
       WithInitrd, WithCore
  <2> QED BY <1>2, <2>1, BootingEnds DEF Stay
<1>3. CASE ~HaveInitrd /\ Goto("boot_vcpu") /\ Stay
  <2>1. UNCHANGED bootVars /\ bufs' = bufs /\ phase' = "boot_vcpu"
    BY <1>3 DEF Goto, Stay
  <2>2. /\ Shapes' /\ TreeReady' /\ EntryReady' /\ MachineReady' /\ KernelPlaced' /\ TreePlaced'
    BY <1>1, <2>1, BootFactsStable
  <2>3. InitrdPlaced'
    BY <1>3, <2>1 DEF InitrdPlaced, HaveInitrd, bootVars
  <2>4. phase' \notin WithoutBlob \cup WithCore
    BY <2>1 DEF WithoutBlob, WithCore
  <2> QED BY <2>2, <2>3, <2>4 DEF Booting
<1> DEFINE at == machine.initrd
           n == InitrdLen
           m == Written(machine.mem, at, n, "initrd", 0, n)
<1>4. CASE /\ HaveInitrd /\ Accepts(at, 1, n) /\ Goto("boot_vcpu")
           /\ machine' = [machine EXCEPT !.mem = m]
           /\ UNCHANGED <<opts, tree, hdr>>
  <2>1. /\ n \in Nat /\ DtbAddr \in Nat /\ tree.len \in Nat /\ hdr \in Nat /\ KernelLen \in Nat
        /\ RamBase \in Nat /\ opts.ram \in Nat
    BY <1>1, BootNumbers, TopAssumption DEF TreeReady, EntryReady, Address
  <2>2. /\ at \in Address /\ \A i \in 0 .. n - 1 : at + i \in DOMAIN machine.mem
        /\ ~Generated => n = 0
        /\ n = 0 \/ (DtbAddr + tree.len <= at /\ RamBase + opts.ram \div 2 <= at)
    BY <1>1, <1>4, InitrdApart
  <2> HIDE DEF at, n
  <2>3. at \in Nat
    BY <2>2, TopAssumption DEF Address
  <2>4. Rewrote(m)
    BY <1>4, WrittenDomain DEF Rewrote, Goto
  <2>5. Holds(m, at, n, "initrd", 0)
    <3>1. n <= n /\ 0 + n <= n /\ 0 \in Nat
      BY <2>1
    <3> QED BY <2>1, <2>2, <2>3, <3>1, WrittenHolds
  <2>6. Holds(m, DtbAddr, tree.len, "tree", 0)
    BY <1>1, <2>1, <2>2, <2>3, WrittenKeeps DEF TreePlaced
  <2>7. KernelLen <= opts.ram \div 2 => Holds(m, RamBase + hdr, KernelLen - hdr, "kernel", hdr)
    <3> SUFFICES ASSUME KernelLen <= opts.ram \div 2
                 PROVE  Holds(m, RamBase + hdr, KernelLen - hdr, "kernel", hdr)
      OBVIOUS
    <3> DEFINE b == RamBase + hdr
               k == KernelLen - hdr
    <3>1. b \in Nat /\ k \in Nat /\ (b + k <= at \/ n = 0)
      BY <1>1, <2>1, <2>2, <2>3 DEF KernelPlaced
    <3>2. Holds(machine.mem, b, k, "kernel", hdr)
      BY <1>1 DEF KernelPlaced
    <3> HIDE DEF b, k
    <3>3. Holds(m, b, k, "kernel", hdr)
      BY <2>1, <2>3, <3>1, <3>2, WrittenKeeps
    <3> QED BY <3>3 DEF b, k
  <2> HIDE DEF m
  <2>8. /\ Shapes' /\ TreeReady' /\ EntryReady' /\ MachineReady'
        /\ machine'.mem = m /\ machine'.initrd = machine.initrd
    BY <1>1, <2>4, RewroteKeeps
  <2>9. /\ KernelLen' = KernelLen /\ DtbAddr' = DtbAddr /\ InitrdLen' = InitrdLen
        /\ (Generated' <=> Generated)
    BY <1>4 DEF Goto, KernelLen, InitrdLen, DtbAddr, Generated
  <2>10. KernelPlaced'
    BY <1>1, <1>4, <2>7, <2>8, <2>9 DEF KernelPlaced
  <2>11. TreePlaced'
    BY <1>4, <2>6, <2>8, <2>9 DEF TreePlaced
  <2>12. InitrdPlaced'
    BY <2>2, <2>5, <2>8, <2>9 DEF InitrdPlaced, n, at
  <2>13. phase' \notin WithoutBlob \cup WithCore
    BY <1>4 DEF Goto, WithoutBlob, WithCore
  <2> QED BY <2>8, <2>10, <2>11, <2>12, <2>13 DEF Booting
<1> QED BY <1>2, <1>3, <1>4 DEF PlaceInitrd

LEMMA VcpuInitBoots ==
  ASSUME Booting, VcpuInit
  PROVE  Booting'
<1>1. /\ phase = "boot_vcpu" /\ TreeReady /\ EntryReady /\ MachineReady /\ Shapes
      /\ KernelPlaced /\ TreePlaced /\ InitrdPlaced
  BY DEF VcpuInit, Booting, WithBlob, WithEntry, WithMachine, WithKernel, WithTree, WithInitrd
<1>2. /\ phase' = "boot_run" /\ UNCHANGED <<opts, tree, hdr, bufs>>
  BY DEF VcpuInit, Goto
<1>3. /\ DOMAIN machine' = DOMAIN machine /\ machine'.regions = machine.regions
      /\ machine'.mem = machine.mem /\ machine'.entry = machine.entry
      /\ machine'.initrd = machine.initrd /\ machine'.pc = machine.entry
      /\ machine'.sp = RamBase + opts.ram - StackGap /\ machine'.x0 = DtbAddr
  BY <1>1 DEF VcpuInit, Shapes, MachineFields
<1>4. Shapes' /\ TreeReady' /\ EntryReady' /\ MachineReady'
  BY <1>1, <1>2, <1>3, TreeReadyKept DEF Shapes, EntryReady, MachineReady
<1>5. /\ KernelLen' = KernelLen /\ DtbAddr' = DtbAddr /\ InitrdLen' = InitrdLen
      /\ (Generated' <=> Generated) /\ (HaveInitrd' <=> HaveInitrd)
  BY <1>2 DEF KernelLen, InitrdLen, DtbAddr, Generated, HaveInitrd
<1>6. KernelPlaced' /\ TreePlaced' /\ InitrdPlaced'
  BY <1>1, <1>2, <1>3, <1>5 DEF KernelPlaced, TreePlaced, InitrdPlaced
<1>7. CoreReady'
  BY <1>2, <1>3, <1>5 DEF CoreReady
<1>8. phase' \notin WithoutBlob
  BY <1>2 DEF WithoutBlob
<1> QED BY <1>4, <1>6, <1>7, <1>8 DEF Booting

LEMMA BootingStep ==
  ASSUME Control, Storage, Booting, [Next]_vars
  PROVE  Booting'
<1>1. CASE ParseArgs
  <2>1. phase = "main" /\ UNCHANGED <<tree, hdr, machine>>
    BY <1>1, ParsedTo DEF ParseArgs, bootVars
  <2>2. phase \in WithoutBlob /\ Shapes /\ TreeUnready
    BY <2>1 DEF Booting, WithoutBlob
  <2>3. Shapes' /\ TreeUnready'
    BY <2>1, <2>2 DEF Shapes, TreeUnready
  <2>4. phase' \in {"exited", "boot_kernel", "run_file"}
    BY <1>1, ParsedTo
  <2>5. phase' \in WithoutBlob \/ phase' \notin WithBlob
    BY <2>4 DEF WithoutBlob, WithBlob, WithEntry, WithMachine, WithKernel, WithTree, WithInitrd,
       WithCore
  <2> QED BY <2>2, <2>3, <2>5, BootingReads
<1>2. CASE RunStep
  <2>1. UserNext /\ UNCHANGED bootVars
    BY <1>2 DEF RunStep
  <2>2. phase \in RunPhases
    BY <2>1 DEF UserNext, ReadFile, OpenFile, ReadChunk, CloseFile, CheckHeader, CheckSegments,
       MapSegment, Loaded, MapStack, CpuInit, RunGuest, RunDone, RunPhases
  <2>3. phase' \in RunPhases \cup {"exited"}
    BY <2>1, <2>2, UserFrame
  <2>4. phase' \notin WithoutBlob \cup WithBlob
    BY <2>3 DEF RunPhases, WithoutBlob, WithBlob, WithEntry, WithMachine, WithKernel, WithTree,
       WithInitrd, WithCore
  <2> QED BY <2>1, <2>4, BootingEnds
<1>3. CASE BootStep
  <2>0. BootNext
    BY <1>3 DEF BootStep
  <2>1. ASSUME phase \in {"boot_kernel", "boot_initrd", "boot_tree"}, UNCHANGED bootVars,
               phase' \in {"boot_kernel", "boot_initrd", "boot_tree", "boot_dtb", "boot_build",
                           "boot_done"}
        PROVE  Booting'
    <3>1. phase \in WithoutBlob /\ (phase' \in WithoutBlob \/ phase' \notin WithBlob)
      BY <2>1 DEF WithoutBlob, WithBlob, WithEntry, WithMachine, WithKernel, WithTree, WithInitrd,
         WithCore
    <3>2. Shapes' /\ TreeUnready'
      BY <2>1, <3>1, BootFactsStable DEF Booting
    <3> QED BY <3>1, <3>2, BootingReads
  <2>2. CASE ReadFile("boot_kernel", "image", Kernel(opts.kernel).size, "boot_initrd", "boot_done")
               /\ Stay
    BY <2>1, <2>2 DEF ReadFile, OpenFile, ReadChunk, CloseFile, Stay
  <2>3. CASE IF HaveInitrd
             THEN ReadFile("boot_initrd", "initrd", Initrd(opts.initrd), "boot_tree", "boot_done")
                    /\ Stay
             ELSE phase = "boot_initrd" /\ Goto("boot_tree") /\ Stay
    BY <2>1, <2>3 DEF ReadFile, OpenFile, ReadChunk, CloseFile, Stay, Goto
  <2>4. CASE phase = "boot_tree" /\ ~Generated /\ Goto("boot_dtb") /\ Stay
    BY <2>1, <2>4 DEF Stay, Goto
  <2>5. CASE TreeScratch
    BY <2>1, <2>5 DEF TreeScratch, AllocThen, Stay
  <2>6. ASSUME NEW code, BootDone(code) PROVE Booting'
    <3>1. UNCHANGED bootVars /\ phase' = "exited"
      BY <2>6 DEF BootDone
    <3>2. phase' \notin WithoutBlob \cup WithBlob
      BY <3>1 DEF WithoutBlob, WithBlob, WithEntry, WithMachine, WithKernel, WithTree,
         WithInitrd, WithCore
    <3> QED BY <3>1, <3>2, BootingEnds
  <2> QED
    BY <2>0, <2>2, <2>3, <2>4, <2>5, <2>6, BuildTreeBoots, LoadDtbBoots, PatchTreeBoots,
       CheckKernelBoots, OpenSerialBoots, MachineInitBoots, AttachDevicesBoots, PlaceKernelBoots,
       PlaceTreeBoots, PlaceInitrdBoots, VcpuInitBoots
    DEF BootNext
<1>4. CASE Exited \/ UNCHANGED vars
  <2>1. UNCHANGED bootVars /\ bufs' = bufs /\ phase' = phase
    BY <1>4 DEF Exited, vars, hostVars
  <2> QED BY <2>1, BootFactsStable DEF Booting
<1> QED BY <1>1, <1>2, <1>3, <1>4 DEF Next

-----------------------------------------------------------------------------
(* The two patchers: inside a tree that is whole, a walk reads and writes  *)
(* nothing past the block's end.                                           *)
WalkState(len) ==
  [depth : Int, inside : BOOLEAN, at : Nat, stop : BOOLEAN, ends : SUBSET (0 .. len)]

\* What a token of a whole tree promises.
TokenWithin(tok, len) ==
  /\ tok.len \in Nat /\ tok.pos \in Nat /\ tok.str \in Nat
  /\ tok.t = "PROP" /\ tok.pos <= len => ValueAt(tok) + tok.len <= len /\ tok.str <= len

LEMMA MarksInside ==
  ASSUME NEW len \in Nat, NEW s \in WalkState(len)
  PROVE  /\ Over(s) \in WalkState(len)
         /\ \A ends \in SUBSET (0 .. len) : Touch(s, ends) \in WalkState(len)
         /\ \A i \in Nat : \A end \in 0 .. len : Found(s, i, end) \in WalkState(len)
         /\ \A b \in BOOLEAN : [s EXCEPT !.depth = @ + 1, !.inside = b] \in WalkState(len)
         /\ \A b \in BOOLEAN : [s EXCEPT !.depth = @ - 1, !.inside = b] \in WalkState(len)
         /\ [s EXCEPT !.depth = @ - 1] \in WalkState(len)
<1>1. /\ DOMAIN s = {"depth", "inside", "at", "stop", "ends"} /\ s.depth + 1 \in Int
      /\ s.depth - 1 \in Int /\ s.ends \in SUBSET (0 .. len)
  BY DEF WalkState
<1>2. Over(s) \in WalkState(len)
  BY DEF WalkState, Over
<1>3. ASSUME NEW ends \in SUBSET (0 .. len) PROVE Touch(s, ends) \in WalkState(len)
  <2>1. s.ends \cup ends \in SUBSET (0 .. len)
    BY <1>1
  <2> QED BY <2>1 DEF WalkState, Touch
<1>4. ASSUME NEW i \in Nat, NEW end \in 0 .. len PROVE Found(s, i, end) \in WalkState(len)
  <2>1. s.ends \cup {end} \in SUBSET (0 .. len)
    BY <1>1
  <2> QED BY <2>1 DEF WalkState, Found
<1>5. ASSUME NEW b \in BOOLEAN
      PROVE  /\ [s EXCEPT !.depth = @ + 1, !.inside = b] \in WalkState(len)
             /\ [s EXCEPT !.depth = @ - 1, !.inside = b] \in WalkState(len)
  BY <1>1 DEF WalkState
<1>6. [s EXCEPT !.depth = @ - 1] \in WalkState(len)
  BY <1>1 DEF WalkState
<1> QED BY <1>2, <1>3, <1>4, <1>5, <1>6

LEMMA BootlineInside ==
  ASSUME NEW len \in Nat, NEW s \in WalkState(len), NEW tok, TokenWithin(tok, len), tok.pos <= len,
         NEW i \in Nat
  PROVE  BootlineStep(s, tok, i) \in WalkState(len)
<1> DEFINE sized == tok.len = BootlineLen
           ends == {ValueAt(tok)} \cup (IF sized THEN {tok.str} ELSE {})
<1>1. CASE tok.t = "PROP"
  <2>1. /\ ValueAt(tok) \in 0 .. len /\ tok.str \in 0 .. len /\ tok.pos + TokenBytes \in 0 .. len
        /\ sized => ValueAt(tok) + BootlineLen \in 0 .. len
    BY <1>1, BootAssumption DEF TokenWithin, ValueAt
  <2>2. ends \in SUBSET (0 .. len) /\ {tok.pos + TokenBytes} \in SUBSET (0 .. len)
    BY <2>1
  <2>3. Touch(s, ends) \in WalkState(len) /\ Touch(s, {tok.pos + TokenBytes}) \in WalkState(len)
    <3> HIDE DEF ends
    <3> QED BY <2>2, MarksInside
  <2>4. sized => Found(Touch(s, ends), i, ValueAt(tok) + BootlineLen) \in WalkState(len)
    <3> HIDE DEF ends
    <3> QED BY <2>1, <2>3, MarksInside
  <2>5. \/ BootlineStep(s, tok, i) \in {Touch(s, ends), Touch(s, {tok.pos + TokenBytes})}
        \/ sized /\ BootlineStep(s, tok, i) = Found(Touch(s, ends), i, ValueAt(tok) + BootlineLen)
    <3>1. CASE s.inside
      <4>1. BootlineStep(s, tok, i) = IF sized /\ tok.name = "bootline"
                                      THEN Found(Touch(s, ends), i, ValueAt(tok) + BootlineLen)
                                      ELSE Touch(s, ends)
        BY <1>1, <3>1, Zenon DEF BootlineStep
      <4> QED BY <4>1
    <3>2. CASE ~s.inside
      <4>1. BootlineStep(s, tok, i) = Touch(s, {tok.pos + TokenBytes})
        BY <1>1, <3>2 DEF BootlineStep
      <4> QED BY <4>1
    <3> QED BY <3>1, <3>2
  <2> QED BY <2>3, <2>4, <2>5
<1>2. CASE tok.t # "PROP"
  <2>1. \/ BootlineStep(s, tok, i) \in {Over(s), [s EXCEPT !.depth = @ - 1]}
        \/ \E b \in BOOLEAN : BootlineStep(s, tok, i) = [s EXCEPT !.depth = @ + 1, !.inside = b]
    BY <1>2 DEF BootlineStep
  <2> QED BY <2>1, MarksInside
<1> QED BY <1>1, <1>2

LEMMA MemoryInside ==
  ASSUME NEW len \in Nat, NEW s \in WalkState(len), NEW tok, TokenWithin(tok, len), tok.pos <= len,
         NEW i \in Nat
  PROVE  MemoryStep(s, tok, i) \in WalkState(len)
<1> DEFINE ends == {ValueAt(tok)} \cup (IF s.inside THEN {tok.str} ELSE {})
           pair == 4 * TokenBytes
<1>1. CASE tok.t = "PROP"
  <2>1. /\ ValueAt(tok) \in 0 .. len /\ tok.str \in 0 .. len
        /\ tok.len >= pair => ValueAt(tok) + pair \in 0 .. len
    BY <1>1, BootAssumption DEF TokenWithin, ValueAt
  <2>2. ends \in SUBSET (0 .. len)
    BY <2>1
  <2>3. Touch(s, ends) \in WalkState(len)
    <3> HIDE DEF ends
    <3> QED BY <2>2, MarksInside
  <2>4. tok.len >= pair => Found(Touch(s, ends), i, ValueAt(tok) + pair) \in WalkState(len)
    <3> HIDE DEF ends, pair
    <3> QED BY <2>1, <2>3, MarksInside
  <2>5. \/ MemoryStep(s, tok, i) = Touch(s, ends)
        \/ tok.len >= pair /\ MemoryStep(s, tok, i) = Found(Touch(s, ends), i, ValueAt(tok) + pair)
    BY <1>1 DEF MemoryStep
  <2> QED BY <2>3, <2>4, <2>5
<1>2. CASE tok.t # "PROP"
  <2>1. \/ MemoryStep(s, tok, i) = Over(s)
        \/ \E b \in BOOLEAN : MemoryStep(s, tok, i) \in {[s EXCEPT !.depth = @ + 1, !.inside = b],
                                                       [s EXCEPT !.depth = @ - 1, !.inside = b]}
    BY <1>2 DEF MemoryStep
  <2> QED BY <2>1, MarksInside
<1> QED BY <1>1, <1>2

LEMMA BootlineWalkInside ==
  ASSUME NEW len \in Nat, NEW tokens, Len(tokens) \in Nat, DOMAIN tokens = 1 .. Len(tokens),
         \A i \in DOMAIN tokens : TokenWithin(tokens[i], len)
  PROVE  Walk(tokens, len, BootlineStep) \in WalkState(len)
<1> DEFINE n == Len(tokens)
           S == WalkState(len)
           Turn(s, i) == IF s.stop \/ tokens[i].pos > len THEN Over(s)
                         ELSE BootlineStep(s, tokens[i], i)
           step == [i \in 1 .. n |-> [s \in S |-> Turn(s, i)]]
           Good(w) == w = [i \in 0 .. n |-> IF i = 0 THEN WalkStart ELSE Turn(w[i - 1], i)]
           last == CHOOSE w : Good(w)
<1>1. ASSUME NEW i \in 1 .. n, NEW s \in S PROVE Turn(s, i) \in S
  <2>1. TokenWithin(tokens[i], len) /\ i \in Nat /\ tokens[i].pos \in Nat
    BY DEF TokenWithin
  <2>2. CASE s.stop \/ tokens[i].pos > len
    BY <2>2, MarksInside
  <2>3. CASE ~(s.stop \/ tokens[i].pos > len)
    <3>1. tokens[i].pos <= len
      BY <2>1, <2>3
    <3> QED BY <2>1, <2>3, <3>1, BootlineInside
  <2> QED BY <2>2, <2>3
<1>2. WalkStart \in S
  BY DEF WalkStart, WalkState
<1>3. Walk(tokens, len, BootlineStep) = last[n]
  BY DEF Walk
<1> HIDE DEF S, Turn
<1>4. step \in [1 .. n -> [S -> S]]
  BY <1>1
<1>5. \A i \in 1 .. n : \A s \in S : step[i][s] = Turn(s, i)
  OBVIOUS
<1>6. n \in Nat /\ n \in 0 .. n
  OBVIOUS
<1> HIDE DEF step, last, n
<1>7. PICK f \in [0 .. n -> S] : Follows(f, n, WalkStart, step)
  BY <1>2, <1>4, <1>6, RecursionExists
<1>8. Good(f)
  <2>1. ASSUME NEW i \in 0 .. n, i # 0 PROVE step[i][f[i - 1]] = Turn(f[i - 1], i)
    <3>1. i \in 1 .. n /\ i - 1 \in 0 .. n
      BY <1>6, <2>1
    <3> QED BY <1>5, <3>1
  <2> QED BY <1>7, <2>1 DEF Follows
<1>9. Good(last)
  BY <1>8 DEF last
<1>10. last[0] = WalkStart /\ \A i \in 1 .. n : last[i] = Turn(last[i - 1], i)
  <2>1. \A i \in 0 .. n : last[i] = IF i = 0 THEN WalkStart ELSE Turn(last[i - 1], i)
    BY <1>9
  <2>2. 0 \in 0 .. n /\ \A i \in 1 .. n : i \in 0 .. n /\ i # 0
    BY <1>6
  <2> HIDE DEF Good
  <2> QED BY <2>1, <2>2, Zenon
<1> HIDE DEF Good
<1> DEFINE P == {i \in 0 .. n : last[i] \in S}
<1>11. 0 \in P /\ \A i \in 1 .. n : i - 1 \in P => i \in P
  BY <1>1, <1>2, <1>6, <1>10
<1>12. P \in SUBSET (0 .. n)
  OBVIOUS
<1>13. n \in P
  <2> HIDE DEF P
  <2> QED BY <1>6, <1>11, <1>12, BoundedInduction
<1> QED BY <1>3, <1>13 DEF S

LEMMA MemoryWalkInside ==
  ASSUME NEW len \in Nat, NEW tokens, Len(tokens) \in Nat, DOMAIN tokens = 1 .. Len(tokens),
         \A i \in DOMAIN tokens : TokenWithin(tokens[i], len)
  PROVE  Walk(tokens, len, MemoryStep) \in WalkState(len)
<1> DEFINE n == Len(tokens)
           S == WalkState(len)
           Turn(s, i) == IF s.stop \/ tokens[i].pos > len THEN Over(s)
                         ELSE MemoryStep(s, tokens[i], i)
           step == [i \in 1 .. n |-> [s \in S |-> Turn(s, i)]]
           Good(w) == w = [i \in 0 .. n |-> IF i = 0 THEN WalkStart ELSE Turn(w[i - 1], i)]
           last == CHOOSE w : Good(w)
<1>1. ASSUME NEW i \in 1 .. n, NEW s \in S PROVE Turn(s, i) \in S
  <2>1. TokenWithin(tokens[i], len) /\ i \in Nat /\ tokens[i].pos \in Nat
    BY DEF TokenWithin
  <2>2. CASE s.stop \/ tokens[i].pos > len
    BY <2>2, MarksInside
  <2>3. CASE ~(s.stop \/ tokens[i].pos > len)
    <3>1. tokens[i].pos <= len
      BY <2>1, <2>3
    <3> QED BY <2>1, <2>3, <3>1, MemoryInside
  <2> QED BY <2>2, <2>3
<1>2. WalkStart \in S
  BY DEF WalkStart, WalkState
<1>3. Walk(tokens, len, MemoryStep) = last[n]
  BY DEF Walk
<1> HIDE DEF S, Turn
<1>4. step \in [1 .. n -> [S -> S]]
  BY <1>1
<1>5. \A i \in 1 .. n : \A s \in S : step[i][s] = Turn(s, i)
  OBVIOUS
<1>6. n \in Nat /\ n \in 0 .. n
  OBVIOUS
<1> HIDE DEF step, last, n
<1>7. PICK f \in [0 .. n -> S] : Follows(f, n, WalkStart, step)
  BY <1>2, <1>4, <1>6, RecursionExists
<1>8. Good(f)
  <2>1. ASSUME NEW i \in 0 .. n, i # 0 PROVE step[i][f[i - 1]] = Turn(f[i - 1], i)
    <3>1. i \in 1 .. n /\ i - 1 \in 0 .. n
      BY <1>6, <2>1
    <3> QED BY <1>5, <3>1
  <2> QED BY <1>7, <2>1 DEF Follows
<1>9. Good(last)
  BY <1>8 DEF last
<1>10. last[0] = WalkStart /\ \A i \in 1 .. n : last[i] = Turn(last[i - 1], i)
  <2>1. \A i \in 0 .. n : last[i] = IF i = 0 THEN WalkStart ELSE Turn(last[i - 1], i)
    BY <1>9
  <2>2. 0 \in 0 .. n /\ \A i \in 1 .. n : i \in 0 .. n /\ i # 0
    BY <1>6
  <2> HIDE DEF Good
  <2> QED BY <2>1, <2>2, Zenon
<1> HIDE DEF Good
<1> DEFINE P == {i \in 0 .. n : last[i] \in S}
<1>11. 0 \in P /\ \A i \in 1 .. n : i - 1 \in P => i \in P
  BY <1>1, <1>2, <1>6, <1>10
<1>12. P \in SUBSET (0 .. n)
  OBVIOUS
<1>13. n \in P
  <2> HIDE DEF P
  <2> QED BY <1>6, <1>11, <1>12, BoundedInduction
<1> QED BY <1>3, <1>13 DEF S

\* So a fault is the work of a tree that is not whole, and of PatchTree.
Contained ==
  /\ faults \subseteq Overruns
  /\ phase \in WithoutBlob => faults = {}

LEMMA PatchTreeContained ==
  ASSUME Control, Booting, Contained, PatchTree
  PROVE  Contained'
<1>1. /\ phase = "boot_patch" /\ phase' \in {"boot_done", "boot_header"} /\ opts' = opts
      /\ tree'.len = tree.len /\ tree.len \in Nat /\ faults = {} /\ ~Generated
  BY DEF PatchTree, Booting, Contained, WithoutBlob, TreeUnready, Shapes, Control, Branched
<1>2. TreeFile(opts.dtb) /\ opts.dtb # NoFile
  BY <1>1 DEF Control, BootPhases, BootOptions, Generated
<1> DEFINE tokens == Dtb(opts.dtb).tokens
           len == tree.len
           line == Walk(tokens, len, BootlineStep)
           memory == Walk(tokens, len, MemoryStep)
<1>3. Overruns' = Overruns
  BY <1>1 DEF Overruns
<1>4. CASE Whole(tokens, len)
  <2>1. \A i \in DOMAIN tokens : TokenWithin(tokens[i], len)
    BY <1>2, <1>4 DEF Whole, TokenWithin, TreeFile
  <2>2. line \in WalkState(len) /\ memory \in WalkState(len) /\ WalkStart \in WalkState(len)
    <3>1. Len(tokens) \in Nat /\ DOMAIN tokens = 1 .. Len(tokens) /\ len \in Nat
      BY <1>1, <1>2 DEF TreeFile
    <3>2. WalkStart \in WalkState(len)
      BY DEF WalkStart, WalkState
    <3> HIDE DEF tokens, len
    <3> QED BY <2>1, <3>1, <3>2, BootlineWalkInside, MemoryWalkInside
  <2>3. line.ends \cup memory.ends \cup WalkStart.ends \subseteq 0 .. len
    <3> HIDE DEF line, memory
    <3> QED BY <2>2 DEF WalkState
  <2>4. \A end \in line.ends \cup memory.ends \cup WalkStart.ends : ~(end > len)
    <3> HIDE DEF line, memory
    <3> QED BY <1>1, <2>3
  <2>5. faults' = faults
    <3> DEFINE f == Dtb(opts.dtb)
               invalid == tree.len < DtbMin \/ ~f.magic \/ f.total > tree.len \/ tree.len > DtbMax
               first == IF opts.cmdline = -1 \/ opts.cmdline >= CmdlineMax THEN WalkStart ELSE line
               refused == opts.cmdline # -1 /\ first.at = 0
               reached == IF invalid THEN {} ELSE IF refused THEN first.ends
                          ELSE first.ends \cup memory.ends
    <3>1. faults' = IF \E end \in reached : end > len THEN faults \cup {"dtb"} ELSE faults
      BY Zenon DEF PatchTree
    <3>2. reached \subseteq line.ends \cup memory.ends \cup WalkStart.ends
      <4>1. first.ends \subseteq line.ends \cup WalkStart.ends
        <5> HIDE DEF line
        <5> QED OBVIOUS
      <4> HIDE DEF memory, first
      <4> QED BY <4>1
    <3> HIDE DEF reached, line, memory
    <3> QED BY <2>4, <3>1, <3>2
  <2>6. phase' \notin WithoutBlob
    BY <1>1 DEF WithoutBlob
  <2> QED BY <1>1, <2>5, <2>6 DEF Contained
<1>5. CASE ~Whole(tokens, len)
  <2>1. Overruns' = {"dtb"}
    BY <1>2, <1>3, <1>5 DEF Overruns
  <2>2. faults' \subseteq {"dtb"}
    BY <1>1 DEF PatchTree
  <2>3. phase' \notin WithoutBlob
    BY <1>1 DEF WithoutBlob
  <2> QED BY <2>1, <2>2, <2>3 DEF Contained
<1> QED BY <1>4, <1>5

LEMMA RunContained ==
  ASSUME Control, Storage, RunStep
  PROVE  faults' = faults
<1>1. UserNext
  BY DEF RunStep
<1>2. \A os : Freed(os) => faults' = faults
  BY FreedOnce
<1>3. CASE ReadFile("run_file", "image", Image.size, "memory", "run_done") /\ UNCHANGED userVars
  <2>1. phase = "run_file"
    BY <1>3 DEF ReadFile, OpenFile, ReadChunk, CloseFile
  <2>2. ElfFile(prog)
    BY <2>1 DEF Control, RunPhases
  <2> QED BY <1>3, <2>2, ReadFileStores, SegmentsTyped DEF Buffers
<1>4. CASE CheckHeader
  BY <1>4 DEF CheckHeader, Goto
<1>5. CASE CheckSegments \/ MapSegment \/ Loaded
  BY <1>2, <1>5 DEF CheckSegments, MapSegment, Loaded, hostVars
<1>6. CASE MapStack \/ CpuInit \/ RunGuest
  BY <1>6 DEF MapStack, CpuInit, RunGuest, Goto, hostVars
<1>7. CASE RunDone
  BY <1>2, <1>7 DEF RunDone
<1> QED BY <1>1, <1>3, <1>4, <1>5, <1>6, <1>7 DEF UserNext, AllocThen

LEMMA BootContained ==
  ASSUME Control, Storage, BootStep
  PROVE  PatchTree \/ faults' = faults
<1>1. BootNext
  BY DEF BootStep
<1>2. \A os : Freed(os) => faults' = faults
  BY FreedOnce
<1>3. phase \in BootPhases => BootOptions(opts) /\ Branched
  BY DEF Control
<1>4. CASE ReadFile("boot_kernel", "image", Kernel(opts.kernel).size, "boot_initrd", "boot_done")
             /\ Stay
  <2>1. phase \in BootPhases
    BY <1>4 DEF ReadFile, OpenFile, ReadChunk, CloseFile, BootPhases
  <2> QED BY <1>3, <1>4, <2>1, ReadFileStores DEF Buffers, BootOptions, KernelFile
<1>5. CASE IF HaveInitrd
           THEN ReadFile("boot_initrd", "initrd", Initrd(opts.initrd), "boot_tree", "boot_done")
                  /\ Stay
           ELSE phase = "boot_initrd" /\ Goto("boot_tree") /\ Stay
  <2>1. CASE HaveInitrd
    <3>1. phase \in BootPhases
      BY <1>5, <2>1 DEF ReadFile, OpenFile, ReadChunk, CloseFile, BootPhases
    <3>2. Initrd(opts.initrd) \in Nat
      BY <1>3, <2>1, <3>1 DEF BootOptions, HaveInitrd
    <3> QED BY <1>5, <2>1, <3>2, ReadFileStores DEF Buffers
  <2>2. CASE ~HaveInitrd
    BY <1>5, <2>2 DEF Goto
  <2> QED BY <2>1, <2>2
<1>6. CASE LoadDtb
  <2>1. CASE ReadFile("boot_dtb", "file", Dtb(opts.dtb).size, "boot_copy", "boot_unread") /\ Stay
    <3>1. phase = "boot_dtb"
      BY <2>1 DEF ReadFile, OpenFile, ReadChunk, CloseFile
    <3>2. Dtb(opts.dtb).size \in Nat
      BY <1>3, <3>1 DEF BootOptions, Branched, Generated, TreeFile, BootPhases
    <3> QED BY <2>1, <3>2, ReadFileStores DEF Buffers
  <2> QED BY <1>2, <1>6, <2>1 DEF LoadDtb
<1>7. CASE TreeScratch \/ BuildTree \/ CheckKernel \/ OpenSerial
  BY <1>7 DEF TreeScratch, BuildTree, CheckKernel, OpenSerial, AllocThen, Goto
<1>8. CASE MachineInit \/ AttachDevices \/ PlaceKernel \/ PlaceTree \/ PlaceInitrd \/ VcpuInit
  BY <1>8 DEF MachineInit, AttachDevices, PlaceKernel, PlaceTree, PlaceInitrd, VcpuInit, Goto
<1>9. ASSUME NEW code, BootDone(code) PROVE faults' = faults
  BY <1>2, <1>9 DEF BootDone
<1> QED BY <1>1, <1>4, <1>5, <1>6, <1>7, <1>8, <1>9 DEF BootNext, Goto

LEMMA ContainedStep ==
  ASSUME Control, Storage, Booting, Contained, [Next]_vars
  PROVE  Contained'
\* Past the tree, the options and its length stay.
<1>1. ASSUME faults' = faults, phase' \in WithoutBlob => phase \in WithoutBlob,
             phase \notin WithoutBlob => opts' = opts /\ tree'.len = tree.len
      PROVE  Contained'
  <2>1. CASE phase \in WithoutBlob
    BY <1>1, <2>1 DEF Contained
  <2>2. CASE phase \notin WithoutBlob
    BY <1>1, <2>2 DEF Contained, Overruns
  <2> QED BY <2>1, <2>2
<1>2. CASE ParseArgs
  <2>1. phase \in WithoutBlob /\ faults' = faults
    BY <1>2, ParsedTo DEF ParseArgs, WithoutBlob
  <2> QED BY <1>1, <2>1
<1>3. CASE RunStep
  <2>1. UserNext /\ UNCHANGED bootVars /\ faults' = faults
    BY <1>3, RunContained DEF RunStep
  <2>2. phase \in RunPhases
    BY <2>1 DEF UserNext, ReadFile, OpenFile, ReadChunk, CloseFile, CheckHeader, CheckSegments,
       MapSegment, Loaded, MapStack, CpuInit, RunGuest, RunDone, RunPhases
  <2>3. phase' \in RunPhases \cup {"exited"}
    BY <2>1, <2>2, UserFrame
  <2>4. phase' \notin WithoutBlob
    BY <2>3 DEF RunPhases, WithoutBlob
  <2> QED BY <1>1, <2>1, <2>4 DEF bootVars
<1>4. CASE BootStep /\ ~PatchTree
  <2>1. BootNext /\ faults' = faults
    BY <1>4, BootContained DEF BootStep
  <2>2. CASE phase \in WithoutBlob
    BY <1>1, <2>1, <2>2
  <2>3. CASE phase \notin WithoutBlob
    <3>1. /\ opts' = opts /\ tree' = tree /\ phase' \notin WithoutBlob
      BY <1>4, <2>1, <2>3
      DEF BootNext, ReadFile, OpenFile, ReadChunk, CloseFile, TreeScratch, BuildTree,
          LoadDtb, CheckKernel, OpenSerial, MachineInit, AttachDevices, PlaceKernel,
          PlaceTree, PlaceInitrd, VcpuInit, BootDone, AllocThen, Goto, Stay, bootVars, WithoutBlob
    <3> QED BY <1>1, <2>1, <3>1
  <2> QED BY <2>2, <2>3
<1>5. CASE Exited \/ UNCHANGED vars
  BY <1>1, <1>5 DEF Exited, vars, hostVars, bootVars
<1> QED BY <1>2, <1>3, <1>4, <1>5, PatchTreeContained DEF Next

-----------------------------------------------------------------------------
(* The invariant of the whole process.                                     *)
ProcessInv == Control /\ Storage /\ Owned /\ Loading /\ Booting /\ Contained /\ NoPanic

LEMMA InitEstablishes ==
  ASSUME Init
  PROVE  ProcessInv
<1>1. phase = "main" /\ argv \in CommandLines
  BY DEF Init, HostInit
<1>2. Control
  <2>1. phase \notin RunPhases \cup BootPhases
    BY <1>1, PhasesApart
  <2> QED BY <1>1, <2>1 DEF Control, Init, HostInit, Branched
<1>3. Storage
  <2>1. [len |-> 0, cap |-> 0] \in BufferType
    BY HostAssumption DEF BufferType
  <2> QED BY <2>1 DEF Init, HostInit, Storage
<1>4. Owned
  <2>1. phase \notin RunPhases \cup BootPhases
    BY <1>1, PhasesApart
  <2> QED BY <1>1, <2>1 DEF Owned, Init, HostInit
<1>5. Loading
  <2>1. /\ regions = <<>> /\ mem = <<>>
        /\ load = [status |-> "none", mapped |-> 0, entry |-> 0, max |-> 0]
    BY DEF Init, UserIdle, ExecIdle
  <2>2. load \in LoadType /\ load.status = "none" /\ load.mapped = 0
    BY <2>1, TopAssumption DEF LoadType, Statuses, Address
  <2>3. regions \in Seq(Region) /\ SoundTable(regions)
    BY <2>1 DEF SoundTable
  <2>4. Idle
    BY <2>1, <2>2 DEF Idle
  <2>5. ValidateThenCommit
    BY <2>2 DEF ValidateThenCommit
  <2> QED BY <1>1, <2>2, <2>3, <2>4, <2>5 DEF Loading
<1>6. Booting
  <2>1. machine = NoMachine /\ tree = NoTree
    BY DEF Init, BootIdle
  <2>2. DOMAIN machine = MachineFields /\ machine.regions = <<>> /\ machine.initrd = 0
    BY <2>1 DEF NoMachine, MachineFields
  <2>3. {"len", "initrd"} \subseteq DOMAIN tree /\ tree.initrd = <<0, 0>> /\ tree.len = 0
    BY <2>1 DEF NoTree
  <2>4. Shapes
    BY <2>2, <2>3 DEF Shapes, SoundTable
  <2>5. TreeUnready
    BY <2>2, <2>3 DEF TreeUnready
  <2>6. phase \notin WithBlob
    BY <1>1 DEF WithBlob, WithEntry, WithMachine, WithKernel, WithTree, WithInitrd, WithCore
  <2> QED BY <2>4, <2>5, <2>6 DEF Booting, WithBlob, WithEntry, WithMachine, WithKernel, WithTree,
         WithInitrd, WithCore
<1>7. NoPanic
  BY DEF Init, UserIdle, ExecIdle, NoPanic
<1>8. Contained
  BY DEF Init, HostInit, Contained
<1> QED BY <1>2, <1>3, <1>4, <1>5, <1>6, <1>7, <1>8 DEF ProcessInv

\* Only the executor sets the status, and it never aborts.
LEMMA NoPanicStep ==
  ASSUME Control, NoPanic, [Next]_vars
  PROVE  NoPanic'
<1>1. CASE ParseArgs
  BY <1>1, ParsedTo DEF NoPanic, userVars, execVars
<1>2. CASE RunStep
  <2>1. UserNext
    BY <1>2 DEF RunStep
  <2>2. CASE UNCHANGED status
    BY <2>2 DEF NoPanic
  <2>3. CASE CpuInit
    BY <2>3 DEF CpuInit, StartExec, NoPanic
  <2>4. CASE RunGuest
    BY <2>4, <2>2, ExecRuns DEF RunGuest, Stepped, NoPanic, execVars
  <2> QED BY <2>1, <2>2, <2>3, <2>4 DEF UserNext, CheckHeader, CheckSegments, LoadFails,
         MapSegment, Mapped, Loaded, MapStack, RunDone, userVars, execVars
<1>3. CASE BootStep \/ Exited \/ UNCHANGED vars
  BY <1>3 DEF BootStep, Exited, vars, userVars, execVars, NoPanic
<1> QED BY <1>1, <1>2, <1>3 DEF Next

\* Whatever the command line, the files and what fails: the process moves
\* through its phases with every block owned, only validated segments mapped
\* and only RAM written.
THEOREM ProcessInvariant == Spec => []ProcessInv
<1>1. Init => ProcessInv
  BY InitEstablishes
<1>2. ProcessInv /\ [Next]_vars => ProcessInv'
  <2> SUFFICES ASSUME ProcessInv, [Next]_vars PROVE ProcessInv'
    OBVIOUS
  <2>1. Control /\ Storage /\ Owned /\ Loading /\ Booting /\ Contained /\ NoPanic
    BY DEF ProcessInv
  <2>2. Control'
    BY <2>1, ControlStep
  <2>3. Storage' /\ Owned'
    BY <2>1, StorageStep
  <2>4. Loading'
    BY <2>1, LoadingStep
  <2>5. Booting'
    BY <2>1, BootingStep
  <2>6. NoPanic'
    BY <2>1, NoPanicStep
  <2>7. Contained'
    BY <2>1, ContainedStep
  <2> QED BY <2>2, <2>3, <2>4, <2>5, <2>6, <2>7 DEF ProcessInv
<1> QED BY <1>1, <1>2, PTL DEF Spec

\* No path of run(), boot() or main(), with any allocation or read failing,
\* frees a block twice, reaches past the end of one, or leaves one behind; only
\* a -dtb file whose properties run past its own end makes the patchers overrun
\* its block.
THEOREM HeapIsSound == Spec => []HeapSound
<1>1. ProcessInv => HeapSound
  BY DEF ProcessInv, Control, Storage, Owned, Contained, HeapSound
<1> QED BY <1>1, ProcessInvariant, PTL

\* Both region tables stay sound: guest memory's, through the loader and the
\* stack, and the machine's, through RAM and three devices.
THEOREM TablesSound == Spec => []TableSound
<1>1. ProcessInv => TableSound
  BY DEF ProcessInv, Loading, Booting, Shapes, TableSound
<1> QED BY <1>1, ProcessInvariant, PTL

\* oemu_elf_load maps nothing before every segment is validated.
THEOREM LoaderCommits == Spec => []ValidateThenCommit
<1>1. ProcessInv => ValidateThenCommit
  BY DEF ProcessInv, Loading
<1> QED BY <1>1, ProcessInvariant, PTL

\* No guest program reaches the executor's own assertions.
THEOREM NeverPanics == Spec => []NoPanic
<1>1. ProcessInv => NoPanic
  BY DEF ProcessInv
<1> QED BY <1>1, ProcessInvariant, PTL

\* boot() hands the guest what the protocol promises: the entry point, the
\* tree, the ramdisk, the stack and the kernel, none of them in the way of
\* another.
THEOREM PlacementHolds == Spec => []Placement
<1>1. ProcessInv => Placement
  <2> SUFFICES ASSUME ProcessInv, phase = "boot_run" PROVE Placement
    BY DEF Placement
  <2> USE TopAssumption
  <2> DEFINE ram == Bytes(RamBase, opts.ram)
  <2>1. /\ Storage /\ BootOptions(opts) /\ TreeReady /\ EntryReady /\ MachineReady
        /\ KernelPlaced /\ TreePlaced /\ InitrdPlaced /\ CoreReady
    BY DEF ProcessInv, Control, BootPhases, Booting, WithBlob, WithEntry, WithMachine, WithKernel,
       WithTree, WithInitrd, WithCore
  <2>2. /\ InitrdLen \in Nat /\ RamBase \in Nat \ {0} /\ opts.ram \in Nat \ {0}
        /\ RamBase + opts.ram <= Top + 1 /\ opts.ram % 4 = 0
        /\ DOMAIN machine.mem = ram
    BY <2>1, BootNumbers DEF Address
  <2>3. machine.pc \in ram /\ machine.pc % 4 = 0
    BY <2>1, <2>2 DEF CoreReady, EntryReady, Bytes, Address
  <2>4. ASSUME NEW at, NEW n, NEW source, NEW from, Holds(machine.mem, at, n, source, from)
        PROVE  \A i \in 0 .. n - 1 : at + i \in ram /\ machine.mem[at + i] = <<source, from + i>>
    BY <2>2, <2>4 DEF Holds
  <2>5. Holds(machine.mem, machine.x0, tree.len, "tree", 0)
    BY <2>1 DEF TreePlaced, CoreReady
  <2>6. KernelLen <= opts.ram \div 2
          => Holds(machine.mem, RamBase + hdr, KernelLen - hdr, "kernel", hdr)
    BY <2>1 DEF KernelPlaced
  <2>7. ASSUME HaveInitrd
        PROVE  /\ tree.initrd[2] - tree.initrd[1] = InitrdLen
               /\ Holds(machine.mem, tree.initrd[1], InitrdLen, "initrd", 0)
               /\ tree.initrd[2] < machine.sp
    <3>1. Holds(machine.mem, machine.initrd, InitrdLen, "initrd", 0)
      BY <2>1, <2>7 DEF InitrdPlaced
    <3>2. StackGap \in Nat /\ InitrdMargin \in Nat /\ StackGap < InitrdMargin /\ StackGap < RamBase
      BY BootAssumption
    <3>3. machine.sp = RamBase + opts.ram - StackGap
      BY <2>1 DEF CoreReady
    <3>4. CASE Generated
      <4>1. /\ machine.initrd # 0 /\ machine.initrd = InitrdAddr(opts.ram, InitrdLen)
            /\ tree.initrd = <<machine.initrd, machine.initrd + InitrdLen>>
        BY <2>1, <2>7, <3>4 DEF TreeReady
      <4>2. tree.initrd[1] = machine.initrd /\ tree.initrd[2] = machine.initrd + InitrdLen
        BY <4>1
      <4> DEFINE base == RamBase + (opts.ram \div 4) * 3
      <4>3. base \in Nat
        BY <2>2
      <4> HIDE DEF base
      <4>4. /\ machine.initrd = base
            /\ ~(base + InitrdLen + InitrdMargin > RamBase + opts.ram)
        BY <4>1 DEF InitrdAddr, base
      <4>5. base + InitrdLen < RamBase + opts.ram - StackGap
        BY <2>2, <3>2, <4>3, <4>4
      <4>6. base + InitrdLen - base = InitrdLen
        BY <2>2, <4>3
      <4>7. tree.initrd[2] - tree.initrd[1] = InitrdLen /\ tree.initrd[2] < machine.sp
        <5>1. tree.initrd[1] = base /\ tree.initrd[2] = base + InitrdLen
          BY <4>2, <4>4
        <5> QED BY <2>2, <3>2, <3>3, <4>3, <4>5, <4>6, <5>1
      <4>8. Holds(machine.mem, tree.initrd[1], InitrdLen, "initrd", 0)
        BY <3>1, <4>2
      <4> QED BY <4>7, <4>8
    <3>5. CASE ~Generated
      <4>1. tree.initrd = <<0, 0>> /\ InitrdLen = 0 /\ machine.initrd = 0
        BY <2>1, <2>7, <3>5 DEF TreeReady, InitrdPlaced
      <4>2. tree.initrd[1] = 0 /\ tree.initrd[2] = 0
        BY <4>1
      <4>3. 0 < RamBase + opts.ram - StackGap
        BY <2>2, <3>2
      <4> QED BY <3>1, <3>3, <4>1, <4>2, <4>3
    <3> QED BY <3>4, <3>5
  <2>8. KernelLen >= ImageHeader
    BY <2>1 DEF KernelPlaced
  <2> HIDE DEF ram
  <2> QED BY <2>3, <2>4, <2>5, <2>6, <2>7, <2>8 DEF Placement, ram
<1> QED BY <1>1, ProcessInvariant, PTL

\* memory.c finds the one region a byte belongs to.
LEMMA MemFindOnly ==
  ASSUME regions \in Seq(Region), SoundTable(regions), NEW i \in DOMAIN regions,
         NEW a \in Bytes(regions[i].base, regions[i].size), NEW perms \in SUBSET regions[i].perms
  PROVE  MemFind(regions, a, 1, perms) = i
<1> USE TopAssumption
<1> DEFINE hits == {j \in DOMAIN regions : perms \subseteq regions[j].perms
                                             /\ MemCovers(regions[j], a, 1)}
           least == CHOOSE j \in hits : \A k \in hits : j <= k
<1>1. Exists(regions[i]) /\ a \in Address
  BY DEF SoundTable, Bytes
<1>2. /\ regions[i].base <= a /\ a < regions[i].base + regions[i].size
      /\ regions[i].base \in Address /\ regions[i].size \in Address
  BY <1>1 DEF Bytes, Exists
<1>3. regions[i].base <= a /\ a + 1 <= regions[i].base + regions[i].size /\ 1 \in Sizes
  <2>1. regions[i].size # 0
    BY <1>1 DEF Exists
  <2> QED BY <1>1, <1>2, <2>1 DEF Address, Sizes
<1>4. Covers(regions[i], a, 1) /\ MemCovers(regions[i], a, 1)
  BY <1>1, <1>3, CoversExact
<1>5. i \in hits
  BY <1>4
<1>6. \A j \in hits : j = i
  BY <1>1, <1>3, <1>4, FindUnique
<1>7. i <= i
  OBVIOUS
<1> HIDE DEF hits
<1>8. least = i
  BY <1>5, <1>6, <1>7
<1>9. MemFind(regions, a, 1, perms) = IF hits = {} THEN 0 ELSE least
  BY DEF MemFind, First, hits
<1> QED BY <1>5, <1>8, <1>9

\* The guest starts in exactly its image and a zeroed stack of full size.
THEOREM GuestLoadedExactly == Spec => []LoadedExactly
<1>1. ProcessInv => LoadedExactly
  <2> SUFFICES ASSUME ProcessInv, phase = "cpu" PROVE LoadedExactly
    BY DEF LoadedExactly
  <2> USE TopAssumption
  <2> DEFINE n == Len(Segments)
             stack == Bytes(StackAt, StackSize)
  <2>1. /\ ElfFile(prog) /\ Storage /\ Loading /\ Started /\ Validated
    BY DEF ProcessInv, Control, RunPhases, Loading, Started
  <2>2. ImageLen \in Address /\ StackAt \in Address
    BY <2>1, ImageLength, StackTyped
  <2>3. /\ regions \in Seq(Region) /\ SoundTable(regions)
        /\ n \in Nat /\ DOMAIN Segments = 1 .. n
        /\ DOMAIN regions = 1 .. n + 1
    BY <2>1, SegmentsTyped DEF Loading, Started
  <2>4. ASSUME NEW i \in DOMAIN Segments, NEW a \in SegmentBytes(i)
        PROVE  LET o == Segments[i].offset + (a - Segments[i].vaddr)
                   r == MemFind(regions, a, 1, {})
               IN /\ r # 0 /\ regions[r].perms = Segments[i].flags
                  /\ IF a - Segments[i].vaddr < Segments[i].filesz
                     THEN o < ImageLen /\ mem[a] = FileByte(o)
                     ELSE mem[a] = 0
    <3>1. i \in DOMAIN regions /\ i \in 1 .. n /\ i # 0
      BY <2>3
    <3>2. /\ regions[i].base = Segments[i].vaddr /\ regions[i].size = Segments[i].memsz
          /\ regions[i].perms = Segments[i].flags
      BY <2>1, <3>1 DEF Started, Layout
    <3>3. MemFind(regions, a, 1, {}) = i
      BY <2>3, <3>1, <3>2, MemFindOnly DEF SegmentBytes
    <3>4. mem[a] = SegmentByte(i, a)
      BY <2>1, <3>1 DEF Started, Filled
    <3> DEFINE ph == Segments[i]
    <3>5. /\ ph.vaddr \in Address /\ ph.offset \in Address /\ ph.filesz \in Address
          /\ ph.offset + ph.filesz <= ImageLen
      BY <2>1, <2>2, SegmentFits
    <3>6. a \in Address /\ ph.vaddr <= a
      BY DEF SegmentBytes, Bytes
    <3>7. a - ph.vaddr < ph.filesz => ph.offset + (a - ph.vaddr) < ImageLen
      <4> HIDE DEF ph
      <4> QED BY <2>2, <3>5, <3>6 DEF Address
    <3> QED BY <3>1, <3>2, <3>3, <3>4, <3>7 DEF SegmentByte
  <2>5. /\ n + 1 \in DOMAIN regions /\ n + 1 # 0
        /\ regions[n + 1].base = StackAt /\ regions[n + 1].size = StackSize
        /\ regions[n + 1].perms = {"r", "w"}
        /\ \A a \in stack : mem[a] = 0
    BY <2>1, <2>3 DEF Started
  <2>6. ASSUME NEW a \in stack
        PROVE  MemFind(regions, a, 1, {"r", "w"}) # 0 /\ mem[a] = 0
    <3>1. MemFind(regions, a, 1, {"r", "w"}) = n + 1
      BY <2>3, <2>5, MemFindOnly
    <3> QED BY <2>5, <3>1
  <2>7. DOMAIN mem = stack \cup UNION {SegmentBytes(i) : i \in DOMAIN Segments}
    BY <2>1, <2>3 DEF Started, Covered
  <2>8. Cardinality(stack) = StackSize
    <3>1. StackSize \in Nat \ {0} /\ StackAt \in Nat /\ StackAt + StackSize <= Top + 1
      <4>1. Exists(regions[n + 1])
        BY <2>3, <2>5 DEF SoundTable
      <4>2. StackAt + StackSize <= Top + 1
        BY <2>5, <4>1 DEF Exists
      <4>3. StackSize \in Nat \ {0} /\ StackAt \in Nat
        BY <2>2, UserAssumption DEF Address
      <4> QED BY <4>2, <4>3
    <3>2. stack = StackAt .. (StackAt + StackSize - 1)
      BY <3>1 DEF Bytes, Address
    <3>3. Cardinality(StackAt .. (StackAt + StackSize - 1))
            = (StackAt + StackSize - 1) - StackAt + 1
      BY <3>1, FS_Interval
    <3> QED BY <3>1, <3>2, <3>3
  <2> HIDE DEF stack
  <2> QED BY <2>4, <2>6, <2>7, <2>8 DEF LoadedExactly, SegmentBytes, stack
<1> QED BY <1>1, ProcessInvariant, PTL

-----------------------------------------------------------------------------
(* Powers of two.                                                          *)
LEMMA Pow2Is ==
  /\ Pow2 \in [0 .. XBits -> Nat \ {0}]
  /\ Pow2[0] = 1
  /\ \A n \in 1 .. XBits : Pow2[n] = 2 * Pow2[n - 1]
<1> USE WidthAssumption
<1> DEFINE S == Nat \ {0}
           step == [i \in 1 .. XBits |-> [p \in S |-> 2 * p]]
           Good(f) == f = [n \in 0 .. XBits |-> IF n = 0 THEN 1 ELSE 2 * f[n - 1]]
<1>1. PICK f \in [0 .. XBits -> S] : Follows(f, XBits, 1, step)
  <2>1. step \in [1 .. XBits -> [S -> S]] /\ 1 \in S
    OBVIOUS
  <2> HIDE DEF S, step
  <2> QED BY <2>1, RecursionExists
<1>2. Good(f)
  <2>1. \A n \in 0 .. XBits : n # 0 => step[n][f[n - 1]] = 2 * f[n - 1]
    OBVIOUS
  <2> QED BY <1>1, <2>1 DEF Follows
<1>3. Good(Pow2)
  BY <1>2 DEF Pow2
<1>4. Pow2[0] = 1 /\ \A n \in 1 .. XBits : Pow2[n] = 2 * Pow2[n - 1]
  <2>1. \A n \in 0 .. XBits : Pow2[n] = IF n = 0 THEN 1 ELSE 2 * Pow2[n - 1]
    <3> DEFINE g == [n \in 0 .. XBits |-> IF n = 0 THEN 1 ELSE 2 * Pow2[n - 1]]
    <3>1. Pow2 = g
      BY <1>3, Zenon
    <3>2. \A n \in 0 .. XBits : g[n] = IF n = 0 THEN 1 ELSE 2 * Pow2[n - 1]
      BY Zenon
    <3> HIDE DEF g
    <3> QED BY <3>1, <3>2, Zenon
  <2>2. 0 \in 0 .. XBits /\ \A n \in 1 .. XBits : n \in 0 .. XBits /\ n # 0
    OBVIOUS
  <2> QED BY <2>1, <2>2, Zenon
<1>5. \A n \in 0 .. XBits : Pow2[n] \in Nat \ {0}
  <2> DEFINE P == {n \in 0 .. XBits : Pow2[n] \in Nat \ {0}}
  <2>1. 0 \in P
    <3>1. 0 \in 0 .. XBits /\ 1 \in Nat \ {0}
      OBVIOUS
    <3>2. Pow2[0] \in Nat \ {0}
      BY <1>4, <3>1
    <3> QED BY <3>1, <3>2
  <2>2. ASSUME NEW n \in 1 .. XBits, n - 1 \in P PROVE n \in P
    <3>1. Pow2[n] = 2 * Pow2[n - 1] /\ Pow2[n - 1] \in Nat \ {0} /\ n \in 0 .. XBits
      BY <1>4, <2>2
    <3> QED BY <3>1
  <2>3. P \in SUBSET (0 .. XBits) /\ XBits \in Nat
    OBVIOUS
  <2> HIDE DEF P
  <2>4. \A n \in 0 .. XBits : n \in P
    BY <2>1, <2>2, <2>3, BoundedInduction
  <2> QED BY <2>4 DEF P
<1>6. Pow2 \in [0 .. XBits -> Nat \ {0}]
  BY <1>3, <1>5
<1> QED BY <1>4, <1>6

\* The powers in range are positive.
LEMMA Power ==
  ASSUME NEW n \in 0 .. XBits
  PROVE  Pow2[n] \in Nat \ {0} /\ Pow2[n] \in Int /\ Pow2[n] > 0
BY Pow2Is

LEMMA Power0 == Pow2[0] = 1
BY Pow2Is

LEMMA PowerStep ==
  ASSUME NEW n \in 1 .. XBits
  PROVE  Pow2[n] = 2 * Pow2[n - 1]
BY Pow2Is

\* The widths a register, a word, a half and a byte have to each other.
LEMMA Widths ==
  /\ WBits = 4 * ByteBits /\ HalfBits = 2 * ByteBits /\ XBits = 8 * ByteBits
  /\ ByteBits \in 1 .. XBits /\ HalfBits \in 1 .. XBits /\ WBits \in 4 .. XBits
  /\ XBits \in Nat /\ XBits >= 8
BY WidthAssumption DEF WBits, HalfBits

\* Exponents add.
LEMMA PowerAdds ==
  ASSUME NEW a \in 0 .. XBits, NEW b \in 0 .. XBits, a + b <= XBits
  PROVE  Pow2[a + b] = Pow2[a] * Pow2[b]
<1> DEFINE n == XBits - a
           P == {i \in 0 .. n : Pow2[a + i] = Pow2[a] * Pow2[i]}
<1>1. n \in Nat /\ n \in 0 .. XBits /\ b \in 0 .. n /\ a + n = XBits
  BY Widths
<1> HIDE DEF n
<1>2. 0 \in P
  <2>1. Pow2[0] = 1 /\ Pow2[a] \in Nat /\ a + 0 = a
    BY Power0, Power
  <2>2. Pow2[a + 0] = Pow2[a] * Pow2[0]
    BY <2>1
  <2> QED BY <1>1, <2>2
<1>3. ASSUME NEW i \in 1 .. n, i - 1 \in P PROVE i \in P
  <2>1. Pow2[a + (i - 1)] = Pow2[a] * Pow2[i - 1]
    BY <1>3
  <2>2. /\ a + i \in 1 .. XBits /\ i \in 1 .. XBits /\ (a + i) - 1 = a + (i - 1)
        /\ i - 1 \in 0 .. XBits
    BY <1>1, Widths
  <2> HIDE DEF P
  <2>3. Pow2[a + i] = 2 * Pow2[a + (i - 1)] /\ Pow2[i] = 2 * Pow2[i - 1]
    BY <2>2, PowerStep
  <2>4. Pow2[a] \in Nat /\ Pow2[i - 1] \in Nat
    BY <2>2, Power
  <2>5. ASSUME NEW p \in Nat, NEW q \in Nat PROVE 2 * (p * q) = p * (2 * q)
    OBVIOUS
  <2>6. 2 * (Pow2[a] * Pow2[i - 1]) = Pow2[a] * (2 * Pow2[i - 1])
    BY <2>4, <2>5
  <2>7. Pow2[a + i] = Pow2[a] * Pow2[i]
    BY <2>1, <2>3, <2>6, Zenon
  <2>8. i \in 0 .. n
    BY <1>1
  <2> QED BY <2>7, <2>8 DEF P
<1>4. P \in SUBSET (0 .. n)
  OBVIOUS
<1> HIDE DEF P
<1>5. b \in P
  BY <1>1, <1>2, <1>3, <1>4, BoundedInduction
<1> QED BY <1>5 DEF P

\* Powers grow with the exponent.
LEMMA PowerGrows ==
  ASSUME NEW a \in 0 .. XBits, NEW b \in a .. XBits
  PROVE  Pow2[a] <= Pow2[b]
<1>1. Pow2[b] = Pow2[a] * Pow2[b - a]
  <2>1. b - a \in 0 .. XBits /\ a + (b - a) = b /\ b <= XBits
    BY Widths
  <2>2. Pow2[a + (b - a)] = Pow2[a] * Pow2[b - a]
    BY <2>1, PowerAdds
  <2> QED BY <2>1, <2>2
<1>2. Pow2[a] \in Nat \ {0} /\ Pow2[b - a] \in Nat \ {0}
  <2>1. b - a \in 0 .. XBits
    BY Widths
  <2> QED BY <2>1, Power
<1>3. ASSUME NEW p \in Nat \ {0}, NEW q \in Nat \ {0} PROVE p <= p * q
  OBVIOUS
<1> QED BY <1>1, <1>2, <1>3

\* The powers that the encodings name.
LEMMA PowerValues ==
  /\ Pow2[0] = 1 /\ Pow2[1] = 2 /\ Pow2[2] = 4 /\ Pow2[3] = 8 /\ Pow2[4] = 16
  /\ Pow2[XBits] >= 256 /\ Pow2[WBits] >= 16 /\ Pow2[ByteBits] >= 2
<1>1. \A n \in 1 .. 8 : n \in 1 .. XBits
  BY Widths
<1>2. \A n \in 1 .. 8 : Pow2[n] = 2 * Pow2[n - 1]
  BY <1>1, PowerStep
<1>3. /\ Pow2[1] = 2 * Pow2[0] /\ Pow2[2] = 2 * Pow2[1] /\ Pow2[3] = 2 * Pow2[2]
      /\ Pow2[4] = 2 * Pow2[3] /\ Pow2[5] = 2 * Pow2[4] /\ Pow2[6] = 2 * Pow2[5]
      /\ Pow2[7] = 2 * Pow2[6] /\ Pow2[8] = 2 * Pow2[7]
  BY <1>2
<1>4. /\ Pow2[0] = 1 /\ Pow2[1] = 2 /\ Pow2[2] = 4 /\ Pow2[3] = 8 /\ Pow2[4] = 16
      /\ Pow2[5] = 32 /\ Pow2[6] = 64 /\ Pow2[7] = 128 /\ Pow2[8] = 256
  BY <1>3, Power0
<1>5. /\ 8 \in 0 .. XBits /\ 4 \in 0 .. XBits /\ 1 \in 0 .. XBits
      /\ XBits \in 8 .. XBits /\ WBits \in 4 .. XBits /\ ByteBits \in 1 .. XBits
  BY Widths
<1>6. Pow2[8] <= Pow2[XBits] /\ Pow2[4] <= Pow2[WBits] /\ Pow2[1] <= Pow2[ByteBits]
  BY <1>5, PowerGrows
<1> QED BY <1>4, <1>6

-----------------------------------------------------------------------------
(* Division by a positive number, and what its remainder is.               *)
LEMMA DivMod ==
  ASSUME NEW x \in Int, NEW p \in Nat \ {0}
  PROVE  /\ x \div p \in Int /\ x % p \in 0 .. p - 1
         /\ x = (p * (x \div p)) + (x % p)
         /\ 0 <= x => x \div p \in Nat
<1>1. x \div p \in Int /\ x % p \in 0 .. p - 1
  OBVIOUS
<1>2. x = (p * (x \div p)) + (x % p)
  OBVIOUS
<1>3. ASSUME 0 <= x PROVE x \div p >= 0
  <2>1. ASSUME x \div p <= -1 PROVE FALSE
    <3>1. p * (x \div p) <= -p
      <4>1. ASSUME NEW q \in Int, q <= -1 PROVE p * q <= -p
        <5>1. p * (q + 1) <= 0
          BY <4>1
        <5> QED BY <5>1, <4>1
      <4> QED BY <1>1, <2>1, <4>1
    <3>2. p * (x \div p) \in Int
      BY <1>1
    <3> QED BY <1>1, <1>2, <1>3, <3>1, <3>2
  <2> QED BY <1>1, <2>1
<1> QED BY <1>1, <1>2, <1>3

\* Quotient and remainder are unique.
LEMMA ModUnique ==
  ASSUME NEW p \in Nat \ {0}, NEW q \in Int, NEW r \in 0 .. p - 1
  PROVE  ((p * q) + r) % p = r /\ ((p * q) + r) \div p = q
OBVIOUS

-----------------------------------------------------------------------------
(* The operations of Alu are closed over the integers, and what is written *)
(* to a register is cut to its width.                                      *)
LEMMA TruncateIs ==
  ASSUME NEW x \in Int, NEW b \in 0 .. XBits
  PROVE  /\ Truncate(x, b) \in Int /\ 0 <= Truncate(x, b) /\ Truncate(x, b) < Pow2[b]
         /\ Truncate(x, b) \in Word
<1>1. Pow2[b] \in Nat \ {0} /\ Pow2[XBits] \in Int
  BY Power, Widths
<1>2. Pow2[b] <= Pow2[XBits]
  BY PowerGrows, Widths
<1>3. x % Pow2[b] \in 0 .. Pow2[b] - 1
  BY <1>1, DivMod
<1> QED BY <1>1, <1>2, <1>3 DEF Truncate, Word

\* What a register holds is a natural number below its power.
LEMMA WordIs ==
  ASSUME NEW x \in Word
  PROVE  x \in Nat /\ x \in Int /\ x < Pow2[XBits]
BY Power, Widths DEF Word

\* The sum is the last value of the sequence of partial sums.
LEMMA SumToIs ==
  ASSUME NEW n \in Nat, NEW f \in [0 .. n - 1 -> Int]
  PROVE  \E s \in [0 .. n -> Int] :
           /\ s[0] = 0
           /\ \A i \in 1 .. n : s[i] = s[i - 1] + f[i - 1]
           /\ SumTo(f, n) = s[n]
<1> DEFINE step == [i \in 1 .. n |-> [a \in Int |-> a + f[i - 1]]]
           Good(s) == s = [i \in 0 .. n |-> IF i = 0 THEN 0 ELSE s[i - 1] + f[i - 1]]
           sum == CHOOSE s : Good(s)
<1>1. PICK s \in [0 .. n -> Int] : Follows(s, n, 0, step)
  <2>1. step \in [1 .. n -> [Int -> Int]]
    <3>1. \A i \in 1 .. n : i - 1 \in 0 .. n - 1
      OBVIOUS
    <3>2. ASSUME NEW i \in 1 .. n PROVE [a \in Int |-> a + f[i - 1]] \in [Int -> Int]
      <4>1. f[i - 1] \in Int
        BY <3>1
      <4> QED BY <4>1
    <3> QED BY <3>2
  <2> DEFINE S == Int
  <2>2. step \in [1 .. n -> [S -> S]] /\ 0 \in S
    BY <2>1
  <2> HIDE DEF step, S
  <2>3. \E s \in [0 .. n -> S] : Follows(s, n, 0, step)
    BY <2>2, RecursionExists
  <2> QED BY <2>3 DEF S
<1>2. Good(s)
  <2>1. ASSUME NEW i \in 0 .. n, i # 0 PROVE step[i][s[i - 1]] = s[i - 1] + f[i - 1]
    <3>1. i \in 1 .. n /\ i - 1 \in 0 .. n /\ s[i - 1] \in Int
      BY <2>1
    <3> QED BY <3>1
  <2> HIDE DEF step
  <2> QED BY <1>1, <2>1 DEF Follows
<1>3. Good(sum)
  BY <1>2
<1>4. SumTo(f, n) = sum[n]
  BY DEF SumTo
<1> HIDE DEF sum, step
<1>5. sum = [i \in 0 .. n |-> sum[i]]
  BY <1>3
<1>6. sum[0] = 0 /\ \A i \in 1 .. n : sum[i] = sum[i - 1] + f[i - 1]
  <2>1. \A i \in 0 .. n : sum[i] = IF i = 0 THEN 0 ELSE sum[i - 1] + f[i - 1]
    BY <1>3
  <2>2. 0 \in 0 .. n /\ \A i \in 1 .. n : i \in 0 .. n /\ i # 0
    OBVIOUS
  <2> HIDE DEF Good
  <2> QED BY <2>1, <2>2, Zenon
<1> HIDE DEF Good
<1>7. \A i \in 0 .. n : sum[i] \in Int
  <2> DEFINE P == {i \in 0 .. n : sum[i] \in Int}
  <2>1. 0 \in P
    BY <1>6
  <2>2. ASSUME NEW i \in 1 .. n, i - 1 \in P PROVE i \in P
    <3>1. i - 1 \in 0 .. n - 1 /\ sum[i - 1] \in Int /\ i \in 0 .. n
      BY <2>2
    <3>2. f[i - 1] \in Int
      BY <3>1
    <3>3. sum[i] \in Int
      BY <1>6, <3>1, <3>2
    <3> QED BY <3>1, <3>3
  <2>3. P \in SUBSET (0 .. n)
    OBVIOUS
  <2> HIDE DEF P
  <2>4. \A i \in 0 .. n : i \in P
    BY <2>1, <2>2, <2>3, BoundedInduction
  <2> QED BY <2>4 DEF P
<1>8. sum \in [0 .. n -> Int]
  BY <1>5, <1>7
<1> QED BY <1>4, <1>6, <1>8

LEMMA SumToInt ==
  ASSUME NEW n \in Nat, NEW f \in [0 .. n - 1 -> Int]
  PROVE  SumTo(f, n) \in Int
BY SumToIs

\* A bit of an integer, and sums of bits, are integers.
LEMMA BitIs ==
  ASSUME NEW x \in Int, NEW i \in 0 .. XBits
  PROVE  Bit(x, i) \in Int
<1>1. x \div Pow2[i] \in Int
  BY Power, DivMod
<1> QED BY <1>1 DEF Bit

LEMMA SumBitsInt ==
  ASSUME NEW n \in 0 .. XBits, NEW f \in [0 .. n - 1 -> Int]
  PROVE  SumBits(f, n) \in Int
<1> DEFINE g == [i \in 0 .. n - 1 |-> f[i] * Pow2[i]]
<1>1. g \in [0 .. n - 1 -> Int]
  <2>1. \A i \in 0 .. n - 1 : i \in 0 .. XBits
    BY Widths
  <2>2. ASSUME NEW i \in 0 .. n - 1 PROVE f[i] \in Int /\ Pow2[i] \in Int
    BY <2>1, Power
  <2> QED BY <2>2
<1>2. n \in Nat
  BY Widths
<1> HIDE DEF g
<1>3. SumTo(g, n) \in Int
  BY <1>1, <1>2, SumToInt
<1> QED BY <1>3 DEF SumBits, g

\* C's bitwise operators give integers.
LEMMA AndInt ==
  ASSUME NEW a \in Int, NEW b \in Int
  PROVE  And(a, b) \in Int /\ Or(a, b) \in Int /\ Xor(a, b) \in Int
<1> DEFINE f == [i \in 0 .. XBits - 1 |-> Bit(a, i) * Bit(b, i)]
<1>1. f \in [0 .. XBits - 1 -> Int]
  <2>1. \A i \in 0 .. XBits - 1 : i \in 0 .. XBits
    BY Widths
  <2>2. ASSUME NEW i \in 0 .. XBits - 1 PROVE Bit(a, i) \in Int /\ Bit(b, i) \in Int
    BY <2>1, BitIs
  <2> QED BY <2>2
<1>2. XBits \in 0 .. XBits
  BY Widths
<1> HIDE DEF f
<1>3. SumBits(f, XBits) \in Int
  BY <1>1, <1>2, SumBitsInt
<1>4. And(a, b) \in Int
  BY <1>3 DEF And, f
<1> QED BY <1>4 DEF Or, Xor

\* Shifts, masks and complements give integers, a left shift one that fits.
LEMMA ShiftsInt ==
  ASSUME NEW x \in Int, NEW n \in 0 .. XBits
  PROVE  /\ ShiftL(x, n) \in Int /\ ShiftR(x, n) \in Int /\ Ones(n) \in Int /\ Inv(x) \in Int
         /\ ShiftL(x, n) \in Word
<1>1. Pow2[n] \in Nat \ {0} /\ Pow2[XBits] \in Int /\ XBits \in 0 .. XBits
  BY Power, Widths
<1>2. x * Pow2[n] \in Int /\ x \div Pow2[n] \in Int
  <2>1. \A p \in Nat \ {0} : x * p \in Int /\ x \div p \in Int
    OBVIOUS
  <2> QED BY <1>1, <2>1
<1> DEFINE y == x * Pow2[n]
<1>3. y \in Int
  BY <1>2
<1> HIDE DEF y
<1>4. Truncate(y, XBits) \in Int /\ Truncate(y, XBits) \in Word
  BY <1>1, <1>3, TruncateIs
<1> QED BY <1>1, <1>2, <1>4 DEF y, ShiftL, ShiftR, Ones, Inv

\* So do the two readings of a sign.
LEMMA SignedInt ==
  ASSUME NEW x \in Int, NEW b \in 1 .. XBits
  PROVE  Signed(x, b) \in Int /\ SignExtend(x, b) \in Int
<1>1. b \in 0 .. XBits /\ XBits \in 0 .. XBits
  BY Widths
<1>2. \A y \in Int : Signed(y, b) \in Int
  BY <1>1, Power DEF Signed
<1>3. Signed(Truncate(x, b), b) \in Int
  BY <1>1, <1>2, TruncateIs
<1> QED BY <1>1, <1>2, <1>3, TruncateIs DEF SignExtend

\* An instruction is 32 or 64 bits wide.
LEMMA BitsIs ==
  ASSUME NEW bits \in {WBits, XBits}
  PROVE  bits \in 4 .. XBits /\ bits \in 1 .. XBits /\ bits \in 0 .. XBits /\ bits \in Nat
BY Widths

\* add_with_carry: a value and flags.
LEMMA NzFlags ==
  ASSUME NEW result, NEW bits
  PROVE  Nz(result, bits) \in SUBSET Flags
BY DEF Nz, Flags

LEMMA AddWithCarryTyped ==
  ASSUME NEW x \in Int, NEW y \in Int, NEW carry \in BOOLEAN, NEW bits \in {WBits, XBits}
  PROVE  /\ AddWithCarry(x, y, carry, bits).value \in Int
         /\ AddWithCarry(x, y, carry, bits).nzcv \in SUBSET Flags
<1> DEFINE c == IF carry THEN 1 ELSE 0
           sum == (Truncate(x, bits) + Truncate(y, bits)) + c
<1>1. sum \in Int
  <2>1. bits \in 0 .. XBits
    BY BitsIs
  <2>2. Truncate(x, bits) \in Int /\ Truncate(y, bits) \in Int
    BY <2>1, TruncateIs
  <2> QED BY <2>2
<1>2. AddWithCarry(x, y, carry, bits).value = Truncate(sum, bits)
  BY DEF AddWithCarry
<1>3. AddWithCarry(x, y, carry, bits).nzcv \in SUBSET Flags
  BY NzFlags DEF AddWithCarry, Flags
<1> HIDE DEF sum
<1> QED BY <1>1, <1>2, <1>3, BitsIs, TruncateIs

\* shift_operand: a value and a carry.
LEMMA ShiftOperandTyped ==
  ASSUME NEW value \in Int, NEW type \in {"LSL", "LSR", "ASR", "ROR"},
         NEW bits \in {WBits, XBits}, NEW amount \in 0 .. bits - 1
  PROVE  ShiftOperand(value, type, amount, bits).value \in Int
<1> DEFINE m == Truncate(value, bits)
           rest == bits - amount
           fill == IF TopBit(m, bits) THEN Truncate(ShiftL(Ones(bits), rest), bits) ELSE 0
           up == Truncate(m * Pow2[rest], bits)
           down == ShiftR(m, amount)
<1>1. bits \in 0 .. XBits /\ amount \in 0 .. XBits /\ rest \in 0 .. XBits
  BY BitsIs, Widths
<1>2. m \in Int /\ Ones(bits) \in Int
  BY <1>1, TruncateIs, ShiftsInt
<1> HIDE DEF m, rest
<1>3. fill \in Int
  <2>1. ShiftL(Ones(bits), rest) \in Int
    BY <1>1, <1>2, ShiftsInt
  <2>2. Truncate(ShiftL(Ones(bits), rest), bits) \in Int
    BY <1>1, <2>1, TruncateIs
  <2> QED BY <2>2
<1>4. up \in Int /\ Truncate(m * Pow2[amount], bits) \in Int
  <2>1. Pow2[rest] \in Int /\ Pow2[amount] \in Int
    BY <1>1, Power
  <2>2. m * Pow2[rest] \in Int /\ m * Pow2[amount] \in Int
    BY <1>2, <2>1
  <2> QED BY <1>1, <2>2, TruncateIs
<1>5. down \in Int
  BY <1>1, <1>2, ShiftsInt
<1> HIDE DEF fill, up, down
<1>6. Or(down, fill) \in Int /\ Or(down, up) \in Int
  BY <1>3, <1>4, <1>5, AndInt
<1>7. \/ ShiftOperand(value, type, amount, bits).value \in {m, 0, Ones(bits)}
      \/ ShiftOperand(value, type, amount, bits).value \in
           {Truncate(m * Pow2[amount], bits), down, Or(down, fill), Or(down, up)}
  BY DEF ShiftOperand, m, rest, fill, up, down
<1> QED BY <1>2, <1>4, <1>5, <1>6, <1>7

\* extend_operand: a register value.
LEMMA ExtendOperandTyped ==
  ASSUME NEW value \in Int, NEW type, NEW shift \in 0 .. XBits
  PROVE  ExtendOperand(value, type, shift) \in Int /\ ExtendOperand(value, type, shift) \in Word
<1>1. /\ Truncate(value, ByteBits) \in Int /\ Truncate(value, HalfBits) \in Int
      /\ Truncate(value, WBits) \in Int
  BY Widths, TruncateIs
<1>2. /\ SignExtend(value, ByteBits) \in Int /\ SignExtend(value, HalfBits) \in Int
      /\ SignExtend(value, WBits) \in Int
  BY Widths, SignedInt
<1>3. \E x \in Int : ExtendOperand(value, type, shift) = ShiftL(x, shift)
  BY <1>1, <1>2 DEF ExtendOperand
<1> QED BY <1>3, ShiftsInt

\* The flags of a logical instruction are flags.
LEMMA LogicalFlagsTyped ==
  ASSUME NEW old \in SUBSET Flags, NEW result, NEW in, NEW bits, NEW shifted
  PROVE  LogicalFlags(old, result, in, bits, shifted) \in SUBSET Flags
BY NzFlags DEF LogicalFlags, Flags

\* smulh and umulh, out of half-width products.
LEMMA HighWordsTyped ==
  ASSUME NEW a \in Int, NEW b \in Int
  PROVE  UMulH(a, b) \in Int /\ SMulH(a, b) \in Int
<1>1. XBits \in 0 .. XBits /\ WBits \in 0 .. XBits
  BY Widths
<1>2. \A x \in Int : Truncate(x, WBits) \in Int /\ Truncate(x, XBits) \in Int
                     /\ ShiftR(x, WBits) \in Int
  BY <1>1, TruncateIs, ShiftsInt
<1>3. \A x, y \in Int : x * y \in Int
  OBVIOUS
<1>4. UMulH(a, b) \in Int
  <2> DEFINE lo(v0) == Truncate(v0, WBits)
             hi(v0) == ShiftR(v0, WBits)
             ll == hi(lo(a) * lo(b))
             lh == lo(lo(a) * hi(b))
             hl == lo(hi(a) * lo(b))
             top == hi(a) * hi(b)
             lhh == hi(lo(a) * hi(b))
             hlh == hi(hi(a) * lo(b))
             mid == hi((ll + lh) + hl)
  <2>1. ll \in Int /\ lh \in Int /\ hl \in Int /\ top \in Int /\ lhh \in Int /\ hlh \in Int
    BY <1>2, <1>3
  <2>2. mid \in Int
    <3> HIDE DEF ll, lh, hl
    <3>1. (ll + lh) + hl \in Int
      BY <2>1
    <3> QED BY <1>2, <3>1
  <2>3. UMulH(a, b) = Truncate(((top + lhh) + hlh) + mid, XBits)
    BY DEF UMulH
  <2> HIDE DEF top, lhh, hlh, mid
  <2>4. ((top + lhh) + hlh) + mid \in Int
    BY <2>1, <2>2
  <2> QED BY <1>2, <2>3, <2>4
<1>5. SMulH(a, b) \in Int
  <2> DEFINE x == (UMulH(a, b) - (IF TopBit(a, XBits) THEN b ELSE 0))
                    - (IF TopBit(b, XBits) THEN a ELSE 0)
  <2>1. x \in Int
    BY <1>4
  <2>2. SMulH(a, b) = Truncate(x, XBits)
    BY DEF SMulH
  <2> HIDE DEF x
  <2> QED BY <1>2, <2>1, <2>2
<1> QED BY <1>4, <1>5

\* Counting leading zeros.
LEMMA ClzTyped ==
  ASSUME NEW value \in Int, NEW bits \in {WBits, XBits}
  PROVE  Clz(value, bits) \in Int /\ Cls(value, bits) \in Int
<1>1. \A x \in Int : Clz64(x) \in Int
  <2>1. ASSUME NEW x \in Int PROVE Clz64(x) \in Nat
    <3> DEFINE T == {b \in 0 .. XBits - 1 : x < Pow2[b]}
    <3>1. IsFiniteSet(0 .. XBits - 1)
      BY FS_Interval, Widths
    <3>2. IsFiniteSet(T)
      BY <3>1, FS_Subset
    <3> HIDE DEF T
    <3>3. Cardinality(T) \in Nat
      BY <3>2, FS_CardinalityType
    <3> QED BY <3>3 DEF Clz64, T
  <2> QED BY <2>1
<1>2. \A x \in Int : Clz(x, bits) \in Int
  <2>1. ASSUME NEW x \in Int PROVE Clz(x, bits) \in Int
    <3> DEFINE y == ShiftL(Truncate(x, WBits), XBits - WBits)
    <3>1. XBits - WBits \in 0 .. XBits /\ WBits \in 0 .. XBits
      BY Widths
    <3>2. Truncate(x, WBits) \in Int
      BY <3>1, TruncateIs
    <3>3. y \in Int
      BY <3>1, <3>2, ShiftsInt
    <3>4. Clz64(y) \in Int /\ Clz64(x) \in Int
      <4> HIDE DEF y
      <4> QED BY <1>1, <3>3
    <3>5. WBits \in Int
      BY Widths
    <3> QED BY <3>4, <3>5 DEF Clz
  <2> QED BY <2>1
<1>3. Cls(value, bits) \in Int
  <2> DEFINE w == Truncate(value, bits)
             sign == IF TopBit(w, bits) THEN Ones(bits) ELSE 0
  <2>1. w \in Int /\ sign \in Int
    <3>1. bits \in 0 .. XBits
      BY BitsIs
    <3>2. w \in Int /\ Ones(bits) \in Int
      BY <3>1, TruncateIs, ShiftsInt
    <3> QED BY <3>2
  <2> HIDE DEF w, sign
  <2>2. Xor(w, sign) \in Int
    BY <2>1, AndInt
  <2>3. Clz(Xor(w, sign), bits) \in Int
    BY <1>2, <2>2
  <2> QED BY <2>3 DEF Cls, w, sign
<1> QED BY <1>2, <1>3

\* A multiple of a positive number below another multiple of it.
LEMMA Multiples ==
  ASSUME NEW p \in Nat \ {0}, NEW q \in Int, NEW k \in Int, NEW r \in 0 .. p - 1,
         (p * q) + r < p * k
  PROVE  q <= k - 1
<1> SUFFICES ASSUME q >= k PROVE FALSE
  OBVIOUS
<1>1. p * (q - k) >= 0
  OBVIOUS
<1>2. p * (q - k) = (p * q) - (p * k) /\ p * q \in Int /\ p * k \in Int
  OBVIOUS
<1> QED BY <1>1, <1>2

\* Where the byte shufflers take a bit from lies in the register.
LEMMA RevFromIs ==
  ASSUME NEW bits \in {WBits, XBits}, NEW i \in 0 .. bits - 1
  PROVE  RevFrom(i, bits) \in 0 .. XBits
<1> DEFINE B == ByteBits
           q == i \div B
           r == i % B
           k == bits \div B
<1>1. /\ B \in Nat \ {0} /\ bits \in Nat /\ i \in Int /\ 0 <= i /\ i < bits
      /\ bits <= XBits /\ XBits \in Nat
  BY Widths
<1>2. q \in Nat /\ r \in 0 .. B - 1 /\ i = (B * q) + r
  <2> HIDE DEF B
  <2> QED BY <1>1, DivMod
<1>3. k \in {4, 8} /\ bits = B * k
  <2>1. bits = (B * 4) + 0 \/ bits = (B * 8) + 0
    BY Widths
  <2>2. 0 \in 0 .. B - 1
    BY <1>1
  <2>3. bits \div B = 4 \/ bits \div B = 8
    BY <1>1, <2>1, <2>2, ModUnique
  <2>4. B * 4 \in Int /\ B * 8 \in Int
    BY <1>1
  <2>5. CASE bits = (B * 4) + 0
    BY <1>1, <2>2, <2>4, <2>5, ModUnique
  <2>6. CASE bits = (B * 8) + 0
    BY <1>1, <2>2, <2>4, <2>6, ModUnique
  <2> QED BY <2>1, <2>5, <2>6
<1> HIDE DEF q, r, k, B
<1>4. q <= k - 1
  <2>1. (B * q) + r < B * k
    BY <1>1, <1>2, <1>3
  <2> QED BY <1>1, <1>2, <1>3, <2>1, Multiples
<1>5. /\ B * ((k - 1) - q) >= 0
      /\ (B * ((k - 1) - q)) + r <= B * k
      /\ B * ((k - 1) - q) \in Int
  <2>1. ASSUME NEW d \in Nat, NEW e \in Nat, d + 1 <= e
        PROVE  B * d >= 0 /\ (B * d) + r <= B * e /\ B * d \in Int
    <3>1. B * d >= 0 /\ B * (e - (d + 1)) >= 0
      BY <1>1, <2>1
    <3>2. B * (e - (d + 1)) = (B * e) - (B * d) - B /\ B * d \in Int /\ B * e \in Int
      BY <1>1
    <3> QED BY <1>1, <1>2, <3>1, <3>2
  <2>2. (k - 1) - q \in Nat /\ ((k - 1) - q) + 1 <= k /\ k \in Nat
    BY <1>2, <1>3, <1>4
  <2> QED BY <2>1, <2>2
<1>6. RevFrom(i, bits) = (B * ((k - 1) - q)) + r
  BY DEF RevFrom, B, k, q, r
<1> DEFINE x == B * ((k - 1) - q)
<1>7. x >= 0 /\ x + r <= bits /\ x \in Int /\ RevFrom(i, bits) = x + r
  BY <1>3, <1>5, <1>6
<1> HIDE DEF x
<1> QED BY <1>1, <1>2, <1>7

\* The byte that rev16 takes from is one of the register.
LEMMA Rev16FromIs ==
  ASSUME NEW bits \in {WBits, XBits}, NEW i \in 0 .. bits - 1
  PROVE  Rev16From(i) \in 0 .. XBits
<1> DEFINE B == ByteBits
           H == HalfBits
           q == i \div H
           r == i % H
<1>1. /\ B \in Nat \ {0} /\ H = 2 * B /\ H \in Nat \ {0} /\ bits \in Nat /\ i \in Int
      /\ bits <= XBits /\ 0 <= i /\ i < bits /\ XBits \in Nat
  BY Widths
<1>2. q \in Nat /\ r \in 0 .. H - 1 /\ i = (H * q) + r
  <2> HIDE DEF H
  <2> QED BY <1>1, DivMod
<1>3. PICK k \in {2, 4} : bits = H * k
  BY Widths
<1> HIDE DEF q, r, B, H
<1>4. q <= k - 1
  <2>1. (H * q) + r < H * k
    BY <1>1, <1>2, <1>3
  <2> QED BY <1>1, <1>2, <1>3, <2>1, Multiples
<1> DEFINE x == H * q
           y == H * k
<1>5. x >= 0 /\ x \in Int /\ y \in Int /\ x <= y - H
  <2>1. H * q >= 0 /\ H * ((k - 1) - q) >= 0
    BY <1>1, <1>2, <1>3, <1>4
  <2>2. H * ((k - 1) - q) = (y - H) - x /\ x \in Int /\ y \in Int
    BY <1>1, <1>2, <1>3
  <2>3. x >= 0 /\ (y - H) - x >= 0
    BY <2>1, <2>2
  <2> HIDE DEF x, y
  <2> QED BY <1>1, <2>2, <2>3
<1>6. Rev16From(i) = (IF r < B THEN i + B ELSE i - B) /\ i = x + r /\ y = bits
  BY <1>2, <1>3 DEF Rev16From, B, H, r
<1> HIDE DEF x, y
<1> QED BY <1>1, <1>2, <1>5, <1>6

\* rbit, clz, cls, rev, rev16 and rev32.
LEMMA ShufflersTyped ==
  ASSUME NEW value \in Int, NEW bits \in {WBits, XBits}
  PROVE  /\ RBit(value, bits) \in Int /\ Rev(value, bits) \in Int
         /\ Rev16(value, bits) \in Int /\ Rev32(value) \in Int
<1>1. bits \in 0 .. XBits
  BY BitsIs
<1>2. ASSUME NEW from, \A i \in 0 .. bits - 1 : from[i] \in 0 .. XBits
      PROVE  SumBits([i \in 0 .. bits - 1 |-> Bit(value, from[i])], bits) \in Int
  <2> DEFINE f == [i \in 0 .. bits - 1 |-> Bit(value, from[i])]
  <2>1. \A i \in 0 .. bits - 1 : Bit(value, from[i]) \in Int
    BY <1>2, BitIs
  <2>2. f \in [0 .. bits - 1 -> Int]
    BY <2>1
  <2> HIDE DEF f
  <2>3. SumBits(f, bits) \in Int
    BY <1>1, <2>2, SumBitsInt
  <2> QED BY <2>3 DEF f
<1>3. RBit(value, bits) \in Int
  <2> DEFINE from == [i \in 0 .. bits - 1 |-> bits - 1 - i]
  <2>1. \A i \in 0 .. bits - 1 : from[i] \in 0 .. XBits
    BY <1>1, Widths
  <2>2. [i \in 0 .. bits - 1 |-> Bit(value, from[i])]
          = [i \in 0 .. bits - 1 |-> Bit(value, bits - 1 - i)]
    OBVIOUS
  <2> HIDE DEF from
  <2>3. SumBits([i \in 0 .. bits - 1 |-> Bit(value, from[i])], bits) \in Int
    BY <1>2, <2>1
  <2> QED BY <2>2, <2>3 DEF RBit
<1>4. Rev(value, bits) \in Int
  <2> DEFINE from == [i \in 0 .. bits - 1 |-> RevFrom(i, bits)]
  <2>1. \A i \in 0 .. bits - 1 : from[i] \in 0 .. XBits
    BY RevFromIs
  <2>2. [i \in 0 .. bits - 1 |-> Bit(value, from[i])]
          = [i \in 0 .. bits - 1 |-> Bit(value, RevFrom(i, bits))]
    OBVIOUS
  <2> HIDE DEF from
  <2>3. SumBits([i \in 0 .. bits - 1 |-> Bit(value, from[i])], bits) \in Int
    BY <1>2, <2>1
  <2> QED BY <2>2, <2>3 DEF Rev
<1>5. Rev16(value, bits) \in Int
  <2> DEFINE from == [i \in 0 .. bits - 1 |-> Rev16From(i)]
  <2>1. \A i \in 0 .. bits - 1 : from[i] \in 0 .. XBits
    BY Rev16FromIs
  <2>2. [i \in 0 .. bits - 1 |-> Bit(value, from[i])]
          = [i \in 0 .. bits - 1 |-> Bit(value, Rev16From(i))]
    OBVIOUS
  <2> HIDE DEF from
  <2>3. SumBits([i \in 0 .. bits - 1 |-> Bit(value, from[i])], bits) \in Int
    BY <1>2, <2>1
  <2> QED BY <2>2, <2>3 DEF Rev16
<1>6. Rev32(value) \in Int
  <2>1. WBits \in 0 .. XBits
    BY Widths
  <2>2. Truncate(value, WBits) \in Int
    BY <2>1, TruncateIs
  <2>3. ShiftL(Truncate(value, WBits), WBits) \in Int /\ ShiftR(value, WBits) \in Int
    BY <2>1, <2>2, ShiftsInt
  <2> QED BY <2>3, AndInt DEF Rev32
<1> QED BY <1>3, <1>4, <1>5, <1>6

\* udiv and sdiv, by zero and of the most negative value included.
LEMMA DivideTyped ==
  ASSUME NEW signed \in BOOLEAN, NEW n \in Int, NEW d \in Int, NEW bits \in {WBits, XBits},
         0 <= d, d < Pow2[bits]
  PROVE  Divide(signed, n, d, bits) \in Int
<1>1. bits \in 1 .. XBits /\ XBits \in 0 .. XBits
  BY BitsIs, Widths
<1>2. ASSUME d # 0 PROVE n \div d \in Int
  <2>1. d \in Nat \ {0}
    BY <1>2
  <2> QED BY <2>1, DivMod
<1>3. ASSUME NEW nn \in Int, NEW dd \in Int, dd # 0 PROVE TowardsZero(nn, dd) \in Int
  <2> DEFINE a == IF nn < 0 THEN -nn ELSE nn
             b == IF dd < 0 THEN -dd ELSE dd
  <2>1. a \in Int /\ b \in Nat \ {0}
    BY <1>3
  <2> HIDE DEF a, b
  <2>2. a \div b \in Int
    BY <2>1, DivMod
  <2>3. TowardsZero(nn, dd) = IF (nn < 0) = (dd < 0) THEN a \div b ELSE -(a \div b)
    BY DEF TowardsZero, a, b
  <2> QED BY <2>2, <2>3
<1> DEFINE nn == Signed(n, bits)
           dd == Signed(d, bits)
<1>4. nn \in Int /\ dd \in Int
  BY <1>1, SignedInt
<1>5. ASSUME d # 0 PROVE dd # 0
  <2>1. Pow2[bits] \in Int
    BY <1>1, Power
  <2> QED BY <1>5, <2>1 DEF Signed
<1>6. ASSUME NEW x \in Int PROVE Truncate(x, XBits) \in Int
  BY <1>1, TruncateIs
<1>7. \/ d = 0 /\ Divide(signed, n, d, bits) = 0
      \/ d # 0 /\ Divide(signed, n, d, bits) = n \div d
      \/ Divide(signed, n, d, bits) = Truncate(nn, XBits)
      \/ d # 0 /\ Divide(signed, n, d, bits) = Truncate(TowardsZero(nn, dd), XBits)
  BY DEF Divide
<1> HIDE DEF nn, dd
<1>8. d # 0 => TowardsZero(nn, dd) \in Int
  BY <1>3, <1>4, <1>5
<1> QED BY <1>2, <1>4, <1>6, <1>7, <1>8

\* madd, msub and the widening factors.
LEMMA ProductTyped ==
  ASSUME NEW acc \in Int, NEW n \in Int, NEW m \in Int, NEW add \in BOOLEAN
  PROVE  MulAdd(acc, n, m, add) \in Int /\ WideFactor(n, add) \in Int
<1>1. XBits \in 0 .. XBits /\ WBits \in 1 .. XBits
  BY Widths
<1> DEFINE x == IF add THEN acc + n * m ELSE acc - n * m
<1>2. x \in Int
  <2>1. n * m \in Int
    OBVIOUS
  <2> QED BY <2>1
<1>3. MulAdd(acc, n, m, add) = Truncate(x, XBits)
  BY DEF MulAdd
<1> HIDE DEF x
<1>4. Truncate(x, XBits) \in Int /\ Signed(n, WBits) \in Int
  BY <1>1, <1>2, TruncateIs, SignedInt
<1> QED BY <1>3, <1>4 DEF WideFactor

\* What a function defined by steps over S has for values.
LEMMA StepsTyped ==
  ASSUME NEW n \in Nat, NEW S, NEW g, g[0] \in S,
         \A i \in 1 .. n : g[i - 1] \in S => g[i] \in S
  PROVE  \A i \in 0 .. n : g[i] \in S
<1> DEFINE P == {i \in 0 .. n : g[i] \in S}
<1>1. 0 \in P
  OBVIOUS
<1>2. ASSUME NEW i \in 1 .. n, i - 1 \in P PROVE i \in P
  <2>1. g[i - 1] \in S /\ i \in 0 .. n
    BY <1>2
  <2> QED BY <2>1
<1>3. P \in SUBSET (0 .. n)
  OBVIOUS
<1> HIDE DEF P
<1>4. \A i \in 0 .. n : i \in P
  BY <1>1, <1>2, <1>3, BoundedInduction
<1> QED BY <1>4 DEF P

\* One bit, one byte and the whole of a CRC.
LEMMA CrcBitTyped ==
  ASSUME NEW crc \in Int, NEW poly \in Int
  PROVE  CrcBit(crc, poly) \in Int
<1>1. 1 \in 0 .. XBits
  BY Widths
<1>2. ShiftR(crc, 1) \in Int
  BY <1>1, ShiftsInt
<1>3. Xor(ShiftR(crc, 1), poly) \in Int
  BY <1>2, AndInt
<1> QED BY <1>2, <1>3 DEF CrcBit

LEMMA CrcShiftTyped ==
  ASSUME NEW crc \in Int, NEW poly \in Int, NEW n \in Nat
  PROVE  CrcShift(crc, poly, n) \in Int
<1> DEFINE S == Int
           step == [i \in 1 .. n |-> [c \in S |-> CrcBit(c, poly)]]
           Good(c) == c = [i \in 0 .. n |-> IF i = 0 THEN crc ELSE CrcBit(c[i - 1], poly)]
           last == CHOOSE c : Good(c)
<1>1. step \in [1 .. n -> [S -> S]] /\ crc \in S
  BY CrcBitTyped
<1>2. \A i \in 1 .. n : \A x \in S : step[i][x] = CrcBit(x, poly)
  OBVIOUS
<1>3. CrcShift(crc, poly, n) = last[n]
  BY DEF CrcShift
<1> HIDE DEF S, step, last
<1>4. PICK f \in [0 .. n -> S] : Follows(f, n, crc, step)
  BY <1>1, RecursionExists
<1>5. Good(f)
  <2>1. ASSUME NEW i \in 0 .. n, i # 0 PROVE step[i][f[i - 1]] = CrcBit(f[i - 1], poly)
    <3>1. i \in 1 .. n /\ i - 1 \in 0 .. n
      BY <2>1
    <3> QED BY <1>2, <3>1
  <2> QED BY <1>4, <2>1 DEF Follows
<1>6. Good(last)
  BY <1>5 DEF last
<1>7. last[0] = crc /\ \A i \in 1 .. n : last[i] = CrcBit(last[i - 1], poly)
  <2>1. \A i \in 0 .. n : last[i] = IF i = 0 THEN crc ELSE CrcBit(last[i - 1], poly)
    BY <1>6
  <2>2. 0 \in 0 .. n /\ \A i \in 1 .. n : i \in 0 .. n /\ i # 0
    OBVIOUS
  <2> HIDE DEF Good
  <2> QED BY <2>1, <2>2, Zenon
<1> HIDE DEF Good
<1>8. last[0] \in S /\ \A i \in 1 .. n : last[i - 1] \in S => last[i] \in S
  BY <1>1, <1>7, CrcBitTyped DEF S
<1>9. \A i \in 0 .. n : last[i] \in S
  BY <1>8, StepsTyped
<1>10. n \in 0 .. n
  OBVIOUS
<1> QED BY <1>3, <1>9, <1>10 DEF S

LEMMA Crc32Typed ==
  ASSUME NEW seed \in Int, NEW data \in Int, NEW n \in {1, 2, 4, 8}, NEW poly \in Int
  PROVE  Crc32(seed, data, n, poly) \in Int
<1> DEFINE S == Int
           step == [i \in 1 .. n |-> [c \in S |-> CrcByte(c, data, i, poly)]]
           Good(c) == c = [i \in 0 .. n |->
                             IF i = 0 THEN seed ELSE CrcByte(c[i - 1], data, i, poly)]
           last == CHOOSE c : Good(c)
<1>1. ASSUME NEW c \in Int, NEW i \in 1 .. n PROVE CrcByte(c, data, i, poly) \in Int
  <2>1. ByteBits * (i - 1) \in 0 .. XBits /\ ByteBits \in 0 .. XBits /\ ByteBits \in Nat
    <3>1. i \in {1, 2, 3, 4, 5, 6, 7, 8}
      OBVIOUS
    <3> QED BY <3>1, Widths
  <2> DEFINE k == ByteBits * (i - 1)
  <2>2. k \in 0 .. XBits
    BY <2>1
  <2> HIDE DEF k
  <2>3. ShiftR(data, k) \in Int
    BY <2>2, ShiftsInt
  <2>4. Truncate(ShiftR(data, k), ByteBits) \in Int
    BY <2>1, <2>3, TruncateIs
  <2>5. Xor(c, Truncate(ShiftR(data, k), ByteBits)) \in Int
    BY <2>4, AndInt
  <2>6. CrcShift(Xor(c, Truncate(ShiftR(data, k), ByteBits)), poly, ByteBits) \in Int
    BY <2>1, <2>5, CrcShiftTyped
  <2> QED BY <2>6 DEF CrcByte, k
<1>2. step \in [1 .. n -> [S -> S]] /\ seed \in S
  BY <1>1
<1>3. \A i \in 1 .. n : \A x \in S : step[i][x] = CrcByte(x, data, i, poly)
  OBVIOUS
<1>4. Crc32(seed, data, n, poly) = last[n]
  BY DEF Crc32
<1>5. n \in Nat /\ n \in 0 .. n
  OBVIOUS
<1> HIDE DEF S, step, last
<1>6. PICK f \in [0 .. n -> S] : Follows(f, n, seed, step)
  BY <1>2, <1>5, RecursionExists
<1>7. Good(f)
  <2>1. ASSUME NEW i \in 0 .. n, i # 0
        PROVE  step[i][f[i - 1]] = CrcByte(f[i - 1], data, i, poly)
    <3>1. i \in 1 .. n /\ i - 1 \in 0 .. n
      BY <1>5, <2>1
    <3> QED BY <1>3, <3>1
  <2> QED BY <1>6, <2>1 DEF Follows
<1>8. Good(last)
  BY <1>7 DEF last
<1>9. last[0] = seed /\ \A i \in 1 .. n : last[i] = CrcByte(last[i - 1], data, i, poly)
  <2>1. \A i \in 0 .. n : last[i] = IF i = 0 THEN seed ELSE CrcByte(last[i - 1], data, i, poly)
    BY <1>8
  <2>2. 0 \in 0 .. n /\ \A i \in 1 .. n : i \in 0 .. n /\ i # 0
    BY <1>5
  <2> HIDE DEF Good
  <2> QED BY <2>1, <2>2, Zenon
<1> HIDE DEF Good
<1>10. last[0] \in S /\ \A i \in 1 .. n : last[i - 1] \in S => last[i] \in S
  BY <1>1, <1>2, <1>9 DEF S
<1>11. \A i \in 0 .. n : last[i] \in S
  BY <1>5, <1>10, StepsTyped
<1> QED BY <1>4, <1>5, <1>11 DEF S

\* sbfm, bfm and ubfm.
LEMMA BitfieldTyped ==
  ASSUME NEW op, NEW src \in Int, NEW old \in Int, NEW bits \in {WBits, XBits},
         NEW lsb \in 0 .. bits - 1, NEW msb \in 0 .. bits - 1
  PROVE  Bitfield(op, src, old, lsb, msb, bits) \in Int
<1> DEFINE len == FieldLength(lsb, msb, bits)
           rest == bits - lsb
           up == Truncate(src * Pow2[rest], bits)
           rot == IF msb < lsb THEN up ELSE IF lsb = 0 THEN src ELSE Or(ShiftR(src, lsb), up)
           mask == Ones(len)
           field == And(rot, mask)
           bottom == IF msb < lsb THEN rest ELSE 0
           dm == Ones(len - bottom) * Pow2[bottom]
<1>1. /\ bits \in 0 .. XBits /\ lsb \in 0 .. XBits /\ rest \in 0 .. XBits
      /\ len \in 0 .. XBits /\ bottom \in 0 .. XBits /\ len - bottom \in 0 .. XBits
  BY Widths DEF FieldLength
<1> HIDE DEF len, rest, bottom
<1>2. up \in Int
  <2> DEFINE x == src * Pow2[rest]
  <2>1. x \in Int
    BY <1>1, Power
  <2> HIDE DEF x
  <2>2. Truncate(x, bits) \in Int
    BY <1>1, <2>1, TruncateIs
  <2> QED BY <2>2 DEF x
<1>3. ShiftR(src, lsb) \in Int /\ mask \in Int /\ Ones(bits) \in Int
  BY <1>1, ShiftsInt
<1> HIDE DEF up, mask
<1>4. rot \in Int
  BY <1>2, <1>3, AndInt
<1> HIDE DEF rot
<1>5. field \in Int
  BY <1>3, <1>4, AndInt
<1>6. dm \in Int
  <2>1. Ones(len - bottom) \in Int /\ Pow2[bottom] \in Int
    BY <1>1, Power, ShiftsInt
  <2> QED BY <2>1
<1> HIDE DEF field, dm
<1>7. Inv(dm) \in Int /\ Inv(mask) \in Int
  BY <1>1, <1>3, <1>6, ShiftsInt
<1>8. And(old, Inv(dm)) \in Int /\ And(field, dm) \in Int /\ And(Ones(bits), Inv(mask)) \in Int
  BY <1>3, <1>5, <1>6, <1>7, AndInt
<1>9. Or(And(old, Inv(dm)), And(field, dm)) \in Int /\ Or(field, And(Ones(bits), Inv(mask))) \in Int
  BY <1>5, <1>8, AndInt
<1>10. Bitfield(op, src, old, lsb, msb, bits) \in
         {Or(And(old, Inv(dm)), And(field, dm)), Or(field, And(Ones(bits), Inv(mask))), field}
  BY DEF Bitfield, len, rest, up, rot, mask, field, bottom, dm
<1> QED BY <1>5, <1>9, <1>10

\* extr.
LEMMA ExtractTyped ==
  ASSUME NEW hi \in Int, NEW lo \in Int, NEW bits \in {WBits, XBits},
         NEW amount \in 0 .. bits - 1
  PROVE  Extract(hi, lo, amount, bits) \in Int
<1> DEFINE rest == bits - amount
           high == IF amount = bits THEN hi ELSE ShiftL(hi, rest)
<1>1. amount \in 0 .. XBits /\ rest \in 0 .. XBits
  BY Widths
<1> HIDE DEF rest
<1>2. ShiftR(lo, amount) \in Int /\ high \in Int
  BY <1>1, ShiftsInt
<1> HIDE DEF high
<1>3. Or(ShiftR(lo, amount), high) \in Int
  BY <1>2, AndInt
<1> QED BY <1>3 DEF Extract, high, rest

\* lslv, lsrv, asrv and rorv.
LEMMA VarShiftTyped ==
  ASSUME NEW type \in {"LSL", "LSR", "ASR", "ROR"}, NEW src \in Int, NEW raw \in Int,
         NEW bits \in {WBits, XBits}
  PROVE  VarShift(type, src, raw, bits) \in Int
<1>1. bits \in Nat \ {0} /\ bits \in 0 .. XBits
  BY Widths
<1>2. raw % bits \in 0 .. bits - 1
  BY <1>1, DivMod
<1>3. Truncate(src, bits) \in Int
  BY <1>1, TruncateIs
<1> DEFINE amount == raw % bits
<1>4. amount \in 0 .. bits - 1
  BY <1>2
<1> HIDE DEF amount
<1>5. ShiftOperand(src, type, amount, bits).value \in Int
  BY <1>4, ShiftOperandTyped
<1> QED BY <1>3, <1>5 DEF VarShift, amount

-----------------------------------------------------------------------------
(* The register file.                                                      *)
Registers == [x : [GPRs -> Word], sp : Word, pc : Address, nzcv : SUBSET Flags]

RegsTyped == regs \in Registers

\* Addresses are register values.
LEMMA AddressIsWord == Address = Word /\ Top \in Nat /\ Top >= 255
<1>1. Pow2[XBits] \in Nat /\ Pow2[XBits] >= 256
  BY Power, PowerValues, Widths
<1> QED BY <1>1, ExecAssumption DEF Address, Word

\* Address arithmetic wraps into the address space.
LEMMA PlusTyped ==
  ASSUME NEW a \in Address, NEW b \in Address
  PROVE  Plus(a, b) \in Address
BY AddressIsWord DEF Plus, Address

\* A register read at a width fits that width.
LEMMA Reads ==
  ASSUME RegsTyped, NEW n \in Operands, NEW b \in 0 .. XBits
  PROVE  /\ ReadX(n, b) \in Int /\ 0 <= ReadX(n, b) /\ ReadX(n, b) < Pow2[b]
         /\ ReadSp(n, b) \in Int /\ 0 <= ReadSp(n, b) /\ ReadSp(n, b) < Pow2[b]
         /\ ReadX(n, b) \in Word /\ ReadSp(n, b) \in Word
<1>1. n # ZR => n \in GPRs
  BY DEF Operands
<1>2. regs.sp \in Int /\ (n # ZR => regs.x[n] \in Int)
  <2>1. regs.sp \in Word /\ (n # ZR => regs.x[n] \in Word)
    BY <1>1 DEF RegsTyped, Registers
  <2> QED BY <2>1, WordIs
<1>3. \A y \in Int : /\ Truncate(y, b) \in Int /\ 0 <= Truncate(y, b)
                     /\ Truncate(y, b) < Pow2[b] /\ Truncate(y, b) \in Word
  BY TruncateIs
<1>4. Pow2[b] \in Int /\ Pow2[b] > 0 /\ 0 \in Word
  <2>1. Pow2[XBits] \in Nat \ {0}
    BY Power, Widths
  <2> QED BY <2>1, Power DEF Word
<1>5. ReadX(n, b) = IF n = ZR THEN 0 ELSE Truncate(regs.x[n], b)
  BY DEF ReadX
<1>6. ReadSp(n, b) = Truncate(IF n = ZR THEN regs.sp ELSE regs.x[n], b)
  BY DEF ReadSp
<1> QED BY <1>2, <1>3, <1>4, <1>5, <1>6

\* A register file written to is one.
LEMMA Writes ==
  ASSUME NEW r \in Registers, NEW n \in Operands, NEW b \in 0 .. XBits, NEW value \in Int
  PROVE  WriteX(r, n, b, value) \in Registers /\ WriteSp(r, n, b, value) \in Registers
<1>1. n # ZR => n \in GPRs
  BY DEF Operands
<1>2. Truncate(value, b) \in Word
  BY TruncateIs
<1> QED BY <1>1, <1>2 DEF WriteX, WriteSp, Registers

LEMMA Advances ==
  ASSUME NEW r \in Registers
  PROVE  Advance(r) \in Registers
<1>1. r.pc \in Address /\ 4 \in Address
  BY AddressIsWord DEF Registers, Address
<1>2. Plus(r.pc, 4) \in Address
  BY <1>1, PlusTyped
<1> QED BY <1>2 DEF Advance, Registers

-----------------------------------------------------------------------------
(* Guest memory: bytes, and all the bytes of every region.                 *)
Backed == \A i \in DOMAIN regions : Bytes(regions[i].base, regions[i].size) \subseteq DOMAIN mem
MemTyped == DOMAIN mem \subseteq Address /\ mem \in [DOMAIN mem -> Byte] /\ Backed

\* What the bus serves is there.
LEMMA ServedBytes ==
  ASSUME regions \in Seq(Region), SoundTable(regions), MemTyped,
         NEW addr \in Address, NEW n \in Sizes, NEW perm, Serves(addr, n, perm)
  PROVE  \A i \in 0 .. n - 1 : addr + i \in DOMAIN mem /\ addr + i \in Address
<1> DEFINE hits == {i \in DOMAIN regions : {perm} \subseteq regions[i].perms
                                             /\ MemCovers(regions[i], addr, n)}
<1>1. hits # {}
  BY DEF Serves, MemFind, First
<1>2. PICK k \in DOMAIN regions : MemCovers(regions[k], addr, n)
  BY <1>1
<1>3. Exists(regions[k])
  BY DEF SoundTable
<1>4. regions[k].base <= addr /\ addr + n <= regions[k].base + regions[k].size
  BY <1>2, <1>3, CoversExact
<1>5. regions[k].base \in Address /\ regions[k].size \in Address
      /\ regions[k].base + regions[k].size <= Top + 1
  BY <1>3 DEF Exists
<1> DEFINE base == regions[k].base
           size == regions[k].size
<1>6. Bytes(base, size) \subseteq DOMAIN mem
  BY DEF MemTyped, Backed
<1> HIDE DEF base, size
<1>7. ASSUME NEW i \in 0 .. n - 1 PROVE addr + i \in Bytes(base, size) /\ addr + i \in Address
  BY <1>4, <1>5, TopAssumption DEF Bytes, Address, Sizes, base, size
<1> QED BY <1>6, <1>7

\* A width in bytes that the bus moves at once.
LEMMA ByteShifts ==
  ASSUME NEW n \in 1 .. 8
  PROVE  /\ n \in Sizes /\ n \in Nat /\ n * ByteBits \in 1 .. XBits
         /\ \A i \in 0 .. n - 1 : ByteBits * i \in 0 .. XBits
<1>1. n \in {1, 2, 3, 4, 5, 6, 7, 8}
  OBVIOUS
<1>2. n \in Sizes
  BY AddressIsWord DEF Sizes, Address
<1>3. n * ByteBits \in 1 .. XBits
  BY <1>1, Widths
<1>4. ASSUME NEW i \in 0 .. n - 1 PROVE ByteBits * i \in 0 .. XBits
  <2>1. i \in {0, 1, 2, 3, 4, 5, 6, 7}
    OBVIOUS
  <2> QED BY <2>1, Widths
<1> QED BY <1>2, <1>3, <1>4

\* What the bus serves can be loaded.
LEMMA LoadTyped ==
  ASSUME regions \in Seq(Region), SoundTable(regions), MemTyped,
         NEW addr \in Address, NEW n \in 1 .. 8, NEW perm, Serves(addr, n, perm),
         NEW signed \in BOOLEAN
  PROVE  Load(mem, addr, n) \in Int /\ LoadExt(mem, addr, n, signed) \in Int
<1> DEFINE f == [i \in 0 .. n - 1 |-> mem[addr + i] * Pow2[ByteBits * i]]
<1>1. n \in Sizes /\ n \in Nat /\ n * ByteBits \in 1 .. XBits
  BY ByteShifts
<1>2. ASSUME NEW i \in 0 .. n - 1 PROVE mem[addr + i] * Pow2[ByteBits * i] \in Int
  <2>1. mem[addr + i] \in Byte
    BY <1>1, ServedBytes DEF MemTyped
  <2>2. mem[addr + i] \in Int
    <3>1. Pow2[ByteBits] \in Int
      BY Power, Widths
    <3> QED BY <2>1, <3>1 DEF Byte
  <2>3. ByteBits * i \in 0 .. XBits
    BY ByteShifts
  <2> DEFINE k == ByteBits * i
  <2> HIDE DEF k
  <2>4. Pow2[k] \in Int
    BY <2>3, Power DEF k
  <2> DEFINE x == mem[addr + i]
             y == Pow2[k]
  <2>5. x \in Int /\ y \in Int
    BY <2>2, <2>4
  <2> HIDE DEF x, y
  <2>6. x * y \in Int
    BY <2>5
  <2> QED BY <2>6 DEF x, y, k
<1>3. f \in [0 .. n - 1 -> Int]
  BY <1>2
<1> HIDE DEF f
<1>4. SumTo(f, n) \in Int
  BY <1>1, <1>3, SumToInt
<1>5. Load(mem, addr, n) \in Int
  BY <1>4 DEF Load, f
<1>6. SignExtend(Load(mem, addr, n), n * ByteBits) \in Int
  <2> DEFINE b == n * ByteBits
  <2>1. b \in 1 .. XBits
    BY <1>1
  <2> HIDE DEF b
  <2>2. SignExtend(Load(mem, addr, n), b) \in Int
    BY <1>5, <2>1, SignedInt
  <2> QED BY <2>2 DEF b
<1> QED BY <1>5, <1>6 DEF LoadExt

\* What one instruction hands to the bus, a piece at a time.
Transfer == [addr : Address, n : 1 .. 8, value : Int]

\* A store leaves bytes.
LEMMA StoreTyped ==
  ASSUME NEW D \in SUBSET Address, NEW m \in [D -> Byte], NEW w \in Transfer
  PROVE  Store(m, w) \in [D -> Byte]
<1>1. DOMAIN m = D
  OBVIOUS
<1>2. w.addr \in Address /\ w.n \in 1 .. 8 /\ w.value \in Int
  BY DEF Transfer
<1>3. ASSUME NEW a \in D, w.addr <= a, a < w.addr + w.n
      PROVE  Truncate(ShiftR(w.value, ByteBits * (a - w.addr)), ByteBits) \in Byte
  <2> DEFINE i == a - w.addr
             k == ByteBits * i
  <2>1. i \in 0 .. w.n - 1
    BY <1>2, <1>3 DEF Address
  <2> HIDE DEF i
  <2>2. k \in 0 .. XBits
    BY <1>2, <2>1, ByteShifts
  <2> HIDE DEF k
  <2>3. ShiftR(w.value, k) \in Int
    BY <1>2, <2>2, ShiftsInt
  <2>4. ByteBits \in 0 .. XBits
    BY Widths
  <2>5. /\ Truncate(ShiftR(w.value, k), ByteBits) \in Int
        /\ 0 <= Truncate(ShiftR(w.value, k), ByteBits)
        /\ Truncate(ShiftR(w.value, k), ByteBits) < Pow2[ByteBits]
    BY <2>3, <2>4, TruncateIs
  <2>6. Pow2[ByteBits] \in Int
    BY <2>4, Power
  <2> QED BY <2>5, <2>6 DEF k, i, Byte
<1>4. Store(m, w) =
        [a \in D |-> IF w.addr <= a /\ a < w.addr + w.n
                     THEN Truncate(ShiftR(w.value, ByteBits * (a - w.addr)), ByteBits)
                     ELSE m[a]]
  BY <1>1 DEF Store
<1> QED BY <1>3, <1>4

\* So does a sequence of them.
LEMMA StoreAllTyped ==
  ASSUME NEW D \in SUBSET Address, NEW m \in [D -> Byte], NEW pieces \in Seq(Transfer)
  PROVE  StoreAll(m, pieces) \in [D -> Byte]
<1> DEFINE n == Len(pieces)
           S == [D -> Byte]
           step == [i \in 1 .. n |-> [x \in S |-> Store(x, pieces[i])]]
           Good(f) == f = [i \in 0 .. n |-> IF i = 0 THEN m ELSE Store(f[i - 1], pieces[i])]
           after == CHOOSE f : Good(f)
<1>1. n \in Nat /\ n \in 0 .. n /\ \A i \in 1 .. n : pieces[i] \in Transfer
  OBVIOUS
<1>2. \A x \in S, i \in 1 .. n : Store(x, pieces[i]) \in S
  BY <1>1, StoreTyped
<1>3. step \in [1 .. n -> [S -> S]] /\ m \in S
  <2> HIDE DEF n
  <2> QED BY <1>2
<1>4. \A i \in 1 .. n : \A x \in S : step[i][x] = Store(x, pieces[i])
  OBVIOUS
<1>5. StoreAll(m, pieces) = after[n]
  BY DEF StoreAll
<1> HIDE DEF S, step, after, n
<1>6. PICK f \in [0 .. n -> S] : Follows(f, n, m, step)
  BY <1>1, <1>3, RecursionExists
<1>7. Good(f)
  <2>1. ASSUME NEW i \in 0 .. n, i # 0 PROVE step[i][f[i - 1]] = Store(f[i - 1], pieces[i])
    <3>1. i \in 1 .. n /\ i - 1 \in 0 .. n
      BY <1>1, <2>1
    <3> QED BY <1>4, <3>1
  <2> QED BY <1>6, <2>1 DEF Follows
<1>8. Good(after)
  BY <1>7 DEF after
<1>9. after[0] = m /\ \A i \in 1 .. n : after[i] = Store(after[i - 1], pieces[i])
  <2>1. \A i \in 0 .. n : after[i] = IF i = 0 THEN m ELSE Store(after[i - 1], pieces[i])
    BY <1>8
  <2>2. 0 \in 0 .. n /\ \A i \in 1 .. n : i \in 0 .. n /\ i # 0
    BY <1>1
  <2> HIDE DEF Good
  <2> QED BY <2>1, <2>2, Zenon
<1> HIDE DEF Good
<1>10. after[0] \in S /\ \A i \in 1 .. n : after[i - 1] \in S => after[i] \in S
  BY <1>2, <1>3, <1>9
<1>11. \A i \in 0 .. n : after[i] \in S
  BY <1>1, <1>10, StepsTyped
<1> QED BY <1>1, <1>5, <1>11 DEF S

-----------------------------------------------------------------------------
(* What an instruction computes is an integer, and its flags are flags.    *)

\* The operands of a decoded instruction.
LEMMA Fields ==
  ASSUME NEW in, Decoded(in)
  PROVE  /\ in.bits \in {WBits, XBits} /\ in.bits \in 0 .. XBits /\ in.bits \in 1 .. XBits
         /\ in.rd \in Operands /\ in.rn \in Operands /\ in.rm \in Operands
         /\ in.ra \in Operands /\ in.rt2 \in Operands
         /\ in.imm \in Int /\ in.uimm \in Int /\ in.amount \in 0 .. XBits
         /\ in.shift \in {"LSL", "LSR", "ASR", "ROR"}
         /\ in.signed \in BOOLEAN /\ in.rdSp \in BOOLEAN /\ in.rnSp \in BOOLEAN
         /\ in.kind \in {"IMM", "REG", "SHIFTED", "EXTENDED"}
         /\ in.vec \in BOOLEAN /\ in.size \in {1, 2, 4, 8, 16}
<1>1. /\ in.bits \in {WBits, XBits} /\ in.rd \in Operands /\ in.rn \in Operands
      /\ in.rm \in Operands /\ in.ra \in Operands /\ in.rt2 \in Operands
      /\ in.imm \in Int /\ in.uimm \in Word /\ in.amount \in 0 .. XBits - 1
      /\ in.shift \in {"LSL", "LSR", "ASR", "ROR"} /\ in.signed \in BOOLEAN
      /\ in.rdSp \in BOOLEAN /\ in.rnSp \in BOOLEAN
      /\ in.kind \in {"IMM", "REG", "SHIFTED", "EXTENDED"}
      /\ in.vec \in BOOLEAN /\ in.size \in {1, 2, 4, 8, 16}
  BY DEF Decoded
<1>2. in.uimm \in Int
  BY <1>1, WordIs
<1>3. in.bits \in 0 .. XBits /\ in.bits \in 1 .. XBits
  BY <1>1, BitsIs
<1>4. in.amount \in 0 .. XBits
  BY <1>1, Widths
<1> QED BY <1>1, <1>2, <1>3, <1>4

\* Every register an instruction names reads as an integer, at either width.
LEMMA ReadInt ==
  ASSUME RegsTyped, NEW n \in Operands, NEW b \in 0 .. XBits, NEW spForm \in BOOLEAN
  PROVE  ReadX(n, b) \in Int /\ ReadSp(n, b) \in Int /\ ReadG(n, spForm, b) \in Int
<1>1. ReadX(n, b) \in Int /\ ReadSp(n, b) \in Int
  BY Reads
<1> QED BY <1>1 DEF ReadG

\* The second operand, in all four forms.
LEMMA Operand2Int ==
  ASSUME RegsTyped, NEW in, Decoded(in)
  PROVE  Operand2(in) \in Int
<1>1. /\ in.bits \in {WBits, XBits} /\ in.bits \in 0 .. XBits /\ in.rm \in Operands
      /\ in.uimm \in Int /\ in.amount \in 0 .. XBits
      /\ in.shift \in {"LSL", "LSR", "ASR", "ROR"}
      /\ in.kind \in {"IMM", "REG", "SHIFTED", "EXTENDED"}
  BY Fields
<1>2. XBits \in 0 .. XBits
  BY Widths
<1>3. ReadX(in.rm, in.bits) \in Int /\ ReadX(in.rm, XBits) \in Int
  BY <1>1, <1>2, Reads
<1>4. CASE in.kind = "SHIFTED"
  <2>1. in.amount \in 0 .. in.bits - 1
    <3>1. in.amount < in.bits
      BY <1>4 DEF Decoded
    <3> QED BY <1>1, <3>1, Widths
  <2>2. Shifted(in).value \in Int
    BY <1>1, <1>3, <2>1, ShiftOperandTyped DEF Shifted
  <2> QED BY <1>4, <2>2 DEF Operand2
<1>5. CASE in.kind = "EXTENDED"
  <2>1. ExtendOperand(ReadX(in.rm, XBits), in.extend, in.amount) \in Int
    BY <1>1, <1>3, ExtendOperandTyped
  <2> QED BY <1>5, <2>1 DEF Operand2
<1>6. CASE in.kind = "IMM"
  BY <1>1, <1>6 DEF Operand2
<1>7. CASE in.kind = "REG"
  BY <1>3, <1>7 DEF Operand2
<1> QED BY <1>1, <1>4, <1>5, <1>6, <1>7

Typed(r) == r.value \in Int /\ r.nzcv \in SUBSET Flags

LEMMA KeepTyped ==
  ASSUME RegsTyped, NEW x \in Int
  PROVE  Typed(Keep(x))
BY DEF RegsTyped, Registers, Keep, Typed

\* The results of the data-processing groups.
LEMMA AddSubTyped ==
  ASSUME RegsTyped, NEW in, Decoded(in)
  PROVE  Typed(AddSubResult(in)) /\ Typed(CarryResult(in))
<1>1. /\ in.bits \in {WBits, XBits} /\ in.bits \in 0 .. XBits /\ in.rm \in Operands
      /\ in.rn \in Operands /\ in.rnSp \in BOOLEAN /\ XBits \in 0 .. XBits
  BY Fields, Widths
<1> DEFINE n == ReadG(in.rn, in.rnSp, in.bits)
           x == ReadX(in.rn, in.bits)
           m == ReadX(in.rm, in.bits)
           o == Operand2(in)
           sub == in.op \in {"SUB", "SUBS"}
           carry == "C" \in regs.nzcv
           a == IF sub THEN Inv(o) ELSE o
           b == IF in.op \in {"SBC", "SBCS"} THEN Inv(m) ELSE m
           r == AddWithCarry(n, a, sub, in.bits)
           s == AddWithCarry(x, b, carry, in.bits)
<1>2. n \in Int /\ x \in Int /\ m \in Int /\ o \in Int
  BY <1>1, ReadInt, Operand2Int
<1>3. sub \in BOOLEAN /\ carry \in BOOLEAN
  OBVIOUS
<1> HIDE DEF n, x, m, o, sub, carry
<1>4. a \in Int /\ b \in Int
  BY <1>1, <1>2, ShiftsInt
<1> HIDE DEF a, b
<1>5. Typed(r) /\ Typed(s)
  BY <1>1, <1>2, <1>3, <1>4, AddWithCarryTyped DEF Typed
<1>6. Typed(Keep(r.value)) /\ Typed(Keep(s.value))
  BY <1>5, KeepTyped DEF Typed
<1>7. AddSubResult(in) = IF in.op \in {"ADDS", "SUBS"} THEN r ELSE Keep(r.value)
  BY DEF AddSubResult, n, o, sub, a
<1>8. CarryResult(in) = IF in.op \in {"ADCS", "SBCS"} THEN s ELSE Keep(s.value)
  BY DEF CarryResult, x, m, carry, b
<1> HIDE DEF r, s
<1> QED BY <1>5, <1>6, <1>7, <1>8

LEMMA LogicalTyped ==
  ASSUME RegsTyped, NEW in, Decoded(in)
  PROVE  Typed(LogicalResult(in))
<1>1. in.bits \in 0 .. XBits /\ in.rn \in Operands /\ XBits \in 0 .. XBits
  BY Fields, Widths
<1> DEFINE n == ReadX(in.rn, in.bits)
           o == Operand2(in)
           m == IF in.op \in {"BIC", "BICS", "ORN", "EON"} THEN Inv(o) ELSE o
           result == CASE in.op \in {"AND", "ANDS", "BIC", "BICS"} -> And(n, m)
                       [] in.op \in {"ORR", "ORN"} -> Or(n, m)
                       [] OTHER -> Xor(n, m)
           flagged == [value |-> result,
                       nzcv |-> LogicalFlags(regs.nzcv, result, in, in.bits, Shifted(in))]
<1>2. n \in Int /\ o \in Int
  BY <1>1, Reads, Operand2Int
<1> HIDE DEF n, o
<1>3. m \in Int
  BY <1>1, <1>2, ShiftsInt
<1> HIDE DEF m
<1>4. And(n, m) \in Int /\ Or(n, m) \in Int /\ Xor(n, m) \in Int
  BY <1>2, <1>3, AndInt
<1>5. result \in Int
  BY <1>4
<1>6. LogicalResult(in) = IF in.op \in {"ANDS", "BICS"} THEN flagged ELSE Keep(result)
  BY DEF LogicalResult, n, o, m
<1> HIDE DEF result
<1>7. Typed(flagged)
  <2>1. regs.nzcv \in SUBSET Flags
    BY DEF RegsTyped, Registers
  <2>2. LogicalFlags(regs.nzcv, result, in, in.bits, Shifted(in)) \in SUBSET Flags
    BY <2>1, LogicalFlagsTyped
  <2> QED BY <1>5, <2>2 DEF Typed
<1> QED BY <1>5, <1>6, <1>7, KeepTyped

LEMMA MoveTyped ==
  ASSUME RegsTyped, NEW in, Decoded(in), in.op \in Moves
  PROVE  MoveResult(in) \in Int
<1>1. /\ in.bits \in 0 .. XBits /\ in.rd \in Operands /\ XBits \in 0 .. XBits
      /\ in.uimm \in Int /\ in.imm \in Int /\ in.amount \in 0 .. XBits /\ HalfBits \in 0 .. XBits
  BY Fields, Widths
<1> DEFINE mask == ShiftL(Ones(HalfBits), in.amount)
           old == ReadX(in.rd, in.bits)
<1>2. mask \in Int /\ old \in Int /\ Inv(in.uimm) \in Int
  <2>1. Ones(HalfBits) \in Int
    BY <1>1, ShiftsInt
  <2> QED BY <1>1, <2>1, ShiftsInt, Reads
<1> HIDE DEF mask, old
<1>3. Inv(mask) \in Int
  BY <1>1, <1>2, ShiftsInt
<1>4. And(old, Inv(mask)) \in Int /\ And(in.uimm, mask) \in Int
  BY <1>1, <1>2, <1>3, AndInt
<1>5. Or(And(old, Inv(mask)), And(in.uimm, mask)) \in Int
  BY <1>4, AndInt
<1> QED BY <1>1, <1>2, <1>5 DEF MoveResult, Moves, mask, old

LEMMA ShuffleTyped ==
  ASSUME RegsTyped, NEW in, Decoded(in), in.op \in Shufflers
  PROVE  ShuffleResult(in) \in Int
<1>1. in.bits \in {WBits, XBits} /\ in.bits \in 0 .. XBits /\ in.rn \in Operands
  BY Fields
<1> DEFINE n == ReadX(in.rn, in.bits)
<1>2. n \in Int
  BY <1>1, Reads
<1> HIDE DEF n
<1>3. /\ RBit(n, in.bits) \in Int /\ Rev(n, in.bits) \in Int /\ Rev16(n, in.bits) \in Int
      /\ Rev32(n) \in Int /\ Clz(n, in.bits) \in Int /\ Cls(n, in.bits) \in Int
  BY <1>1, <1>2, ShufflersTyped, ClzTyped
<1> QED BY <1>3 DEF ShuffleResult, Shufflers, n

LEMMA WideningTyped ==
  ASSUME RegsTyped, NEW in, Decoded(in)
  PROVE  WideningResult(in) \in Int
<1>1. /\ in.ra \in Operands /\ in.rn \in Operands /\ in.rm \in Operands
      /\ XBits \in 0 .. XBits /\ WBits \in 0 .. XBits
  BY Fields, Widths
<1> DEFINE acc == ReadX(in.ra, XBits)
           n == ReadX(in.rn, WBits)
           m == ReadX(in.rm, WBits)
           signed == in.op \in {"SMADDL", "SMSUBL"}
           add == in.op \in {"SMADDL", "UMADDL"}
<1>2. acc \in Int /\ n \in Int /\ m \in Int
  BY <1>1, Reads
<1>3. signed \in BOOLEAN /\ add \in BOOLEAN
  OBVIOUS
<1>4. WideningResult(in) = MulAdd(acc, WideFactor(n, signed), WideFactor(m, signed), add)
  BY DEF WideningResult
<1> HIDE DEF acc, n, m, signed, add
<1>5. WideFactor(n, signed) \in Int /\ WideFactor(m, signed) \in Int
  BY <1>2, <1>3, ProductTyped
<1> QED BY <1>2, <1>3, <1>4, <1>5, ProductTyped

LEMMA SelectTyped ==
  ASSUME RegsTyped, NEW in, Decoded(in), in.op \in Selects
  PROVE  SelectResult(in) \in Int
<1>1. /\ in.bits \in 0 .. XBits /\ in.rn \in Operands /\ in.rm \in Operands
      /\ XBits \in 0 .. XBits
  BY Fields, Widths
<1> DEFINE a == ReadX(in.rn, in.bits)
           b == ReadX(in.rm, in.bits)
<1>2. a \in Int /\ b \in Int
  BY <1>1, Reads
<1> HIDE DEF a, b
<1>3. b + 1 \in Int /\ -b \in Int
  BY <1>2
<1>4. Truncate(b + 1, XBits) \in Int /\ Truncate(-b, XBits) \in Int /\ Inv(b) \in Int
  BY <1>1, <1>2, <1>3, TruncateIs, ShiftsInt
<1> QED BY <1>2, <1>4 DEF SelectResult, Selects, a, b

\* The groups whose result is one helper of exec.c.
LEMMA PlainTyped ==
  ASSUME RegsTyped, NEW in, Decoded(in)
  PROVE  LET n == ReadX(in.rn, in.bits)
             m == ReadX(in.rm, in.bits)
         IN /\ in.op \in Bitfields =>
                 Bitfield(in.op, n, ReadX(in.rd, in.bits), in.amount, in.msb, in.bits) \in Int
            /\ in.op = "EXTR" => Extract(n, m, in.amount, in.bits) \in Int
            /\ in.op \in VarShifts => VarShift(ShiftType[in.op], n, m, in.bits) \in Int
            /\ in.op \in Crcs => Crc32(ReadX(in.rn, WBits), ReadX(in.rm, XBits), in.uimm,
                                       Poly(in.op = "CRC32C")) \in Int
            /\ Divide(in.op = "SDIV", n, m, in.bits) \in Int
            /\ MulAdd(ReadX(in.ra, in.bits), n, m, in.op = "MADD") \in Int
            /\ SMulH(ReadX(in.rn, XBits), ReadX(in.rm, XBits)) \in Int
            /\ UMulH(ReadX(in.rn, XBits), ReadX(in.rm, XBits)) \in Int
<1>1. /\ in.bits \in {WBits, XBits} /\ in.bits \in 0 .. XBits
      /\ in.rd \in Operands /\ in.rn \in Operands /\ in.rm \in Operands /\ in.ra \in Operands
      /\ XBits \in 0 .. XBits /\ WBits \in 0 .. XBits
  BY Fields, Widths
<1> DEFINE n == ReadX(in.rn, in.bits)
           m == ReadX(in.rm, in.bits)
           d == ReadX(in.rd, in.bits)
           a == ReadX(in.ra, in.bits)
           x == ReadX(in.rn, XBits)
           y == ReadX(in.rm, XBits)
           w == ReadX(in.rn, WBits)
<1>2. /\ n \in Int /\ m \in Int /\ d \in Int /\ a \in Int /\ x \in Int /\ y \in Int /\ w \in Int
      /\ 0 <= m /\ m < Pow2[in.bits]
  BY <1>1, Reads
<1> HIDE DEF n, m, d, a, x, y, w
<1>3. ASSUME in.op \in Bitfields \cup {"EXTR"}
      PROVE  in.amount \in 0 .. in.bits - 1 /\ in.msb \in 0 .. in.bits - 1
  <2>1. in.amount < in.bits /\ in.msb < in.bits
    BY <1>3 DEF Decoded
  <2>2. in.amount \in 0 .. XBits - 1 /\ in.msb \in 0 .. XBits - 1
    BY DEF Decoded
  <2> QED BY <1>1, <2>1, <2>2, Widths
<1>4. in.op \in Bitfields => Bitfield(in.op, n, d, in.amount, in.msb, in.bits) \in Int
  BY <1>1, <1>2, <1>3, BitfieldTyped
<1>5. in.op = "EXTR" => Extract(n, m, in.amount, in.bits) \in Int
  BY <1>1, <1>2, <1>3, ExtractTyped
<1>6. in.op \in VarShifts => VarShift(ShiftType[in.op], n, m, in.bits) \in Int
  <2>1. in.op \in VarShifts => ShiftType[in.op] \in {"LSL", "LSR", "ASR", "ROR"}
    BY DEF VarShifts, ShiftType
  <2> QED BY <1>1, <1>2, <2>1, VarShiftTyped
<1>7. in.op \in Crcs => Crc32(w, y, in.uimm, Poly(in.op = "CRC32C")) \in Int
  <2> DEFINE c == in.op = "CRC32C"
             p == Poly(c)
  <2>1. c \in BOOLEAN
    OBVIOUS
  <2> HIDE DEF c
  <2>2. p \in Word
    BY <2>1, ExecAssumption
  <2> HIDE DEF p
  <2>3. p \in Int
    BY <2>2, WordIs
  <2>4. in.op \in Crcs => in.uimm \in {1, 2, 4, 8}
    BY DEF Decoded
  <2>5. in.op \in Crcs => Crc32(w, y, in.uimm, p) \in Int
    BY <1>2, <2>3, <2>4, Crc32Typed
  <2> QED BY <2>5 DEF p, c
<1>8. Divide(in.op = "SDIV", n, m, in.bits) \in Int
  <2> DEFINE s == in.op = "SDIV"
  <2>1. s \in BOOLEAN
    OBVIOUS
  <2> HIDE DEF s
  <2>2. Divide(s, n, m, in.bits) \in Int
    BY <1>1, <1>2, <2>1, DivideTyped
  <2> QED BY <2>2 DEF s
<1>9. MulAdd(a, n, m, in.op = "MADD") \in Int
  <2> DEFINE s == in.op = "MADD"
  <2>1. s \in BOOLEAN
    OBVIOUS
  <2> HIDE DEF s
  <2>2. MulAdd(a, n, m, s) \in Int
    BY <1>2, <2>1, ProductTyped
  <2> QED BY <2>2 DEF s
<1>10. SMulH(x, y) \in Int /\ UMulH(x, y) \in Int
  BY <1>2, HighWordsTyped
<1> QED BY <1>4, <1>5, <1>6, <1>7, <1>8, <1>9, <1>10 DEF n, m, d, a, x, y, w

\* Every data-processing instruction has a value and flags.
LEMMA DataTyped ==
  ASSUME RegsTyped, NEW in, Decoded(in), in.op \in DataOps
  PROVE  Typed(DataResult(in)) /\ WidthOf(in) \in 0 .. XBits
<1>1. WidthOf(in) \in 0 .. XBits
  <2>1. XBits \in 0 .. XBits /\ WBits \in 0 .. XBits /\ in.bits \in 0 .. XBits
    BY Fields, Widths
  <2> QED BY <2>1 DEF WidthOf
<1> DEFINE n == ReadX(in.rn, in.bits)
           m == ReadX(in.rm, in.bits)
<1>2. CASE in.op \in AddSub \cup WithCarry
  <2>1. DataResult(in) = AddSubResult(in) \/ DataResult(in) = CarryResult(in)
    BY <1>2 DEF DataResult, AddSub, WithCarry, Logical, Moves, Bitfields, VarShifts, Crcs,
       Shufflers, Divisions, Products, Widening, Selects
  <2> QED BY <1>1, <2>1, AddSubTyped
<1>3. CASE in.op \in Logical
  <2>1. DataResult(in) = LogicalResult(in)
    BY <1>3 DEF DataResult, AddSub, WithCarry, Logical, Moves, Bitfields, VarShifts, Crcs,
       Shufflers, Divisions, Products, Widening, Selects
  <2> QED BY <1>1, <2>1, LogicalTyped
<1>4. CASE in.op \in Moves
  <2>1. DataResult(in) = Keep(MoveResult(in))
    BY <1>4 DEF DataResult, AddSub, WithCarry, Logical, Moves, Bitfields, VarShifts, Crcs,
       Shufflers, Divisions, Products, Widening, Selects
  <2> QED BY <1>1, <1>4, <2>1, MoveTyped, KeepTyped
<1>5. CASE in.op \in Bitfields \cup {"EXTR"} \cup VarShifts \cup Crcs
  <2> DEFINE b == Bitfield(in.op, n, ReadX(in.rd, in.bits), in.amount, in.msb, in.bits)
             e == Extract(n, m, in.amount, in.bits)
             s == VarShift(ShiftType[in.op], n, m, in.bits)
             c == Crc32(ReadX(in.rn, WBits), ReadX(in.rm, XBits), in.uimm,
                        Poly(in.op = "CRC32C"))
  <2>1. /\ in.op \in Bitfields => DataResult(in) = Keep(b)
        /\ in.op = "EXTR" => DataResult(in) = Keep(e)
        /\ in.op \in VarShifts => DataResult(in) = Keep(s)
        /\ in.op \in Crcs => DataResult(in) = Keep(c)
    BY <1>5 DEF DataResult, AddSub, WithCarry, Logical, Moves, Bitfields, VarShifts, Crcs,
       Shufflers, Divisions, Products, Widening, Selects
  <2>2. /\ in.op \in Bitfields => b \in Int
        /\ in.op = "EXTR" => e \in Int
        /\ in.op \in VarShifts => s \in Int
        /\ in.op \in Crcs => c \in Int
    BY PlainTyped
  <2> HIDE DEF b, e, s, c
  <2> QED BY <1>1, <1>5, <2>1, <2>2, KeepTyped
<1>6. CASE in.op \in Shufflers
  <2>1. DataResult(in) = Keep(ShuffleResult(in))
    BY <1>6 DEF DataResult, AddSub, WithCarry, Logical, Moves, Bitfields, VarShifts, Crcs,
       Shufflers, Divisions, Products, Widening, Selects
  <2> QED BY <1>1, <1>6, <2>1, ShuffleTyped, KeepTyped
<1>7. CASE in.op \in Divisions \cup Products \cup HighWords
  <2> DEFINE q == Divide(in.op = "SDIV", n, m, in.bits)
             p == MulAdd(ReadX(in.ra, in.bits), n, m, in.op = "MADD")
             s == SMulH(ReadX(in.rn, XBits), ReadX(in.rm, XBits))
             u == UMulH(ReadX(in.rn, XBits), ReadX(in.rm, XBits))
  <2>1. /\ in.op \in Divisions => DataResult(in) = Keep(q)
        /\ in.op \in Products => DataResult(in) = Keep(p)
        /\ in.op = "SMULH" => DataResult(in) = Keep(s)
        /\ in.op = "UMULH" => DataResult(in) = Keep(u)
    BY <1>7 DEF DataResult, AddSub, WithCarry, Logical, Moves, Bitfields, VarShifts, Crcs,
       Shufflers, Divisions, Products, Widening, Selects
  <2>2. q \in Int /\ p \in Int /\ s \in Int /\ u \in Int
    BY PlainTyped
  <2> HIDE DEF q, p, s, u
  <2> QED BY <1>1, <1>7, <2>1, <2>2, KeepTyped DEF HighWords
<1>8. CASE in.op \in Widening
  <2>1. DataResult(in) = Keep(WideningResult(in))
    BY <1>8 DEF DataResult, AddSub, WithCarry, Logical, Moves, Bitfields, VarShifts, Crcs,
       Shufflers, Divisions, Products, Widening, Selects
  <2> QED BY <1>1, <2>1, WideningTyped, KeepTyped
<1>9. CASE in.op \in Selects
  <2>1. DataResult(in) = Keep(SelectResult(in))
    BY <1>9 DEF DataResult, AddSub, WithCarry, Logical, Moves, Bitfields, VarShifts, Crcs,
       Shufflers, Divisions, Products, Widening, Selects
  <2> QED BY <1>1, <1>9, <2>1, SelectTyped, KeepTyped
<1> QED BY <1>2, <1>3, <1>4, <1>5, <1>6, <1>7, <1>8, <1>9 DEF DataOps

-----------------------------------------------------------------------------
(* The state the executor works on.                                        *)
Monitor == [valid : BOOLEAN, addr : Address, size : Nat]
Core ==
  /\ RegsTyped
  /\ v \in [VRs -> Int \X Int]
  /\ tpidr \in Word
  /\ monitor \in Monitor
  /\ MemTyped

\* What the executor finds in place: the text, the region table and the core.
Ready == regions \in Seq(Region) /\ SoundTable(regions) /\ Core /\ ExclusiveSafe

\* A step that leaves memory and the monitor alone.
LEMMA RetireKeeps ==
  ASSUME Ready, NEW r \in Registers, Retire(r), UNCHANGED <<mem, monitor, touched>>,
         v' \in [VRs -> Int \X Int], tpidr' \in Word
  PROVE  Core' /\ ExclusiveSafe'
<1>1. regs' = r /\ regions' = regions
  BY DEF Retire
<1>2. RegsTyped' /\ monitor' \in Monitor /\ MemTyped'
  BY <1>1 DEF Ready, Core, RegsTyped, MemTyped, Backed
<1> QED BY <1>2 DEF Ready, Core, ExclusiveSafe

\* A step that stores nothing.
LEMMA QuietKeeps ==
  ASSUME Ready, NEW r \in Registers, Quiet(r)
  PROVE  Core' /\ ExclusiveSafe'
BY RetireKeeps DEF Quiet, Ready, Core

\* A step that fails.
LEMMA RefuseKeeps ==
  ASSUME Ready, NEW verdict, Refuse(verdict)
  PROVE  Core' /\ ExclusiveSafe'
BY DEF Refuse, Ready, Core, RegsTyped, MemTyped, Backed, ExclusiveSafe

\* Data processing and conditional compares.
LEMMA DataKeeps ==
  ASSUME Ready, NEW in, Decoded(in), DataProcessing(in) \/ ConditionalCompare(in)
  PROVE  Core' /\ ExclusiveSafe'
<1>1. RegsTyped /\ regs \in Registers /\ v \in [VRs -> Int \X Int] /\ tpidr \in Word
  BY DEF Ready, Core, RegsTyped
<1>2. in.rd \in Operands /\ in.rdSp \in BOOLEAN
  BY Fields
<1>3. CASE DataProcessing(in)
  <2> DEFINE d == DataResult(in)
             r == [regs EXCEPT !.nzcv = d.nzcv]
             s == WriteG(r, in.rd, in.rdSp, WidthOf(in), d.value)
  <2>1. /\ in.op \in DataOps /\ Retire(Advance(s))
        /\ UNCHANGED <<mem, v, monitor, tpidr, touched>>
    BY <1>3 DEF DataProcessing
  <2>2. d.value \in Int /\ d.nzcv \in SUBSET Flags /\ WidthOf(in) \in 0 .. XBits
    BY <1>1, <2>1, DataTyped DEF Typed
  <2> HIDE DEF d
  <2>3. r \in Registers
    BY <1>1, <2>2 DEF Registers
  <2> HIDE DEF r
  <2>4. s \in Registers
    BY <1>2, <2>2, <2>3, Writes DEF WriteG
  <2>5. Advance(s) \in Registers
    BY <2>4, Advances
  <2> HIDE DEF s
  <2> QED BY <1>1, <2>1, <2>5, RetireKeeps
<1>4. CASE ConditionalCompare(in)
  <2> DEFINE n == ReadX(in.rn, in.bits)
             m == IF in.kind = "IMM" THEN in.imm ELSE ReadX(in.rm, in.bits)
             r == IF in.op = "CCMP" THEN AddWithCarry(n, Inv(m), TRUE, in.bits)
                  ELSE AddWithCarry(n, m, FALSE, in.bits)
             held == CondHolds(regs.nzcv, in.cond)
             f == IF held THEN r.nzcv ELSE FlagsOf(in.uimm * Pow2[WBits - 4])
             s == [regs EXCEPT !.nzcv = f]
  <2>1. Retire(Advance(s)) /\ UNCHANGED <<mem, v, monitor, tpidr, touched>>
    BY <1>4 DEF ConditionalCompare
  <2>2. /\ in.bits \in {WBits, XBits} /\ in.bits \in 0 .. XBits /\ in.rn \in Operands
        /\ in.rm \in Operands /\ in.imm \in Int /\ XBits \in 0 .. XBits
    BY Fields, Widths
  <2>3. n \in Int /\ m \in Int
    BY <1>1, <2>2, Reads
  <2> HIDE DEF n, m, held
  <2>4. Inv(m) \in Int
    BY <2>2, <2>3, ShiftsInt
  <2>5. r.nzcv \in SUBSET Flags
    BY <2>2, <2>3, <2>4, AddWithCarryTyped
  <2> HIDE DEF r
  <2>6. f \in SUBSET Flags
    BY <2>5 DEF FlagsOf
  <2> HIDE DEF f
  <2>7. s \in Registers
    BY <1>1, <2>6 DEF Registers
  <2>8. Advance(s) \in Registers
    BY <2>7, Advances
  <2> HIDE DEF s
  <2> QED BY <1>1, <2>1, <2>8, RetireKeeps
<1> QED BY <1>3, <1>4

-----------------------------------------------------------------------------
(* Stores and the monitor.                                                 *)

\* Sums of addresses: two steps are one, and a sum that has not wrapped is
\* the sum.
LEMMA PlusSmall ==
  ASSUME NEW a \in Address, NEW i \in 0 .. 64, NEW j \in 0 .. 64
  PROVE  /\ Plus(a, i) \in Address /\ Plus(Plus(a, i), j) = Plus(a, i + j)
         /\ Plus(a, i) < a \/ Plus(a, i) = a + i
BY AddressIsWord DEF Plus, Address

\* The bytes of a piece k bytes above an address, if they have not wrapped.
LEMMA PieceBytes ==
  ASSUME NEW addr \in Address, NEW k \in 0 .. 24, NEW n \in 1 .. 8, NEW value,
         NEW b \in BytesOf(Piece(Plus(addr, k), n, value))
  PROVE  b \in Address /\ (b < addr \/ b < addr + (k + n))
<1>1. PICK i \in 0 .. n - 1 : b = Plus(Plus(addr, k), i)
  BY DEF BytesOf, Piece
<1>2. i \in 0 .. 64 /\ k \in 0 .. 64 /\ k + i \in 0 .. 64
  OBVIOUS
<1>3. b = Plus(addr, k + i)
  BY <1>1, <1>2, PlusSmall
<1>4. b \in Address /\ (b < addr \/ b = addr + (k + i))
  BY <1>2, <1>3, PlusSmall
<1> QED BY <1>4, AddressIsWord DEF Address

\* The bytes of one piece start at its address.
LEMMA FirstBytes ==
  ASSUME NEW addr \in Address, NEW n \in 1 .. 8, NEW value,
         NEW b \in BytesOf(Piece(addr, n, value))
  PROVE  b \in Address /\ (b < addr \/ b < addr + n)
<1>1. Plus(addr, 0) = addr /\ 0 + n = n
  BY AddressIsWord DEF Plus, Address
<1>2. b \in BytesOf(Piece(Plus(addr, 0), n, value))
  BY <1>1
<1>3. 0 \in 0 .. 24
  OBVIOUS
<1>4. b \in Address /\ (b < addr \/ b < addr + (0 + n))
  BY <1>2, <1>3, PieceBytes
<1> QED BY <1>1, <1>4

\* A reservation that outlives note_store shares no byte with the range.
LEMMA NoteStoreClears ==
  ASSUME monitor \in Monitor, NEW addr \in Address, NEW n \in Nat
  PROVE  /\ NoteStore(addr, n) \in Monitor
         /\ NoteStore(addr, n).valid =>
              /\ NoteStore(addr, n) = monitor
              /\ \A b \in Bytes(monitor.addr, monitor.size) : b < addr \/ b >= addr + n
<1>1. monitor.valid \in BOOLEAN /\ monitor.addr \in Address /\ monitor.size \in Nat
  BY DEF Monitor
<1>2. NoteStore(addr, n) \in Monitor
  BY DEF NoteStore, Monitor
<1>3. NoteStore(addr, n).valid => /\ NoteStore(addr, n) = monitor
                                  /\ ~Overlap(monitor.addr, monitor.size, addr, n)
  BY <1>1 DEF NoteStore, Monitor
<1>4. ASSUME NEW b \in Bytes(monitor.addr, monitor.size), ~(b < addr), ~(b >= addr + n)
      PROVE  Overlap(monitor.addr, monitor.size, addr, n)
  <2> DEFINE a == monitor.addr
             m == monitor.size
  <2>1. a \in Address /\ m \in Nat /\ b \in Address /\ a <= b /\ b < a + m
    BY <1>1, <1>4 DEF Bytes
  <2> HIDE DEF a, m
  <2>2. CASE a <= addr
    <3>1. Minus(addr, a) = addr - a
      BY <2>1, <2>2, MinusExact
    <3>2. addr - a < m
      BY <1>4, <2>1, AddressIsWord DEF Address
    <3> QED BY <2>2, <3>1, <3>2 DEF Overlap, a, m
  <2>3. CASE ~(a <= addr)
    <3>1. Minus(a, addr) = a - addr
      BY <2>1, <2>3, MinusExact, AddressIsWord DEF Address
    <3>2. a - addr < n
      BY <1>4, <2>1, AddressIsWord DEF Address
    <3> QED BY <2>3, <3>1, <3>2 DEF Overlap, a, m
  <2> QED BY <2>2, <2>3
<1> QED BY <1>2, <1>3, <1>4

\* The stores of one instruction, when what it leaves of the reservation has
\* none of the bytes stored at or above the first address.
LEMMA StoresKeep ==
  ASSUME Ready, NEW pieces \in Seq(Transfer), NEW how, NEW mon \in Monitor,
         NEW r \in Registers, Stores(pieces, how, mon, r),
         how # "vector" /\ mon.valid =>
           /\ mon = monitor
           /\ \A i \in DOMAIN pieces : \A b \in BytesOf(pieces[i]) :
                b \in Bytes(monitor.addr, monitor.size) => b < pieces[1].addr,
         how = "vector" => mon = monitor
  PROVE  Core' /\ ExclusiveSafe'
<1>1. CASE Refuse("panic")
  BY <1>1, RefuseKeeps
<1>2. CASE ~Refuse("panic")
  <2> DEFINE new == Marked(UNION {BytesOf(pieces[i]) : i \in DOMAIN pieces},
                           pieces[1].addr, how)
  <2>1. /\ mem' = StoreAll(mem, pieces) /\ monitor' = mon /\ touched' = touched \cup new
        /\ UNCHANGED <<v, tpidr>> /\ Retire(r)
    BY <1>2 DEF Stores
  <2>2. regs' = r /\ regions' = regions
    BY <2>1 DEF Retire
  <2>3. MemTyped'
    <3> DEFINE D == DOMAIN mem
    <3>1. D \in SUBSET Address /\ mem \in [D -> Byte] /\ Backed
      BY DEF Ready, Core, MemTyped
    <3> HIDE DEF D
    <3>2. mem' \in [D -> Byte]
      BY <2>1, <3>1, StoreAllTyped
    <3>3. DOMAIN mem' = D
      BY <3>2
    <3>4. Backed'
      BY <2>2, <3>1, <3>3 DEF Backed, D
    <3> QED BY <3>1, <3>2, <3>3, <3>4 DEF MemTyped
  <2>4. Core'
    BY <2>1, <2>2, <2>3 DEF Ready, Core, RegsTyped
  <2>5. ASSUME mon.valid, NEW t \in touched \cup new, t[1] \in Bytes(mon.addr, mon.size)
        PROVE  t[2] \in {"vector", "kernel", "wrapped"}
    <3>0. mon = monitor
      BY <2>5
    <3>1. CASE t \in touched
      BY <2>5, <3>0, <3>1 DEF Ready, ExclusiveSafe
    <3>2. CASE t \in new
      <4>0. PICK b \in UNION {BytesOf(pieces[i]) : i \in DOMAIN pieces} :
              t = <<b, IF b < pieces[1].addr THEN "wrapped" ELSE how>>
        BY <3>2 DEF Marked
      <4>1. PICK i \in DOMAIN pieces : b \in BytesOf(pieces[i])
        OBVIOUS
      <4>2. t[1] = b /\ t[2] = IF b < pieces[1].addr THEN "wrapped" ELSE how
        BY <4>0
      <4>3. CASE how = "vector"
        BY <4>2, <4>3
      <4>4. CASE how # "vector"
        <5>1. b < pieces[1].addr
          BY <2>5, <3>0, <4>1, <4>2, <4>4
        <5> QED BY <4>2, <5>1
      <4> QED BY <4>3, <4>4
    <3> QED BY <2>5, <3>1, <3>2
  <2> HIDE DEF new
  <2> QED BY <2>1, <2>4, <2>5 DEF ExclusiveSafe
<1> QED BY <1>1, <1>2

-----------------------------------------------------------------------------
(* The instructions, one group at a time.                                  *)
LEMMA ResolveTyped ==
  ASSUME RegsTyped, NEW in, Decoded(in)
  PROVE  Resolve(in).addr \in Address /\ Resolve(in).writeback \in Address
<1>1. /\ in.rn \in Operands /\ in.rm \in Operands /\ in.imm \in Int
      /\ in.amount \in 0 .. XBits /\ XBits \in 0 .. XBits
  BY Fields, Widths
<1> DEFINE base == ReadSp(in.rn, XBits)
           x == ReadX(in.rm, XBits)
           offset == IF in.extend # "UXTB" \/ in.lsl
                     THEN ExtendOperand(x, in.extend, in.amount)
                     ELSE Truncate(in.imm, XBits)
<1>2. base \in Word /\ x \in Int
  BY <1>1, Reads
<1> HIDE DEF base, x
<1>3. offset \in Word
  BY <1>1, <1>2, ExtendOperandTyped, TruncateIs
<1> HIDE DEF offset
<1>4. base \in Address /\ Plus(base, offset) \in Address
  BY <1>2, <1>3, AddressIsWord, PlusTyped
<1> QED BY <1>4 DEF Resolve, base, offset, x

\* An index register written back is in range.
LEMMA WritebackTyped ==
  ASSUME RegsTyped, NEW in, Decoded(in), NEW r \in Registers
  PROVE  Writeback(r, in) \in Registers
<1>1. in.rn \in Operands /\ XBits \in 0 .. XBits
  BY Fields, Widths
<1>2. Resolve(in).writeback \in Int
  BY ResolveTyped, AddressIsWord DEF Address
<1> QED BY <1>1, <1>2, Writes DEF Writeback

\* A scalar access has at most eight bytes.
LEMMA SizeTyped ==
  ASSUME NEW in, Decoded(in), ~in.vec
  PROVE  in.size \in {1, 2, 4, 8} /\ in.size \in 1 .. 8 /\ in.size \in 0 .. 24
<1>1. in.size \in {1, 2, 4, 8, 16} /\ in.size <= 8
  BY DEF Decoded
<1> QED BY <1>1

\* Branches.
LEMMA BranchKeeps ==
  ASSUME Ready, NEW in, Decoded(in), Branch(in)
  PROVE  Core' /\ ExclusiveSafe'
<1>1. RegsTyped /\ regs \in Registers
  BY DEF Ready, Core, RegsTyped
<1> DEFINE link == WriteX(regs, 30, XBits, Plus(regs.pc, 4))
           from == IF in.op \in {"BL", "BLR"} THEN link ELSE regs
           taken == [from EXCEPT !.pc = Target(in)]
<1>2. Advance(regs) \in Registers
  BY <1>1, Advances
<1>3. link \in Registers
  <2>1. regs.pc \in Address /\ 4 \in Address
    BY <1>1, AddressIsWord DEF Registers, Address
  <2>2. Plus(regs.pc, 4) \in Int
    <3>1. Plus(regs.pc, 4) \in Address
      BY <2>1, PlusTyped
    <3> QED BY <3>1 DEF Address
  <2>3. 30 \in Operands /\ XBits \in 0 .. XBits
    BY Widths DEF Operands, GPRs
  <2> QED BY <1>1, <2>2, <2>3, Writes
<1>4. from \in Registers
  BY <1>1, <1>3
<1>5. Target(in) \in Address
  <2>1. in.imm \in Address /\ in.rn \in Operands /\ XBits \in 0 .. XBits
    BY Fields, Widths DEF Branch, Decoded
  <2> QED BY <1>1, <2>1, Reads, AddressIsWord DEF Target
<1> HIDE DEF from
<1>6. taken \in Registers
  BY <1>4, <1>5 DEF Registers
<1>7. Quiet(IF ~Taken(in) THEN Advance(regs) ELSE taken)
  BY DEF Branch, from
<1> HIDE DEF taken
<1> QED BY <1>2, <1>6, <1>7, QuietKeeps

\* do_single_mem.
LEMMA SingleKeeps ==
  ASSUME Ready, NEW in, Decoded(in), SingleMem(in)
  PROVE  Core' /\ ExclusiveSafe'
<1> DEFINE addr == IF in.kind = "IMM" THEN in.imm ELSE Resolve(in).addr
           store == in.op \in {"STR", "STLR"}
           wb(r) == Advance(IF in.kind = "IMM" THEN r ELSE Writeback(r, in))
           value == ReadX(in.rd, in.bits)
           piece == Piece(addr, in.size, value)
           loaded == WriteX(regs, in.rd, in.bits, LoadExt(mem, addr, in.size, in.signed))
<1>1. /\ RegsTyped /\ regs \in Registers /\ monitor \in Monitor /\ MemTyped
      /\ regions \in Seq(Region) /\ SoundTable(regions)
  BY DEF Ready, Core, RegsTyped
<1>2. /\ in.rd \in Operands /\ in.bits \in 0 .. XBits /\ in.signed \in BOOLEAN
      /\ ~in.vec
  BY Fields DEF SingleMem
<1>3. in.size \in 1 .. 8
  BY <1>2, SizeTyped
<1>4. addr \in Address
  BY <1>1, ResolveTyped DEF Decoded
<1>5. ASSUME NEW r \in Registers PROVE wb(r) \in Registers
  BY <1>1, WritebackTyped, Advances
<1>6. value \in Int
  BY <1>1, <1>2, Reads
<1>7. /\ ~Serves(addr, in.size, IF store THEN "w" ELSE "r") => Refuse("FAULT")
      /\ Serves(addr, in.size, IF store THEN "w" ELSE "r") /\ store =>
           Stores(<<piece>>, "scalar", NoteStore(addr, in.size), wb(regs))
      /\ Serves(addr, in.size, IF store THEN "w" ELSE "r") /\ ~store => Quiet(wb(loaded))
  BY DEF SingleMem
<1>8. wb(regs) \in Registers
  BY <1>1, <1>5
<1> HIDE DEF addr, value
<1>9. CASE Stores(<<piece>>, "scalar", NoteStore(addr, in.size), wb(regs))
  <2>1. piece \in Transfer /\ piece.addr = addr
    BY <1>3, <1>4, <1>6 DEF Piece, Transfer
  <2> DEFINE mon == NoteStore(addr, in.size)
             ps == <<piece>>
             r == wb(regs)
  <2>2. /\ mon \in Monitor
        /\ mon.valid => /\ mon = monitor
                        /\ \A b \in Bytes(monitor.addr, monitor.size) :
                             b < addr \/ b >= addr + in.size
    BY <1>1, <1>3, <1>4, NoteStoreClears
  <2>3. ASSUME NEW b \in BytesOf(piece) PROVE b \in Address /\ (b < addr \/ b < addr + in.size)
    BY <1>3, <1>4, FirstBytes
  <2> HIDE DEF piece
  <2>4. ps \in Seq(Transfer) /\ ps[1] = piece /\ \A i \in DOMAIN ps : ps[i] = piece
    BY <2>1
  <2> HIDE DEF mon, ps, r
  <2>5. ASSUME mon.valid, NEW i \in DOMAIN ps, NEW b \in BytesOf(ps[i]),
               b \in Bytes(monitor.addr, monitor.size)
        PROVE  b < ps[1].addr
    <3>1. b \in BytesOf(piece)
      BY <2>4
    <3>2. b \in Address /\ (b < addr \/ b < addr + in.size)
      BY <2>3, <3>1
    <3>3. b < addr \/ b >= addr + in.size
      BY <2>2, <2>5
    <3>4. b < addr
      BY <1>3, <1>4, <3>2, <3>3, AddressIsWord DEF Address
    <3> QED BY <2>1, <2>4, <3>4
  <2>6. Stores(ps, "scalar", mon, r) /\ r \in Registers
    BY <1>8, <1>9 DEF ps, mon, r
  <2> QED BY <2>2, <2>4, <2>5, <2>6, StoresKeep
<1>10. CASE Quiet(wb(loaded)) /\ Serves(addr, in.size, "r")
  <2>1. LoadExt(mem, addr, in.size, in.signed) \in Int
    BY <1>1, <1>2, <1>3, <1>4, <1>10, LoadTyped
  <2>2. loaded \in Registers
    BY <1>1, <1>2, <2>1, Writes
  <2> HIDE DEF loaded
  <2>3. wb(loaded) \in Registers
    BY <1>5, <2>2
  <2> HIDE DEF wb
  <2> QED BY <1>10, <2>3, QuietKeeps
<1>11. CASE Refuse("FAULT")
  BY <1>11, RefuseKeeps
<1> HIDE DEF piece, loaded, wb
<1> QED BY <1>7, <1>9, <1>10, <1>11

\* do_pair.
LEMMA PairKeeps ==
  ASSUME Ready, NEW in, Decoded(in), Pair(in)
  PROVE  Core' /\ ExclusiveSafe'
<1> DEFINE addr == Resolve(in).addr
           addr2 == Plus(addr, in.size)
           wb(r) == Advance(Writeback(r, in))
           one == Piece(addr, in.size, ReadX(in.rd, in.bits))
           two == Piece(addr2, in.size, ReadX(in.rt2, in.bits))
           first == WriteX(regs, in.rd, in.bits, LoadExt(mem, addr, in.size, in.signed))
           both == WriteX(first, in.rt2, in.bits, LoadExt(mem, addr2, in.size, in.signed))
<1>1. /\ RegsTyped /\ regs \in Registers /\ monitor \in Monitor /\ MemTyped
      /\ regions \in Seq(Region) /\ SoundTable(regions)
  BY DEF Ready, Core, RegsTyped
<1>2. /\ in.rd \in Operands /\ in.rt2 \in Operands /\ in.bits \in 0 .. XBits
      /\ in.signed \in BOOLEAN /\ ~in.vec
  BY Fields DEF Pair
<1>3. in.size \in 1 .. 8 /\ in.size \in 0 .. 24 /\ in.size \in 0 .. 64
  BY <1>2, SizeTyped
<1>4. addr \in Address
  BY <1>1, ResolveTyped
<1>5. addr2 \in Address
  BY <1>3, <1>4, PlusSmall
<1>6. ASSUME NEW r \in Registers PROVE wb(r) \in Registers
  BY <1>1, WritebackTyped, Advances
<1>7. ReadX(in.rd, in.bits) \in Int /\ ReadX(in.rt2, in.bits) \in Int
  BY <1>1, <1>2, Reads
<1>8. \/ Refuse("FAULT")
      \/ Refuse("panic")
      \/ Stores(<<one, two>>, "pair", NoteStore(addr, 2 * in.size), wb(regs))
      \/ Quiet(wb(both)) /\ PairValid(in, addr, "r")
  BY DEF Pair
<1>9. wb(regs) \in Registers
  BY <1>1, <1>6
<1> HIDE DEF addr
<1>10. CASE Stores(<<one, two>>, "pair", NoteStore(addr, 2 * in.size), wb(regs))
  <2>1. one \in Transfer /\ one.addr = addr /\ two \in Transfer
    BY <1>3, <1>4, <1>5, <1>7 DEF Piece, Transfer
  <2> DEFINE n == 2 * in.size
             mon == NoteStore(addr, n)
             ps == <<one, two>>
             r == wb(regs)
  <2>2. n \in Nat /\ n = in.size + in.size
    BY <1>3
  <2> HIDE DEF n
  <2>3. /\ mon \in Monitor
        /\ mon.valid => /\ mon = monitor
                        /\ \A b \in Bytes(monitor.addr, monitor.size) :
                             b < addr \/ b >= addr + n
    BY <1>1, <1>4, <2>2, NoteStoreClears
  <2>4. ASSUME NEW b \in BytesOf(one) PROVE b \in Address /\ (b < addr \/ b < addr + n)
    <3>1. b \in Address /\ (b < addr \/ b < addr + in.size)
      BY <1>3, <1>4, FirstBytes
    <3> QED BY <1>3, <1>4, <2>2, <3>1 DEF Address
  <2>5. ASSUME NEW b \in BytesOf(two) PROVE b \in Address /\ (b < addr \/ b < addr + n)
    <3>1. b \in Address /\ (b < addr \/ b < addr + (in.size + in.size))
      BY <1>3, <1>4, PieceBytes
    <3> QED BY <2>2, <3>1
  <2> HIDE DEF one, two
  <2>6. ps \in Seq(Transfer) /\ ps[1] = one /\ \A i \in DOMAIN ps : ps[i] = one \/ ps[i] = two
    BY <2>1
  <2> HIDE DEF mon, ps, r
  <2>7. ASSUME mon.valid, NEW i \in DOMAIN ps, NEW b \in BytesOf(ps[i]),
               b \in Bytes(monitor.addr, monitor.size)
        PROVE  b < ps[1].addr
    <3>1. b \in BytesOf(one) \/ b \in BytesOf(two)
      BY <2>6
    <3>2. b \in Address /\ (b < addr \/ b < addr + n)
      BY <2>4, <2>5, <3>1
    <3>3. b < addr \/ b >= addr + n
      BY <2>3, <2>7
    <3>4. b < addr
      BY <1>4, <2>2, <3>2, <3>3, AddressIsWord DEF Address
    <3> QED BY <2>1, <2>6, <3>4
  <2>8. Stores(ps, "pair", mon, r) /\ r \in Registers
    BY <1>9, <1>10 DEF ps, mon, r, n
  <2> QED BY <2>3, <2>6, <2>7, <2>8, StoresKeep
<1>11. CASE Quiet(wb(both)) /\ PairValid(in, addr, "r")
  <2> HIDE DEF addr2
  <2>1. Serves(addr, in.size, "r") /\ Serves(addr2, in.size, "r")
    BY <1>11 DEF PairValid, addr2
  <2>2. LoadExt(mem, addr, in.size, in.signed) \in Int
    BY <1>1, <1>2, <1>3, <1>4, <2>1, LoadTyped
  <2>3. LoadExt(mem, addr2, in.size, in.signed) \in Int
    BY <1>1, <1>2, <1>3, <1>5, <2>1, LoadTyped
  <2>4. first \in Registers
    BY <1>1, <1>2, <2>2, Writes
  <2> HIDE DEF first
  <2>5. both \in Registers
    BY <1>2, <2>3, <2>4, Writes
  <2> HIDE DEF both
  <2>6. wb(both) \in Registers
    BY <1>6, <2>5
  <2> HIDE DEF wb
  <2> QED BY <1>11, <2>6, QuietKeeps
<1>12. CASE Refuse("FAULT") \/ Refuse("panic")
  BY <1>12, RefuseKeeps
<1> HIDE DEF one, two, both, wb
<1> QED BY <1>8, <1>10, <1>11, <1>12

\* The pieces of a vector register k bytes above an address.
LEMMA PiecesAre ==
  ASSUME NEW addr \in Address, NEW k \in 0 .. 16, NEW size \in {1, 2, 4, 8, 16},
         NEW value \in Int \X Int
  PROVE  LET ps == Pieces(Plus(addr, k), size, value)
         IN /\ ps \in Seq(Transfer) /\ Len(ps) \in {1, 2} /\ ps[1].addr = Plus(addr, k)
            /\ Len(ps) = 2 => ps[2].n = 8
            /\ \A i \in DOMAIN ps : \A b \in BytesOf(ps[i]) :
                 b \in Address /\ (b < addr \/ b < addr + (k + size))
<1> DEFINE base == Plus(addr, k)
           top == Plus(base, 8)
           ps == Pieces(base, size, value)
<1>1. k \in 0 .. 64 /\ k \in 0 .. 24 /\ k + 8 \in 0 .. 24 /\ 8 \in 0 .. 64 /\ 8 \in 1 .. 8
      /\ k + 8 \in 0 .. 64
  OBVIOUS
<1>2. base \in Address /\ top = Plus(addr, k + 8)
  BY <1>1, PlusSmall
<1>3. top \in Address
  BY <1>1, <1>2, PlusSmall
<1>4. value[1] \in Int /\ value[2] \in Int
  OBVIOUS
<1>5. CASE size = 16
  <2> DEFINE one == Piece(base, 8, value[1])
             two == Piece(top, 8, value[2])
  <2>1. ps = <<one, two>>
    BY <1>5 DEF Pieces
  <2>2. one \in Transfer /\ two \in Transfer /\ one.addr = base /\ two.n = 8
    BY <1>2, <1>3, <1>4 DEF Piece, Transfer
  <2>3. ASSUME NEW b \in BytesOf(one) PROVE b \in Address /\ (b < addr \/ b < addr + (k + 16))
    <3>1. b \in Address /\ (b < addr \/ b < addr + (k + 8))
      BY <1>1, PieceBytes
    <3> QED BY <3>1, AddressIsWord DEF Address
  <2>4. ASSUME NEW b \in BytesOf(two) PROVE b \in Address /\ (b < addr \/ b < addr + (k + 16))
    <3>1. b \in Address /\ (b < addr \/ b < addr + ((k + 8) + 8))
      BY <1>1, <1>2, PieceBytes
    <3> QED BY <3>1, AddressIsWord DEF Address
  <2> HIDE DEF one, two, ps
  <2>5. /\ ps \in Seq(Transfer) /\ Len(ps) = 2 /\ ps[1] = one /\ ps[2] = two
        /\ \A i \in DOMAIN ps : ps[i] = one \/ ps[i] = two
    BY <2>1, <2>2
  <2>6. ASSUME NEW i \in DOMAIN ps, NEW b \in BytesOf(ps[i])
        PROVE  b \in Address /\ (b < addr \/ b < addr + (k + size))
    <3>1. b \in BytesOf(one) \/ b \in BytesOf(two)
      BY <2>5
    <3> QED BY <1>5, <2>3, <2>4, <3>1
  <2>7. Len(ps) \in {1, 2} /\ ps[1].addr = base /\ (Len(ps) = 2 => ps[2].n = 8)
    BY <2>2, <2>5
  <2> QED BY <2>5, <2>6, <2>7 DEF ps
<1>6. CASE size # 16
  <2> DEFINE one == Piece(base, size, value[1])
  <2>0. size \in 1 .. 8
    BY <1>6
  <2>1. ps = <<one>>
    BY <1>6 DEF Pieces
  <2>2. one \in Transfer /\ one.addr = base
    BY <1>2, <1>4, <2>0 DEF Piece, Transfer
  <2>3. ASSUME NEW b \in BytesOf(one) PROVE b \in Address /\ (b < addr \/ b < addr + (k + size))
    BY <1>1, <2>0, PieceBytes
  <2> HIDE DEF one, ps
  <2>4. /\ ps \in Seq(Transfer) /\ Len(ps) = 1 /\ ps[1] = one
        /\ \A i \in DOMAIN ps : ps[i] = one
    BY <2>1, <2>2
  <2>5. ASSUME NEW i \in DOMAIN ps, NEW b \in BytesOf(ps[i])
        PROVE  b \in Address /\ (b < addr \/ b < addr + (k + size))
    <3>1. b \in BytesOf(one)
      BY <2>4
    <3> QED BY <2>3, <3>1
  <2>6. Len(ps) \in {1, 2} /\ ps[1].addr = base /\ Len(ps) # 2
    BY <2>2, <2>4
  <2> QED BY <2>4, <2>5, <2>6 DEF ps
<1> QED BY <1>5, <1>6

\* What a vector register is loaded with.
LEMMA GatherTyped ==
  ASSUME Ready, NEW ps \in Seq(Transfer), Len(ps) \in {1, 2}, Len(ps) = 2 => ps[2].n = 8,
         \A i \in DOMAIN ps : Serves(ps[i].addr, ps[i].n, "r")
  PROVE  Gather(ps) \in Int \X Int
<1>1. regions \in Seq(Region) /\ SoundTable(regions) /\ MemTyped
  BY DEF Ready, Core
<1>2. ASSUME NEW i \in DOMAIN ps PROVE Load(mem, ps[i].addr, ps[i].n) \in Int
  <2>1. ps[i] \in Transfer
    OBVIOUS
  <2>2. ps[i].addr \in Address /\ ps[i].n \in 1 .. 8
    BY <2>1 DEF Transfer
  <2>3. Serves(ps[i].addr, ps[i].n, "r") /\ TRUE \in BOOLEAN
    OBVIOUS
  <2> QED BY <1>1, <2>2, <2>3, LoadTyped
<1>3. 1 \in DOMAIN ps /\ (Len(ps) = 2 => 2 \in DOMAIN ps)
  OBVIOUS
<1>4. Load(mem, ps[1].addr, ps[1].n) \in Int
  BY <1>2, <1>3
<1>5. Len(ps) = 2 => Load(mem, ps[2].addr, 8) \in Int
  BY <1>2, <1>3
<1> QED BY <1>4, <1>5 DEF Gather

\* do_single_vector and do_pair_vector.
LEMMA VectorKeeps ==
  ASSUME Ready, NEW in, Decoded(in), NEW rs, NEW how, NEW mon, VectorTransfer(in, rs, how, mon),
         NEW d \in VRs, NEW e \in VRs,
         \/ rs = <<d>> /\ how = "vector" /\ mon = monitor
         \/ rs = <<d, e>> /\ how = "vecpair" /\ mon = NoteStore(Resolve(in).addr, 2 * in.size)
  PROVE  Core' /\ ExclusiveSafe'
<1> DEFINE addr == Resolve(in).addr
           pieces(r) == Pieces(Plus(addr, (r - 1) * in.size), in.size, v[rs[r]])
           all == IF Len(rs) = 1 THEN pieces(1) ELSE pieces(1) \o pieces(2)
           store == in.op \in {"STR", "STP"}
           last(n) == CHOOSE r \in DOMAIN rs :
                        rs[r] = n /\ \A s \in DOMAIN rs : rs[s] = n => s <= r
           wb == Advance(Writeback(regs, in))
<1>1. /\ RegsTyped /\ regs \in Registers /\ monitor \in Monitor
      /\ v \in [VRs -> Int \X Int] /\ tpidr \in Word
  BY DEF Ready, Core, RegsTyped
<1>2. in.size \in {1, 2, 4, 8, 16} /\ in.size \in 0 .. 16 /\ in.size \in Nat
  BY Fields
<1>3. addr \in Address
  BY <1>1, ResolveTyped
<1>4. wb \in Registers
  BY <1>1, WritebackTyped, Advances
<1>5. /\ rs[1] = d /\ v[d] \in Int \X Int /\ v[e] \in Int \X Int
      /\ Len(rs) = 1 \/ (Len(rs) = 2 /\ rs[2] = e)
      /\ DOMAIN rs = 1 .. Len(rs)
  BY <1>1
<1>6. \/ Refuse("FAULT")
      \/ store /\ Stores(all, how, mon, wb)
      \/ /\ ~ \E i \in DOMAIN all : ~Serves(all[i].addr, all[i].n, "r")
         /\ v' = [n \in VRs |-> IF \E r \in DOMAIN rs : rs[r] = n
                                THEN Gather(pieces(last(n))) ELSE v[n]]
         /\ UNCHANGED <<mem, monitor, tpidr, touched>>
         /\ Retire(wb)
  BY DEF VectorTransfer
<1> DEFINE p1 == Pieces(addr, in.size, v[d])
           p2 == Pieces(Plus(addr, in.size), in.size, v[e])
<1>7. pieces(1) = p1 /\ (Len(rs) = 2 => pieces(2) = p2)
  <2>1. (1 - 1) * in.size = 0 /\ (2 - 1) * in.size = in.size
    BY <1>2
  <2>2. Plus(addr, 0) = addr
    BY <1>3, AddressIsWord DEF Plus, Address
  <2> HIDE DEF addr
  <2> QED BY <1>5, <2>1, <2>2
<1>8. /\ p1 \in Seq(Transfer) /\ Len(p1) \in {1, 2} /\ p1[1].addr = addr
      /\ Len(p1) = 2 => p1[2].n = 8
      /\ \A i \in DOMAIN p1 : \A b \in BytesOf(p1[i]) :
           b \in Address /\ (b < addr \/ b < addr + in.size)
  <2>1. Plus(addr, 0) = addr /\ 0 \in 0 .. 16
    BY <1>3, AddressIsWord DEF Plus, Address
  <2>2. 0 + in.size = in.size
    BY <1>2
  <2> DEFINE x == v[d]
             ps == Pieces(Plus(addr, 0), in.size, x)
  <2>3. x \in Int \X Int
    BY <1>5
  <2> HIDE DEF addr, x
  <2>4. /\ ps \in Seq(Transfer) /\ Len(ps) \in {1, 2} /\ ps[1].addr = Plus(addr, 0)
        /\ Len(ps) = 2 => ps[2].n = 8
        /\ \A i \in DOMAIN ps : \A b \in BytesOf(ps[i]) :
             b \in Address /\ (b < addr \/ b < addr + (0 + in.size))
    BY <1>2, <1>3, <2>1, <2>3, PiecesAre, ZenonT(60)
  <2>5. ps = p1
    BY <2>1 DEF x
  <2> HIDE DEF ps, p1
  <2> QED BY <2>1, <2>2, <2>4, <2>5
<1>9. /\ p2 \in Seq(Transfer) /\ Len(p2) \in {1, 2}
      /\ Len(p2) = 2 => p2[2].n = 8
      /\ \A i \in DOMAIN p2 : \A b \in BytesOf(p2[i]) :
           b \in Address /\ (b < addr \/ b < addr + (in.size + in.size))
  <2> DEFINE x == v[e]
  <2>1. x \in Int \X Int
    BY <1>5
  <2> HIDE DEF addr, x
  <2>2. LET ps == Pieces(Plus(addr, in.size), in.size, x)
        IN /\ ps \in Seq(Transfer) /\ Len(ps) \in {1, 2}
           /\ Len(ps) = 2 => ps[2].n = 8
           /\ \A i \in DOMAIN ps : \A b \in BytesOf(ps[i]) :
                b \in Address /\ (b < addr \/ b < addr + (in.size + in.size))
    BY <1>2, <1>3, <2>1, PiecesAre, ZenonT(60)
  <2> QED BY <2>2 DEF x
<1>10. all = IF Len(rs) = 1 THEN p1 ELSE p1 \o p2
  BY <1>5, <1>7
<1> HIDE DEF addr, p1, p2, all
<1>11. CASE store /\ Stores(all, how, mon, wb)
  <2>1. all \in Seq(Transfer) /\ all[1] = p1[1]
    <3>1. CASE Len(rs) = 1
      BY <1>8, <1>10, <3>1
    <3>2. CASE Len(rs) = 2
      <4>1. all = p1 \o p2
        BY <1>10, <3>2
      <4>2. all \in Seq(Transfer)
        BY <1>8, <1>9, <4>1
      <4>3. 1 \in 1 .. Len(p1) /\ Len(p1) \in Nat /\ Len(p2) \in Nat
        BY <1>8, <1>9
      <4>4. all[1] = p1[1]
        BY <1>8, <1>9, <4>1, <4>3
      <4> QED BY <4>2, <4>4
    <3> QED BY <1>5, <3>1, <3>2
  <2>2. CASE how = "vector"
    <3>1. mon = monitor /\ mon \in Monitor
      BY <1>1, <2>2
    <3>2. Stores(all, "vector", mon, wb)
      BY <1>11, <2>2
    <3> HIDE DEF wb
    <3> QED BY <1>4, <2>1, <3>1, <3>2, StoresKeep
  <2>3. CASE how = "vecpair"
    <3> DEFINE n == 2 * in.size
    <3>1. n \in Nat /\ n = in.size + in.size /\ mon = NoteStore(addr, n) /\ Len(rs) = 2
      BY <1>2, <2>3 DEF addr
    <3> HIDE DEF n
    <3>2. /\ mon \in Monitor
          /\ mon.valid => /\ mon = monitor
                          /\ \A b \in Bytes(monitor.addr, monitor.size) :
                               b < addr \/ b >= addr + n
      BY <1>1, <1>3, <3>1, NoteStoreClears
    <3>3. ASSUME NEW i \in DOMAIN all
          PROVE  (\E j \in DOMAIN p1 : all[i] = p1[j]) \/ (\E j \in DOMAIN p2 : all[i] = p2[j])
      <4>1. all = p1 \o p2
        BY <1>10, <3>1
      <4>2. i \in 1 .. Len(p1) + Len(p2)
        BY <1>8, <1>9, <4>1
      <4>3. CASE i <= Len(p1)
        BY <1>8, <1>9, <4>1, <4>2, <4>3
      <4>4. CASE i > Len(p1)
        <5>1. all[i] = p2[i - Len(p1)] /\ i - Len(p1) \in DOMAIN p2
          BY <1>8, <1>9, <4>1, <4>2, <4>4
        <5> QED BY <5>1
      <4> QED BY <1>8, <4>2, <4>3, <4>4
    <3>4. ASSUME mon.valid, NEW i \in DOMAIN all, NEW b \in BytesOf(all[i]),
                 b \in Bytes(monitor.addr, monitor.size)
          PROVE  b < all[1].addr
      <4>1. b \in Address /\ (b < addr \/ b < addr + in.size \/ b < addr + (in.size + in.size))
        BY <1>8, <1>9, <3>3
      <4>2. b < addr \/ b >= addr + n
        BY <3>2, <3>4
      <4>3. b < addr
        BY <1>2, <1>3, <3>1, <4>1, <4>2, AddressIsWord DEF Address
      <4> QED BY <1>8, <2>1, <4>3
    <3> QED BY <1>4, <1>11, <2>1, <2>3, <3>2, <3>4, StoresKeep
  <2> QED BY <2>2, <2>3
<1>12. CASE /\ ~ \E i \in DOMAIN all : ~Serves(all[i].addr, all[i].n, "r")
            /\ v' = [n \in VRs |-> IF \E r \in DOMAIN rs : rs[r] = n
                                   THEN Gather(pieces(last(n))) ELSE v[n]]
            /\ UNCHANGED <<mem, monitor, tpidr, touched>>
            /\ Retire(wb)
  <2>1. \A i \in DOMAIN p1 : Serves(p1[i].addr, p1[i].n, "r")
    <3>1. ASSUME NEW i \in DOMAIN p1 PROVE i \in DOMAIN all /\ all[i] = p1[i]
      BY <1>5, <1>8, <1>9, <1>10
    <3> QED BY <1>12, <3>1
  <2>2. Len(rs) = 2 => \A i \in DOMAIN p2 : Serves(p2[i].addr, p2[i].n, "r")
    <3>1. ASSUME Len(rs) = 2, NEW i \in DOMAIN p2
          PROVE  Len(p1) + i \in DOMAIN all /\ all[Len(p1) + i] = p2[i]
      <4>1. all = p1 \o p2
        BY <1>10, <3>1
      <4> QED BY <1>8, <1>9, <4>1
    <3> QED BY <1>12, <3>1
  <2>3. Gather(p1) \in Int \X Int /\ (Len(rs) = 2 => Gather(p2) \in Int \X Int)
    BY <1>8, <1>9, <2>1, <2>2, GatherTyped
  <2>4. ASSUME NEW n \in VRs, NEW r \in DOMAIN rs, rs[r] = n
        PROVE  last(n) \in DOMAIN rs
    <3>1. \E s \in DOMAIN rs : rs[s] = n /\ \A t \in DOMAIN rs : rs[t] = n => t <= s
      <4>1. CASE Len(rs) = 1
        <5>1. 1 \in DOMAIN rs /\ \A t \in DOMAIN rs : t = 1
          BY <1>5, <4>1
        <5> QED BY <2>4, <5>1
      <4>2. CASE Len(rs) = 2
        <5>1. 1 \in DOMAIN rs /\ 2 \in DOMAIN rs /\ \A t \in DOMAIN rs : t = 1 \/ t = 2
          BY <1>5, <4>2
        <5>2. CASE rs[2] = n
          BY <5>1, <5>2
        <5>3. CASE rs[2] # n
          BY <2>4, <5>1, <5>3
        <5> QED BY <5>2, <5>3
      <4> QED BY <1>5, <4>1, <4>2
    <3> QED BY <3>1
  <2>5. ASSUME NEW r \in DOMAIN rs PROVE Gather(pieces(r)) \in Int \X Int
    <3>1. r = 1 \/ (r = 2 /\ Len(rs) = 2)
      BY <1>5
    <3> QED BY <1>7, <2>3, <3>1
  <2> HIDE DEF last, pieces
  <2>6. v' \in [VRs -> Int \X Int]
    <3>1. ASSUME NEW n \in VRs
          PROVE  (IF \E r \in DOMAIN rs : rs[r] = n THEN Gather(pieces(last(n))) ELSE v[n])
                   \in Int \X Int
      <4>1. CASE \E r \in DOMAIN rs : rs[r] = n
        <5>1. last(n) \in DOMAIN rs
          BY <2>4, <4>1
        <5>2. Gather(pieces(last(n))) \in Int \X Int
          BY <2>5, <5>1
        <5> QED BY <4>1, <5>2
      <4>2. CASE ~ \E r \in DOMAIN rs : rs[r] = n
        BY <1>1, <4>2
      <4> QED BY <4>1, <4>2
    <3> HIDE DEF wb
    <3> QED BY <1>12, <3>1
  <2> QED BY <1>1, <1>4, <1>12, <2>6, RetireKeeps
<1>13. CASE Refuse("FAULT")
  BY <1>13, RefuseKeeps
<1> HIDE DEF pieces, last, store, wb
<1> QED BY <1>6, <1>11, <1>12, <1>13

\* do_exclusive: a new reservation starts with nothing stored.
LEMMA ExclusiveKeeps ==
  ASSUME Ready, NEW in, Decoded(in), Exclusive(in)
  PROVE  Core' /\ ExclusiveSafe'
<1> DEFINE addr == ReadSp(in.rn, XBits)
           success == monitor.valid /\ monitor.addr = addr /\ monitor.size = in.size
           flag == IF success THEN 0 ELSE 1
           result == Advance(WriteX(regs, in.rm, WBits, flag))
           cleared == [monitor EXCEPT !.valid = FALSE]
           piece == Piece(addr, in.size, ReadX(in.rd, in.bits))
           loaded == Advance(WriteX(regs, in.rd, in.bits, Load(mem, addr, in.size)))
<1>1. /\ RegsTyped /\ regs \in Registers /\ monitor \in Monitor /\ MemTyped
      /\ v \in [VRs -> Int \X Int] /\ tpidr \in Word
      /\ regions \in Seq(Region) /\ SoundTable(regions)
  BY DEF Ready, Core, RegsTyped
<1>2. /\ in.rd \in Operands /\ in.rn \in Operands /\ in.rm \in Operands
      /\ in.bits \in 0 .. XBits /\ XBits \in 0 .. XBits /\ WBits \in 0 .. XBits
  BY Fields, Widths
<1>3. ~in.vec
  BY DEF Exclusive, Decoded
<1>4. in.size \in 1 .. 8 /\ in.size \in Nat
  BY <1>3, SizeTyped
<1>5. addr \in Address /\ ReadX(in.rd, in.bits) \in Int
  BY <1>1, <1>2, Reads, AddressIsWord
<1>6. flag \in Int
  OBVIOUS
<1>7. result \in Registers
  <2> HIDE DEF flag
  <2>1. WriteX(regs, in.rm, WBits, flag) \in Registers
    BY <1>1, <1>2, <1>6, Writes
  <2> QED BY <2>1, Advances
<1>8. cleared \in Monitor /\ ~cleared.valid
  BY <1>1 DEF Monitor
<1>9. \/ Refuse("FAULT")
      \/ /\ Serves(addr, in.size, "r") /\ touched' = {}
         /\ monitor' = [valid |-> TRUE, addr |-> addr, size |-> in.size]
         /\ UNCHANGED <<mem, v, tpidr>> /\ Retire(loaded)
      \/ Stores(<<piece>>, "exclusive", cleared, result)
      \/ monitor' = cleared /\ UNCHANGED <<mem, v, tpidr, touched>> /\ Retire(result)
  BY DEF Exclusive
<1> HIDE DEF addr, flag, result, cleared
<1>10. CASE Refuse("FAULT")
  BY <1>10, RefuseKeeps
<1>11. CASE /\ Serves(addr, in.size, "r") /\ touched' = {}
            /\ monitor' = [valid |-> TRUE, addr |-> addr, size |-> in.size]
            /\ UNCHANGED <<mem, v, tpidr>> /\ Retire(loaded)
  <2>1. Load(mem, addr, in.size) \in Int
    <3>1. TRUE \in BOOLEAN
      OBVIOUS
    <3> QED BY <1>1, <1>4, <1>5, <1>11, <3>1, LoadTyped
  <2>2. WriteX(regs, in.rd, in.bits, Load(mem, addr, in.size)) \in Registers
    BY <1>1, <1>2, <2>1, Writes
  <2>3. loaded \in Registers
    BY <2>2, Advances
  <2>4. regs' = loaded /\ regions' = regions
    BY <1>11 DEF Retire
  <2> HIDE DEF loaded
  <2>5. RegsTyped' /\ MemTyped'
    BY <1>1, <1>11, <2>3, <2>4 DEF RegsTyped, MemTyped, Backed
  <2>6. monitor' \in Monitor
    BY <1>4, <1>5, <1>11 DEF Monitor
  <2> QED BY <1>1, <1>11, <2>5, <2>6 DEF Core, ExclusiveSafe
<1>12. CASE Stores(<<piece>>, "exclusive", cleared, result)
  <2>1. piece \in Transfer
    BY <1>4, <1>5 DEF Piece, Transfer
  <2> DEFINE ps == <<piece>>
  <2> HIDE DEF piece
  <2>2. ps \in Seq(Transfer)
    BY <2>1
  <2>3. Stores(ps, "exclusive", cleared, result)
    BY <1>12
  <2> HIDE DEF ps
  <2> QED BY <1>7, <1>8, <2>2, <2>3, StoresKeep
<1>13. CASE monitor' = cleared /\ UNCHANGED <<mem, v, tpidr, touched>> /\ Retire(result)
  <2>1. regs' = result /\ regions' = regions
    BY <1>13 DEF Retire
  <2>2. RegsTyped' /\ MemTyped'
    BY <1>1, <1>7, <1>13, <2>1 DEF RegsTyped, MemTyped, Backed
  <2> QED BY <1>1, <1>8, <1>13, <2>2 DEF Core, ExclusiveSafe
<1> HIDE DEF piece, loaded
<1> QED BY <1>9, <1>10, <1>11, <1>12, <1>13

\* The registers a system call leaves.
LEMMA ReturnsTyped ==
  ASSUME RegsTyped, NEW value \in Int
  PROVE  Returns(value) \in Registers
<1>1. regs \in Registers /\ XBits \in 0 .. XBits /\ 0 \in Operands
  BY Widths DEF RegsTyped, Operands, GPRs
<1>2. Truncate(value, XBits) \in Int
  BY <1>1, TruncateIs
<1>3. WriteX(regs, 0, XBits, Truncate(value, XBits)) \in Registers
  BY <1>1, <1>2, Writes
<1> QED BY <1>3, Advances DEF Returns

\* clock_gettime stores behind the monitor, as "kernel".
LEMMA ClockKeeps ==
  ASSUME Ready, SysClock
  PROVE  Core' /\ ExclusiveSafe'
<1> DEFINE ts == regs.x[1]
           top == Plus(ts, 8)
<1>1. /\ RegsTyped /\ regs \in Registers /\ monitor \in Monitor /\ MemTyped
      /\ v \in [VRs -> Int \X Int] /\ tpidr \in Word
  BY DEF Ready, Core, RegsTyped
<1>2. ts \in Address /\ top \in Address
  <2>1. ts \in Address
    BY <1>1, AddressIsWord DEF Registers, GPRs
  <2> HIDE DEF ts
  <2>2. 8 \in 0 .. 64
    OBVIOUS
  <2> QED BY <2>1, <2>2, PlusSmall
<1>3. Returns(-EINVAL) \in Registers /\ Returns(-EFAULT) \in Registers /\ Returns(0) \in Registers
  <2>1. -EINVAL \in Int /\ -EFAULT \in Int /\ 0 \in Int
    BY DEF EINVAL, EFAULT
  <2> QED BY <1>1, <2>1, ReturnsTyped
<1>4. PICK sec \in TimeValues, nsec \in TimeValues :
        \/ Quiet(Returns(-EINVAL)) \/ Quiet(Returns(-EFAULT))
        \/ /\ mem' = Store(IF Serves(top, 8, "w") THEN Store(mem, Piece(top, 8, nsec)) ELSE mem,
                           Piece(ts, 8, sec))
           /\ touched' = touched \cup
                ((BytesOf(Piece(ts, 8, 0)) \cup BytesOf(Piece(top, 8, 0))) \X {"kernel"})
           /\ UNCHANGED <<v, monitor, tpidr>>
           /\ Retire(Returns(IF Serves(top, 8, "w") THEN 0 ELSE -EFAULT))
  BY DEF SysClock
<1>5. sec \in Int /\ nsec \in Int
  <2>1. sec \in Word /\ nsec \in Word
    BY ExecAssumption
  <2> QED BY <2>1, WordIs
<1>6. CASE Quiet(Returns(-EINVAL)) \/ Quiet(Returns(-EFAULT))
  BY <1>3, <1>6, QuietKeeps
<1> HIDE DEF ts, top
<1>7. CASE /\ mem' = Store(IF Serves(top, 8, "w") THEN Store(mem, Piece(top, 8, nsec)) ELSE mem,
                           Piece(ts, 8, sec))
           /\ touched' = touched \cup
                ((BytesOf(Piece(ts, 8, 0)) \cup BytesOf(Piece(top, 8, 0))) \X {"kernel"})
           /\ UNCHANGED <<v, monitor, tpidr>>
           /\ Retire(Returns(IF Serves(top, 8, "w") THEN 0 ELSE -EFAULT))
  <2> DEFINE D == DOMAIN mem
             S == [D -> Byte]
             one == Piece(ts, 8, sec)
             two == Piece(top, 8, nsec)
             mid == IF Serves(top, 8, "w") THEN Store(mem, two) ELSE mem
             new == (BytesOf(Piece(ts, 8, 0)) \cup BytesOf(Piece(top, 8, 0))) \X {"kernel"}
  <2>1. one \in Transfer /\ two \in Transfer
    BY <1>2, <1>5 DEF Piece, Transfer
  <2>2. D \in SUBSET Address /\ mem \in [D -> Byte] /\ Backed
    BY <1>1 DEF MemTyped
  <2>3. mem' = Store(mid, one) /\ touched' = touched \cup new
    BY <1>7
  <2> HIDE DEF D, one, two, new
  <2>4. mid \in [D -> Byte]
    BY <2>1, <2>2, StoreTyped
  <2> HIDE DEF mid
  <2>5. mem' \in [D -> Byte]
    BY <2>1, <2>2, <2>3, <2>4, StoreTyped
  <2>6. DOMAIN mem' = D
    BY <2>5
  <2>7. regs' \in Registers /\ regions' = regions
    BY <1>3, <1>7 DEF Retire
  <2>8. Backed'
    BY <2>2, <2>6, <2>7 DEF Backed, D
  <2>9. MemTyped'
    BY <2>2, <2>5, <2>6, <2>8 DEF MemTyped
  <2>10. Core'
    BY <1>1, <1>7, <2>7, <2>9 DEF Core, RegsTyped
  <2>11. ASSUME NEW t \in new PROVE t[2] = "kernel"
    BY DEF new
  <2>12. ExclusiveSafe'
    BY <1>7, <2>3, <2>11 DEF Ready, ExclusiveSafe
  <2> QED BY <2>10, <2>12
<1> QED BY <1>4, <1>6, <1>7

\* do_svc.
LEMMA SvcKeeps ==
  ASSUME Ready, NEW in, Svc(in)
  PROVE  Core' /\ ExclusiveSafe'
<1>1. RegsTyped /\ regs \in Registers /\ v \in [VRs -> Int \X Int] /\ tpidr \in Word
  BY DEF Ready, Core, RegsTyped
<1>2. CASE SysExit
  <2>1. Returns(0) \in Registers
    BY <1>1, ReturnsTyped
  <2> QED BY <1>1, <1>2, <2>1, RetireKeeps DEF SysExit
<1>3. CASE SysWrite
  <2> DEFINE count == regs.x[2]
             refused == WriteRefused(regs.x[0], regs.x[1], count)
  <2>1. PICK written \in 0 .. (IF refused # 0 THEN 0 ELSE count) :
          /\ UNCHANGED <<mem, v, monitor, tpidr, touched>>
          /\ Retire(Returns(IF refused # 0 THEN -refused ELSE written))
    BY <1>3 DEF SysWrite
  <2>2. count \in Nat
    <3>1. count \in Word
      BY <1>1 DEF Registers, GPRs
    <3> QED BY <3>1, WordIs
  <2>3. refused \in {0, 9, 14}
    BY DEF WriteRefused, EBADF, EFAULT
  <2> HIDE DEF count, refused
  <2>4. (IF refused # 0 THEN -refused ELSE written) \in Int
    BY <2>2, <2>3
  <2>5. Returns(IF refused # 0 THEN -refused ELSE written) \in Registers
    BY <1>1, <2>4, ReturnsTyped
  <2> QED BY <1>1, <2>1, <2>5, RetireKeeps
<1>4. CASE SysClock
  BY <1>4, ClockKeeps
<1>5. CASE SysOther
  <2>1. -ENOSYS \in Int
    BY DEF ENOSYS
  <2>2. Returns(-ENOSYS) \in Registers
    BY <1>1, <2>1, ReturnsTyped
  <2> QED BY <1>5, <2>2, QuietKeeps DEF SysOther
<1> QED BY <1>2, <1>3, <1>4, <1>5 DEF Svc

\* do_mrs.
LEMMA MrsKeeps ==
  ASSUME Ready, NEW in, Decoded(in), Mrs(in)
  PROVE  Core' /\ ExclusiveSafe'
<1>1. RegsTyped /\ regs \in Registers /\ tpidr \in Word
  BY DEF Ready, Core, RegsTyped
<1>2. in.rd \in Operands /\ XBits \in 0 .. XBits
  BY Fields, Widths
<1> DEFINE value == CASE in.sysreg = "SP_EL0"  -> regs.sp
                      [] in.sysreg = "NZCV"    -> FlagsWord(regs.nzcv)
                      [] in.sysreg = "TPIDRUR" -> tpidr
                      [] OTHER                 -> 0
           r == Advance(WriteX(regs, in.rd, XBits, value))
<1>3. regs.sp \in Int /\ tpidr \in Int
  <2>1. regs.sp \in Word
    BY <1>1 DEF Registers
  <2> QED BY <1>1, <2>1, WordIs
<1>4. FlagsWord(regs.nzcv) \in Int
  <2>1. /\ WBits - 1 \in 0 .. XBits /\ WBits - 2 \in 0 .. XBits /\ WBits - 3 \in 0 .. XBits
        /\ WBits - 4 \in 0 .. XBits
    BY Widths
  <2>2. /\ Pow2[WBits - 1] \in Int /\ Pow2[WBits - 2] \in Int /\ Pow2[WBits - 3] \in Int
        /\ Pow2[WBits - 4] \in Int
    BY <2>1, Power
  <2>3. /\ FlagWeight["N"] \in Int /\ FlagWeight["Z"] \in Int
        /\ FlagWeight["C"] \in Int /\ FlagWeight["V"] \in Int
    BY <2>2 DEF FlagWeight
  <2> QED BY <2>3 DEF FlagsWord
<1>5. value \in Int
  BY <1>3, <1>4
<1>6. Refuse("UNSUPPORTED") \/ Quiet(r)
  BY DEF Mrs
<1> HIDE DEF value
<1>7. WriteX(regs, in.rd, XBits, value) \in Registers
  BY <1>1, <1>2, <1>5, Writes
<1>8. r \in Registers
  BY <1>7, Advances
<1> HIDE DEF r
<1> QED BY <1>6, <1>8, QuietKeeps, RefuseKeeps

\* do_msr.
LEMMA MsrKeeps ==
  ASSUME Ready, NEW in, Decoded(in), Msr(in)
  PROVE  Core' /\ ExclusiveSafe'
<1>1. RegsTyped /\ regs \in Registers /\ v \in [VRs -> Int \X Int] /\ tpidr \in Word
  BY DEF Ready, Core, RegsTyped
<1>2. in.rd \in Operands /\ XBits \in 0 .. XBits
  BY Fields, Widths
<1> DEFINE value == ReadX(in.rd, XBits)
           r == CASE in.sysreg = "SP_EL0" -> [regs EXCEPT !.sp = value]
                  [] in.sysreg = "NZCV" -> [regs EXCEPT !.nzcv = FlagsOf(value)]
                  [] OTHER -> regs
<1>3. value \in Word
  BY <1>1, <1>2, Reads
<1>4. \/ Refuse("UNSUPPORTED")
      \/ /\ tpidr' = IF in.sysreg = "TPIDRUR" THEN value ELSE tpidr
         /\ UNCHANGED <<mem, v, monitor, touched>>
         /\ Retire(Advance(r))
  BY DEF Msr
<1> HIDE DEF value
<1>5. [regs EXCEPT !.sp = value] \in Registers
  BY <1>1, <1>3 DEF Registers
<1>6. [regs EXCEPT !.nzcv = FlagsOf(value)] \in Registers
  <2>1. FlagsOf(value) \in SUBSET Flags
    BY DEF FlagsOf
  <2> QED BY <1>1, <2>1 DEF Registers
<1>7. r \in Registers
  BY <1>1, <1>5, <1>6
<1> HIDE DEF r
<1>8. Advance(r) \in Registers
  BY <1>7, Advances
<1>9. CASE Refuse("UNSUPPORTED")
  BY <1>9, RefuseKeeps
<1>10. CASE /\ tpidr' = IF in.sysreg = "TPIDRUR" THEN value ELSE tpidr
            /\ UNCHANGED <<mem, v, monitor, touched>>
            /\ Retire(Advance(r))
  <2>1. tpidr' \in Word /\ v' \in [VRs -> Int \X Int]
    BY <1>1, <1>3, <1>10
  <2> QED BY <1>8, <1>10, <2>1, RetireKeeps
<1> QED BY <1>4, <1>9, <1>10

\* Whatever is dispatched.
LEMMA DispatchKeeps ==
  ASSUME Ready, NEW in, Decoded(in), Dispatch(in)
  PROVE  Core' /\ ExclusiveSafe'
<1>1. RegsTyped /\ regs \in Registers /\ v \in [VRs -> Int \X Int] /\ tpidr \in Word
  BY DEF Ready, Core, RegsTyped
<1>2. Advance(regs) \in Registers
  BY <1>1, Advances
<1>3. CASE SingleVector(in)
  <2> DEFINE wide == [in EXCEPT !.size = 16]
  <2>1. in.vec /\ in.rd \in VRs
    BY <1>3 DEF SingleVector, Decoded
  <2>2. Decoded(wide)
    BY <2>1 DEF Decoded
  <2>3. VectorTransfer(wide, <<in.rd>>, "vector", monitor)
    BY <1>3 DEF SingleVector
  <2> HIDE DEF wide
  <2> QED BY <2>1, <2>2, <2>3, VectorKeeps
<1>4. CASE PairVector(in)
  <2>1. in.rd \in VRs /\ in.rt2 \in VRs
    BY <1>4 DEF PairVector, Decoded
  <2>2. VectorTransfer(in, <<in.rd, in.rt2>>, "vecpair", NoteStore(Resolve(in).addr, 2 * in.size))
    BY <1>4 DEF PairVector
  <2> QED BY <2>1, <2>2, VectorKeeps
<1>5. CASE VecDup(in)
  <2>1. in.rm \in Operands /\ XBits \in 0 .. XBits /\ in.rd \in VRs
    BY <1>5, Fields, Widths DEF VecDup, Decoded
  <2>2. ReadX(in.rm, XBits) \in Int
    BY <1>1, <2>1, Reads
  <2>3. v' \in [VRs -> Int \X Int]
    BY <1>1, <1>5, <2>1, <2>2 DEF VecDup
  <2> QED BY <1>1, <1>2, <1>5, <2>3, RetireKeeps DEF VecDup
<1>6. CASE Nop(in)
  BY <1>2, <1>6, QuietKeeps DEF Nop
<1>7. CASE Trap(in)
  BY <1>7, RefuseKeeps DEF Trap
<1> QED BY <1>3, <1>4, <1>5, <1>6, <1>7, DataKeeps, BranchKeeps, SingleKeeps, PairKeeps,
           ExclusiveKeeps, SvcKeeps, MrsKeeps, MsrKeeps DEF Dispatch

\* A step of the guest.
LEMMA ExecKeeps ==
  ASSUME Ready, ElfFile(prog), ExecStep
  PROVE  Core' /\ ExclusiveSafe'
<1>1. CASE FetchFault \/ DecodeError
  BY <1>1, RefuseKeeps DEF FetchFault, DecodeError
<1>2. CASE AtInsn /\ Dispatch(Text[Here])
  <2>1. Decoded(Text[Here])
    BY <1>2 DEF AtInsn, ElfFile, Text
  <2> QED BY <1>2, <2>1, DispatchKeeps
<1> QED BY <1>1, <1>2 DEF ExecStep

-----------------------------------------------------------------------------
(* The core in every phase of the process.                                 *)
ExecInv == Core /\ ExclusiveSafe

\* A mapping brings its bytes with it.
LEMMA MappedKeeps ==
  ASSUME Loading, ExecInv, NEW block \in Blocks, NEW base \in Address, NEW n \in Address,
         NEW perms \in SUBSET Perms, NEW content, MemMap(base, n, perms) = "OK",
         Mapped(block, base, n, perms, content),
         \A a \in Bytes(base, n) :
           a - base < content.size => FileByte(content.offset + (a - base)) \in Byte
  PROVE  ExecInv'
<1>1. Grown(base, n, perms, content)
  BY MappedIs
<1> DEFINE D == DOMAIN mem \cup Bytes(base, n)
           byte(a) == IF a \in Bytes(base, n)
                      THEN (IF a - base < content.size THEN FileByte(content.offset + (a - base))
                            ELSE 0)
                      ELSE mem[a]
<1>2. mem' = [a \in D |-> byte(a)] /\ UNCHANGED <<regs, v, monitor, tpidr, touched>>
  BY DEF Mapped
<1>3. DOMAIN mem \subseteq Address /\ mem \in [DOMAIN mem -> Byte] /\ Backed
  BY DEF ExecInv, Core, MemTyped
<1>4. 0 \in Byte
  <2>1. Pow2[ByteBits] \in Nat \ {0}
    BY Power, Widths
  <2> QED BY <2>1 DEF Byte
<1>5. ASSUME NEW a \in D PROVE byte(a) \in Byte
  BY <1>3, <1>4
<1>6. D \subseteq Address
  BY <1>3 DEF Bytes
<1> HIDE DEF D, byte
<1>7. mem' \in [D -> Byte] /\ DOMAIN mem' = D
  BY <1>2, <1>5
<1>8. Backed'
  <2>1. ASSUME NEW i \in DOMAIN regions'
        PROVE  Bytes(regions'[i].base, regions'[i].size) \subseteq D
    <3> DEFINE k == Len(regions) + 1
    <3>1. /\ regions' \in Seq(Region) /\ k \in Nat /\ Len(regions') = k
          /\ regions'[k].base = base /\ regions'[k].size = n
          /\ \A j \in 1 .. Len(regions) : regions'[j] = regions[j]
      BY <1>1 DEF Grown
    <3>2. regions \in Seq(Region)
      BY DEF Loading
    <3>3. CASE i = k
      BY <3>1, <3>3 DEF D
    <3>4. CASE i # k
      <4>1. i \in 1 .. Len(regions) /\ i \in DOMAIN regions
        BY <3>1, <3>2, <3>4
      <4>2. Bytes(regions[i].base, regions[i].size) \subseteq DOMAIN mem
        BY <1>3, <4>1 DEF Backed
      <4> QED BY <3>1, <4>1, <4>2 DEF D
    <3> QED BY <3>3, <3>4
  <2> QED BY <1>7, <2>1 DEF Backed
<1>9. MemTyped'
  BY <1>6, <1>7, <1>8 DEF MemTyped
<1> QED BY <1>2, <1>9 DEF ExecInv, Core, RegsTyped, ExclusiveSafe

\* A segment.
LEMMA MapSegmentKeeps ==
  ASSUME ElfFile(prog), Storage, Loading, ExecInv, MapSegment, mem' # mem \/ regions' # regions
  PROVE  ExecInv'
<1> DEFINE k == load.mapped + 1
           ph == Segments[k]
           block == SegmentBlock[k]
           content == [offset |-> ph.offset, size |-> ph.filesz]
<1>1. /\ phase = "elf" /\ load.status = "mapping" /\ load.mapped < Len(Segments) /\ Mapping
  BY DEF MapSegment, Loading, InElf, Idle
<1>2. ImageLen \in Address
  BY ImageLength
<1>3. k \in DOMAIN Segments /\ load.mapped \in Nat /\ Segment = ph
  BY <1>1, SegmentsTyped DEF Mapping, Segment
<1>4. /\ ph.vaddr \in Address /\ ph.memsz \in Sizes /\ ph.memsz \in Address
      /\ ph.offset \in Address /\ ph.filesz \in Address /\ ph.offset + ph.filesz <= ImageLen
      /\ ph.flags \in SUBSET Perms
  BY <1>1, <1>2, <1>3, SegmentFits DEF Mapping, Sizes
<1>5. ImageLen \in 0 .. SizeMax
  BY DEF Storage, ImageLen, BufferType, Buffers
<1>6. MemMap(ph.vaddr, ph.memsz, ph.flags) = "OK"
  BY <1>1, <1>2, <1>3, MapperAgrees
<1>7. block \in Blocks
  <2>1. k \in 1 .. Len(SegmentBlock)
    BY <1>1, <1>3, SegmentsTyped, UserAssumption DEF Mapping, Validated
  <2> QED BY <2>1, UserAssumption DEF Blocks, Range
<1>8. Mapped(block, ph.vaddr, ph.memsz, ph.flags, content)
  BY <1>3 DEF MapSegment, LoadFails, execVars
<1>9. ASSUME NEW a \in Bytes(ph.vaddr, ph.memsz), a - ph.vaddr < content.size
      PROVE  FileByte(content.offset + (a - ph.vaddr)) \in Byte
  <2>1. content.size = ph.filesz /\ content.offset = ph.offset
    OBVIOUS
  <2>2. a \in Address /\ ph.vaddr <= a
    BY DEF Bytes
  <2> HIDE DEF ph, content
  <2>3. content.offset + (a - ph.vaddr) \in 0 .. SizeMax
    BY <1>4, <1>5, <1>9, <2>1, <2>2, HostAssumption, TopAssumption DEF Address
  <2> QED BY <2>3, UserAssumption
<1> HIDE DEF ph, block, content
<1> QED BY <1>4, <1>6, <1>7, <1>8, <1>9, MappedKeeps

\* The stack.
LEMMA MapStackKeeps ==
  ASSUME Loading, ExecInv, MapStack, mem' # mem \/ regions' # regions
  PROVE  ExecInv'
<1> DEFINE content == [offset |-> 0, size |-> 0]
<1>1. /\ MemMap(StackAt, StackSize, {"r", "w"}) = "OK"
      /\ Mapped("stack", StackAt, StackSize, {"r", "w"}, content)
  BY DEF MapStack, userVars, execVars
<1>2. StackAt \in Address /\ StackSize \in Address
  BY StackTyped, UserAssumption
<1>3. "stack" \in Blocks /\ {"r", "w"} \in SUBSET Perms
  BY DEF Blocks, Perms
<1>4. ASSUME NEW a \in Bytes(StackAt, StackSize) PROVE ~(a - StackAt < content.size)
  BY <1>2, TopAssumption DEF Bytes, Address
<1> HIDE DEF content
<1> QED BY <1>1, <1>2, <1>3, <1>4, MappedKeeps

\* oemu_cpu_init: the entry and the stack pointer are addresses.
LEMMA CpuInitKeeps ==
  ASSUME Loading, ExecInv, CpuInit
  PROVE  ExecInv'
<1> DEFINE top == Plus(StackAt, StackSize)
           sp == (top \div StackAlign) * StackAlign
<1>1. /\ regs' = [regs EXCEPT !.pc = load.entry, !.sp = sp]
      /\ UNCHANGED <<mem, v, monitor, tpidr, touched, regions>>
  BY DEF CpuInit, StartExec
<1>2. top \in Address
  BY StackTyped, UserAssumption, PlusTyped
<1> HIDE DEF top
<1>3. sp \in 0 .. top
  <2>1. top \in Nat
    BY <1>2 DEF Address
  <2> QED BY <2>1, UserAssumption, RoundDown
<1> HIDE DEF sp
<1>4. sp \in Word
  <2>1. sp \in Address
    BY <1>2, <1>3, TopAssumption DEF Address
  <2> QED BY <2>1, AddressIsWord
<1>5. load.entry \in Address
  BY DEF Loading, LoadType
<1>6. RegsTyped'
  BY <1>1, <1>4, <1>5 DEF ExecInv, Core, RegsTyped, Registers
<1> QED BY <1>1, <1>6 DEF ExecInv, Core, MemTyped, Backed, ExclusiveSafe

\* Nothing the executor looks at has changed.
LEMMA CoreStable ==
  ASSUME ExecInv, UNCHANGED <<regs, v, tpidr, monitor, mem, regions, touched>>
  PROVE  ExecInv'
BY DEF ExecInv, Core, RegsTyped, MemTyped, Backed, ExclusiveSafe

\* Every step of the process keeps the core well formed.
LEMMA ExecInvStep ==
  ASSUME Control, Storage, Loading, ExecInv, [Next]_vars
  PROVE  ExecInv'
<1>1. CASE ParseArgs
  BY <1>1, ParsedTo, CoreStable DEF userVars, execVars
<1>2. CASE RunStep
  <2>1. UserNext
    BY <1>2 DEF RunStep
  <2>2. CASE UNCHANGED <<regs, v, tpidr, monitor, mem, regions, touched>>
    BY <2>2, CoreStable
  <2>3. CASE MapSegment
    <3>1. ElfFile(prog)
      BY <2>3 DEF MapSegment, Control, RunPhases
    <3>2. UNCHANGED <<regs, v, tpidr, monitor, touched>>
      BY <2>3 DEF MapSegment, LoadFails, Mapped, execVars
    <3> QED BY <2>2, <2>3, <3>1, <3>2, MapSegmentKeeps
  <2>4. CASE MapStack
    <3>1. UNCHANGED <<regs, v, tpidr, monitor, touched>>
      BY <2>4 DEF MapStack, Mapped, userVars, execVars
    <3> QED BY <2>2, <2>4, <3>1, MapStackKeeps
  <2>5. CASE CpuInit
    BY <2>5, CpuInitKeeps
  <2>6. CASE RunGuest
    <3>1. ElfFile(prog)
      BY <2>6 DEF RunGuest, Control, RunPhases
    <3>2. Ready
      BY DEF Ready, ExecInv, Loading
    <3>3. CASE ExecStep
      BY <3>1, <3>2, <3>3, ExecKeeps DEF ExecInv
    <3> QED BY <2>2, <2>6, <3>3 DEF RunGuest, execVars
  <2> QED BY <2>1, <2>2, <2>3, <2>4, <2>5, <2>6 DEF UserNext, CheckHeader, CheckSegments,
         LoadFails, Loaded, RunDone, userVars, execVars
<1>3. CASE BootStep \/ Exited \/ UNCHANGED vars
  BY <1>3, CoreStable DEF BootStep, Exited, vars, userVars, execVars
<1> QED BY <1>1, <1>2, <1>3 DEF Next

\* A zeroed core is.
LEMMA ExecInvInit ==
  ASSUME Init
  PROVE  ExecInv
<1>1. ExecIdle
  BY DEF Init, UserIdle
<1>2. 0 \in Word /\ 0 \in Address
  BY AddressIsWord DEF Address
<1>3. RegsTyped
  BY <1>1, <1>2 DEF ExecIdle, RegsTyped, Registers
<1>4. v \in [VRs -> Int \X Int] /\ tpidr \in Word /\ monitor \in Monitor
  BY <1>1, <1>2 DEF ExecIdle, Monitor
<1>5. MemTyped
  <2>1. mem = <<>> /\ regions = <<>>
    BY <1>1 DEF ExecIdle
  <2> QED BY <2>1 DEF MemTyped, Backed
<1> QED BY <1>1, <1>3, <1>4, <1>5 DEF ExecInv, Core, ExclusiveSafe, ExecIdle

\* Whatever the guest computes, stores or asks of the system: the registers
\* hold values of their width and flags, the PC and the reservation addresses,
\* and memory bytes, with every byte of every region behind it.
THEOREM CoreTyped == Spec => []Core
<1>1. Init => ExecInv
  BY ExecInvInit
<1>2. ProcessInv /\ ExecInv /\ [Next]_vars => ExecInv'
  BY ExecInvStep DEF ProcessInv
<1>3. ExecInv => Core
  BY DEF ExecInv
<1> QED BY <1>1, <1>2, <1>3, ProcessInvariant, PTL DEF Spec

\* A reservation that is still live when a store exclusive looks at it was hit
\* by no scalar, pair, vector pair or exclusive store since the load.
THEOREM ReservationsSafe == Spec => []ExclusiveSafe
<1>1. Init => ExecInv
  BY ExecInvInit
<1>2. ProcessInv /\ ExecInv /\ [Next]_vars => ExecInv'
  BY ExecInvStep DEF ProcessInv
<1>3. ExecInv => ExclusiveSafe
  BY DEF ExecInv
<1> QED BY <1>1, <1>2, <1>3, ProcessInvariant, PTL DEF Spec

-----------------------------------------------------------------------------
(* The flags of a comparison.                                              *)

\* The top bit of a number of `bits' bits.
LEMMA TopBitIs ==
  ASSUME NEW bits \in 1 .. XBits, NEW x \in 0 .. Pow2[bits] - 1
  PROVE  /\ Pow2[bits] = 2 * Pow2[bits - 1] /\ Pow2[bits - 1] \in Nat \ {0}
         /\ TopBit(x, bits) <=> x >= Pow2[bits - 1]
<1>1. Pow2[bits] = 2 * Pow2[bits - 1]
  BY PowerStep
<1>2. bits - 1 \in 0 .. XBits
  BY Widths
<1>3. Pow2[bits - 1] \in Nat \ {0}
  BY <1>2, Power
<1> DEFINE H == Pow2[bits - 1]
<1>4. H \in Nat \ {0} /\ x \in Int /\ 0 <= x /\ x < 2 * H
  BY <1>1, <1>3
<1> HIDE DEF H
<1>5. CASE x >= H
  <2> DEFINE r == x - H
  <2>1. r \in 0 .. H - 1 /\ x = (H * 1) + r
    BY <1>4, <1>5
  <2> HIDE DEF r
  <2>2. ((H * 1) + r) \div H = 1
    BY <1>4, <2>1, ModUnique
  <2>3. x \div H = 1
    BY <2>1, <2>2
  <2>4. (x \div H) % 2 = 1
    BY <2>3
  <2>5. TopBit(x, bits)
    BY <2>4 DEF TopBit, H
  <2> QED BY <1>1, <1>3, <1>5, <2>5 DEF H
<1>6. CASE ~(x >= H)
  <2>1. x \in 0 .. H - 1 /\ x = (H * 0) + x
    BY <1>4, <1>6
  <2>2. ((H * 0) + x) \div H = 0
    BY <1>4, <2>1, ModUnique
  <2>3. x \div H = 0
    BY <2>1, <2>2
  <2>4. (x \div H) % 2 = 0
    BY <2>3
  <2>5. ~TopBit(x, bits)
    BY <2>4 DEF TopBit, H
  <2> QED BY <1>1, <1>3, <1>6, <2>5 DEF H
<1> QED BY <1>5, <1>6

\* A remainder that is already one, and one after a single wrap.
LEMMA TruncateOnce ==
  ASSUME NEW bits \in 0 .. XBits, NEW x \in Int, 0 <= x, x < 2 * Pow2[bits]
  PROVE  /\ Truncate(x, bits) = IF x < Pow2[bits] THEN x ELSE x - Pow2[bits]
         /\ ShiftR(x, bits) = IF x < Pow2[bits] THEN 0 ELSE 1
<1> DEFINE P == Pow2[bits]
<1>1. P \in Nat \ {0}
  BY Power
<1>2. 0 <= x /\ x < 2 * P
  OBVIOUS
<1> HIDE DEF P
<1>3. CASE x < P
  <2>1. x \in 0 .. P - 1 /\ x = (P * 0) + x
    BY <1>1, <1>2, <1>3
  <2>2. ((P * 0) + x) % P = x /\ ((P * 0) + x) \div P = 0
    BY <1>1, <2>1, ModUnique
  <2>3. x % P = x /\ x \div P = 0
    BY <2>1, <2>2
  <2> QED BY <1>3, <2>3 DEF Truncate, ShiftR, P
<1>4. CASE ~(x < P)
  <2> DEFINE r == x - P
  <2>1. r \in 0 .. P - 1 /\ x = (P * 1) + r
    BY <1>1, <1>2, <1>4
  <2> HIDE DEF r
  <2>2. ((P * 1) + r) % P = r /\ ((P * 1) + r) \div P = 1
    BY <1>1, <2>1, ModUnique
  <2>3. x % P = r /\ x \div P = 1
    BY <2>1, <2>2
  <2> QED BY <1>4, <2>3 DEF Truncate, ShiftR, P, r
<1> QED BY <1>3, <1>4

\* C's ~ of a register, cut to a width, is the complement at that width.
LEMMA InvTruncate ==
  ASSUME NEW bits \in 0 .. XBits, NEW x \in Int
  PROVE  Truncate(Inv(x), bits) = (Pow2[bits] - 1) - Truncate(x, bits)
<1> DEFINE P == Pow2[bits]
           R == Pow2[XBits - bits]
           q == x \div P
           r == x % P
<1>1. XBits - bits \in 0 .. XBits /\ bits + (XBits - bits) = XBits /\ XBits \in 0 .. XBits
  BY Widths
<1>2. P \in Nat \ {0} /\ R \in Nat \ {0}
  BY <1>1, Power
<1>3. Pow2[XBits] = P * R
  <2>1. Pow2[bits + (XBits - bits)] = Pow2[bits] * Pow2[XBits - bits]
    BY <1>1, PowerAdds
  <2> QED BY <1>1, <2>1
<1> HIDE DEF P, R
<1>4. q \in Int /\ r \in 0 .. P - 1 /\ x = (P * q) + r
  BY <1>2, DivMod
<1>5. Inv(x) = ((P * R) - 1) - x
  BY <1>3 DEF Inv, Ones
<1> DEFINE k == (R - q) - 1
           s == (P - 1) - r
<1> HIDE DEF q, r
<1>6. k \in Int /\ s \in 0 .. P - 1
  BY <1>2, <1>4
<1>7. Inv(x) = (P * k) + s
  <2>1. P * k = ((P * R) - (P * q)) - P
    BY <1>2, <1>4
  <2> QED BY <1>2, <1>4, <1>5, <2>1
<1> HIDE DEF k, s
<1>8. ((P * k) + s) % P = s
  BY <1>2, <1>6, ModUnique
<1>9. Inv(x) % P = s
  BY <1>7, <1>8
<1> QED BY <1>9 DEF Truncate, P, s, r

\* What the flags say after n - m: the difference, whether it borrowed, and
\* whether its sign is that of the exact one.
Subtracted(f, n, m, bits) ==
  LET half == Pow2[bits - 1]
      d == IF n >= m THEN n - m ELSE (n - m) + Pow2[bits]
  IN /\ "Z" \in f <=> n = m
     /\ "C" \in f <=> n >= m
     /\ "N" \in f <=> d >= half
     /\ "V" \in f <=> ((n >= half) <=> (m < half)) /\ ~((d >= half) <=> (n >= half))

\* add_with_carry of n, the complement of m and a carry leaves the flags of n - m.
LEMMA CompareFlags ==
  ASSUME NEW bits \in {WBits, XBits}, NEW n \in 0 .. Pow2[bits] - 1,
         NEW m \in 0 .. Pow2[bits] - 1, NEW y, Truncate(y, bits) = (Pow2[bits] - 1) - m
  PROVE  Subtracted(AddWithCarry(n, y, TRUE, bits).nzcv, n, m, bits)
<1> DEFINE P == Pow2[bits]
           half == Pow2[bits - 1]
           ya == (P - 1) - m
           d == IF n >= m THEN n - m ELSE (n - m) + P
<1>1. bits \in 0 .. XBits /\ bits \in 1 .. XBits
  BY BitsIs
<1>2. P \in Nat \ {0} /\ P = 2 * half /\ half \in Nat \ {0}
  BY <1>1, Power, TopBitIs
<1>3. Truncate(n, bits) = n /\ Truncate(y, bits) = ya
  <2>1. n \in Int /\ 0 <= n /\ n < Pow2[bits] /\ n < 2 * Pow2[bits]
    BY <1>2
  <2> QED BY <1>1, <2>1, TruncateOnce
<1>4. ya \in 0 .. Pow2[bits] - 1 /\ d \in 0 .. Pow2[bits] - 1
  BY <1>2
<1>5. Truncate((n + ya) + 1, bits) = d /\ (ShiftR((n + ya) + 1, bits) # 0 <=> n >= m)
  <2> DEFINE x == (n + ya) + 1
  <2>1. x \in Int /\ 0 <= x /\ x < 2 * Pow2[bits] /\ x = (n - m) + P
    BY <1>2, <1>4
  <2> HIDE DEF x
  <2>2. /\ Truncate(x, bits) = IF x < Pow2[bits] THEN x ELSE x - Pow2[bits]
        /\ ShiftR(x, bits) = IF x < Pow2[bits] THEN 0 ELSE 1
    BY <1>1, <2>1, TruncateOnce
  <2>3. x < Pow2[bits] <=> ~(n >= m)
    BY <1>2, <2>1
  <2>4. Truncate(x, bits) = d
    BY <1>2, <2>1, <2>2, <2>3
  <2> QED BY <2>2, <2>3, <2>4 DEF x
<1> DEFINE partial == Truncate(n + ya, XBits)
           carryOut == IF bits = WBits THEN ShiftR((n + ya) + 1, WBits) # 0
                       ELSE partial < n \/ partial = Ones(XBits)
<1>6. carryOut <=> n >= m
  <2>1. CASE bits = WBits
    BY <1>5, <2>1
  <2>2. CASE bits # WBits
    <3>1. bits = XBits
      BY <2>2
    <3> DEFINE x == n + ya
    <3>2. x \in Int /\ 0 <= x /\ x < 2 * Pow2[bits] /\ x = ((n - m) + P) - 1
      BY <1>2, <1>4
    <3> HIDE DEF x
    <3>3. Truncate(x, bits) = IF x < Pow2[bits] THEN x ELSE x - Pow2[bits]
      BY <1>1, <3>2, TruncateOnce
    <3>4. partial = IF x < P THEN x ELSE x - P
      BY <3>1, <3>3 DEF x
    <3>5. Ones(XBits) = P - 1
      BY <3>1 DEF Ones
    <3> HIDE DEF partial, P, half
    <3>6. n \in Int /\ m \in Int /\ 0 <= n /\ 0 <= m /\ n <= P - 1 /\ m <= P - 1
      BY <1>2 DEF P
    <3>7. (partial < n \/ partial = P - 1) <=> n >= m
      BY <1>2, <3>2, <3>4, <3>6
    <3> QED BY <2>2, <3>5, <3>7
  <2> QED BY <2>1, <2>2
<1> DEFINE f == Nz(d, bits) \cup (IF carryOut THEN {"C"} ELSE {})
                  \cup (IF /\ TopBit(n, bits) = TopBit(ya, bits)
                           /\ TopBit(d, bits) # TopBit(n, bits) THEN {"V"} ELSE {})
<1>7. AddWithCarry(n, y, TRUE, bits).nzcv = f
  <2> HIDE DEF ya, d
  <2> QED BY <1>3, <1>5 DEF AddWithCarry
<1>8. /\ TopBit(n, bits) <=> n >= half
      /\ TopBit(ya, bits) <=> m < half
      /\ TopBit(d, bits) <=> d >= half
  <2>1. ya >= half <=> m < half
    BY <1>2
  <2> HIDE DEF ya, d
  <2> QED BY <1>1, <1>4, <2>1, TopBitIs
<1>9. Truncate(d, bits) = 0 <=> n = m
  <2>1. d \in Int /\ 0 <= d /\ d < Pow2[bits] /\ d < 2 * Pow2[bits] /\ (d = 0 <=> n = m)
    BY <1>2, <1>4
  <2> HIDE DEF d
  <2> QED BY <1>1, <2>1, TruncateOnce
<1>10. TopBit(n, bits) \in BOOLEAN /\ TopBit(ya, bits) \in BOOLEAN /\ TopBit(d, bits) \in BOOLEAN
  BY DEF TopBit
<1> HIDE DEF d, ya, carryOut
<1>11. /\ "Z" \in f <=> Truncate(d, bits) = 0
       /\ "C" \in f <=> carryOut
       /\ "N" \in f <=> TopBit(d, bits)
       /\ "V" \in f <=> TopBit(n, bits) = TopBit(ya, bits) /\ TopBit(d, bits) # TopBit(n, bits)
  BY DEF Nz
<1> HIDE DEF f, P, half
<1>12. /\ "Z" \in f <=> n = m
       /\ "C" \in f <=> n >= m
       /\ "N" \in f <=> d >= half
       /\ "V" \in f <=> ((n >= half) <=> (m < half)) /\ ~((d >= half) <=> (n >= half))
  BY <1>6, <1>8, <1>9, <1>10, <1>11
<1> QED BY <1>7, <1>12 DEF Subtracted, d, half, P

\* The twelve conditions that read an ordering off the flags.
LEMMA CondIs ==
  ASSUME NEW f, NEW cond \in Comparing
  PROVE  /\ cond = 0 => (CondHolds(f, cond) <=> "Z" \in f)
         /\ cond = 1 => (CondHolds(f, cond) <=> "Z" \notin f)
         /\ cond = 2 => (CondHolds(f, cond) <=> "C" \in f)
         /\ cond = 3 => (CondHolds(f, cond) <=> "C" \notin f)
         /\ cond = 8 => (CondHolds(f, cond) <=> "C" \in f /\ "Z" \notin f)
         /\ cond = 9 => (CondHolds(f, cond) <=> ~("C" \in f /\ "Z" \notin f))
         /\ cond = 10 => (CondHolds(f, cond) <=> ("N" \in f <=> "V" \in f))
         /\ cond = 11 => (CondHolds(f, cond) <=> ~("N" \in f <=> "V" \in f))
         /\ cond = 12 => (CondHolds(f, cond) <=> ("N" \in f <=> "V" \in f) /\ "Z" \notin f)
         /\ cond = 13 => (CondHolds(f, cond) <=> ~(("N" \in f <=> "V" \in f) /\ "Z" \notin f))
         /\ cond \in {14, 15} => CondHolds(f, cond)
<1> DEFINE Z == "Z" \in f
           C == "C" \in f
           N == "N" \in f
           V == "V" \in f
<1>1. /\ CondBase(f, 0) <=> Z
      /\ CondBase(f, 1) <=> C
      /\ CondBase(f, 4) <=> C /\ ~Z
      /\ CondBase(f, 5) <=> (N <=> V)
      /\ CondBase(f, 6) <=> (N <=> V) /\ ~Z
      /\ CondBase(f, 7)
  BY DEF CondBase
<1>2. CondHolds(f, cond) <=>
        IF cond % 2 = 1 /\ cond # 15 THEN ~CondBase(f, cond \div 2) ELSE CondBase(f, cond \div 2)
  BY DEF CondHolds
<1> HIDE DEF Z, C, N, V
<1>3. CASE cond \in {0, 1, 2, 3, 8, 9}
  <2>1. /\ cond = 0 => cond % 2 = 0 /\ cond \div 2 = 0
        /\ cond = 1 => cond % 2 = 1 /\ cond \div 2 = 0
        /\ cond = 2 => cond % 2 = 0 /\ cond \div 2 = 1
        /\ cond = 3 => cond % 2 = 1 /\ cond \div 2 = 1
        /\ cond = 8 => cond % 2 = 0 /\ cond \div 2 = 4
        /\ cond = 9 => cond % 2 = 1 /\ cond \div 2 = 4
    OBVIOUS
  <2> QED BY <1>1, <1>2, <1>3, <2>1 DEF Z, C
<1>4. CASE cond \in {10, 11, 12, 13, 14, 15}
  <2>1. /\ cond = 10 => cond % 2 = 0 /\ cond \div 2 = 5
        /\ cond = 11 => cond % 2 = 1 /\ cond \div 2 = 5
        /\ cond = 12 => cond % 2 = 0 /\ cond \div 2 = 6
        /\ cond = 13 => cond % 2 = 1 /\ cond \div 2 = 6
        /\ cond = 14 => cond % 2 = 0 /\ cond \div 2 = 7
        /\ cond = 15 => cond % 2 = 1 /\ cond \div 2 = 7
    OBVIOUS
  <2> QED BY <1>1, <1>2, <1>4, <2>1 DEF Z, C, N, V
<1> QED BY <1>3, <1>4 DEF Comparing

\* A condition read off those flags is the relation it is named for.
LEMMA ConditionDecides ==
  ASSUME NEW f, NEW c, c.bits \in {WBits, XBits}, c.n \in 0 .. Pow2[c.bits] - 1,
         c.m \in 0 .. Pow2[c.bits] - 1, Subtracted(f, c.n, c.m, c.bits), NEW cond \in Comparing
  PROVE  CondHolds(f, cond) <=> Relation(cond, c)
<1> DEFINE bits == c.bits
           n == c.n
           m == c.m
           P == Pow2[bits]
           half == Pow2[bits - 1]
           d == IF n >= m THEN n - m ELSE (n - m) + P
           sn == IF n >= half THEN n - P ELSE n
           sm == IF m >= half THEN m - P ELSE m
           Z == "Z" \in f
           C == "C" \in f
           N == "N" \in f
           V == "V" \in f
           sless == sn < sm
<1>1. bits \in 1 .. XBits /\ n \in 0 .. Pow2[bits] - 1 /\ m \in 0 .. Pow2[bits] - 1
  BY BitsIs
<1>2. /\ P = 2 * half /\ half \in Nat \ {0}
      /\ TopBit(n, bits) <=> n >= half 
      /\ TopBit(m, bits) <=> m >= half
  <2> HIDE DEF n, m, bits
  <2>1. P = 2 * half /\ half \in Nat \ {0} /\ (TopBit(n, bits) <=> n >= half)
    BY <1>1, TopBitIs
  <2>2. TopBit(m, bits) <=> m >= half
    BY <1>1, TopBitIs
  <2> QED BY <2>1, <2>2
<1>3. Signed(n, bits) = sn /\ Signed(m, bits) = sm
  <2> HIDE DEF n, m, bits, half
  <2> QED BY <1>2 DEF Signed
<1>4. /\ Z <=> n = m
      /\ C <=> n >= m
      /\ N <=> d >= half
      /\ V <=> ((n >= half) <=> (m < half)) /\ ~((d >= half) <=> (n >= half))
  BY DEF Subtracted
<1>5. n \in Int /\ m \in Int /\ 0 <= n /\ n < P /\ 0 <= m /\ m < P /\ P \in Int
  BY <1>1, <1>2
<1> HIDE DEF Z, C, N, V, n, m, P, half, bits
<1>6. (N <=> V) <=> sn >= sm
  BY <1>2, <1>4, <1>5
<1>7. sn \in Int /\ sm \in Int /\ (sn = sm <=> n = m)
  BY <1>2, <1>5
<1>8. /\ cond = 0 => (CondHolds(f, cond) <=> Z)
      /\ cond = 1 => (CondHolds(f, cond) <=> ~Z)
      /\ cond = 2 => (CondHolds(f, cond) <=> C)
      /\ cond = 3 => (CondHolds(f, cond) <=> ~C)
      /\ cond = 8 => (CondHolds(f, cond) <=> C /\ ~Z)
      /\ cond = 9 => (CondHolds(f, cond) <=> ~(C /\ ~Z))
      /\ cond = 10 => (CondHolds(f, cond) <=> (N <=> V))
      /\ cond = 11 => (CondHolds(f, cond) <=> ~(N <=> V))
      /\ cond = 12 => (CondHolds(f, cond) <=> (N <=> V) /\ ~Z)
      /\ cond = 13 => (CondHolds(f, cond) <=> ~((N <=> V) /\ ~Z))
      /\ cond \in {14, 15} => CondHolds(f, cond)
  BY CondIs, Zenon DEF Z, C, N, V
<1> HIDE DEF sn, sm
<1>9. /\ cond = 0 => (Relation(cond, c) <=> n = m)
      /\ cond = 1 => (Relation(cond, c) <=> n # m)
      /\ cond = 2 => (Relation(cond, c) <=> n >= m)
      /\ cond = 3 => (Relation(cond, c) <=> n < m)
      /\ cond = 8 => (Relation(cond, c) <=> n > m)
      /\ cond = 9 => (Relation(cond, c) <=> n <= m)
      /\ cond = 10 => (Relation(cond, c) <=> sn >= sm)
      /\ cond = 11 => (Relation(cond, c) <=> sn < sm)
      /\ cond = 12 => (Relation(cond, c) <=> sn > sm)
      /\ cond = 13 => (Relation(cond, c) <=> sn <= sm)
      /\ cond \in {14, 15} => Relation(cond, c)
  <2> USE <1>3 DEF Relation
  <2>1. cond = 0 => (Relation(cond, c) <=> n = m)
    BY DEF n, m
  <2>2. cond = 1 => (Relation(cond, c) <=> n # m)
    BY DEF n, m
  <2>3. cond = 2 => (Relation(cond, c) <=> n >= m)
    BY DEF n, m
  <2>4. cond = 3 => (Relation(cond, c) <=> n < m)
    BY DEF n, m
  <2>5. cond = 8 => (Relation(cond, c) <=> n > m)
    BY DEF n, m
  <2>6. cond = 9 => (Relation(cond, c) <=> n <= m)
    BY DEF n, m
  <2>7. cond = 10 => (Relation(cond, c) <=> sn >= sm)
    BY DEF n, m, bits
  <2>8. cond = 11 => (Relation(cond, c) <=> sn < sm)
    BY DEF n, m, bits
  <2>9. cond = 12 => (Relation(cond, c) <=> sn > sm)
    BY DEF n, m, bits
  <2>10. cond = 13 => (Relation(cond, c) <=> sn <= sm)
    BY DEF n, m, bits
  <2>11. cond \in {14, 15} => Relation(cond, c)
    <3>1. cond = 14 => (Relation(cond, c) <=> n = n)
      BY SMT
    <3>2. cond = 15 => (Relation(cond, c) <=> n = n)
      BY SMT
    <3> HIDE DEF Relation
    <3> QED BY <3>1, <3>2
  <2> HIDE DEF Relation
  <2> QED BY <2>1, <2>2, <2>3, <2>4, <2>5, <2>6, <2>7, <2>8, <2>9, <2>10, <2>11
<1>10. CASE cond \in {0, 1, 2, 3, 8, 9}
  BY <1>4, <1>5, <1>8, <1>9, <1>10
<1>11. CASE cond \in {10, 11, 12, 13}
  BY <1>4, <1>5, <1>6, <1>7, <1>8, <1>9, <1>11
<1>12. CASE cond \in {14, 15}
  BY <1>8, <1>9, <1>12
<1> QED BY <1>10, <1>11, <1>12 DEF Comparing

\* A register file with the flags of the present one.
SameFlags(r) == "nzcv" \in DOMAIN r /\ r.nzcv = regs.nzcv

\* Register writes leave the flags.
LEMMA WritesKeepFlags ==
  ASSUME NEW r, SameFlags(r), NEW n, NEW b, NEW value
  PROVE  /\ SameFlags(WriteX(r, n, b, value)) /\ SameFlags(WriteSp(r, n, b, value))
         /\ SameFlags(Advance(r)) /\ SameFlags([r EXCEPT !.pc = value])
         /\ SameFlags([r EXCEPT !.sp = value])
<1>1. SameFlags(WriteX(r, n, b, value)) /\ SameFlags(WriteSp(r, n, b, value))
  BY DEF SameFlags, WriteX, WriteSp
<1> QED BY <1>1 DEF SameFlags, Advance

LEMMA WritebackKeepsFlags ==
  ASSUME NEW r, SameFlags(r), NEW in
  PROVE  SameFlags(Writeback(r, in)) /\ SameFlags(Advance(Writeback(r, in)))
<1>1. SameFlags(Writeback(r, in))
  BY WritesKeepFlags DEF Writeback
<1> QED BY <1>1, WritesKeepFlags

-----------------------------------------------------------------------------
(* The comparison that the flags remember.                                *)

\* The flags are those of the comparison that the history remembers.
Compared ==
  compared.bits # 0 =>
    /\ compared.bits \in {WBits, XBits}
    /\ compared.n \in 0 .. Pow2[compared.bits] - 1
    /\ compared.m \in 0 .. Pow2[compared.bits] - 1
    /\ Subtracted(regs.nzcv, compared.n, compared.m, compared.bits)

\* The steps that leave flags and history alone.
LEMMA SameFlagsKeep ==
  ASSUME Compared, SameFlags(regs'), UNCHANGED compared
  PROVE  Compared'
BY DEF Compared, SameFlags

LEMMA QuietCompared ==
  ASSUME Compared, NEW r, SameFlags(r), Quiet(r)
  PROVE  Compared'
<1>1. regs' = r /\ UNCHANGED compared
  BY DEF Quiet, Retire
<1> QED BY <1>1, SameFlagsKeep

LEMMA RefuseCompared ==
  ASSUME Compared, NEW verdict, Refuse(verdict)
  PROVE  Compared'
BY DEF Refuse, Compared

LEMMA StoresCompared ==
  ASSUME Compared, NEW r, SameFlags(r), NEW pieces, NEW how, NEW mon, Stores(pieces, how, mon, r)
  PROVE  Compared'
<1>1. CASE Refuse("panic")
  BY <1>1, RefuseCompared
<1>2. CASE Retire(r) /\ UNCHANGED compared
  <2>1. regs' = r
    BY <1>2 DEF Retire
  <2> QED BY <1>2, <2>1, SameFlagsKeep
<1> QED BY <1>1, <1>2 DEF Stores

\* SUBS compares its operands, the second cut to the width.
LEMMA SubsCompares ==
  ASSUME RegsTyped, NEW in, Decoded(in), in.op = "SUBS"
  PROVE  LET n == ReadG(in.rn, in.rnSp, in.bits)
             m == Truncate(Operand2(in), in.bits)
         IN /\ n \in 0 .. Pow2[in.bits] - 1 /\ m \in 0 .. Pow2[in.bits] - 1
            /\ Subtracted(DataResult(in).nzcv, n, m, in.bits)
<1> DEFINE bits == in.bits
           n == ReadG(in.rn, in.rnSp, bits)
           o == Operand2(in)
           m == Truncate(o, bits)
<1>1. /\ bits \in {WBits, XBits} /\ bits \in 0 .. XBits /\ in.rn \in Operands
      /\ in.rnSp \in BOOLEAN
  BY Fields
<1>2. ReadX(in.rn, bits) \in 0 .. Pow2[bits] - 1 /\ ReadSp(in.rn, bits) \in 0 .. Pow2[bits] - 1
  <2>1. Pow2[bits] \in Nat \ {0}
    BY <1>1, Power
  <2> HIDE DEF bits
  <2> QED BY <1>1, <2>1, Reads
<1>3. n \in 0 .. Pow2[bits] - 1
  BY <1>1, <1>2 DEF ReadG
<1>4. o \in Int
  BY Operand2Int
<1>5. m \in 0 .. Pow2[bits] - 1
  <2> HIDE DEF o, bits
  <2>1. Pow2[bits] \in Nat \ {0}
    BY <1>1, Power
  <2> QED BY <1>1, <1>4, <2>1, TruncateIs
<1>6. DataResult(in) = AddWithCarry(n, Inv(o), TRUE, bits)
  <2>1. DataResult(in) = AddSubResult(in)
    BY DEF DataResult, AddSub, WithCarry, Logical, Moves, Bitfields, VarShifts, Crcs,
       Shufflers, Divisions, Products, Widening, Selects
  <2>2. in.op \in {"SUB", "SUBS"} /\ in.op \in {"ADDS", "SUBS"}
    OBVIOUS
  <2>3. (in.op \in {"SUB", "SUBS"}) = TRUE
    BY <2>2
  <2> QED BY <2>1, <2>2, <2>3 DEF AddSubResult
<1>7. Truncate(Inv(o), bits) = (Pow2[bits] - 1) - m
  <2> HIDE DEF o, bits
  <2> QED BY <1>1, <1>4, InvTruncate
<1> DEFINE y == Inv(o)
<1> HIDE DEF n, m, o, bits
<1>8. Subtracted(AddWithCarry(n, y, TRUE, bits).nzcv, n, m, bits)
  <2> HIDE DEF y
  <2>1. Truncate(y, bits) = (Pow2[bits] - 1) - m
    BY <1>7 DEF y
  <2> QED BY <1>1, <1>3, <1>5, <2>1, CompareFlags
<1> QED BY <1>3, <1>5, <1>6, <1>8 DEF n, m, o, bits

\* SUBS starts a comparison; other flag setters end it.
LEMMA DataCompared ==
  ASSUME Ready, Compared, NEW in, Decoded(in), DataProcessing(in)
  PROVE  Compared'
<1> DEFINE d == DataResult(in)
           r == [regs EXCEPT !.nzcv = d.nzcv]
           s == WriteG(r, in.rd, in.rdSp, WidthOf(in), d.value)
           n == ReadG(in.rn, in.rnSp, in.bits)
           m == Truncate(Operand2(in), in.bits)
<1>1. RegsTyped /\ regs \in Registers /\ "nzcv" \in DOMAIN regs
  BY DEF Ready, Core, RegsTyped, Registers
<1>2. /\ regs' = Advance(s)
      /\ in.op = "SUBS" => compared' = [n |-> n, m |-> m, bits |-> in.bits]
      /\ in.op # "SUBS" => \/ compared' = [bits |-> 0]
                           \/ compared' = compared /\ d.nzcv = regs.nzcv
  BY DEF DataProcessing, Retire
<1>3. "nzcv" \in DOMAIN r /\ r.nzcv = d.nzcv
  BY <1>1
<1> HIDE DEF d, r
<1>4. "nzcv" \in DOMAIN s /\ s.nzcv = d.nzcv
  BY <1>3 DEF WriteG, WriteX, WriteSp
<1> HIDE DEF s
<1>5. regs'.nzcv = d.nzcv
  BY <1>2, <1>4 DEF Advance
<1>6. CASE in.op = "SUBS"
  <2>1. /\ n \in 0 .. Pow2[in.bits] - 1 /\ m \in 0 .. Pow2[in.bits] - 1
        /\ Subtracted(d.nzcv, n, m, in.bits)
    BY <1>1, <1>6, SubsCompares, Zenon DEF d
  <2>2. in.bits \in {WBits, XBits}
    BY Fields
  <2> HIDE DEF n, m
  <2>3. compared'.bits = in.bits /\ compared'.n = n /\ compared'.m = m
    BY <1>2, <1>6
  <2> QED BY <1>5, <2>1, <2>2, <2>3 DEF Compared
<1>7. CASE in.op # "SUBS"
  BY <1>2, <1>5, <1>7 DEF Compared
<1> QED BY <1>6, <1>7

\* CCMP starts one when its condition holds, and ends it otherwise.
LEMMA CcmpCompared ==
  ASSUME Ready, Compared, NEW in, Decoded(in), ConditionalCompare(in)
  PROVE  Compared'
<1> DEFINE bits == in.bits
           n == ReadX(in.rn, bits)
           m == IF in.kind = "IMM" THEN in.imm ELSE ReadX(in.rm, bits)
           y == Inv(m)
           held == CondHolds(regs.nzcv, in.cond)
           c == AddWithCarry(n, y, TRUE, bits)
<1>1. RegsTyped /\ regs \in Registers /\ "nzcv" \in DOMAIN regs
  BY DEF Ready, Core, RegsTyped, Registers
<1>2. bits \in {WBits, XBits} /\ bits \in 0 .. XBits /\ in.rn \in Operands /\ in.rm \in Operands
  BY Fields
<1>3. CASE compared' = [bits |-> 0]
  BY <1>3 DEF Compared
<1>4. CASE held /\ in.op = "CCMP"
  <2>1. /\ compared' = [n |-> n, m |-> m, bits |-> bits]
        /\ regs' = Advance([regs EXCEPT !.nzcv = c.nzcv])
    BY <1>4 DEF ConditionalCompare, Retire
  <2>2. Pow2[bits] \in Nat \ {0}
    BY <1>2, Power
  <2>3. n \in 0 .. Pow2[bits] - 1 /\ ReadX(in.rm, bits) \in 0 .. Pow2[bits] - 1
    <3> HIDE DEF bits
    <3> QED BY <1>1, <1>2, <2>2, Reads
  <2>4. in.kind = "IMM" => in.imm \in 0 .. Pow2[bits] - 1
    BY <1>4 DEF Decoded, Ones
  <2>5. m \in 0 .. Pow2[bits] - 1 /\ m \in Int
    BY <2>2, <2>3, <2>4
  <2> HIDE DEF m, n, bits
  <2>6. Truncate(m, bits) = m
    <3>1. 0 <= m /\ m < Pow2[bits] /\ m < 2 * Pow2[bits]
      BY <2>2, <2>5
    <3> QED BY <1>2, <2>5, <3>1, TruncateOnce
  <2>7. Truncate(y, bits) = (Pow2[bits] - 1) - m
    BY <1>2, <2>5, <2>6, InvTruncate
  <2> HIDE DEF y
  <2>8. Subtracted(c.nzcv, n, m, bits)
    BY <1>2, <2>3, <2>5, <2>7, CompareFlags
  <2> HIDE DEF c
  <2>9. regs'.nzcv = c.nzcv
    BY <1>1, <2>1 DEF Advance
  <2>10. compared'.bits = bits /\ compared'.n = n /\ compared'.m = m
    BY <2>1
  <2> QED BY <1>2, <2>3, <2>5, <2>8, <2>9, <2>10 DEF Compared
<1> QED BY <1>3, <1>4 DEF ConditionalCompare

\* The instructions that set no flags leave the comparison standing.
LEMMA OthersCompared ==
  ASSUME Ready, Compared, NEW in, Decoded(in),
         \/ Branch(in) \/ SingleMem(in) \/ Pair(in) \/ SingleVector(in) \/ PairVector(in)
         \/ Exclusive(in) \/ Svc(in) \/ Mrs(in) \/ Msr(in) \/ VecDup(in) \/ Nop(in) \/ Trap(in)
  PROVE  Compared'
<1>1. regs \in Registers /\ SameFlags(regs)
  BY DEF Ready, Core, RegsTyped, Registers, SameFlags
<1>2. SameFlags(Advance(regs)) /\ SameFlags(Advance(Writeback(regs, in)))
  BY <1>1, WritesKeepFlags, WritebackKeepsFlags
<1>3. ASSUME NEW value PROVE SameFlags(Returns(value))
  <2>1. SameFlags(WriteX(regs, 0, XBits, Truncate(value, XBits)))
    BY <1>1, WritesKeepFlags
  <2> QED BY <2>1, WritesKeepFlags DEF Returns
<1>4. CASE Branch(in)
  <2> DEFINE link == WriteX(regs, 30, XBits, Plus(regs.pc, 4))
             from == IF in.op \in {"BL", "BLR"} THEN link ELSE regs
             to == [from EXCEPT !.pc = Target(in)]
             r == IF ~Taken(in) THEN Advance(regs) ELSE to
  <2>1. SameFlags(link)
    BY <1>1, WritesKeepFlags
  <2> HIDE DEF link
  <2>2. SameFlags(from)
    BY <1>1, <2>1
  <2> HIDE DEF from
  <2>3. SameFlags(to)
    BY <2>2, WritesKeepFlags
  <2> HIDE DEF to
  <2>4. SameFlags(r)
    BY <1>2, <2>3
  <2>5. Quiet(r)
    BY <1>4 DEF Branch, to, from, link
  <2> HIDE DEF r
  <2> QED BY <2>4, <2>5, QuietCompared
<1>5. CASE SingleMem(in)
  <2> DEFINE addr == IF in.kind = "IMM" THEN in.imm ELSE Resolve(in).addr
             wb(r) == Advance(IF in.kind = "IMM" THEN r ELSE Writeback(r, in))
             loaded == WriteX(regs, in.rd, in.bits, LoadExt(mem, addr, in.size, in.signed))
             pieces == <<Piece(addr, in.size, ReadX(in.rd, in.bits))>>
  <2>1. SameFlags(loaded)
    BY <1>1, WritesKeepFlags
  <2>2. \/ Refuse("FAULT") \/ Quiet(wb(loaded))
        \/ Stores(pieces, "scalar", NoteStore(addr, in.size), wb(regs))
    BY <1>5 DEF SingleMem
  <2> HIDE DEF loaded, pieces, addr
  <2>3. SameFlags(wb(regs)) /\ SameFlags(wb(loaded))
    BY <1>1, <2>1, WritesKeepFlags, WritebackKeepsFlags
  <2> HIDE DEF wb
  <2> QED BY <2>2, <2>3, RefuseCompared, QuietCompared, StoresCompared
<1>6. CASE Pair(in)
  <2> DEFINE addr == Resolve(in).addr
             addr2 == Plus(addr, in.size)
             wb(r) == Advance(Writeback(r, in))
             first == WriteX(regs, in.rd, in.bits, LoadExt(mem, addr, in.size, in.signed))
             both == WriteX(first, in.rt2, in.bits, LoadExt(mem, addr2, in.size, in.signed))
             pieces == <<Piece(addr, in.size, ReadX(in.rd, in.bits)),
                         Piece(addr2, in.size, ReadX(in.rt2, in.bits))>>
  <2>1. SameFlags(first)
    BY <1>1, WritesKeepFlags
  <2>2. SameFlags(both)
    <3> HIDE DEF first
    <3> QED BY <2>1, WritesKeepFlags
  <2>3. \/ Refuse("FAULT") \/ Refuse("panic") \/ Quiet(wb(both))
        \/ Stores(pieces, "pair", NoteStore(addr, 2 * in.size), wb(regs))
    BY <1>6 DEF Pair
  <2> HIDE DEF both, pieces, addr, addr2
  <2>4. SameFlags(wb(regs)) /\ SameFlags(wb(both))
    BY <1>1, <2>2, WritebackKeepsFlags
  <2> HIDE DEF wb
  <2> QED BY <2>3, <2>4, RefuseCompared, QuietCompared, StoresCompared
<1>7. ASSUME NEW i, NEW rs, NEW how, NEW mon, VectorTransfer(i, rs, how, mon)
      PROVE  Compared'
  <2> DEFINE pieces(r) == Pieces(Plus(Resolve(i).addr, (r - 1) * i.size), i.size, v[rs[r]])
             all == IF Len(rs) = 1 THEN pieces(1) ELSE pieces(1) \o pieces(2)
             wb == Advance(Writeback(regs, i))
  <2>1. \/ Refuse("FAULT") \/ Stores(all, how, mon, wb)
        \/ UNCHANGED compared /\ Retire(wb)
    BY <1>7 DEF VectorTransfer
  <2>2. SameFlags(wb)
    BY <1>1, WritebackKeepsFlags
  <2> HIDE DEF all, wb
  <2>3. CASE UNCHANGED compared /\ Retire(wb)
    <3>1. regs' = wb
      BY <2>3 DEF Retire
    <3> QED BY <2>2, <2>3, <3>1, SameFlagsKeep
  <2> QED BY <2>1, <2>2, <2>3, RefuseCompared, StoresCompared
<1>8. CASE SingleVector(in) \/ PairVector(in)
  BY <1>7, <1>8 DEF SingleVector, PairVector
<1>9. CASE Exclusive(in)
  <2> DEFINE addr == ReadSp(in.rn, XBits)
             success == monitor.valid /\ monitor.addr = addr /\ monitor.size = in.size
             result == Advance(WriteX(regs, in.rm, WBits, IF success THEN 0 ELSE 1))
             cleared == [monitor EXCEPT !.valid = FALSE]
             loaded == Advance(WriteX(regs, in.rd, in.bits, Load(mem, addr, in.size)))
             pieces == <<Piece(addr, in.size, ReadX(in.rd, in.bits))>>
  <2>1. SameFlags(loaded)
    <3>1. SameFlags(WriteX(regs, in.rd, in.bits, Load(mem, addr, in.size)))
      BY <1>1, WritesKeepFlags
    <3> QED BY <3>1, WritesKeepFlags
  <2>2. SameFlags(result)
    <3>1. SameFlags(WriteX(regs, in.rm, WBits, IF success THEN 0 ELSE 1))
      BY <1>1, WritesKeepFlags
    <3> QED BY <3>1, WritesKeepFlags
  <2>3. \/ Refuse("FAULT") \/ (UNCHANGED compared /\ Retire(loaded))
        \/ Stores(pieces, "exclusive", cleared, result)
        \/ (UNCHANGED compared /\ Retire(result))
    BY <1>9 DEF Exclusive
  <2> HIDE DEF loaded, result, cleared, pieces
  <2>4. ASSUME NEW r, SameFlags(r), UNCHANGED compared, Retire(r) PROVE Compared'
    <3>1. regs' = r
      BY <2>4 DEF Retire
    <3> QED BY <2>4, <3>1, SameFlagsKeep
  <2> QED BY <2>1, <2>2, <2>3, <2>4, RefuseCompared, StoresCompared
<1>10. CASE Svc(in)
  <2>1. \E value : regs' = Returns(value) /\ UNCHANGED compared
    BY <1>10 DEF Svc, SysExit, SysWrite, SysClock, SysOther, Quiet, Retire
  <2> QED BY <1>3, <2>1, SameFlagsKeep
<1>11. CASE Mrs(in)
  <2>1. Refuse("UNSUPPORTED") \/ \E value : Quiet(Advance(WriteX(regs, in.rd, XBits, value)))
    BY <1>11 DEF Mrs
  <2>2. ASSUME NEW value PROVE SameFlags(Advance(WriteX(regs, in.rd, XBits, value)))
    <3>1. SameFlags(WriteX(regs, in.rd, XBits, value))
      BY <1>1, WritesKeepFlags
    <3> QED BY <3>1, WritesKeepFlags
  <2> QED BY <2>1, <2>2, RefuseCompared, QuietCompared
<1>12. CASE Msr(in)
  <2> DEFINE value == ReadX(in.rd, XBits)
  <2>1. \/ Refuse("UNSUPPORTED")
        \/ compared' = [bits |-> 0]
        \/ /\ UNCHANGED compared
           /\ \/ regs' = Advance([regs EXCEPT !.sp = value])
              \/ regs' = Advance(regs)
    BY <1>12 DEF Msr, Retire
  <2> HIDE DEF value
  <2>2. SameFlags(Advance([regs EXCEPT !.sp = value]))
    <3>1. SameFlags([regs EXCEPT !.sp = value])
      BY <1>1, WritesKeepFlags
    <3> QED BY <3>1, WritesKeepFlags
  <2>3. CASE compared' = [bits |-> 0]
    BY <2>3 DEF Compared
  <2> QED BY <1>2, <2>1, <2>2, <2>3, RefuseCompared, SameFlagsKeep
<1>13. CASE VecDup(in) \/ Nop(in)
  <2>1. regs' = Advance(regs) /\ UNCHANGED compared
    BY <1>13 DEF VecDup, Nop, Quiet, Retire
  <2> QED BY <1>2, <2>1, SameFlagsKeep
<1>14. CASE Trap(in)
  BY <1>14, RefuseCompared DEF Trap
<1> QED BY <1>4, <1>5, <1>6, <1>8, <1>9, <1>10, <1>11, <1>12, <1>13, <1>14

\* A step of the guest.
LEMMA ExecCompared ==
  ASSUME Ready, ElfFile(prog), Compared, ExecStep
  PROVE  Compared'
<1>1. CASE FetchFault \/ DecodeError
  BY <1>1, RefuseCompared DEF FetchFault, DecodeError
<1>2. CASE AtInsn /\ Dispatch(Text[Here])
  <2>1. Decoded(Text[Here])
    BY <1>2 DEF AtInsn, ElfFile, Text
  <2> QED BY <1>2, <2>1, DataCompared, CcmpCompared, OthersCompared DEF Dispatch
<1> QED BY <1>1, <1>2 DEF ExecStep

-----------------------------------------------------------------------------
(* Conditional branches.                                                   *)

\* The core, the history and the count of steps.
CompareInv == ExecInv /\ Compared /\ done \in Nat

\* Nothing has been compared.
LEMMA CompareInvInit ==
  ASSUME Init
  PROVE  CompareInv
<1>1. ExecIdle
  BY DEF Init, UserIdle
<1> QED BY <1>1, ExecInvInit DEF ExecIdle, CompareInv, Compared

\* Outside the guest's steps the flags and the count of steps stand still.
LEMMA StandStill ==
  ASSUME Control, ~(RunStep /\ RunGuest /\ ExecStep), [Next]_vars
  PROVE  UNCHANGED <<compared, done, env>> /\ (UNCHANGED regs \/ CpuInit)
<1>1. CASE ParseArgs
  BY <1>1, ParsedTo DEF userVars, execVars
<1>2. CASE RunStep
  <2>1. UserNext
    BY <1>2 DEF RunStep
  <2>2. CASE MapSegment
    BY <2>2 DEF MapSegment, LoadFails, Mapped, execVars
  <2>3. CASE MapStack
    BY <2>3 DEF MapStack, Mapped, userVars, execVars
  <2>4. CASE CpuInit
    BY <2>4 DEF CpuInit, StartExec
  <2>5. CASE RunGuest
    BY <1>2, <2>5 DEF RunGuest, execVars
  <2> QED BY <2>1, <2>2, <2>3, <2>4, <2>5 DEF UserNext, CheckHeader, CheckSegments,
         LoadFails, Loaded, RunDone, userVars, execVars
<1>3. CASE BootStep \/ Exited \/ UNCHANGED vars
  BY <1>3 DEF BootStep, Exited, vars, userVars, execVars
<1> QED BY <1>1, <1>2, <1>3 DEF Next

\* A step of the guest counts as one, or ends the run and does not count.
LEMMA StepCounts ==
  ASSUME ExecStep
  PROVE  done' = done \/ done' = done + 1
BY DEF ExecStep, FetchFault, DecodeError, Dispatch, Trap, Refuse, Nop, Quiet, Retire, VecDup, Msr,
   Mrs, Svc, SysExit, SysWrite, SysClock, SysOther, Exclusive, Stores, SingleVector, PairVector,
   VectorTransfer, Pair, SingleMem, Branch, ConditionalCompare, DataProcessing

\* Every step of the process keeps the history true.
LEMMA CompareInvStep ==
  ASSUME Control, Storage, Loading, CompareInv, [Next]_vars
  PROVE  CompareInv'
<1>1. ExecInv' /\ regs \in Registers
  BY ExecInvStep DEF CompareInv, ExecInv, Core, RegsTyped
<1>2. CASE RunStep /\ RunGuest /\ ExecStep
  <2>1. ElfFile(prog) /\ Ready
    BY <1>2 DEF RunGuest, Control, RunPhases, Ready, CompareInv, ExecInv, Loading
  <2>2. Compared'
    BY <1>2, <2>1, ExecCompared DEF CompareInv
  <2>3. done' = done \/ done' = done + 1
    BY <1>2, StepCounts
  <2> QED BY <1>1, <2>2, <2>3 DEF CompareInv
<1>3. CASE ~(RunStep /\ RunGuest /\ ExecStep)
  <2>1. UNCHANGED <<compared, done, env>> /\ (UNCHANGED regs \/ CpuInit)
    BY <1>3, StandStill
  <2>2. regs'.nzcv = regs.nzcv
    <3>1. CASE CpuInit
      BY <1>1, <3>1 DEF CpuInit, StartExec, Registers
    <3> QED BY <2>1, <3>1
  <2> QED BY <1>1, <2>1, <2>2 DEF CompareInv, Compared
<1> QED BY <1>2, <1>3

\* Every condition that compares has a truth value.
LEMMA RelationBoolean ==
  ASSUME NEW cond \in Comparing, NEW c
  PROVE  Relation(cond, c) \in BOOLEAN
<1>1. cond = 0 => Relation(cond, c) \in BOOLEAN
  BY DEF Relation
<1>2. cond = 1 => Relation(cond, c) \in BOOLEAN
  BY DEF Relation
<1>3. cond = 2 => Relation(cond, c) \in BOOLEAN
  BY DEF Relation
<1>4. cond = 3 => Relation(cond, c) \in BOOLEAN
  BY DEF Relation
<1>5. cond = 8 => Relation(cond, c) \in BOOLEAN
  BY DEF Relation
<1>6. cond = 9 => Relation(cond, c) \in BOOLEAN
  BY DEF Relation
<1>7. cond = 10 => Relation(cond, c) \in BOOLEAN
  BY DEF Relation
<1>8. cond = 11 => Relation(cond, c) \in BOOLEAN
  BY DEF Relation
<1>9. cond = 12 => Relation(cond, c) \in BOOLEAN
  BY DEF Relation
<1>10. cond = 13 => Relation(cond, c) \in BOOLEAN
  BY DEF Relation
<1>11. cond = 14 => Relation(cond, c) \in BOOLEAN
  BY DEF Relation
<1>12. cond = 15 => Relation(cond, c) \in BOOLEAN
  BY DEF Relation
<1> QED BY <1>1, <1>2, <1>3, <1>4, <1>5, <1>6, <1>7, <1>8, <1>9, <1>10, <1>11, <1>12 DEF Comparing

\* The one step that the property speaks of.
LEMMA BranchDecides ==
  ASSUME Control, Storage, Loading, CompareInv, [Next]_vars, Completes,
         Text[Here].op = "B_COND", compared.bits # 0, Text[Here].cond \in Comparing,
         Text[Here].imm # Plus(regs.pc, 4)
  PROVE  (regs'.pc = Text[Here].imm) = Relation(Text[Here].cond, compared)
<1> DEFINE in == Text[Here]
<1>1. ExecStep
  <2>1. done' # done
    BY DEF Completes, CompareInv
  <2> QED BY <2>1, StandStill
<1>2. Branch(in)
  <2>1. Dispatch(in)
    BY <1>1 DEF ExecStep, FetchFault, DecodeError, Refuse, Completes, CompareInv
  <2> HIDE DEF in
  <2>2. in.op = "B_COND"
    BY DEF in
  <2> QED BY <2>1, <2>2 DEF Dispatch, DataProcessing, ConditionalCompare, SingleMem, Pair,
         SingleVector, PairVector, Exclusive, Svc, Mrs, Msr, VecDup, Nop, Trap, DataOps, AddSub,
         WithCarry, Logical, Moves, Bitfields, VarShifts, Crcs, Shufflers, Divisions, Products,
         Widening, HighWords, Selects
<1>3. regs \in Registers
  BY DEF CompareInv, ExecInv, Core, RegsTyped
<1>4. regs'.pc = IF CondHolds(regs.nzcv, in.cond) THEN in.imm ELSE Plus(regs.pc, 4)
  <2> HIDE DEF in
  <2>1. in.op = "B_COND"
    BY DEF in
  <2>2. /\ Taken(in) = CondHolds(regs.nzcv, in.cond) /\ Target(in) = in.imm
        /\ in.op \notin {"BL", "BLR"}
    BY <2>1 DEF Taken, Target
  <2>3. regs' = IF ~CondHolds(regs.nzcv, in.cond) THEN Advance(regs)
                ELSE [regs EXCEPT !.pc = in.imm]
    BY <1>2, <2>2 DEF Branch, Quiet, Retire
  <2> QED BY <1>3, <2>3 DEF Advance, Registers
<1>5. CondHolds(regs.nzcv, in.cond) <=> Relation(in.cond, compared)
  BY ConditionDecides DEF CompareInv, Compared
<1>6. Relation(in.cond, compared) \in BOOLEAN
  BY RelationBoolean
<1> QED BY <1>4, <1>5, <1>6

\* A conditional branch is taken exactly when the relation it is named for
\* holds of the two operands last compared: the flags SUBS and CCMP leave at
\* either width, carried by whatever ran in between, are read back as that
\* relation, signed and unsigned.
THEOREM ComparisonsDecide == Spec => ComparesDecide
<1>1. Init => CompareInv
  BY CompareInvInit
<1>2. ProcessInv /\ CompareInv /\ [Next]_vars => CompareInv'
  BY CompareInvStep DEF ProcessInv
<1>3. ProcessInv /\ CompareInv /\ [Next]_vars =>
        [Completes /\ Text[Here].op = "B_COND" /\ compared.bits # 0
           /\ Text[Here].cond \in Comparing /\ Text[Here].imm # Plus(regs.pc, 4) =>
           (regs'.pc = Text[Here].imm) = Relation(Text[Here].cond, compared)]_<<regs, status, done>>
  BY BranchDecides DEF ProcessInv
<1> QED BY <1>1, <1>2, <1>3, ProcessInvariant, PTL DEF Spec, ComparesDecide

-----------------------------------------------------------------------------
(* Values travel little-endian: eight bytes stored are the value loaded.   *)
LEMMA ByteStep ==
  ASSUME NEW x \in Int, NEW k \in 0 .. 7
  PROVE  x % Pow2[ByteBits * (k + 1)] =
           (x % Pow2[ByteBits * k])
             + (((x \div Pow2[ByteBits * k]) % Pow2[ByteBits]) * Pow2[ByteBits * k])
<1> DEFINE a == ByteBits * k
           P == Pow2[a]
           Q == Pow2[ByteBits]
           q == x \div P
           r == x % P
           s == q \div Q
           t == q % Q
<1>1. a \in 0 .. XBits /\ ByteBits \in 0 .. XBits /\ a + ByteBits <= XBits
  <2>1. ByteBits \in Nat /\ XBits = 8 * ByteBits
    BY Widths
  <2>2. \A j \in 0 .. 7 : ByteBits * j \in 0 .. 7 * ByteBits
    BY <2>1
  <2> QED BY <2>1, <2>2
<1>2. ByteBits * (k + 1) = a + ByteBits
  BY Widths
<1> HIDE DEF a
<1>3. Pow2[a + ByteBits] = P * Q /\ P \in Nat \ {0} /\ Q \in Nat \ {0}
  BY <1>1, PowerAdds, Power
<1> HIDE DEF P, Q
<1>4. q \in Int /\ r \in 0 .. P - 1 /\ x = (P * q) + r
  BY <1>3, DivMod
<1> HIDE DEF q, r
<1>5. s \in Int /\ t \in 0 .. Q - 1 /\ q = (Q * s) + t
  BY <1>3, <1>4, DivMod
<1> HIDE DEF s, t
<1> DEFINE M == P * Q
           u == r + (t * P)
<1>6. M \in Nat \ {0}
  BY <1>3
<1>7. u \in 0 .. M - 1
  <2>1. t * P \in Nat /\ t * P <= (Q - 1) * P
    BY <1>3, <1>5
  <2>2. (Q - 1) * P = M - P
    BY <1>3
  <2> HIDE DEF M
  <2> QED BY <1>3, <1>4, <1>6, <2>1, <2>2
<1>8. x = (M * s) + u
  <2>1. P * ((Q * s) + t) = ((P * Q) * s) + (t * P)
    BY <1>3, <1>5
  <2> QED BY <1>3, <1>4, <1>5, <2>1
<1> HIDE DEF M, u
<1>9. ((M * s) + u) % M = u
  BY <1>5, <1>6, <1>7, ModUnique
<1>10. x % M = u
  BY <1>8, <1>9
<1> QED BY <1>2, <1>3, <1>10 DEF M, u, r, t, q, P, Q, a

\* Eight bytes cut from a value, loaded, are the value.
LEMMA LoadIs ==
  ASSUME NEW m, NEW addr \in Int, NEW value \in Word,
         \A i \in 0 .. 7 : m[addr + i] = Truncate(ShiftR(value, ByteBits * i), ByteBits)
  PROVE  Load(m, addr, 8) = value
<1> DEFINE f == [i \in 0 .. 8 - 1 |-> m[addr + i] * Pow2[ByteBits * i]]
           low == [k \in 0 .. 8 |-> value % Pow2[ByteBits * k]]
<1>1. ByteBits \in 0 .. XBits /\ \A i \in 0 .. 8 : ByteBits * i \in 0 .. XBits
  <2>1. ByteBits \in Nat /\ XBits = 8 * ByteBits
    BY Widths
  <2> QED BY <2>1
<1>2. value \in Int /\ 0 <= value /\ value < Pow2[XBits]
  BY WordIs
<1>3. ASSUME NEW i \in 0 .. 7
      PROVE  /\ f[i] = ((value \div Pow2[ByteBits * i]) % Pow2[ByteBits]) * Pow2[ByteBits * i]
             /\ f[i] \in Int
  <2>1. f[i] = ((value \div Pow2[ByteBits * i]) % Pow2[ByteBits]) * Pow2[ByteBits * i]
    BY DEF Truncate, ShiftR
  <2> DEFINE p == Pow2[ByteBits * i]
             b == Pow2[ByteBits]
  <2>2. p \in Nat \ {0} /\ b \in Nat \ {0}
    <3>1. ByteBits * i \in 0 .. XBits
      BY <1>1
    <3> QED BY <1>1, <3>1, Power
  <2> HIDE DEF p, b
  <2>3. value \div p \in Int
    BY <1>2, <2>2, DivMod
  <2>4. (value \div p) % b \in Int
    <3>1. (value \div p) % b \in 0 .. b - 1
      BY <2>2, <2>3, DivMod
    <3> QED BY <2>2, <3>1
  <2>5. ((value \div p) % b) * p \in Int
    BY <2>2, <2>4
  <2> QED BY <2>1, <2>5 DEF p, b
<1>4. f \in [0 .. 8 - 1 -> Int]
  <2>1. f = [i \in 0 .. 8 - 1 |-> f[i]]
    OBVIOUS
  <2> HIDE DEF f
  <2>2. 0 .. 8 - 1 = 0 .. 7
    OBVIOUS
  <2> QED BY <1>3, <2>1, <2>2
<1>5. Load(m, addr, 8) = SumTo(f, 8)
  BY DEF Load
<1> HIDE DEF f
<1>6. PICK s \in [0 .. 8 -> Int] : /\ s[0] = 0
                                    /\ \A i \in 1 .. 8 : s[i] = s[i - 1] + f[i - 1]
                                    /\ SumTo(f, 8) = s[8]
  BY <1>4, SumToIs
<1> DEFINE S == {k \in 0 .. 8 : s[k] = low[k]}
<1>7. 0 \in S
  <2>1. ByteBits * 0 = 0
    BY <1>1
  <2>2. value % 1 = 0
    BY <1>2
  <2> QED BY <1>6, <2>1, <2>2, Power0
<1>8. ASSUME NEW i \in 1 .. 8, i - 1 \in S PROVE i \in S
  <2> DEFINE k == i - 1
  <2>1. k \in 0 .. 7 /\ i = k + 1
    OBVIOUS
  <2>2. s[i] = low[k] + f[k]
    BY <1>6, <1>8
  <2>3. low[k] = value % Pow2[ByteBits * k] /\ low[i] = value % Pow2[ByteBits * i]
    BY <2>1
  <2> HIDE DEF k, low
  <2>4. value % Pow2[ByteBits * (k + 1)] =
          (value % Pow2[ByteBits * k])
            + (((value \div Pow2[ByteBits * k]) % Pow2[ByteBits]) * Pow2[ByteBits * k])
    BY <1>2, <2>1, ByteStep
  <2> QED BY <1>3, <2>1, <2>2, <2>3, <2>4
<1>9. 8 \in S
  <2>1. S \in SUBSET (0 .. 8) /\ 8 \in Nat
    OBVIOUS
  <2> HIDE DEF S
  <2>2. \A i \in 0 .. 8 : i \in S
    BY <1>7, <1>8, <2>1, BoundedInduction
  <2> QED BY <2>2
<1>10. low[8] = value
  <2>1. ByteBits * 8 = XBits /\ XBits \in 0 .. XBits
    BY Widths
  <2>2. Pow2[XBits] \in Nat \ {0}
    BY <2>1, Power
  <2>3. value % Pow2[XBits] = value
    BY <1>2, <2>2
  <2> QED BY <2>1, <2>3
<1> QED BY <1>5, <1>6, <1>9, <1>10

-----------------------------------------------------------------------------
(* What a guest reads in x0 after a system call.                           *)
Errnos == {-EBADF, -EFAULT, -EINVAL, -ENOSYS}

\* An error number reads back negative, a count below half the range as itself.
LEMMA Returned ==
  ASSUME RegsTyped, NEW value \in Word \cup Errnos, regs' = Returns(value)
  PROVE  LET result == Signed(regs'.x[0], XBits)
         IN /\ value \in Errnos => result = value /\ result < 0
            /\ value \in Word /\ value < Pow2[XBits - 1] => result = value /\ result >= 0
            /\ value \in Word /\ value >= Pow2[XBits - 1] => result < 0
<1> DEFINE P == Pow2[XBits]
           half == Pow2[XBits - 1]
           t == Truncate(value, XBits)
<1>1. XBits \in 0 .. XBits /\ XBits \in 1 .. XBits
  BY Widths
<1>2. P \in Nat \ {0} /\ P >= 256 /\ P = 2 * half /\ half \in Nat \ {0}
  BY <1>1, Power, PowerValues, PowerStep
<1>3. /\ value \in Errnos => value \in -38 .. -1
      /\ value \in Word => value \in Int /\ 0 <= value /\ value < P
      /\ value \in Int
  BY WordIs DEF Errnos, EBADF, EFAULT, EINVAL, ENOSYS
<1>4. (value \in Word => t = value) /\ (value \in Errnos => t = value + P)
  <2>1. CASE value \in Word
    <3>1. value < 2 * Pow2[XBits]
      BY <1>2, <1>3, <2>1
    <3>2. value \notin Errnos
      BY <1>3, <2>1
    <3> QED BY <1>1, <1>3, <2>1, <3>1, <3>2, TruncateOnce
  <2>2. CASE value \in Errnos
    <3> DEFINE r == value + P
    <3>1. r \in 0 .. P - 1 /\ value = (P * (-1)) + r
      <4> HIDE DEF P, half
      <4>1. \A p \in Nat : p * (-1) = 0 - p
        OBVIOUS
      <4>2. P * (-1) = 0 - P
        BY <1>2, <4>1
      <4>3. value \in -38 .. -1 /\ value \in Int
        BY <1>3, <2>2
      <4>4. r \in Int /\ 0 <= r /\ r <= P - 1
        BY <1>2, <4>3
      <4>5. value = (0 - P) + r
        BY <1>2, <4>3
      <4> QED BY <1>2, <4>2, <4>4, <4>5
    <3> HIDE DEF r, P
    <3> DEFINE k == -1
    <3>2. k \in Int /\ value = (P * k) + r
      BY <3>1
    <3> HIDE DEF k
    <3>3. ((P * k) + r) % P = r
      BY <1>2, <3>1, <3>2, ModUnique
    <3>6. value % P = r
      BY <3>2, <3>3
    <3>4. value \notin Word
      BY <1>3, <2>2
    <3> QED BY <3>4, <3>6 DEF Truncate, P, r
  <2> QED BY <2>1, <2>2
<1> HIDE DEF t
<1>5. t \in 0 .. Pow2[XBits] - 1 /\ t \in Int
  BY <1>2, <1>3, <1>4
<1>6. regs'.x[0] = t
  <2>1. regs \in Registers /\ 0 \in GPRs /\ 0 # ZR
    BY DEF RegsTyped, GPRs, ZR
  <2>2. Truncate(t, XBits) = t
    <3>1. 0 <= t /\ t < 2 * Pow2[XBits] /\ t < Pow2[XBits]
      BY <1>2, <1>5
    <3> QED BY <1>1, <1>5, <3>1, TruncateOnce
  <2>3. regs' = Advance([regs EXCEPT !.x[0] = t])
    BY <2>1, <2>2 DEF Returns, WriteX, t
  <2> QED BY <2>1, <2>3 DEF Advance, Registers
<1>7. TopBit(t, XBits) <=> t >= half
  BY <1>1, <1>5, TopBitIs
<1>8. Signed(t, XBits) = IF t >= half THEN t - P ELSE t
  BY <1>7 DEF Signed
<1> HIDE DEF P, half
<1>9. /\ value \in Errnos => Signed(t, XBits) = value /\ Signed(t, XBits) < 0
      /\ value \in Word /\ value < half => Signed(t, XBits) = value /\ Signed(t, XBits) >= 0
      /\ value \in Word /\ value >= half => Signed(t, XBits) < 0
  BY <1>2, <1>3, <1>4, <1>8
<1> QED BY <1>6, <1>9 DEF half

-----------------------------------------------------------------------------
(* The system calls.                                                       *)

Env == [exited : BOOLEAN, exit_code : Int, out : Seq(Int)]

\* sys_write sends the guest's own bytes.
LEMMA WriteSends ==
  ASSUME Ready, env \in Env, SysWrite
  PROVE  /\ env' \in Env /\ mem' = mem
         /\ \/ /\ \E e \in Errnos : regs' = Returns(e)
               /\ env' = env
            \/ \E written \in Word :
                 /\ regs' = Returns(written)
                 /\ Len(env'.out) - Len(env.out) = written
                 /\ \A i \in 1 .. written :
                      /\ regs.x[1] + (i - 1) \in DOMAIN mem
                      /\ env'.out[Len(env.out) + i] = mem[regs.x[1] + (i - 1)]
<1> DEFINE buf == regs.x[1]
           count == regs.x[2]
           refused == WriteRefused(regs.x[0], buf, count)
           sentOf(w) == [i \in 1 .. w |-> IF Plus(buf, i - 1) \in DOMAIN mem
                                          THEN mem[Plus(buf, i - 1)] ELSE -1]
<1>1. /\ regs \in Registers /\ MemTyped /\ regions \in Seq(Region) /\ SoundTable(regions)
      /\ mem \in [DOMAIN mem -> Byte]
  BY DEF Ready, Core, RegsTyped, MemTyped
<1>2. buf \in Address /\ count \in Word /\ count \in Address
  BY <1>1, AddressIsWord DEF Registers, GPRs
<1>3. PICK written \in 0 .. (IF refused # 0 THEN 0 ELSE count) :
        /\ env' = [env EXCEPT !.out = @ \o sentOf(written)]
        /\ mem' = mem
        /\ regs' = Returns(IF refused # 0 THEN -refused ELSE written)
  BY DEF SysWrite, Retire
<1>4. refused \in {0, EBADF, EFAULT} /\ 0 # EBADF /\ 0 # EFAULT
  BY DEF WriteRefused, EBADF, EFAULT
<1>5. refused = 0 /\ count # 0 => count <= Top - buf /\ Serves(buf, count, "r")
  BY <1>2, AddressIsWord DEF WriteRefused, EBADF, EFAULT, Address
<1> HIDE DEF buf, count, refused
<1>6. count \in Nat /\ written \in Nat /\ written <= count /\ (refused # 0 => written = 0)
  BY <1>2, <1>3, <1>4, WordIs
<1>7. ASSUME NEW i \in 1 .. written
      PROVE  /\ Plus(buf, i - 1) = buf + (i - 1) /\ buf + (i - 1) \in DOMAIN mem
             /\ mem[buf + (i - 1)] \in Int
  <2>1. refused = 0 /\ count # 0 /\ i - 1 \in 0 .. count - 1 /\ count \in Sizes
    BY <1>2, <1>6 DEF Sizes, Address
  <2>2. buf + (i - 1) \in DOMAIN mem /\ buf + (i - 1) \in Address
    BY <1>1, <1>2, <1>5, <2>1, ServedBytes
  <2>4. Plus(buf, i - 1) = buf + (i - 1)
    BY <2>2, AddressIsWord DEF Plus, Address
  <2>5. mem[buf + (i - 1)] \in Byte
    BY <1>1, <2>2
  <2>6. Byte \subseteq Int
    BY Power, Widths DEF Byte
  <2> QED BY <2>2, <2>4, <2>5, <2>6
<1> DEFINE f == sentOf(written)
<1>8. ASSUME NEW i \in 1 .. written PROVE f[i] = mem[buf + (i - 1)] /\ f[i] \in Int
  BY <1>7
<1>9. f \in Seq(Int) /\ Len(f) = written
  <2>1. f = [i \in 1 .. written |-> f[i]]
    OBVIOUS
  <2> HIDE DEF f
  <2> QED BY <1>6, <1>8, <2>1
<1> HIDE DEF f, sentOf
<1>10. env' \in Env /\ env'.out = env.out \o f
  <2>1. env' = [env EXCEPT !.out = env.out \o f]
    BY <1>3 DEF f
  <2> DEFINE o == env.out \o f
  <2>2. o \in Seq(Int)
    BY <1>9 DEF Env
  <2>3. env' = [env EXCEPT !.out = o]
    BY <2>1
  <2> HIDE DEF o
  <2>4. env' \in Env /\ env'.out = o
    BY <2>2, <2>3 DEF Env
  <2> QED BY <2>4 DEF o
<1>11. /\ Len(env'.out) - Len(env.out) = written
       /\ \A i \in 1 .. written : env'.out[Len(env.out) + i] = f[i]
  <2>1. env.out \in Seq(Int)
    BY DEF Env
  <2> DEFINE o == env.out
             p == env'.out
  <2>2. o \in Seq(Int) /\ p = o \o f
    BY <1>10, <2>1
  <2> HIDE DEF o, p
  <2>3. Len(p) = Len(o) + written /\ Len(o) \in Nat
    BY <1>9, <2>2
  <2>4. ASSUME NEW i \in 1 .. written PROVE p[Len(o) + i] = f[i]
    BY <1>6, <1>9, <2>2, <2>3
  <2>5. Len(p) - Len(o) = written
    BY <1>6, <2>3
  <2> QED BY <2>4, <2>5 DEF o, p
<1>12. CASE refused # 0
  <2>1. -refused \in Errnos /\ regs' = Returns(-refused)
    BY <1>3, <1>4, <1>12 DEF Errnos
  <2>2. env' = env
    <3>1. written = 0
      BY <1>6, <1>12
    <3>2. f = << >>
      BY <1>9, <3>1
    <3>3. env.out \o f = env.out
      BY <3>2 DEF Env
    <3>4. env' = [env EXCEPT !.out = env.out \o f]
      BY <1>3 DEF f
    <3> QED BY <3>3, <3>4 DEF Env
  <2> QED BY <1>3, <1>10, <2>1, <2>2
<1>13. CASE refused = 0
  <2>1. written \in Word
    <3>1. count \in 0 .. Pow2[XBits] - 1 /\ Pow2[XBits] \in Int
      BY <1>2, Power, Widths DEF Word
    <3> QED BY <1>6, <3>1 DEF Word
  <2>2. regs' = Returns(written)
    BY <1>3, <1>13
  <2> QED BY <1>3, <1>7, <1>8, <1>10, <1>11, <2>1, <2>2 DEF buf
<1> QED BY <1>12, <1>13

\* sys_clock_gettime stores both fields or nothing.
LEMMA ClockStores ==
  ASSUME Ready, SysClock
  PROVE  /\ env' = env
         /\ \/ /\ \E e \in Errnos : regs' = Returns(e)
               /\ mem' = mem
            \/ /\ regs' = Returns(0)
               /\ Load(mem', regs.x[1], 8) \in TimeValues
               /\ Load(mem', Plus(regs.x[1], 8), 8) \in TimeValues
<1> DEFINE ts == regs.x[1]
           top == Plus(ts, 8)
<1>1. /\ regs \in Registers /\ MemTyped /\ regions \in Seq(Region) /\ SoundTable(regions)
      /\ mem \in [DOMAIN mem -> Byte]
  BY DEF Ready, Core, RegsTyped, MemTyped
<1>2. ts \in Address /\ top \in Address
  <2>1. ts \in Address
    BY <1>1, AddressIsWord DEF Registers, GPRs
  <2> HIDE DEF ts
  <2>2. 8 \in 0 .. 64
    OBVIOUS
  <2> QED BY <2>1, <2>2, PlusSmall
<1>3. PICK sec \in TimeValues, nsec \in TimeValues :
        \/ Quiet(Returns(-EINVAL)) \/ Quiet(Returns(-EFAULT))
        \/ /\ Serves(ts, 8, "w") /\ Serves(top, 8, "w")
           /\ mem' = Store(Store(mem, Piece(top, 8, nsec)), Piece(ts, 8, sec))
           /\ UNCHANGED env
           /\ regs' = Returns(0)
  BY DEF SysClock, ClockValid, Retire
<1>4. CASE Quiet(Returns(-EINVAL)) \/ Quiet(Returns(-EFAULT))
  <2>1. -EINVAL \in Errnos /\ -EFAULT \in Errnos
    BY DEF Errnos
  <2> QED BY <1>4, <2>1 DEF Quiet, Retire
<1>5. CASE /\ Serves(ts, 8, "w") /\ Serves(top, 8, "w")
           /\ mem' = Store(Store(mem, Piece(top, 8, nsec)), Piece(ts, 8, sec))
           /\ UNCHANGED env
           /\ regs' = Returns(0)
  <2> DEFINE byte(x, i) == Truncate(ShiftR(x, ByteBits * i), ByteBits)
             D == DOMAIN mem
             mid == Store(mem, Piece(top, 8, nsec))
  <2>1. mid = [a \in D |-> IF top <= a /\ a < top + 8 THEN byte(nsec, a - top) ELSE mem[a]]
    BY DEF Store, Piece
  <2>2. DOMAIN mid = D /\ mem' = Store(mid, Piece(ts, 8, sec))
    BY <1>5, <2>1
  <2>3. mem' = [a \in D |-> IF ts <= a /\ a < ts + 8 THEN byte(sec, a - ts) ELSE mid[a]]
    <3> HIDE DEF mid
    <3> QED BY <2>2 DEF Store, Piece
  <2> HIDE DEF byte, D, mid
  <2>4. 8 \in Sizes
    BY ByteShifts
  <2>5. \A i \in 0 .. 8 - 1 : ts + i \in D /\ top + i \in D
    <3> HIDE DEF ts, top
    <3>1. \A i \in 0 .. 8 - 1 : ts + i \in DOMAIN mem
      BY <1>1, <1>2, <1>5, <2>4, ServedBytes
    <3>2. \A i \in 0 .. 8 - 1 : top + i \in DOMAIN mem
      BY <1>1, <1>2, <1>5, <2>4, ServedBytes
    <3> QED BY <3>1, <3>2 DEF D
  <2>6. ts \in Int /\ top \in Int /\ (top = ts + 8 \/ top = (ts + 8) - (Top + 1)) /\ Top \in Nat
        /\ Top >= 255
    BY <1>2, AddressIsWord DEF Plus, Address
  <2> HIDE DEF ts, top
  <2>7. ASSUME NEW i \in 0 .. 7
        PROVE  mem'[ts + i] = byte(sec, i) /\ mem'[top + i] = byte(nsec, i)
    <3>1. ts + i \in D /\ top + i \in D /\ (ts + i) - ts = i /\ (top + i) - top = i
      BY <2>5, <2>6
    <3>2. /\ ts <= ts + i /\ ts + i < ts + 8 /\ top <= top + i /\ top + i < top + 8
          /\ ~(ts <= top + i /\ top + i < ts + 8)
      BY <2>6
    <3>3. mem'[ts + i] = byte(sec, i)
      BY <2>3, <3>1, <3>2
    <3>4. mem'[top + i] = mid[top + i]
      BY <2>3, <3>1, <3>2
    <3>5. mid[top + i] = byte(nsec, i)
      BY <2>1, <3>1, <3>2
    <3> QED BY <3>3, <3>4, <3>5
  <2>8. sec \in Word /\ nsec \in Word
    BY ExecAssumption
  <2>9. Load(mem', ts, 8) = sec
    <3> DEFINE m == mem'
    <3>1. \A i \in 0 .. 7 : m[ts + i] = Truncate(ShiftR(sec, ByteBits * i), ByteBits)
      BY <2>7 DEF byte
    <3> HIDE DEF m
    <3>2. Load(m, ts, 8) = sec
      BY <2>6, <2>8, <3>1, LoadIs
    <3> QED BY <3>2 DEF m
  <2>10. Load(mem', top, 8) = nsec
    <3> DEFINE m == mem'
    <3>1. \A i \in 0 .. 7 : m[top + i] = Truncate(ShiftR(nsec, ByteBits * i), ByteBits)
      BY <2>7 DEF byte
    <3> HIDE DEF m
    <3>2. Load(m, top, 8) = nsec
      BY <2>6, <2>8, <3>1, LoadIs
    <3> QED BY <3>2 DEF m
  <2> QED BY <1>5, <2>9, <2>10 DEF top, ts
<1> QED BY <1>3, <1>4, <1>5

-----------------------------------------------------------------------------
(* Every system call, and every step of the process.                       *)

\* What SyscallsAtomic says of one step.
Atomic ==
  LET result == Signed(regs'.x[0], XBits)
      sent == Len(env'.out) - Len(env.out)
  IN /\ result < 0 => mem' = mem /\ (env' # env => sent >= Pow2[XBits - 1])
     /\ result >= 0 /\ regs.x[8] = SYS_WRITE =>
          /\ sent = result
          /\ \A i \in 1 .. sent :
               /\ regs.x[1] + i - 1 \in DOMAIN mem
               /\ env'.out[Len(env.out) + i] = mem[regs.x[1] + i - 1]
     /\ result >= 0 /\ regs.x[8] = SYS_CLOCK_GETTIME =>
          /\ Load(mem', regs.x[1], 8) \in TimeValues
          /\ Load(mem', Plus(regs.x[1], 8), 8) \in TimeValues

\* do_svc.
LEMMA SvcAtomic ==
  ASSUME Ready, env \in Env, NEW in, Svc(in)
  PROVE  Atomic /\ env' \in Env
<1> DEFINE result == Signed(regs'.x[0], XBits)
           half == Pow2[XBits - 1]
<1>1. RegsTyped /\ regs \in Registers
  BY DEF Ready, Core, RegsTyped
<1>2. half \in Nat \ {0} /\ 0 \in Word /\ 0 < half
  <2>1. XBits - 1 \in 0 .. XBits
    BY Widths
  <2>2. half \in Nat \ {0}
    BY <2>1, Power
  <2> QED BY <2>2, AddressIsWord DEF Address
<1>3. ASSUME NEW e \in Errnos, regs' = Returns(e) PROVE result < 0 /\ ~(result >= 0)
  <2>1. e \in Word \cup Errnos
    OBVIOUS
  <2>2. result = e /\ result < 0
    BY <1>1, <1>3, <2>1, Returned, Zenon
  <2>3. e \in Int
    BY DEF Errnos, EBADF, EFAULT, EINVAL, ENOSYS
  <2> HIDE DEF result
  <2> QED BY <2>2, <2>3
<1>4. ASSUME NEW w \in Word, regs' = Returns(w)
      PROVE  (w < half => result = w /\ ~(result < 0)) /\ (w >= half => result < 0 /\ ~(result >= 0))
  <2>1. w \in Word \cup Errnos
    OBVIOUS
  <2>2. /\ w < half => result = w /\ result >= 0
        /\ w >= half => result < 0
    BY <1>1, <1>4, <2>1, Returned, Zenon
  <2>3. result \in Int
    <3>1. w \in Int
      BY WordIs
    <3>2. regs'.x[0] \in Int
      <4>1. Returns(w) \in Registers
        BY <1>1, <3>1, ReturnsTyped
      <4>2. regs'.x[0] \in Word
        BY <1>4, <4>1 DEF Registers, GPRs
      <4> QED BY <4>2, WordIs
    <3>3. XBits \in 1 .. XBits
      BY Widths
    <3> QED BY <3>2, <3>3, SignedInt
  <2> HIDE DEF result, half
  <2> QED BY <1>2, <2>2, <2>3
<1> HIDE DEF result, half
<1>5. CASE SysExit
  <2>1. /\ regs' = Returns(0) /\ mem' = mem
        /\ env' = [env EXCEPT !.exited = TRUE, !.exit_code = Truncate(regs.x[0], WBits)]
        /\ regs.x[8] \notin {SYS_WRITE, SYS_CLOCK_GETTIME}
    BY <1>5 DEF SysExit, Retire, SYS_EXIT, SYS_EXIT_GROUP, SYS_WRITE, SYS_CLOCK_GETTIME
  <2>2. result = 0 /\ ~(result < 0)
    BY <1>2, <1>4, <2>1
  <2>3. env' \in Env
    <3>1. regs.x[0] \in Int /\ WBits \in 0 .. XBits
      <4>1. regs.x[0] \in Word
        BY <1>1 DEF Registers, GPRs
      <4> QED BY <4>1, WordIs, Widths
    <3>2. Truncate(regs.x[0], WBits) \in Int
      BY <3>1, TruncateIs
    <3> QED BY <2>1, <3>2 DEF Env
  <2> QED BY <2>1, <2>2, <2>3 DEF Atomic, result
<1>6. CASE SysWrite
  <2>1. regs.x[8] = SYS_WRITE /\ regs.x[8] # SYS_CLOCK_GETTIME
    BY <1>6 DEF SysWrite, SYS_WRITE, SYS_CLOCK_GETTIME
  <2>2. env' \in Env /\ mem' = mem
    BY <1>6, WriteSends
  <2>3. ASSUME NEW e \in Errnos, regs' = Returns(e), env' = env PROVE Atomic
    <3>1. result < 0 /\ ~(result >= 0)
      BY <1>3, <2>3
    <3> QED BY <2>2, <2>3, <3>1 DEF Atomic, result
  <2>4. ASSUME NEW written \in Word, regs' = Returns(written),
               Len(env'.out) - Len(env.out) = written,
               \A i \in 1 .. written :
                 /\ regs.x[1] + (i - 1) \in DOMAIN mem
                 /\ env'.out[Len(env.out) + i] = mem[regs.x[1] + (i - 1)]
        PROVE  Atomic
    <3>1. written \in Int
      BY WordIs
    <3>2. CASE written < half
      <4>1. result = written /\ ~(result < 0)
        BY <1>4, <2>4, <3>2
      <4> DEFINE sent == Len(env'.out) - Len(env.out)
      <4>2. sent = result /\ \A i \in 1 .. sent :
                                /\ regs.x[1] + i - 1 \in DOMAIN mem
                                /\ env'.out[Len(env.out) + i] = mem[regs.x[1] + i - 1]
        BY <2>4, <4>1, Zenon
      <4> HIDE DEF sent
      <4> QED BY <2>1, <4>1, <4>2 DEF Atomic, result, sent
    <3>3. CASE written >= half
      <4>1. result < 0 /\ ~(result >= 0)
        BY <1>4, <2>4, <3>3
      <4> QED BY <2>2, <2>4, <3>3, <4>1 DEF Atomic, result, half
    <3> QED BY <1>2, <3>1, <3>2, <3>3
  <2> QED BY <1>6, <2>2, <2>3, <2>4, WriteSends
<1>7. CASE SysClock
  <2>1. regs.x[8] = SYS_CLOCK_GETTIME /\ regs.x[8] # SYS_WRITE
    BY <1>7 DEF SysClock, SYS_WRITE, SYS_CLOCK_GETTIME
  <2>2. env' = env
    BY <1>7, ClockStores
  <2>3. ASSUME NEW e \in Errnos, regs' = Returns(e), mem' = mem PROVE Atomic
    <3>1. result < 0 /\ ~(result >= 0)
      BY <1>3, <2>3
    <3> QED BY <2>2, <2>3, <3>1 DEF Atomic, result
  <2>4. ASSUME regs' = Returns(0),
               Load(mem', regs.x[1], 8) \in TimeValues,
               Load(mem', Plus(regs.x[1], 8), 8) \in TimeValues
        PROVE  Atomic
    <3>1. result = 0 /\ ~(result < 0)
      BY <1>2, <1>4, <2>4
    <3> QED BY <2>1, <2>4, <3>1 DEF Atomic, result
  <2> QED BY <1>7, <2>2, <2>3, <2>4, ClockStores
<1>8. CASE SysOther
  <2>1. -ENOSYS \in Errnos /\ regs' = Returns(-ENOSYS) /\ mem' = mem /\ env' = env
    BY <1>8 DEF SysOther, Errnos, Quiet, Retire
  <2>2. result < 0 /\ ~(result >= 0)
    BY <1>3, <2>1
  <2> QED BY <2>1, <2>2 DEF Atomic, result
<1> QED BY <1>5, <1>6, <1>7, <1>8 DEF Svc

\* The core, the output and the count of steps.
SyscallInv == ExecInv /\ env \in Env /\ done \in Nat

\* No output yet.
LEMMA SyscallInvInit ==
  ASSUME Init
  PROVE  SyscallInv
<1>1. ExecIdle
  BY DEF Init, UserIdle
<1>2. env = [exited |-> FALSE, exit_code |-> 0, out |-> << >>] /\ << >> \in Seq(Int)
  BY <1>1 DEF ExecIdle
<1> QED BY <1>1, <1>2, ExecInvInit DEF ExecIdle, SyscallInv, Env

\* The output only grows, by bytes.
LEMMA EnvStep ==
  ASSUME Ready, env \in Env, ExecStep
  PROVE  env' \in Env
<1>1. CASE AtInsn /\ Dispatch(Text[Here])
  <2> DEFINE in == Text[Here]
  <2>1. Dispatch(in)
    BY <1>1
  <2> HIDE DEF in
  <2>2. CASE Svc(in)
    BY <2>2, SvcAtomic
  <2>3. CASE ~Svc(in)
    BY <2>1, <2>3 DEF Dispatch, Trap, Refuse, Nop, Quiet, VecDup, Msr, Mrs, Exclusive, Stores,
       SingleVector, PairVector, VectorTransfer, Pair, SingleMem, Branch, ConditionalCompare,
       DataProcessing
  <2> QED BY <2>2, <2>3
<1> QED BY <1>1 DEF ExecStep, FetchFault, DecodeError, Refuse

\* Every step of the process keeps the output a sequence.
LEMMA SyscallInvStep ==
  ASSUME Control, Storage, Loading, SyscallInv, [Next]_vars
  PROVE  SyscallInv'
<1>1. ExecInv'
  BY ExecInvStep DEF SyscallInv
<1>2. CASE RunStep /\ RunGuest /\ ExecStep
  <2>1. Ready
    BY DEF Ready, SyscallInv, ExecInv, Loading
  <2>2. env' \in Env
    BY <1>2, <2>1, EnvStep DEF SyscallInv
  <2>3. done' = done \/ done' = done + 1
    BY <1>2, StepCounts
  <2> QED BY <1>1, <2>2, <2>3 DEF SyscallInv
<1>3. CASE ~(RunStep /\ RunGuest /\ ExecStep)
  <2>1. UNCHANGED <<done, env>>
    BY <1>3, StandStill
  <2> QED BY <1>1, <2>1 DEF SyscallInv
<1> QED BY <1>2, <1>3

\* The one step that the property speaks of.
LEMMA SyscallStep ==
  ASSUME Control, Storage, Loading, SyscallInv, [Next]_vars, Completes, Text[Here].op = "SVC"
  PROVE  Atomic
<1> DEFINE in == Text[Here]
<1>1. ExecStep
  <2>1. done' # done
    BY DEF Completes, SyscallInv
  <2> QED BY <2>1, StandStill
<1>2. Svc(in)
  <2>1. Dispatch(in)
    BY <1>1 DEF ExecStep, FetchFault, DecodeError, Refuse, Completes, SyscallInv
  <2> HIDE DEF in
  <2>2. in.op = "SVC"
    BY DEF in
  <2> QED BY <2>1, <2>2 DEF Dispatch, DataProcessing, ConditionalCompare, Branch, Branches,
         SingleMem, Pair, SingleVector, PairVector, Exclusive, Mrs, Msr, VecDup, Nop, Trap,
         DataOps, AddSub, WithCarry, Logical, Moves, Bitfields, VarShifts, Crcs, Shufflers,
         Divisions, Products, Widening, HighWords, Selects
<1>3. Ready /\ env \in Env
  BY DEF Ready, SyscallInv, ExecInv, Loading
<1> HIDE DEF in
<1> QED BY <1>2, <1>3, SvcAtomic

\* A system call is all or nothing: one that reports an error has touched
\* neither memory nor the output, a write's result is the number of the guest's
\* own bytes that went out, and a successful clock_gettime leaves both fields
\* readable as the values stored.
THEOREM SystemCallsAtomic == Spec => SyscallsAtomic
<1>1. Init => SyscallInv
  BY SyscallInvInit
<1>2. ProcessInv /\ SyscallInv /\ [Next]_vars => SyscallInv'
  BY SyscallInvStep DEF ProcessInv
<1>3. ProcessInv /\ SyscallInv /\ [Next]_vars =>
        [Completes /\ Text[Here].op = "SVC" => Atomic]_<<regs, status, done>>
  BY SyscallStep DEF ProcessInv
<1>4. SyscallsAtomic <=> [][Completes /\ Text[Here].op = "SVC" => Atomic]_<<regs, status, done>>
  BY DEF SyscallsAtomic, Atomic
<1> QED BY <1>1, <1>2, <1>3, <1>4, ProcessInvariant, PTL DEF Spec

-----------------------------------------------------------------------------
(* Exact results.                                                          *)

(* The adder behind ADD, SUB, ADC, SBC, their flag-setting forms, CMP and  *)
(* CCMP is exact at either width: the value is the sum modulo the width, C *)
(* says that the sum of the unsigned operands did not fit, the carry-in    *)
(* that alone makes it wrap included, and V that the sum of the signed     *)
(* ones did not.                                                           *)
THEOREM SumsExact ==
  ASSUME NEW bits \in {WBits, XBits}, NEW n \in 0 .. Pow2[bits] - 1,
         NEW m \in 0 .. Pow2[bits] - 1, NEW carry \in BOOLEAN
  PROVE  LET c == IF carry THEN 1 ELSE 0
             us == (n + m) + c
             ss == (Signed(n, bits) + Signed(m, bits)) + c
             r == AddWithCarry(n, m, carry, bits)
         IN /\ r.value = us % Pow2[bits]
            /\ "Z" \in r.nzcv <=> r.value = 0
            /\ "N" \in r.nzcv <=> r.value >= Pow2[bits - 1]
            /\ "C" \in r.nzcv <=> us >= Pow2[bits]
            /\ "V" \in r.nzcv <=> ~(-Pow2[bits - 1] <= ss /\ ss < Pow2[bits - 1])
<1> DEFINE P == Pow2[bits]
           half == Pow2[bits - 1]
           c == IF carry THEN 1 ELSE 0
           us == (n + m) + c
           d == IF us < P THEN us ELSE us - P
           partial == Truncate(n + m, XBits)
           carryOut == IF bits = WBits THEN ShiftR(us, WBits) # 0
                       ELSE partial < n \/ (carry /\ partial = Ones(XBits))
           f == Nz(d, bits) \cup (IF carryOut THEN {"C"} ELSE {})
                  \cup (IF /\ TopBit(n, bits) = TopBit(m, bits)
                           /\ TopBit(d, bits) # TopBit(n, bits) THEN {"V"} ELSE {})
<1>1. bits \in 0 .. XBits /\ bits \in 1 .. XBits
  BY BitsIs
<1>2. P \in Nat \ {0} /\ P = 2 * half /\ half \in Nat \ {0}
  BY <1>1, Power, TopBitIs
<1>3. c \in {0, 1} /\ (c = 1 <=> carry)
  OBVIOUS
<1>4. us \in Int /\ 0 <= us /\ us < 2 * Pow2[bits]
  BY <1>2, <1>3
<1>5. Truncate(us, bits) = d /\ (ShiftR(us, bits) # 0 <=> us >= P)
  <2> HIDE DEF us
  <2>1. /\ Truncate(us, bits) = IF us < Pow2[bits] THEN us ELSE us - Pow2[bits]
        /\ ShiftR(us, bits) = IF us < Pow2[bits] THEN 0 ELSE 1
    BY <1>1, <1>4, TruncateOnce
  <2> QED BY <1>2, <1>4, <2>1
<1>6. d \in 0 .. Pow2[bits] - 1
  <2> HIDE DEF us
  <2> QED BY <1>2, <1>4
<1>7. carryOut <=> us >= P
  <2>1. CASE bits = WBits
    BY <1>5, <2>1
  <2>2. CASE bits # WBits
    <3>1. bits = XBits
      BY <2>2
    <3> DEFINE x == n + m
    <3>2. x \in Int /\ 0 <= x /\ x < 2 * Pow2[bits]
      BY <1>2
    <3> HIDE DEF x
    <3>3. Truncate(x, bits) = IF x < Pow2[bits] THEN x ELSE x - Pow2[bits]
      BY <1>1, <3>2, TruncateOnce
    <3>4. partial = IF x < P THEN x ELSE x - P
      BY <3>1, <3>3 DEF x
    <3>5. Ones(XBits) = P - 1
      BY <3>1 DEF Ones
    <3> HIDE DEF partial, P, half, c
    <3>6. n \in Int /\ m \in Int /\ 0 <= n /\ 0 <= m /\ n <= P - 1 /\ m <= P - 1 /\ x = n + m
      BY <1>2 DEF P, x
    <3>7. CASE carry
      <4>1. c = 1
        BY <1>3, <3>7
      <4>2. (partial < n \/ partial = P - 1) <=> x + 1 >= P
        BY <1>2, <3>2, <3>4, <3>6
      <4> QED BY <2>2, <3>5, <3>6, <3>7, <4>1, <4>2
    <3>8. CASE ~carry
      <4>1. c = 0
        BY <1>3, <3>8
      <4>2. partial < n <=> x + 0 >= P
        BY <1>2, <3>2, <3>4, <3>6
      <4> QED BY <2>2, <3>6, <3>8, <4>1, <4>2
    <3> QED BY <3>7, <3>8
  <2> QED BY <2>1, <2>2
<1>8. Truncate(n, bits) = n /\ Truncate(m, bits) = m
  <2>1. /\ n \in Int /\ 0 <= n /\ n < Pow2[bits] /\ n < 2 * Pow2[bits]
        /\ m \in Int /\ 0 <= m /\ m < Pow2[bits] /\ m < 2 * Pow2[bits]
    BY <1>2
  <2> QED BY <1>1, <2>1, TruncateOnce
<1>9. /\ AddWithCarry(n, m, carry, bits).value = d
      /\ AddWithCarry(n, m, carry, bits).nzcv = f
  <2> HIDE DEF d
  <2> QED BY <1>5, <1>8 DEF AddWithCarry
<1>10. /\ TopBit(n, bits) <=> n >= half
       /\ TopBit(m, bits) <=> m >= half
       /\ TopBit(d, bits) <=> d >= half
  <2> HIDE DEF d
  <2> QED BY <1>1, <1>6, TopBitIs
<1>11. Truncate(d, bits) = d
  <2>1. d \in Int /\ 0 <= d /\ d < Pow2[bits] /\ d < 2 * Pow2[bits]
    <3> HIDE DEF d
    <3> QED BY <1>2, <1>6
  <2> HIDE DEF d
  <2> QED BY <1>1, <2>1, TruncateOnce
<1>12. TopBit(n, bits) \in BOOLEAN /\ TopBit(m, bits) \in BOOLEAN /\ TopBit(d, bits) \in BOOLEAN
  BY DEF TopBit
<1>13. /\ "Z" \in f <=> Truncate(d, bits) = 0
       /\ "C" \in f <=> carryOut
       /\ "N" \in f <=> TopBit(d, bits)
       /\ "V" \in f <=> TopBit(n, bits) = TopBit(m, bits) /\ TopBit(d, bits) # TopBit(n, bits)
  <2> HIDE DEF d, carryOut
  <2> QED BY DEF Nz
<1> DEFINE ss == (Signed(n, bits) + Signed(m, bits)) + c
<1>14. ss = ((IF n >= half THEN n - P ELSE n) + (IF m >= half THEN m - P ELSE m)) + c
  BY <1>10 DEF Signed
<1>15. (((n >= half) <=> (m >= half)) /\ ~((d >= half) <=> (n >= half)))
         <=> ~(-half <= ss /\ ss < half)
  <2>1. n \in Int /\ m \in Int /\ 0 <= n /\ 0 <= m /\ n <= P - 1 /\ m <= P - 1
    BY <1>2
  <2> HIDE DEF ss, P, half, c
  <2> QED BY <1>2, <1>3, <1>14, <2>1
<1>16. us % Pow2[bits] = d
  BY <1>5 DEF Truncate
<1> HIDE DEF f, d, carryOut, ss, us, P, half
<1>17. /\ "Z" \in f <=> d = 0
       /\ "N" \in f <=> d >= half
       /\ "C" \in f <=> us >= P
       /\ "V" \in f <=> ~(-half <= ss /\ ss < half)
  BY <1>7, <1>10, <1>11, <1>12, <1>13, <1>15
<1> QED BY <1>9, <1>16, <1>17 DEF us, ss, P, half

\* A product of two numbers below p is below p times p.
LEMMA ProductBelow ==
  ASSUME NEW p \in Nat \ {0}, NEW x \in 0 .. p - 1, NEW y \in 0 .. p - 1
  PROVE  x * y \in Int /\ 0 <= x * y /\ x * y < p * p
<1>1. x * y \in Int /\ 0 <= x * y
  OBVIOUS
<1>2. x * y <= x * p
  <2>1. x * (p - y) >= 0
    OBVIOUS
  <2>2. x * (p - y) = (x * p) - (x * y)
    OBVIOUS
  <2> QED BY <2>1, <2>2
<1>3. x * p < p * p
  <2>1. p * (p - x) > 0
    OBVIOUS
  <2>2. p * (p - x) = (p * p) - (x * p)
    OBVIOUS
  <2> QED BY <2>1, <2>2
<1> QED BY <1>1, <1>2, <1>3

\* The schoolbook product in base B: the high half is what the four partial
\* products and their carries add up to.
LEMMA Schoolbook ==
  ASSUME NEW B \in Nat \ {0}, NEW ah \in Int, NEW al \in Int, NEW bh \in Int, NEW bl \in Int,
         NEW ph \in Int, NEW pl \in 0 .. B - 1, al * bl = (B * ph) + pl,
         NEW qh \in Int, NEW ql \in Int, al * bh = (B * qh) + ql,
         NEW rh \in Int, NEW rl \in Int, ah * bl = (B * rh) + rl,
         NEW mh \in Int, NEW ml \in 0 .. B - 1, (ph + ql) + rl = (B * mh) + ml
  PROVE  /\ ((B * ah) + al) * ((B * bh) + bl)
              = ((B * B) * ((((ah * bh) + qh) + rh) + mh)) + ((B * ml) + pl)
         /\ (B * ml) + pl \in 0 .. (B * B) - 1
<1> DEFINE t == ah * bh
           whole == ((B * ah) + al) * ((B * bh) + bl)
<1>1. t \in Int
  OBVIOUS
<1>2. whole = (((B * B) * (ah * bh)) + (B * (al * bh))) + ((B * (ah * bl)) + (al * bl))
  OBVIOUS
<1>3. whole = (((B * B) * t) + (B * ((B * qh) + ql))) + ((B * ((B * rh) + rl)) + ((B * ph) + pl))
  BY <1>2
<1> HIDE DEF t, whole
<1>4. whole = ((B * B) * ((t + qh) + rh)) + ((B * ((ph + ql) + rl)) + pl)
  BY <1>1, <1>3
<1>5. whole = ((B * B) * ((t + qh) + rh)) + ((B * ((B * mh) + ml)) + pl)
  BY <1>4
<1>6. whole = ((B * B) * (((t + qh) + rh) + mh)) + ((B * ml) + pl)
  BY <1>1, <1>5
<1>7. (B * ml) + pl \in 0 .. (B * B) - 1
  <2>1. B * ml \in Int /\ 0 <= B * ml
    OBVIOUS
  <2>2. B * ml <= (B * B) - B
    <3>1. B * ((B - 1) - ml) >= 0
      OBVIOUS
    <3>2. B * ((B - 1) - ml) = ((B * B) - B) - (B * ml)
      OBVIOUS
    <3> QED BY <3>1, <3>2
  <2> QED BY <2>1, <2>2
<1> QED BY <1>6, <1>7 DEF t, whole

\* Two halves make a register.
LEMMA Halves == Pow2[XBits] = Pow2[WBits] * Pow2[WBits]
<1>1. WBits \in 0 .. XBits /\ WBits + WBits = XBits
  BY Widths
<1>2. Pow2[WBits + WBits] = Pow2[WBits] * Pow2[WBits]
  BY <1>1, PowerAdds
<1> QED BY <1>1, <1>2

\* umulh: the quotient, and what it leaves.
LEMMA UMulHIs ==
  ASSUME NEW a \in Word, NEW b \in Word
  PROVE  /\ UMulH(a, b) = (a * b) \div Pow2[XBits]
         /\ UMulH(a, b) \in 0 .. Pow2[XBits] - 1
<1> DEFINE B == Pow2[WBits]
           P == Pow2[XBits]
           al == a % B
           ah == a \div B
           bl == b % B
           bh == b \div B
           p == al * bl
           q == al * bh
           r == ah * bl
           mid == ((p \div B) + (q % B)) + (r % B)
           high == (((ah * bh) + (q \div B)) + (r \div B)) + (mid \div B)
           low == (B * (mid % B)) + (p % B)
<1>1. WBits \in 0 .. XBits /\ XBits \in 0 .. XBits
  BY Widths
<1>2. B \in Nat \ {0} /\ P \in Nat \ {0} /\ P = B * B
  BY <1>1, Power, Halves
<1>3. a \in 0 .. P - 1 /\ b \in 0 .. P - 1
  BY DEF Word
<1>4. UMulH(a, b) = Truncate(high, XBits)
  BY DEF UMulH, Truncate, ShiftR
<1>5. Truncate(high, XBits) = high % P
  BY DEF Truncate
<1> HIDE DEF B, P
<1>6. /\ ah \in Int /\ al \in Int /\ a = (B * ah) + al
      /\ bh \in Int /\ bl \in Int /\ b = (B * bh) + bl
  BY <1>2, <1>3, DivMod
<1> HIDE DEF al, ah, bl, bh
<1>7. p \in Int /\ q \in Int /\ r \in Int
  BY <1>6
<1>8. /\ p \div B \in Int /\ p % B \in 0 .. B - 1 /\ p = (B * (p \div B)) + (p % B)
      /\ q \div B \in Int /\ q % B \in 0 .. B - 1 /\ q = (B * (q \div B)) + (q % B)
      /\ r \div B \in Int /\ r % B \in 0 .. B - 1 /\ r = (B * (r \div B)) + (r % B)
  <2> HIDE DEF p, q, r
  <2> QED BY <1>2, <1>7, DivMod
<1>9. mid \in Int
  <2> HIDE DEF p, q, r
  <2> QED BY <1>2, <1>8
<1>10. mid \div B \in Int /\ mid % B \in 0 .. B - 1 /\ mid = (B * (mid \div B)) + (mid % B)
  <2> HIDE DEF mid
  <2> QED BY <1>2, <1>9, DivMod
<1>11. a * b = (P * high) + low /\ low \in 0 .. P - 1
  <2> DEFINE ph == p \div B
             pl == p % B
             qh == q \div B
             ql == q % B
             rh == r \div B
             rl == r % B
             mh == mid \div B
             ml == mid % B
  <2>1. /\ ph \in Int /\ pl \in 0 .. B - 1 /\ al * bl = (B * ph) + pl
        /\ qh \in Int /\ ql \in Int /\ al * bh = (B * qh) + ql
        /\ rh \in Int /\ rl \in Int /\ ah * bl = (B * rh) + rl
        /\ mh \in Int /\ ml \in 0 .. B - 1 /\ (ph + ql) + rl = (B * mh) + ml
    <3>1. ql \in Int /\ rl \in Int
      BY <1>2, <1>8
    <3> QED BY <1>8, <1>10, <3>1, Zenon
  <2>2. /\ high = (((ah * bh) + qh) + rh) + mh
        /\ low = (B * ml) + pl
    OBVIOUS
  <2> HIDE DEF ph, pl, qh, ql, rh, rl, mh, ml, high, low, mid, p, q, r
  <2>3. /\ ((B * ah) + al) * ((B * bh) + bl)
              = ((B * B) * ((((ah * bh) + qh) + rh) + mh)) + ((B * ml) + pl)
        /\ (B * ml) + pl \in 0 .. (B * B) - 1
    BY <1>2, <1>6, <2>1, Schoolbook
  <2> QED BY <1>2, <1>6, <2>2, <2>3, Zenon
<1>12. high \in Int
  <2>1. ah * bh \in Int
    BY <1>6
  <2> HIDE DEF mid, p, q, r
  <2> QED BY <1>8, <1>10, <2>1
<1> HIDE DEF high, low, mid, p, q, r
<1>13. (a * b) \div P = high
  BY <1>2, <1>11, <1>12, ModUnique
<1>14. a * b \in Int /\ 0 <= a * b /\ a * b < P * P
  BY <1>2, <1>3, ProductBelow
<1>15. high \in 0 .. P - 1
  <2>1. (a * b) \div P \in Nat
    BY <1>2, <1>14, DivMod
  <2>2. ASSUME high >= P PROVE FALSE
    <3>1. P * (high - P) >= 0
      BY <1>2, <1>12, <2>2
    <3>2. P * (high - P) = (P * high) - (P * P)
      BY <1>2, <1>12
    <3>3. low \in Int /\ P * high \in Int /\ P * P \in Int
      BY <1>2, <1>11, <1>12
    <3> QED BY <1>11, <1>14, <3>1, <3>2, <3>3
  <2> QED BY <1>2, <1>12, <1>13, <2>1, <2>2
<1>16. high % P = high
  <2>1. high = (P * 0) + high
    BY <1>2, <1>12
  <2>2. ((P * 0) + high) % P = high
    BY <1>2, <1>15, ModUnique
  <2> QED BY <2>1, <2>2
<1> QED BY <1>4, <1>5, <1>13, <1>15, <1>16 DEF P

(* The high word of a product, put together from four products of halves   *)
(* because there is no wider type, is exact: UMULH is the product shifted  *)
(* down by a register, and SMULH, which takes one correction per negative  *)
(* operand off it, is that of the signed product, rounded down.            *)
THEOREM HighWordsExact ==
  ASSUME NEW a \in Word, NEW b \in Word
  PROVE  /\ UMulH(a, b) = (a * b) \div Pow2[XBits]
         /\ SMulH(a, b) = Truncate((Signed(a, XBits) * Signed(b, XBits)) \div Pow2[XBits], XBits)
<1> DEFINE P == Pow2[XBits]
           ta == IF TopBit(a, XBits) THEN 1 ELSE 0
           tb == IF TopBit(b, XBits) THEN 1 ELSE 0
           u == UMulH(a, b)
           w == (a * b) % P
           s == (u - (ta * b)) - (tb * a)
           k == ta * tb
<1>1. P \in Nat \ {0}
  BY Power, Widths
<1>2. a \in 0 .. P - 1 /\ b \in 0 .. P - 1 /\ a \in Int /\ b \in Int
  BY <1>1 DEF Word
<1>3. u = (a * b) \div P /\ u \in Int
  <2>1. u \in 0 .. Pow2[XBits] - 1
    BY UMulHIs
  <2> QED BY <1>1, <2>1, UMulHIs
<1>4. w \in 0 .. P - 1 /\ a * b = (P * u) + w
  <2>1. a * b \in Int
    BY <1>2
  <2> QED BY <1>1, <1>3, <2>1, DivMod
<1>5. ta \in {0, 1} /\ tb \in {0, 1}
  OBVIOUS
<1>6. /\ (IF TopBit(a, XBits) THEN b ELSE 0) = ta * b
      /\ (IF TopBit(b, XBits) THEN a ELSE 0) = tb * a
  BY <1>2
<1>7. SMulH(a, b) = Truncate(s, XBits)
  <2> HIDE DEF ta, tb
  <2> QED BY <1>6 DEF SMulH
<1>8. Signed(a, XBits) = a - (P * ta) /\ Signed(b, XBits) = b - (P * tb)
  BY <1>1, <1>2 DEF Signed
<1> HIDE DEF P, ta, tb, u, w
<1>9. s \in Int /\ k \in Int
  BY <1>2, <1>3, <1>5
<1>10. (a - (P * ta)) * (b - (P * tb)) = (P * (s + (P * k))) + w
  <2> DEFINE whole == (a - (P * ta)) * (b - (P * tb))
  <2>1. whole = (((a * b) - (P * (ta * b))) - (P * (tb * a))) + (P * (P * (ta * tb)))
    BY <1>1, <1>2, <1>5
  <2> HIDE DEF whole
  <2>2. whole = ((((P * u) + w) - (P * (ta * b))) - (P * (tb * a))) + (P * (P * (ta * tb)))
    BY <1>4, <2>1
  <2>3. whole = (P * (((u - (ta * b)) - (tb * a)) + (P * (ta * tb)))) + w
    <3> DEFINE g == ta * b
               h == tb * a
    <3>1. g \in Int /\ h \in Int
      BY <1>2, <1>5
    <3> HIDE DEF g, h
    <3>2. whole = ((((P * u) + w) - (P * g)) - (P * h)) + (P * (P * (ta * tb)))
      BY <2>2 DEF g, h
    <3>3. whole = (P * (((u - g) - h) + (P * (ta * tb)))) + w
      BY <1>1, <1>3, <1>4, <1>5, <3>1, <3>2
    <3> QED BY <3>3 DEF g, h
  <2> QED BY <2>3 DEF whole
<1> HIDE DEF s, k
<1>11. ((P * (s + (P * k))) + w) \div P = s + (P * k)
  <2>1. s + (P * k) \in Int
    BY <1>1, <1>9
  <2> QED BY <1>1, <1>4, <2>1, ModUnique
<1>12. (s + (P * k)) % P = s % P
  <2>1. s \div P \in Int /\ s % P \in 0 .. P - 1 /\ s = (P * (s \div P)) + (s % P)
    BY <1>1, <1>9, DivMod
  <2> DEFINE z == s \div P
             y == s % P
  <2> HIDE DEF z, y
  <2>2. z \in Int /\ y \in 0 .. P - 1 /\ s = (P * z) + y
    BY <2>1 DEF z, y
  <2>3. s + (P * k) = (P * (z + k)) + y
    BY <1>1, <1>9, <2>2
  <2>4. z + k \in Int
    BY <1>9, <2>2
  <2>5. ((P * (z + k)) + y) % P = y
    BY <1>1, <2>2, <2>4, ModUnique
  <2> QED BY <2>3, <2>5 DEF y
<1>13. (Signed(a, XBits) * Signed(b, XBits)) \div P = s + (P * k)
  BY <1>8, <1>10, <1>11
<1>14. Truncate(s + (P * k), XBits) = Truncate(s, XBits)
  BY <1>12 DEF Truncate, P
<1> QED BY <1>3, <1>7, <1>13, <1>14 DEF P, u

\* What fits a register's width as a signed number survives being cut to it,
\* whether or not it was cut to a whole register before.
LEMMA SignedBack ==
  ASSUME NEW bits \in {WBits, XBits}, NEW q \in Int,
         -Pow2[bits - 1] <= q, q < Pow2[bits - 1]
  PROVE  LET r == Truncate(Truncate(q, XBits), bits)
         IN r \in 0 .. Pow2[bits] - 1 /\ Signed(r, bits) = q
<1> DEFINE P == Pow2[bits]
           X == Pow2[XBits]
           half == Pow2[bits - 1]
           R == Pow2[XBits - bits]
           e == IF q < 0 THEN 1 ELSE 0
           s == q + (e * P)
           r == Truncate(Truncate(q, XBits), bits)
<1>1. /\ bits \in 1 .. XBits /\ XBits \in 0 .. XBits /\ XBits - bits \in 0 .. XBits
      /\ bits + (XBits - bits) = XBits /\ bits \in 0 .. XBits
  BY BitsIs, Widths
<1>2. P \in Nat \ {0} /\ X \in Nat \ {0} /\ R \in Nat \ {0} /\ half \in Nat \ {0} /\ P = 2 * half
  <2>1. 0 \in 0 .. Pow2[bits] - 1
    BY <1>1, Power
  <2> QED BY <1>1, <2>1, Power, TopBitIs
<1>3. X = P * R
  <2>1. Pow2[bits + (XBits - bits)] = Pow2[bits] * Pow2[XBits - bits]
    BY <1>1, PowerAdds
  <2> QED BY <1>1, <2>1
<1>4. -half <= q /\ q < half
  OBVIOUS
<1>5. Truncate(q, XBits) = q % X /\ r = (q % X) % P
  BY DEF Truncate
<1> HIDE DEF P, X, half, R
<1>6. e \in {0, 1} /\ s \in 0 .. P - 1
  BY <1>2, <1>4
<1> DEFINE z == q \div X
<1>7. z \in Int /\ q % X \in Int /\ q = (X * z) + (q % X)
  <2>1. z \in Int /\ q % X \in 0 .. X - 1 /\ q = (X * z) + (q % X)
    BY <1>2, DivMod
  <2> QED BY <1>2, <2>1
<1> DEFINE t == q % X
           k == -e - (R * z)
<1> HIDE DEF z
<1>8. t = (P * k) + s
  <2>1. t \in Int /\ t = q - ((P * R) * z)
    <3>1. t \in Int /\ q = (X * z) + t
      BY <1>7
    <3> HIDE DEF t
    <3> QED BY <1>2, <1>3, <1>7, <3>1
  <2> HIDE DEF t, e
  <2>2. P * k = -(e * P) - ((P * R) * z)
    BY <1>2, <1>6, <1>7
  <2>3. (P * R) * z \in Int /\ e * P \in Int
    BY <1>2, <1>6, <1>7
  <2> QED BY <2>1, <2>2, <2>3
<1>9. k \in Int
  BY <1>2, <1>6, <1>7
<1>10. r = s
  <2> HIDE DEF k, s, t, r
  <2>1. ((P * k) + s) % P = s
    BY <1>2, <1>6, <1>9, ModUnique
  <2>2. r = t % P
    BY <1>5 DEF t
  <2> QED BY <1>8, <2>1, <2>2
<1>11. r \in 0 .. Pow2[bits] - 1
  BY <1>6, <1>10 DEF P
<1>12. TopBit(r, bits) <=> r >= half
  <2> HIDE DEF r
  <2> QED BY <1>1, <1>11, TopBitIs DEF half
<1>13. Signed(r, bits) = IF r >= half THEN r - P ELSE r
  <2> HIDE DEF r
  <2> QED BY <1>12 DEF Signed, P
<1>14. (IF s >= half THEN s - P ELSE s) = q
  BY <1>2, <1>4
<1> QED BY <1>10, <1>11, <1>13, <1>14

\* C's division: the remainder is smaller than the divisor and has the sign
\* of the dividend, and the quotient is no larger than the dividend.
LEMMA TowardsZeroIs ==
  ASSUME NEW n \in Int, NEW d \in Int, d # 0
  PROVE  LET q == TowardsZero(n, d)
             rest == n - (q * d)
             a == IF n < 0 THEN -n ELSE n
             b == IF d < 0 THEN -d ELSE d
         IN /\ q \in Int
            /\ -b < rest /\ rest < b /\ (rest # 0 => (rest < 0 <=> n < 0))
            /\ -a <= q /\ q <= a
            /\ q = a => b = 1 \/ a = 0
<1> DEFINE a == IF n < 0 THEN -n ELSE n
           b == IF d < 0 THEN -d ELSE d
           p == a \div b
           m == a % b
           q == TowardsZero(n, d)
           rest == n - (q * d)
<1>1. a \in Nat /\ b \in Nat \ {0}
  OBVIOUS
<1>2. q = IF (n < 0) = (d < 0) THEN p ELSE -p
  BY DEF TowardsZero
<1>3. p \in Nat /\ m \in 0 .. b - 1 /\ a = (b * p) + m
  <2>1. a \in Int /\ 0 <= a
    OBVIOUS
  <2> HIDE DEF a, b
  <2>2. /\ a \div b \in Int /\ a % b \in 0 .. b - 1 /\ a = (b * (a \div b)) + (a % b)
        /\ 0 <= a => a \div b \in Nat
    BY <1>1, <2>1, DivMod
  <2> QED BY <2>1, <2>2, Zenon
<1> HIDE DEF p, m
<1>4. p <= b * p /\ (b > 1 => 2 * p <= b * p)
  <2> HIDE DEF b
  <2>1. (b - 1) * p >= 0 /\ (b > 1 => (b - 2) * p >= 0)
    <3>1. ASSUME NEW x \in Nat PROVE x * p >= 0
      BY <1>3
    <3>2. b - 1 \in Nat /\ (b > 1 => b - 2 \in Nat)
      BY <1>1
    <3> QED BY <3>1, <3>2
  <2>2. (b - 1) * p = (b * p) - p /\ (b - 2) * p = (b * p) - (2 * p)
    BY <1>1, <1>3
  <2>3. b * p \in Int
    BY <1>1, <1>3
  <2> QED BY <1>1, <1>3, <2>1, <2>2, <2>3
<1>6. q \in Int /\ rest \in Int /\ (q = p \/ q = -p)
  BY <1>2, <1>3
<1>7. rest = IF n < 0 THEN -m ELSE m
  <2>1. CASE n < 0 /\ d < 0
    <3>1. q = p /\ -n = ((-d) * p) + m
      BY <1>2, <1>3, <2>1
    <3>2. (-d) * p = -(p * d)
      BY <1>3
    <3>3. p * d \in Int /\ m \in Int
      BY <1>1, <1>3
    <3> QED BY <2>1, <3>1, <3>2, <3>3
  <2>2. CASE n < 0 /\ ~(d < 0)
    <3>1. q = -p /\ -n = (d * p) + m
      BY <1>2, <1>3, <2>2
    <3>2. (-p) * d = -(d * p)
      BY <1>3
    <3>3. d * p \in Int /\ m \in Int
      BY <1>1, <1>3
    <3> QED BY <2>2, <3>1, <3>2, <3>3
  <2>3. CASE ~(n < 0) /\ d < 0
    <3>1. q = -p /\ n = ((-d) * p) + m
      BY <1>2, <1>3, <2>3
    <3>2. (-d) * p = (-p) * d
      BY <1>3
    <3>3. (-p) * d \in Int /\ m \in Int
      BY <1>1, <1>3
    <3> QED BY <2>3, <3>1, <3>2, <3>3
  <2>4. CASE ~(n < 0) /\ ~(d < 0)
    <3>1. q = p /\ n = (d * p) + m
      BY <1>2, <1>3, <2>4
    <3>2. d * p = p * d
      BY <1>3
    <3>3. d * p \in Int /\ m \in Int
      BY <1>1, <1>3
    <3> QED BY <2>4, <3>1, <3>2, <3>3
  <2> QED BY <2>1, <2>2, <2>3, <2>4
<1>8. b * p \in Int
  BY <1>1, <1>3
<1> DEFINE bp == b * p
<1>9. bp \in Int /\ a = bp + m /\ p <= bp /\ (b > 1 => 2 * p <= bp)
  BY <1>3, <1>4, <1>8
<1> HIDE DEF q, rest, b, bp
<1>10. -b < rest /\ rest < b /\ (rest # 0 => (rest < 0 <=> n < 0))
  BY <1>1, <1>3, <1>7
<1> HIDE DEF a
<1>11. -a <= q /\ q <= a /\ (q = a => b = 1 \/ a = 0)
  BY <1>1, <1>3, <1>6, <1>9
<1> QED BY <1>6, <1>10, <1>11 DEF q, rest, a, b

(* UDIV and SDIV are exact at either width.  What is left of the dividend  *)
(* is smaller than the divisor and, for SDIV, has the dividend's sign; by  *)
(* zero the result is zero, and the one quotient that does not fit, the    *)
(* smallest number by minus one, is the dividend.                          *)
THEOREM DivisionsExact ==
  ASSUME NEW bits \in {WBits, XBits}, NEW n \in 0 .. Pow2[bits] - 1,
         NEW m \in 0 .. Pow2[bits] - 1
  PROVE  LET nn == Signed(n, bits)
             mm == Signed(m, bits)
             ud == Truncate(Divide(FALSE, n, m, bits), bits)
             sd == Truncate(Divide(TRUE, n, m, bits), bits)
             rest == nn - (Signed(sd, bits) * mm)
             size == IF mm < 0 THEN -mm ELSE mm
         IN /\ m = 0 => ud = 0 /\ sd = 0
            /\ m # 0 => n - (ud * m) \in 0 .. m - 1
            /\ m # 0 => IF nn = -Pow2[bits - 1] /\ mm = -1 THEN sd = n
                        ELSE /\ -size < rest /\ rest < size
                             /\ rest # 0 => (rest < 0 <=> nn < 0)
<1> DEFINE P == Pow2[bits]
           half == Pow2[bits - 1]
           nn == Signed(n, bits)
           mm == Signed(m, bits)
           ud == Truncate(Divide(FALSE, n, m, bits), bits)
           sd == Truncate(Divide(TRUE, n, m, bits), bits)
           rest == nn - (Signed(sd, bits) * mm)
           size == IF mm < 0 THEN -mm ELSE mm
<1>1. bits \in 1 .. XBits /\ bits \in 0 .. XBits
  BY BitsIs
<1>2. P \in Nat \ {0} /\ half \in Nat \ {0} /\ P = 2 * half
  BY <1>1, Power, TopBitIs
<1>3. n \in Int /\ m \in Int /\ 0 <= n /\ 0 <= m /\ n < P /\ m < P
  BY <1>2
<1>4. ASSUME NEW x \in Int, 0 <= x, x < P PROVE Truncate(x, bits) = x
  <2>1. x < 2 * Pow2[bits] /\ x < Pow2[bits]
    BY <1>2, <1>4
  <2> QED BY <1>1, <1>4, <2>1, TruncateOnce
<1>5. /\ nn = IF n >= half THEN n - P ELSE n
      /\ mm = IF m >= half THEN m - P ELSE m
  <2>1. (TopBit(n, bits) <=> n >= half) /\ (TopBit(m, bits) <=> m >= half)
    BY <1>1, TopBitIs
  <2> QED BY <2>1 DEF Signed
<1>6. m = 0 => ud = 0 /\ sd = 0
  <2>1. ASSUME m = 0 PROVE Divide(FALSE, n, m, bits) = 0 /\ Divide(TRUE, n, m, bits) = 0
    BY <2>1 DEF Divide
  <2>2. Truncate(0, bits) = 0
    BY <1>2, <1>4
  <2> QED BY <2>1, <2>2
<1>7. ASSUME m # 0 PROVE n - (ud * m) \in 0 .. m - 1
  <2> DEFINE q == n \div m
  <2>1. m \in Nat \ {0}
    BY <1>3, <1>7
  <2>2. q \in Nat /\ n % m \in 0 .. m - 1 /\ n = (m * q) + (n % m)
    BY <1>3, <2>1, DivMod
  <2>3. Divide(FALSE, n, m, bits) = q
    BY <1>7 DEF Divide
  <2> DEFINE r == n % m
  <2> HIDE DEF q, r, P
  <2>4. q \in Nat /\ r \in 0 .. m - 1 /\ n = (m * q) + r
    BY <2>2 DEF r
  <2>5. q <= m * q
    <3>1. (m - 1) * q >= 0
      BY <2>1, <2>4
    <3>2. (m - 1) * q = (m * q) - q
      BY <2>1, <2>4
    <3>3. m * q \in Int
      BY <2>1, <2>4
    <3> QED BY <2>4, <3>1, <3>2, <3>3
  <2>6. q < P
    <3>1. m * q \in Int
      BY <2>1, <2>4
    <3> QED BY <1>2, <1>3, <2>1, <2>4, <2>5, <3>1
  <2>7. ud = q
    <3>1. Truncate(q, bits) = q
      BY <1>4, <2>4, <2>6
    <3> QED BY <2>3, <3>1
  <2>8. n - (q * m) = r
    <3>1. q * m = m * q /\ m * q \in Int
      BY <2>1, <2>4
    <3> QED BY <2>1, <2>4, <3>1
  <2> QED BY <2>4, <2>7, <2>8
<1> HIDE DEF nn, mm, P, half
<1>8. nn \in Int /\ mm \in Int /\ -half <= nn /\ nn < half /\ -half <= mm /\ mm < half
  BY <1>2, <1>3, <1>5
<1>9. m # 0 => mm # 0
  BY <1>2, <1>3, <1>5
<1>10. ASSUME m # 0, nn = -half /\ mm = -1 PROVE sd = n
  <2>1. Divide(TRUE, n, m, bits) = Truncate(nn, XBits)
    BY <1>10 DEF Divide, nn, mm, half
  <2>2. sd \in 0 .. Pow2[bits] - 1 /\ Signed(sd, bits) = nn
    BY <1>8, <2>1, SignedBack DEF half
  <2>3. Signed(sd, bits) = IF sd >= half THEN sd - P ELSE sd
    <3>1. TopBit(sd, bits) <=> sd >= half
      BY <1>1, <2>2, TopBitIs DEF half
    <3> HIDE DEF sd
    <3> QED BY <3>1 DEF Signed, P
  <2>4. sd \in Int /\ 0 <= sd /\ sd < P
    <3> HIDE DEF sd
    <3> QED BY <1>2, <2>2 DEF P
  <2> HIDE DEF sd
  <2> QED BY <1>2, <1>3, <1>5, <2>2, <2>3, <2>4
<1>11. ASSUME m # 0, ~(nn = -half /\ mm = -1)
       PROVE  -size < rest /\ rest < size /\ (rest # 0 => (rest < 0 <=> nn < 0))
  <2> DEFINE q == TowardsZero(nn, mm)
             a == IF nn < 0 THEN -nn ELSE nn
  <2>1. /\ q \in Int
        /\ -size < nn - (q * mm) /\ nn - (q * mm) < size
        /\ (nn - (q * mm) # 0 => (nn - (q * mm) < 0 <=> nn < 0))
        /\ -a <= q /\ q <= a
        /\ q = a => size = 1 \/ a = 0
    BY <1>8, <1>9, <1>11, TowardsZeroIs
  <2>2. Divide(TRUE, n, m, bits) = Truncate(q, XBits)
    BY <1>11 DEF Divide, nn, mm, half
  <2>3. -half <= q /\ q < half
    <3>1. CASE nn # -half
      <4>1. a \in Int /\ a < half
        BY <1>2, <1>8, <3>1
      <4> HIDE DEF q, a
      <4> QED BY <1>2, <2>1, <4>1
    <3>2. CASE nn = -half
      <4>1. a = half
        BY <1>2, <3>2
      <4>2. q = half => mm = 1
        <5>1. ASSUME q = half PROVE size = 1
          BY <1>2, <2>1, <4>1, <5>1
        <5>2. mm # -1
          BY <1>11, <3>2
        <5> QED BY <1>8, <5>1, <5>2
      <4>3. mm = 1 => q # half
        <5>1. ASSUME mm = 1, q = half PROVE FALSE
          <6>1. size = 1 /\ nn - (q * mm) = -half - half
            BY <1>2, <3>2, <5>1
          <6> QED BY <1>2, <2>1, <6>1
        <5> QED BY <5>1
      <4> HIDE DEF q, a
      <4> QED BY <1>2, <2>1, <4>1, <4>2, <4>3
    <3> QED BY <3>1, <3>2
  <2> HIDE DEF q
  <2>4. Signed(sd, bits) = q
    BY <2>1, <2>2, <2>3, SignedBack DEF half
  <2> QED BY <2>1, <2>4
<1> QED BY <1>6, <1>7, <1>10, <1>11 DEF nn, mm, half
=============================================================================
