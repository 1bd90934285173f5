------------------------------ MODULE Regions ------------------------------
(***************************************************************************)
(* The range arithmetic of the two region tables (aspace.c, memory.c) and  *)
(* of the ELF loader (elf.c), over addresses 0 .. Top, where Top stands    *)
(* for UINT64_MAX.  The code never forms base + size, because a range may  *)
(* end exactly at 2^64; Plus and Minus are its uint64_t operators, which   *)
(* wrap, so that a formula that forgets a guard goes wrong here too.       *)
(***************************************************************************)
EXTENDS Naturals, Integers, Sequences

CONSTANT Top      \* UINT64_MAX

ASSUME TopAssumption == Top \in Nat

Address == 0 .. Top

Plus(a, b) == IF a + b <= Top THEN a + b ELSE a + b - (Top + 1)
Minus(a, b) == IF b <= a THEN a - b ELSE a - b + (Top + 1)

(* A permission set is a subset of these; a query asks for one or more.    *)
Perms == {"r", "w", "x"}

(* A region: [base, size, perms, kind, block], block naming the host       *)
(* memory behind RAM.  The bytes it claims are those from base on; they    *)
(* exist in the address space when the mapper let the region in.           *)
Bytes(base, size) == {a \in Address : base <= a /\ a < base + size}

(* Mutant: only the range that starts lower is asked about.                *)
OverlapBackward(a, aSize, b, bSize) == b < a /\ Minus(a, b) < bSize

(* oemu_aspace_internal_ranges_overlap, oemu_memory_internal_ranges_overlap*)
Overlap(a, aSize, b, bSize) ==
    IF a <= b THEN Minus(b, a) < aSize ELSE Minus(a, b) < bSize

(* check_map_args: an empty or permission-less range is refused, and so is *)
(* one that runs past the top; one that ends at the top is not.            *)
CheckMapArgs(base, size, perms) ==
    IF size = 0 \/ perms = {} THEN "INVALID_ARG"
    ELSE IF size - 1 > Top - base THEN "OVERFLOW"
    ELSE "OK"

(* Containment as oemu_aspace_internal_find writes it ...                  *)
Covers(r, pa, size) ==
    /\ r.base <= pa
    /\ Minus(pa, r.base) <= Minus(r.size, 1)
    /\ Minus(r.size, Minus(pa, r.base)) >= size

(* ... and as oemu_memory_internal_find does.                              *)
MemCovers(r, gva, size) ==
    /\ r.base <= gva
    /\ Minus(gva, r.base) < r.size
    /\ size <= Minus(r.size, Minus(gva, r.base))

(* The first region of the table that serves the access; 0 when none does. *)
First(table, Serves(_)) ==
    LET hits == {i \in DOMAIN table : Serves(table[i])}
    IN  IF hits = {} THEN 0 ELSE CHOOSE i \in hits : \A j \in hits : i <= j

Find(table, pa, size, perms) ==
    IF size = 0 THEN 0
    ELSE First(table, LAMBDA r : Covers(r, pa, size) /\ perms \subseteq r.perms)

MemFind(table, gva, size, perms) ==
    IF size = 0 THEN 0
    ELSE First(table, LAMBDA r : perms \subseteq r.perms /\ MemCovers(r, gva, size))

(* map_common: arguments, then overlap, then a full table.                 *)
MapCommon(table, capacity, base, size, perms) ==
    IF CheckMapArgs(base, size, perms) # "OK" THEN CheckMapArgs(base, size, perms)
    ELSE IF \E i \in DOMAIN table : Overlap(base, size, table[i].base, table[i].size)
           THEN "RANGE"
    ELSE IF Len(table) = capacity THEN "RANGE"
    ELSE "OK"

(* attach_device asks for a power of two, aligned to itself.               *)
PowerOfTwo(n) == \A d \in 2 .. n : n % d = 0 => d % 2 = 0
AttachArgs(table, capacity, base, size) ==
    IF size = 0 \/ ~PowerOfTwo(size) \/ base % size # 0 THEN "INVALID_ARG"
    ELSE MapCommon(table, capacity, base, size, {"r", "w"})

\* Every region of the table exists, and no byte belongs to two.
Exists(r) == r.base \in Address /\ r.size \in Address \ {0} /\ r.base + r.size <= Top + 1
SoundTable(table) ==
    /\ \A i \in DOMAIN table : Exists(table[i])
    /\ \A i, j \in DOMAIN table :
         i # j => Bytes(table[i].base, table[i].size) \cap Bytes(table[j].base, table[j].size) = {}

-----------------------------------------------------------------------------
(* The ELF loader's own two helpers: off + span <= size without the sum,   *)
(* and an overlap test that does form sums, of ranges checked not to wrap. *)
Within(off, span, size) == off <= size /\ span <= Minus(size, off)

ElfOverlap(a, aSize, b, bSize) ==
    aSize # 0 /\ bSize # 0 /\ a < Plus(b, bSize) /\ b < Plus(a, aSize)
=============================================================================
