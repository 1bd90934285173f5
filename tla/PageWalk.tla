------------------------------ MODULE PageWalk ------------------------------
(***************************************************************************)
(* The stage-1 walk of src/mmu/mmu.c as a function of the control          *)
(* registers, of the page-table memory and of an address.  The 4 KiB       *)
(* granule's 512-way tables are Fanout-way tables, a physical page is a    *)
(* frame number, and a virtual address is [half, vpn, tag]: bit 55, the    *)
(* page number below it, and whether the top byte disagrees with bit 55.   *)
(* TCR widths are whole index fields (t[h] is the start level, -1 a width  *)
(* the granule cannot walk).  Everything the access kind does not change   *)
(* is in Leaf; the permission table, which a TLB hit re-runs, is Verdict.  *)
(***************************************************************************)
EXTENDS Integers

CONSTANTS Fanout,     \* entries of a table
          Frames,     \* frames of the physical address space
          Bus         \* [Frames -> SUBSET Kinds]: what the physical bus serves

Kinds == {"read", "write", "fetch"}
Slots == 0 .. Fanout - 1

ASSUME FanoutAssumption == Fanout \in Nat \ {0}
ASSUME FramesAssumption == Frames \subseteq Nat
ASSUME BusAssumption == Bus \in [Frames -> SUBSET Kinds]

(* A descriptor: bits [1:0] (0b01 block, 0b11 table-or-page, otherwise     *)
(* invalid), the output frame, the leaf attributes and the table           *)
(* attributes that bind everything below.                                  *)
TableAttrs == {"PXN", "XN", "APT0", "APT1"}
Descriptor == [type : {"invalid", "block", "table"}, addr : Nat,
               af : BOOLEAN, user : BOOLEAN, ro : BOOLEAN, xn : BOOLEAN,
               pxn : BOOLEAN, tattrs : SUBSET TableAttrs]

(* The five epoch registers.  TCR keeps the fields the walk reads: start   *)
(* levels, EPD and TBI by half, and the number of frames PS reaches.       *)
Tcr == [t : [{0, 1} -> -1 .. 2], epd : SUBSET {0, 1}, tbi : SUBSET {0, 1},
        out : Nat]
Registers == [SCTLR : SUBSET {"M", "A", "SA0"}, TCR : Tcr, TTBR0 : Nat,
              TTBR1 : Nat, MAIR : Nat]

Address == [half : {0, 1}, vpn : Nat, tag : BOOLEAN]

(* mmu.c's level_shift / index: a level's field of the page number.        *)
Span(level) == Fanout ^ (3 - level)
Index(va, level) == (va.vpn \div Span(level)) % Fanout

(* oemu_mmu_internal_region_ok: the bits above the region agree.           *)
RegionOk(va, start) == ~va.tag /\ va.vpn < Fanout * Span(start)

(* oemu_mmu_internal_permits.                                              *)
Permits(leaf, el0, kind) ==
  CASE kind = "fetch" -> IF el0 THEN leaf.user /\ ~leaf.xn ELSE ~leaf.pxn
    [] kind = "write" -> ~leaf.ro /\ (el0 => leaf.user)
    [] OTHER          -> el0 => leaf.user

Fault(cls, level) == [ok |-> FALSE, cls |-> cls, level |-> level]

(* The leaf of a walk that stands on a block or page descriptor: output    *)
(* address, address size, table constraints merged, access flag.           *)
LeafOf(d, level, tattrs, va, out) ==
  LET frame == (d.addr \div Span(level)) * Span(level) + (va.vpn % Span(level))
  IN  IF level = 0 THEN Fault("translation", 0)
      ELSE IF frame >= out THEN Fault("address size", level)
      ELSE IF ~d.af THEN Fault("access flag", level)
      ELSE [ok |-> TRUE, frame |-> frame, level |-> level,
            user |-> d.user /\ "APT0" \notin tattrs,
            ro   |-> d.ro \/ "APT1" \in tattrs,
            xn   |-> d.xn \/ "XN" \in tattrs,
            pxn  |-> d.pxn \/ "PXN" \in tattrs]

(* One turn of the loop of walk(): read the descriptor the walk stands on  *)
(* and fault, finish on a leaf, or go down one table.                      *)
Done(res) == [done |-> TRUE, res |-> res]
Standing(level, base, tattrs) ==
  [done |-> FALSE, level |-> level, base |-> base, tattrs |-> tattrs]

Turn(w, ram, va, out) ==
  IF ~(w.base \in Frames /\ "read" \in Bus[w.base])
    THEN Done(Fault("no walk", -1))
  ELSE LET d == ram[w.base][Index(va, w.level)]
       IN  IF d.type = "invalid" THEN Done(Fault("translation", w.level))
           ELSE IF d.type = "block" \/ w.level = 3
             THEN Done(LeafOf(d, w.level, w.tattrs, va, out))
           ELSE IF d.addr >= out THEN Done(Fault("address size", w.level))
           ELSE Standing(w.level + 1, d.addr, w.tattrs \cup d.tattrs)

Visit(w, ram, va, out) == IF w.done THEN w ELSE Turn(w, ram, va, out)

(* Level 3 has no tables, so the loop turns at most four times.            *)
Descend(start, base, ram, va, out) ==
  LET w1 == Visit(Standing(start, base, {}), ram, va, out)
      w2 == Visit(w1, ram, va, out)
      w3 == Visit(w2, ram, va, out)
  IN  Visit(w3, ram, va, out).res

(* walk() up to the permission check, for a stage-1 that is on.            *)
Leaf(regs, ram, va) ==
  LET start == regs.TCR.t[va.half]
      base  == IF va.half = 1 THEN regs.TTBR1 ELSE regs.TTBR0
  IN  IF start < 0 THEN Fault("translation", 0)
      ELSE IF ~RegionOk(va, start) \/ va.half \in regs.TCR.epd
        THEN Fault("translation", start)
      ELSE IF base >= regs.TCR.out THEN Fault("address size", -1)
      ELSE Descend(start, base, ram, va, regs.TCR.out)

(* The permission check on what the walk, or the TLB, found.               *)
Verdict(leaf, el0, kind) ==
  IF leaf.ok /\ ~Permits(leaf, el0, kind)
    THEN Fault("permission", leaf.level)
    ELSE leaf

(* TBI: the tag is part of neither the address, the key, nor the FAR.      *)
Strip(regs, va) ==
  IF va.half \in regs.TCR.tbi THEN [va EXCEPT !.tag = FALSE] ELSE va

(* Where translation is off the page is its own frame; an address above    *)
(* the physical space names a frame no region backs.                       *)
Identity(va) == IF va.half = 0 /\ ~va.tag THEN va.vpn ELSE -1
=============================================================================
