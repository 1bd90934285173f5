-------------------------------- MODULE Mmu ---------------------------------
(***************************************************************************)
(* The translation layer of src/mmu/mmu.c and the loads and stores         *)
(* src/exec/exec.c makes through it: a direct-mapped TLB in front of the   *)
(* walk, invalidated by TLBI and by any change of the five control         *)
(* registers, and the validate-then-access discipline that makes a memory  *)
(* instruction commit all of itself or nothing.                            *)
(*                                                                         *)
(* Page tables are ordinary memory: a store may rewrite a descriptor,      *)
(* including one that maps the second half of the same store.              *)
(*                                                                         *)
(* The exception level is an input of every access (exceptions and ERETs   *)
(* happen between any two of them).                                        *)
(***************************************************************************)
EXTENDS PageWalk

CONSTANTS Vas,         \* the addresses the guest uses
          Els,         \* the levels it uses them at
          Sets,        \* TLB sets (OEMU_MMU_TLB_ENTRIES)
          Values,      \* what a store writes into a descriptor slot
          RegValues,   \* [register name -> values an MSR writes]
          InitRam, InitRegs,
          MaxStores,   \* stores the guest makes
          MaxMsrs      \* register writes the guest makes

VARIABLES regs,     \* SCTLR, TCR, TTBR0, TTBR1, MAIR
          ram,      \* [Frames -> [Slots -> Descriptor]]
          cache,    \* [tlb, epoch, primed, seen]
          status,   \* how the last memory instruction ended
          stores, msrs
vars == <<regs, ram, cache, status, stores, msrs>>

ASSUME SetsAssumption == Sets \in Nat \ {0}
ASSUME NeighboursAssumption == Sets >= 2   \* adjacent pages do not share a set
ASSUME VasAssumption == Vas \subseteq Address
ASSUME ElsAssumption == Els \subseteq {0, 1, 3}
ASSUME InitAssumption == /\ InitRegs \in Registers
                         /\ InitRam \in [Frames -> [Slots -> Descriptor]]
ASSUME ValuesAssumption ==
         /\ Values \subseteq Descriptor
         /\ RegValues \in [SCTLR : SUBSET SUBSET {"M", "A", "SA0"}, TCR : SUBSET Tcr,
                            TTBR0 : SUBSET Nat, TTBR1 : SUBSET Nat, MAIR : SUBSET Nat]

Free == [level |-> 0]                       \* e->level == 0
Set(va) == va.vpn % Sets                    \* tlb_index: the low page bits

(* cache.seen is a history variable: for each key, the leaves the tables   *)
(* have mapped it to since the TLB was last emptied, under the registers   *)
(* of the last translation.  It is the most a correct TLB may answer from. *)
Keys == Vas \cup {[va EXCEPT !.tag = FALSE] : va \in Vas}
Mapped(rg, rm, k) == {l \in {Leaf(rg, rm, k)} : l.ok}

NoEntries == [i \in 0 .. Sets - 1 |-> Free]
SeenNow(rg, rm) == [k \in Keys |-> Mapped(rg, rm, k)]

(* oemu_mmu_flush_all: every entry, and nothing else.                      *)
Cache(tlb, epoch, primed, seen) ==
  [tlb |-> tlb, epoch |-> epoch, primed |-> primed, seen |-> seen]
Flush(c, rm) == Cache(NoEntries, c.epoch, c.primed, SeenNow(c.epoch, rm))

(* The epoch check: the five registers compared by value.                  *)
EpochMovedNoTtbr0(old, new) ==                 \* a bug: one is left out
  old # [new EXCEPT !.TTBR0 = old.TTBR0]
EpochMoved(old, new) == old # new

CheckEpoch(c, rg, rm) ==
  Cache(IF c.primed /\ EpochMoved(c.epoch, rg) THEN NoEntries ELSE c.tlb,
        rg, TRUE,
        IF c.primed /\ c.epoch = rg THEN c.seen ELSE SeenNow(rg, rm))

Cacheable(rg, cur) == "M" \in rg.SCTLR /\ cur < 3

(* tlb_lookup: the set's entry, if its tag is the whole address.           *)
Hits(c, key) == LET e == c.tlb[Set(key)] IN e.level # 0 /\ e.key = key

(* tlb_fill, on the success of a table walk.                               *)
FillNothing(c, key, leaf) == c                 \* a bug: the entry is lost
Fill(c, key, leaf) ==
  Cache([c.tlb EXCEPT ![Set(key)] = [level |-> leaf.level, key |-> key, leaf |-> leaf]],
        c.epoch, c.primed, c.seen)

(* translate(): epoch, cache, walk.  The answer is the leaf or the fault,  *)
(* and the FAR a fault reports.                                            *)
Answer(c, key, leaf, out) ==
  [cache |-> IF out.ok /\ ~Hits(c, key) THEN Fill(c, key, leaf) ELSE c,
   out |-> out, far |-> key]

Lookup(c, rg, rm, key, cur, kind) ==
  LET leaf == IF Hits(c, key) THEN c.tlb[Set(key)].leaf ELSE Leaf(rg, rm, key)
  IN  Answer(c, key, leaf, Verdict(leaf, cur = 0, kind))

Through(c, rg, rm, va, cur, kind) ==
  IF Cacheable(rg, cur) THEN Lookup(c, rg, rm, Strip(rg, va), cur, kind)
  ELSE [cache |-> c, out |-> [ok |-> TRUE, frame |-> Identity(va)], far |-> va]

Translate(c, rg, rm, va, cur, kind) ==
  Through(CheckEpoch(c, rg, rm), rg, rm, va, cur, kind)

(* oemu_mmu_internal_alignment_required.                                   *)
AlignmentRequired(rg, cur) == (IF cur = 0 THEN "SA0" ELSE "A") \in rg.SCTLR

Serves(frame, kind) == frame \in Frames /\ kind \in Bus[frame]

-----------------------------------------------------------------------------
(* A memory instruction is threaded through s = [cache, ram, st].  Its     *)
(* transfers are its parts, one per page it touches: a single transfer, a  *)
(* pair (two aligned transfers) or one misaligned transfer that the bus    *)
(* layer splits, over one page or two.                                     *)
Parts == [va : Vas, slot : Slots]
Adjacent(a, b) == b.va = [a.va EXCEPT !.vpn = @ + 1]
Insns == {i \in [a : Parts, b : Parts, two : BOOLEAN, mis : BOOLEAN] :
            IF i.two
              THEN Adjacent(i.a, i.b) /\ i.a.slot = Fanout - 1 /\ i.b.slot = 0
              ELSE i.b = i.a}

(* What it does at each part: the level, the access, and for a store the   *)
(* value.                                                                  *)
Reads(cur) == [cur |-> cur, kind |-> "read"]
Writes(cur, v) == [cur |-> cur, kind |-> "write", val |-> v]
Fetches(cur) == [cur |-> cur, kind |-> "fetch"]

State(c, rm, st) == [cache |-> c, ram |-> rm, st |-> st]
Panic(s) == State(s.cache, s.ram, "panic")

TranslateAt(s, p, op) == Translate(s.cache, regs, s.ram, p.va, op.cur, op.kind)

(* One page of mmu_validate.                                               *)
Probed(s, t, op) ==
  State(t.cache, s.ram, IF t.out.ok /\ Serves(t.out.frame, op.kind)
                          THEN "ok" ELSE "abort")
Probe(s, p, op) == IF s.st = "ok" THEN Probed(s, TranslateAt(s, p, op), op) ELSE s

Put(s, frame, p, op) ==
  LET rm == [s.ram EXCEPT ![frame] = [@ EXCEPT ![p.slot] = op.val]]
      c  == s.cache
  IN  State(Cache(c.tlb, c.epoch, c.primed,
                  [k \in Keys |-> c.seen[k] \cup Mapped(c.epoch, rm, k)]),
            rm, s.st)

(* One transfer of mmu_read / mmu_write after its translation: the bus's   *)
(* verdict, then the data.  exec.c's access_or_panic turns any refusal     *)
(* after a successful validate into an abort of the emulator.              *)
Commit(s, frame, p, op) ==
  IF ~Serves(frame, op.kind) THEN Panic(s)
  ELSE IF op.kind = "write" THEN Put(s, frame, p, op) ELSE s

Transferred(s, t, p, op) ==
  LET r == State(t.cache, s.ram, s.st)
  IN  IF t.out.ok THEN Commit(r, t.out.frame, p, op) ELSE Panic(r)
Transfer(s, p, op) ==
  IF s.st = "ok" THEN Transferred(s, TranslateAt(s, p, op), p, op) ELSE s

(* A byte of the split loop: the status of translate() is ignored, and a   *)
(* refused one would leave bpa at 0.                                       *)
SplitMoved(s, t, p, op) ==
  Commit(State(t.cache, s.ram, s.st), IF t.out.ok THEN t.out.frame ELSE 0, p, op)
SplitByte(s, p, op) ==
  IF s.st = "ok" THEN SplitMoved(s, TranslateAt(s, p, op), p, op) ELSE s

(* mmu_validate over the instruction's range.                              *)
ValidateFirst(s, i, op) ==      \* a bug: only the first page is probed
  Probe(s, i.a, op)
Validate(s, i, op) ==
  IF i.two THEN Probe(Probe(s, i.a, op), i.b, op) ELSE Probe(s, i.a, op)

Refused(s) == IF s.st = "abort" THEN Panic(s) ELSE s

(* The misaligned path: the address's own translation, the alignment       *)
(* policy, split_check over every byte, then the bytes.                    *)
Align(s, op) ==
  IF s.st = "ok" /\ AlignmentRequired(regs, op.cur) THEN Panic(s) ELSE s
SplitBytes(s, i, op) ==
  IF i.two THEN SplitByte(SplitByte(s, i.a, op), i.b, op) ELSE SplitByte(s, i.a, op)
Split(s, i, op) ==
  SplitBytes(Refused(Validate(Align(Refused(Probe(s, i.a, op)), op), i, op)), i, op)

(* The aligned path: one transfer, or a pair's two.                        *)
Transfers(s, i, op) ==
  IF i.two THEN Transfer(Transfer(s, i.a, op), i.b, op) ELSE Transfer(s, i.a, op)

Access(s, i, op) ==
  IF s.st # "ok" THEN s
  ELSE IF i.mis THEN Split(s, i, op) ELSE Transfers(s, i, op)

Perform(i, op) == Access(Validate(State(cache, ram, "ok"), i, op), i, op)

-----------------------------------------------------------------------------
Alive == status # "panic"

Retire(s) == ram' = s.ram /\ cache' = s.cache /\ status' = s.st

Store(i, v, cur) ==
  /\ Alive /\ stores < MaxStores
  /\ stores' = stores + 1
  /\ Retire(Perform(i, Writes(cur, v)))
  /\ UNCHANGED <<regs, msrs>>

Load(i, cur) ==
  /\ Alive
  /\ Retire(Perform(i, Reads(cur)))
  /\ UNCHANGED <<regs, stores, msrs>>

(* mmu_fetch32.                                                            *)
Fetch(va, cur) ==
  /\ Alive
  /\ Retire(Probe(State(cache, ram, "ok"), [va |-> va], Fetches(cur)))
  /\ UNCHANGED <<regs, stores, msrs>>

(* AT S1E*: the translation alone, its verdict published in PAR_EL1.       *)
At(va, cur, kind) ==
  /\ Alive
  /\ cache' = Translate(cache, regs, ram, va, cur, kind).cache
  /\ status' = "ok"
  /\ UNCHANGED <<regs, ram, stores, msrs>>

(* TLBI, whatever its operands.                                            *)
Tlbi ==
  /\ Alive
  /\ cache' = Flush(cache, ram)
  /\ status' = "ok"
  /\ UNCHANGED <<regs, ram, stores, msrs>>

(* MSR to one of the control registers; nothing else happens until the     *)
(* next translation compares the epoch.                                    *)
Msr(r, v) ==
  /\ Alive /\ msrs < MaxMsrs
  /\ msrs' = msrs + 1
  /\ regs' = [regs EXCEPT ![r] = v]
  /\ status' = "ok"
  /\ UNCHANGED <<ram, cache, stores>>

(* oemu_mmu_init: an empty TLB and an epoch nobody has read.               *)
MmuInit ==
  /\ regs = InitRegs /\ ram = InitRam
  /\ cache = [tlb |-> NoEntries, epoch |-> InitRegs, primed |-> FALSE,
              seen |-> [k \in Keys |-> {}]]
  /\ status = "ok" /\ stores = 0 /\ msrs = 0

Stopped == ~Alive /\ UNCHANGED vars

MmuNext ==
  \/ \E i \in Insns, cur \in Els : Load(i, cur) \/ \E v \in Values : Store(i, v, cur)
  \/ \E va \in Vas, cur \in Els : Fetch(va, cur)
  \/ \E va \in Vas, cur \in Els, kind \in {"read", "write"} : At(va, cur, kind)
  \/ Tlbi
  \/ \E r \in DOMAIN RegValues : \E v \in RegValues[r] : Msr(r, v)
  \/ Stopped

MmuSpec == MmuInit /\ [][MmuNext]_vars

-----------------------------------------------------------------------------
(* The properties.                                                         *)

(* Types of the layer's state; a valid entry's level is 1..3, since 0 is   *)
(* also the mark of a free one (oemu_tlb_entry.level).                     *)
MmuTypeOK ==
  /\ regs \in Registers
  /\ ram \in [Frames -> [Slots -> Descriptor]]
  /\ DOMAIN cache.tlb = 0 .. Sets - 1
  /\ \A n \in 0 .. Sets - 1 :
       cache.tlb[n] # Free => /\ cache.tlb[n].level \in 1 .. 3
                              /\ cache.tlb[n].key \in Keys
  /\ cache.epoch \in Registers /\ cache.primed \in BOOLEAN
  /\ status \in {"ok", "abort", "panic"}

(* mmu.h: the TLB "only ever serves what that function returned".  For     *)
(* every access the guest could make now, the answer -- frame, or fault    *)
(* class, level and FAR -- is what the walk gives now, or what it gave     *)
(* under the registers in force at some time since the TLB was last        *)
(* emptied.  In particular a descriptor that was invalid, or had AF        *)
(* clear, needs no TLBI after it is fixed, and a changed control register  *)
(* is obeyed at once.                                                      *)
Parity ==
  \A va \in Vas, cur \in Els, kind \in Kinds :
    LET t   == Translate(cache, regs, ram, va, cur, kind)
        key == Strip(regs, va)
        old == IF cache.primed /\ cache.epoch = regs THEN cache.seen[key] ELSE {}
    IN  IF Cacheable(regs, cur)
          THEN /\ t.far = key
               /\ \E l \in old \cup {Leaf(regs, ram, key)} : t.out = Verdict(l, cur = 0, kind)
          ELSE t.out.frame = Identity(va)

(* Every load and store the guest could execute now is precise.  One that  *)
(* takes an abort has committed nothing (exec.c: "Precise contract: the    *)
(* faulting instruction committed nothing").  A store that completes has   *)
(* changed exactly its own slots, in the frames its addresses translated   *)
(* to before it began, even when its first half rewrites the page table of *)
(* its second.  And one that passed validation is refused afterwards by    *)
(* the alignment policy only (see NeverPanics).                            *)
Precise ==
  \A i \in Insns, cur \in Els :
    \A op \in {Reads(cur)} \cup {Writes(cur, v) : v \in Values} :
      LET s    == Perform(i, op)
          F(p) == Translate(cache, regs, ram, p.va, cur, "write").out.frame
      IN  CASE s.st = "panic" -> i.mis /\ AlignmentRequired(regs, cur)
            [] s.st = "ok" /\ op.kind = "write" ->
                 s.ram = [[ram EXCEPT ![F(i.a)][i.a.slot] = op.val]
                               EXCEPT ![F(i.b)][i.b.slot] = op.val]
            [] OTHER -> s.ram = ram

(* exec.c's access_or_panic: "After the bus's validate succeeded, an       *)
(* access with the same arguments cannot fail".                            *)
NeverPanics == status # "panic"
=============================================================================
