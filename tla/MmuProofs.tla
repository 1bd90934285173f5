----------------------------- MODULE MmuProofs ------------------------------
(***************************************************************************)
(* For every tree of tables, every bus, every TLB size and every sequence  *)
(* of accesses, stores, MSRs and TLBIs: what the TLB answers is what the   *)
(* walk answers, or answered since the TLB was last emptied.               *)
(*                                                                         *)
(* The inductive invariant CacheOK says where an entry comes from: it is a *)
(* leaf the tables mapped its key to since the last emptying, and the      *)
(* history holds at least the present mapping, so that a fill keeps it.    *)
(***************************************************************************)
EXTENDS Mmu, TLAPS

Ram == [Frames -> [Slots -> Descriptor]]

Entry(e, sn) ==
  \/ e = Free
  \/ e.level \in 1 .. 3 /\ e.key \in Keys /\ e.leaf \in sn[e.key]

Whole(tlb, epoch, primed, seen, rm) ==
  /\ DOMAIN tlb = 0 .. Sets - 1
  /\ epoch \in Registers /\ primed \in BOOLEAN
  /\ \A n \in 0 .. Sets - 1 : Entry(tlb[n], seen)
  /\ ~primed => \A n \in 0 .. Sets - 1 : tlb[n] = Free
  /\ primed => \A k \in Keys : Mapped(epoch, rm, k) \subseteq seen[k]

CacheOK(c, rm) == Whole(c.tlb, c.epoch, c.primed, c.seen, rm)

MmuInv ==
  /\ regs \in Registers /\ ram \in Ram
  /\ CacheOK(cache, ram)
  /\ status \in {"ok", "abort", "panic"}

-----------------------------------------------------------------------------
(* What the walk returns: an answer with ok set has a level in 1..3.       *)
Typed(l) == l.ok \in BOOLEAN /\ (l.ok => l.level \in 1 .. 3)
Sound(w, n) == \/ w.done /\ Typed(w.res)
               \/ ~w.done /\ w.level \in n .. 3

LEMMA FaultTyped ==
  ASSUME NEW cls, NEW level PROVE Typed(Fault(cls, level))
  BY DEF Typed, Fault

LEMMA LeafOfTyped ==
  ASSUME NEW d, NEW level \in 0 .. 3, NEW tattrs, NEW va, NEW out
  PROVE  Typed(LeafOf(d, level, tattrs, va, out))
  <1> DEFINE frame == (d.addr \div Span(level)) * Span(level) + (va.vpn % Span(level))
  <1> HIDE DEF frame
  <1>1. level # 0 =>
          Typed([ok |-> TRUE, frame |-> frame, level |-> level,
                 user |-> d.user /\ "APT0" \notin tattrs,
                 ro   |-> d.ro \/ "APT1" \in tattrs,
                 xn   |-> d.xn \/ "XN" \in tattrs,
                 pxn  |-> d.pxn \/ "PXN" \in tattrs])
    BY DEF Typed
  <1> QED
    BY <1>1, FaultTyped DEF LeafOf, frame

(* A turn of the walk's loop ends it with a typed answer or takes it one   *)
(* level down, to one that exists.                                         *)
LEMMA VisitSound ==
  ASSUME NEW w, NEW n \in Nat, Sound(w, n), NEW rm, NEW va, NEW out
  PROVE  Sound(Visit(w, rm, va, out), n + 1)
  <1>1. CASE w.done /\ Typed(w.res)
    <2>1. Visit(w, rm, va, out) = w
      BY <1>1 DEF Visit
    <2> QED
      BY <1>1, <2>1 DEF Sound
  <1>2. CASE ~w.done /\ w.level \in n .. 3
    <2> DEFINE d == rm[w.base][Index(va, w.level)]
    <2>1. ASSUME NEW res, Typed(res) PROVE Sound(Done(res), n + 1)
      BY <2>1 DEF Done, Sound
    <2>2. Typed(LeafOf(d, w.level, w.tattrs, va, out))
      BY <1>2, LeafOfTyped
    <2>3. w.level # 3 => Sound(Standing(w.level + 1, d.addr, w.tattrs \cup d.tattrs), n + 1)
      <3> HIDE DEF d
      <3> QED
        BY <1>2 DEF Sound, Standing
    <2> HIDE DEF d
    <2>4. Visit(w, rm, va, out) = Turn(w, rm, va, out)
      BY <1>2 DEF Visit
    <2>5. \/ Turn(w, rm, va, out) = Done(Fault("no walk", -1))
          \/ Turn(w, rm, va, out) = Done(Fault("translation", w.level))
          \/ Turn(w, rm, va, out) = Done(LeafOf(d, w.level, w.tattrs, va, out))
          \/ Turn(w, rm, va, out) = Done(Fault("address size", w.level))
          \/ /\ w.level # 3
             /\ Turn(w, rm, va, out) = Standing(w.level + 1, d.addr, w.tattrs \cup d.tattrs)
      BY Zenon DEF Turn, d
    <2> QED
      BY <2>1, <2>2, <2>3, <2>4, <2>5, FaultTyped
  <1> QED
    BY <1>1, <1>2 DEF Sound

LEMMA LeafTyped ==
  ASSUME NEW rg \in Registers, NEW rm, NEW va \in Address
  PROVE  Typed(Leaf(rg, rm, va))
  <1> DEFINE start == rg.TCR.t[va.half]
             base == IF va.half = 1 THEN rg.TTBR1 ELSE rg.TTBR0
             out == rg.TCR.out
  <1>1. start \in -1 .. 2
    BY DEF Registers, Tcr, Address
  <1> HIDE DEF start, base, out
  <1>2. ASSUME ~(start < 0) PROVE Typed(Descend(start, base, rm, va, out))
    <2> DEFINE w0 == Standing(start, base, {})
               w1 == Visit(w0, rm, va, out)
               w2 == Visit(w1, rm, va, out)
               w3 == Visit(w2, rm, va, out)
               w4 == Visit(w3, rm, va, out)
    <2>1. Sound(w0, 0)
      BY <1>1, <1>2 DEF Sound, Standing
    <2>2. Sound(w4, 0 + 1 + 1 + 1 + 1)
      <3> HIDE DEF w0
      <3>1. Sound(w1, 0 + 1)
        BY <2>1, VisitSound
      <3> HIDE DEF w1
      <3>2. Sound(w2, 0 + 1 + 1)
        BY <3>1, VisitSound
      <3> HIDE DEF w2
      <3>3. Sound(w3, 0 + 1 + 1 + 1)
        BY <3>2, VisitSound
      <3> HIDE DEF w3
      <3> QED
        BY <3>3, VisitSound
    <2>3. Typed(w4.res)
      <3> HIDE DEF w4
      <3> QED
        BY <2>2 DEF Sound
    <2> QED
      BY <2>3 DEF Descend
  <1> QED
    BY <1>2, FaultTyped DEF Leaf, start, base, out

-----------------------------------------------------------------------------
(* A key is one of the finitely many the history is kept for, and has a    *)
(* set.                                                                    *)
LEMMA KeyFacts ==
  ASSUME NEW rg \in Registers, NEW va \in Vas
  PROVE  Strip(rg, va) \in Keys
  BY VasAssumption DEF Strip, Keys, Address

LEMMA KeysAreAddresses == Keys \subseteq Address
  BY VasAssumption DEF Keys, Address

LEMMA SetFacts ==
  ASSUME NEW k \in Keys PROVE Set(k) \in 0 .. Sets - 1
  BY KeysAreAddresses, SetsAssumption DEF Set, Address

LEMMA CacheFields ==
  ASSUME NEW tlb, NEW epoch, NEW primed, NEW seen
  PROVE  /\ Cache(tlb, epoch, primed, seen).tlb = tlb
         /\ Cache(tlb, epoch, primed, seen).epoch = epoch
         /\ Cache(tlb, epoch, primed, seen).primed = primed
         /\ Cache(tlb, epoch, primed, seen).seen = seen
  BY DEF Cache

LEMMA BuildOK ==
  ASSUME NEW tlb, NEW epoch, NEW primed, NEW seen, NEW rm,
         Whole(tlb, epoch, primed, seen, rm)
  PROVE  CacheOK(Cache(tlb, epoch, primed, seen), rm)
  BY CacheFields DEF CacheOK

LEMMA FreeFacts == Free.level = 0
  BY DEF Free

(* An empty TLB whose history is the present mapping.                      *)
LEMMA EmptyOK ==
  ASSUME NEW rg \in Registers, NEW rm, NEW pr \in BOOLEAN
  PROVE  CacheOK(Cache(NoEntries, rg, pr, SeenNow(rg, rm)), rm)
  <1>1. DOMAIN NoEntries = 0 .. Sets - 1 /\ \A n \in 0 .. Sets - 1 : NoEntries[n] = Free
    BY DEF NoEntries
  <1>2. \A k \in Keys : SeenNow(rg, rm)[k] = Mapped(rg, rm, k)
    BY DEF SeenNow
  <1>3. Whole(NoEntries, rg, pr, SeenNow(rg, rm), rm)
    BY <1>1, <1>2 DEF Whole, Entry
  <1> QED
    BY <1>3, BuildOK

(* The epoch check keeps the cache sound, and leaves nothing of another    *)
(* epoch behind.                                                           *)
LEMMA EpochOK ==
  ASSUME NEW c, NEW rm, CacheOK(c, rm), NEW rg \in Registers,
         NEW d, d = CheckEpoch(c, rg, rm)
  PROVE  /\ CacheOK(d, rm)
         /\ d.epoch = rg /\ d.primed
         /\ c.primed /\ c.epoch = rg => d.seen = c.seen
         /\ ~(c.primed /\ c.epoch = rg) => \A n \in 0 .. Sets - 1 : d.tlb[n] = Free
  <1>0. c.primed \in BOOLEAN
    BY DEF CacheOK, Whole
  <1>1. CASE c.primed /\ c.epoch = rg
    <2>1. d = Cache(c.tlb, rg, TRUE, c.seen)
      BY <1>1 DEF CheckEpoch, EpochMoved
    <2>2. Whole(c.tlb, rg, TRUE, c.seen, rm)
      BY <1>1 DEF CacheOK, Whole
    <2>3. CacheOK(d, rm)
      BY <2>1, <2>2, BuildOK
    <2>4. d.epoch = rg /\ d.primed /\ d.seen = c.seen
      BY <2>1 DEF Cache
    <2> QED
      BY <1>1, <2>3, <2>4
  <1>2. CASE c.primed /\ c.epoch # rg
    <2>1. d = Cache(NoEntries, rg, TRUE, SeenNow(rg, rm))
      BY <1>2 DEF CheckEpoch, EpochMoved
    <2>2. \A n \in 0 .. Sets - 1 : NoEntries[n] = Free
      BY DEF NoEntries
    <2>3. CacheOK(d, rm)
      BY <2>1, EmptyOK
    <2>4. d.epoch = rg /\ d.primed /\ d.tlb = NoEntries
      BY <2>1 DEF Cache
    <2> QED
      BY <1>2, <2>2, <2>3, <2>4
  <1>3. CASE ~c.primed
    <2>1. d = Cache(c.tlb, rg, TRUE, SeenNow(rg, rm))
      BY <1>3 DEF CheckEpoch
    <2>2. \A k \in Keys : SeenNow(rg, rm)[k] = Mapped(rg, rm, k)
      BY DEF SeenNow
    <2>3. \A n \in 0 .. Sets - 1 : c.tlb[n] = Free
      BY <1>3 DEF CacheOK, Whole
    <2>4. Whole(c.tlb, rg, TRUE, SeenNow(rg, rm), rm)
      BY <2>2, <2>3 DEF CacheOK, Whole, Entry
    <2>5. CacheOK(d, rm)
      BY <2>1, <2>4, BuildOK
    <2>6. d.epoch = rg /\ d.primed /\ d.tlb = c.tlb
      BY <2>1 DEF Cache
    <2> QED
      BY <1>3, <2>3, <2>5, <2>6
  <1> QED
    BY <1>0, <1>1, <1>2, <1>3

(* Filling with the walk's present answer keeps the cache sound.           *)
LEMMA FillOK ==
  ASSUME NEW c, NEW rm, CacheOK(c, rm), c.primed, NEW k \in Keys,
         NEW l, l = Leaf(c.epoch, rm, k), l.ok
  PROVE  CacheOK(Fill(c, k, l), rm)
  <1> DEFINE e == [level |-> l.level, key |-> k, leaf |-> l]
             tlb == [c.tlb EXCEPT ![Set(k)] = e]
  <1>1. l \in c.seen[k]
    BY DEF CacheOK, Whole, Mapped
  <1>2. l.level \in 1 .. 3
    BY LeafTyped, KeysAreAddresses DEF CacheOK, Whole, Typed
  <1>3. Entry(e, c.seen)
    BY <1>1, <1>2 DEF Entry
  <1>4. /\ DOMAIN tlb = 0 .. Sets - 1
        /\ \A n \in 0 .. Sets - 1 : tlb[n] = IF n = Set(k) THEN e ELSE c.tlb[n]
    BY SetFacts DEF CacheOK, Whole
  <1> HIDE DEF e, tlb
  <1>5. \A n \in 0 .. Sets - 1 : Entry(tlb[n], c.seen)
    BY <1>3, <1>4 DEF CacheOK, Whole
  <1>6. Fill(c, k, l) = Cache(tlb, c.epoch, c.primed, c.seen)
    BY DEF Fill, e, tlb
  <1>7. Whole(tlb, c.epoch, c.primed, c.seen, rm)
    BY <1>4, <1>5 DEF CacheOK, Whole
  <1> QED
    BY <1>6, <1>7, BuildOK

LEMMA VerdictOk ==
  ASSUME NEW l, NEW el0, NEW kind, Verdict(l, el0, kind).ok
  PROVE  Verdict(l, el0, kind) = l /\ l.ok
  <1>1. Verdict(l, el0, kind) = l \/ Verdict(l, el0, kind) = Fault("permission", l.level)
    BY Zenon DEF Verdict
  <1>2. Fault("permission", l.level).ok = FALSE
    BY DEF Fault
  <1> QED
    BY <1>1, <1>2

(* translate() keeps the cache sound.                                      *)
LEMMA TranslateOK ==
  ASSUME NEW c, NEW rm, CacheOK(c, rm), NEW rg \in Registers, NEW va \in Vas,
         NEW cur, NEW kind
  PROVE  CacheOK(Translate(c, rg, rm, va, cur, kind).cache, rm)
  <1> DEFINE d == CheckEpoch(c, rg, rm)
             key == Strip(rg, va)
             leaf == IF Hits(d, key) THEN d.tlb[Set(key)].leaf ELSE Leaf(rg, rm, key)
             out == Verdict(leaf, cur = 0, kind)
             t == Translate(c, rg, rm, va, cur, kind)
  <1>1. CacheOK(d, rm) /\ d.epoch = rg /\ d.primed
    BY EpochOK
  <1>2. key \in Keys
    BY KeyFacts
  <1>3. \/ t.cache = d
        \/ ~Hits(d, key) /\ out.ok /\ t.cache = Fill(d, key, leaf)
    BY DEF Translate, Through, Lookup, Answer
  <1> HIDE DEF d, key, t
  <1>4. ASSUME ~Hits(d, key), out.ok PROVE CacheOK(Fill(d, key, leaf), rm)
    <2>1. leaf = Leaf(rg, rm, key)
      BY <1>4
    <2> HIDE DEF leaf
    <2>2. leaf.ok
      BY <1>4, VerdictOk
    <2> QED
      BY <1>1, <1>2, <2>1, <2>2, FillOK
  <1> QED
    BY <1>1, <1>3, <1>4 DEF t

(* One access of Parity.                                                   *)
LEMMA AnswerOK ==
  ASSUME NEW c, NEW rm, CacheOK(c, rm), NEW rg \in Registers, NEW va \in Vas,
         NEW cur, NEW kind, Cacheable(rg, cur)
  PROVE  LET t   == Translate(c, rg, rm, va, cur, kind)
             key == Strip(rg, va)
             old == IF c.primed /\ c.epoch = rg THEN c.seen[key] ELSE {}
         IN  /\ t.far = key
             /\ \E l \in old \cup {Leaf(rg, rm, key)} : t.out = Verdict(l, cur = 0, kind)
  <1> DEFINE d == CheckEpoch(c, rg, rm)
             key == Strip(rg, va)
             leaf == IF Hits(d, key) THEN d.tlb[Set(key)].leaf ELSE Leaf(rg, rm, key)
             t == Translate(c, rg, rm, va, cur, kind)
             old == IF c.primed /\ c.epoch = rg THEN c.seen[key] ELSE {}
  <1>1. t.far = key /\ t.out = Verdict(leaf, cur = 0, kind)
    BY DEF Translate, Through, Lookup, Answer
  <1> HIDE DEF t
  <1>2. leaf \in old \cup {Leaf(rg, rm, key)}
    <2>1. CASE ~Hits(d, key)
      BY <2>1
    <2>2. CASE Hits(d, key)
      <3> DEFINE e == d.tlb[Set(key)]
      <3>1. key \in Keys /\ Set(key) \in 0 .. Sets - 1
        BY KeyFacts, SetFacts
      <3>2. e.level # 0 /\ e.key = key
        BY <2>2 DEF Hits
      <3>3. e # Free
        BY <3>2, FreeFacts
      <3>4. CacheOK(d, rm)
        BY EpochOK
      <3>5. Entry(e, d.seen)
        BY <3>1, <3>4 DEF CacheOK, Whole
      <3>6. e.leaf \in d.seen[key]
        BY <3>2, <3>3, <3>5 DEF Entry
      <3>7. c.primed /\ c.epoch = rg /\ d.seen = c.seen
        BY <3>1, <3>3, EpochOK
      <3> QED
        BY <2>2, <3>6, <3>7
    <2> QED
      BY <2>1, <2>2
  <1> HIDE DEF leaf
  <1> QED
    BY <1>1, <1>2 DEF t

-----------------------------------------------------------------------------
(* The parts of a memory instruction, one by one.                          *)
OK(s) == /\ CacheOK(s.cache, s.ram) /\ s.ram \in Ram
         /\ s.st \in {"ok", "abort", "panic"}

(* A read or a fetch leaves memory alone; a write writes a value.          *)
IsOp(op) == op.kind = "write" => op.val \in Values
Keeps(s, r, op) == OK(r) /\ (op.kind # "write" => r.ram = s.ram)

LEMMA StateOK ==
  ASSUME NEW c, NEW rm \in Ram, NEW st \in {"ok", "abort", "panic"}, CacheOK(c, rm)
  PROVE  OK(State(c, rm, st)) /\ State(c, rm, st).ram = rm
  <1>1. State(c, rm, st).cache = c /\ State(c, rm, st).ram = rm /\ State(c, rm, st).st = st
    BY DEF State
  <1> QED
    BY <1>1 DEF OK

LEMMA ProbeOK ==
  ASSUME regs \in Registers, NEW s, OK(s), NEW p, p.va \in Vas, NEW op
  PROVE  OK(Probe(s, p, op)) /\ Probe(s, p, op).ram = s.ram
  <1>1. CASE s.st # "ok"
    BY <1>1 DEF Probe
  <1>2. CASE s.st = "ok"
    <2> DEFINE t == Translate(s.cache, regs, s.ram, p.va, op.cur, op.kind)
    <2>1. CacheOK(t.cache, s.ram)
      BY TranslateOK DEF OK
    <2>2. \E st \in {"ok", "abort"} : Probe(s, p, op) = State(t.cache, s.ram, st)
      <3> HIDE DEF t
      <3> QED
        BY <1>2 DEF Probe, Probed, TranslateAt, t
    <2> HIDE DEF t
    <2> QED
      BY <2>1, <2>2, StateOK DEF OK
  <1> QED
    BY <1>1, <1>2

(* A write into a slot keeps the history at least as large as the mapping. *)
LEMMA PutOK ==
  ASSUME NEW s, OK(s), NEW frame \in Frames, NEW p, p.slot \in Slots,
         NEW op, op.val \in Values
  PROVE  OK(Put(s, frame, p, op))
  <1> DEFINE rm == [s.ram EXCEPT ![frame] = [@ EXCEPT ![p.slot] = op.val]]
             c == s.cache
             sn == [k \in Keys |-> c.seen[k] \cup Mapped(c.epoch, rm, k)]
  <1>1. rm \in Ram
    BY ValuesAssumption DEF OK, Ram
  <1> HIDE DEF rm
  <1>2. \A k \in Keys : sn[k] = c.seen[k] \cup Mapped(c.epoch, rm, k)
    OBVIOUS
  <1> HIDE DEF sn
  <1>3. Whole(c.tlb, c.epoch, c.primed, sn, rm)
    <2>1. \A n \in 0 .. Sets - 1 : Entry(c.tlb[n], sn)
      BY <1>2 DEF OK, CacheOK, Whole, Entry
    <2> QED
      BY <1>2, <2>1 DEF OK, CacheOK, Whole
  <1>4. CacheOK(Cache(c.tlb, c.epoch, c.primed, sn), rm)
    BY <1>3, BuildOK
  <1>5. Put(s, frame, p, op) = State(Cache(c.tlb, c.epoch, c.primed, sn), rm, s.st)
    BY DEF Put, rm, sn
  <1> QED
    BY <1>1, <1>4, <1>5, StateOK DEF OK

LEMMA PanicOK ==
  ASSUME NEW s, OK(s) PROVE OK(Panic(s)) /\ Panic(s).ram = s.ram
  BY StateOK DEF Panic, OK

LEMMA CommitOK ==
  ASSUME NEW s, OK(s), NEW frame, NEW p, p.slot \in Slots, NEW op, IsOp(op)
  PROVE  Keeps(s, Commit(s, frame, p, op), op)
  <1>1. CASE ~Serves(frame, op.kind)
    BY <1>1, PanicOK DEF Commit, Keeps
  <1>2. CASE Serves(frame, op.kind) /\ op.kind = "write"
    BY <1>2, PutOK DEF Commit, Keeps, Serves, IsOp
  <1>3. CASE Serves(frame, op.kind) /\ op.kind # "write"
    BY <1>3 DEF Commit, Keeps
  <1> QED
    BY <1>1, <1>2, <1>3

LEMMA TransferOK ==
  ASSUME regs \in Registers, NEW s, OK(s), NEW p \in Parts, NEW op, IsOp(op)
  PROVE  Keeps(s, Transfer(s, p, op), op) /\ Keeps(s, SplitByte(s, p, op), op)
  <1>1. CASE s.st # "ok"
    BY <1>1 DEF Transfer, SplitByte, Keeps
  <1>2. CASE s.st = "ok"
    <2> DEFINE t == Translate(s.cache, regs, s.ram, p.va, op.cur, op.kind)
               r == State(t.cache, s.ram, s.st)
    <2>1. p.va \in Vas /\ p.slot \in Slots
      BY DEF Parts
    <2>2. CacheOK(t.cache, s.ram)
      BY <2>1, TranslateOK DEF OK
    <2>3. OK(r) /\ r.ram = s.ram
      BY <2>2, StateOK DEF OK
    <2>4. \A frame : Keeps(s, Commit(r, frame, p, op), op)
      BY <2>1, <2>3, CommitOK DEF Keeps
    <2>5. Keeps(s, Panic(r), op)
      BY <2>3, PanicOK DEF Keeps
    <2>6. \/ Transfer(s, p, op) = Panic(r)
          \/ \E frame : Transfer(s, p, op) = Commit(r, frame, p, op)
      BY <1>2, Zenon DEF Transfer, Transferred, TranslateAt
    <2>7. \E frame : SplitByte(s, p, op) = Commit(r, frame, p, op)
      BY <1>2, Zenon DEF SplitByte, SplitMoved, TranslateAt
    <2> HIDE DEF r
    <2> QED
      BY <2>4, <2>5, <2>6, <2>7
  <1> QED
    BY <1>1, <1>2

LEMMA InsnFacts ==
  ASSUME NEW i \in Insns PROVE i.a \in Parts /\ i.b \in Parts
  BY DEF Insns

LEMMA ValidateOK ==
  ASSUME regs \in Registers, NEW s, OK(s), NEW i \in Insns, NEW op
  PROVE  OK(Validate(s, i, op)) /\ Validate(s, i, op).ram = s.ram
  <1> DEFINE s1 == Probe(s, i.a, op)
  <1>1. i.a.va \in Vas /\ i.b.va \in Vas
    BY InsnFacts DEF Parts
  <1>2. OK(s1) /\ s1.ram = s.ram
    BY <1>1, ProbeOK
  <1>3. Validate(s, i, op) = s1 \/ Validate(s, i, op) = Probe(s1, i.b, op)
    BY Zenon DEF Validate
  <1> HIDE DEF s1
  <1>4. OK(Probe(s1, i.b, op)) /\ Probe(s1, i.b, op).ram = s1.ram
    BY <1>1, <1>2, ProbeOK
  <1> QED
    BY <1>2, <1>3, <1>4

LEMMA TransfersOK ==
  ASSUME regs \in Registers, NEW s, OK(s), NEW i \in Insns, NEW op, IsOp(op)
  PROVE  Keeps(s, Transfers(s, i, op), op)
  <1> DEFINE s1 == Transfer(s, i.a, op)
  <1>1. Keeps(s, s1, op)
    BY InsnFacts, TransferOK
  <1>2. Transfers(s, i, op) = s1 \/ Transfers(s, i, op) = Transfer(s1, i.b, op)
    BY Zenon DEF Transfers
  <1> HIDE DEF s1
  <1>3. Keeps(s1, Transfer(s1, i.b, op), op)
    BY <1>1, InsnFacts, TransferOK DEF Keeps
  <1> QED
    BY <1>1, <1>2, <1>3 DEF Keeps

LEMMA RefusedOK ==
  ASSUME NEW s, OK(s) PROVE OK(Refused(s)) /\ Refused(s).ram = s.ram
  BY PanicOK DEF Refused

LEMMA SplitOK ==
  ASSUME regs \in Registers, NEW s, OK(s), NEW i \in Insns, NEW op, IsOp(op)
  PROVE  Keeps(s, Split(s, i, op), op)
  <1> DEFINE p1 == Probe(s, i.a, op)
             s1 == Refused(p1)
             s2 == IF s1.st = "ok" /\ AlignmentRequired(regs, op.cur)
                     THEN Panic(s1) ELSE s1
             v == Validate(s2, i, op)
             s3 == Refused(v)
             s4 == SplitByte(s3, i.a, op)
             s5 == SplitByte(s4, i.b, op)
  <1>1. Split(s, i, op) = s4 \/ Split(s, i, op) = s5
    BY Zenon DEF Split, SplitBytes, Align
  <1>2. OK(p1) /\ p1.ram = s.ram
    BY InsnFacts, ProbeOK DEF Parts
  <1> HIDE DEF p1
  <1>3. OK(s1) /\ s1.ram = s.ram
    BY <1>2, RefusedOK
  <1> HIDE DEF s1
  <1>4. OK(s2) /\ s2.ram = s.ram
    BY <1>3, PanicOK
  <1> HIDE DEF s2
  <1>5. OK(v) /\ v.ram = s.ram
    BY <1>4, ValidateOK
  <1> HIDE DEF v
  <1>6. OK(s3) /\ s3.ram = s.ram
    BY <1>5, RefusedOK
  <1> HIDE DEF s3
  <1>7. Keeps(s3, s4, op)
    BY <1>6, InsnFacts, TransferOK
  <1> HIDE DEF s4
  <1>8. Keeps(s4, s5, op)
    BY <1>7, InsnFacts, TransferOK DEF Keeps
  <1> HIDE DEF s5
  <1> QED
    BY <1>1, <1>6, <1>7, <1>8 DEF Keeps

(* A whole load or store.                                                  *)
LEMMA PerformOK ==
  ASSUME MmuInv, NEW i \in Insns, NEW op, IsOp(op)
  PROVE  /\ OK(Perform(i, op))
         /\ op.kind # "write" => Perform(i, op).ram = ram
  <1> DEFINE s0 == State(cache, ram, "ok")
             s == Validate(s0, i, op)
  <1>1. OK(s0) /\ s0.ram = ram
    BY StateOK DEF MmuInv
  <1>2. \/ Perform(i, op) = s
        \/ Perform(i, op) = Split(s, i, op)
        \/ Perform(i, op) = Transfers(s, i, op)
    BY Zenon DEF Perform, Access
  <1> HIDE DEF s0
  <1>3. OK(s) /\ s.ram = ram
    BY <1>1, ValidateOK DEF MmuInv
  <1> HIDE DEF s
  <1>4. Keeps(s, Split(s, i, op), op) /\ Keeps(s, Transfers(s, i, op), op)
    BY <1>3, SplitOK, TransfersOK DEF MmuInv
  <1> QED
    BY <1>2, <1>3, <1>4 DEF Keeps

-----------------------------------------------------------------------------
LEMMA InitInv == MmuInit => MmuInv
  <1> SUFFICES ASSUME MmuInit PROVE MmuInv
    OBVIOUS
  <1> DEFINE sn == [k \in Keys |-> {}]
  <1>1. cache = Cache(NoEntries, InitRegs, FALSE, sn)
    BY DEF MmuInit, Cache
  <1> HIDE DEF sn
  <1>2. Whole(NoEntries, InitRegs, FALSE, sn, ram)
    BY InitAssumption DEF Whole, NoEntries, Entry
  <1> QED
    BY <1>1, <1>2, BuildOK, InitAssumption DEF MmuInit, MmuInv, Ram

LEMMA NextInv == MmuInv /\ [MmuNext]_vars => MmuInv'
  <1> SUFFICES ASSUME MmuInv, [MmuNext]_vars PROVE MmuInv'
    OBVIOUS
  <1> USE DEF MmuInv
  <1>1. ASSUME NEW i \in Insns, NEW v \in Values, NEW cur \in Els, Store(i, v, cur)
        PROVE  MmuInv'
    <2> DEFINE op == Writes(cur, v)
               s == Perform(i, op)
    <2>1. op.val = v /\ op.kind = "write"
      BY DEF Writes
    <2> HIDE DEF op
    <2>2. OK(s)
      BY <2>1, PerformOK DEF IsOp
    <2>3. ram' = s.ram /\ cache' = s.cache /\ status' = s.st /\ regs' = regs
      BY <1>1 DEF Store, Retire, op
    <2> HIDE DEF s
    <2> QED
      BY <2>2, <2>3 DEF OK, CacheOK
  <1>2. ASSUME NEW i \in Insns, NEW cur \in Els, Load(i, cur) PROVE MmuInv'
    <2> DEFINE op == Reads(cur)
               s == Perform(i, op)
    <2>1. op.kind # "write"
      BY DEF Reads
    <2> HIDE DEF op
    <2>2. OK(s) /\ s.ram = ram
      BY <2>1, PerformOK DEF IsOp
    <2>3. ram' = s.ram /\ cache' = s.cache /\ status' = s.st /\ regs' = regs
      BY <1>2 DEF Load, Retire, op
    <2> HIDE DEF s
    <2> QED
      BY <2>2, <2>3 DEF OK, CacheOK
  <1>3. ASSUME NEW va \in Vas, NEW cur \in Els, Fetch(va, cur) PROVE MmuInv'
    <2> DEFINE p == [va |-> va]
               s == Probe(State(cache, ram, "ok"), p, Fetches(cur))
    <2>1. OK(State(cache, ram, "ok")) /\ State(cache, ram, "ok").ram = ram
      BY StateOK
    <2>2. OK(s) /\ s.ram = ram
      BY <2>1, ProbeOK
    <2>3. ram' = s.ram /\ cache' = s.cache /\ status' = s.st /\ regs' = regs
      BY <1>3 DEF Fetch, Retire
    <2> HIDE DEF s
    <2> QED
      BY <2>2, <2>3 DEF OK, CacheOK
  <1>4. ASSUME NEW va \in Vas, NEW cur \in Els, NEW kind \in {"read", "write"},
               At(va, cur, kind)
        PROVE  MmuInv'
    <2> DEFINE c == Translate(cache, regs, ram, va, cur, kind).cache
    <2>1. CacheOK(c, ram)
      BY TranslateOK
    <2>2. cache' = c /\ ram' = ram /\ regs' = regs /\ status' = "ok"
      BY <1>4 DEF At
    <2> HIDE DEF c
    <2> QED
      BY <2>1, <2>2 DEF CacheOK
  <1>5. ASSUME Tlbi PROVE MmuInv'
    <2>1. cache.epoch \in Registers /\ cache.primed \in BOOLEAN
      BY DEF CacheOK, Whole
    <2>2. CacheOK(Flush(cache, ram), ram)
      BY <2>1, EmptyOK DEF Flush
    <2>3. cache' = Flush(cache, ram) /\ ram' = ram /\ regs' = regs /\ status' = "ok"
      BY <1>5 DEF Tlbi
    <2> QED
      BY <2>2, <2>3 DEF CacheOK
  <1>6. ASSUME NEW r \in DOMAIN RegValues, NEW v \in RegValues[r], Msr(r, v)
        PROVE  MmuInv'
    <2>1. r \in {"SCTLR", "TCR", "TTBR0", "TTBR1", "MAIR"}
      BY ValuesAssumption
    <2>2. [regs EXCEPT ![r] = v] \in Registers
      BY <2>1, ValuesAssumption DEF Registers
    <2> QED
      BY <1>6, <2>2 DEF Msr, CacheOK
  <1>7. ASSUME UNCHANGED vars PROVE MmuInv'
    BY <1>7 DEF vars, CacheOK
  <1> QED
    BY <1>1, <1>2, <1>3, <1>4, <1>5, <1>6, <1>7 DEF MmuNext, Stopped

LEMMA Invariance == MmuSpec => []MmuInv
  BY InitInv, NextInv, PTL DEF MmuSpec

(* The layer's state stays well typed; in particular no entry in use ever  *)
(* carries level 0, which lookup reads as "free" (mmu.h, oemu_tlb_entry).  *)
THEOREM MmuTypeCorrect == MmuSpec => []MmuTypeOK
  <1>1. MmuInv => MmuTypeOK
    BY DEF MmuInv, MmuTypeOK, Ram, CacheOK, Whole, Entry
  <1> QED
    BY <1>1, Invariance, PTL

(* For every tree of tables, bus and TLB size, an access is answered as    *)
(* the walk answers it now, or answered it since the TLB was last emptied  *)
(* under these registers (mmu.c: "a cache that may only be faster").       *)
THEOREM TlbParity == MmuSpec => []Parity
  <1>1. MmuInv => Parity
    <2> SUFFICES ASSUME MmuInv, NEW va \in Vas, NEW cur \in Els, NEW kind \in Kinds
                 PROVE
      LET t   == Translate(cache, regs, ram, va, cur, kind)
          key == Strip(regs, va)
          old == IF cache.primed /\ cache.epoch = regs THEN cache.seen[key] ELSE {}
      IN  IF Cacheable(regs, cur)
            THEN /\ t.far = key
                 /\ \E l \in old \cup {Leaf(regs, ram, key)} : t.out = Verdict(l, cur = 0, kind)
            ELSE t.out.frame = Identity(va)
      BY DEF Parity
    <2>1. CASE Cacheable(regs, cur)
      BY <2>1, AnswerOK DEF MmuInv
    <2>2. CASE ~Cacheable(regs, cur)
      <3>1. Translate(cache, regs, ram, va, cur, kind).out.frame = Identity(va)
        BY <2>2 DEF Translate, Through
      <3> QED
        BY <2>2, <3>1
    <2> QED
      BY <2>1, <2>2
  <1> QED
    BY <1>1, Invariance, PTL

-----------------------------------------------------------------------------
(* Precise.  Of the cache an instruction depends on Live alone, the        *)
(* entries that survive the epoch check; a page that was probed is pinned  *)
(* there: whatever the instruction then stores into the tables, the page   *)
(* hits, answers the same frame and changes nothing.                       *)
Live(c) == IF c.primed /\ c.epoch # regs THEN NoEntries ELSE c.tlb

Found(tlb, key) == tlb[Set(key)].level # 0 /\ tlb[Set(key)].key = key
Source(tlb, rm, key) == IF Found(tlb, key) THEN tlb[Set(key)].leaf ELSE Leaf(regs, rm, key)

(* What translate() answers, and the entries it leaves.                    *)
Out(tlb, rm, va, op) ==
  IF Cacheable(regs, op.cur) THEN Verdict(Source(tlb, rm, Strip(regs, va)), op.cur = 0, op.kind)
  ELSE [ok |-> TRUE, frame |-> Identity(va)]
After(tlb, rm, va, op) ==
  LET key == Strip(regs, va)
      leaf == Leaf(regs, rm, key)
  IN  IF Cacheable(regs, op.cur) /\ Out(tlb, rm, va, op).ok /\ ~Found(tlb, key)
        THEN [tlb EXCEPT ![Set(key)] = [level |-> leaf.level, key |-> key, leaf |-> leaf]]
        ELSE tlb

Pin(tlb, va, op, f) ==
  IF Cacheable(regs, op.cur)
    THEN LET key == Strip(regs, va)
             v == Verdict(tlb[Set(key)].leaf, op.cur = 0, op.kind)
         IN  Found(tlb, key) /\ v.ok /\ v.frame = f
    ELSE f = Identity(va)

LEMMA TranslateView ==
  ASSUME NEW c, NEW rm, CacheOK(c, rm), NEW va, NEW op
  PROVE  LET t == Translate(c, regs, rm, va, op.cur, op.kind)
         IN  /\ t.out = Out(Live(c), rm, va, op)
             /\ t.cache.tlb = After(Live(c), rm, va, op)
             /\ t.cache.primed /\ t.cache.epoch = regs
  <1> DEFINE d == CheckEpoch(c, regs, rm)
             key == Strip(regs, va)
             t == Translate(c, regs, rm, va, op.cur, op.kind)
             leaf == Source(d.tlb, rm, key)
             out == Verdict(leaf, op.cur = 0, op.kind)
  <1>1. d.tlb = Live(c) /\ d.primed /\ d.epoch = regs
    BY DEF CheckEpoch, EpochMoved, Cache, Live
  <1>2. Hits(d, key) <=> Found(d.tlb, key)
    BY DEF Hits, Found
  <1>3. CASE ~Cacheable(regs, op.cur)
    <2>1. t = [cache |-> d, out |-> [ok |-> TRUE, frame |-> Identity(va)], far |-> va]
      BY <1>3 DEF Translate, Through
    <2>2. t.cache = d /\ t.out = [ok |-> TRUE, frame |-> Identity(va)]
      BY <2>1
    <2> QED
      BY <1>1, <1>3, <2>2 DEF Out, After
  <1>4. CASE Cacheable(regs, op.cur)
    <2>1. t = Answer(d, key, leaf, out)
      BY <1>2, <1>4 DEF Translate, Through, Lookup, Source
    <2>2. t.out = out /\ t.cache = IF out.ok /\ ~Hits(d, key) THEN Fill(d, key, leaf) ELSE d
      BY <2>1 DEF Answer
    <2>3. out = Out(Live(c), rm, va, op)
      BY <1>1, <1>4 DEF Out
    <2> HIDE DEF d, t
    <2>4. CASE out.ok /\ ~Hits(d, key)
      <3>1. leaf = Leaf(regs, rm, key)
        BY <1>2, <2>4 DEF Source
      <3>2. t.cache = Fill(d, key, leaf)
        BY <2>2, <2>4
      <3>3. /\ t.cache.tlb = [d.tlb EXCEPT ![Set(key)] =
                                [level |-> leaf.level, key |-> key, leaf |-> leaf]]
            /\ t.cache.epoch = d.epoch /\ t.cache.primed = d.primed
        BY <3>2, CacheFields DEF Fill
      <3>4. After(Live(c), rm, va, op) =
              [d.tlb EXCEPT ![Set(key)] = [level |-> leaf.level, key |-> key, leaf |-> leaf]]
        BY <1>1, <1>2, <1>4, <2>3, <2>4, <3>1 DEF After
      <3> QED
        BY <1>1, <2>2, <2>3, <3>3, <3>4 DEF t
    <2>5. CASE ~(out.ok /\ ~Hits(d, key))
      <3>1. t.cache = d
        BY <2>2, <2>5
      <3>2. After(Live(c), rm, va, op) = d.tlb
        BY <1>1, <1>2, <1>4, <2>3, <2>5 DEF After
      <3> QED
        BY <1>1, <2>2, <2>3, <3>1, <3>2 DEF t
    <2> QED
      BY <2>4, <2>5
  <1> QED
    BY <1>3, <1>4

(* A pinned page is answered from its pin.                                 *)
LEMMA PinUse ==
  ASSUME NEW tlb, NEW va, NEW op, NEW f, Pin(tlb, va, op, f), NEW rm
  PROVE  /\ Out(tlb, rm, va, op).ok /\ Out(tlb, rm, va, op).frame = f
         /\ After(tlb, rm, va, op) = tlb
  <1>1. CASE Cacheable(regs, op.cur)
    BY <1>1 DEF Pin, Out, After, Source
  <1>2. CASE ~Cacheable(regs, op.cur)
    <2>1. Out(tlb, rm, va, op) = [ok |-> TRUE, frame |-> f]
      BY <1>2 DEF Pin, Out
    <2>2. After(tlb, rm, va, op) = tlb
      BY <1>2 DEF After
    <2> QED
      BY <2>1, <2>2
  <1> QED
    BY <1>1, <1>2

(* A translation that succeeds pins its page.                              *)
LEMMA PinMade ==
  ASSUME regs \in Registers, NEW tlb, DOMAIN tlb = 0 .. Sets - 1, NEW rm,
         NEW va \in Vas, NEW op, Out(tlb, rm, va, op).ok
  PROVE  Pin(After(tlb, rm, va, op), va, op, Out(tlb, rm, va, op).frame)
  <1> DEFINE key == Strip(regs, va)
             leaf == Leaf(regs, rm, key)
             e == [level |-> leaf.level, key |-> key, leaf |-> leaf]
             new == [tlb EXCEPT ![Set(key)] = e]
  <1>1. key \in Keys /\ Set(key) \in 0 .. Sets - 1
    BY KeyFacts, SetFacts
  <1>2. CASE ~Cacheable(regs, op.cur)
    <2>1. Out(tlb, rm, va, op) = [ok |-> TRUE, frame |-> Identity(va)]
      BY <1>2 DEF Out
    <2> QED
      BY <1>2, <2>1 DEF Pin
  <1>3. CASE Cacheable(regs, op.cur) /\ Found(tlb, key)
    BY <1>3 DEF Pin, Out, After, Source
  <1>4. CASE Cacheable(regs, op.cur) /\ ~Found(tlb, key)
    <2>1. After(tlb, rm, va, op) = new /\ Out(tlb, rm, va, op) = Verdict(leaf, op.cur = 0, op.kind)
      BY <1>4 DEF Out, After, Source
    <2>2. leaf.ok
      BY <2>1, VerdictOk
    <2>3. leaf.level \in 1 .. 3
      BY <1>1, <2>2, LeafTyped, KeysAreAddresses DEF Typed
    <2>4. new[Set(key)] = e
      BY <1>1
    <2>5. e.level = leaf.level /\ e.key = key /\ e.leaf = leaf
      OBVIOUS
    <2> HIDE DEF new, e, leaf, key
    <2>6. Found(new, key) /\ new[Set(key)].leaf = leaf
      BY <2>3, <2>4, <2>5 DEF Found
    <2> QED
      BY <1>4, <2>1, <2>6 DEF Pin, key
  <1> QED
    BY <1>2, <1>3, <1>4

(* A translation looks at, and writes, its own set only.                   *)
LEMMA OtherSet ==
  ASSUME NEW tlb, DOMAIN tlb = 0 .. Sets - 1, NEW rm, NEW va, NEW other, NEW op,
         Set(Strip(regs, va)) # Set(Strip(regs, other))
  PROVE  /\ DOMAIN After(tlb, rm, va, op) = 0 .. Sets - 1
         /\ Out(After(tlb, rm, va, op), rm, other, op) = Out(tlb, rm, other, op)
         /\ \A f : Pin(tlb, other, op, f) => Pin(After(tlb, rm, va, op), other, op, f)
  <1> DEFINE new == After(tlb, rm, va, op)
             k == Strip(regs, other)
  <1>1. DOMAIN new = 0 .. Sets - 1 /\ new[Set(k)] = tlb[Set(k)]
    BY DEF After
  <1> HIDE DEF new
  <1>2. Found(new, k) <=> Found(tlb, k)
    BY <1>1 DEF Found
  <1>3. Source(new, rm, k) = Source(tlb, rm, k)
    BY <1>1, <1>2 DEF Source
  <1>4. Out(new, rm, other, op) = Out(tlb, rm, other, op)
    BY <1>3 DEF Out
  <1>5. \A f : Pin(tlb, other, op, f) => Pin(new, other, op, f)
    BY <1>1, <1>2 DEF Pin
  <1> QED
    BY <1>1, <1>4, <1>5 DEF new

(* Adjacent pages have different sets.                                     *)
LEMMA Neighbours ==
  ASSUME NEW i \in Insns, i.two
  PROVE  Set(Strip(regs, i.a.va)) # Set(Strip(regs, i.b.va))
  <1> DEFINE v == i.a.va.vpn
  <1>1. i.a.va \in Address /\ i.b.va = [i.a.va EXCEPT !.vpn = @ + 1]
    BY InsnFacts, VasAssumption DEF Parts, Insns, Adjacent
  <1>2. v \in Nat /\ i.b.va.vpn = v + 1
    BY <1>1 DEF Address
  <1>3. Strip(regs, i.a.va).vpn = v /\ Strip(regs, i.b.va).vpn = v + 1
    BY <1>1, <1>2 DEF Strip, Address
  <1> HIDE DEF v
  <1>4. (v + 1) % Sets # v % Sets
    <2> DEFINE q == v \div Sets
               r == v % Sets
               q1 == (v + 1) \div Sets
               r1 == (v + 1) % Sets
    <2>1. q \in Int /\ r \in 0 .. Sets - 1 /\ v = Sets * q + r
      BY <1>2, SetsAssumption
    <2>2. q1 \in Int /\ r1 \in 0 .. Sets - 1 /\ v + 1 = Sets * q1 + r1
      BY <1>2, SetsAssumption
    <2> HIDE DEF q, r, q1, r1
    <2> SUFFICES ASSUME r1 = r PROVE FALSE
      BY DEF r, r1
    <2> DEFINE j == q1 - q
    <2>3. j \in Int /\ Sets * j = 1
      <3>1. Sets * q1 - Sets * q = 1
        BY <1>2, <2>1, <2>2, SetsAssumption
      <3>2. Sets * (q1 - q) = Sets * q1 - Sets * q
        BY <2>1, <2>2, SetsAssumption
      <3> QED
        BY <2>1, <2>2, <3>1, <3>2
    <2> HIDE DEF j
    <2>4. j <= 0 => Sets * j <= 0
      BY <2>3, SetsAssumption
    <2>5. j >= 1 => Sets * j >= Sets
      BY <2>3, SetsAssumption
    <2> QED
      BY <2>3, <2>4, <2>5, SetsAssumption, NeighboursAssumption
  <1> QED
    BY <1>3, <1>4 DEF Set

(* The parts of an instruction, seen through Live.                         *)
View(s) == Live(s.cache)

LEMMA StateFields ==
  ASSUME NEW c, NEW rm, NEW st
  PROVE  State(c, rm, st).cache = c /\ State(c, rm, st).ram = rm /\ State(c, rm, st).st = st
  BY DEF State

LEMMA ProbeView ==
  ASSUME NEW s, OK(s), s.st = "ok", NEW p, NEW op
  PROVE  LET r == Probe(s, p, op)
             out == Out(View(s), s.ram, p.va, op)
         IN  /\ r.ram = s.ram
             /\ View(r) = After(View(s), s.ram, p.va, op)
             /\ r.st \in {"ok", "abort"}
             /\ r.st = "ok" <=> out.ok /\ Serves(out.frame, op.kind)
  <1> DEFINE t == Translate(s.cache, regs, s.ram, p.va, op.cur, op.kind)
             r == Probe(s, p, op)
             out == Out(View(s), s.ram, p.va, op)
             st == IF t.out.ok /\ Serves(t.out.frame, op.kind) THEN "ok" ELSE "abort"
  <1>1. CacheOK(s.cache, s.ram)
    BY DEF OK
  <1>2. /\ t.out = out
        /\ t.cache.tlb = After(View(s), s.ram, p.va, op)
        /\ t.cache.primed /\ t.cache.epoch = regs
    BY <1>1, TranslateView DEF View
  <1>3. r = State(t.cache, s.ram, st)
    BY DEF Probe, Probed, TranslateAt
  <1> HIDE DEF t, r, out
  <1>4. r.cache = t.cache /\ r.ram = s.ram /\ r.st = st
    BY <1>3, StateFields
  <1>5. View(r) = After(View(s), s.ram, p.va, op)
    BY <1>2, <1>4 DEF View, Live
  <1>6. r.st \in {"ok", "abort"} /\ (r.st = "ok" <=> out.ok /\ Serves(out.frame, op.kind))
    BY <1>2, <1>4
  <1> QED
    BY <1>4, <1>5, <1>6 DEF r, out

(* Probing a pinned page again changes nothing.                            *)
LEMMA ProbePinned ==
  ASSUME NEW s, OK(s), s.st = "ok", NEW p, NEW op, NEW f,
         Pin(View(s), p.va, op, f), Serves(f, op.kind)
  PROVE  LET r == Probe(s, p, op)
         IN  r.st = "ok" /\ r.ram = s.ram /\ View(r) = View(s)
  BY ProbeView, PinUse

(* What a transfer writes.                                                 *)
Wrote(rm, f, p, op) ==
  IF op.kind = "write" THEN [rm EXCEPT ![f] = [@ EXCEPT ![p.slot] = op.val]] ELSE rm

LEMMA CommitView ==
  ASSUME NEW s, NEW f, NEW p, NEW op, Serves(f, op.kind)
  PROVE  LET r == Commit(s, f, p, op)
         IN  r.st = s.st /\ r.ram = Wrote(s.ram, f, p, op) /\ View(r) = View(s)
  <1> DEFINE rm == [s.ram EXCEPT ![f] = [@ EXCEPT ![p.slot] = op.val]]
             c == s.cache
             sn == [k \in Keys |-> c.seen[k] \cup Mapped(c.epoch, rm, k)]
             d == Cache(c.tlb, c.epoch, c.primed, sn)
  <1>1. CASE op.kind = "write"
    <2>1. Commit(s, f, p, op) = State(d, rm, s.st)
      BY <1>1 DEF Commit, Put
    <2>2. Wrote(s.ram, f, p, op) = rm
      BY <1>1 DEF Wrote
    <2> HIDE DEF rm, sn
    <2>3. Live(d) = Live(c)
      BY CacheFields DEF Live
    <2> HIDE DEF d
    <2> QED
      BY <2>1, <2>2, <2>3, StateFields DEF View
  <1>2. CASE op.kind # "write"
    BY <1>2 DEF Commit, Wrote
  <1> QED
    BY <1>1, <1>2

(* A transfer to a pinned page succeeds, in its frame.                     *)
LEMMA MovePinned ==
  ASSUME NEW s, OK(s), s.st = "ok", NEW p, NEW op, NEW f,
         Pin(View(s), p.va, op, f), Serves(f, op.kind), op.kind \in {"read", "write"}
  PROVE  \A r \in {Transfer(s, p, op), SplitByte(s, p, op)} :
           r.st = "ok" /\ r.ram = Wrote(s.ram, f, p, op) /\ View(r) = View(s)
  <1> DEFINE t == Translate(s.cache, regs, s.ram, p.va, op.cur, op.kind)
             m == State(t.cache, s.ram, s.st)
  <1>1. CacheOK(s.cache, s.ram)
    BY DEF OK
  <1>2. /\ t.out = Out(View(s), s.ram, p.va, op)
        /\ t.cache.tlb = After(View(s), s.ram, p.va, op)
        /\ t.cache.primed /\ t.cache.epoch = regs
    BY <1>1, TranslateView DEF View
  <1>3. t.out.ok /\ t.out.frame = f /\ t.cache.tlb = View(s)
    BY <1>2, PinUse
  <1>4. Transfer(s, p, op) = Commit(m, f, p, op)
    BY <1>3 DEF Transfer, Transferred, TranslateAt
  <1>5. SplitByte(s, p, op) = Commit(m, f, p, op)
    BY <1>3 DEF SplitByte, SplitMoved, TranslateAt
  <1> HIDE DEF t
  <1>6. m.cache = t.cache /\ m.ram = s.ram /\ m.st = "ok"
    BY StateFields
  <1>7. View(m) = View(s)
    BY <1>2, <1>3, <1>6 DEF View, Live
  <1> HIDE DEF m
  <1>8. LET r == Commit(m, f, p, op)
        IN  r.st = m.st /\ r.ram = Wrote(m.ram, f, p, op) /\ View(r) = View(m)
    BY CommitView
  <1> QED
    BY <1>4, <1>5, <1>6, <1>7, <1>8

-----------------------------------------------------------------------------
(* Both pages pinned to frames the bus serves.                             *)
Held(s, i, op, f, g) ==
  /\ s.st = "ok" /\ OK(s)
  /\ Pin(View(s), i.a.va, op, f) /\ Serves(f, op.kind)
  /\ Pin(View(s), i.b.va, op, g) /\ Serves(g, op.kind)

LEMMA ViewDomain ==
  ASSUME NEW s, OK(s) PROVE DOMAIN View(s) = 0 .. Sets - 1
  BY DEF OK, CacheOK, Whole, View, Live, NoEntries

(* Validation that succeeds holds the pages the instruction's addresses    *)
(* translated to before it.                                                *)
LEMMA ValidateHolds ==
  ASSUME regs \in Registers, NEW s, OK(s), s.st = "ok", NEW i \in Insns, NEW op
  PROVE  LET v == Validate(s, i, op)
             F(p) == Out(View(s), s.ram, p.va, op).frame
         IN  /\ v.st \in {"ok", "abort"}
             /\ v.st = "ok" => Held(v, i, op, F(i.a), F(i.b))
  <1> DEFINE v == Validate(s, i, op)
             L == View(s)
             oa == Out(L, s.ram, i.a.va, op)
             ob == Out(L, s.ram, i.b.va, op)
             s1 == Probe(s, i.a, op)
             La == After(L, s.ram, i.a.va, op)
  <1>1. i.a.va \in Vas /\ i.b.va \in Vas /\ (~i.two => i.b = i.a) /\ i.two \in BOOLEAN
    BY DEF Insns, Parts
  <1>2. OK(v)
    BY ValidateOK
  <1>3. /\ s1.ram = s.ram /\ View(s1) = La /\ s1.st \in {"ok", "abort"}
        /\ s1.st = "ok" <=> oa.ok /\ Serves(oa.frame, op.kind)
    BY ProbeView
  <1>4. OK(s1)
    BY <1>1, ProbeOK
  <1>5. DOMAIN L = 0 .. Sets - 1
    BY ViewDomain
  <1>6. oa.ok => Pin(La, i.a.va, op, oa.frame)
    BY <1>1, <1>5, PinMade
  <1>7. CASE ~i.two
    <2>1. v = s1 /\ i.b = i.a
      BY <1>1, <1>7 DEF Validate
    <2> QED
      BY <1>2, <1>3, <1>6, <2>1 DEF Held
  <1>8. CASE i.two
    <2> DEFINE Lb == After(La, s.ram, i.b.va, op)
               o2 == Out(La, s.ram, i.b.va, op)
    <2>1. v = Probe(s1, i.b, op)
      BY <1>8 DEF Validate
    <2>2. CASE s1.st # "ok"
      <3>1. v = s1
        BY <2>1, <2>2 DEF Probe
      <3> QED
        BY <1>3, <2>2, <3>1
    <2>3. CASE s1.st = "ok"
      <3>1. /\ View(v) = Lb /\ v.st \in {"ok", "abort"}
            /\ v.st = "ok" <=> o2.ok /\ Serves(o2.frame, op.kind)
        BY <1>3, <1>4, <2>1, <2>3, ProbeView
      <3>2. Set(Strip(regs, i.a.va)) # Set(Strip(regs, i.b.va))
        BY <1>8, Neighbours
      <3>3. DOMAIN La = 0 .. Sets - 1 /\ o2 = ob
        BY <1>5, <3>2, OtherSet
      <3>4. Pin(La, i.a.va, op, oa.frame)
        BY <1>3, <1>6, <2>3
      <3> HIDE DEF L, La
      <3>5. o2.ok => Pin(Lb, i.b.va, op, o2.frame)
        BY <1>1, <3>3, PinMade
      <3>6. Pin(Lb, i.a.va, op, oa.frame)
        BY <3>2, <3>3, <3>4, OtherSet
      <3> HIDE DEF Lb, o2, oa, ob
      <3> QED
        BY <1>2, <1>3, <2>3, <3>1, <3>3, <3>5, <3>6 DEF Held, oa, ob, L
    <2> QED
      BY <2>2, <2>3
  <1> QED
    BY <1>7, <1>8

(* Once held, validating again changes nothing.                            *)
LEMMA HeldValidate ==
  ASSUME regs \in Registers, NEW s, NEW i \in Insns, NEW op, NEW f, NEW g,
         Held(s, i, op, f, g)
  PROVE  LET v == Validate(s, i, op)
         IN  Held(v, i, op, f, g) /\ v.ram = s.ram
  <1> DEFINE s1 == Probe(s, i.a, op)
  <1>1. s1.st = "ok" /\ s1.ram = s.ram /\ View(s1) = View(s)
    BY ProbePinned DEF Held
  <1>2. OK(s1)
    BY ProbeOK, InsnFacts DEF Held, Parts
  <1>3. Held(s1, i, op, f, g)
    BY <1>1, <1>2 DEF Held
  <1>4. LET r == Probe(s1, i.b, op)
        IN  r.st = "ok" /\ r.ram = s1.ram /\ View(r) = View(s1)
    BY <1>3, ProbePinned DEF Held
  <1>5. OK(Probe(s1, i.b, op))
    BY <1>2, ProbeOK, InsnFacts DEF Parts
  <1>6. Held(Probe(s1, i.b, op), i, op, f, g)
    BY <1>3, <1>4, <1>5 DEF Held
  <1>7. Validate(s, i, op) = s1 \/ Validate(s, i, op) = Probe(s1, i.b, op)
    BY Zenon DEF Validate
  <1> QED
    BY <1>1, <1>3, <1>4, <1>6, <1>7

(* The data of the whole instruction.                                      *)
Both(rm, i, op, f, g) ==
  IF i.two THEN Wrote(Wrote(rm, f, i.a, op), g, i.b, op) ELSE Wrote(rm, f, i.a, op)

LEMMA HeldMoves ==
  ASSUME regs \in Registers, NEW s, NEW i \in Insns, NEW op, IsOp(op), NEW f, NEW g,
         Held(s, i, op, f, g), op.kind \in {"read", "write"}
  PROVE  \A r \in {Transfers(s, i, op), SplitBytes(s, i, op)} :
           r.st = "ok" /\ r.ram = Both(s.ram, i, op, f, g)
  <1> DEFINE ta == Transfer(s, i.a, op)
             ba == SplitByte(s, i.a, op)
  <1>1. \A r \in {ta, ba} :
          r.st = "ok" /\ r.ram = Wrote(s.ram, f, i.a, op) /\ View(r) = View(s)
    BY MovePinned DEF Held
  <1>2. OK(ta) /\ OK(ba)
    BY InsnFacts, TransferOK DEF Held, Keeps
  <1>3. \A r \in {Transfer(ta, i.b, op), SplitByte(ba, i.b, op)} :
          r.st = "ok" /\ r.ram = Wrote(Wrote(s.ram, f, i.a, op), g, i.b, op)
    <2> HIDE DEF ta, ba
    <2>1. \A r \in {Transfer(ta, i.b, op), SplitByte(ta, i.b, op)} :
            r.st = "ok" /\ r.ram = Wrote(ta.ram, g, i.b, op)
      BY <1>1, <1>2, MovePinned DEF Held
    <2>2. \A r \in {Transfer(ba, i.b, op), SplitByte(ba, i.b, op)} :
            r.st = "ok" /\ r.ram = Wrote(ba.ram, g, i.b, op)
      BY <1>1, <1>2, MovePinned DEF Held
    <2> QED
      BY <1>1, <2>1, <2>2
  <1>4. CASE i.two
    BY <1>3, <1>4 DEF Transfers, SplitBytes, Both
  <1>5. CASE ~i.two
    BY <1>1, <1>5 DEF Transfers, SplitBytes, Both
  <1> QED
    BY <1>4, <1>5

(* The misaligned path of a validated instruction: it panics on the        *)
(* alignment policy, before a byte has moved, or moves all of them.        *)
LEMMA HeldSplit ==
  ASSUME regs \in Registers, NEW s, NEW i \in Insns, NEW op, IsOp(op), NEW f, NEW g,
         Held(s, i, op, f, g), op.kind \in {"read", "write"}
  PROVE  LET r == Split(s, i, op)
         IN  IF AlignmentRequired(regs, op.cur)
               THEN r.st = "panic" /\ r.ram = s.ram
               ELSE r.st = "ok" /\ r.ram = Both(s.ram, i, op, f, g)
  <1> DEFINE p == Probe(s, i.a, op)
             n == Panic(p)
             v == Validate(p, i, op)
  <1>1. p.st = "ok" /\ p.ram = s.ram /\ View(p) = View(s)
    BY ProbePinned DEF Held
  <1>2. OK(p)
    BY ProbeOK, InsnFacts DEF Held, Parts
  <1>3. Held(p, i, op, f, g)
    BY <1>1, <1>2 DEF Held
  <1>4. Refused(p) = p
    BY <1>1 DEF Refused
  <1>5. CASE AlignmentRequired(regs, op.cur)
    <2>1. Align(p, op) = n
      BY <1>1, <1>5 DEF Align
    <2>2. n.st = "panic" /\ n.ram = s.ram
      BY <1>1, StateFields DEF Panic
    <2>3. Split(s, i, op) = SplitBytes(Refused(Validate(n, i, op)), i, op)
      BY <1>4, <2>1 DEF Split
    <2> HIDE DEF n
    <2>4. Validate(n, i, op) = n /\ Refused(n) = n /\ SplitBytes(n, i, op) = n
      BY <2>2 DEF Validate, Probe, Refused, SplitBytes, SplitByte
    <2> QED
      BY <1>5, <2>2, <2>3, <2>4
  <1>6. CASE ~AlignmentRequired(regs, op.cur)
    <2>1. Align(p, op) = p
      BY <1>6 DEF Align
    <2>2. Split(s, i, op) = SplitBytes(Refused(v), i, op)
      BY <1>4, <2>1 DEF Split
    <2>3. Held(v, i, op, f, g) /\ v.ram = s.ram
      BY <1>1, <1>3, HeldValidate
    <2> HIDE DEF v
    <2>4. Refused(v) = v
      BY <2>3 DEF Refused, Held
    <2>5. \A r \in {Transfers(v, i, op), SplitBytes(v, i, op)} :
            r.st = "ok" /\ r.ram = Both(v.ram, i, op, f, g)
      BY <2>3, HeldMoves
    <2> QED
      BY <1>6, <2>2, <2>3, <2>4, <2>5
  <1> QED
    BY <1>5, <1>6

(* Any load or store from any state of the layer.                          *)
LEMMA PerformPrecise ==
  ASSUME MmuInv, NEW i \in Insns, NEW op, IsOp(op), op.kind \in {"read", "write"}
  PROVE  LET s == Perform(i, op)
             F(p) == Translate(cache, regs, ram, p.va, op.cur, op.kind).out.frame
         IN  \/ s.st = "panic" /\ i.mis /\ AlignmentRequired(regs, op.cur) /\ s.ram = ram
             \/ s.st = "abort" /\ s.ram = ram
             \/ /\ s.st = "ok" /\ s.ram = Both(ram, i, op, F(i.a), F(i.b))
                /\ Serves(F(i.a), op.kind) /\ Serves(F(i.b), op.kind)
  <1> DEFINE s0 == State(cache, ram, "ok")
             v == Validate(s0, i, op)
             G(p) == Out(View(s0), s0.ram, p.va, op).frame
             F(p) == Translate(cache, regs, ram, p.va, op.cur, op.kind).out.frame
  <1>1. OK(s0) /\ s0.ram = ram /\ s0.st = "ok" /\ s0.cache = cache
    BY StateOK, StateFields DEF MmuInv
  <1>2. F(i.a) = G(i.a) /\ F(i.b) = G(i.b)
    <2>1. CacheOK(cache, ram)
      BY DEF MmuInv
    <2> QED
      BY <1>1, <2>1, TranslateView DEF View
  <1> HIDE DEF F
  <1>3. Perform(i, op) = Access(v, i, op)
    BY DEF Perform
  <1> HIDE DEF s0
  <1>4. v.st \in {"ok", "abort"} /\ (v.st = "ok" => Held(v, i, op, G(i.a), G(i.b)))
    BY <1>1, ValidateHolds DEF MmuInv
  <1>5. v.ram = ram
    BY <1>1, ValidateOK DEF MmuInv
  <1> HIDE DEF v, G
  <1>6. CASE v.st = "abort"
    <2>1. Access(v, i, op) = v
      BY <1>6 DEF Access
    <2> QED
      BY <1>3, <1>5, <1>6, <2>1
  <1>7. CASE v.st = "ok"
    <2>1. Held(v, i, op, F(i.a), F(i.b))
      BY <1>2, <1>4, <1>7
    <2>2. Serves(F(i.a), op.kind) /\ Serves(F(i.b), op.kind)
      BY <2>1 DEF Held
    <2>3. CASE i.mis
      <3>1. Access(v, i, op) = Split(v, i, op)
        BY <1>7, <2>3 DEF Access
      <3>2. LET r == Split(v, i, op)
            IN  IF AlignmentRequired(regs, op.cur)
                  THEN r.st = "panic" /\ r.ram = v.ram
                  ELSE r.st = "ok" /\ r.ram = Both(v.ram, i, op, F(i.a), F(i.b))
        BY <2>1, HeldSplit DEF MmuInv
      <3> QED
        BY <1>3, <1>5, <2>2, <2>3, <3>1, <3>2 DEF F
    <2>4. CASE ~i.mis
      <3>1. Access(v, i, op) = Transfers(v, i, op)
        BY <1>7, <2>4 DEF Access
      <3>2. \A r \in {Transfers(v, i, op), SplitBytes(v, i, op)} :
              r.st = "ok" /\ r.ram = Both(v.ram, i, op, F(i.a), F(i.b))
        <4>1. regs \in Registers
          BY DEF MmuInv
        <4> QED
          BY <2>1, <4>1, HeldMoves
      <3> QED
        BY <1>3, <1>5, <2>2, <3>1, <3>2 DEF F
    <2> QED
      BY <2>3, <2>4
  <1> QED
    BY <1>4, <1>6, <1>7

(* Writing the one slot of a one-page store twice is writing it once.      *)
LEMMA BothIsTwice ==
  ASSUME NEW rm \in Ram, NEW i \in Insns, NEW op, op.kind = "write", op.val \in Values,
         NEW f \in Frames, NEW g \in Frames, ~i.two => g = f
  PROVE  Both(rm, i, op, f, g) = [[rm EXCEPT ![f][i.a.slot] = op.val]
                                       EXCEPT ![g][i.b.slot] = op.val]
  <1> DEFINE once == [rm EXCEPT ![f][i.a.slot] = op.val]
  <1>1. i.a.slot \in Slots /\ i.b.slot \in Slots /\ i.two \in BOOLEAN /\ (~i.two => i.b = i.a)
    BY DEF Insns, Parts
  <1>2. \A r, h, p : Wrote(r, h, p, op) = [r EXCEPT ![h][p.slot] = op.val]
    BY DEF Wrote
  <1>3. CASE i.two
    BY <1>2, <1>3 DEF Both
  <1>4. CASE ~i.two
    <2>1. Both(rm, i, op, f, g) = once
      BY <1>2, <1>4 DEF Both
    <2>2. once \in Ram /\ once[f] \in [Slots -> Descriptor] /\ once[f][i.a.slot] = op.val
      BY <1>1, ValuesAssumption DEF Ram
    <2> HIDE DEF once
    <2>3. [once[f] EXCEPT ![i.a.slot] = op.val] = once[f]
      BY <1>1, <2>2
    <2>4. [once EXCEPT ![f] = once[f]] = once
      BY <2>2 DEF Ram
    <2>5. [once EXCEPT ![f][i.a.slot] = op.val] = once
      BY <2>3, <2>4
    <2> QED
      BY <1>1, <1>4, <2>1, <2>5 DEF once
  <1> QED
    BY <1>3, <1>4

(* No load or store is ever half done, for every tree of tables, bus, TLB  *)
(* of at least two sets and history of accesses: an abort commits nothing, *)
(* a completed store wrote its slots in the frames its addresses had       *)
(* before it, and only the alignment policy refuses a validated access.    *)
THEOREM StoresPrecise == MmuSpec => []Precise
  <1>1. MmuInv => Precise
    <2> SUFFICES ASSUME MmuInv, NEW i \in Insns, NEW cur \in Els,
                        NEW op \in {Reads(cur)} \cup {Writes(cur, v) : v \in Values}
                 PROVE
      LET s    == Perform(i, op)
          F(p) == Translate(cache, regs, ram, p.va, cur, "write").out.frame
      IN  CASE s.st = "panic" -> i.mis /\ AlignmentRequired(regs, cur)
            [] s.st = "ok" /\ op.kind = "write" ->
                 s.ram = [[ram EXCEPT ![F(i.a)][i.a.slot] = op.val]
                               EXCEPT ![F(i.b)][i.b.slot] = op.val]
            [] OTHER -> s.ram = ram
      BY DEF Precise
    <2> DEFINE s == Perform(i, op)
               F(p) == Translate(cache, regs, ram, p.va, cur, "write").out.frame
               H(p) == Translate(cache, regs, ram, p.va, op.cur, op.kind).out.frame
    <2>1. op.cur = cur /\ op.kind \in {"read", "write"} /\ IsOp(op)
      BY DEF Reads, Writes, IsOp
    <2>2. op.kind = "write" => op.val \in Values
      BY <2>1 DEF IsOp
    <2>3. \/ s.st = "panic" /\ i.mis /\ AlignmentRequired(regs, op.cur) /\ s.ram = ram
          \/ s.st = "abort" /\ s.ram = ram
          \/ /\ s.st = "ok" /\ s.ram = Both(ram, i, op, H(i.a), H(i.b))
             /\ Serves(H(i.a), op.kind) /\ Serves(H(i.b), op.kind)
      BY <2>1, PerformPrecise
    <2>4. op.kind = "write" => H(i.a) = F(i.a) /\ H(i.b) = F(i.b)
      BY <2>1
    <2> HIDE DEF s, F, H
    <2>5. CASE s.st = "panic" /\ i.mis /\ AlignmentRequired(regs, op.cur) /\ s.ram = ram
      BY <2>1, <2>5 DEF s
    <2>6. CASE s.st = "abort" /\ s.ram = ram
      BY <2>6 DEF s
    <2>7. CASE /\ s.st = "ok" /\ s.ram = Both(ram, i, op, H(i.a), H(i.b))
               /\ Serves(H(i.a), op.kind) /\ Serves(H(i.b), op.kind)
      <3>1. CASE op.kind # "write"
        <4>1. s.ram = ram
          BY <2>7, <3>1 DEF Both, Wrote
        <4> QED
          BY <2>7, <3>1, <4>1 DEF s
      <3>2. CASE op.kind = "write"
        <4>1. F(i.a) \in Frames /\ F(i.b) \in Frames
          BY <2>4, <2>7, <3>2 DEF Serves
        <4>2. ~i.two => F(i.b) = F(i.a)
          BY DEF Insns, F
        <4>3. ram \in Ram
          BY DEF MmuInv
        <4>4. Both(ram, i, op, F(i.a), F(i.b)) =
                [[ram EXCEPT ![F(i.a)][i.a.slot] = op.val] EXCEPT ![F(i.b)][i.b.slot] = op.val]
          BY <2>2, <3>2, <4>1, <4>2, <4>3, BothIsTwice
        <4>5. s.ram = [[ram EXCEPT ![F(i.a)][i.a.slot] = op.val]
                            EXCEPT ![F(i.b)][i.b.slot] = op.val]
          BY <2>4, <2>7, <3>2, <4>4
        <4> QED
          BY <2>7, <3>2, <4>5 DEF s, F
      <3> QED
        BY <3>1, <3>2
    <2> QED
      BY <2>3, <2>5, <2>6, <2>7
  <1> QED
    BY <1>1, Invariance, PTL
=============================================================================
