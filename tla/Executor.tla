------------------------------ MODULE Executor ------------------------------
(***************************************************************************)
(* The user-mode executor of oemu: oemu_exec_step_bus, the dispatch switch *)
(* and oemu_exec_run_bus of src/src/exec/exec.c over the register file of  *)
(* regs.c, the region-table memory of memory.c and the system calls of     *)
(* core/sysenv.c.  One action per group of cases of the switch.            *)
(*                                                                         *)
(* An instruction is the decoder's record.  The guest's text is Code(prog),*)
(* a sequence of such records: the decoder is not modelled, and a word past*)
(* the end of the program is one it refuses.  Text is never stored to.     *)
(***************************************************************************)
EXTENDS Alu, Regions

CONSTANTS
  Code(_),      \* the instructions of the guest in an ELF file
  Poly(_),      \* the CRC polynomial: of Castagnoli or not
  TimeValues    \* what the host's clock answers

\* An address fits a register, a polynomial and a time are the content of one.
ASSUME ExecAssumption ==
  /\ Top = Pow2[XBits] - 1
  /\ \A castagnoli \in BOOLEAN : Poly(castagnoli) \in Word
  /\ TimeValues \subseteq Word

VARIABLES
  prog, budget,      \* the guest and its instruction budget
  textBase,          \* where its first instruction lies
  regions, mem,      \* oemu_memory: the table and the bytes behind it
  regs,              \* x, sp, pc, nzcv
  v,                 \* the vector registers, <<lo, hi>>
  monitor,           \* the exclusive monitor
  tpidr,             \* TPIDRUR_EL0
  env,               \* oemu_sysenv: exited, exit_code; and the bytes sent to out
  status, done,      \* oemu_exec_run_bus: its verdict and completed count
  touched,           \* history: the bytes stored since the last LDXR, and how
  compared           \* history: the operands the flags come from, if SUBS set them

guestVars == <<prog, budget>>
execVars == <<textBase, regions, mem, regs, v, monitor, tpidr, env, status, done,
              touched, compared>>

ZR == 31
GPRs == {0, 1, 2, 3, 8, 30}
VRs == {0, 1}

Insn == [op |-> "NOP", bits |-> XBits, rd |-> ZR, rn |-> ZR, rm |-> ZR, ra |-> ZR,
         rt2 |-> ZR, rdSp |-> FALSE, rnSp |-> FALSE, kind |-> "REG", imm |-> 0, uimm |-> 0,
         cond |-> 14, shift |-> "LSL", extend |-> "UXTB", lsl |-> FALSE, amount |-> 0,
         msb |-> 0, size |-> 8, signed |-> FALSE, index |-> "NONE", vec |-> FALSE,
         sysreg |-> "OTHER"]

-----------------------------------------------------------------------------
(* regs.c: the zero-register form and the stack-pointer form.              *)
ReadX(n, bits) == IF n = ZR THEN 0 ELSE Truncate(regs.x[n], bits)
ReadSp(n, bits) == Truncate(IF n = ZR THEN regs.sp ELSE regs.x[n], bits)
WriteX(r, n, bits, value) ==
  IF n = ZR THEN r ELSE [r EXCEPT !.x[n] = Truncate(value, bits)]
WriteSp(r, n, bits, value) ==
  IF n = ZR THEN [r EXCEPT !.sp = Truncate(value, bits)]
  ELSE [r EXCEPT !.x[n] = Truncate(value, bits)]

ReadG(n, spForm, bits) == IF spForm THEN ReadSp(n, bits) ELSE ReadX(n, bits)
WriteG(r, n, spForm, bits, value) ==
  IF spForm THEN WriteSp(r, n, bits, value) ELSE WriteX(r, n, bits, value)

Advance(r) == [r EXCEPT !.pc = Plus(@, 4)]

\* The NZCV register as the top four bits of a W register.
FlagWeight == [N |-> Pow2[WBits - 1], Z |-> Pow2[WBits - 2],
               C |-> Pow2[WBits - 3], V |-> Pow2[WBits - 4]]
FlagsOf(w) == {f \in Flags : (w \div FlagWeight[f]) % 2 = 1}
FlagsWord(f) ==
  LET weight(g) == IF g \in f THEN FlagWeight[g] ELSE 0
  IN weight("N") + weight("Z") + weight("C") + weight("V")

-----------------------------------------------------------------------------
(* The bus: memory.c.  Values travel little-endian.                        *)
Serves(addr, n, perm) == MemFind(regions, addr, n, {perm}) # 0
Load(m, addr, n) == SumTo([i \in 0 .. n - 1 |-> m[addr + i] * Pow2[ByteBits * i]], n)
LoadExt(m, addr, n, signed) ==
  IF signed THEN SignExtend(Load(m, addr, n), n * ByteBits) ELSE Load(m, addr, n)
Store(m, w) ==
  [a \in DOMAIN m |-> IF w.addr <= a /\ a < w.addr + w.n
                      THEN Truncate(ShiftR(w.value, ByteBits * (a - w.addr)), ByteBits)
                      ELSE m[a]]

StoreAll(m, pieces) ==
  LET after[i \in 0 .. Len(pieces)] ==
        IF i = 0 THEN m ELSE Store(after[i - 1], pieces[i])
  IN after[Len(pieces)]

Piece(addr, n, value) == [addr |-> addr, n |-> n, value |-> value]
BytesOf(w) == {Plus(w.addr, i) : i \in 0 .. w.n - 1}

\* Mutant: a reservation is dropped only by a store to its first byte.
NoteStoreFirst(addr, n) ==
  IF monitor.valid /\ monitor.addr = addr THEN [monitor EXCEPT !.valid = FALSE] ELSE monitor

\* note_store: the same overlap test, written out without sums.
NoteStore(addr, n) ==
  IF monitor.valid /\ Overlap(monitor.addr, monitor.size, addr, n)
  THEN [monitor EXCEPT !.valid = FALSE] ELSE monitor

-----------------------------------------------------------------------------
(* The end of a step and the loop around it.                               *)
\* oemu_exec_run_bus: the step counts, and the run goes on while the guest has
\* not exited and the budget is not spent.
Retire(r) ==
  /\ regs' = r
  /\ done' = done + 1
  /\ status' = IF env'.exited THEN "OK"
               ELSE IF done + 1 < budget THEN "running" ELSE "TIMEOUT"
  /\ UNCHANGED <<textBase, regions, guestVars>>

\* A step that fails ends the run and changes nothing.
Refuse(verdict) ==
  /\ status' = verdict
  /\ UNCHANGED <<guestVars, textBase, regions, mem, regs, v, monitor, tpidr, env, done,
                 touched, compared>>

\* A step that stores nothing and sets no flags.
Quiet(r) ==
  /\ UNCHANGED <<mem, v, monitor, tpidr, env, touched, compared>>
  /\ Retire(r)

\* History: the bytes one instruction stored, from the address `first' on.  A
\* byte below it lies past the top of the address space.
Marked(bytes, first, how) == {<<b, IF b < first THEN "wrapped" ELSE how>> : b \in bytes}

\* The stores of one instruction, in order, after its validation: a refusal
\* by the bus here aborts the emulator (access_or_panic).
Stores(pieces, how, mon, r) ==
  IF \E i \in DOMAIN pieces : ~Serves(pieces[i].addr, pieces[i].n, "w")
  THEN Refuse("panic")
  ELSE /\ mem' = StoreAll(mem, pieces)
       /\ touched' = touched \cup Marked(UNION {BytesOf(pieces[i]) : i \in DOMAIN pieces},
                                         pieces[1].addr, how)
       /\ monitor' = mon
       /\ UNCHANGED <<v, tpidr, env, compared>>
       /\ Retire(r)

-----------------------------------------------------------------------------
(* Data processing.                                                        *)
AddSub == {"ADD", "SUB", "ADDS", "SUBS"}
WithCarry == {"ADC", "ADCS", "SBC", "SBCS"}
Logical == {"AND", "ANDS", "ORR", "EOR", "BIC", "BICS", "ORN", "EON"}
Moves == {"MOVZ", "MOVN", "MOVK", "ADR"}
Bitfields == {"SBFM", "BFM", "UBFM"}
VarShifts == {"LSLV", "LSRV", "ASRV", "RORV"}
Crcs == {"CRC32", "CRC32C"}
Shufflers == {"RBIT", "CLZ", "CLS", "REV", "REV16", "REV32"}
Divisions == {"UDIV", "SDIV"}
Products == {"MADD", "MSUB"}
Widening == {"SMADDL", "SMSUBL", "UMADDL", "UMSUBL"}
HighWords == {"SMULH", "UMULH"}
Selects == {"CSEL", "CSINC", "CSINV", "CSNEG"}

Shifted(in) == ShiftOperand(ReadX(in.rm, in.bits), in.shift, in.amount, in.bits)

\* operand2
Operand2(in) ==
  CASE in.kind = "IMM"      -> in.uimm
    [] in.kind = "REG"      -> ReadX(in.rm, in.bits)
    [] in.kind = "SHIFTED"  -> Shifted(in).value
    [] in.kind = "EXTENDED" -> ExtendOperand(ReadX(in.rm, XBits), in.extend, in.amount)

Keep(value) == [value |-> value, nzcv |-> regs.nzcv]

AddSubResult(in) ==
  LET sub == in.op \in {"SUB", "SUBS"}
      m == Operand2(in)
      r == AddWithCarry(ReadG(in.rn, in.rnSp, in.bits), IF sub THEN Inv(m) ELSE m,
                        sub, in.bits)
  IN IF in.op \in {"ADDS", "SUBS"} THEN r ELSE Keep(r.value)

CarryResult(in) ==
  LET m == ReadX(in.rm, in.bits)
      r == AddWithCarry(ReadX(in.rn, in.bits),
                        IF in.op \in {"SBC", "SBCS"} THEN Inv(m) ELSE m,
                        "C" \in regs.nzcv, in.bits)
  IN IF in.op \in {"ADCS", "SBCS"} THEN r ELSE Keep(r.value)

LogicalResult(in) ==
  LET m == IF in.op \in {"BIC", "BICS", "ORN", "EON"} THEN Inv(Operand2(in)) ELSE Operand2(in)
      n == ReadX(in.rn, in.bits)
      result == CASE in.op \in {"AND", "ANDS", "BIC", "BICS"} -> And(n, m)
                  [] in.op \in {"ORR", "ORN"} -> Or(n, m)
                  [] OTHER -> Xor(n, m)
  IN IF in.op \in {"ANDS", "BICS"}
     THEN [value |-> result,
           nzcv |-> LogicalFlags(regs.nzcv, result, in, in.bits, Shifted(in))]
     ELSE Keep(result)

MoveResult(in) ==
  CASE in.op = "MOVZ" -> in.uimm
    [] in.op = "MOVN" -> Inv(in.uimm)
    [] in.op = "MOVK" -> LET mask == ShiftL(Ones(HalfBits), in.amount)
                         IN Or(And(ReadX(in.rd, in.bits), Inv(mask)), And(in.uimm, mask))
    [] in.op = "ADR"  -> in.imm

ShuffleResult(in) ==
  LET n == ReadX(in.rn, in.bits)
  IN CASE in.op = "RBIT"  -> RBit(n, in.bits)
       [] in.op = "CLZ"   -> Clz(n, in.bits)
       [] in.op = "CLS"   -> Cls(n, in.bits)
       [] in.op = "REV"   -> Rev(n, in.bits)
       [] in.op = "REV16" -> Rev16(n, in.bits)
       [] in.op = "REV32" -> Rev32(n)

WideningResult(in) ==
  LET signed == in.op \in {"SMADDL", "SMSUBL"}
  IN MulAdd(ReadX(in.ra, XBits), WideFactor(ReadX(in.rn, WBits), signed),
            WideFactor(ReadX(in.rm, WBits), signed), in.op \in {"SMADDL", "UMADDL"})

\* do_csel
SelectResult(in) ==
  LET b == ReadX(in.rm, in.bits)
  IN IF CondHolds(regs.nzcv, in.cond) THEN ReadX(in.rn, in.bits)
     ELSE CASE in.op = "CSINC" -> Truncate(b + 1, XBits)
            [] in.op = "CSINV" -> Inv(b)
            [] in.op = "CSNEG" -> Truncate(-b, XBits)
            [] in.op = "CSEL"  -> b

ShiftType == [LSLV |-> "LSL", LSRV |-> "LSR", ASRV |-> "ASR", RORV |-> "ROR"]

\* The cases that write Rd, with the width each writes at.
DataResult(in) ==
  LET n == ReadX(in.rn, in.bits)
      m == ReadX(in.rm, in.bits)
  IN CASE in.op \in AddSub    -> AddSubResult(in)
       [] in.op \in WithCarry -> CarryResult(in)
       [] in.op \in Logical   -> LogicalResult(in)
       [] in.op \in Moves     -> Keep(MoveResult(in))
       [] in.op \in Bitfields -> Keep(Bitfield(in.op, n, ReadX(in.rd, in.bits), in.amount,
                                               in.msb, in.bits))
       [] in.op = "EXTR"      -> Keep(Extract(n, m, in.amount, in.bits))
       [] in.op \in VarShifts -> Keep(VarShift(ShiftType[in.op], n, m, in.bits))
       [] in.op \in Crcs      -> Keep(Crc32(ReadX(in.rn, WBits), ReadX(in.rm, XBits), in.uimm,
                                            Poly(in.op = "CRC32C")))
       [] in.op \in Shufflers -> Keep(ShuffleResult(in))
       [] in.op \in Divisions -> Keep(Divide(in.op = "SDIV", n, m, in.bits))
       [] in.op \in Products  -> Keep(MulAdd(ReadX(in.ra, in.bits), n, m, in.op = "MADD"))
       [] in.op \in Widening  -> Keep(WideningResult(in))
       [] in.op = "SMULH"     -> Keep(SMulH(ReadX(in.rn, XBits), ReadX(in.rm, XBits)))
       [] in.op = "UMULH"     -> Keep(UMulH(ReadX(in.rn, XBits), ReadX(in.rm, XBits)))
       [] in.op \in Selects   -> Keep(SelectResult(in))

DataOps == AddSub \cup WithCarry \cup Logical \cup Moves \cup Bitfields \cup {"EXTR"}
             \cup VarShifts \cup Crcs \cup Shufflers \cup Divisions \cup Products
             \cup Widening \cup HighWords \cup Selects

WidthOf(in) == CASE in.op \in Widening \cup HighWords -> XBits
                 [] in.op \in Crcs -> WBits
                 [] OTHER -> in.bits

DataProcessing(in) ==
  LET r == DataResult(in)
  IN /\ in.op \in DataOps
     /\ UNCHANGED <<mem, v, monitor, tpidr, env, touched>>
     /\ compared' = CASE in.op = "SUBS" -> [n |-> ReadG(in.rn, in.rnSp, in.bits),
                                            m |-> Truncate(Operand2(in), in.bits),
                                            bits |-> in.bits]
                      [] in.op # "SUBS" /\ r.nzcv # regs.nzcv -> [bits |-> 0]
                      [] OTHER -> compared
     /\ Retire(Advance(WriteG([regs EXCEPT !.nzcv = r.nzcv], in.rd, in.rdSp, WidthOf(in),
                              r.value)))

\* do_ccmp
ConditionalCompare(in) ==
  LET n == ReadX(in.rn, in.bits)
      m == IF in.kind = "IMM" THEN in.imm ELSE ReadX(in.rm, in.bits)
      r == IF in.op = "CCMP" THEN AddWithCarry(n, Inv(m), TRUE, in.bits)
           ELSE AddWithCarry(n, m, FALSE, in.bits)
      held == CondHolds(regs.nzcv, in.cond)
  IN /\ in.op \in {"CCMP", "CCMN"}
     /\ compared' = IF held /\ in.op = "CCMP" THEN [n |-> n, m |-> m, bits |-> in.bits]
                    ELSE [bits |-> 0]
     /\ UNCHANGED <<mem, v, monitor, tpidr, env, touched>>
     /\ Retire(Advance([regs EXCEPT !.nzcv =
          IF held THEN r.nzcv ELSE FlagsOf(in.uimm * Pow2[WBits - 4])]))

\* The branches: the link register is written before the PC moves.
Branches == {"B", "BL", "B_COND", "BR", "BLR", "RET", "CBZ", "CBNZ", "TBZ", "TBNZ"}
Taken(in) ==
  CASE in.op = "B_COND" -> CondHolds(regs.nzcv, in.cond)
    [] in.op \in {"CBZ", "CBNZ"} -> (ReadX(in.rd, in.bits) = 0) = (in.op = "CBZ")
    [] in.op \in {"TBZ", "TBNZ"} -> (Bit(ReadX(in.rd, in.bits), in.msb) = 1) = (in.op = "TBNZ")
    [] OTHER -> TRUE
Target(in) == IF in.op \in {"BR", "BLR", "RET"} THEN ReadX(in.rn, XBits) ELSE in.imm

Branch(in) ==
  /\ in.op \in Branches
  /\ Quiet(IF ~Taken(in) THEN Advance(regs)
           ELSE [(IF in.op \in {"BL", "BLR"} THEN WriteX(regs, 30, XBits, Plus(regs.pc, 4))
                  ELSE regs) EXCEPT !.pc = Target(in)])

-----------------------------------------------------------------------------
(* Loads and stores.  Every one validates all it will touch first.         *)

\* resolve_mem_addr: a real extension marks the register-offset form.
Resolve(in) ==
  LET base == ReadSp(in.rn, XBits)
      offset == IF in.extend # "UXTB" \/ in.lsl
                THEN ExtendOperand(ReadX(in.rm, XBits), in.extend, in.amount)
                ELSE Truncate(in.imm, XBits)
  IN [addr |-> IF in.index = "POST" THEN base ELSE Plus(base, offset),
      writeback |-> Plus(base, offset)]

Writeback(r, in) ==
  IF in.index = "NONE" THEN r ELSE WriteSp(r, in.rn, XBits, Resolve(in).writeback)

\* do_single_mem; LDR (literal) has its address in imm and never writes back.
SingleMem(in) ==
  LET addr == IF in.kind = "IMM" THEN in.imm ELSE Resolve(in).addr
      store == in.op \in {"STR", "STLR"}
      wb(r) == Advance(IF in.kind = "IMM" THEN r ELSE Writeback(r, in))
  IN /\ in.op \in {"LDR", "LDRS", "LDAR", "STR", "STLR"} /\ ~in.vec
     /\ IF ~Serves(addr, in.size, IF store THEN "w" ELSE "r") THEN Refuse("FAULT")
        ELSE IF store
        THEN Stores(<<Piece(addr, in.size, ReadX(in.rd, in.bits))>>, "scalar",
                    NoteStore(addr, in.size), wb(regs))
        ELSE Quiet(wb(WriteX(regs, in.rd, in.bits, LoadExt(mem, addr, in.size, in.signed))))

\* Mutant: only the first half of a pair is validated.
PairValidFirst(in, addr, perm) == Serves(addr, in.size, perm)

PairValid(in, addr, perm) ==
  Serves(addr, in.size, perm) /\ Serves(Plus(addr, in.size), in.size, perm)

\* do_pair
Pair(in) ==
  LET addr == Resolve(in).addr
      addr2 == Plus(addr, in.size)
      wb(r) == Advance(Writeback(r, in))
  IN /\ in.op \in {"LDP", "STP", "LDPSW"} /\ ~in.vec
     /\ IF ~PairValid(in, addr, IF in.op = "STP" THEN "w" ELSE "r") THEN Refuse("FAULT")
        ELSE IF in.op = "STP"
        THEN Stores(<<Piece(addr, in.size, ReadX(in.rd, in.bits)),
                      Piece(addr2, in.size, ReadX(in.rt2, in.bits))>>, "pair",
                    NoteStore(addr, 2 * in.size), wb(regs))
        ELSE IF ~Serves(addr2, in.size, "r") THEN Refuse("panic")
        ELSE Quiet(wb(WriteX(WriteX(regs, in.rd, in.bits,
                                    LoadExt(mem, addr, in.size, in.signed)),
                             in.rt2, in.bits, LoadExt(mem, addr2, in.size, in.signed))))

\* The eight-byte pieces of a vector register of `size' bytes at addr.
Pieces(addr, size, value) ==
  IF size = 16 THEN <<Piece(addr, 8, value[1]), Piece(Plus(addr, 8), 8, value[2])>>
  ELSE <<Piece(addr, size, value[1])>>
Gather(pieces) ==
  <<Load(mem, pieces[1].addr, pieces[1].n),
    IF Len(pieces) = 2 THEN Load(mem, pieces[2].addr, 8) ELSE 0>>

\* do_single_vector, which does not call note_store, and do_pair_vector.
\* A load clears what it does not fill.
VectorTransfer(in, rs, how, mon) ==
  LET pieces(r) == Pieces(Plus(Resolve(in).addr, (r - 1) * in.size), in.size, v[rs[r]])
      all == IF Len(rs) = 1 THEN pieces(1) ELSE pieces(1) \o pieces(2)
      store == in.op \in {"STR", "STP"}
      last(n) == CHOOSE r \in DOMAIN rs :
                   rs[r] = n /\ \A s \in DOMAIN rs : rs[s] = n => s <= r
  IN IF \E i \in DOMAIN all : ~Serves(all[i].addr, all[i].n, IF store THEN "w" ELSE "r")
     THEN Refuse("FAULT")
     ELSE IF store THEN Stores(all, how, mon, Advance(Writeback(regs, in)))
     ELSE /\ v' = [n \in VRs |-> IF \E r \in DOMAIN rs : rs[r] = n
                                 THEN Gather(pieces(last(n))) ELSE v[n]]
          /\ UNCHANGED <<mem, monitor, tpidr, env, touched, compared>>
          /\ Retire(Advance(Writeback(regs, in)))

\* Always sixteen bytes, whatever size was decoded.
SingleVector(in) ==
  /\ in.op \in {"LDR", "STR"} /\ in.vec
  /\ VectorTransfer([in EXCEPT !.size = 16], <<in.rd>>, "vector", monitor)

PairVector(in) ==
  /\ in.op \in {"LDP", "STP"} /\ in.vec
  /\ VectorTransfer(in, <<in.rd, in.rt2>>, "vecpair",
                    NoteStore(Resolve(in).addr, 2 * in.size))

\* do_exclusive: a store succeeds on a live reservation of exactly its range,
\* and ends any reservation.
Exclusive(in) ==
  LET addr == ReadSp(in.rn, XBits)
      success == monitor.valid /\ monitor.addr = addr /\ monitor.size = in.size
      result == Advance(WriteX(regs, in.rm, WBits, IF success THEN 0 ELSE 1))
      cleared == [monitor EXCEPT !.valid = FALSE]
  IN /\ in.op \in {"LDXR", "STXR"}
     /\ IF ~Serves(addr, in.size, IF in.op = "LDXR" THEN "r" ELSE "w") THEN Refuse("FAULT")
        ELSE IF in.op = "LDXR"
        THEN /\ monitor' = [valid |-> TRUE, addr |-> addr, size |-> in.size]
             /\ touched' = {}
             /\ UNCHANGED <<mem, v, tpidr, env, compared>>
             /\ Retire(Advance(WriteX(regs, in.rd, in.bits, Load(mem, addr, in.size))))
        ELSE IF success
        THEN Stores(<<Piece(addr, in.size, ReadX(in.rd, in.bits))>>, "exclusive", cleared,
                    result)
        ELSE /\ monitor' = cleared
             /\ UNCHANGED <<mem, v, tpidr, env, touched, compared>>
             /\ Retire(result)

-----------------------------------------------------------------------------
(* System calls, sysenv.c: the number in x8, the arguments from x0 on.     *)
SYS_WRITE == 64
SYS_EXIT == 93
SYS_EXIT_GROUP == 94
SYS_CLOCK_GETTIME == 113

EBADF == 9
EFAULT == 14
EINVAL == 22
ENOSYS == 38

Returns(value) == Advance(WriteX(regs, 0, XBits, Truncate(value, XBits)))

SysExit ==
  /\ regs.x[8] \in {SYS_EXIT, SYS_EXIT_GROUP}
  /\ env' = [env EXCEPT !.exited = TRUE, !.exit_code = Truncate(regs.x[0], WBits)]
  /\ UNCHANGED <<mem, v, monitor, tpidr, touched, compared>>
  /\ Retire(Returns(0))

\* The refusals of sys_write, before it touches the stream.
WriteRefused(fd, buf, count) ==
  IF fd \notin {1, 2} THEN EBADF
  ELSE IF count = 0 THEN 0
  ELSE IF count > Top - buf \/ ~Serves(buf, count, "r") THEN EFAULT
  ELSE 0

\* sys_write: the host's stream may take fewer bytes, and then that is the
\* result; the loop over the bounce buffer stops there.
SysWrite ==
  LET buf == regs.x[1]
      count == regs.x[2]
      refused == WriteRefused(regs.x[0], buf, count)
  IN /\ regs.x[8] = SYS_WRITE
     /\ \E written \in 0 .. (IF refused # 0 THEN 0 ELSE count) :
          /\ env' = [env EXCEPT !.out = @ \o [i \in 1 .. written |->
                                                IF Plus(buf, i - 1) \in DOMAIN mem
                                                THEN mem[Plus(buf, i - 1)] ELSE -1]]
          /\ UNCHANGED <<mem, v, monitor, tpidr, touched, compared>>
          /\ Retire(Returns(IF refused # 0 THEN -refused ELSE written))

\* Mutant: only the seconds are validated.
ClockValidFirst(ts) == Serves(ts, 8, "w")

ClockValid(ts) == Serves(ts, 8, "w") /\ Serves(Plus(ts, 8), 8, "w")

\* sys_clock_gettime: a store into guest memory that the monitor never hears
\* of; here the second write is checked, not assumed.
SysClock ==
  LET ts == regs.x[1]
  IN /\ regs.x[8] = SYS_CLOCK_GETTIME
     /\ \E sec, nsec \in TimeValues, answered \in BOOLEAN :
          IF regs.x[0] \notin {0, 1} THEN Quiet(Returns(-EINVAL))
          ELSE IF ~answered \/ ~ClockValid(ts) THEN Quiet(Returns(-EFAULT))
          ELSE /\ mem' = Store(IF Serves(Plus(ts, 8), 8, "w")
                               THEN Store(mem, Piece(Plus(ts, 8), 8, nsec)) ELSE mem,
                               Piece(ts, 8, sec))
               /\ touched' = touched \cup
                    ((BytesOf(Piece(ts, 8, 0)) \cup BytesOf(Piece(Plus(ts, 8), 8, 0)))
                       \X {"kernel"})
               /\ UNCHANGED <<v, monitor, tpidr, env, compared>>
               /\ Retire(Returns(IF Serves(Plus(ts, 8), 8, "w") THEN 0 ELSE -EFAULT))

SysOther ==
  /\ regs.x[8] \notin {SYS_EXIT, SYS_EXIT_GROUP, SYS_WRITE, SYS_CLOCK_GETTIME}
  /\ Quiet(Returns(-ENOSYS))

\* do_svc
Svc(in) == in.op = "SVC" /\ (SysExit \/ SysWrite \/ SysClock \/ SysOther)

-----------------------------------------------------------------------------
(* do_mrs and do_msr without a system-register table.                      *)
Mrs(in) ==
  /\ in.op = "MRS"
  /\ IF in.sysreg = "OTHER" THEN Refuse("UNSUPPORTED")
     ELSE Quiet(Advance(WriteX(regs, in.rd, XBits,
            CASE in.sysreg = "SP_EL0"  -> regs.sp
              [] in.sysreg = "NZCV"    -> FlagsWord(regs.nzcv)
              [] in.sysreg = "TPIDRUR" -> tpidr
              [] OTHER                 -> 0)))

Msr(in) ==
  LET value == ReadX(in.rd, XBits)
  IN /\ in.op \in {"MSR", "MSR_IMM"}
     /\ IF in.sysreg \notin {"SP_EL0", "NZCV", "TPIDRUR"} THEN Refuse("UNSUPPORTED")
        ELSE /\ tpidr' = IF in.sysreg = "TPIDRUR" THEN value ELSE tpidr
             /\ compared' = IF in.sysreg = "NZCV" THEN [bits |-> 0] ELSE compared
             /\ UNCHANGED <<mem, v, monitor, env, touched>>
             /\ Retire(Advance(CASE in.sysreg = "SP_EL0" -> [regs EXCEPT !.sp = value]
                                 [] in.sysreg = "NZCV" -> [regs EXCEPT !.nzcv = FlagsOf(value)]
                                 [] OTHER -> regs))

\* DUP (general)
VecDup(in) ==
  /\ in.op = "VEC_DUP"
  /\ v' = [v EXCEPT ![in.rd] = <<ReadX(in.rm, XBits), 0>>]
  /\ UNCHANGED <<mem, monitor, tpidr, env, touched, compared>>
  /\ Retire(Advance(regs))

Nop(in) ==
  /\ in.op \in {"NOP", "HINT", "WFI", "WFE", "BARRIER"}
  /\ Quiet(Advance(regs))

Trap(in) ==
  \/ in.op \in {"HVC", "SMC", "ERET", "SYS"} /\ Refuse("UNSUPPORTED")
  \/ in.op \in {"BRK", "HLT"} /\ Refuse("FAULT")

-----------------------------------------------------------------------------
\* What the decoder makes of a word it accepts: the fields of oemu_insn, and
\* how the encodings tie them to the opcode and the width.
Operands == GPRs \cup {ZR}
Decoded(in) ==
  /\ in \in [op : STRING, bits : {WBits, XBits}, rd : Operands, rn : Operands,
             rm : Operands, ra : Operands, rt2 : Operands, rdSp : BOOLEAN, rnSp : BOOLEAN,
             kind : {"IMM", "REG", "SHIFTED", "EXTENDED"}, imm : Int, uimm : Word,
             cond : 0 .. 15, shift : {"LSL", "LSR", "ASR", "ROR"}, extend : STRING,
             lsl : BOOLEAN, amount : 0 .. XBits - 1, msb : 0 .. XBits - 1,
             size : {1, 2, 4, 8, 16}, signed : BOOLEAN, index : {"NONE", "PRE", "POST"},
             vec : BOOLEAN, sysreg : STRING]
  /\ in.kind = "SHIFTED" \/ in.op \in Bitfields \cup {"EXTR"} =>
       in.amount < in.bits /\ in.msb < in.bits
  /\ in.op \in Crcs => in.uimm \in {1, 2, 4, 8}
  /\ in.op \in {"CCMP", "CCMN"} =>
       in.uimm \in 0 .. 15 /\ (in.kind = "IMM" => in.imm \in 0 .. Ones(in.bits))
  /\ in.op \in Branches \/ in.kind = "IMM" => in.imm \in Address
  /\ in.vec => in.op \in {"LDR", "STR", "LDP", "STP"}
  /\ in.vec \/ in.op = "VEC_DUP" => in.rd \in VRs /\ in.rt2 \in VRs \cup {ZR}
  /\ in.vec /\ in.op \in {"LDP", "STP"} => in.rt2 \in VRs
  /\ ~in.vec => in.size <= 8

\* oemu_exec_step_bus: fetch, decode, dispatch.
Text == Code(prog)
Here == (regs.pc - textBase) \div 4 + 1
Fetches == regs.pc % 4 = 0 /\ MemFind(regions, regs.pc, 4, {"x"}) # 0
AtInsn == status = "running" /\ Fetches /\ Here \in DOMAIN Text

FetchFault == ~Fetches /\ Refuse("FAULT")
DecodeError == Fetches /\ Here \notin DOMAIN Text /\ Refuse("DECODE")

Dispatch(in) ==
  \/ DataProcessing(in)
  \/ ConditionalCompare(in)
  \/ Branch(in)
  \/ SingleMem(in)
  \/ Pair(in)
  \/ SingleVector(in)
  \/ PairVector(in)
  \/ Exclusive(in)
  \/ Svc(in)
  \/ Mrs(in)
  \/ Msr(in)
  \/ VecDup(in)
  \/ Nop(in)
  \/ Trap(in)

ExecStep ==
  /\ status = "running"
  /\ \/ FetchFault
     \/ DecodeError
     \/ AtInsn /\ Dispatch(Text[Here])

-----------------------------------------------------------------------------
\* Before the guest runs: nothing is mapped and the core is zeroed.
ExecIdle ==
  /\ prog = <<>>
  /\ budget = 0
  /\ textBase = 0
  /\ regions = <<>>
  /\ mem = <<>>
  /\ regs = [x |-> [n \in GPRs |-> 0], sp |-> 0, pc |-> 0, nzcv |-> {}]
  /\ v = [n \in VRs |-> <<0, 0>>]
  /\ monitor = [valid |-> FALSE, addr |-> 0, size |-> 0]
  /\ tpidr = 0
  /\ env = [exited |-> FALSE, exit_code |-> 0, out |-> <<>>]
  /\ status = "idle"
  /\ done = 0
  /\ touched = {}
  /\ compared = [bits |-> 0]

\* oemu_cpu_init and the entry of oemu_exec_run_bus.
StartExec(entry, sp) ==
  /\ regs' = [regs EXCEPT !.pc = entry, !.sp = sp]
  /\ status' = IF budget = 0 THEN "TIMEOUT" ELSE "running"
  /\ UNCHANGED <<guestVars, mem, v, monitor, tpidr, env, done, touched, compared>>

-----------------------------------------------------------------------------
(* Properties.                                                             *)

(* access_or_panic and OEMU_REQUIRE end the emulator on an access that     *)
(* validation let through: no guest reaches that, so whatever a store      *)
(* instruction touches was validated, a pair across two regions included.  *)
NoPanic == status # "panic"

(* A live reservation means that no store since the LDXR hit its bytes, so *)
(* a STXR that succeeds replaces what LDXR read.  The scalar, pair, vector *)
(* pair and exclusive stores keep this, with every overlap and up to the   *)
(* top of memory.  Vector STR, the kernel's own writes and what a pair     *)
(* stores past the top do not: they are exempt here, and AnyStoreClears    *)
(* and TopPairClears are about them.                                       *)
ExclusiveSafe ==
  monitor.valid =>
    \A t \in touched : t[1] \in Bytes(monitor.addr, monitor.size)
                         => t[2] \in {"vector", "kernel", "wrapped"}

(* "Any store overlapping the reserved range clears it": exec.h says this  *)
(* of the monitor, without an exemption.                                   *)
AnyStoreClears ==
  monitor.valid => \A t \in touched : t[1] \notin Bytes(monitor.addr, monitor.size)

(* The same of the one store that note_store sees only half of: a pair at  *)
(* the very top of memory, whose second half is at its bottom.             *)
TopPairClears ==
  monitor.valid =>
    \A t \in touched : t[2] = "wrapped" => t[1] \notin Bytes(monitor.addr, monitor.size)

-----------------------------------------------------------------------------
(* What the arithmetic instructions should leave, in unbounded integers.   *)
FloorDiv(a, n) == (a - (a % n)) \div n
Wrap(a, bits) == a % 2 ^ bits

\* The flags of the exact sum a + b + c, of unsigned and of signed operands.
SumFlags(us, ss, bits) ==
  (IF Wrap(us, bits) = 0 THEN {"Z"} ELSE {})
    \cup (IF Wrap(us, bits) >= 2 ^ (bits - 1) THEN {"N"} ELSE {})
    \cup (IF us >= 2 ^ bits THEN {"C"} ELSE {})
    \cup (IF ss >= 2 ^ (bits - 1) \/ ss < -(2 ^ (bits - 1)) THEN {"V"} ELSE {})

PlainOperand(in) == in.kind \in {"IMM", "REG"}

SumMatches(in, n, m, value, flags) ==
  LET bits == in.bits
      sub == in.op \in {"SUB", "SUBS", "SBC", "SBCS"}
      c == IF in.op \in WithCarry THEN (IF "C" \in regs.nzcv THEN 1 ELSE 0)
           ELSE IF sub THEN 1 ELSE 0
      us == n + (IF sub THEN 2 ^ bits - 1 - m ELSE m) + c
      ss == Signed(n, bits) + (IF sub THEN -Signed(m, bits) - 1 ELSE Signed(m, bits)) + c
  IN /\ value = Wrap(us, bits)
     /\ in.op \in {"ADDS", "SUBS", "ADCS", "SBCS"} => flags = SumFlags(us, ss, bits)

FieldMatches(in, n, old, value) ==
  LET bits == in.bits
      wrapped == in.msb < in.amount
      low == IF wrapped THEN bits - in.amount ELSE 0
      len == IF wrapped THEN in.msb + 1 ELSE in.msb - in.amount + 1
      field == IF wrapped THEN n % 2 ^ len ELSE (n \div 2 ^ in.amount) % 2 ^ len
      top == (field \div 2 ^ (len - 1)) % 2 = 1
  IN CASE in.op = "UBFM" -> value = field * 2 ^ low
       [] in.op = "SBFM" -> value = Wrap((IF top THEN field - 2 ^ len ELSE field) * 2 ^ low, bits)
       [] in.op = "BFM"  -> /\ (value \div 2 ^ low) % 2 ^ len = field
                            /\ value % 2 ^ low = old % 2 ^ low
                            /\ value \div 2 ^ (low + len) = old \div 2 ^ (low + len)

DivisionMatches(in, n, m, value) ==
  LET s(a) == IF in.op = "SDIV" THEN Signed(a, in.bits) ELSE a
      q == s(value)
      rest == s(n) - q * s(m)
      abs(a) == IF a < 0 THEN -a ELSE a
  IN IF m = 0 THEN value = 0
     ELSE \/ in.op = "SDIV" /\ s(n) = -(2 ^ (in.bits - 1)) /\ s(m) = -1 /\ value = n
          \/ abs(rest) < abs(s(m)) /\ (rest # 0 => (rest < 0) = (s(n) < 0))

ShiftMatches(in, n, m, value) ==
  LET a == m % in.bits
  IN value = Wrap(CASE in.op = "LSLV" -> n * 2 ^ a
                    [] in.op = "LSRV" -> n \div 2 ^ a
                    [] in.op = "ASRV" -> FloorDiv(Signed(n, in.bits), 2 ^ a)
                    [] in.op = "RORV" -> (n * (2 ^ in.bits + 1)) \div 2 ^ a, in.bits)

\* A CRC over the data taken half a register at a time.
CrcMatches(in, seed, m, value) ==
  LET poly == Poly(in.op = "CRC32C")
      part(crc, d, n) == CrcShift(Xor(crc, d), poly, n * ByteBits)
  IN value = IF in.uimm <= 4 THEN part(seed, m % 2 ^ (in.uimm * ByteBits), in.uimm)
             ELSE part(part(seed, m % 2 ^ WBits, 4), m \div 2 ^ WBits, 4)

ResultMatches(in, value, flags) ==
  LET n == ReadG(in.rn, in.rnSp, in.bits)
      m == IF in.kind = "IMM" THEN Truncate(in.uimm, in.bits) ELSE ReadX(in.rm, in.bits)
      x == ReadX(in.rn, XBits)
      y == ReadX(in.rm, XBits)
  IN /\ in.op \in AddSub /\ PlainOperand(in) => SumMatches(in, n, m, value, flags)
     /\ in.op \in WithCarry => SumMatches(in, n, m, value, flags)
     /\ in.op \in Bitfields => FieldMatches(in, n, ReadX(in.rd, in.bits), value)
     /\ in.op \in Divisions => DivisionMatches(in, n, m, value)
     /\ in.op \in VarShifts => ShiftMatches(in, n, m, value)
     /\ in.op \in Crcs => CrcMatches(in, ReadX(in.rn, WBits), y, value)
     /\ in.op = "EXTR" => value = ((n * 2 ^ in.bits + m) \div 2 ^ in.amount) % 2 ^ in.bits
     /\ in.op = "UMULH" => value = (x * y) \div 2 ^ XBits
     /\ in.op = "SMULH" =>
          value = Wrap(FloorDiv(Signed(x, XBits) * Signed(y, XBits), 2 ^ XBits), XBits)
     /\ in.op = "CLZ" => /\ n < 2 ^ (in.bits - value)
                          /\ value < in.bits => n >= 2 ^ (in.bits - value - 1)

(* Every completed arithmetic instruction leaves the value, and where it   *)
(* sets them the flags, that exact integer arithmetic gives: the carry of  *)
(* a sum whose carry-in makes it wrap, the high word put together from     *)
(* half-width products, the one quotient that does not fit, a bit field    *)
(* that wraps, a CRC fed a byte at a time.                                 *)
Completes == status = "running" /\ done' = done + 1
ResultsMatch ==
  [][Completes /\ Text[Here].op \in DataOps /\ Text[Here].rd \in GPRs /\ ~Text[Here].rdSp =>
       ResultMatches(Text[Here], regs'.x[Text[Here].rd], regs'.nzcv)]_<<regs, status, done>>

\* What a condition says of the two operands of the last comparison.
Relation(cond, c) ==
  LET n == Signed(c.n, c.bits)
      m == Signed(c.m, c.bits)
  IN CASE cond = 0 -> c.n = c.m   [] cond = 1 -> c.n # c.m
       [] cond = 2 -> c.n >= c.m  [] cond = 3 -> c.n < c.m
       [] cond = 8 -> c.n > c.m   [] cond = 9 -> c.n <= c.m
       [] cond = 10 -> n >= m     [] cond = 11 -> n < m
       [] cond = 12 -> n > m      [] cond = 13 -> n <= m
       [] cond \in {14, 15} -> TRUE
Comparing == {0, 1, 2, 3, 8, 9, 10, 11, 12, 13, 14, 15}

(* A conditional branch after SUBS or CCMP is taken exactly when the       *)
(* relation it is named for holds of the operands compared, through the    *)
(* flags both instructions put between them and whatever ran in between.   *)
ComparesDecide ==
  [][Completes /\ Text[Here].op = "B_COND" /\ compared.bits # 0
       /\ Text[Here].cond \in Comparing /\ Text[Here].imm # Plus(regs.pc, 4) =>
       (regs'.pc = Text[Here].imm) = Relation(Text[Here].cond, compared)]_<<regs, status, done>>

(* A system call that reports an error has changed neither the guest's     *)
(* memory nor the output (a write of half the address space aside: its     *)
(* count reads as an error); a write's result counts the bytes that went   *)
(* out, and they are the guest's own; a successful clock_gettime has       *)
(* stored both fields.                                                     *)
SyscallsAtomic ==
  [][Completes /\ Text[Here].op = "SVC" =>
       LET result == Signed(regs'.x[0], XBits)
           sent == Len(env'.out) - Len(env.out)
       IN /\ result < 0 => mem' = mem /\ (env' # env => sent >= Pow2[XBits - 1])
          /\ result >= 0 /\ regs.x[8] = SYS_WRITE =>
               /\ sent = result
               /\ \A i \in 1 .. sent :
                    /\ regs.x[1] + i - 1 \in DOMAIN mem
                    /\ env'.out[Len(env.out) + i] = mem[regs.x[1] + i - 1]
          /\ result >= 0 /\ regs.x[8] = SYS_CLOCK_GETTIME =>
               /\ Load(mem', regs.x[1], 8) \in TimeValues
               /\ Load(mem', Plus(regs.x[1], 8), 8) \in TimeValues]_<<regs, status, done>>
=============================================================================
