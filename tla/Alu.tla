-------------------------------- MODULE Alu --------------------------------
(***************************************************************************)
(* The integer operations of the executor: oemu_regs_internal_* of         *)
(* src/src/regs/regs.c and the oemu_exec_internal_* helpers and dispatch   *)
(* cases of src/src/exec/exec.c, each a function of its operands.          *)
(*                                                                         *)
(* The widths are parameters, 64-bit registers with 8-bit bytes in the     *)
(* program, and every formula is the code's own: what a shift drops, a sum *)
(* loses or a complement fills happens at the modelled width as well.      *)
(***************************************************************************)
EXTENDS Integers, Sequences, SequencesExt, FiniteSets

CONSTANTS XBits,      \* a register, OEMU_REG_W64
          ByteBits    \* a byte

ASSUME WidthAssumption ==
  /\ XBits \in Nat /\ ByteBits \in Nat \ {0}
  /\ XBits = 8 * ByteBits

WBits == XBits \div 2
HalfBits == 2 * ByteBits

\* The powers of two up to a register's width, and the sum of the first n
\* values of a function on 0 .. n - 1.
Pow2[n \in 0 .. XBits] == IF n = 0 THEN 1 ELSE 2 * Pow2[n - 1]
SumTo(f, n) ==
  LET s[i \in 0 .. n] == IF i = 0 THEN 0 ELSE s[i - 1] + f[i - 1]
  IN s[n]

Word == 0 .. Pow2[XBits] - 1
Byte == 0 .. Pow2[ByteBits] - 1
Flags == {"N", "Z", "C", "V"}

Ones(bits) == Pow2[bits] - 1
Truncate(value, bits) == value % Pow2[bits]
ShiftL(value, n) == Truncate(value * Pow2[n], XBits)
ShiftR(value, n) == value \div Pow2[n]
Inv(value) == Ones(XBits) - value
TopBit(value, bits) == (value \div Pow2[bits - 1]) % 2 = 1
Bit(value, i) == (value \div Pow2[i]) % 2

\* The value a register's content has as a two's complement number.
Signed(value, bits) == IF TopBit(value, bits) THEN value - Pow2[bits] ELSE value

\* (uint64_t)(int64_t)(intN_t): the low bits, sign-extended to a register.
SignExtend(value, bits) == Truncate(Signed(Truncate(value, bits), bits), XBits)

\* The number with bits f[0], f[1], ...
SumBits(f, bits) == SumTo([i \in 0 .. bits - 1 |-> f[i] * Pow2[i]], bits)

\* C's &, | and ^ of two registers: the common bits are those a sum counts
\* twice.
And(a, b) == SumBits([i \in 0 .. XBits - 1 |-> Bit(a, i) * Bit(b, i)], XBits)
Or(a, b) == a + b - And(a, b)
Xor(a, b) == a + b - 2 * And(a, b)

-----------------------------------------------------------------------------
(* regs.c: the flags are the set of those that are up.                     *)

\* oemu_exec_internal_nz
Nz(result, bits) ==
  (IF Truncate(result, bits) = 0 THEN {"Z"} ELSE {})
    \cup (IF TopBit(result, bits) THEN {"N"} ELSE {})

\* Mutant: at register width the carry-in is not looked at again.
AddWithCarryNoRipple(x, y, carry, bits) ==
  LET xa == Truncate(x, bits)
      ya == Truncate(y, bits)
      c == IF carry THEN 1 ELSE 0
      sum == Truncate(xa + ya + c, bits)
      carryOut == IF bits = WBits THEN xa + ya + c > Ones(WBits)
                  ELSE Truncate(xa + ya, XBits) < xa
  IN [value |-> sum,
      nzcv |-> Nz(sum, bits) \cup (IF carryOut THEN {"C"} ELSE {})
                 \cup (IF /\ TopBit(xa, bits) = TopBit(ya, bits)
                          /\ TopBit(sum, bits) # TopBit(xa, bits) THEN {"V"} ELSE {})]

\* oemu_regs_internal_add_with_carry: the W form reads the carry off the
\* wider sum, the X form has to detect each wrap.
AddWithCarry(x, y, carry, bits) ==
  LET xa == Truncate(x, bits)
      ya == Truncate(y, bits)
      c == IF carry THEN 1 ELSE 0
      sum == Truncate(xa + ya + c, bits)
      partial == Truncate(xa + ya, XBits)
      carryOut == IF bits = WBits THEN ShiftR(xa + ya + c, WBits) # 0
                  ELSE partial < xa \/ (carry /\ partial = Ones(XBits))
  IN [value |-> sum,
      nzcv |-> Nz(sum, bits) \cup (IF carryOut THEN {"C"} ELSE {})
                 \cup (IF /\ TopBit(xa, bits) = TopBit(ya, bits)
                          /\ TopBit(sum, bits) # TopBit(xa, bits) THEN {"V"} ELSE {})]

\* The base test that the top three bits of a condition select.
CondBase(f, pair) ==
  CASE pair = 0 -> "Z" \in f
    [] pair = 1 -> "C" \in f
    [] pair = 2 -> "N" \in f
    [] pair = 3 -> "V" \in f
    [] pair = 4 -> "C" \in f /\ "Z" \notin f
    [] pair = 5 -> ("N" \in f) = ("V" \in f)
    [] pair = 6 -> ("N" \in f) = ("V" \in f) /\ "Z" \notin f
    [] OTHER    -> TRUE

\* Mutant: NV is read as never.
CondHoldsNever(f, cond) == CondBase(f, cond \div 2) # (cond % 2 = 1)

\* oemu_regs_internal_cond_holds: the low bit inverts, except in NV.
CondHolds(f, cond) ==
  IF cond % 2 = 1 /\ cond # 15 THEN ~CondBase(f, cond \div 2)
  ELSE CondBase(f, cond \div 2)

-----------------------------------------------------------------------------
(* exec.c: operands.                                                       *)

\* oemu_exec_internal_shift_operand.  The amount 0 edges differ per type;
\* otherwise the carry is the last bit shifted out.
ShiftOperand(value, type, amount, bits) ==
  LET m == Truncate(value, bits)
      sign == TopBit(m, bits)
      fill == IF sign THEN Truncate(ShiftL(Ones(bits), bits - amount), bits) ELSE 0
      zero == CASE type = "LSL" -> m
                [] type = "LSR" -> 0
                [] OTHER        -> IF sign THEN Ones(bits) ELSE 0
      moved == CASE type = "LSL" -> Truncate(m * Pow2[amount], bits)
                 [] type = "LSR" -> ShiftR(m, amount)
                 [] type = "ASR" -> Or(ShiftR(m, amount), fill)
                 [] type = "ROR" -> Or(ShiftR(m, amount),
                                       Truncate(m * Pow2[bits - amount], bits))
      out == IF type = "LSL" THEN bits - amount ELSE amount - 1
  IN IF amount = 0
     THEN [value |-> zero, valid |-> type # "LSL", carry |-> sign]
     ELSE [value |-> moved, valid |-> TRUE, carry |-> Bit(m, out) = 1]

\* oemu_exec_internal_extend_operand
ExtendOperand(value, type, shift) ==
  ShiftL(CASE type = "UXTB" -> Truncate(value, ByteBits)
           [] type = "UXTH" -> Truncate(value, HalfBits)
           [] type = "UXTW" -> Truncate(value, WBits)
           [] type = "SXTB" -> SignExtend(value, ByteBits)
           [] type = "SXTH" -> SignExtend(value, HalfBits)
           [] type = "SXTW" -> SignExtend(value, WBits)
           [] OTHER         -> value, shift)

\* logical_flags: the shifter's carry, or the rule of the immediate, or the
\* old C; V is cleared.
LogicalFlags(old, result, in, bits, shifted) ==
  Nz(result, bits) \cup
    (CASE in.kind = "SHIFTED" ->
            IF shifted.valid THEN (IF shifted.carry THEN {"C"} ELSE {}) ELSE old \cap {"C"}
       [] in.kind = "IMM" -> IF in.uimm = Ones(bits) THEN {"C"} ELSE {}
       [] OTHER -> old \cap {"C"})

-----------------------------------------------------------------------------
(* exec.c: multiplication, division and the bit shufflers.                 *)

\* oemu_exec_internal_umulh: four products of halves, no wider type.
UMulH(a, b) ==
  LET lo(v) == Truncate(v, WBits)
      hi(v) == ShiftR(v, WBits)
      mid == hi(lo(a) * lo(b)) + lo(lo(a) * hi(b)) + lo(hi(a) * lo(b))
  IN Truncate(hi(a) * hi(b) + hi(lo(a) * hi(b)) + hi(hi(a) * lo(b)) + hi(mid), XBits)

\* oemu_exec_internal_smulh: minus one correction per negative operand.
SMulH(a, b) ==
  Truncate(UMulH(a, b) - (IF TopBit(a, XBits) THEN b ELSE 0)
                       - (IF TopBit(b, XBits) THEN a ELSE 0), XBits)

\* oemu_exec_internal_clz, through clz64_ref: the W form shifts up first.
Clz64(value) == Cardinality({b \in 0 .. XBits - 1 : value < Pow2[b]})
Clz(value, bits) ==
  IF bits = XBits THEN Clz64(value)
  ELSE IF Truncate(value, WBits) = 0 THEN WBits
  ELSE Clz64(ShiftL(Truncate(value, WBits), XBits - WBits))

\* oemu_exec_internal_cls: of an all-zero and an all-one value, 0.
Cls(value, bits) ==
  LET v == Truncate(value, bits)
      sign == IF TopBit(v, bits) THEN Ones(bits) ELSE 0
  IN IF v = 0 \/ v = Ones(bits) THEN 0 ELSE Clz(Xor(v, sign), bits) - 1

\* oemu_exec_internal_rbit, _rev, _rev16 and _rev32: where bit i of the result
\* comes from.
RBit(value, bits) == SumBits([i \in 0 .. bits - 1 |-> Bit(value, bits - 1 - i)], bits)
RevFrom(i, bits) == ByteBits * (bits \div ByteBits - 1 - i \div ByteBits) + (i % ByteBits)
Rev(value, bits) == SumBits([i \in 0 .. bits - 1 |-> Bit(value, RevFrom(i, bits))], bits)
Rev16From(i) == IF i % HalfBits < ByteBits THEN i + ByteBits ELSE i - ByteBits
Rev16(value, bits) == SumBits([i \in 0 .. bits - 1 |-> Bit(value, Rev16From(i))], bits)
Rev32(value) == Or(ShiftL(Truncate(value, WBits), WBits), ShiftR(value, WBits))

\* UDIV and SDIV: by zero it is zero, and the one quotient that does not fit
\* is the dividend.  C divides towards zero.
TowardsZero(n, d) ==
  LET q == (IF n < 0 THEN -n ELSE n) \div (IF d < 0 THEN -d ELSE d)
  IN IF (n < 0) = (d < 0) THEN q ELSE -q
Divide(signed, n, d, bits) ==
  IF d = 0 THEN 0
  ELSE IF ~signed THEN n \div d
  ELSE LET nn == Signed(n, bits)
           dd == Signed(d, bits)
       IN Truncate(IF nn = -(Pow2[bits - 1]) /\ dd = -1 THEN nn ELSE TowardsZero(nn, dd),
                   XBits)

\* MADD and MSUB at the operand width, and the widening family: the factors
\* are W registers and the addend is a whole one.
MulAdd(acc, n, m, add) ==
  Truncate(IF add THEN acc + n * m ELSE acc - n * m, XBits)
WideFactor(v, signed) == IF signed THEN Signed(v, WBits) ELSE v

\* oemu_exec_internal_crc32: a reflected LFSR, a byte at a time.
CrcBit(crc, poly) == IF crc % 2 = 1 THEN Xor(ShiftR(crc, 1), poly) ELSE ShiftR(crc, 1)
CrcShift(crc, poly, n) ==
  LET c[i \in 0 .. n] == IF i = 0 THEN crc ELSE CrcBit(c[i - 1], poly)
  IN c[n]
CrcByte(crc, data, i, poly) ==
  CrcShift(Xor(crc, Truncate(ShiftR(data, ByteBits * (i - 1)), ByteBits)), poly, ByteBits)
Crc32(seed, data, bytes, poly) ==
  LET c[i \in 0 .. bytes] == IF i = 0 THEN seed ELSE CrcByte(c[i - 1], data, i, poly)
  IN c[bytes]

FieldLength(lsb, msb, bits) ==
  IF msb < lsb THEN bits - lsb + msb + 1 ELSE msb - lsb + 1

\* do_bitfield: a wrapped range is a left shift, not a rotation; BFM merges
\* into the destination and SBFM extends the field's own top bit.
Bitfield(op, src, old, lsb, msb, bits) ==
  LET len == FieldLength(lsb, msb, bits)
      up == Truncate(src * Pow2[bits - lsb], bits)
      rot == IF msb < lsb THEN up ELSE IF lsb = 0 THEN src ELSE Or(ShiftR(src, lsb), up)
      mask == Ones(len)
      field == And(rot, mask)
      bottom == IF msb < lsb THEN bits - lsb ELSE 0
      dm == Ones(len - bottom) * Pow2[bottom]
  IN CASE op = "BFM" -> Or(And(old, Inv(dm)), And(field, dm))
       [] op = "SBFM" /\ Bit(field, len - 1) = 1 -> Or(field, And(Ones(bits), Inv(mask)))
       [] OTHER -> field

\* EXTR
Extract(hi, lo, amount, bits) ==
  IF amount = 0 THEN lo
  ELSE Or(ShiftR(lo, amount), IF amount = bits THEN hi ELSE ShiftL(hi, bits - amount))

\* LSLV, LSRV, ASRV and RORV: the amount is taken modulo the width, and an
\* amount of 0 is the identity here.
VarShift(type, src, raw, bits) ==
  LET amount == raw % bits
  IN IF amount = 0 THEN Truncate(src, bits)
     ELSE ShiftOperand(src, type, amount, bits).value
=============================================================================
