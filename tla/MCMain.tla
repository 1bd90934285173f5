------------------------------- MODULE MCMain -------------------------------
(***************************************************************************)
(* Instances of Main: an 8-bit machine (64-bit registers are 8 bits wide,  *)
(* a byte is one bit), 256 addresses, and the files and command lines that *)
(* reach every branch of the two commands.                                 *)
(***************************************************************************)
EXTENDS Main

MCPoly(castagnoli) == IF castagnoli THEN 9 ELSE 12
MCFileByte(o) == (o \div 2) % 2

-----------------------------------------------------------------------------
(* ELF files.  The guests share one image: text below, data at 208, and    *)
(* so a stack that ends at the top of the address space.                   *)
MCSegmentBlock == <<"segment 1", "segment 2", "segment 3">>
MCUart == <<64, 4>>
MCDist == <<32, 16>>
MCCpuif == <<48, 16>>

TextAt == 16
DataAt == 208

Ph(flags, vaddr, memsz, offset, filesz) ==
  [type |-> "LOAD", flags |-> flags, vaddr |-> vaddr, memsz |-> memsz, offset |-> offset,
   filesz |-> filesz, align |-> 1]
Text1 == Ph({"x"}, TextAt, 48, 4, 6)
Data1 == Ph({"r", "w"}, DataAt, 16, 10, 5)
GoodElf == [size |-> 18, magic |-> TRUE, supported |-> TRUE, entsize |-> 2, phoff |-> 2,
            ph |-> <<Text1, Data1>>, entry |-> TextAt]
WithPh(ph) == [GoodElf EXCEPT !.ph = ph]

ElfCases == <<
  GoodElf,
  [GoodElf EXCEPT !.size = 0],
  [GoodElf EXCEPT !.size = 1],
  [GoodElf EXCEPT !.size = 5],                                \* truncated table
  [GoodElf EXCEPT !.magic = FALSE],
  [GoodElf EXCEPT !.supported = FALSE],
  [GoodElf EXCEPT !.entsize = 3],
  [GoodElf EXCEPT !.phoff = 254],                             \* the table wraps
  [GoodElf EXCEPT !.phoff = 15],
  WithPh(<<>>),
  WithPh(<<[Text1 EXCEPT !.type = "NOTE"]>>),
  WithPh(<<Text1, Data1, [Data1 EXCEPT !.vaddr = 64], [Data1 EXCEPT !.vaddr = 96]>>),
  WithPh(<<Text1, [Data1 EXCEPT !.align = 0]>>),
  WithPh(<<Text1, [Data1 EXCEPT !.flags = {}]>>),
  WithPh(<<Text1, [Data1 EXCEPT !.filesz = 17]>>),
  WithPh(<<Text1, [Data1 EXCEPT !.offset = 17]>>),
  WithPh(<<Text1, [Data1 EXCEPT !.offset = 254, !.filesz = 4]>>),   \* offset + size wraps
  WithPh(<<Text1, [Data1 EXCEPT !.vaddr = 250]>>),            \* past the top
  WithPh(<<Text1, [Data1 EXCEPT !.vaddr = 40]>>),             \* overlaps the text
  WithPh(<<[Data1 EXCEPT !.vaddr = 40], Text1>>),
  WithPh(<<Text1, [Data1 EXCEPT !.vaddr = 64]>>),             \* adjacent to it
  WithPh(<<Text1, [Data1 EXCEPT !.memsz = 0], Data1>>),
  WithPh(<<Text1, [Data1 EXCEPT !.vaddr = 239]>>),            \* the stack goes back to its base
  WithPh(<<[Data1 EXCEPT !.vaddr = 225], Ph({"r"}, 66, 30, 0, 0)>>)   \* which is taken
  >>

\* Data at the bottom of the address space, the stack at its top.
WrapElf == [WithPh(<<[Data1 EXCEPT !.vaddr = 0], [Text1 EXCEPT !.vaddr = 176]>>)
            EXCEPT !.entry = 176]

MCElf(p) ==
  CASE p[1] = "elf"  -> ElfCases[p[2]]
    [] p[1] = "wrap" -> WrapElf
    [] OTHER         -> GoodElf

-----------------------------------------------------------------------------
(* Guests.                                                                 *)
At(i) == TextAt + 4 * (i - 1)
Set(r, value) == [Insn EXCEPT !.op = "ADR", !.rd = r, !.imm = value]
Op(op, bits) == [Insn EXCEPT !.op = op, !.bits = bits, !.rd = 0, !.rn = 1, !.rm = 2, !.ra = 3]
Imm(in, value) == [in EXCEPT !.kind = "IMM", !.uimm = value]
SetFlags(carry) ==
  IF carry THEN [Op("SUBS", XBits) EXCEPT !.rd = ZR, !.rm = 1]
  ELSE [Op("ADDS", XBits) EXCEPT !.rd = ZR, !.rn = ZR, !.rm = ZR]

Edges == {0, 1, 7, 8, 15, 127, 128, 170, 254, 255}
Few == {0, 1, 8, 128, 255}

\* Three-operand arithmetic, one operation per guest group.
ArithmeticOps == <<
  <<"ADDS", "SUBS", "ADC", "ADCS", "SBC", "SBCS", "ADD", "SUB">>,
  <<"AND", "ANDS", "ORR", "EOR", "BIC", "BICS", "ORN", "EON">>,
  <<"UDIV", "SDIV", "LSLV", "LSRV", "ASRV", "RORV">>,
  <<"MADD", "MSUB", "SMADDL", "SMSUBL", "UMADDL", "UMSUBL", "SMULH", "UMULH">>,
  <<"CSEL", "CSINC", "CSINV", "CSNEG", "RBIT", "CLZ", "CLS", "REV", "REV16", "REV32">> >>
AluCode(group, n, m, bits, carry) ==
  <<Set(1, n), Set(2, m), SetFlags(carry)>>
    \o [i \in DOMAIN ArithmeticOps[group] |->
          [Op(ArithmeticOps[group][i], bits) EXCEPT !.cond = 2]]

FieldCode(op, n, lsb, bits) ==
  <<Set(1, n), Set(0, 170)>>
    \o [i \in 1 .. bits |-> [Op(op, bits) EXCEPT !.amount = lsb, !.msb = i - 1]]

\* Shifted, extended and immediate operands, moves, EXTR and the CRCs.
OperandCode(n, m, bits) ==
  <<Set(1, n), Set(2, m),
    [Op("ADDS", bits) EXCEPT !.kind = "SHIFTED", !.shift = "ASR", !.amount = 1],
    [Op("ANDS", bits) EXCEPT !.kind = "SHIFTED", !.shift = "ROR", !.amount = 3],
    [Op("BICS", bits) EXCEPT !.kind = "SHIFTED", !.shift = "LSR", !.amount = 0],
    [Op("SUBS", XBits) EXCEPT !.kind = "EXTENDED", !.extend = "SXTH", !.amount = 1],
    Imm(Op("ANDS", bits), 15),
    Imm([Op("MOVK", bits) EXCEPT !.amount = 2], 12), Imm(Op("MOVN", bits), 3),
    Imm(Op("MOVZ", bits), 2)>>
ExtrCode(n, m, bits) ==
  <<Set(1, n), Set(2, m)>>
    \o [i \in 1 .. bits |-> [Op("EXTR", bits) EXCEPT !.amount = i - 1]]
CrcCode(n, m) ==
  <<Set(1, n), Set(2, m)>>
    \o [i \in 1 .. 8 |-> Imm(Op(IF i % 2 = 0 THEN "CRC32" ELSE "CRC32C", XBits),
                             <<1, 2, 4, 8>>[(i + 1) \div 2])]
CrcCodeReg(n, m) == [i \in DOMAIN CrcCode(n, m) |-> [CrcCode(n, m)[i] EXCEPT !.kind = "REG"]]

\* A comparison, then one branch for each of four conditions.
Conditions == <<<<0, 1, 2, 3>>, <<8, 9, 10, 11>>, <<12, 13, 14, 15>>, <<4, 5, 6, 7>>>>
Compare(how, bits) ==
  CASE how = "SUBS" -> <<[Op("SUBS", bits) EXCEPT !.rd = ZR], Insn>>
    [] how = "CCMP" -> <<[Op("SUBS", bits) EXCEPT !.rd = ZR, !.rm = 1],
                         [Op("CCMP", bits) EXCEPT !.cond = 0]>>
    [] how = "CCMN" -> <<[Op("CCMP", bits) EXCEPT !.cond = 1, !.kind = "IMM", !.imm = 3],
                         [Op("CCMN", bits) EXCEPT !.cond = 0, !.uimm = 9]>>
CompareCode(how, n, m, bits, group) ==
  <<Set(1, n), Set(2, m)>> \o Compare(how, bits)
    \o [i \in 1 .. 8 |->
          IF i % 2 = 1 THEN [Insn EXCEPT !.op = "B_COND", !.imm = At(i + 6),
                                         !.cond = Conditions[group][(i + 1) \div 2]]
          ELSE Insn]

\* Loads and stores; x1 is the data, x2 its second half, x3 a value.
M(op, rn, n) == [Insn EXCEPT !.op = op, !.rd = 3, !.rt2 = 0, !.rn = rn, !.rm = 8, !.size = n,
                             !.bits = IF op \in {"LDXR", "STXR"} /\ n < 8 THEN WBits ELSE XBits]
V(op, rn, n) == [M(op, rn, n) EXCEPT !.vec = TRUE, !.rd = 0, !.rt2 = 1]
Off(in, off) == [in EXCEPT !.imm = off]
Index(in, off, mode) == [in EXCEPT !.imm = off, !.index = mode]
Reserving == <<M("LDXR", 1, 8), M("LDXR", 2, 4), M("LDXR", 1, 1), M("LDXR", ZR, 8)>>
MemOps == <<
  M("STXR", 1, 8), M("STXR", 2, 4), M("STXR", ZR, 8), M("LDXR", 2, 2),
  M("STR", 1, 1), M("STR", 2, 4), Off(M("STR", 2, 8), 4), Off(M("STLR", 1, 2), 6),
  M("STR", ZR, 8), Off(M("STR", 1, 4), 16), Index(M("STR", 1, 4), 8, "POST"),
  Index(M("STR", ZR, 8), 248, "PRE"), [M("STR", 1, 1) EXCEPT !.extend = "UXTW", !.rm = 0],
  [M("LDRS", 1, 4) EXCEPT !.signed = TRUE], [M("LDR", 1, 8) EXCEPT !.kind = "IMM", !.imm = 208],
  Index(M("LDAR", 2, 4), 4, "PRE"), Off(M("LDR", 1, 8), 16),
  M("STP", 1, 4), Off(M("STP", 1, 4), 12), Index(M("STP", ZR, 4), 248, "PRE"),
  Off(M("STP", ZR, 8), 248), Off(M("STP", 1, 8), 252),
  M("LDP", 1, 8), [M("LDPSW", 2, 4) EXCEPT !.signed = TRUE], Off(M("LDP", 1, 8), 8),
  V("STR", 1, 16), V("STR", 2, 4), Off(V("STR", 1, 16), 8), V("LDR", 1, 16), V("LDR", 2, 4),
  V("STP", 1, 4), V("STP", 1, 8), V("STP", 1, 16), V("LDP", 1, 8), Off(V("LDP", 1, 8), 8),
  [Insn EXCEPT !.op = "SVC"]>>
MemCode(i, j, k) ==
  <<Set(1, DataAt), Set(2, DataAt + 4), Set(3, 255), Set(8, SYS_CLOCK_GETTIME),
    [Insn EXCEPT !.op = "MSR", !.sysreg = "SP_EL0", !.rd = IF i = 4 THEN 8 ELSE ZR],
    IF i = 4 THEN Set(0, 3) ELSE [Insn EXCEPT !.op = "VEC_DUP", !.rd = 0, !.rm = 3],
    Reserving[i], MemOps[j], MemOps[k]>>

\* With SP at the top, which is 0: a reservation at the bottom and the pairs.
WrapCode(i) == <<M("LDXR", ZR, 8), Set(3, 255),
                 <<Off(M("STP", ZR, 8), 248), Off(M("STP", ZR, 4), 252),
                   Off(V("STP", ZR, 16), 240), Off(V("STP", ZR, 8), 248)>>[i],
                 M("STXR", ZR, 8)>>

\* System calls.
SysCode(nr, a, b, c) ==
  <<Set(8, nr), Set(0, a), Set(1, b), Set(2, c), [Insn EXCEPT !.op = "SVC"],
    Set(8, SYS_EXIT), Set(0, 5), [Insn EXCEPT !.op = "SVC"]>>

\* Branches, moves to and from the system registers, and what traps.
Sys(op, rd, reg) == [Insn EXCEPT !.op = op, !.rd = rd, !.sysreg = reg]
Jump(op, target) == [Insn EXCEPT !.op = op, !.imm = target, !.rd = 1, !.rn = 1, !.msb = 1]
OtherCodes == <<
  <<Set(1, At(4)), Jump("BLR", 0), Jump("B", At(2)), [Jump("RET", 0) EXCEPT !.rn = 30]>>,
  <<Jump("BL", At(3)), Jump("CBZ", At(5)), Jump("CBNZ", At(1)), Jump("TBZ", At(2)), Insn,
    Set(1, 18), Jump("TBNZ", At(8)), Jump("BR", 0)>>,
  <<Set(1, 100), Jump("BR", 0)>>,
  <<Set(1, 96), Sys("MSR", 1, "NZCV"), Sys("MRS", 0, "NZCV"), Sys("MSR", 0, "TPIDRUR"),
    Sys("MRS", 2, "TPIDRUR"), Sys("MSR", 1, "SP_EL0"), Sys("MRS", 3, "SP_EL0"),
    Sys("MRS", 3, "FPCR"), Sys("MSR", 3, "OTHER")>>,
  <<Sys("MRS", 1, "OTHER")>>, <<Sys("MSR_IMM", 1, "OTHER")>>,
  <<[Insn EXCEPT !.op = "BARRIER"], [Insn EXCEPT !.op = "SMC"]>>, <<[Insn EXCEPT !.op = "BRK"]>>,
  <<[Op("ADD", XBits) EXCEPT !.rd = ZR, !.rdSp = TRUE, !.rn = ZR, !.rnSp = TRUE, !.kind = "IMM",
                             !.uimm = 240]>> >>

MCCode(p) ==
  CASE p[1] = "alu"   -> AluCode(p[2], p[3], p[4], p[5], p[6])
    [] p[1] = "field" -> FieldCode(p[2], p[3], p[4], p[5])
    [] p[1] = "oper"  -> OperandCode(p[2], p[3], p[4])
    [] p[1] = "extr"  -> ExtrCode(p[2], p[3], p[4])
    [] p[1] = "crc"   -> CrcCodeReg(p[2], p[3])
    [] p[1] = "cmp"   -> CompareCode(p[2], p[3], p[4], p[5], p[6])
    [] p[1] = "mem"   -> MemCode(p[2], p[3], p[4])
    [] p[1] = "wrap"  -> WrapCode(p[2])
    [] p[1] = "sys"   -> SysCode(p[2], p[3], p[4], p[5])
    [] p[1] = "other" -> OtherCodes[p[2]]
    [] OTHER          -> <<Insn>>

Guests ==
  {<<"alu", g, n, m, b, c>> : g \in DOMAIN ArithmeticOps, n \in Edges, m \in Edges,
                              b \in {WBits, XBits}, c \in BOOLEAN}
    \cup {<<"field", op, n, l, XBits>> : op \in Bitfields, n \in Few, l \in 0 .. XBits - 1}
    \cup {<<"field", op, n, l, WBits>> : op \in Bitfields, n \in Few, l \in 0 .. WBits - 1}
    \cup {<<"oper", n, m, b>> : n \in Few, m \in Few, b \in {WBits, XBits}}
    \cup {<<"extr", n, m, b>> : n \in Few, m \in Few, b \in {WBits, XBits}}
    \cup {<<"crc", n, m>> : n \in Few, m \in Edges}
    \cup {<<"cmp", how, n, m, b, g>> : how \in {"SUBS", "CCMP"}, n \in Edges, m \in Edges,
                                       b \in {WBits, XBits}, g \in DOMAIN Conditions}
    \cup {<<"cmp", "CCMN", n, m, XBits, 1>> : n \in Few, m \in Few}
    \cup {<<"sys", SYS_WRITE, fd, b, n>> : fd \in 0 .. 2, b \in {208, 220, 224, 248, 255},
                                           n \in {0, 1, 4, 16, 255}}
    \cup {<<"sys", SYS_CLOCK_GETTIME, id, b, 0>> : id \in {0, 2}, b \in {208, 216, 240, 248, 255}}
    \cup {<<"sys", nr, 7, 0, 0>> : nr \in {SYS_EXIT, SYS_EXIT_GROUP, 1}}
    \cup {<<"other", i>> : i \in DOMAIN OtherCodes}
    \cup {<<"elf", i>> : i \in DOMAIN ElfCases}
MonitorGuests ==
  {<<"mem", i, j, k>> : i \in DOMAIN Reserving, j \in DOMAIN MemOps, k \in DOMAIN MemOps}

WrapGuests == {<<"wrap", i>> : i \in 1 .. 4}

-----------------------------------------------------------------------------
(* Kernels, ramdisks and device trees.                                     *)
GoodKernel == [size |-> 13, code |-> "branch", magic |-> TRUE, be |-> FALSE, page |-> "4K",
               text |-> 4]
KernelCases == <<
  GoodKernel, [GoodKernel EXCEPT !.code = "bti", !.text = 0], [GoodKernel EXCEPT !.code = "other"],
  [GoodKernel EXCEPT !.magic = FALSE], [GoodKernel EXCEPT !.be = TRUE],
  [GoodKernel EXCEPT !.page = "16K"], [GoodKernel EXCEPT !.text = 6],
  [GoodKernel EXCEPT !.text = 20], [GoodKernel EXCEPT !.text = 12, !.size = 9],
  [GoodKernel EXCEPT !.size = 0], [GoodKernel EXCEPT !.size = 2],
  [GoodKernel EXCEPT !.size = 16], [GoodKernel EXCEPT !.size = 19],
  [GoodKernel EXCEPT !.size = 32], [GoodKernel EXCEPT !.size = 50] >>
MCKernel(f) == KernelCases[f[2]]
MCInitrd(f) == f[2]

\* A token's word, then a node's name or a property's two words and value.
Tok(t, name, len) == [t |-> t, name |-> name, len |-> len]
Words(tok) == CASE tok.t = "BEGIN" -> 2 [] tok.t = "PROP" -> 3 + tok.len [] OTHER -> 1
\* The header takes 2 bytes and the names the next 2.
Laid(toks, names) ==
  LET at[i \in 1 .. Len(toks)] == IF i = 1 THEN 4 ELSE at[i - 1] + Words(toks[i - 1])
  IN [i \in DOMAIN toks |-> [t |-> toks[i].t, name |-> toks[i].name, len |-> toks[i].len,
                             pos |-> at[i] + 1, str |-> names]]
Trees == <<
  \* the fixture's shape: 29 bytes, reg at 11 .. 14 and the line at 21 .. 25
  <<Tok("BEGIN", "", 0), Tok("BEGIN", "memory@", 0), Tok("PROP", "reg", 4),
    Tok("END_NODE", "", 0), Tok("BEGIN", "chosen", 0), Tok("PROP", "bootline", 5),
    Tok("END_NODE", "", 0), Tok("END_NODE", "", 0), Tok("END", "", 0)>>,
  \* a child of /chosen before the line, a nested memory node
  <<Tok("BEGIN", "", 0), Tok("BEGIN", "soc", 0), Tok("BEGIN", "memory@", 0), Tok("PROP", "reg", 4),
    Tok("END_NODE", "", 0), Tok("END_NODE", "", 0), Tok("BEGIN", "chosen", 0),
    Tok("BEGIN", "child", 0), Tok("END_NODE", "", 0), Tok("END_NODE", "", 0),
    Tok("END_NODE", "", 0), Tok("END", "", 0)>>,
  \* a token the walk does not know
  <<Tok("NOP", "", 0), Tok("BEGIN", "", 0), Tok("END_NODE", "", 0), Tok("END", "", 0)>>,
  \* the line in front, other properties around it
  <<Tok("BEGIN", "", 0), Tok("PROP", "model", 1), Tok("BEGIN", "chosen", 0),
    Tok("PROP", "stdout", 1), Tok("PROP", "bootline", 5), Tok("END_NODE", "", 0),
    Tok("END", "", 0)>>,
  \* a reg too short to rewrite
  <<Tok("BEGIN", "", 0), Tok("BEGIN", "memory@", 0), Tok("PROP", "reg", 2)>> >>
TreeOf(i, size) == [size |-> size, magic |-> TRUE, total |-> size, tokens |-> Laid(Trees[i], 4)]
DtbCases == <<
  TreeOf(1, 29),
  [TreeOf(2, 29) EXCEPT !.total = 24],
  TreeOf(3, 9),
  [TreeOf(1, 29) EXCEPT !.total = 30],
  [TreeOf(1, 29) EXCEPT !.magic = FALSE],
  TreeOf(1, 1),
  TreeOf(1, 31),
  TreeOf(4, 27), TreeOf(5, 13),
  \* cut behind the line, in its value, before it, in its two words, behind its
  \* token, before it, and in reg; and a name that ends past the file
  TreeOf(1, 26), TreeOf(1, 25), TreeOf(1, 21), TreeOf(1, 20), TreeOf(1, 19), TreeOf(1, 18),
  TreeOf(1, 14), TreeOf(4, 8),
  [TreeOf(1, 29) EXCEPT !.tokens = Laid(Trees[1], 30)] >>
MCDtb(f) == DtbCases[f[2]]

-----------------------------------------------------------------------------
(* Command lines.                                                          *)
Arg(name, given, kind, value) == [name |-> name, given |-> given, value |-> <<kind, value>>]
Number(name, n) == Arg(name, "good", "number", n)
File(name, file) == [name |-> name, given |-> "good", value |-> file]
Serial(name, to) == Arg(name, "good", "serial", to)
Line(cmd, file, args) == [cmd |-> cmd, file |-> file, args |-> args]

RunLines == {Line("run", p, <<>>) : p \in Guests}
Budgeted == {Line("run", <<"other", 2>>, <<Number("--max-insns", n), Number("--max-insns", n + 1)>>)
               : n \in {0, 1, 3}}
              \cup {Line("run", <<"other", 1>>, <<Number("--max-insns", 0)>>)}

K == <<"kernel", 1>>
BootLines ==
  {Line("boot", <<"kernel", i>>, <<Number("-m", ram)>>) : i \in DOMAIN KernelCases, ram \in {32, 64}}
    \cup {Line("boot", <<"kernel", i>>, <<File("-initrd", <<"initrd", n>>), Number("-m", ram)>>)
            : i \in {1, 12, 14}, n \in {0, 5, 6, 7, 14, 15}, ram \in {32, 64}}
    \cup {Line("boot", K, <<File("-dtb", <<"dtb", i>>), Number("-append", n)>>)
            : i \in DOMAIN DtbCases, n \in {3, 4}}
    \cup {Line("boot", K, <<File("-dtb", <<"dtb", i>>)>>) : i \in DOMAIN DtbCases}
    \cup {Line("boot", K, <<File("-dtb", <<"dtb", 1>>), File("-initrd", <<"initrd", 5>>)>>)}
    \cup {Line("boot", K, <<Number("--entry", a)>>) : a \in {100, 130, 132, 192}}
    \cup {Line("boot", K, <<Serial("--serial", s)>>) : s \in {"stdio", "file"}}
    \cup {Line("boot", K, <<Serial("--serial", "file"), Serial("-serial", "stdio"),
                            Number("--max-insns", 3)>>)}

UsageLines ==
  {Line("--help", NoFile, <<>>), Line("frob", NoFile, <<>>), Line("run", NoFile, <<>>),
   Line("boot", NoFile, <<>>), Line("boot", K, <<Arg("-m", "bad", "number", 0)>>),
   Line("boot", K, <<Arg("-dtb", "none", "number", 0)>>),
   Line("boot", K, <<Number("--smp", 2)>>), Line("run", <<"other", 1>>, <<Number("-m", 32)>>)}

MCCommandLines ==
  RunLines \cup Budgeted \cup BootLines \cup UsageLines
    \cup {Line("run", p, <<>>) : p \in MonitorGuests \cup WrapGuests}

MonitorLines == {Line("run", p, <<>>) : p \in {q \in MonitorGuests : q[2] = 1}}
=============================================================================
