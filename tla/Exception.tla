----------------------------- MODULE Exception -----------------------------
(***************************************************************************)
(* Exception entry and return of oemu: src/src/exc/exc.c, the stack bank   *)
(* switch and the PSTATE registers of src/src/sysreg/sysreg.c, and the     *)
(* instructions of dispatch_system (src/src/exec/exec.c) that reach them.  *)
(*                                                                         *)
(* PSTATE and SPSR are records of the fields the code reads: the level,    *)
(* the stack selector, the masked interrupts, and in SPSR the flags, IL    *)
(* and `bad' (bit 4 or bit 1 of the mode, an AArch32 or reserved mode).    *)
(* NZCV is one value.  ESR and FAR only carry data to the handler and are  *)
(* left out, as are the D and A masks: no decision of the code reads them. *)
(*                                                                         *)
(* Addresses are numbers.  An instruction that advances the PC stands only *)
(* where the next word is in Addresses; each vector slot holds one word.   *)
(***************************************************************************)
EXTENDS Integers

CONSTANTS
  BootEl,    \* the level given to oemu_vcpu_init
  Code,      \* word addresses of the guest's code
  Flags,     \* values of NZCV
  SpVals,    \* values of a stack pointer
  Masks,     \* the interrupts that can be masked, a subset of {"I", "F"}
  GuestSpsr  \* values the guest writes to SPSR_ELx

Els == 0 .. 3
Kinds == 0 .. 2                         \* OEMU_EXC_KIND_SYNC, _IRQ, _FIQ
SYNC == 0
IRQ == 1
FIQ == 2
INSN_SIZE == 4
VBAR == [e \in {1, 3} |-> e * 4096]     \* the guest's vector bases

\* oemu_exc_vector_offset
VectorOffset(same_el, spsel, kind) ==
  (IF ~same_el THEN 1024 ELSE IF spsel = 1 THEN 512 ELSE 0) + kind * 128

Vectors == {VBAR[e] + VectorOffset(same, s, k) :
              e \in {1, 3}, same \in BOOLEAN, s \in {0, 1}, k \in Kinds}
Addresses == Code \cup Vectors

Pstate == [el : Els, spsel : {0, 1}, daif : SUBSET Masks]
Spsr == [el : Els, spsel : {0, 1}, daif : SUBSET Masks,
         nzcv : Flags, il : BOOLEAN, bad : BOOLEAN]

ASSUME ExceptionAssumption ==
  /\ BootEl \in {0, 1, 3}
  /\ Code \subseteq 0 .. 4095 /\ 0 \in Code
  /\ 0 \in Flags /\ 0 \in SpVals
  /\ Masks \subseteq {"I", "F"}
  /\ GuestSpsr \subseteq Spsr

VARIABLES
  pc, nzcv, sp,    \* the register file
  pstate,          \* sysregs.pstate
  sp_el,           \* the stack banks; the live bank's slot is stale
  spsr, elr,       \* the exception-link registers of each level
  frame            \* history: what the last entry to a level interrupted,
                   \* live until the guest rewrites its SPSR or ELR

excVars == <<pc, nzcv, sp, pstate, sp_el, spsr, elr, frame>>

Linked == {1, 2, 3}
Frame == [live : BOOLEAN, pc : Addresses, nzcv : Flags, pstate : Pstate]
ZeroSpsr == [el |-> 0, spsel |-> 0, daif |-> {}, nzcv |-> 0,
             il |-> FALSE, bad |-> FALSE]

\* oemu_pstate_mode with the masks set
EntryPstate(e) == [el |-> e, spsel |-> IF e = 0 THEN 0 ELSE 1, daif |-> Masks]

\* oemu_cpu_init and oemu_sysregs_init
ExcInit ==
  /\ pc = 0
  /\ nzcv = 0
  /\ sp \in SpVals
  /\ pstate = EntryPstate(BootEl)
  /\ sp_el = [e \in Els |-> IF e = BootEl THEN sp ELSE 0]
  /\ spsr = [e \in Linked |-> ZeroSpsr]
  /\ elr = [e \in Linked |-> 0]
  /\ frame = [e \in Linked |->
                [live |-> FALSE, pc |-> 0, nzcv |-> 0, pstate |-> EntryPstate(BootEl)]]

-----------------------------------------------------------------------------
\* Which bank the live stack pointer belongs to: SPSel = 0 and EL0 both
\* select SP_EL0.
BankOf(p) == IF p.spsel = 0 \/ p.el = 0 THEN 0 ELSE p.el

\* Mutant: the live value is not deposited into the bank it came from.
SwitchSpNoDeposit(new) ==
  /\ sp' = IF BankOf(pstate) # BankOf(new) THEN sp_el[BankOf(new)] ELSE sp
  /\ UNCHANGED sp_el
  /\ pstate' = new

\* oemu_sysregs_switch_sp: crossing banks deposits the live value and
\* withdraws the new one, then the new PSTATE is adopted.
SwitchSp(new) ==
  /\ IF BankOf(pstate) # BankOf(new)
     THEN /\ sp_el' = [sp_el EXCEPT ![BankOf(pstate)] = sp]
          /\ sp' = sp_el[BankOf(new)]
     ELSE UNCHANGED <<sp, sp_el>>
  /\ pstate' = new

\* oemu_exc_route: EL2 included, everything below EL3 goes to EL1.
Route(e) == IF e = 3 THEN 3 ELSE 1

\* Mutant: the flags are left out of the saved state.
SavedNoFlags(p, f) == [el |-> p.el, spsel |-> p.spsel, daif |-> p.daif,
                       nzcv |-> 0, il |-> FALSE, bad |-> FALSE]

\* The whole interrupted PSTATE: the flags live in the register file and are
\* folded in.
Saved(p, f) == [el |-> p.el, spsel |-> p.spsel, daif |-> p.daif,
                nzcv |-> f, il |-> FALSE, bad |-> FALSE]

\* Mutant: ELR always names the trapping instruction.
TakeAtPc(kind, target, at) ==
  /\ pc' = VBAR[target] + VectorOffset(pstate.el = target, pstate.spsel, kind)
  /\ SwitchSp(EntryPstate(target))
  /\ spsr' = [spsr EXCEPT ![target] = Saved(pstate, nzcv)]
  /\ elr' = [elr EXCEPT ![target] = pc]
  /\ frame' = [frame EXCEPT ![target] =
                 [live |-> TRUE, pc |-> at, nzcv |-> nzcv, pstate |-> pstate]]
  /\ UNCHANGED nzcv

\* oemu_exc_take, called with the PC that ELR is to name.
Take(kind, target, at) ==
  /\ pc' = VBAR[target] + VectorOffset(pstate.el = target, pstate.spsel, kind)
  /\ SwitchSp(EntryPstate(target))
  /\ spsr' = [spsr EXCEPT ![target] = Saved(pstate, nzcv)]
  /\ elr' = [elr EXCEPT ![target] = at]
  /\ frame' = [frame EXCEPT ![target] =
                 [live |-> TRUE, pc |-> at, nzcv |-> nzcv, pstate |-> pstate]]
  /\ UNCHANGED nzcv

\* A synchronous fault: undefined, brk, hlt, smc, an abort, a refused MSR.
SyncFault == Take(SYNC, Route(pstate.el), pc)

\* oemu_exc_svc and oemu_exc_hvc: the return address is the next instruction.
Svc ==
  /\ pc + INSN_SIZE \in Addresses
  /\ Take(SYNC, Route(pstate.el), pc + INSN_SIZE)

\* oemu_vcpu_take_pending once the pin has been found unmasked.
Interrupt(kind) == Take(kind, Route(pstate.el), pc)

\* oemu_exc_internal_mode_valid
ModeValid(m) == ~m.bad /\ ~(m.el = 0 /\ m.spsel = 1)

\* The return itself: SPSR and ELR of the current level.
Return(saved) ==
  /\ SwitchSp([el |-> saved.el, spsel |-> saved.spsel, daif |-> saved.daif])
  /\ nzcv' = saved.nzcv
  /\ pc' = elr[pstate.el]
  /\ UNCHANGED <<spsr, elr, frame>>

\* Mutant: a return to a higher level is not refused.
EretUpward ==
  IF pstate.el = 0 THEN SyncFault
  ELSE LET saved == spsr[pstate.el] IN
       IF saved.il \/ ~ModeValid(saved)
       THEN pstate.el # 2 /\ Take(SYNC, pstate.el, pc)
       ELSE Return(saved)

\* oemu_exc_eret: undefined at EL0; an illegal saved state and a return
\* upward are exceptions of the level that tried (oemu_exc_take requires a
\* target other than EL2, whose SPSR is never written).
Eret ==
  IF pstate.el = 0 THEN SyncFault
  ELSE LET saved == spsr[pstate.el] IN
       IF saved.il \/ ~ModeValid(saved) \/ saved.el > pstate.el
       THEN pstate.el # 2 /\ Take(SYNC, pstate.el, pc)
       ELSE Return(saved)

-----------------------------------------------------------------------------
\* Instructions that fall through to the next word.
Advance == pc + INSN_SIZE \in Addresses /\ pc' = pc + INSN_SIZE

\* Arithmetic: flags may change, MSR NZCV included.
Compute(f) ==
  /\ Advance
  /\ nzcv' = f
  /\ UNCHANGED <<sp, pstate, sp_el, spsr, elr, frame>>

\* An instruction whose destination is SP.
WriteSp(v) ==
  /\ Advance
  /\ sp' = v
  /\ UNCHANGED <<nzcv, pstate, sp_el, spsr, elr, frame>>

\* A branch to itself changes nothing here and is left out.
Branch(to) ==
  /\ to # pc
  /\ pc' = to
  /\ UNCHANGED <<nzcv, sp, pstate, sp_el, spsr, elr, frame>>

\* MSR DAIF, and MSR DAIFSet and DAIFClr above EL0.
MsrDaif(m) ==
  /\ pstate.el >= 1
  /\ Advance
  /\ pstate' = [pstate EXCEPT !.daif = m]
  /\ UNCHANGED <<nzcv, sp, sp_el, spsr, elr, frame>>

\* MSR SPSel: a bank switch at the same level.
MsrSpSel(s) ==
  /\ pstate.el >= 1
  /\ Advance
  /\ SwitchSp([pstate EXCEPT !.spsel = s])
  /\ UNCHANGED <<nzcv, spsr, elr, frame>>

\* MSR SP_EL0, which the table opens to every level, and MSR SP_EL1, to the
\* levels above EL1: the live copy moves with an active bank.
MsrSp(bank, v) ==
  /\ bank = 1 => pstate.el >= 2
  /\ Advance
  /\ sp_el' = [sp_el EXCEPT ![bank] = v]
  /\ sp' = IF BankOf(pstate) = bank THEN v ELSE sp
  /\ UNCHANGED <<nzcv, pstate, spsr, elr, frame>>

\* MSR SPSR_EL1, ELR_EL1, SPSR_EL3 and ELR_EL3.
MsrSpsr(e, v) ==
  /\ pstate.el >= e
  /\ Advance
  /\ spsr' = [spsr EXCEPT ![e] = v]
  /\ frame' = [frame EXCEPT ![e].live = FALSE]
  /\ UNCHANGED <<nzcv, sp, pstate, sp_el, elr>>

MsrElr(e, a) ==
  /\ pstate.el >= e
  /\ Advance
  /\ elr' = [elr EXCEPT ![e] = a]
  /\ frame' = [frame EXCEPT ![e].live = FALSE]
  /\ UNCHANGED <<nzcv, sp, pstate, sp_el, spsr>>

\* One instruction of the guest, the ones that end in an exception included.
Instruction ==
  \/ \E f \in Flags : Compute(f)
  \/ \E v \in SpVals : WriteSp(v)
  \/ \E a \in Code : Branch(a)
  \/ \E m \in SUBSET Masks : MsrDaif(m)
  \/ \E s \in {0, 1} : MsrSpSel(s)
  \/ \E bank \in {0, 1}, v \in SpVals : MsrSp(bank, v)
  \/ \E e \in {1, 3}, v \in GuestSpsr : MsrSpsr(e, v)
  \/ \E e \in {1, 3}, a \in Code : MsrElr(e, a)
  \/ Svc
  \/ SyncFault
  \/ Eret

\* An interrupt is taken before the next instruction, when its mask is clear.
Unmasked(kind) == (IF kind = FIQ THEN "F" ELSE "I") \notin pstate.daif

ExcNext ==
  \/ Instruction
  \/ \E kind \in {IRQ, FIQ} : Unmasked(kind) /\ Interrupt(kind)

ExcSpec == ExcInit /\ [][ExcNext]_excVars

-----------------------------------------------------------------------------
(* Properties *)

ExcTypeOK ==
  /\ pc \in Addresses
  /\ nzcv \in Flags
  /\ sp \in SpVals
  /\ pstate \in Pstate
  /\ sp_el \in [Els -> SpVals]
  /\ spsr \in [Linked -> Spsr]
  /\ elr \in [Linked -> Addresses]
  /\ frame \in [Linked -> Frame]

\* Code interrupted at any point resumes exactly where it was: if the handler
\* left SPSR and ELR alone, its ERET restores the PC, the condition flags, the
\* level, the stack selection and the masks of what was interrupted, whatever
\* happened in between, nested exceptions to other levels included (issue #28
\* in exc.c: flags lost between a cmp and its b.cond).
EretRestores ==
  [][ \A e \in {1, 3} :
        (Eret /\ pstate.el = e /\ frame[e].live) =>
          /\ pc' = frame[e].pc
          /\ nzcv' = frame[e].nzcv
          /\ pstate' = frame[e].pstate ]_excVars

\* Privilege rises only through a vector of the new level, with the masks set
\* and the stack of that level selected; and user code changes nothing but the
\* register file and its own stack pointer by itself: no mask, no link register
\* and no bank of a higher level.
PrivilegeGate ==
  [][ \/ /\ pc' \in Vectors /\ pstate' = EntryPstate(pstate'.el)
         /\ pstate'.el >= pstate.el
      \/ /\ pstate'.el <= pstate.el
         /\ pstate.el = 0 =>
              /\ UNCHANGED <<pstate, spsr, elr>>
              /\ \A b \in Els \ {0} : sp_el'[b] = sp_el[b] ]_excVars

\* While a frame is live, the link registers of its level hold it unharmed
\* through every nested exception, and it is a state ERET accepts from there:
\* the interrupted code is never lost to the illegal-return checks of
\* oemu_exc_eret.
FrameIntact ==
  /\ ~(pstate.el = 0 /\ pstate.spsel = 1)
  /\ \A e \in {1, 3} : frame[e].live =>
       /\ elr[e] = frame[e].pc
       /\ spsr[e] = Saved(frame[e].pstate, frame[e].nzcv)
       /\ ModeValid(spsr[e]) /\ spsr[e].el <= e

\* The value of every stack pointer, wherever the code keeps it.
StackValue == [b \in Els |-> IF b = BankOf(pstate) THEN sp ELSE sp_el[b]]

AbstractStacks ==
  INSTANCE Stacks WITH Values <- SpVals, el <- pstate.el,
                       bank <- BankOf(pstate), stack <- StackValue

\* Every exception, return and bank switch preserves every stack pointer, and
\* a stack pointer is written only as SP by the code running on it or by name
\* from a higher level: the one live register and the table with a stale slot
\* (switch_sp, the SP_ELx callbacks) implement independent registers.
StackRefinement == AbstractStacks!StacksSpec
=============================================================================
