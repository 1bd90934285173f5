---------------------------- MODULE VcpuProofs ----------------------------
(***************************************************************************)
(* Exception and Vcpu for every guest, quantum and sequence of pin levels: *)
(* any code, flags, stack values and saved states the guest may write.  The*)
(* core's steps are steps of the exception model, so what is proved of     *)
(* Exception first is inherited by Vcpu.                                   *)
(***************************************************************************)
EXTENDS Vcpu, TLAPS

-----------------------------------------------------------------------------
(* Exception entry and return.                                             *)

LEMMA BankType ==
  ASSUME NEW p \in Pstate
  PROVE  BankOf(p) \in Els /\ BankOf(p) \in {0, p.el}
BY DEF BankOf, Pstate, Els

\* The entry PSTATE is one that ERET accepts.
LEMMA EntryType ==
  ASSUME NEW e \in Els
  PROVE  EntryPstate(e) \in Pstate
BY DEF EntryPstate, Pstate, Els

\* The bank switch changes which stack pointer is live and the value of none:
\* the deposit fills the stale slot, the withdrawal empties the other.
LEMMA SwitchPreserves ==
  ASSUME ExcTypeOK, NEW new \in Pstate, SwitchSp(new)
  PROVE  /\ sp' \in SpVals
         /\ sp_el' \in [Els -> SpVals]
         /\ pstate' = new
         /\ StackValue' = StackValue
<1>1. /\ sp \in SpVals /\ sp_el \in [Els -> SpVals] /\ pstate \in Pstate
      /\ pstate' = new
  BY DEF ExcTypeOK, SwitchSp
<1>2. BankOf(pstate) \in Els /\ BankOf(new) \in Els
  BY <1>1, BankType
<1>3. BankOf(pstate)' = BankOf(new)
  BY <1>1 DEF BankOf
<1>4. CASE BankOf(pstate) = BankOf(new)
  <2>1. sp' = sp /\ sp_el' = sp_el
    BY <1>4 DEF SwitchSp
  <2>2. StackValue' = StackValue
    BY <1>3, <1>4, <2>1 DEF StackValue
  <2> QED BY <1>1, <2>1, <2>2
<1>5. CASE BankOf(pstate) # BankOf(new)
  <2>1. /\ sp_el' = [sp_el EXCEPT ![BankOf(pstate)] = sp]
        /\ sp' = sp_el[BankOf(new)]
    BY <1>5 DEF SwitchSp
  <2>2. sp' \in SpVals /\ sp_el' \in [Els -> SpVals]
    BY <1>1, <1>2, <2>1
  <2>3. StackValue' = [b \in Els |-> IF b = BankOf(new) THEN sp' ELSE sp_el'[b]]
    BY <1>3 DEF StackValue
  <2>4. \A b \in Els : (IF b = BankOf(new) THEN sp' ELSE sp_el'[b])
                         = (IF b = BankOf(pstate) THEN sp ELSE sp_el[b])
    BY <1>1, <1>2, <1>5, <2>1
  <2>5. StackValue' = StackValue
    BY <2>3, <2>4 DEF StackValue
  <2> QED BY <1>1, <2>2, <2>5
<1> QED BY <1>4, <1>5

\* The saved state of an entry is an SPSR value.
LEMMA SavedType ==
  ASSUME NEW p \in Pstate, NEW f \in Flags
  PROVE  Saved(p, f) \in Spsr
BY DEF Saved, Pstate, Spsr

\* Entry is type correct, ends at a vector and preserves every stack pointer.
LEMMA TakeEffect ==
  ASSUME ExcTypeOK, NEW kind \in Kinds, NEW target \in {1, 3},
         NEW at \in Addresses, Take(kind, target, at)
  PROVE  /\ ExcTypeOK'
         /\ pc' \in Vectors
         /\ pstate' = EntryPstate(target)
         /\ StackValue' = StackValue
<1>1. EntryPstate(target) \in Pstate
  BY EntryType DEF Els
<1>2. /\ sp' \in SpVals /\ sp_el' \in [Els -> SpVals]
      /\ pstate' = EntryPstate(target) /\ StackValue' = StackValue
  BY <1>1, SwitchPreserves DEF Take
<1>3. pc' \in Vectors
  <2>1. PICK same \in BOOLEAN : same = (pstate.el = target)
    OBVIOUS
  <2>2. PICK s \in {0, 1} : s = pstate.spsel
    BY DEF ExcTypeOK, Pstate
  <2>3. pc' = VBAR[target] + VectorOffset(same, s, kind)
    BY <2>1, <2>2 DEF Take
  <2>4. \E e \in {1, 3}, b \in BOOLEAN, t \in {0, 1}, k \in Kinds :
           pc' = VBAR[e] + VectorOffset(b, t, k)
    BY <2>3
  <2> QED BY <2>4 DEF Vectors
<1>4. /\ pstate \in Pstate /\ nzcv \in Flags
      /\ spsr \in [Linked -> Spsr] /\ elr \in [Linked -> Addresses]
      /\ frame \in [Linked -> Frame]
  BY DEF ExcTypeOK
<1>5. spsr' \in [Linked -> Spsr]
  BY <1>4, SavedType DEF Take
<1>6. elr' \in [Linked -> Addresses] /\ nzcv' \in Flags
  BY <1>4 DEF Take
<1>7. frame' \in [Linked -> Frame]
  BY <1>4 DEF Take, Frame
<1> QED BY <1>1, <1>2, <1>3, <1>5, <1>6, <1>7 DEF ExcTypeOK, Addresses

\* The level an exception is routed to.
LEMMA RouteType ==
  ASSUME ExcTypeOK
  PROVE  Route(pstate.el) \in {1, 3}
BY DEF Route

\* What ERET does: an entry or the return.
LEMMA EretEffect ==
  ASSUME ExcTypeOK, Eret
  PROVE  \/ \E target \in {1, 3} :
              Take(SYNC, target, pc) /\ (pstate.el = 0 \/ target = pstate.el)
         \/ /\ pstate.el \in {1, 2, 3}
            /\ ModeValid(spsr[pstate.el]) /\ spsr[pstate.el].el <= pstate.el
            /\ Return(spsr[pstate.el])
<1>1. pstate.el \in Els
  BY DEF ExcTypeOK, Pstate
<1>2. CASE pstate.el = 0
  BY <1>2, RouteType DEF Eret, SyncFault
<1>3. CASE pstate.el # 0
  <2>1. pstate.el \in {1, 2, 3}
    BY <1>1, <1>3 DEF Els
  <2>2. spsr[pstate.el].el \in Int /\ pstate.el \in Int
    BY <2>1 DEF ExcTypeOK, Spsr, Linked, Els
  <2> QED BY <1>3, <2>1, <2>2 DEF Eret
<1> QED BY <1>2, <1>3

\* A return is type correct and preserves every stack pointer.
LEMMA ReturnEffect ==
  ASSUME ExcTypeOK, pstate.el \in Linked, Return(spsr[pstate.el])
  PROVE  /\ ExcTypeOK'
         /\ pstate'.el = spsr[pstate.el].el
         /\ StackValue' = StackValue
<1> DEFINE s == spsr[pstate.el]
           new == [el |-> s.el, spsel |-> s.spsel, daif |-> s.daif]
<1>1. s \in Spsr /\ elr[pstate.el] \in Addresses
  BY DEF ExcTypeOK
<1>2. new \in Pstate
  BY <1>1 DEF Spsr, Pstate
<1>3. SwitchSp(new)
  BY DEF Return
<1>4. new.el = s.el
  OBVIOUS
<1> HIDE DEF new
<1>5. /\ sp' \in SpVals /\ sp_el' \in [Els -> SpVals]
      /\ pstate' = new /\ StackValue' = StackValue
  BY <1>2, <1>3, SwitchPreserves
<1>6. nzcv' \in Flags /\ pc' \in Addresses /\ UNCHANGED <<spsr, elr, frame>>
  BY <1>1 DEF Return, Spsr
<1> QED BY <1>2, <1>4, <1>5, <1>6 DEF ExcTypeOK

-----------------------------------------------------------------------------
\* The instructions that write a register and fall through or branch.
Plain ==
  \/ \E f \in Flags : Compute(f)
  \/ \E a \in Code : Branch(a)
  \/ \E m \in SUBSET Masks : MsrDaif(m)
  \/ \E e \in {1, 3}, v \in GuestSpsr : MsrSpsr(e, v)
  \/ \E e \in {1, 3}, a \in Code : MsrElr(e, a)

\* They touch no stack pointer, level or stack selection.
LEMMA PlainEffect ==
  ASSUME ExcTypeOK, Plain
  PROVE  /\ ExcTypeOK'
         /\ UNCHANGED <<sp, sp_el>>
         /\ pstate'.el = pstate.el /\ pstate'.spsel = pstate.spsel
         /\ pstate.el = 0 => UNCHANGED <<pstate, spsr, elr, frame>>
<1> USE DEF ExcTypeOK
<1>1. ASSUME NEW f \in Flags, Compute(f) PROVE ExcTypeOK'
  BY <1>1 DEF Compute, Advance
<1>2. ASSUME NEW a \in Code, Branch(a) PROVE ExcTypeOK'
  BY <1>2 DEF Branch, Addresses
<1>3. ASSUME NEW m \in SUBSET Masks, MsrDaif(m)
      PROVE  /\ ExcTypeOK' /\ UNCHANGED <<sp, sp_el>>
             /\ pstate'.el = pstate.el /\ pstate'.spsel = pstate.spsel
             /\ pstate.el # 0
  BY <1>3 DEF MsrDaif, Advance, Pstate
<1>4. ASSUME NEW e \in {1, 3}, NEW v \in GuestSpsr, MsrSpsr(e, v)
      PROVE  ExcTypeOK' /\ UNCHANGED <<sp, sp_el, pstate>> /\ pstate.el # 0
  <2>1. v \in Spsr
    BY ExceptionAssumption
  <2>2. spsr' \in [Linked -> Spsr]
    BY <1>4, <2>1 DEF MsrSpsr, Linked
  <2>3. frame' \in [Linked -> Frame]
    BY <1>4 DEF MsrSpsr, Frame
  <2>4. pstate.el # 0
    BY <1>4 DEF MsrSpsr
  <2> QED BY <1>4, <2>2, <2>3, <2>4 DEF MsrSpsr, Advance
<1>5. ASSUME NEW e \in {1, 3}, NEW a \in Code, MsrElr(e, a)
      PROVE  ExcTypeOK' /\ UNCHANGED <<sp, sp_el, pstate>> /\ pstate.el # 0
  <2>1. elr' \in [Linked -> Addresses]
    BY <1>5 DEF MsrElr, Linked, Addresses
  <2>2. frame' \in [Linked -> Frame]
    BY <1>5 DEF MsrElr, Frame
  <2>3. pstate.el # 0
    BY <1>5 DEF MsrElr
  <2> QED BY <1>5, <2>1, <2>2, <2>3 DEF MsrElr, Advance
<1> QED BY <1>1, <1>2, <1>3, <1>4, <1>5 DEF Plain, Compute, Branch

\* An instruction that writes one stack pointer writes its bank and no other.
LEMMA WriteEffect ==
  ASSUME ExcTypeOK, NEW v \in SpVals, NEW bank \in {0, 1},
         WriteSp(v) \/ MsrSp(bank, v)
  PROVE  /\ ExcTypeOK'
         /\ UNCHANGED <<pstate, spsr, elr, frame>>
         /\ \/ StackValue' = [StackValue EXCEPT ![BankOf(pstate)] = v]
            \/ bank < pstate.el /\ StackValue' = [StackValue EXCEPT ![bank] = v]
         /\ pstate.el = 0 => \A b \in Els \ {0} : sp_el'[b] = sp_el[b]
<1>1. /\ sp \in SpVals /\ sp_el \in [Els -> SpVals] /\ pstate \in Pstate
      /\ BankOf(pstate) \in Els /\ bank \in Els
  BY BankType DEF ExcTypeOK, Els
<1>2. UNCHANGED <<pstate, spsr, elr, frame, nzcv>> /\ pc' \in Addresses
  BY DEF WriteSp, MsrSp, Advance
<1>3. BankOf(pstate)' = BankOf(pstate)
  BY <1>2
<1>4. StackValue' = [b \in Els |-> IF b = BankOf(pstate) THEN sp' ELSE sp_el'[b]]
  BY <1>3 DEF StackValue
<1>5. CASE WriteSp(v)
  <2>1. sp' = v /\ sp_el' = sp_el
    BY <1>5 DEF WriteSp
  <2>2. StackValue' = [StackValue EXCEPT ![BankOf(pstate)] = v]
    BY <1>1, <1>4, <2>1 DEF StackValue
  <2> QED BY <1>1, <1>2, <2>1, <2>2 DEF ExcTypeOK
<1>6. CASE MsrSp(bank, v)
  <2>1. /\ sp_el' = [sp_el EXCEPT ![bank] = v]
        /\ sp' = IF BankOf(pstate) = bank THEN v ELSE sp
        /\ bank < pstate.el \/ (pstate.el = 0 /\ bank = 0 /\ BankOf(pstate) = 0)
    BY <1>1, <1>6 DEF MsrSp, Pstate, Els, BankOf
  <2>2. \A b \in Els : (IF b = BankOf(pstate) THEN sp' ELSE sp_el'[b])
                         = (IF b = bank THEN v ELSE StackValue[b])
    BY <1>1, <2>1 DEF StackValue
  <2>3. StackValue' = [StackValue EXCEPT ![bank] = v]
    BY <1>4, <2>2 DEF StackValue
  <2>4. ExcTypeOK'
    BY <1>1, <1>2, <2>1 DEF ExcTypeOK
  <2>5. pstate.el = 0 => \A b \in Els \ {0} : sp_el'[b] = sp_el[b]
    <3>1. pstate.el = 0 => bank = 0
      BY <1>1, <2>1 DEF Pstate, Els
    <3> QED BY <1>1, <2>1, <3>1
  <2> QED BY <1>2, <2>1, <2>3, <2>4, <2>5
<1> QED BY <1>5, <1>6

\* MSR SPSel is a switch at the current level.
LEMMA SpSelEffect ==
  ASSUME ExcTypeOK, NEW s \in {0, 1}, MsrSpSel(s)
  PROVE  /\ ExcTypeOK' /\ StackValue' = StackValue
         /\ pstate.el # 0 /\ pstate' = [pstate EXCEPT !.spsel = s]
         /\ UNCHANGED <<nzcv, spsr, elr, frame>>
<1>1. [pstate EXCEPT !.spsel = s] \in Pstate
  BY DEF ExcTypeOK, Pstate
<1>2. /\ sp' \in SpVals /\ sp_el' \in [Els -> SpVals]
      /\ pstate' = [pstate EXCEPT !.spsel = s] /\ StackValue' = StackValue
  BY <1>1, SwitchPreserves DEF MsrSpSel
<1>3. pstate.el # 0 /\ UNCHANGED <<nzcv, spsr, elr, frame>> /\ pc' \in Addresses
  BY DEF MsrSpSel, Advance, ExcTypeOK, Pstate
<1> QED BY <1>1, <1>2, <1>3 DEF ExcTypeOK

\* Every step is one of five: an entry, a return, a plain instruction, a
\* write of one stack pointer or a bank switch.
LEMMA StepCases ==
  ASSUME ExcTypeOK, ExcNext
  PROVE  \/ \E kind \in Kinds, target \in {1, 3}, at \in Addresses :
              /\ Take(kind, target, at)
              /\ target = Route(pstate.el) \/ (Eret /\ target = pstate.el)
         \/ /\ pstate.el \in {1, 2, 3}
            /\ Eret
            /\ ModeValid(spsr[pstate.el]) /\ spsr[pstate.el].el <= pstate.el
            /\ Return(spsr[pstate.el])
         \/ Plain
         \/ \E v \in SpVals, bank \in {0, 1} : WriteSp(v) \/ MsrSp(bank, v)
         \/ \E s \in {0, 1} : MsrSpSel(s)
<1>1. pc \in Addresses /\ Route(pstate.el) \in {1, 3} /\ SYNC \in Kinds
      /\ IRQ \in Kinds /\ FIQ \in Kinds
  BY RouteType DEF ExcTypeOK, SYNC, IRQ, FIQ, Kinds
<1>2. CASE Svc
  BY <1>1, <1>2 DEF Svc
<1>3. CASE SyncFault
  BY <1>1, <1>3 DEF SyncFault
<1>4. CASE Eret
  <2>1. CASE \E target \in {1, 3} :
                Take(SYNC, target, pc) /\ (pstate.el = 0 \/ target = pstate.el)
    <3>1. PICK target \in {1, 3} :
             Take(SYNC, target, pc) /\ (pstate.el = 0 \/ target = pstate.el)
      BY <2>1
    <3>2. CASE pstate.el = 0
      BY <1>1, <1>4, <3>2 DEF Eret, SyncFault
    <3>3. CASE target = pstate.el
      BY <1>1, <1>4, <3>1, <3>3
    <3> QED BY <3>1, <3>2, <3>3
  <2> QED BY <1>4, <2>1, EretEffect
<1>5. CASE \E kind \in {IRQ, FIQ} : Unmasked(kind) /\ Interrupt(kind)
  BY <1>1, <1>5 DEF Interrupt
<1> QED BY <1>2, <1>3, <1>4, <1>5 DEF ExcNext, Instruction, Plain

\* Types hold in every reachable state: every exception lands on a vector and
\* every return address is an address the guest can execute.
THEOREM ExcTypeCorrect == ExcSpec => []ExcTypeOK
<1>1. ASSUME ExcInit PROVE ExcTypeOK
  <2>1. EntryPstate(BootEl) \in Pstate
    BY ExceptionAssumption, EntryType DEF Els
  <2>2. ZeroSpsr \in Spsr
    BY ExceptionAssumption DEF ZeroSpsr, Spsr, Els
  <2>3. 0 \in Addresses /\ 0 \in Flags /\ 0 \in SpVals
    BY ExceptionAssumption DEF Addresses
  <2>4. frame \in [Linked -> Frame]
    BY <1>1, <2>1, <2>3 DEF ExcInit, Frame
  <2>5. sp_el \in [Els -> SpVals]
    BY <1>1, <2>3 DEF ExcInit
  <2> QED BY <1>1, <2>1, <2>2, <2>3, <2>4, <2>5 DEF ExcInit, ExcTypeOK
<1>2. ExcTypeOK /\ [ExcNext]_excVars => ExcTypeOK'
  <2> SUFFICES ASSUME ExcTypeOK, [ExcNext]_excVars PROVE ExcTypeOK'
    OBVIOUS
  <2>1. CASE ExcNext
    BY <2>1, StepCases, TakeEffect, ReturnEffect, PlainEffect, WriteEffect,
       SpSelEffect DEF Linked
  <2>2. CASE UNCHANGED excVars
    BY <2>2 DEF excVars, ExcTypeOK
  <2> QED BY <2>1, <2>2
<1> QED BY <1>1, <1>2, PTL DEF ExcSpec

-----------------------------------------------------------------------------
\* The live register and the banked table implement independent stack
\* pointers, for a guest started at any level.
THEOREM StacksImplemented == ExcSpec => StackRefinement
<1>1. ExcInit => AbstractStacks!StacksInit
  <2> SUFFICES ASSUME ExcInit PROVE AbstractStacks!StacksInit
    OBVIOUS
  <2>1. pstate.el = BootEl /\ BankOf(pstate) = BootEl /\ BootEl \in Els
    BY ExceptionAssumption DEF ExcInit, EntryPstate, BankOf, Els
  <2>2. StackValue = [b \in 0 .. 3 |-> IF b = BankOf(pstate) THEN sp ELSE 0]
    BY <2>1 DEF ExcInit, StackValue, Els
  <2> QED BY <2>1, <2>2 DEF ExcInit, AbstractStacks!StacksInit, Els
<1>2. ExcTypeOK /\ ExcTypeOK' /\ [ExcNext]_excVars
        => [AbstractStacks!StacksNext]_(AbstractStacks!stackVars)
  <2> SUFFICES ASSUME ExcTypeOK, ExcTypeOK', [ExcNext]_excVars
               PROVE  [AbstractStacks!StacksNext]_(AbstractStacks!stackVars)
    OBVIOUS
  <2>1. /\ pstate'.el \in 0 .. 3
        /\ BankOf(pstate)' \in {0, pstate'.el}
    BY BankType DEF ExcTypeOK, Pstate, Els
  <2>2. CASE StackValue' = StackValue
    BY <2>1, <2>2 DEF AbstractStacks!StacksNext, AbstractStacks!Select
  <2>3. CASE \E v \in SpVals, bank \in {0, 1} : WriteSp(v) \/ MsrSp(bank, v)
    <3>1. PICK v \in SpVals, bank \in {0, 1} : WriteSp(v) \/ MsrSp(bank, v)
      BY <2>3
    <3>2. /\ pstate' = pstate
          /\ \/ StackValue' = [StackValue EXCEPT ![BankOf(pstate)] = v]
             \/ bank < pstate.el /\ StackValue' = [StackValue EXCEPT ![bank] = v]
      BY <3>1, WriteEffect
    <3>3. BankOf(pstate)' = BankOf(pstate) /\ bank \in 0 .. 3
      BY <3>2
    <3> QED BY <3>2, <3>3 DEF AbstractStacks!StacksNext,
                 AbstractStacks!WriteNamed, AbstractStacks!WriteLower
  <2>4. CASE Plain
    <3>1. /\ sp' = sp /\ sp_el' = sp_el
          /\ pstate'.el = pstate.el /\ pstate'.spsel = pstate.spsel
      BY <2>4, PlainEffect
    <3>2. StackValue' = StackValue
      BY <3>1 DEF StackValue, BankOf
    <3> QED BY <2>2, <3>2
  <2>5. CASE UNCHANGED excVars
    <3>1. sp' = sp /\ sp_el' = sp_el /\ pstate' = pstate
      BY <2>5 DEF excVars
    <3>2. StackValue' = StackValue
      BY <3>1 DEF StackValue
    <3> QED BY <2>2, <3>2
  <2> QED BY <2>2, <2>3, <2>4, <2>5, StepCases, TakeEffect, ReturnEffect,
             SpSelEffect DEF Linked
<1> QED BY <1>1, <1>2, ExcTypeCorrect, PTL
        DEF ExcSpec, StackRefinement, AbstractStacks!StacksSpec

\* Privilege rises only through a masked vector, and user code changes
\* nothing but the register file and its own stack pointer by itself.
THEOREM PrivilegeIsGated == ExcSpec => PrivilegeGate
<1> DEFINE Gate ==
      \/ /\ pc' \in Vectors /\ pstate' = EntryPstate(pstate'.el)
         /\ pstate'.el >= pstate.el
      \/ /\ pstate'.el <= pstate.el
         /\ pstate.el = 0 =>
              /\ UNCHANGED <<pstate, spsr, elr>>
              /\ \A b \in Els \ {0} : sp_el'[b] = sp_el[b]
<1>1. ExcTypeOK /\ [ExcNext]_excVars => [Gate]_excVars
  <2> SUFFICES ASSUME ExcTypeOK, ExcNext PROVE Gate
    BY DEF excVars
  <2>0. pstate.el \in 0 .. 3
    BY DEF ExcTypeOK, Pstate, Els
  <2>1. ASSUME NEW kind \in Kinds, NEW target \in {1, 3}, NEW at \in Addresses,
               Take(kind, target, at),
               target = Route(pstate.el) \/ (Eret /\ target = pstate.el)
        PROVE  Gate
    <3>1. pc' \in Vectors /\ pstate' = EntryPstate(target)
      BY <2>1, TakeEffect
    <3>2. pstate'.el = target
      BY <3>1 DEF EntryPstate
    <3>3. target >= pstate.el \/ (target <= pstate.el /\ pstate.el # 0)
      BY <2>0
    <3> QED BY <3>1, <3>2, <3>3
  <2>2. ASSUME pstate.el \in {1, 2, 3}, Return(spsr[pstate.el]),
               spsr[pstate.el].el <= pstate.el
        PROVE  Gate
    BY <2>2, ReturnEffect DEF Linked
  <2>3. CASE Plain
    BY <2>0, <2>3, PlainEffect
  <2>4. ASSUME NEW v \in SpVals, NEW bank \in {0, 1},
               WriteSp(v) \/ MsrSp(bank, v)
        PROVE  Gate
    <3>1. /\ UNCHANGED <<pstate, spsr, elr>>
          /\ pstate.el = 0 => \A b \in Els \ {0} : sp_el'[b] = sp_el[b]
      BY <2>4, WriteEffect
    <3> QED BY <2>0, <3>1
  <2>5. ASSUME NEW s \in {0, 1}, MsrSpSel(s) PROVE Gate
    <3>1. pstate.el # 0 /\ pstate' = [pstate EXCEPT !.spsel = s]
      BY <2>5, SpSelEffect
    <3>2. pstate'.el = pstate.el
      BY <3>1 DEF ExcTypeOK, Pstate
    <3> QED BY <2>0, <3>1, <3>2
  <2> QED BY <2>1, <2>2, <2>3, <2>4, <2>5, StepCases
<1> QED BY <1>1, ExcTypeCorrect, PTL DEF ExcSpec, PrivilegeGate

-----------------------------------------------------------------------------
(* The interrupted context.  FrameIntact is inductive together with the    *)
(* types and LowLevels: from EL2, which only an EL3 guest reaches, the     *)
(* routing to EL1 would save a state above the handler's level, so the     *)
(* theorems are about guests started at EL0 or EL1.                        *)

LowLevels == pstate.el \in {0, 1}

FrameInv == ExcTypeOK /\ LowLevels /\ FrameIntact

LEMMA FrameInvStep ==
  ASSUME FrameInv, [ExcNext]_excVars
  PROVE  FrameInv'
<1> USE DEF FrameInv
<1>0. ExcTypeOK'
  BY StepCases, TakeEffect, ReturnEffect, PlainEffect, WriteEffect,
     SpSelEffect DEF Linked, excVars, ExcTypeOK
<1>1. ASSUME NEW kind \in Kinds, NEW target \in {1, 3}, NEW at \in Addresses,
             Take(kind, target, at),
             target = Route(pstate.el) \/ (Eret /\ target = pstate.el)
      PROVE  LowLevels' /\ FrameIntact'
  <2>1. target = 1
    BY <1>1 DEF Route, LowLevels
  <2>2. pstate' = EntryPstate(1)
    BY <1>1, <2>1, TakeEffect
  <2>3. pstate'.el = 1 /\ pstate'.spsel = 1
    BY <2>2 DEF EntryPstate
  <2>4. /\ spsr' = [spsr EXCEPT ![1] = Saved(pstate, nzcv)]
        /\ elr' = [elr EXCEPT ![1] = at]
        /\ frame' = [frame EXCEPT ![1] =
                       [live |-> TRUE, pc |-> at, nzcv |-> nzcv, pstate |-> pstate]]
    BY <1>1, <2>1 DEF Take
  <2>5. /\ frame'[3] = frame[3] /\ spsr'[3] = spsr[3] /\ elr'[3] = elr[3]
        /\ elr'[1] = at /\ spsr'[1] = Saved(pstate, nzcv)
        /\ frame'[1].pc = at /\ frame'[1].nzcv = nzcv /\ frame'[1].pstate = pstate
    BY <2>4 DEF ExcTypeOK, Linked
  <2>6. /\ ModeValid(Saved(pstate, nzcv))
        /\ Saved(pstate, nzcv).el <= 1
    BY DEF ModeValid, Saved, FrameIntact, LowLevels
  <2> QED BY <2>3, <2>5, <2>6 DEF FrameIntact, LowLevels
<1>2. ASSUME pstate.el \in {1, 2, 3}, Return(spsr[pstate.el]),
             ModeValid(spsr[pstate.el]), spsr[pstate.el].el <= pstate.el
      PROVE  LowLevels' /\ FrameIntact'
  <2> DEFINE r == spsr[pstate.el]
  <2>1. pstate.el = 1 /\ r \in Spsr
    BY <1>2 DEF LowLevels, ExcTypeOK, Linked
  <2>2. /\ pstate' = [el |-> r.el, spsel |-> r.spsel, daif |-> r.daif]
        /\ UNCHANGED <<spsr, elr, frame>>
    BY <1>2 DEF Return, SwitchSp
  <2>3. pstate'.el = r.el /\ pstate'.spsel = r.spsel
    BY <2>2
  <2>4. r.el \in {0, 1}
    BY <1>2, <2>1 DEF Spsr, Els
  <2> QED BY <1>2, <2>2, <2>3, <2>4 DEF FrameIntact, LowLevels, ModeValid
<1>3. ASSUME UNCHANGED <<spsr, elr, frame>>,
             pstate'.el = pstate.el,
             pstate'.spsel = pstate.spsel \/ pstate.el # 0
      PROVE  LowLevels' /\ FrameIntact'
  BY <1>3 DEF FrameIntact, LowLevels
<1>4. CASE Plain
  <2>1. CASE \/ \E f \in Flags : Compute(f)
             \/ \E a \in Code : Branch(a)
             \/ \E m \in SUBSET Masks : MsrDaif(m)
    BY <1>3, <1>4, <2>1, PlainEffect DEF Compute, Branch, MsrDaif
  <2>2. ASSUME NEW e \in {1, 3},
               \/ \E v \in GuestSpsr : MsrSpsr(e, v)
               \/ \E a \in Code : MsrElr(e, a)
        PROVE  LowLevels' /\ FrameIntact'
    <3>1. /\ pstate' = pstate
          /\ frame' = [frame EXCEPT ![e].live = FALSE]
          /\ \A d \in {1, 3} : d # e => spsr'[d] = spsr[d] /\ elr'[d] = elr[d]
      BY <2>2 DEF MsrSpsr, MsrElr, ExcTypeOK, Linked
    <3>2. frame'[e].live = FALSE /\ \A d \in {1, 3} : d # e => frame'[d] = frame[d]
      BY <3>1 DEF ExcTypeOK, Linked, Frame
    <3> QED BY <3>1, <3>2 DEF FrameIntact, LowLevels
  <2> QED BY <1>0, <1>4, <2>1, <2>2 DEF Plain
<1>5. ASSUME NEW v \in SpVals, NEW bank \in {0, 1}, WriteSp(v) \/ MsrSp(bank, v)
      PROVE  LowLevels' /\ FrameIntact'
  BY <1>3, <1>5, WriteEffect
<1>6. ASSUME NEW s \in {0, 1}, MsrSpSel(s)
      PROVE  LowLevels' /\ FrameIntact'
  <2>1. /\ UNCHANGED <<spsr, elr, frame>> /\ pstate.el # 0
        /\ pstate' = [pstate EXCEPT !.spsel = s]
    BY <1>6, SpSelEffect
  <2>2. pstate'.el = pstate.el
    BY <2>1 DEF ExcTypeOK, Pstate
  <2> QED BY <1>3, <2>1, <2>2
<1>7. CASE UNCHANGED excVars
  <2>1. UNCHANGED <<spsr, elr, frame>> /\ pstate' = pstate
    BY <1>7 DEF excVars
  <2> QED BY <1>0, <1>3, <2>1
<1> QED BY <1>0, <1>1, <1>2, <1>4, <1>5, <1>6, <1>7, StepCases

\* A live frame is held unharmed by its link registers and ERET accepts it.
THEOREM FramesIntact ==
  ASSUME BootEl # 3
  PROVE  ExcSpec => []FrameIntact
<1>1. ASSUME ExcInit, ExcTypeOK PROVE FrameInv
  <2>1. pstate.el \in {0, 1} /\ (pstate.el = 0 => pstate.spsel = 0)
    BY <1>1, ExceptionAssumption DEF ExcInit, EntryPstate
  <2>2. \A e \in {1, 3} : frame[e].live = FALSE
    BY <1>1 DEF ExcInit, Linked
  <2> QED BY <1>1, <2>1, <2>2 DEF FrameInv, LowLevels, FrameIntact
<1>2. FrameInv => FrameIntact
  BY DEF FrameInv
<1> QED BY <1>1, <1>2, FrameInvStep, ExcTypeCorrect, PTL DEF ExcSpec

\* The handler's ERET resumes exactly what was interrupted.
THEOREM EretResumes ==
  ASSUME BootEl # 3
  PROVE  ExcSpec => EretRestores
<1> DEFINE Restores ==
      \A e \in {1, 3} :
        (Eret /\ pstate.el = e /\ frame[e].live) =>
          /\ pc' = frame[e].pc
          /\ nzcv' = frame[e].nzcv
          /\ pstate' = frame[e].pstate
<1>1. ExcTypeOK /\ FrameIntact => Restores
  <2> SUFFICES ASSUME ExcTypeOK, FrameIntact, NEW e \in {1, 3},
                      Eret, pstate.el = e, frame[e].live
               PROVE  /\ pc' = frame[e].pc
                      /\ nzcv' = frame[e].nzcv
                      /\ pstate' = frame[e].pstate
    OBVIOUS
  <2> DEFINE p == frame[e].pstate
  <2>1. /\ elr[e] = frame[e].pc /\ spsr[e] = Saved(p, frame[e].nzcv)
        /\ ModeValid(spsr[e]) /\ spsr[e].el <= e
    BY DEF FrameIntact
  <2>2. p \in Pstate /\ spsr[e].el \in Int
    BY DEF ExcTypeOK, Linked, Frame, Spsr, Els
  <2>3. /\ spsr[e].il = FALSE /\ spsr[e].nzcv = frame[e].nzcv
        /\ spsr[e].el = p.el /\ spsr[e].spsel = p.spsel /\ spsr[e].daif = p.daif
    BY <2>1 DEF Saved
  <2>4. Return(spsr[e])
    BY <2>1, <2>2, <2>3 DEF Eret
  <2>5. pstate' = [el |-> p.el, spsel |-> p.spsel, daif |-> p.daif]
    BY <2>3, <2>4 DEF Return, SwitchSp
  <2>6. p = [el |-> p.el, spsel |-> p.spsel, daif |-> p.daif]
    BY <2>2 DEF Pstate
  <2> QED BY <2>1, <2>3, <2>4, <2>5, <2>6 DEF Return
<1>2. ExcSpec => [][Restores]_excVars
  BY <1>1, ExcTypeCorrect, FramesIntact, PTL
<1> QED BY <1>2 DEF EretRestores

-----------------------------------------------------------------------------
(* The core.                                                               *)
\* Every step of the core, and every call between steps, is a step of the
\* exception model or leaves its state alone.
LEMMA StepIsExceptionStep ==
  ASSUME ExcTypeOK, [VcpuNext]_allVars
  PROVE  [ExcNext]_excVars
<1>1. CASE TakePending
  <2>1. PendingKind \in {IRQ, FIQ} /\ Unmasked(PendingKind)
    BY <1>1 DEF TakePending, PendingKind, IRQ, FIQ
  <2> QED BY <1>1, <2>1 DEF TakePending, ExcNext
<1>2. CASE FetchFault
  BY <1>2 DEF FetchFault, ExcNext, Instruction
<1>3. CASE Execute
  BY <1>3 DEF Execute, ExcNext
<1>4. ASSUME StepOver PROVE ExcNext
  <2>1. nzcv \in Flags /\ Compute(nzcv)
    BY <1>4 DEF StepOver, Compute, ExcTypeOK
  <2> QED BY <2>1 DEF ExcNext, Instruction
<1>5. CASE Sev
  BY <1>5, <1>4 DEF Sev
<1>6. ASSUME NEW op \in Waits, Wake(op) PROVE ExcNext
  BY <1>6, <1>4 DEF Wake
<1>7. ASSUME NEW op \in Waits, Park(op) PROVE UNCHANGED excVars
  BY <1>7 DEF Park
<1>8. CASE MsrImmediateAtEl0
  BY <1>8 DEF MsrImmediateAtEl0
<1>9. CASE Rearm \/ Machine \/ UNCHANGED allVars
  BY <1>9 DEF Rearm, Machine, SetIrq, SetFiq, allVars
<1> QED
  BY <1>1, <1>2, <1>3, <1>5, <1>6, <1>7, <1>8, <1>9 DEF VcpuNext, Step

\* The exception model takes type-correct states to type-correct states.
LEMMA ExcTypeStep ==
  ASSUME ExcTypeOK, [ExcNext]_excVars
  PROVE  ExcTypeOK'
BY StepCases, TakeEffect, ReturnEffect, PlainEffect, WriteEffect,
   SpSelEffect DEF Linked, excVars, ExcTypeOK

\* The initial state of the exception model is type correct.
LEMMA ExcTypeInit ==
  ASSUME ExcInit
  PROVE  ExcTypeOK
<1>1. EntryPstate(BootEl) \in Pstate
  BY ExceptionAssumption, EntryType DEF Els
<1>2. ZeroSpsr \in Spsr
  BY ExceptionAssumption DEF ZeroSpsr, Spsr, Els
<1>3. 0 \in Addresses /\ 0 \in Flags /\ 0 \in SpVals
  BY ExceptionAssumption DEF Addresses
<1> QED
  BY <1>1, <1>2, <1>3 DEF ExcInit, ExcTypeOK, Frame

\* Whatever the pins, the waits and the scheduler do, the core behaves as the
\* exception model (oemu_vcpu_step adds policy to exc.c and takes nothing
\* away): every theorem above of ExcSpec holds of VcpuSpec.
THEOREM VcpuImplementsException == VcpuSpec => StepsAreExceptionSteps
<1>1. VcpuInit => ExcInit /\ ExcTypeOK
  BY ExcTypeInit DEF VcpuInit
<1>2. ExcTypeOK /\ [VcpuNext]_allVars => ExcTypeOK' /\ [ExcNext]_excVars
  BY StepIsExceptionStep, ExcTypeStep
<1> QED
  BY <1>1, <1>2, PTL DEF VcpuSpec, StepsAreExceptionSteps, ExcSpec

\* Every variable of the core keeps its type: in particular the unsigned
\* countdown of oemu_vcpu_step never wraps below zero.
THEOREM VcpuTypeCorrect == VcpuSpec => []VcpuTypeOK
<1>1. VcpuInit => VcpuTypeOK
  <2> SUFFICES ASSUME VcpuInit PROVE VcpuTypeOK
    OBVIOUS
  <2>1. ExcTypeOK
    BY ExcTypeInit DEF VcpuInit
  <2>2. insns_left \in 0 .. Quantum
    BY QuantumAssumption DEF VcpuInit
  <2> QED BY <2>1, <2>2, Zenon DEF VcpuInit, VcpuTypeOK
<1>2. VcpuTypeOK /\ [VcpuNext]_allVars => VcpuTypeOK'
  <2> SUFFICES ASSUME VcpuTypeOK, [VcpuNext]_allVars PROVE VcpuTypeOK'
    OBVIOUS
  <2> USE DEF VcpuTypeOK
  <2>1. ExcTypeOK'
    BY StepIsExceptionStep, ExcTypeStep
  <2>2. insns_left' \in 0 .. Quantum
    <3>1. Charge \/ insns_left' = insns_left \/ insns_left' = Quantum
      BY DEF VcpuNext, Step, TakePending, FetchFault, Execute,
         MsrImmediateAtEl0, Sev, Wake, Park, Rearm, Machine, SetIrq, SetFiq,
         allVars, vcpuVars
    <3> QED BY <3>1, QuantumAssumption DEF Charge
  <2>3. irq' \in BOOLEAN /\ fiq' \in BOOLEAN /\ event_reg' \in BOOLEAN
    <3>1. CASE Machine
      BY <3>1, Zenon DEF Machine, SetIrq, SetFiq
    <3>2. CASE Step
      <4>1. UNCHANGED <<irq, fiq>>
        BY <3>2 DEF Step, TakePending, FetchFault, Execute, MsrImmediateAtEl0,
           Sev, Wake, Park
      <4>2. event_reg' = event_reg \/ event_reg' = TRUE \/ event_reg' = FALSE
        BY <3>2 DEF Step, TakePending, FetchFault, Execute, MsrImmediateAtEl0,
           Sev, Wake, Park
      <4> QED BY <4>1, <4>2, Zenon
    <3>3. CASE Rearm \/ UNCHANGED allVars
      <4>1. UNCHANGED <<irq, fiq, event_reg>>
        BY <3>3 DEF Rearm, allVars, vcpuVars
      <4> QED BY <4>1, Zenon
    <3> QED BY <3>1, <3>2, <3>3 DEF VcpuNext
  <2>4. at_op' \in Waits \cup {"other", "msr"}
    BY DEF VcpuNext, Step, TakePending, FetchFault, Execute,
       MsrImmediateAtEl0, Sev, Wake, Park, Rearm, Machine, SetIrq, SetFiq,
       allVars, vcpuVars
  <2> QED BY <2>1, <2>2, <2>3, <2>4
<1> QED BY <1>1, <1>2, PTL DEF VcpuSpec

\* Where an entry lands and what it saves.
LEMMA EntryLands ==
  ASSUME ExcTypeOK, NEW kind \in {IRQ, FIQ}, Interrupt(kind)
  PROVE  pc' \in EntriesOf(kind) /\ elr'[pstate'.el] = pc
<1> DEFINE t == Route(pstate.el)
<1>1. t \in {1, 3} /\ Take(kind, t, pc) /\ kind \in Kinds
  BY RouteType DEF Interrupt, Kinds, IRQ, FIQ
<1>2. PICK same \in BOOLEAN : same = (pstate.el = t)
  OBVIOUS
<1>3. PICK s \in {0, 1} : s = pstate.spsel
  BY DEF ExcTypeOK, Pstate
<1>4. pc' \in EntriesOf(kind)
  <2>1. pc' = VBAR[t] + VectorOffset(same, s, kind)
    BY <1>1, <1>2, <1>3 DEF Take
  <2>2. \E e \in {1, 3}, c \in BOOLEAN, d \in {0, 1} :
           pc' = VBAR[e] + VectorOffset(c, d, kind)
    BY <1>1, <2>1
  <2> QED BY <2>2 DEF EntriesOf
<1>5. pstate' = EntryPstate(t) /\ pstate'.el = t
  BY <1>1 DEF Take, SwitchSp, EntryPstate
<1>6. elr'[t] = pc
  BY <1>1 DEF Take, ExcTypeOK, Linked
<1> QED BY <1>4, <1>5, <1>6

\* oemu_vcpu_step takes a deliverable interrupt before it fetches anything,
\* whatever the guest and the machine do.
THEOREM InterruptsPrecise == VcpuSpec => InterruptsArePrecise
<1> DEFINE ready(pin, mask) == pin /\ mask \notin pstate.daif
           enters(kind) == /\ pc' \in EntriesOf(kind)
                           /\ elr'[pstate'.el] = pc
           Precise == insns_left' = insns_left - 1 =>
                        /\ ready(fiq, "F") => enters(FIQ)
                        /\ ready(irq, "I") /\ ~ready(fiq, "F") => enters(IRQ)
<1>1. VcpuTypeOK /\ [VcpuNext]_allVars => [Precise]_allVars
  <2> SUFFICES ASSUME VcpuTypeOK, VcpuNext, insns_left' = insns_left - 1,
                      ready(fiq, "F") \/ ready(irq, "I")
               PROVE  Precise
    BY Zenon
  <2>1. insns_left \in Int /\ ExcTypeOK
    BY QuantumAssumption DEF VcpuTypeOK
  <2>2. PendingKind # -1
    BY DEF PendingKind, Unmasked, IRQ, FIQ
  <2>3. TakePending
    <3>1. ~Machine
      BY <2>1 DEF Machine, SetIrq, SetFiq
    <3>2. ~Rearm
      BY <2>1, QuantumAssumption DEF Rearm, VcpuTypeOK
    <3>3. Step
      BY <3>1, <3>2 DEF VcpuNext
    <3> QED
      BY <2>2, <3>3 DEF Step, FetchFault, Execute, MsrImmediateAtEl0, Sev,
         Wake, Park, Fetched
  <2>4. PendingKind \in {IRQ, FIQ} /\ Interrupt(PendingKind)
    BY <2>2, <2>3 DEF TakePending, PendingKind
  <2>5. enters(PendingKind)
    BY <2>1, <2>4, EntryLands
  <2>6. CASE ready(fiq, "F")
    <3>1. PendingKind = FIQ
      BY <2>6 DEF PendingKind, Unmasked, FIQ
    <3> QED BY <2>5, <2>6, <3>1
  <2>7. CASE ~ready(fiq, "F")
    <3>1. PendingKind = IRQ
      BY <2>7 DEF PendingKind, Unmasked, IRQ, FIQ
    <3> QED BY <2>5, <2>7, <3>1
  <2> QED BY <2>6, <2>7
<1> QED
  BY <1>1, VcpuTypeCorrect, PTL DEF VcpuSpec, InterruptsArePrecise

\* A parked core never sits on an armed event and can always be stepped again
\* (vcpu_wait): the invariant is inductive once the types are known.
THEOREM ParkingSound == VcpuSpec => []ParkedHasNoEvent
<1>1. VcpuInit => ParkedHasNoEvent
  BY DEF VcpuInit, ParkedHasNoEvent, Waits
<1>2. VcpuTypeOK /\ ParkedHasNoEvent /\ [VcpuNext]_allVars => ParkedHasNoEvent'
  <2> SUFFICES ASSUME VcpuTypeOK, ParkedHasNoEvent, [VcpuNext]_allVars
               PROVE  ParkedHasNoEvent'
    OBVIOUS
  <2> USE DEF ParkedHasNoEvent, Waits
  <2>1. CASE TakePending \/ MsrImmediateAtEl0 \/ \E op \in Waits : Wake(op)
    BY <2>1 DEF TakePending, MsrImmediateAtEl0, Wake
  <2>2. CASE FetchFault \/ Execute \/ Sev
    BY <2>2 DEF FetchFault, Execute, Sev, Fetched
  <2>3. CASE \E op \in Waits : Park(op)
    BY <2>3 DEF Park, Wakes
  <2>4. CASE Rearm
    BY <2>4, QuantumAssumption DEF Rearm
  <2>5. CASE Machine \/ UNCHANGED allVars
    BY <2>5 DEF Machine, SetIrq, SetFiq, allVars, vcpuVars
  <2> QED
    BY <2>1, <2>2, <2>3, <2>4, <2>5 DEF VcpuNext, Step
<1> QED
  BY <1>1, <1>2, VcpuTypeCorrect, PTL DEF VcpuSpec
=============================================================================
