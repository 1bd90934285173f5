------------------------------- MODULE Vcpu -------------------------------
(***************************************************************************)
(* The virtual CPU of oemu, src/src/vcpu/vcpu.c: one step takes a pending  *)
(* interrupt or runs one instruction, WFI and WFE park the core, and the   *)
(* countdown insns_left hands the core back to the scheduler.              *)
(*                                                                         *)
(* `at_op' names the instruction the PC stands on while a step left it     *)
(* there (a parked wait, a refused MSR): the next fetch finds it again.    *)
(* cntvct, which every armed step advances, is modelled in module BootLoop.*)
(***************************************************************************)
EXTENDS Exception

CONSTANT Quantum      \* vcpu.quantum

ASSUME QuantumAssumption == Quantum \in Nat \ {0}

VARIABLES
  irq, fiq,        \* the level of each input pin
  event_reg,       \* what SEV sets and WFE consumes
  insns_left,      \* the countdown
  at_op             \* "other", or the op the PC still stands on

vcpuVars == <<irq, fiq, event_reg, insns_left, at_op>>
allVars == <<excVars, vcpuVars>>

Waits == {"wfi", "wfe"}

\* oemu_vcpu_init
VcpuInit ==
  /\ ExcInit
  /\ irq = FALSE
  /\ fiq = FALSE
  /\ event_reg = FALSE
  /\ insns_left = Quantum
  /\ at_op = "other"

-----------------------------------------------------------------------------
\* oemu_vcpu_set_irq and oemu_vcpu_set_fiq: the machine drives the pins
\* between steps.
SetIrq(level) ==
  /\ irq' = level
  /\ UNCHANGED <<excVars, fiq, event_reg, insns_left, at_op>>

SetFiq(level) ==
  /\ fiq' = level
  /\ UNCHANGED <<excVars, irq, event_reg, insns_left, at_op>>

\* Mutant: IRQ is looked at first.
PendingKindIrqFirst ==
  IF irq /\ Unmasked(IRQ) THEN IRQ
  ELSE IF fiq /\ Unmasked(FIQ) THEN FIQ
  ELSE -1

\* Mutant: the masks are not consulted.
PendingKindUnmasked ==
  IF fiq THEN FIQ ELSE IF irq THEN IRQ ELSE -1

\* oemu_vcpu_internal_pending_kind
PendingKind ==
  IF fiq /\ Unmasked(FIQ) THEN FIQ
  ELSE IF irq /\ Unmasked(IRQ) THEN IRQ
  ELSE -1

\* Mutant: the step is not charged.
ChargeNothing == insns_left > 0 /\ UNCHANGED insns_left

\* oemu_vcpu_step refuses once the countdown is spent, and every step that
\* makes progress is charged.
Charge ==
  /\ insns_left > 0
  /\ insns_left' = insns_left - 1

\* An interrupt is taken before the fetch.
TakePending ==
  /\ Charge
  /\ PendingKind # -1
  /\ Interrupt(PendingKind)
  /\ at_op' = "other"
  /\ UNCHANGED <<irq, fiq, event_reg>>

\* The word at the PC is fetched: it is `op' again if a step left the PC there.
Fetched(op) == PendingKind = -1 /\ at_op \in {"other", op}

\* The fetch aborts, or the word does not decode.
FetchFault ==
  /\ Charge
  /\ Fetched("other")
  /\ SyncFault
  /\ UNCHANGED <<at_op, irq, fiq, event_reg>>

\* oemu_exec_internal_dispatch_system on an instruction with no part in the
\* waits.
Execute ==
  /\ Charge
  /\ Fetched("other")
  /\ Instruction
  /\ UNCHANGED <<at_op, irq, fiq, event_reg>>

\* MSR DAIFSet, DAIFClr or SPSel at EL0: do_msr_immediate returns before the
\* exception is raised and before the PC advances.
MsrImmediateAtEl0 ==
  /\ Charge
  /\ Fetched("msr")
  /\ pstate.el = 0
  /\ at_op' = "msr"
  /\ UNCHANGED <<excVars, irq, fiq, event_reg>>

\* A hint steps over: only the PC moves.
StepOver ==
  /\ Advance
  /\ UNCHANGED <<nzcv, sp, pstate, sp_el, spsr, elr, frame>>

\* SEV and SEVL arm the event register.
Sev ==
  /\ Charge
  /\ Fetched("sev")
  /\ event_reg' = TRUE
  /\ StepOver
  /\ UNCHANGED <<at_op, irq, fiq>>

\* Mutant: a masked pin does not wake.
WakesUnmasked(op) == PendingKind # -1 \/ (op = "wfe" /\ event_reg)

\* Mutant: the event register wakes nothing.
WakesNoEvent(op) == irq \/ fiq

\* vcpu_wait: a pin wakes the core masked or not, an event only WFE.
Wakes(op) == irq \/ fiq \/ (op = "wfe" /\ event_reg)

\* The wait ends: the instruction executes as a hint.
Wake(op) ==
  /\ Charge
  /\ Fetched(op)
  /\ Wakes(op)
  /\ event_reg' = IF op = "wfe" THEN FALSE ELSE event_reg
  /\ StepOver
  /\ at_op' = "other"
  /\ UNCHANGED <<irq, fiq>>

\* OEMU_ERR_BLOCKED: nothing was consumed.
Park(op) ==
  /\ insns_left > 0
  /\ pc + INSN_SIZE \in Addresses
  /\ Fetched(op)
  /\ ~Wakes(op)
  /\ at_op' = op
  /\ UNCHANGED <<excVars, irq, fiq, event_reg, insns_left>>

\* oemu_vcpu_step
Step ==
  \/ TakePending
  \/ FetchFault
  \/ Execute
  \/ MsrImmediateAtEl0
  \/ Sev
  \/ \E op \in Waits : Wake(op) \/ Park(op)

\* Mutant: the countdown is not reloaded.
RearmForgotten ==
  /\ insns_left = 0 \/ at_op \in Waits
  /\ UNCHANGED allVars

\* oemu_vcpu_rearm, which boot_run calls at the end of a slice and after a
\* parked core was given input.
Rearm ==
  /\ insns_left = 0 \/ at_op \in Waits
  /\ insns_left' = Quantum
  /\ UNCHANGED <<excVars, irq, fiq, event_reg, at_op>>

Machine == \E level \in BOOLEAN : SetIrq(level) \/ SetFiq(level)

VcpuNext == Step \/ Rearm \/ Machine

VcpuSpec == VcpuInit /\ [][VcpuNext]_allVars

-----------------------------------------------------------------------------
(* Properties *)

VcpuTypeOK ==
  /\ ExcTypeOK
  /\ irq \in BOOLEAN /\ fiq \in BOOLEAN /\ event_reg \in BOOLEAN
  /\ insns_left \in 0 .. Quantum
  /\ at_op \in Waits \cup {"other", "msr"}

\* Whatever the pins do, every step of the core is a step of the exception
\* model, so what is proved of interrupted code there holds of the core: a
\* masked interrupt is never taken, a wait moves nothing but the PC.
StepsAreExceptionSteps == ExcSpec

\* The vectors an interrupt of this kind enters.
EntriesOf(kind) ==
  {VBAR[e] + VectorOffset(same, s, kind) : e \in {1, 3}, same \in BOOLEAN, s \in {0, 1}}

\* Interrupts are precise: when a step runs while a pin is high and its mask
\* clear, that step enters the pin's vector, FIQ before IRQ, and saves the
\* address of the instruction that has not run, so that it runs after the ERET.
InterruptsArePrecise ==
  [][ LET ready(pin, mask) == pin /\ mask \notin pstate.daif
          enters(kind) == /\ pc' \in EntriesOf(kind)
                          /\ elr'[pstate'.el] = pc
      IN  insns_left' = insns_left - 1 =>
            /\ ready(fiq, "F") => enters(FIQ)
            /\ ready(irq, "I") /\ ~ready(fiq, "F") => enters(IRQ) ]_allVars

\* A core parked at a wait has nothing to wake it: never an armed event under
\* WFE (SEV before the wait is not lost), and it can only have parked with the
\* countdown unspent, so the scheduler can step it again.
ParkedHasNoEvent ==
  /\ at_op = "wfe" => ~event_reg
  /\ at_op \in Waits => insns_left > 0

\* A step at EL0 that reports OEMU_OK made progress (vcpu.h: "OEMU_OK: progress
\* -- an instruction executed, an exception was delivered"; exec.c: "an
\* exception was delivered: PC is the vector").
UserProgress ==
  [][ (pstate.el = 0 /\ insns_left' = insns_left - 1) =>
        (pc' # pc \/ pstate'.el # 0) ]_allVars

-----------------------------------------------------------------------------
(* Liveness *)

\* boot_run steps an armed core and rearms it when its slice is over; nothing
\* is assumed of the pins.
FairVcpuSpec == VcpuSpec /\ WF_allVars(Step) /\ WF_allVars(Rearm)

\* Control always returns to the scheduler: no guest, however its vectors fault
\* and its interrupts storm, keeps the core longer than its slice.
SliceEnds == []<>(insns_left = 0 \/ at_op \in Waits)

\* A wake-up is never lost: a core parked at WFI or WFE runs on once a pin is
\* held high, masked or not, even if its handler can never be entered. This is
\* what vcpu_wait does and says (vcpu.c:96-101, "pending-but-masked is woken
\* anyway"). Two comments at pending_kind deny it of a masked pin, "it neither
\* delivers nor wakes" (vcpu.c:29-30) and "must not wake a WFI either, so this
\* one function is the whole wake question" (vcpu_internal.h:20-23): the wake
\* does not go through that function, and the comments are reported as wrong.
WakeUp == (at_op \in Waits /\ (irq \/ fiq)) ~> (at_op \notin Waits \/ ~(irq \/ fiq))

\* A FIQ pin held high is serviced unless the guest keeps it masked: the end
\* of a slice or a parked core does not delay it for ever.
FiqServiced ==
  (fiq /\ "F" \notin pstate.daif) ~> (~fiq \/ "F" \in pstate.daif)
=============================================================================
