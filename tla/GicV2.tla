------------------------------- MODULE GicV2 -------------------------------
(***************************************************************************)
(* The GICv2 interrupt controller of oemu, src/src/dev/gicv2.c: the        *)
(* distributor and the CPU interface as the guest programs them, and       *)
(* boot_refresh_levels of main.c, which drives the pending inputs and      *)
(* samples the output into the core's pin.                                 *)
(*                                                                         *)
(* One action per register write that a decision reads, one for the read   *)
(* of GICC_IAR (which acknowledges) and one for the refresh.  Group,       *)
(* configuration, binary point and SGIR are stored and read back but no    *)
(* decision of the controller depends on them; they are left out.          *)
(* The access size is ignored by the code, so a register write always      *)
(* assigns the whole word.                                                 *)
(***************************************************************************)
EXTENDS GicPriority, FiniteSets

CONSTANTS
  Lines,       \* the interrupt ids of the instance
  Wired,       \* the lines the run loop drives: the UART's and the timers'
  NrLines,     \* the line count given to oemu_gicv2_init
  Priorities,  \* priority bytes the guest programs
  Masks        \* values the guest programs into GICC_PMR

ASSUME GicAssumption ==
  /\ Lines \subseteq 0 .. 63
  /\ Wired \subseteq Lines
  /\ NrLines \in {32, 64}
  /\ Priorities \subseteq 0 .. 255
  /\ Masks \subseteq 0 .. 255

VARIABLES
  ctl, cpu_ctl,                \* bit 0 of GICD_CTLR and of GICC_CTLR
  cpu_pmr,                     \* GICC_PMR
  running_pri,                 \* the stored running priority
  enable, pending, active,     \* sets of lines
  priority,                    \* priority byte of each line
  target,                      \* lines targeted at the CPU
  iar,                         \* the last value read from GICC_IAR
  pin,                         \* the vCPU's irq_level, as last sampled
  tampered,                    \* history: the guest overrode the active state
                               \* or reprioritised a line while it was active
  since                        \* history: in which directions the guest has
                               \* changed the controller since the sample

vars == <<ctl, cpu_ctl, cpu_pmr, running_pri, enable, pending, active,
          priority, target, iar, pin, tampered, since>>

Max8 == 0 .. 255

TypeOK ==
  /\ ctl \in BOOLEAN
  /\ cpu_ctl \in BOOLEAN
  /\ cpu_pmr \in Max8
  /\ running_pri \in 0 .. IDLE_PRIORITY
  /\ enable \in SUBSET Lines
  /\ pending \in SUBSET Lines
  /\ active \in SUBSET Lines
  /\ priority \in [Lines -> Max8]
  /\ target \in SUBSET Lines
  /\ iar \in Lines \cup {SPURIOUS}
  /\ pin \in BOOLEAN
  /\ tampered \in BOOLEAN
  /\ since \in SUBSET {"fewer", "more"}

-----------------------------------------------------------------------------
\* oemu_gicv2_init: memset to zero, then the reset priority and target.
Init ==
  /\ ctl = FALSE
  /\ cpu_ctl = FALSE
  /\ cpu_pmr = 0
  /\ running_pri = 0
  /\ enable = {}
  /\ pending = {}
  /\ active = {}
  /\ priority = [i \in Lines |-> RESET_PRIORITY]
  /\ target = Lines
  /\ iar = SPURIOUS
  /\ pin = FALSE
  /\ tampered = FALSE
  /\ since = {}

\* What gic_acknowledge and irq_level scan for in the current state.
Candidates ==
  Eligible(enable, pending, active, priority, target,
           RunningPriority(active, priority), cpu_pmr, NrLines)

Scan == Best(Candidates, priority)

\* Mutant: the running floor is left out of the level decision.
IrqLevelNoFloor ==
  ctl /\ cpu_ctl
  /\ Eligible(enable, pending, active, priority, target, IDLE_PRIORITY,
              cpu_pmr, NrLines) # {}

\* oemu_gicv2_irq_level
IrqLevel == ctl /\ cpu_ctl /\ Scan # SPURIOUS

\* The guest's write may have taken lines out of the scan's reach, or put
\* lines into it.
Since(fewer, more) ==
  since' = since \cup (IF fewer THEN {"fewer"} ELSE {}) \cup (IF more THEN {"more"} ELSE {})

\* The lines a bank word can name: 32 consecutive ids.
Bank(b) == {i \in Lines : i \div 32 = b}

-----------------------------------------------------------------------------
\* Distributor writes (dist_write).

DistCtl(on) ==
  /\ ctl' = on
  /\ Since(FALSE, on /\ ~ctl)
  /\ UNCHANGED <<cpu_ctl, cpu_pmr, running_pri, enable, pending, active,
                 priority, target, iar, pin, tampered>>

SetEnable(mask) ==
  /\ enable' = enable \cup mask
  /\ Since(FALSE, ~(mask \subseteq enable))
  /\ UNCHANGED <<ctl, cpu_ctl, cpu_pmr, running_pri, pending, active,
                 priority, target, iar, pin, tampered>>

ClearEnable(mask) ==
  /\ enable' = enable \ mask
  /\ Since(mask \cap enable # {}, FALSE)
  /\ UNCHANGED <<ctl, cpu_ctl, cpu_pmr, running_pri, pending, active,
                 priority, target, iar, pin, tampered>>

SetPend(mask) ==
  /\ pending' = pending \cup mask
  /\ Since(FALSE, ~(mask \subseteq pending))
  /\ UNCHANGED <<ctl, cpu_ctl, cpu_pmr, running_pri, enable, active,
                 priority, target, iar, pin, tampered>>

ClearPend(mask) ==
  /\ pending' = pending \ mask
  /\ Since(mask \cap pending # {}, FALSE)
  /\ UNCHANGED <<ctl, cpu_ctl, cpu_pmr, running_pri, enable, active,
                 priority, target, iar, pin, tampered>>

\* ISACTIVER: the running priority field is not recomputed.
SetActive(mask) ==
  /\ active' = active \cup mask
  /\ tampered' = (tampered \/ ~(mask \subseteq active))
  /\ Since(~(mask \subseteq active), FALSE)
  /\ UNCHANGED <<ctl, cpu_ctl, cpu_pmr, running_pri, enable, pending,
                 priority, target, iar, pin>>

ClearActive(mask) ==
  /\ active' = active \ mask
  /\ Since(FALSE, mask \cap active # {})
  /\ UNCHANGED <<ctl, cpu_ctl, cpu_pmr, running_pri, enable, pending,
                 priority, target, iar, pin, tampered>>

\* IPRIORITYR: one word is four lines, all four bytes are assigned.
PriorityWord(w) == {i \in Lines : i \div 4 = w}

SetPriority(w, bytes) ==
  /\ priority' = [i \in Lines |->
                    IF i \in PriorityWord(w) THEN bytes[i] ELSE priority[i]]
  /\ tampered' = (tampered \/ \E i \in PriorityWord(w) \cap active :
                                 bytes[i] # priority[i])
  /\ Since(priority' # priority, priority' # priority)
  /\ UNCHANGED <<ctl, cpu_ctl, cpu_pmr, running_pri, enable, pending, active,
                 target, iar, pin>>

\* One target register per line; those of SGIs and PPIs are fixed.
SetTarget(i, here) ==
  /\ target' = IF i < NrLines /\ i >= 32
               THEN IF here THEN target \cup {i} ELSE target \ {i}
               ELSE target
  /\ Since(~here, here)
  /\ UNCHANGED <<ctl, cpu_ctl, cpu_pmr, running_pri, enable, pending, active,
                 priority, iar, pin, tampered>>

-----------------------------------------------------------------------------
\* CPU interface (cpu_read, cpu_write).

CpuCtl(on) ==
  /\ cpu_ctl' = on
  /\ Since(FALSE, on /\ ~cpu_ctl)
  /\ UNCHANGED <<ctl, cpu_pmr, running_pri, enable, pending, active,
                 priority, target, iar, pin, tampered>>

CpuPmr(m) ==
  /\ cpu_pmr' = m
  /\ Since(m < cpu_pmr, m > cpu_pmr)
  /\ UNCHANGED <<ctl, cpu_ctl, running_pri, enable, pending, active,
                 priority, target, iar, pin, tampered>>

\* Mutant: the acknowledgement clears the pending state of every line.
AcknowledgeClearsAll ==
  /\ iar' = Scan
  /\ IF Scan = SPURIOUS
     THEN UNCHANGED <<active, pending, running_pri>>
     ELSE /\ active' = active \cup {Scan}
          /\ pending' = {}
          /\ running_pri' = RunningPriority(active \cup {Scan}, priority)
  /\ Since(Scan # SPURIOUS, FALSE)
  /\ UNCHANGED <<ctl, cpu_ctl, cpu_pmr, enable, priority, target, pin, tampered>>

\* Mutant: the scan does not look at the lines in service.
ScanIgnoringActive ==
  Best(Eligible(enable, pending, active, priority, target, IDLE_PRIORITY,
                cpu_pmr, NrLines), priority)

AcknowledgeNoFloor ==
  /\ iar' = ScanIgnoringActive
  /\ IF ScanIgnoringActive = SPURIOUS
     THEN UNCHANGED <<active, pending, running_pri>>
     ELSE /\ active' = active \cup {ScanIgnoringActive}
          /\ pending' = pending \ {ScanIgnoringActive}
          /\ running_pri' = RunningPriority(active \cup {ScanIgnoringActive}, priority)
  /\ Since(ScanIgnoringActive # SPURIOUS, FALSE)
  /\ UNCHANGED <<ctl, cpu_ctl, cpu_pmr, enable, priority, target, pin, tampered>>

\* gic_acknowledge: reading GICC_IAR.  Neither enable bit is consulted.
Acknowledge ==
  /\ iar' = Scan
  /\ IF Scan = SPURIOUS
     THEN UNCHANGED <<active, pending, running_pri>>
     ELSE /\ active' = active \cup {Scan}
          /\ pending' = pending \ {Scan}
          /\ running_pri' = RunningPriority(active \cup {Scan}, priority)
  /\ Since(Scan # SPURIOUS, FALSE)
  /\ UNCHANGED <<ctl, cpu_ctl, cpu_pmr, enable, priority, target, pin, tampered>>

\* GICC_EOIR: an id outside the bank only recomputes the running priority.
EndOfInterrupt(id) ==
  /\ active' = active \ {id}
  /\ running_pri' = RunningPriority(active \ {id}, priority)
  /\ Since(FALSE, id \in active)
  /\ UNCHANGED <<ctl, cpu_ctl, cpu_pmr, enable, pending, priority, target,
                 iar, pin, tampered>>

-----------------------------------------------------------------------------
\* oemu_gicv2_set_pending, once for each wired source: its level, high or low,
\* overwrites what the guest or an acknowledgement left there.
SetPending(high) == pending' = (pending \ Wired) \cup high

\* boot_refresh_levels: the sources' levels, then the controller's verdict
\* into the core, where it stays until the next refresh.
Refresh(high) ==
  /\ SetPending(high)
  /\ since' = {}
  /\ UNCHANGED <<ctl, cpu_ctl, cpu_pmr, running_pri, enable, active,
                 priority, target, iar, tampered>>
  /\ pin' = IrqLevel'

-----------------------------------------------------------------------------
DistWrite ==
  \/ \E on \in BOOLEAN : DistCtl(on)
  \/ \E b \in {0, 1} : \E mask \in SUBSET Bank(b) :
        \/ SetEnable(mask)
        \/ ClearEnable(mask)
        \/ SetPend(mask)
        \/ ClearPend(mask)
        \/ SetActive(mask)
        \/ ClearActive(mask)
  \/ \E w \in 0 .. 15 : \E bytes \in [PriorityWord(w) -> Priorities] :
        SetPriority(w, bytes)
  \/ \E i \in Lines, here \in BOOLEAN : SetTarget(i, here)

CpuAccess ==
  \/ \E on \in BOOLEAN : CpuCtl(on)
  \/ \E m \in Masks : CpuPmr(m)
  \/ Acknowledge
  \/ \E id \in Lines \cup {SPURIOUS} : EndOfInterrupt(id)

RunLoop == \E high \in SUBSET Wired : Refresh(high)

Next == DistWrite \/ CpuAccess \/ RunLoop

Spec == Init /\ [][Next]_vars

-----------------------------------------------------------------------------
(* Properties *)

\* Nesting is by strictly rising precedence: unless the guest overrides the
\* active state by hand, no two lines in service have the same priority, in
\* whatever order lines were acknowledged and completed (the running-priority
\* floor of gic_acknowledge).
ActiveLinesNest ==
  ~tampered =>
    \A i, j \in active : i # j => priority[i] # priority[j]

\* The line whose acknowledgement was last returned out of the IAR beats every
\* other line in service until it is completed, so the guest's handler stack
\* is ordered as the controller believes it to be.
LastAckRuns ==
  (~tampered /\ iar \in active) =>
     (RunningPriority(active, priority) = priority[iar])

\* The pin is a sample, the acknowledgement looks at the tables: between the
\* two the guest may program the controller in any order.  As long as nothing
\* it did can take a line away, a core that enters its handler because of the
\* pin reads a line out of the IAR and not 1023, whatever it enabled, completed
\* or made pending meanwhile; and as long as nothing it did can add a line, a
\* low pin hides none that the controller, switched on, would deliver.
PinAgrees ==
  /\ pin /\ "fewer" \notin since => Scan # SPURIOUS
  /\ ~pin /\ "more" \notin since /\ ctl /\ cpu_ctl => Scan = SPURIOUS

\* What reading GICC_IAR returns was pending and not in service, beats every
\* line in service, and is the only line the read moves from pending to
\* active; a read that returns 1023 moves nothing and leaves nothing behind
\* that could have been returned: no interrupt is dropped or invented by the
\* acknowledgement of another.
AckConsumesExactlyOne ==
  [][iar' # iar =>
       IF iar' = SPURIOUS
       THEN Candidates = {} /\ UNCHANGED <<pending, active, running_pri>>
       ELSE /\ iar' \in pending /\ iar' \notin active
            /\ pending' = pending \ {iar'}
            /\ active' = active \cup {iar'}
            /\ \A j \in active : priority[iar'] < priority[j]]_vars

=============================================================================
