------------------------------ MODULE BootLoop ------------------------------
(***************************************************************************)
(* The scheduler of `oemu boot', boot_run in src/src/main.c, with the      *)
(* parts it connects: the core (oemu_vcpu_run), the level-driven interrupt *)
(* inputs it samples (boot_refresh_levels, oemu_gtimer_pending), the       *)
(* console it feeds from stdin, the power events of the machine and PSCI.  *)
(*                                                                         *)
(* The guest is any program; what the loop can see of it is whether it is  *)
(* parked and what it does to the devices.  `passes' is the set of         *)
(* interrupt sources that its masks let through (IMSC, the distributor,    *)
(* the priority mask) and `ris' the UART's own status; modules GicV2 and   *)
(* Pl011 have the detail.  `timer' is the number                           *)
(* of counts until the comparator expires, 0 once it has, -1 while it is   *)
(* off.  Typed bytes are numbered in the order they are typed.             *)
(***************************************************************************)
EXTENDS Integers, Sequences, SequencesExt

CONSTANTS
  MaxInsns,      \* --max-insns
  BootQuantum,   \* BOOT_QUANTUM, also the quantum of the vCPU
  LevelQuantum,  \* BOOT_LEVEL_QUANTUM
  HeldMax,       \* BOOT_HELD_MAX
  RxRing,        \* OEMU_PL011_RX_RING
  MaxTyped,      \* bound on the bytes typed
  MaxTimer,      \* bound on the delay the guest programs
  MaxTx          \* bound on the bytes queued to transmit

ASSUME BootAssumption ==
  /\ MaxInsns \in Nat
  /\ BootQuantum \in Nat \ {0} /\ LevelQuantum \in Nat \ {0}
  /\ HeldMax \in Nat /\ RxRing \in Nat \ {0}
  /\ MaxTyped \in Nat /\ MaxTimer \in Nat /\ MaxTx \in Nat

Sources == {"rx", "tx", "timer"}  \* two of the UART's line, and the comparators
Points == {"slice", "run", "refresh", "pump", "stdin", "verdict", "await",
           "read", "exited"}

VARIABLES
  stdio,               \* opts.stdio: the console is wired to stdin
  at,                  \* where boot_run is
  budget,              \* instructions left of --max-insns
  todo,                \* instructions left of the slice
  chunk, stepped,      \* of the sub-slice: what is left, whether any ran
  st,                  \* what oemu_vcpu_run returned
  parked, irq,         \* the core
  timer, passes,       \* the comparator and the interrupt masks
  listening, rx, tx,   \* the UART: receiver on, receive ring, bytes queued
  ris,                 \* its raw interrupt status
  event,               \* machine.event
  typed, closed,       \* stdin: bytes typed, end of file
  taken,               \* bytes read from stdin
  held, stdin_eof,     \* boot_run's own queue and what it knows of stdin
  exit, warned,        \* the verdict, and whether boot_console_warn ran
  lost, delivered,     \* history: bytes held_drop counts, bytes the UART took
  age                  \* history: steps since the levels were sampled

loopVars == <<at, budget, todo, chunk, stepped, st, exit, warned>>
guestVars == <<parked, timer, passes, listening, event>>
stdinVars == <<taken, held, stdin_eof, lost, delivered>>
hostVars == <<stdio, typed, closed>>
uartVars == <<rx, tx, ris>>
bootVars == <<loopVars, guestVars, irq, uartVars, stdinVars, hostVars, age>>

Least(a, b) == IF a < b THEN a ELSE b

BootInit ==
  /\ stdio \in BOOLEAN
  /\ at = "slice"
  /\ budget = MaxInsns
  /\ todo = Least(MaxInsns, BootQuantum)
  /\ chunk = 0 /\ stepped = TRUE /\ st = "ok"
  /\ parked = FALSE /\ irq = FALSE
  /\ timer = -1 /\ passes = {}
  /\ listening = FALSE /\ rx = <<>> /\ tx = 0 /\ ris = {}
  /\ event = "none"
  /\ typed = 0 /\ closed = FALSE /\ taken = 0
  /\ held = <<>> /\ stdin_eof = FALSE
  /\ exit = "none" /\ warned = FALSE
  /\ lost = {} /\ delivered = <<>>
  /\ age = 0

-----------------------------------------------------------------------------
(* The core: oemu_vcpu_run on one sub-slice *)

\* The sub-slice loop: another one while the slice lasts and the core ran.
Chunk ==
  /\ at = "slice"
  /\ IF todo > 0
     THEN /\ at' = "run"
          /\ chunk' = Least(todo, LevelQuantum)
          /\ stepped' = FALSE
     ELSE at' = "pump" /\ UNCHANGED <<chunk, stepped>>
  /\ UNCHANGED <<budget, todo, st, exit, warned, guestVars, irq, uartVars,
                 stdinVars, hostVars, age>>

\* oemu_vcpu_step advances the counter before anything else.
Tick == IF timer > 0 THEN timer - 1 ELSE timer

\* Mutant: the halt request is not consulted between instructions.
RunningUnchecked == at = "run" /\ chunk > 0

\* The run goes on: not halted, and the sub-slice is not over.
Running == at = "run" /\ chunk > 0 /\ event = "none"

\* A step that makes progress; a parked core only runs with its pin high.
Progress ==
  /\ Running
  /\ parked => irq
  /\ parked' = FALSE
  /\ chunk' = chunk - 1 /\ todo' = todo - 1 /\ budget' = budget - 1
  /\ stepped' = TRUE
  /\ age' = age + 1
  /\ UNCHANGED <<at, st, exit, warned, irq, stdinVars, hostVars>>

\* An instruction that reaches the devices; a wait that ends reaches none.
Acts == ~parked /\ Progress

Plain == Progress /\ timer' = Tick /\ UNCHANGED <<passes, listening, event, uartVars>>

ArmTimer(d) ==
  /\ Acts
  /\ timer' = d
  /\ UNCHANGED <<passes, listening, event, uartVars>>

Unmask(S) ==
  /\ Acts
  /\ passes' = S
  /\ timer' = Tick
  /\ UNCHANGED <<listening, event, uartVars>>

Listen(on) ==
  /\ Acts
  /\ listening' = on
  /\ timer' = Tick
  /\ UNCHANGED <<passes, event, uartVars>>

ReadDr ==
  /\ Acts
  /\ rx # <<>>
  /\ rx' = Tail(rx)
  /\ ris' = IF rx' = <<>> THEN ris \ {"rx"} ELSE ris
  /\ timer' = Tick
  /\ UNCHANGED <<passes, listening, event, tx>>

\* A byte is queued, or passed through with the FIFO off; in loopback (byte 0)
\* it comes back if there is room.
WriteDr ==
  /\ Acts
  /\ tx' \in {tx, Least(tx + 1, MaxTx)}
  /\ \/ UNCHANGED rx /\ ris' = ris \cup {"tx"}
     \/ /\ listening /\ Len(rx) < RxRing
        /\ rx' = Append(rx, 0) /\ ris' = ris \cup {"rx", "tx"}
  /\ timer' = Tick
  /\ UNCHANGED <<passes, listening, event>>

ClearInts(S) ==
  /\ Acts
  /\ ris' = ris \ S
  /\ timer' = Tick
  /\ UNCHANGED <<passes, listening, event, rx, tx>>

\* boot_fw_call: PSCI SYSTEM_OFF powers the machine off, SYSTEM_RESET asks for
\* a reset; both latch a machine event.
FwCall(e) ==
  /\ Acts
  /\ event' = e
  /\ timer' = Tick
  /\ UNCHANGED <<passes, listening, uartVars>>

\* WFI with the pin low: the core parks and the run ends.
Blocked ==
  /\ Running
  /\ ~irq
  /\ parked' = TRUE
  /\ timer' = Tick
  /\ st' = "blocked"
  /\ at' = "refresh"
  /\ UNCHANGED <<budget, todo, chunk, stepped, exit, warned, passes, listening,
                 event, irq, uartVars, stdinVars, hostVars, age>>

\* The run ends because the guest halted or the sub-slice is over.
RunEnds ==
  /\ at = "run" /\ ~Running
  /\ st' = IF event # "none" THEN "ok" ELSE "timeout"
  /\ at' = "refresh"
  /\ UNCHANGED <<budget, todo, chunk, stepped, exit, warned, guestVars, irq, uartVars,
                 stdinVars, hostVars, age>>

Guest ==
  \/ Plain
  \/ \E d \in -1 .. MaxTimer : ArmTimer(d)
  \/ \E S \in SUBSET Sources : Unmask(S)
  \/ \E on \in BOOLEAN : Listen(on)
  \/ ReadDr
  \/ WriteDr
  \/ \E S \in SUBSET {"rx", "tx"} : ClearInts(S)
  \/ \E e \in {"powerdown", "reset"} : FwCall(e)
  \/ Blocked

-----------------------------------------------------------------------------
(* Between sub-slices and between slices *)

\* What boot_refresh_levels hands to the core.
Level ==
  \/ ris \cap passes # {}
  \/ "timer" \in passes /\ timer = 0

\* Mutant: the levels are sampled once per slice only.
RefreshLate ==
  /\ at = "refresh"
  /\ IF stepped /\ st # "blocked" /\ todo > 0
     THEN at' = "slice" /\ UNCHANGED <<irq, age>>
     ELSE at' = "pump" /\ irq' = Level /\ age' = 0
  /\ UNCHANGED <<budget, todo, chunk, stepped, st, exit, warned, guestVars, uartVars,
                 stdinVars, hostVars>>

\* The levels are sampled after every sub-slice; one that ran nothing, and one
\* that parked, ends the slice.
Refresh ==
  /\ at = "refresh"
  /\ irq' = Level
  /\ age' = 0
  /\ at' = IF stepped /\ st # "blocked" /\ todo > 0 THEN "slice" ELSE "pump"
  /\ UNCHANGED <<budget, todo, chunk, stepped, st, exit, warned, guestVars, uartVars,
                 stdinVars, hostVars>>

\* Mutant: the console is drained only when the guest goes on.
PumpIfRunning ==
  /\ at = "pump"
  /\ tx' = IF event = "none" THEN 0 ELSE tx
  /\ at' = IF stdio THEN "stdin" ELSE "verdict"
  /\ UNCHANGED <<budget, todo, chunk, stepped, st, exit, warned, guestVars, irq, rx, ris,
                 stdinVars, hostVars, age>>

\* oemu_pl011_pump: the console drains on every slice boundary.
Pump ==
  /\ at = "pump"
  /\ tx' = 0
  /\ at' = IF stdio THEN "stdin" ELSE "verdict"
  /\ UNCHANGED <<budget, todo, chunk, stepped, st, exit, warned, guestVars, irq, rx, ris,
                 stdinVars, hostVars, age>>

\* Mutant: a byte the device refuses is dropped.
InjectHeldDrops(queue) ==
  LET room == IF listening THEN RxRing - Len(rx) ELSE 0
      n == Least(room, Len(queue))
  IN  /\ rx' = rx \o SubSeq(queue, 1, n)
      /\ delivered' = delivered \o SubSeq(queue, 1, n)
      /\ ris' = IF n > 0 THEN ris \cup {"rx"} ELSE ris
      /\ held' = <<>>

\* boot_inject_held: the receiver takes bytes from the front until it is full,
\* none while it is off; the refused ones are kept.
InjectHeld(queue) ==
  LET room == IF listening THEN RxRing - Len(rx) ELSE 0
      n == Least(room, Len(queue))
  IN  /\ rx' = rx \o SubSeq(queue, 1, n)
      /\ delivered' = delivered \o SubSeq(queue, 1, n)
      /\ ris' = IF n > 0 THEN ris \cup {"rx"} ELSE ris
      /\ held' = SubSeq(queue, n + 1, Len(queue))

\* The bytes from..typed, as many as the queue has room for; the others are
\* counted as dropped.
Enqueue(queue, from) ==
  LET n == Least(HeldMax - Len(queue), typed - from + 1)
  IN  queue \o [i \in 1 .. n |-> from + i - 1]
Overflow(queue, from) ==
  {b \in from .. typed : b > from + HeldMax - Len(queue) - 1}

\* boot_pump_stdin: everything typed so far, and end of file when it is next.
PumpStdin ==
  /\ at = "stdin"
  /\ taken' = typed
  /\ stdin_eof' = (stdin_eof \/ closed)
  /\ lost' = lost \cup Overflow(held, taken + 1)
  /\ InjectHeld(Enqueue(held, taken + 1))
  /\ at' = "verdict"
  /\ UNCHANGED <<budget, todo, chunk, stepped, st, exit, warned, guestVars, irq, tx,
                 hostVars, age>>

\* oemu_vcpu_rearm and the next slice.
NextSlice ==
  /\ at' = "slice"
  /\ todo' = Least(budget, BootQuantum)
  /\ st' = "ok"
  /\ UNCHANGED <<budget, chunk, stepped, exit, warned>>

Exit(code, warn) ==
  /\ exit' = code
  /\ warned' = warn
  /\ at' = "exited"
  /\ UNCHANGED <<budget, todo, chunk, stepped, st>>

\* Mutant: a spent budget is looked at before the machine's event.
VerdictBudgetFirst ==
  /\ at = "verdict"
  /\ IF budget = 0 THEN Exit("timeout", TRUE)
     ELSE IF event = "powerdown" THEN Exit("guest", TRUE)
     ELSE IF event = "reset" THEN Exit("error", FALSE)
     ELSE IF st = "blocked"
          THEN IF stdio
               THEN at' = "await" /\ UNCHANGED <<budget, todo, chunk, stepped, st, exit, warned>>
               ELSE Exit("blocked", FALSE)
     ELSE NextSlice
  /\ UNCHANGED <<guestVars, irq, uartVars, stdinVars, hostVars, age>>

\* Mutant: the reset event is not looked at.
VerdictNoReset ==
  /\ at = "verdict"
  /\ IF event = "powerdown" THEN Exit("guest", TRUE)
     ELSE IF st = "blocked"
          THEN IF stdio
               THEN at' = "await" /\ UNCHANGED <<budget, todo, chunk, stepped, st, exit, warned>>
               ELSE Exit("blocked", FALSE)
     ELSE IF budget = 0 THEN Exit("timeout", TRUE)
     ELSE NextSlice
  /\ UNCHANGED <<guestVars, irq, uartVars, stdinVars, hostVars, age>>

\* Power-down first, then reset, then a parked core, then the budget.
Verdict ==
  /\ at = "verdict"
  /\ IF event = "powerdown" THEN Exit("guest", TRUE)
     ELSE IF event = "reset" THEN Exit("error", FALSE)
     ELSE IF st = "blocked"
          THEN IF stdio
               THEN at' = "await" /\ UNCHANGED <<budget, todo, chunk, stepped, st, exit, warned>>
               ELSE Exit("blocked", FALSE)
     ELSE IF budget = 0 THEN Exit("timeout", TRUE)
     ELSE NextSlice
  /\ UNCHANGED <<guestVars, irq, uartVars, stdinVars, hostVars, age>>

\* boot_await_input up to the read: held bytes are offered again; if some
\* stay the guest is stepped again, else end of file gives up.
Await ==
  /\ at = "await"
  /\ UNCHANGED <<guestVars, tx, taken, stdin_eof, lost, hostVars>>
  /\ InjectHeld(held)
  /\ IF held' # <<>>
     THEN /\ NextSlice
          /\ irq' = Level' /\ age' = 0
     ELSE /\ UNCHANGED <<irq, age>>
          /\ IF stdin_eof THEN Exit("blocked", FALSE)
             ELSE at' = "read" /\ UNCHANGED <<budget, todo, chunk, stepped, st, exit, warned>>

\* The blocking read: the next byte with the rest of the line behind it, or
\* end of file.
Read ==
  /\ at = "read"
  /\ UNCHANGED <<guestVars, tx, hostVars>>
  /\ \/ /\ taken < typed
        /\ taken' = typed
        /\ stdin_eof' = closed
        /\ lost' = lost \cup Overflow(held, taken + 1)
        /\ InjectHeld(Enqueue(held, taken + 1))
        /\ NextSlice
        /\ irq' = Level' /\ age' = 0
     \/ /\ taken = typed /\ closed
        /\ stdin_eof' = TRUE
        /\ Exit("blocked", FALSE)
        /\ UNCHANGED <<taken, lost, held, delivered, rx, ris, irq, age>>

Loop ==
  \/ Chunk \/ Guest \/ RunEnds \/ Refresh \/ Pump \/ PumpStdin \/ Verdict
  \/ Await \/ Read

\* Someone types, or closes the console (external).
Type ==
  /\ ~closed /\ typed < MaxTyped
  /\ typed' = typed + 1
  /\ UNCHANGED <<loopVars, guestVars, irq, uartVars, stdinVars, stdio, closed, age>>

Close ==
  /\ ~closed
  /\ closed' = TRUE
  /\ UNCHANGED <<loopVars, guestVars, irq, uartVars, stdinVars, stdio, typed, age>>

BootNext == Loop \/ (stdio /\ (Type \/ Close))

\* The loop never pauses by itself; nobody has to type.
BootSpec == BootInit /\ [][BootNext]_bootVars /\ WF_bootVars(Loop)

-----------------------------------------------------------------------------
(* Properties *)

BootTypeOK ==
  /\ stdio \in BOOLEAN
  /\ at \in Points
  /\ budget \in 0 .. MaxInsns /\ todo \in 0 .. BootQuantum
  /\ chunk \in 0 .. LevelQuantum /\ stepped \in BOOLEAN
  /\ st \in {"ok", "timeout", "blocked"}
  /\ parked \in BOOLEAN /\ irq \in BOOLEAN
  /\ timer \in -1 .. MaxTimer /\ passes \in SUBSET Sources
  /\ listening \in BOOLEAN /\ Len(rx) <= RxRing /\ tx \in 0 .. MaxTx
  /\ ris \in SUBSET {"rx", "tx"}
  /\ event \in {"none", "powerdown", "reset"}
  /\ typed \in 0 .. MaxTyped /\ taken \in 0 .. typed /\ closed \in BOOLEAN
  /\ Len(held) <= HeldMax /\ stdin_eof \in BOOLEAN
  /\ exit \in {"none", "guest", "error", "timeout", "blocked"}
  /\ warned \in BOOLEAN
  /\ todo <= budget

\* No keystroke is lost uncounted, doubled or reordered on its way from stdin
\* through the held queue to the receiver, however often the driver turns the
\* receiver off and on (boot_inject_held keeps back what is refused and still
\* offers what follows). It is the contract stated at main.c:630-642; the call
\* in boot_run still carries the older one, "A byte the ring cannot hold is
\* dropped" (main.c:765-767), which the code no longer follows and which is
\* reported as stale.
InputInOrder ==
  LET line == delivered \o held
  IN  /\ \A i \in 2 .. Len(line) : line[i - 1] < line[i]
      /\ ToSet(line) \cup lost = 1 .. taken
      /\ ToSet(line) \cap lost = {}

\* The level of every interrupt input is sampled afresh within LevelQuantum
\* instructions, whatever ends a sub-slice: the staleness that main.c names
\* is bounded by it (a stale level re-enters the handler and walks the stack
\* down).
LevelsFresh == age <= LevelQuantum

\* The log is complete when oemu exits: nothing the guest transmitted is left
\* in the ring, however it stopped.
LogComplete == exit # "none" => tx = 0

\* A power event is final: the guest runs no further instruction, so it cannot
\* change the verdict or the machine.
PowerEventFinal ==
  [][event # "none" => UNCHANGED <<guestVars, budget>>]_bootVars

\* The exit status tells what happened: the guest's own code exactly when it
\* powered off, a timeout only when the budget is spent and no event is
\* pending, even if they coincide.
ExitStatus ==
  /\ exit = "guest" => event = "powerdown"
  /\ exit = "error" => event = "reset"
  /\ exit = "timeout" => budget = 0 /\ event = "none"
  /\ exit = "blocked" => parked /\ event = "none"

\* A power-off request always ends the run, parked console or not.
PowerOffEnds == event # "none" ~> exit # "none"

\* main.c: EXIT_BLOCKED means "The guest sat in WFI/WFE with nothing that could
\* wake it", so that a test can tell a small budget from a guest that cannot
\* make progress; nor does the loop sleep in read(2) on a guest that can run.
\* The code breaks this (README, observation 1): no run checks it.
BlockedMeansDeadlock == (exit = "blocked" \/ at = "read") => ~Level

\* The budget bounds the run (m5-linux-boot.md: --max-insns keeps a run from
\* hanging) and an idle guest does not spin the host (m5-closeout.md): the loop
\* always comes to an exit or to the blocking read.  The code breaks this too
\* (observation 2).
HostNeverSpins == []<>(exit # "none" \/ at = "read")
=============================================================================
