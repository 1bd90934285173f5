---------------------------- MODULE GicPriority ----------------------------
(***************************************************************************)
(* The two decisions of the interrupt controller (src/src/dev/gicv2.c):    *)
(* the running priority of the active lines and the line that the CPU      *)
(* interface acknowledges.  They are stated by what the two loops return;  *)
(* module GicAckLoop steps through the loops themselves and shows that     *)
(* they return this.                                                       *)
(*                                                                         *)
(* A lower priority value is a higher precedence.  The per-line uint8_t    *)
(* tables are sets of lines, except the priority byte.                     *)
(***************************************************************************)
EXTENDS Integers

SPURIOUS == 1023        \* OEMU_GICV2_SPURIOUS
IDLE_PRIORITY == 256    \* the floor when no line is active
RESET_PRIORITY == 128   \* 0x80, the priority of every line after init

\* The lowest priority byte among the active lines, 256 when there is none.
RunningPriority(active, priority) ==
  IF active = {}
  THEN IDLE_PRIORITY
  ELSE priority[CHOOSE i \in active : \A j \in active : priority[i] <= priority[j]]

\* Mutant: a line as urgent as the one in service may preempt it.
EligibleTies(enable, pending, active, priority, target, running, pmr, lines) ==
  {i \in ((enable \cap pending) \cap target) \ active :
      i < lines /\ priority[i] < pmr /\ priority[i] <= running}

\* The lines the scan does not skip: enabled, pending, not active, targeted at
\* the CPU, below the mask and below the running floor.
Eligible(enable, pending, active, priority, target, running, pmr, lines) ==
  {i \in ((enable \cap pending) \cap target) \ active :
      i < lines /\ priority[i] < pmr /\ priority[i] < running}

\* Line i goes before line j: lower value, ties to the lower id.
Precedes(i, j, priority) ==
  \/ priority[i] < priority[j]
  \/ priority[i] = priority[j] /\ i <= j

\* The line the scan returns out of a set of eligible lines.
Best(S, priority) ==
  IF S = {} THEN SPURIOUS
  ELSE CHOOSE i \in S : \A j \in S : Precedes(i, j, priority)

=============================================================================
