----------------------------- MODULE GicAckLoop -----------------------------
(***************************************************************************)
(* gic_acknowledge of src/src/dev/gicv2.c iteration by iteration: the loop *)
(* that computes the running-priority floor, then the scan, then the       *)
(* commit.  The per-line tables are the input; what the procedure returns  *)
(* is compared with the definitions of GicPriority that GicV2 is built     *)
(* from, for tables of any length.                                         *)
(***************************************************************************)
EXTENDS GicPriority

CONSTANTS
  LINES,  \* OEMU_GICV2_LINES, the length of the tables
  Bytes   \* the priority bytes that occur

ASSUME LoopAssumption ==
  /\ LINES \in Nat /\ LINES <= SPURIOUS
  /\ Bytes \subseteq 0 .. 255

Ids == 0 .. LINES - 1

VARIABLES
  enable, pending, active, priority, target,  \* the tables
  pmr, lines,                                 \* cpu_pmr & 0xFF, lines_of
  phase,                                      \* which loop is running
  i, floor, best, best_pri,                   \* the locals of the loops
  ret                                         \* the value returned

inputs == <<enable, priority, target, pmr, lines>>
vars == <<enable, pending, active, priority, target, pmr, lines,
          phase, i, floor, best, best_pri, ret>>

NoId == -1  \* the procedure has not returned yet

TypeOK ==
  /\ enable \in SUBSET Ids /\ pending \in SUBSET Ids
  /\ active \in SUBSET Ids /\ target \in SUBSET Ids
  /\ priority \in [Ids -> Bytes]
  /\ pmr \in 0 .. 255
  /\ lines \in Nat
  /\ phase \in {"floor", "scan", "commit", "done"}
  /\ i \in 0 .. LINES
  /\ floor \in 0 .. IDLE_PRIORITY
  /\ best \in Ids \cup {SPURIOUS}
  /\ best_pri \in 0 .. IDLE_PRIORITY
  /\ ret \in Ids \cup {SPURIOUS, NoId}

Init ==
  /\ enable \in SUBSET Ids /\ pending \in SUBSET Ids
  /\ active \in SUBSET Ids /\ target \in SUBSET Ids
  /\ priority \in [Ids -> Bytes]
  /\ pmr \in Bytes \cup {0, 255}
  /\ lines \in {LINES \div 2, LINES}
  /\ phase = "floor"
  /\ i = 0
  /\ floor = IDLE_PRIORITY
  /\ best = SPURIOUS
  /\ best_pri = 0
  /\ ret = NoId

\* One turn of the loop of gic_running_priority.
FloorStep ==
  /\ phase = "floor" /\ i < LINES
  /\ floor' = IF i \in active /\ priority[i] < floor THEN priority[i] ELSE floor
  /\ i' = i + 1
  /\ UNCHANGED <<inputs, pending, active, phase, best, best_pri, ret>>

FloorEnd ==
  /\ phase = "floor" /\ i = LINES
  /\ phase' = "scan"
  /\ i' = 0
  /\ best' = SPURIOUS
  /\ best_pri' = floor
  /\ UNCHANGED <<inputs, pending, active, floor, ret>>

\* Mutant: a tie replaces the best line, so the last one wins.
SkipsNoTie(l) ==
  \/ l \notin enable \/ l \notin pending \/ l \in active \/ l \notin target
  \/ priority[l] >= pmr
  \/ priority[l] >= floor
  \/ priority[l] > best_pri

\* The lines oemu_gicv2_internal_scan passes over.
Skips(l) ==
  \/ l \notin enable \/ l \notin pending \/ l \in active \/ l \notin target
  \/ priority[l] >= pmr
  \/ priority[l] >= best_pri

\* One turn of the loop of oemu_gicv2_internal_scan.
ScanStep ==
  /\ phase = "scan" /\ i < lines /\ i < LINES
  /\ IF Skips(i) THEN UNCHANGED <<best, best_pri>>
     ELSE best' = i /\ best_pri' = priority[i]
  /\ i' = i + 1
  /\ UNCHANGED <<inputs, pending, active, phase, floor, ret>>

ScanEnd ==
  /\ phase = "scan" /\ ~(i < lines /\ i < LINES)
  /\ phase' = "commit"
  /\ UNCHANGED <<inputs, pending, active, i, floor, best, best_pri, ret>>

\* The acknowledgement itself; nothing is committed for a spurious answer.
Commit ==
  /\ phase = "commit"
  /\ phase' = "done"
  /\ ret' = best
  /\ IF best = SPURIOUS THEN UNCHANGED <<active, pending>>
     ELSE active' = active \cup {best} /\ pending' = pending \ {best}
  /\ UNCHANGED <<inputs, i, floor, best, best_pri>>

Next == FloorStep \/ FloorEnd \/ ScanStep \/ ScanEnd \/ Commit

Spec == Init /\ [][Next]_vars

-----------------------------------------------------------------------------
\* What the floor loop has seen, and what the scan loop has seen.
ActiveBelow(n) == {l \in active : l < n}
EligibleBelow(n) ==
  {l \in Eligible(enable, pending, active, priority, target,
                  RunningPriority(active, priority), pmr, lines) : l < n}

\* The floor loop computes the running priority and the scan loop the best
\* eligible line: at the commit the two loops of gic_acknowledge agree with
\* their definitions for every content of the tables.
AckReturnsBest ==
  phase = "commit" =>
    /\ floor = RunningPriority(active, priority)
    /\ best = Best(Eligible(enable, pending, active, priority, target,
                            RunningPriority(active, priority), pmr, lines),
                   priority)

\* The loop invariants behind AckReturnsBest.
LoopInv ==
  /\ TypeOK
  /\ phase = "floor" => floor = RunningPriority(ActiveBelow(i), priority)
  /\ phase \in {"scan", "commit"} =>
       /\ floor = RunningPriority(active, priority)
       /\ best = Best(EligibleBelow(i), priority)
       /\ best_pri = IF best = SPURIOUS THEN floor ELSE priority[best]
  /\ phase = "commit" => ~(i < lines /\ i < LINES)

=============================================================================
