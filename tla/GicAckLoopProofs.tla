-------------------------- MODULE GicAckLoopProofs --------------------------
(***************************************************************************)
(* The two loops of gic_acknowledge compute what GicPriority says, for     *)
(* tables of any length and any priority bytes.                            *)
(***************************************************************************)
EXTENDS GicAckLoop, GicPriorityProofs

\* The floor and the scan that the loops aim at.
Running == RunningPriority(active, priority)
All == Eligible(enable, pending, active, priority, target, Running, pmr, lines)

\* What the tables contribute, whatever loop is running.
LEMMA Tables ==
  ASSUME TypeOK
  PROVE  /\ Ids \in SUBSET Nat
         /\ priority \in [Ids -> 0 .. 255]
         /\ active \in SUBSET Ids
         /\ All \in SUBSET Ids
         /\ Running \in 0 .. IDLE_PRIORITY
         /\ SPURIOUS \notin Ids
<1>1. /\ Ids \in SUBSET Nat /\ SPURIOUS \notin Ids
  BY LoopAssumption DEF Ids, SPURIOUS
<1>2. priority \in [Ids -> Bytes] /\ Bytes \subseteq 0 .. 255
  BY LoopAssumption DEF TypeOK
<1>3. priority \in [Ids -> 0 .. 255]
  BY <1>2
<1>4. active \in SUBSET Ids /\ All \in SUBSET Ids
  BY DEF TypeOK, All, Eligible
<1> QED BY <1>1, <1>3, <1>4, RunningIsLowest DEF Running

\* One more line enters the prefix the floor loop has seen.
LEMMA FloorTurn ==
  ASSUME LoopInv, FloorStep
  PROVE  floor' = RunningPriority(ActiveBelow(i + 1), priority)
<1> DEFINE A == ActiveBelow(i)
           B == ActiveBelow(i + 1)
<1>1. /\ i \in Ids /\ i \in Nat
      /\ priority \in [Ids -> 0 .. 255]
      /\ A \in SUBSET Ids /\ B \in SUBSET Ids
      /\ floor = RunningPriority(A, priority)
  <2>1. TypeOK /\ phase = "floor" /\ i < LINES /\ i \in 0 .. LINES /\ LINES \in Nat
    BY LoopAssumption DEF LoopInv, FloorStep, TypeOK
  <2>2. i \in Ids /\ i \in Nat
    BY <2>1 DEF Ids
  <2>3. priority \in [Ids -> 0 .. 255] /\ active \in SUBSET Ids
    BY <2>1, Tables
  <2> QED BY <2>1, <2>2, <2>3 DEF LoopInv, ActiveBelow
<1>2. B = IF i \in active THEN A \cup {i} ELSE A
  <2>1. \A l \in active : (l < i + 1) <=> (l < i \/ l = i)
    BY <1>1, Tables DEF LoopInv
  <2> QED BY <2>1, <1>1 DEF ActiveBelow
<1>3. CASE i \notin active
  BY <1>1, <1>2, <1>3 DEF FloorStep
<1>4. CASE i \in active
  <2>1. B = A \cup {i} /\ i \in B
    BY <1>2, <1>4
  <2>2. /\ floor \in Int /\ priority[i] \in Int
        /\ \A l \in A : floor <= priority[l] /\ priority[l] \in Int
    <3>1. \A l \in A : floor <= priority[l]
      BY <1>1, RunningIsLowest
    <3>2. floor \in Int
      BY DEF LoopInv, TypeOK, IDLE_PRIORITY
    <3>3. \A l \in Ids : priority[l] \in Int
      BY <1>1
    <3> QED BY <1>1, <3>1, <3>2, <3>3
  <2>a. A \in SUBSET Ids
    BY <1>1
  <2>b. B \in SUBSET Ids
    BY <1>1
  <2>p. priority \in [Ids -> 0 .. 255]
    BY <1>1
  <2>f. floor = RunningPriority(A, priority)
    BY <1>1
  <2> HIDE DEF A, B
  <2>3. CASE priority[i] < floor
    <3>1. ASSUME NEW l \in B PROVE priority[i] <= priority[l]
      <4>1. CASE l = i
        BY <2>2, <4>1
      <4>2. CASE l \in A
        BY <2>2, <2>3, <4>2
      <4> QED BY <2>1, <4>1, <4>2
    <3>2. RunningPriority(B, priority) = priority[i]
      <4>1. i \in B
        BY <2>1
      <4> QED BY <2>b, <2>p, <4>1, <3>1, RunningIs, ZenonT(30)
    <3> QED BY <1>4, <2>3, <3>2 DEF FloorStep, B
  <2>4. CASE ~(priority[i] < floor)
    <3>1. floor <= priority[i] /\ floor' = floor
      BY <2>2, <2>4 DEF FloorStep
    <3>2. A # {}
      <4>1. SUFFICES ASSUME A = {} PROVE FALSE
        OBVIOUS
      <4>2. floor = 256
        BY <2>a, <2>p, <2>f, <4>1, RunningIsLowest DEF IDLE_PRIORITY
      <4>3. priority[i] \in 0 .. 255
        BY <1>1
      <4> QED BY <3>1, <4>2, <4>3
    <3>3. PICK m \in A : floor = priority[m]
      BY <2>a, <2>p, <2>f, <3>2, RunningIsLowest
    <3>4. ASSUME NEW l \in B PROVE priority[m] <= priority[l]
      <4>1. CASE l = i
        BY <3>1, <3>3, <4>1
      <4>2. CASE l \in A
        BY <2>2, <3>3, <4>2
      <4> QED BY <2>1, <4>1, <4>2
    <3>5. m \in B
      BY <2>1
    <3>6. RunningPriority(B, priority) = priority[m]
      BY <2>b, <2>p, <3>4, <3>5, RunningIs
    <3> QED BY <3>1, <3>3, <3>6 DEF B
  <2> QED BY <2>3, <2>4
<1> QED BY <1>3, <1>4

\* One more line enters the prefix the scan loop has seen.
LEMMA ScanTurn ==
  ASSUME LoopInv, ScanStep
  PROVE  /\ best' = Best(EligibleBelow(i + 1), priority)
         /\ best_pri' = IF best' = SPURIOUS THEN floor ELSE priority[best']
<1> DEFINE S == EligibleBelow(i)
           T == EligibleBelow(i + 1)
<1>1. /\ i \in Ids /\ i \in Nat /\ i < lines
      /\ Ids \in SUBSET Nat /\ SPURIOUS \notin Ids
      /\ priority \in [Ids -> 0 .. 255]
      /\ All \in SUBSET Ids
      /\ floor = Running /\ floor \in Int
      /\ best = Best(S, priority)
      /\ best_pri = IF best = SPURIOUS THEN floor ELSE priority[best]
  <2>1. /\ TypeOK /\ phase = "scan" /\ i < LINES /\ i < lines
        /\ i \in 0 .. LINES /\ LINES \in Nat
    BY LoopAssumption DEF LoopInv, ScanStep, TypeOK
  <2>2. i \in Ids /\ i \in Nat
    BY <2>1 DEF Ids
  <2>3. floor = Running /\ floor \in Int
    BY <2>1 DEF LoopInv, TypeOK, Running, IDLE_PRIORITY
  <2>4. /\ best = Best(S, priority)
        /\ best_pri = IF best = SPURIOUS THEN floor ELSE priority[best]
    BY <2>1 DEF LoopInv
  <2> HIDE DEF S
  <2> QED BY <2>1, <2>2, <2>3, <2>4, Tables
<1>2. S = {l \in All : l < i} /\ T = {l \in All : l < i + 1}
  BY DEF EligibleBelow, All, Running
<1>3. S \in SUBSET Ids /\ T \in SUBSET Ids
  BY <1>1, <1>2
<1>4. T = IF i \in All THEN S \cup {i} ELSE S
  <2>1. \A l \in All : (l < i + 1) <=> (l < i \/ l = i)
    BY <1>1
  <2> QED BY <2>1, <1>1, <1>2, ZenonT(30)
<1>5. i \in All <=> /\ i \in enable /\ i \in pending
                    /\ i \in target /\ i \notin active
                    /\ priority[i] < pmr /\ priority[i] < floor
  BY <1>1 DEF All, Eligible
<1>6. \A l \in S : l < i /\ priority[l] < floor /\ priority[l] \in Int /\ l \in Int
  <2>1. SUFFICES ASSUME NEW l \in S
                 PROVE  l < i /\ priority[l] < floor /\ priority[l] \in Int /\ l \in Int
    OBVIOUS
  <2>2. l \in All /\ l < i
    BY <1>2
  <2>3. priority[l] < Running
    BY <2>2 DEF All, Eligible
  <2>4. l \in Ids
    BY <1>1, <2>2
  <2>5. priority[l] \in Int /\ l \in Int
    BY <1>1, <2>4
  <2> QED BY <1>1, <2>2, <2>3, <2>5
<1>7. priority[i] \in Int /\ pmr \in Int
  BY <1>1 DEF LoopInv, TypeOK
<1>8. \/ S = {} /\ best = SPURIOUS /\ best_pri = floor
      \/ /\ S # {} /\ best \in S /\ best # SPURIOUS /\ best_pri = priority[best]
         /\ \A l \in S : Precedes(best, l, priority)
  BY <1>1, <1>3, BestIsFirst, ZenonT(30)
<1> HIDE DEF S, T
<1>9. best_pri \in Int /\ best_pri <= floor
  BY <1>1, <1>6, <1>8
<1>10. CASE Skips(i)
  <2>1. best' = best /\ best_pri' = best_pri
    BY <1>10 DEF ScanStep
  <2>2. CASE i \notin All
    BY <1>1, <1>4, <2>1, <2>2 DEF T
  <2>3. CASE i \in All
    <3>1. best_pri <= priority[i] /\ priority[i] < floor
      BY <1>5, <1>7, <1>9, <1>10, <2>3 DEF Skips
    <3>2. /\ S # {} /\ best \in S /\ best_pri = priority[best]
          /\ \A l \in S : Precedes(best, l, priority)
      BY <1>1, <1>7, <1>8, <3>1
    <3>3. Precedes(best, i, priority)
      BY <1>1, <1>6, <1>7, <3>1, <3>2 DEF Precedes
    <3>4. best \in T /\ \A l \in T : Precedes(best, l, priority)
      BY <1>4, <2>3, <3>2, <3>3
    <3>5. Best(T, priority) = best
      BY <1>1, <1>3, <3>4, BestIs
    <3> QED BY <1>1, <2>1, <3>5 DEF T
  <2> QED BY <2>2, <2>3
<1>11. CASE ~Skips(i)
  <2>1. best' = i /\ best_pri' = priority[i]
    BY <1>11 DEF ScanStep
  <2>2. i \in All /\ priority[i] < best_pri
    BY <1>1, <1>5, <1>7, <1>9, <1>11 DEF Skips
  <2>3. \A l \in S : priority[i] < priority[l]
    <3>1. SUFFICES ASSUME NEW l \in S PROVE priority[i] < priority[l]
      OBVIOUS
    <3>2. best \in S /\ best_pri = priority[best] /\ Precedes(best, l, priority)
      BY <1>8
    <3>3. priority[best] <= priority[l]
      BY <1>6, <3>2 DEF Precedes
    <3> QED BY <1>6, <1>7, <1>9, <2>2, <3>2, <3>3
  <2>4. i \in T /\ \A l \in T : Precedes(i, l, priority)
    BY <1>1, <1>4, <1>7, <2>2, <2>3 DEF Precedes
  <2>5. Best(T, priority) = i
    BY <1>1, <1>3, <2>4, BestIs
  <2> QED BY <1>1, <2>1, <2>5 DEF T
<1> QED BY <1>10, <1>11

-----------------------------------------------------------------------------
\* The loop invariants hold throughout both loops, for tables of any length.
THEOREM LoopInvariant == Spec => []LoopInv
<1>1. ASSUME Init PROVE LoopInv
  <2>1. TypeOK
    <3>1. pmr \in 0 .. 255 /\ lines \in Nat
      BY <1>1, LoopAssumption DEF Init
    <3>2. i \in 0 .. LINES /\ floor \in 0 .. IDLE_PRIORITY /\ best_pri \in 0 .. IDLE_PRIORITY
      BY <1>1, LoopAssumption DEF Init, IDLE_PRIORITY
    <3> QED BY <1>1, <3>1, <3>2 DEF Init, TypeOK
  <2>2. ActiveBelow(0) = {}
    BY <2>1, Tables DEF ActiveBelow
  <2> QED BY <1>1, <2>1, <2>2 DEF Init, LoopInv, RunningPriority
<1>2. LoopInv /\ [Next]_vars => LoopInv'
  <2> SUFFICES ASSUME LoopInv, [Next]_vars PROVE LoopInv'
    OBVIOUS
  <2>0. TypeOK /\ LINES \in Nat
    BY LoopAssumption DEF LoopInv
  <2>1. CASE FloorStep
    <3>1. /\ phase' = "floor" /\ i' = i + 1
          /\ UNCHANGED <<inputs, pending, active, best, best_pri, ret>>
      BY <2>1 DEF FloorStep
    <3>2. floor' \in 0 .. IDLE_PRIORITY
      <4>1. i \in Ids
        BY <2>0, <2>1 DEF FloorStep, TypeOK, Ids
      <4>2. priority[i] \in 0 .. 255
        BY <4>1, <2>0, Tables
      <4> QED BY <2>0, <2>1, <4>2 DEF FloorStep, TypeOK, IDLE_PRIORITY
    <3>3. i' \in 0 .. LINES
      BY <2>0, <2>1, <3>1 DEF FloorStep, TypeOK
    <3>4. TypeOK'
      BY <2>0, <3>1, <3>2, <3>3 DEF TypeOK, inputs
    <3>5. floor' = RunningPriority(ActiveBelow(i), priority)'
      <4>1. floor' = RunningPriority(ActiveBelow(i + 1), priority)
        BY <2>1, FloorTurn
      <4> QED BY <3>1, <4>1 DEF ActiveBelow, inputs
    <3> QED BY <3>1, <3>4, <3>5 DEF LoopInv
  <2>2. CASE FloorEnd
    <3>1. /\ phase = "floor" /\ i = LINES
          /\ phase' = "scan" /\ i' = 0 /\ best' = SPURIOUS /\ best_pri' = floor
          /\ UNCHANGED <<inputs, pending, active, floor, ret>>
      BY <2>2 DEF FloorEnd
    <3>2. TypeOK'
      BY <2>0, <3>1 DEF TypeOK, inputs
    <3>3. ActiveBelow(LINES) = active
      <4>1. \A l \in active : l \in 0 .. LINES - 1
        BY <2>0 DEF TypeOK, Ids
      <4>2. \A l \in active : l < LINES
        BY <2>0, <4>1
      <4> QED BY <4>2 DEF ActiveBelow
    <3>4. floor = RunningPriority(active, priority)
      BY <3>1, <3>3 DEF LoopInv
    <3>5. EligibleBelow(0) = {}
      <4>1. All \in SUBSET Nat
        BY <2>0, Tables
      <4>2. \A l \in All : ~(l < 0)
        BY <4>1
      <4> QED BY <4>2 DEF EligibleBelow, All, Running
    <3>6. EligibleBelow(i)' = {}
      BY <3>1, <3>5 DEF EligibleBelow, inputs
    <3>7. Best(EligibleBelow(i), priority)' = SPURIOUS
      BY <3>6 DEF Best
    <3>8. (floor = RunningPriority(active, priority))'
      BY <3>1, <3>4 DEF inputs
    <3> QED BY <3>1, <3>2, <3>7, <3>8 DEF LoopInv
  <2>3. CASE ScanStep
    <3>1. /\ phase = "scan" /\ phase' = "scan" /\ i' = i + 1
          /\ UNCHANGED <<inputs, pending, active, floor, ret>>
      BY <2>3 DEF ScanStep
    <3>2. i \in Ids /\ i' \in 0 .. LINES
      BY <2>0, <2>3 DEF ScanStep, TypeOK, Ids
    <3>3. best' \in Ids \cup {SPURIOUS} /\ best_pri' \in 0 .. IDLE_PRIORITY
      <4>1. priority[i] \in 0 .. IDLE_PRIORITY
        BY <2>0, <3>2, Tables DEF IDLE_PRIORITY
      <4> QED BY <2>0, <2>3, <3>2, <4>1 DEF ScanStep, TypeOK
    <3>4. TypeOK'
      BY <2>0, <3>1, <3>2, <3>3 DEF TypeOK, inputs
    <3>5. /\ best' = Best(EligibleBelow(i + 1), priority)
          /\ best_pri' = IF best' = SPURIOUS THEN floor ELSE priority[best']
      BY <2>3, ScanTurn
    <3>6. EligibleBelow(i)' = EligibleBelow(i + 1)
      BY <3>1 DEF EligibleBelow, inputs
    <3>7. floor = RunningPriority(active, priority)
      BY <3>1 DEF LoopInv
    <3>8. priority' = priority /\ active' = active /\ floor' = floor
      BY <3>1 DEF inputs
    <3> QED BY <3>1, <3>4, <3>5, <3>6, <3>7, <3>8 DEF LoopInv
  <2>4. CASE ScanEnd
    <3>1. /\ phase = "scan" /\ phase' = "commit" /\ ~(i < lines /\ i < LINES)
          /\ UNCHANGED <<inputs, pending, active, i, floor, best, best_pri, ret>>
      BY <2>4 DEF ScanEnd
    <3>2. TypeOK'
      BY <2>0, <3>1 DEF TypeOK, inputs
    <3>3. EligibleBelow(i)' = EligibleBelow(i)
      BY <3>1 DEF EligibleBelow, inputs
    <3>4. /\ floor = RunningPriority(active, priority)
          /\ best = Best(EligibleBelow(i), priority)
          /\ best_pri = IF best = SPURIOUS THEN floor ELSE priority[best]
      BY <3>1 DEF LoopInv
    <3> QED BY <3>1, <3>2, <3>3, <3>4 DEF LoopInv, inputs
  <2>5. CASE Commit
    <3>1. TypeOK'
      BY <2>0, <2>5 DEF Commit, TypeOK, inputs
    <3> QED BY <2>5, <3>1 DEF Commit, LoopInv
  <2>6. CASE UNCHANGED vars
    <3>1. /\ UNCHANGED <<enable, pending, active, priority, target, pmr, lines>>
          /\ UNCHANGED <<phase, i, floor, best, best_pri, ret>>
      BY <2>6 DEF vars
    <3>2. TypeOK'
      BY <2>0, <3>1 DEF TypeOK
    <3>3. ActiveBelow(i)' = ActiveBelow(i) /\ EligibleBelow(i)' = EligibleBelow(i)
      BY <3>1 DEF ActiveBelow, EligibleBelow
    <3> QED BY <3>1, <3>2, <3>3 DEF LoopInv
  <2> QED BY <2>1, <2>2, <2>3, <2>4, <2>5, <2>6 DEF Next
<1> QED BY <1>1, <1>2, PTL DEF Spec

\* gic_acknowledge returns the best eligible line: the loops compute the
\* definitions that GicV2 is built from.
THEOREM AckCorrect == Spec => []AckReturnsBest
<1>1. LoopInv => AckReturnsBest
  <2> SUFFICES ASSUME LoopInv, phase = "commit"
               PROVE  /\ floor = Running
                      /\ best = Best(All, priority)
    BY DEF AckReturnsBest, Running, All
  <2>1. EligibleBelow(i) = All
    <3>1. /\ lines \in Int /\ i \in Int /\ LINES \in Int
          /\ ~(i < lines /\ i < LINES)
      BY LoopAssumption DEF LoopInv, TypeOK
    <3>2. ASSUME NEW l \in All PROVE l < i
      <4>1. l < lines /\ l \in Ids
        BY Tables DEF All, Eligible, LoopInv
      <4>2. l \in Int /\ l < LINES
        BY <3>1, <4>1 DEF Ids
      <4> QED BY <3>1, <4>1, <4>2
    <3> QED BY <3>2 DEF EligibleBelow, All, Running
  <2> QED BY <2>1 DEF LoopInv, Running
<1> QED BY <1>1, LoopInvariant, PTL

=============================================================================
