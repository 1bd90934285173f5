---------------------------- MODULE GicV2Proofs ----------------------------
(***************************************************************************)
(* GicV2 for every set of lines and priorities: types, and the nesting of  *)
(* the lines in service.                                                   *)
(***************************************************************************)
EXTENDS GicV2, GicPriorityProofs

\* The scan answers with an eligible line or with 1023, and nothing outside
\* the eligible lines is ever acknowledged.
LEMMA ScanResult ==
  ASSUME TypeOK
  PROVE  /\ Candidates = {} => Scan = SPURIOUS
         /\ Candidates # {} => Scan \in Candidates
         /\ Scan = SPURIOUS \/ (Scan \in Lines /\ Scan \in Candidates)
<1>1. Candidates \in SUBSET Lines
  BY DEF Candidates, Eligible, TypeOK
<1>2. Lines \in SUBSET Nat
  BY GicAssumption
<1>3. priority \in [Lines -> 0 .. 255]
  BY DEF TypeOK, Max8
<1> HIDE DEF Candidates
<1>4. /\ Candidates = {} => Best(Candidates, priority) = SPURIOUS
      /\ Candidates # {} => Best(Candidates, priority) \in Candidates
  BY <1>1, <1>2, <1>3, BestIsFirst
<1> QED BY <1>1, <1>4 DEF Scan

\* 1023 is returned exactly when no line is eligible: it is not a line.
LEMMA ScanNone == TypeOK => (Scan = SPURIOUS <=> Candidates = {})
<1> SUFFICES ASSUME TypeOK PROVE Scan = SPURIOUS <=> Candidates = {}
  OBVIOUS
<1>1. Candidates \in SUBSET Lines
  BY DEF Candidates, Eligible, TypeOK
<1>2. SPURIOUS \notin Lines
  BY GicAssumption DEF SPURIOUS
<1> HIDE DEF Candidates, Scan
<1> QED BY <1>1, <1>2, ScanResult

\* An eligible line has strictly higher precedence than every active line.
LEMMA CandidateBeatsActive ==
  ASSUME TypeOK, NEW c \in Candidates
  PROVE  /\ c \in Lines /\ c \in pending /\ c \notin active
         /\ c \in enable \cap target
         /\ \A j \in active : priority[c] < priority[j]
<1> DEFINE r == RunningPriority(active, priority)
<1>1. priority \in [Lines -> 0 .. 255] /\ active \in SUBSET Lines
  BY DEF TypeOK, Max8
<1>2. r \in 0 .. IDLE_PRIORITY /\ \A j \in active : r <= priority[j]
  BY <1>1, RunningIsLowest
<1>3. /\ c \in Lines /\ c \in pending /\ c \notin active
      /\ c \in enable \cap target
      /\ priority[c] < r
  BY DEF Candidates, Eligible, TypeOK
<1> HIDE DEF r
<1>4. ASSUME NEW j \in active PROVE priority[c] < priority[j]
  <2>1. /\ priority[c] \in Int /\ priority[j] \in Int /\ r \in Int
        /\ priority[c] < r /\ r <= priority[j]
    BY <1>1, <1>2, <1>3 DEF IDLE_PRIORITY
  <2> QED BY <2>1
<1> QED BY <1>3, <1>4

-----------------------------------------------------------------------------
\* Every state of the controller is well typed: in particular the value read
\* from the IAR is a modelled line or 1023.
THEOREM TypeCorrect == Spec => []TypeOK
<1>1. ASSUME Init PROVE TypeOK
  <2>1. priority \in [Lines -> Max8]
    BY <1>1 DEF Init, Max8, RESET_PRIORITY
  <2>2. cpu_pmr \in Max8 /\ running_pri \in 0 .. IDLE_PRIORITY
    BY <1>1 DEF Init, Max8, IDLE_PRIORITY
  <2> QED BY <1>1, <2>1, <2>2 DEF Init, TypeOK
<1>2. TypeOK /\ [Next]_vars => TypeOK'
  <2> SUFFICES ASSUME TypeOK, [Next]_vars PROVE TypeOK'
    OBVIOUS
  <2> USE DEF TypeOK, Since
  <2>1. CASE DistWrite
    <3>1. ASSUME NEW on \in BOOLEAN, DistCtl(on) PROVE TypeOK'
      BY <3>1 DEF DistCtl
    <3>2. ASSUME NEW b \in {0, 1}, NEW mask \in SUBSET Bank(b),
                 \/ SetEnable(mask) \/ ClearEnable(mask) \/ SetPend(mask)
                 \/ ClearPend(mask) \/ SetActive(mask) \/ ClearActive(mask)
          PROVE  TypeOK'
      <4>1. mask \subseteq Lines
        BY <3>2 DEF Bank
      <4> QED BY <3>2, <4>1 DEF SetEnable, ClearEnable, SetPend, ClearPend,
                                SetActive, ClearActive
    <3>3. ASSUME NEW w \in 0 .. 15, NEW bytes \in [PriorityWord(w) -> Priorities],
                 SetPriority(w, bytes)
          PROVE  TypeOK'
      <4>1. ASSUME NEW k \in Lines
            PROVE  (IF k \in PriorityWord(w) THEN bytes[k] ELSE priority[k]) \in Max8
        <5>1. k \in PriorityWord(w) => bytes[k] \in Priorities
          OBVIOUS
        <5>2. Priorities \subseteq Max8
          BY GicAssumption DEF Max8
        <5> QED BY <5>1, <5>2
      <4>2. priority' \in [Lines -> Max8]
        BY <3>3, <4>1 DEF SetPriority
      <4> QED BY <3>3, <4>2 DEF SetPriority
    <3>4. ASSUME NEW k \in Lines, NEW here \in BOOLEAN, SetTarget(k, here)
          PROVE  TypeOK'
      BY <3>4 DEF SetTarget
    <3> QED BY <2>1, <3>1, <3>2, <3>3, <3>4 DEF DistWrite
  <2>2. CASE CpuAccess
    <3>0. priority \in [Lines -> 0 .. 255]
      BY DEF Max8
    <3>1. ASSUME NEW on \in BOOLEAN, CpuCtl(on) PROVE TypeOK'
      BY <3>1 DEF CpuCtl
    <3>2. ASSUME NEW m \in Masks, CpuPmr(m) PROVE TypeOK'
      BY <3>2, GicAssumption DEF CpuPmr, Max8
    <3>3. CASE Acknowledge
      <4>1. CASE Scan = SPURIOUS
        BY <3>3, <4>1 DEF Acknowledge
      <4>2. CASE Scan # SPURIOUS
        <5>1. Scan \in Lines
          BY <4>2, ScanResult
        <5>2. active \cup {Scan} \in SUBSET Lines
          BY <5>1
        <5>3. RunningPriority(active \cup {Scan}, priority) \in 0 .. IDLE_PRIORITY
          BY <3>0, <5>2, RunningIsLowest
        <5> QED BY <3>3, <4>2, <5>1, <5>2, <5>3 DEF Acknowledge
      <4> QED BY <4>1, <4>2
    <3>4. ASSUME NEW id \in Lines \cup {SPURIOUS}, EndOfInterrupt(id)
          PROVE  TypeOK'
      <4>1. RunningPriority(active \ {id}, priority) \in 0 .. IDLE_PRIORITY
        BY <3>0, RunningIsLowest
      <4> QED BY <3>4, <4>1 DEF EndOfInterrupt
    <3> QED BY <2>2, <3>1, <3>2, <3>3, <3>4 DEF CpuAccess
  <2>3. CASE RunLoop
    <3>1. PICK high \in SUBSET Wired : Refresh(high)
      BY <2>3 DEF RunLoop
    <3>2. pending' \in SUBSET Lines
      BY <3>1, GicAssumption DEF Refresh, SetPending
    <3>3. pin' \in BOOLEAN
      BY <3>1 DEF Refresh, IrqLevel
    <3> QED BY <3>1, <3>2, <3>3 DEF Refresh
  <2>4. CASE UNCHANGED vars
    BY <2>4 DEF vars
  <2> QED BY <2>1, <2>2, <2>3, <2>4 DEF Next
<1> QED BY <1>1, <1>2, PTL DEF Spec

-----------------------------------------------------------------------------
(* Nesting.  Both invariants are inductive relative to TypeOK: an eligible *)
(* line is strictly below every active one, so adding it to the active set *)
(* keeps the priorities distinct and makes it the new minimum.             *)

\* What a step may do to the lines in service: take some out, put the scanned
\* line in, or reprogram them and be recorded as tampering.
LEMMA ServiceStep ==
  ASSUME TypeOK, TypeOK', [Next]_vars, ~tampered'
  PROVE  /\ ~tampered
         /\ \/ /\ active' \subseteq active
               /\ \A k \in active' : priority'[k] = priority[k]
               /\ iar' = iar \/ iar' \notin active'
            \/ /\ Scan \in Candidates
               /\ active' = active \cup {Scan}
               /\ priority' = priority
               /\ iar' = Scan
<1> USE DEF TypeOK
<1>1. CASE DistWrite
  <2>1. ASSUME NEW on \in BOOLEAN, DistCtl(on)
        PROVE  UNCHANGED <<active, priority, iar, tampered>>
    BY <2>1 DEF DistCtl
  <2>2. ASSUME NEW b \in {0, 1}, NEW mask \in SUBSET Bank(b),
               \/ SetEnable(mask) \/ ClearEnable(mask) \/ SetPend(mask)
               \/ ClearPend(mask) \/ ClearActive(mask)
        PROVE  active' \subseteq active /\ UNCHANGED <<priority, iar, tampered>>
    BY <2>2 DEF SetEnable, ClearEnable, SetPend, ClearPend, ClearActive
  <2>3. ASSUME NEW b \in {0, 1}, NEW mask \in SUBSET Bank(b), SetActive(mask)
        PROVE  UNCHANGED <<active, priority, iar, tampered>>
    BY <2>3 DEF SetActive
  <2>4. ASSUME NEW w \in 0 .. 15,
               NEW bytes \in [PriorityWord(w) -> Priorities],
               SetPriority(w, bytes)
        PROVE  /\ ~tampered /\ UNCHANGED <<active, iar>>
               /\ \A k \in active : priority'[k] = priority[k]
    BY <2>4 DEF SetPriority
  <2>5. ASSUME NEW k \in Lines, NEW here \in BOOLEAN, SetTarget(k, here)
        PROVE  UNCHANGED <<active, priority, iar, tampered>>
    BY <2>5 DEF SetTarget
  <2> QED BY <1>1, <2>1, <2>2, <2>3, <2>4, <2>5 DEF DistWrite
<1>2. CASE CpuAccess
  <2>1. ASSUME NEW on \in BOOLEAN, CpuCtl(on)
        PROVE  UNCHANGED <<active, priority, iar, tampered>>
    BY <2>1 DEF CpuCtl
  <2>2. ASSUME NEW m \in Masks, CpuPmr(m)
        PROVE  UNCHANGED <<active, priority, iar, tampered>>
    BY <2>2 DEF CpuPmr
  <2>3. CASE Acknowledge
    <3>1. CASE Scan = SPURIOUS
      <4>1. SPURIOUS \notin active
        BY GicAssumption DEF SPURIOUS
      <4> QED BY <2>3, <3>1, <4>1 DEF Acknowledge
    <3>2. CASE Scan # SPURIOUS
      BY <2>3, <3>2, ScanResult DEF Acknowledge
    <3> QED BY <3>1, <3>2
  <2>4. ASSUME NEW id \in Lines \cup {SPURIOUS}, EndOfInterrupt(id)
        PROVE  active' \subseteq active /\ UNCHANGED <<priority, iar, tampered>>
    BY <2>4 DEF EndOfInterrupt
  <2> QED BY <1>2, <2>1, <2>2, <2>3, <2>4 DEF CpuAccess
<1>3. CASE RunLoop
  BY <1>3 DEF RunLoop, Refresh
<1>4. CASE UNCHANGED vars
  BY <1>4 DEF vars
<1> QED BY <1>1, <1>2, <1>3, <1>4 DEF Next

\* Lines in service have distinct priorities, for every set of lines and every
\* order of acknowledgements and completions.
THEOREM Nesting == Spec => []ActiveLinesNest
<1>1. Init => ActiveLinesNest
  BY DEF Init, ActiveLinesNest
<1>2. TypeOK /\ TypeOK' /\ ActiveLinesNest /\ [Next]_vars => ActiveLinesNest'
  <2> SUFFICES ASSUME TypeOK, TypeOK', ActiveLinesNest, [Next]_vars, ~tampered',
                      NEW k \in active', NEW l \in active', k # l
               PROVE  priority'[k] # priority'[l]
    BY DEF ActiveLinesNest
  <2>1. CASE /\ active' \subseteq active
             /\ \A n \in active' : priority'[n] = priority[n]
    BY <2>1, ServiceStep DEF ActiveLinesNest
  <2>2. CASE /\ Scan \in Candidates
             /\ active' = active \cup {Scan}
             /\ priority' = priority
    <3>1. \A n \in active : priority[Scan] < priority[n]
      BY <2>2, CandidateBeatsActive
    <3>2. \A n \in active' : priority[n] \in Int
      BY DEF TypeOK, Max8
    <3>3. \A n \in active : priority[Scan] # priority[n]
      BY <2>2, <3>1, <3>2
    <3> QED BY <2>2, <3>3, ServiceStep DEF ActiveLinesNest
  <2> QED BY <2>1, <2>2, ServiceStep
<1> QED BY <1>1, <1>2, TypeCorrect, PTL DEF Spec

\* The line last returned out of the IAR beats every other line in service
\* until the guest completes it.
THEOREM LastAcknowledged == Spec => []LastAckRuns
<1>1. Init => LastAckRuns
  BY DEF Init, LastAckRuns
<1>2. TypeOK /\ TypeOK' /\ LastAckRuns /\ [Next]_vars => LastAckRuns'
  <2> SUFFICES ASSUME TypeOK, TypeOK', LastAckRuns, [Next]_vars, ~tampered',
                      iar' \in active'
               PROVE  RunningPriority(active', priority') = priority'[iar']
    BY DEF LastAckRuns
  <2>0. /\ active \in SUBSET Lines /\ active' \in SUBSET Lines
        /\ priority \in [Lines -> 0 .. 255] /\ priority' \in [Lines -> 0 .. 255]
    BY DEF TypeOK, Max8
  <2>1. CASE /\ active' \subseteq active
             /\ \A n \in active' : priority'[n] = priority[n]
             /\ iar' = iar
    <3>1. RunningPriority(active, priority) = priority[iar]
      BY <2>1, ServiceStep DEF LastAckRuns
    <3>2. \A n \in active : priority[iar] <= priority[n]
      BY <2>0, <3>1, RunningIsLowest
    <3>3. \A n \in active' : priority'[iar'] <= priority'[n]
      BY <2>1, <3>2
    <3> QED BY <2>0, <3>3, RunningIs
  <2>2. CASE /\ Scan \in Candidates
             /\ active' = active \cup {Scan}
             /\ priority' = priority
             /\ iar' = Scan
    <3>1. \A n \in active : priority[Scan] < priority[n]
      BY <2>2, CandidateBeatsActive
    <3>2. \A n \in active' : priority[n] \in Int
      BY DEF TypeOK, Max8
    <3>3. \A n \in active' : priority'[iar'] <= priority'[n]
      BY <2>2, <3>1, <3>2
    <3> QED BY <2>0, <3>3, RunningIs
  <2> QED BY <2>1, <2>2, ServiceStep
<1> QED BY <1>1, <1>2, TypeCorrect, PTL DEF Spec

-----------------------------------------------------------------------------
(* The sampled pin.  PinAgrees is inductive relative to TypeOK: a step that *)
(* takes nothing away leaves every candidate a candidate, and a step that   *)
(* adds nothing makes no line a candidate.                                  *)

\* More lines in service, a lower floor.
LEMMA FloorShrinks ==
  ASSUME NEW p \in [Lines -> 0 .. 255], NEW S \in SUBSET Lines, NEW T \in SUBSET S
  PROVE  /\ RunningPriority(S, p) \in Int /\ RunningPriority(T, p) \in Int
         /\ RunningPriority(S, p) <= RunningPriority(T, p)
<1>1. /\ RunningPriority(S, p) \in 0 .. IDLE_PRIORITY
      /\ RunningPriority(T, p) \in 0 .. IDLE_PRIORITY
      /\ \A j \in S : RunningPriority(S, p) <= p[j]
  BY RunningIsLowest
<1>2. CASE T = {}
  BY <1>1, <1>2 DEF RunningPriority, IDLE_PRIORITY
<1>3. CASE T # {}
  <2>1. \E j \in T : RunningPriority(T, p) = p[j]
    BY <1>3, RunningIsLowest
  <2> QED BY <1>1, <2>1 DEF IDLE_PRIORITY
<1> QED BY <1>2, <1>3

\* What a step of the guest does to the candidates.
LEMMA CandidatesStep ==
  ASSUME TypeOK, TypeOK', DistWrite \/ CpuAccess
  PROVE  /\ pin' = pin /\ since \subseteq since'
         /\ "fewer" \notin since' => Candidates \subseteq Candidates'
         /\ "more" \notin since' /\ ctl' /\ cpu_ctl' =>
              ctl /\ cpu_ctl /\ Candidates' \subseteq Candidates
<1> USE DEF TypeOK
<1> DEFINE r == RunningPriority(active, priority)
           q == RunningPriority(active', priority')
<1>0. /\ priority \in [Lines -> 0 .. 255] /\ priority' \in [Lines -> 0 .. 255]
      /\ active \in SUBSET Lines /\ active' \in SUBSET Lines
      /\ cpu_pmr \in Int /\ cpu_pmr' \in Int
  BY DEF Max8
<1>r. r \in Int /\ q \in Int
  BY <1>0, FloorShrinks
<1>q. /\ (active' \subseteq active /\ priority' = priority) => r <= q
      /\ (active \subseteq active' /\ priority' = priority) => q <= r
  BY <1>0, FloorShrinks
<1>c. /\ Candidates = {i \in ((enable \cap pending) \cap target) \ active :
                         i < NrLines /\ priority[i] < cpu_pmr /\ priority[i] < r}
      /\ Candidates' = {i \in ((enable' \cap pending') \cap target') \ active' :
                         i < NrLines /\ priority'[i] < cpu_pmr' /\ priority'[i] < q}
  BY DEF Candidates, Eligible
<1> HIDE DEF r, q
<1>p. \A i \in Lines : priority[i] \in Int /\ priority'[i] \in Int
  BY <1>0
\* Each side of the scan's condition may only move one way.
<1>up. ASSUME enable \subseteq enable', pending \subseteq pending', target \subseteq target',
              active' \subseteq active, priority' = priority, cpu_pmr <= cpu_pmr'
       PROVE  Candidates \subseteq Candidates'
  BY <1>up, <1>0, <1>r, <1>q, <1>c, <1>p
<1>down. ASSUME enable' \subseteq enable, pending' \subseteq pending, target' \subseteq target,
                active \subseteq active', priority' = priority, cpu_pmr' <= cpu_pmr
         PROVE  Candidates' \subseteq Candidates
  BY <1>down, <1>0, <1>r, <1>q, <1>c, <1>p
<1> HIDE DEF Candidates
<1>1. CASE DistWrite
  <2>1. ASSUME NEW on \in BOOLEAN, DistCtl(on)
        PROVE  /\ pin' = pin /\ since \subseteq since'
               /\ UNCHANGED <<cpu_ctl, cpu_pmr, enable, pending, active, priority, target>>
               /\ "more" \notin since' /\ ctl' => ctl
    BY <2>1 DEF DistCtl, Since
  <2>2. ASSUME NEW b \in {0, 1}, NEW mask \in SUBSET Bank(b),
               SetEnable(mask) \/ SetPend(mask) \/ ClearActive(mask)
        PROVE  /\ pin' = pin /\ since \subseteq since'
               /\ UNCHANGED <<ctl, cpu_ctl, cpu_pmr, priority, target>>
               /\ enable \subseteq enable' /\ pending \subseteq pending' /\ active' \subseteq active
               /\ "more" \notin since' => UNCHANGED <<enable, pending, active>>
    BY <2>2 DEF SetEnable, SetPend, ClearActive, Since
  <2>3. ASSUME NEW b \in {0, 1}, NEW mask \in SUBSET Bank(b),
               ClearEnable(mask) \/ ClearPend(mask) \/ SetActive(mask)
        PROVE  /\ pin' = pin /\ since \subseteq since'
               /\ UNCHANGED <<ctl, cpu_ctl, cpu_pmr, priority, target>>
               /\ enable' \subseteq enable /\ pending' \subseteq pending /\ active \subseteq active'
               /\ "fewer" \notin since' => UNCHANGED <<enable, pending, active>>
    BY <2>3 DEF ClearEnable, ClearPend, SetActive, Since
  <2>4. ASSUME NEW w \in 0 .. 15, NEW bytes \in [PriorityWord(w) -> Priorities],
               SetPriority(w, bytes)
        PROVE  /\ pin' = pin /\ since \subseteq since'
               /\ UNCHANGED <<ctl, cpu_ctl, cpu_pmr, enable, pending, active, target>>
               /\ "more" \notin since' \/ "fewer" \notin since' => priority' = priority
    BY <2>4 DEF SetPriority, Since
  <2>5. ASSUME NEW k \in Lines, NEW here \in BOOLEAN, SetTarget(k, here)
        PROVE  /\ pin' = pin /\ since \subseteq since'
               /\ UNCHANGED <<ctl, cpu_ctl, cpu_pmr, enable, pending, active, priority>>
               /\ "fewer" \notin since' => target \subseteq target'
               /\ "more" \notin since' => target' \subseteq target
    BY <2>5 DEF SetTarget, Since
  <2>a. CASE \E on \in BOOLEAN : DistCtl(on)
    BY <2>a, <2>1, <1>up, <1>down, <1>0
  <2>b. CASE \E b \in {0, 1} : \E mask \in SUBSET Bank(b) :
               SetEnable(mask) \/ SetPend(mask) \/ ClearActive(mask)
    BY <2>b, <2>2, <1>up, <1>down, <1>0
  <2>c. CASE \E b \in {0, 1} : \E mask \in SUBSET Bank(b) :
               ClearEnable(mask) \/ ClearPend(mask) \/ SetActive(mask)
    BY <2>c, <2>3, <1>up, <1>down, <1>0
  <2>d. CASE \E w \in 0 .. 15 : \E bytes \in [PriorityWord(w) -> Priorities] :
               SetPriority(w, bytes)
    BY <2>d, <2>4, <1>up, <1>down, <1>0
  <2>e. CASE \E k \in Lines, here \in BOOLEAN : SetTarget(k, here)
    BY <2>e, <2>5, <1>up, <1>down, <1>0
  <2> QED BY <1>1, <2>a, <2>b, <2>c, <2>d, <2>e DEF DistWrite
<1>2. CASE CpuAccess
  <2>1. ASSUME NEW on \in BOOLEAN, CpuCtl(on)
        PROVE  /\ pin' = pin /\ since \subseteq since'
               /\ UNCHANGED <<ctl, cpu_pmr, enable, pending, active, priority, target>>
               /\ "more" \notin since' /\ cpu_ctl' => cpu_ctl
    BY <2>1 DEF CpuCtl, Since
  <2>2. ASSUME NEW m \in Masks, CpuPmr(m)
        PROVE  /\ pin' = pin /\ since \subseteq since'
               /\ UNCHANGED <<ctl, cpu_ctl, enable, pending, active, priority, target>>
               /\ "fewer" \notin since' => cpu_pmr <= cpu_pmr'
               /\ "more" \notin since' => cpu_pmr' <= cpu_pmr
    BY <2>2, <1>0 DEF CpuPmr, Since
  <2>3. ASSUME Acknowledge
        PROVE  /\ pin' = pin /\ since \subseteq since'
               /\ UNCHANGED <<ctl, cpu_ctl, cpu_pmr, enable, priority, target>>
               /\ pending' \subseteq pending /\ active \subseteq active'
               /\ "fewer" \notin since' => UNCHANGED <<pending, active>>
    BY <2>3 DEF Acknowledge, Since
  <2>4. ASSUME NEW id \in Lines \cup {SPURIOUS}, EndOfInterrupt(id)
        PROVE  /\ pin' = pin /\ since \subseteq since'
               /\ UNCHANGED <<ctl, cpu_ctl, cpu_pmr, enable, pending, priority, target>>
               /\ active' \subseteq active
               /\ "more" \notin since' => active' = active
    BY <2>4 DEF EndOfInterrupt, Since
  <2>a. CASE \E on \in BOOLEAN : CpuCtl(on)
    BY <2>a, <2>1, <1>up, <1>down, <1>0
  <2>b. CASE \E m \in Masks : CpuPmr(m)
    BY <2>b, <2>2, <1>up, <1>down, <1>0
  <2>c. CASE Acknowledge
    BY <2>c, <2>3, <1>up, <1>down, <1>0
  <2>d. CASE \E id \in Lines \cup {SPURIOUS} : EndOfInterrupt(id)
    BY <2>d, <2>4, <1>up, <1>down, <1>0
  <2> QED BY <1>2, <2>a, <2>b, <2>c, <2>d DEF CpuAccess
<1> QED BY <1>1, <1>2

\* The sampled pin and the acknowledgement agree as long as the guest has not
\* moved the controller away from the sample, for every set of lines.
THEOREM PinMeansAck == Spec => []PinAgrees
<1>0. (TypeOK => (Scan = SPURIOUS <=> Candidates = {}))'
  BY ScanNone, PTL
<1>1. ASSUME Init, TypeOK PROVE PinAgrees
  <2>1. Candidates = {}
    BY <1>1 DEF Init, Candidates, Eligible
  <2> QED BY <1>1, <2>1, ScanResult DEF Init, PinAgrees
<1>2. TypeOK /\ TypeOK' /\ PinAgrees /\ [Next]_vars => PinAgrees'
  <2> SUFFICES ASSUME TypeOK, TypeOK', PinAgrees, [Next]_vars PROVE PinAgrees'
    OBVIOUS
  <2>0. /\ Scan = SPURIOUS <=> Candidates = {}
        /\ Scan' = SPURIOUS <=> Candidates' = {}
    BY <1>0, ScanNone
  <2>1. CASE DistWrite \/ CpuAccess
    BY <2>0, <2>1, CandidatesStep DEF PinAgrees
  <2>2. CASE RunLoop
    BY <2>2 DEF RunLoop, Refresh, IrqLevel, PinAgrees
  <2>3. CASE UNCHANGED vars
    BY <2>3 DEF vars, PinAgrees, Scan, Candidates
  <2> QED BY <2>1, <2>2, <2>3 DEF Next
<1> QED BY <1>1, <1>2, TypeCorrect, PTL DEF Spec

\* An acknowledgement moves exactly the returned line from pending to active,
\* and one that returns 1023 moves nothing and had nothing to return.
THEOREM AckExact == Spec => AckConsumesExactlyOne
<1> DEFINE A == iar' # iar =>
                  IF iar' = SPURIOUS
                  THEN Candidates = {} /\ UNCHANGED <<pending, active, running_pri>>
                  ELSE /\ iar' \in pending /\ iar' \notin active
                       /\ pending' = pending \ {iar'}
                       /\ active' = active \cup {iar'}
                       /\ \A j \in active : priority[iar'] < priority[j]
<1>1. TypeOK /\ [Next]_vars => [A]_vars
  <2> SUFFICES ASSUME TypeOK, Next, iar' # iar PROVE A
    BY DEF vars
  <2>1. Acknowledge
    BY DEF Next, DistWrite, CpuAccess, RunLoop, DistCtl, SetEnable, ClearEnable,
           SetPend, ClearPend, SetActive, ClearActive, SetPriority, SetTarget,
           CpuCtl, CpuPmr, EndOfInterrupt, Refresh
  <2>2. CASE Scan = SPURIOUS
    BY <2>1, <2>2, ScanNone DEF Acknowledge
  <2>3. CASE Scan # SPURIOUS
    <3>1. Scan \in Candidates /\ iar' = Scan
      BY <2>1, <2>3, ScanResult DEF Acknowledge
    <3> QED BY <2>1, <2>3, <3>1, CandidateBeatsActive DEF Acknowledge
  <2> QED BY <2>2, <2>3
<1> QED BY <1>1, TypeCorrect, PTL DEF Spec, AckConsumesExactlyOne

=============================================================================
