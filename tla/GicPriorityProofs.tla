------------------------- MODULE GicPriorityProofs -------------------------
(***************************************************************************)
(* What the two decisions of GicPriority return, for any set of lines.     *)
(***************************************************************************)
EXTENDS GicPriority, WellFoundedInduction, TLAPS

\* Every non-empty set of natural numbers has a least element.
LEMMA LeastNatural ==
  ASSUME NEW T \in SUBSET Nat, T # {}
  PROVE  \E x \in T : \A y \in T : x <= y
<1>1. \E x \in T : \A y \in T : ~ (<<y, x>> \in OpToRel(<, Nat))
  BY NatLessThanWellFounded, WFMin
<1>2. PICK x \in T : \A y \in T : ~ (<<y, x>> \in OpToRel(<, Nat))
  BY <1>1
<1>3. ASSUME NEW y \in T PROVE x <= y
  <2>1. x \in Nat /\ y \in Nat
    OBVIOUS
  <2>2. ~ (y < x)
    BY <1>2, <2>1 DEF OpToRel
  <2> QED BY <2>1, <2>2
<1> QED BY <1>3

\* A non-empty set of lines has one whose priority byte is lowest.
LEMMA LowestPriorityExists ==
  ASSUME NEW L, NEW S \in SUBSET L, S # {}, NEW priority \in [L -> 0 .. 255]
  PROVE  \E i \in S : \A j \in S : priority[i] <= priority[j]
<1> DEFINE P == {priority[i] : i \in S}
<1>1. P \in SUBSET Nat /\ P # {}
  OBVIOUS
<1>2. PICK m \in P : \A y \in P : m <= y
  BY <1>1, LeastNatural
<1>3. PICK i \in S : m = priority[i]
  OBVIOUS
<1> QED BY <1>2, <1>3

\* The running priority is a lower bound of the active priorities that one of
\* them attains, and 256 when no line is active.
LEMMA RunningIsLowest ==
  ASSUME NEW L, NEW active \in SUBSET L, NEW priority \in [L -> 0 .. 255]
  PROVE  /\ RunningPriority(active, priority) \in 0 .. IDLE_PRIORITY
         /\ \A j \in active : RunningPriority(active, priority) <= priority[j]
         /\ active # {} => \E j \in active :
                              RunningPriority(active, priority) = priority[j]
         /\ active = {} => RunningPriority(active, priority) = IDLE_PRIORITY
<1>1. CASE active = {}
  BY <1>1 DEF RunningPriority, IDLE_PRIORITY
<1>2. CASE active # {}
  <2> DEFINE m == CHOOSE i \in active : \A j \in active : priority[i] <= priority[j]
  <2>1. m \in active /\ \A j \in active : priority[m] <= priority[j]
    BY <1>2, LowestPriorityExists
  <2>2. RunningPriority(active, priority) = priority[m]
    BY <1>2 DEF RunningPriority
  <2> HIDE DEF m
  <2>3. priority[m] \in 0 .. 255
    BY <2>1
  <2> QED BY <1>2, <2>1, <2>2, <2>3 DEF IDLE_PRIORITY
<1> QED BY <1>1, <1>2

\* The lowest value is unique, so a lower bound that is attained is it.
LEMMA RunningIs ==
  ASSUME NEW L, NEW active \in SUBSET L, NEW priority \in [L -> 0 .. 255],
         NEW m \in active, \A j \in active : priority[m] <= priority[j]
  PROVE  RunningPriority(active, priority) = priority[m]
<1>1. PICK j \in active : RunningPriority(active, priority) = priority[j]
  BY RunningIsLowest
<1>2. priority[j] <= priority[m]
  BY <1>1, RunningIsLowest
<1>3. priority[m] \in Int /\ priority[j] \in Int
  OBVIOUS
<1>4. priority[m] <= priority[j]
  OBVIOUS
<1>5. priority[j] = priority[m]
  BY <1>2, <1>3, <1>4
<1> QED BY <1>1, <1>5

\* Some line of a non-empty set goes before all others.
LEMMA FirstLineExists ==
  ASSUME NEW L \in SUBSET Nat, NEW S \in SUBSET L, S # {},
         NEW priority \in [L -> 0 .. 255]
  PROVE  \E i \in S : \A j \in S : Precedes(i, j, priority)
<1>1. PICK m \in S : \A j \in S : priority[m] <= priority[j]
  BY LowestPriorityExists
<1> DEFINE T == {i \in S : priority[i] = priority[m]}
<1>2. T \in SUBSET Nat /\ T # {}
  OBVIOUS
<1>3. PICK i \in T : \A j \in T : i <= j
  BY <1>2, LeastNatural
<1>4. ASSUME NEW j \in S PROVE Precedes(i, j, priority)
  <2>1. priority[i] = priority[m] /\ priority[m] <= priority[j]
    BY <1>1
  <2>2. priority[i] \in 0 .. 255 /\ priority[j] \in 0 .. 255
    OBVIOUS
  <2>3. CASE j \in T
    BY <1>3, <2>1, <2>3 DEF Precedes
  <2>4. CASE j \notin T
    <3>1. priority[i] # priority[j]
      BY <2>1, <2>4
    <3>2. priority[i] \in Int /\ priority[j] \in Int /\ priority[i] <= priority[j]
      BY <2>1, <2>2
    <3>3. priority[i] < priority[j]
      BY <3>1, <3>2
    <3> QED BY <3>3 DEF Precedes
  <2> QED BY <2>3, <2>4
<1> QED BY <1>4

\* The scan returns the line of the set that goes before all others, and
\* 1023 when the set is empty.
LEMMA BestIsFirst ==
  ASSUME NEW L \in SUBSET Nat, NEW S \in SUBSET L,
         NEW priority \in [L -> 0 .. 255]
  PROVE  /\ S = {} => Best(S, priority) = SPURIOUS
         /\ S # {} => /\ Best(S, priority) \in S
                      /\ \A j \in S : Precedes(Best(S, priority), j, priority)
<1>1. CASE S = {}
  BY <1>1 DEF Best
<1>2. CASE S # {}
  <2>1. \E i \in S : \A j \in S : Precedes(i, j, priority)
    BY <1>2, FirstLineExists
  <2> QED BY <1>2, <2>1 DEF Best
<1> QED BY <1>1, <1>2

\* That line is unique.
LEMMA BestIs ==
  ASSUME NEW L \in SUBSET Nat, NEW S \in SUBSET L,
         NEW priority \in [L -> 0 .. 255],
         NEW b \in S, \A j \in S : Precedes(b, j, priority)
  PROVE  Best(S, priority) = b
<1> DEFINE c == Best(S, priority)
<1>1. c \in S /\ Precedes(c, b, priority)
  BY BestIsFirst
<1> HIDE DEF c
<1>2. Precedes(b, c, priority)
  BY <1>1
<1>3. b \in Int /\ c \in Int /\ priority[b] \in Int /\ priority[c] \in Int
  BY <1>1
<1>4. b = c
  BY <1>1, <1>2, <1>3 DEF Precedes
<1> QED BY <1>4 DEF c

=============================================================================
