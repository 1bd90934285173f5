-------------------------- MODULE BootLoopProofs --------------------------
(***************************************************************************)
(* BootLoop for every budget, slice, sub-slice, ring and queue size and    *)
(* for every guest and every typing.                                       *)
(*                                                                         *)
(* The inductive invariant says what the loop knows at each of its points: *)
(* how old the levels may be, that the console is drained behind the pump, *)
(* and what a parked status means until the verdict.                       *)
(***************************************************************************)
EXTENDS BootLoop, SequenceTheorems, TLAPS

\* From the pump to the exit.
Drained == {"stdin", "verdict", "await", "read", "exited"}

\* What holds at each point of boot_run.
AtPoint ==
  /\ exit # "none" <=> at = "exited"
  /\ at \notin {"run", "refresh"} => age = 0
  /\ at = "run" => age + chunk <= LevelQuantum /\ chunk <= todo
  /\ at \in Drained => tx = 0
  /\ at \in {"slice", "run"} => st # "blocked"
  /\ at \in {"await", "read"} => st = "blocked"
  /\ st = "blocked" => parked /\ event = "none"

Queues == rx \in Seq(Nat) /\ held \in Seq(Nat) /\ delivered \in Seq(Nat)

LoopInv ==
  /\ BootTypeOK
  /\ Queues
  /\ age \in Nat
  /\ LevelsFresh
  /\ AtPoint
  /\ ExitStatus

LEMMA LeastFacts ==
  ASSUME NEW a \in Nat, NEW b \in Nat
  PROVE  Least(a, b) \in Nat /\ Least(a, b) <= a /\ Least(a, b) <= b
BY DEF Least

LEMMA InitLoop == BootInit => LoopInv
<1> SUFFICES ASSUME BootInit PROVE LoopInv
  OBVIOUS
<1> USE BootAssumption
<1>1. todo \in 0 .. BootQuantum /\ todo <= budget
  BY LeastFacts DEF BootInit
<1>2. Queues /\ Len(rx) = 0 /\ Len(held) = 0
  BY DEF BootInit, Queues
<1>3. BootTypeOK
  <2>1. /\ at \in Points /\ st \in {"ok", "timeout", "blocked"}
        /\ exit \in {"none", "guest", "error", "timeout", "blocked"}
        /\ event \in {"none", "powerdown", "reset"}
        /\ passes \in SUBSET Sources /\ ris \in SUBSET {"rx", "tx"}
    BY DEF BootInit, Points
  <2>2. /\ budget \in 0 .. MaxInsns /\ chunk \in 0 .. LevelQuantum
        /\ timer \in -1 .. MaxTimer /\ tx \in 0 .. MaxTx
        /\ typed \in 0 .. MaxTyped /\ taken \in 0 .. typed
    BY DEF BootInit
  <2>3. /\ stdio \in BOOLEAN /\ stepped \in BOOLEAN /\ parked \in BOOLEAN
        /\ irq \in BOOLEAN /\ listening \in BOOLEAN /\ closed \in BOOLEAN
        /\ stdin_eof \in BOOLEAN /\ warned \in BOOLEAN
    BY DEF BootInit
  <2> QED BY <1>1, <1>2, <2>1, <2>2, <2>3 DEF BootTypeOK
<1>4. AtPoint
  BY DEF BootInit, AtPoint, Drained
<1>5. age \in Nat /\ LevelsFresh /\ ExitStatus
  BY DEF BootInit, LevelsFresh, ExitStatus
<1> QED BY <1>2, <1>3, <1>4, <1>5 DEF LoopInv

-----------------------------------------------------------------------------
(* The guest.  Whatever an instruction does to the devices, it leaves them *)
(* well formed, and it is paid for with one count of the sub-slice.        *)
DevicesOK ==
  /\ timer \in -1 .. MaxTimer /\ passes \in SUBSET Sources
  /\ listening \in BOOLEAN
  /\ rx \in Seq(Nat) /\ Len(rx) <= RxRing /\ tx \in 0 .. MaxTx
  /\ ris \in SUBSET {"rx", "tx"}
  /\ event \in {"none", "powerdown", "reset"}

LEMMA ProgressKeeps ==
  ASSUME LoopInv, Progress, DevicesOK'
  PROVE  LoopInv'
<1> USE BootAssumption DEF LoopInv
<1>1. /\ at = "run" /\ chunk > 0 /\ event = "none"
      /\ parked' = FALSE
      /\ chunk' = chunk - 1 /\ todo' = todo - 1 /\ budget' = budget - 1
      /\ stepped' = TRUE
      /\ age' = age + 1
      /\ UNCHANGED <<at, st, exit, warned, irq, taken, held, stdin_eof, lost, delivered,
                     stdio, typed, closed>>
  BY DEF Progress, Running, stdinVars, hostVars
<1>2. /\ chunk \in Nat /\ todo \in Nat /\ budget \in Nat /\ age \in Nat
      /\ chunk <= todo /\ todo <= budget /\ age + chunk <= LevelQuantum
      /\ st # "blocked" /\ exit = "none"
  BY <1>1 DEF BootTypeOK, AtPoint
<1>3. /\ budget' \in 0 .. MaxInsns /\ todo' \in 0 .. BootQuantum
      /\ chunk' \in 0 .. LevelQuantum /\ todo' <= budget'
  BY <1>1, <1>2 DEF BootTypeOK
<1>4. BootTypeOK'
  BY <1>1, <1>3 DEF BootTypeOK, DevicesOK
<1>5. Queues'
  BY <1>1 DEF Queues, DevicesOK
<1>6. age' \in Nat /\ LevelsFresh'
  BY <1>1, <1>2 DEF LevelsFresh
<1>7. AtPoint'
  BY <1>1, <1>2 DEF AtPoint, Drained
<1>8. ExitStatus'
  BY <1>1, <1>2 DEF ExitStatus
<1> QED BY <1>4, <1>5, <1>6, <1>7, <1>8

LEMMA GuestKeeps ==
  ASSUME LoopInv, Guest
  PROVE  LoopInv'
<1> USE BootAssumption
<1>1. DevicesOK /\ Tick \in -1 .. MaxTimer
  BY DEF LoopInv, BootTypeOK, Queues, DevicesOK, Tick
<1>2. CASE Plain
  BY <1>1, <1>2, ProgressKeeps DEF Plain, DevicesOK, uartVars
<1>3. CASE \E d \in -1 .. MaxTimer : ArmTimer(d)
  <2>1. Progress /\ timer' \in -1 .. MaxTimer /\ UNCHANGED <<passes, listening, event, uartVars>>
    BY <1>3 DEF ArmTimer, Acts
  <2> QED BY <1>1, <2>1, ProgressKeeps DEF DevicesOK, uartVars
<1>4. CASE \E S \in SUBSET Sources : Unmask(S)
  <2>1. /\ Progress /\ passes' \in SUBSET Sources /\ timer' = Tick
        /\ UNCHANGED <<listening, event, uartVars>>
    BY <1>4 DEF Unmask, Acts
  <2> QED BY <1>1, <2>1, ProgressKeeps DEF DevicesOK, uartVars
<1>5. CASE \E on \in BOOLEAN : Listen(on)
  <2>1. /\ Progress /\ listening' \in BOOLEAN /\ timer' = Tick
        /\ UNCHANGED <<passes, event, uartVars>>
    BY <1>5 DEF Listen, Acts
  <2> QED BY <1>1, <2>1, ProgressKeeps DEF DevicesOK, uartVars
<1>6. CASE ReadDr
  <2>1. rx' \in Seq(Nat) /\ Len(rx') <= RxRing
    BY <1>1, <1>6 DEF ReadDr, DevicesOK
  <2>2. ris' \in SUBSET {"rx", "tx"}
    BY <1>1, <1>6 DEF ReadDr, DevicesOK
  <2> QED BY <1>1, <1>6, <2>1, <2>2, ProgressKeeps DEF ReadDr, Acts, DevicesOK
<1>7. CASE WriteDr
  <2>1. tx' \in 0 .. MaxTx
    BY <1>1, <1>7 DEF WriteDr, DevicesOK, Least
  <2>2. rx' \in Seq(Nat) /\ Len(rx') <= RxRing
    BY <1>1, <1>7 DEF WriteDr, DevicesOK
  <2>3. ris' \in SUBSET {"rx", "tx"}
    BY <1>1, <1>7 DEF WriteDr, DevicesOK
  <2> QED BY <1>1, <1>7, <2>1, <2>2, <2>3, ProgressKeeps DEF WriteDr, Acts, DevicesOK
<1>8. CASE \E S \in SUBSET {"rx", "tx"} : ClearInts(S)
  <2>1. /\ Progress /\ ris' \in SUBSET {"rx", "tx"} /\ timer' = Tick
        /\ UNCHANGED <<passes, listening, event, rx, tx>>
    BY <1>1, <1>8 DEF ClearInts, Acts, DevicesOK
  <2> QED BY <1>1, <2>1, ProgressKeeps DEF DevicesOK
<1>9. CASE \E e \in {"powerdown", "reset"} : FwCall(e)
  <2>1. /\ Progress /\ event' \in {"none", "powerdown", "reset"} /\ timer' = Tick
        /\ UNCHANGED <<passes, listening, uartVars>>
    BY <1>9 DEF FwCall, Acts
  <2> QED BY <1>1, <2>1, ProgressKeeps DEF DevicesOK, uartVars
<1>10. CASE Blocked
  <2>1. /\ at = "run" /\ event = "none"
        /\ parked' = TRUE /\ timer' = Tick /\ st' = "blocked" /\ at' = "refresh"
        /\ UNCHANGED <<budget, todo, chunk, stepped, exit, warned, passes, listening,
                       event, irq, rx, tx, ris, taken, held, stdin_eof, lost, delivered,
                       stdio, typed, closed, age>>
    BY <1>10 DEF Blocked, Running, uartVars, stdinVars, hostVars
  <2>2. BootTypeOK'
    BY <1>1, <2>1 DEF LoopInv, BootTypeOK, Points
  <2>3. AtPoint' /\ ExitStatus'
    BY <2>1 DEF LoopInv, AtPoint, ExitStatus, Drained
  <2> QED BY <2>1, <2>2, <2>3 DEF LoopInv, Queues, LevelsFresh
<1> QED
  BY <1>2, <1>3, <1>4, <1>5, <1>6, <1>7, <1>8, <1>9, <1>10 DEF Guest

-----------------------------------------------------------------------------
(* The input queue.                                                        *)

\* InputInOrder of any line of bytes.
Line(l, lo, t) ==
  /\ \A i \in 2 .. Len(l) : l[i - 1] < l[i]
  /\ ToSet(l) \cup lo = 1 .. t
  /\ ToSet(l) \cap lo = {}

\* Sequences of bytes: concatenation, and the two parts of a cut.
LEMMA NatConcat ==
  ASSUME NEW s \in Seq(Nat), NEW u \in Seq(Nat)
  PROVE  /\ s \o u \in Seq(Nat) /\ Len(s \o u) = Len(s) + Len(u)
         /\ \A i \in 1 .. Len(s) : (s \o u)[i] = s[i]
         /\ \A i \in 1 .. Len(u) : (s \o u)[Len(s) + i] = u[i]
<1>1. Len(s) \in Nat /\ Len(u) \in Nat
  OBVIOUS
<1>2. /\ s \o u \in Seq(Nat) /\ Len(s \o u) = Len(s) + Len(u)
      /\ \A i \in 1 .. Len(s) + Len(u) : (s \o u)[i] =
              IF i <= Len(s) THEN s[i] ELSE u[i - Len(s)]
  BY ConcatProperties, Zenon
<1> DEFINE su == s \o u
<1> HIDE DEF su
<1>3. \A i \in 1 .. Len(s) + Len(u) : su[i] = IF i <= Len(s) THEN s[i] ELSE u[i - Len(s)]
  BY <1>2 DEF su
<1>4. ASSUME NEW i \in 1 .. Len(s) PROVE su[i] = s[i]
  BY <1>1, <1>3
<1>5. ASSUME NEW i \in 1 .. Len(u) PROVE su[Len(s) + i] = u[i]
  <2>1. Len(s) + i \in 1 .. Len(s) + Len(u) /\ ~(Len(s) + i <= Len(s)) /\ Len(s) + i - Len(s) = i
    BY <1>1
  <2> QED BY <1>3, <2>1
<1> QED BY <1>2, <1>4, <1>5 DEF su

LEMMA NatAssociative ==
  ASSUME NEW s \in Seq(Nat), NEW u \in Seq(Nat), NEW v \in Seq(Nat)
  PROVE  (s \o u) \o v = s \o (u \o v)
<1>1. \A S : \A a, b, c \in Seq(S) : (a \o b) \o c = a \o (b \o c)
  BY ConcatAssociative
<1> QED BY <1>1, SMTT(60)

LEMMA NatCut ==
  ASSUME NEW s \in Seq(Nat), NEW n \in 0 .. Len(s)
  PROVE  SubSeq(s, 1, n) \o SubSeq(s, n + 1, Len(s)) = s
<1>1. /\ Len(s) \in Nat /\ 1 \in 1 .. Len(s) + 1
      /\ n \in 1 - 1 .. Len(s) /\ Len(s) \in n .. Len(s)
  OBVIOUS
<1>2. SubSeq(s, 1, n) \o SubSeq(s, n + 1, Len(s)) = SubSeq(s, 1, Len(s))
  BY <1>1, ConcatAdjacentSubSeq, Zenon
<1>3. SubSeq(s, 1, Len(s)) = s
  BY SubSeqFull, Zenon
<1> QED BY <1>2, <1>3

LEMMA InputIsLine == InputInOrder <=> Line(delivered \o held, lost, taken)
BY DEF InputInOrder, Line

\* What the receiver takes and what stays behind is the queue, in order.
LEMMA InjectEffect ==
  ASSUME RxRing \in Nat, rx \in Seq(Nat), Len(rx) <= RxRing, delivered \in Seq(Nat),
         ris \in SUBSET {"rx", "tx"},
         NEW queue \in Seq(Nat), InjectHeld(queue)
  PROVE  /\ rx' \in Seq(Nat) /\ Len(rx') <= RxRing
         /\ held' \in Seq(Nat) /\ Len(held') <= Len(queue)
         /\ delivered' \in Seq(Nat)
         /\ ris' \in SUBSET {"rx", "tx"}
         /\ delivered' \o held' = delivered \o queue
<1> DEFINE room == IF listening THEN RxRing - Len(rx) ELSE 0
           n == Least(room, Len(queue))
           front == SubSeq(queue, 1, n)
           back == SubSeq(queue, n + 1, Len(queue))
<1>1. /\ rx' = rx \o front /\ delivered' = delivered \o front /\ held' = back
      /\ ris' = IF n > 0 THEN ris \cup {"rx"} ELSE ris
  BY DEF InjectHeld
<1>2. room \in Nat /\ room <= RxRing - Len(rx)
  OBVIOUS
<1> HIDE DEF room
<1>3. n \in Nat /\ n <= room /\ n <= Len(queue)
  <2>1. Len(queue) \in Nat
    OBVIOUS
  <2> QED BY <1>2, <2>1, LeastFacts
<1> HIDE DEF n
<1>4. /\ front \in Seq(Nat) /\ Len(front) = n
      /\ \A i \in 1 .. n : front[i] = queue[i]
  BY <1>3
<1>5. /\ back \in Seq(Nat) /\ Len(back) = Len(queue) - n
      /\ \A i \in 1 .. Len(queue) - n : back[i] = queue[n + i]
  <2>1. Len(queue) \in Nat /\ n + 1 \in 1 .. Len(queue) + 1
    BY <1>3
  <2>2. back \in Seq(Nat) /\ Len(back) = Len(queue) - n
    BY <1>3, <2>1
  <2>3. ASSUME NEW i \in 1 .. Len(queue) - n PROVE back[i] = queue[n + i]
    <3>1. back[i] = queue[n + 1 + i - 1]
      BY <1>3, <2>1, <2>2
    <3>2. n + 1 + i - 1 = n + i
      BY <1>3, <2>1
    <3> QED BY <3>1, <3>2
  <2> QED BY <2>2, <2>3
<1> HIDE DEF front, back
<1>6. (delivered \o front) \o back = delivered \o queue
  <2>1. front \o back = queue
    <3>1. n \in 0 .. Len(queue)
      BY <1>3
    <3> QED BY <3>1, NatCut DEF front, back
  <2>2. (delivered \o front) \o back = delivered \o (front \o back)
    BY <1>4, <1>5, NatAssociative
  <2> QED BY <2>1, <2>2
<1>7. ris' \in SUBSET {"rx", "tx"}
  BY <1>1
<1> QED BY <1>1, <1>2, <1>3, <1>4, <1>5, <1>6, <1>7

\* What was typed is queued up to the room there is, and counted beyond it.
LEMMA EnqueueEffect ==
  ASSUME HeldMax \in Nat, typed \in Nat, NEW t \in 0 .. typed, NEW lo,
         NEW queue \in Seq(Nat), Len(queue) <= HeldMax,
         NEW pre \in Seq(Nat), Line(pre \o queue, lo, t)
  PROVE  /\ Enqueue(queue, t + 1) \in Seq(Nat)
         /\ Len(Enqueue(queue, t + 1)) <= HeldMax
         /\ Line(pre \o Enqueue(queue, t + 1), lo \cup Overflow(queue, t + 1), typed)
<1> DEFINE n == Least(HeldMax - Len(queue), typed - (t + 1) + 1)
           new == [i \in 1 .. n |-> t + 1 + i - 1]
           old == pre \o queue
           line == pre \o (queue \o new)
           more == Overflow(queue, t + 1)
<1>1. /\ n \in Nat /\ n <= HeldMax - Len(queue) /\ n <= typed - t
      /\ n = HeldMax - Len(queue) \/ n = typed - t
  BY DEF Least
<1>2. Enqueue(queue, t + 1) = queue \o new
  BY DEF Enqueue
<1>3. more = {b \in t + 1 .. typed : b > t + HeldMax - Len(queue)}
  BY DEF Overflow
<1> HIDE DEF n
<1>4. new \in Seq(Nat) /\ Len(new) = n /\ \A i \in 1 .. n : new[i] = t + i
  BY <1>1
<1> HIDE DEF new, more
<1>5. queue \o new \in Seq(Nat) /\ Len(queue \o new) = Len(queue) + n
  BY <1>4, NatConcat
<1>6. old \in Seq(Nat) /\ line = old \o new
  <2>1. old \in Seq(Nat) BY NatConcat
  <2>2. line = old \o new BY <1>4, NatAssociative
  <2> QED BY <2>1, <2>2
<1>7. /\ \A i \in 2 .. Len(old) : old[i - 1] < old[i]
      /\ ToSet(old) \cup lo = 1 .. t /\ ToSet(old) \cap lo = {}
  BY DEF Line
<1> HIDE DEF old, line
<1>8. /\ line \in Seq(Nat) /\ Len(line) = Len(old) + n
      /\ \A i \in 1 .. Len(old) : line[i] = old[i]
      /\ \A i \in 1 .. n : line[Len(old) + i] = t + i
  <2>1. /\ old \o new \in Seq(Nat) /\ Len(old \o new) = Len(old) + n
        /\ \A i \in 1 .. Len(old) : (old \o new)[i] = old[i]
        /\ \A i \in 1 .. n : (old \o new)[Len(old) + i] = new[i]
    BY <1>4, <1>6, NatConcat
  <2> QED BY <1>4, <1>6, <2>1
<1>9. ToSet(line) = ToSet(old) \cup (t + 1 .. t + n)
  <2>1. ASSUME NEW x \in ToSet(line) PROVE x \in ToSet(old) \cup (t + 1 .. t + n)
    <3>1. PICK i \in 1 .. Len(line) : x = line[i]
      BY <1>8 DEF ToSet
    <3>2. CASE i \in 1 .. Len(old)
      BY <1>6, <1>8, <3>1, <3>2 DEF ToSet
    <3>3. CASE i > Len(old)
      <4>1. i - Len(old) \in 1 .. n /\ i = Len(old) + (i - Len(old))
        BY <1>1, <1>6, <1>8, <3>1, <3>3
      <4>2. x = t + (i - Len(old))
        BY <1>8, <3>1, <4>1
      <4> QED BY <1>1, <4>1, <4>2
    <3> QED BY <1>6, <1>8, <3>1, <3>2, <3>3
  <2>2. ASSUME NEW x \in ToSet(old) PROVE x \in ToSet(line)
    <3>1. PICK i \in 1 .. Len(old) : x = old[i]
      BY <1>6 DEF ToSet
    <3>2. Len(old) \in Nat /\ i \in 1 .. Len(line) /\ DOMAIN line = 1 .. Len(line)
      BY <1>1, <1>6, <1>8, <3>1
    <3>3. i \in DOMAIN line /\ line[i] = x
      BY <1>8, <3>1, <3>2
    <3> QED BY <3>3 DEF ToSet
  <2>3. ASSUME NEW x \in t + 1 .. t + n PROVE x \in ToSet(line)
    <3>1. x - t \in 1 .. n /\ x = t + (x - t)
      BY <1>1
    <3>2. Len(old) \in Nat /\ DOMAIN line = 1 .. Len(line)
      BY <1>6, <1>8
    <3>3. Len(old) + (x - t) \in DOMAIN line
      BY <1>1, <1>8, <3>1, <3>2
    <3>4. line[Len(old) + (x - t)] = x
      BY <1>8, <3>1
    <3> QED BY <3>3, <3>4 DEF ToSet
  <2> QED BY <2>1, <2>2, <2>3
<1>10. (t + 1 .. t + n) \cup more = t + 1 .. typed /\ (t + 1 .. t + n) \cap more = {}
  BY <1>1, <1>3
<1>11. ToSet(line) \cup (lo \cup more) = 1 .. typed
  <2>1. 1 .. typed = (1 .. t) \cup (t + 1 .. typed)
    OBVIOUS
  <2> QED BY <1>7, <1>9, <1>10, <2>1
<1>12. ToSet(line) \cap (lo \cup more) = {}
  <2>1. (1 .. t) \cap (t + 1 .. typed) = {}
    OBVIOUS
  <2>2. lo \subseteq 1 .. t /\ ToSet(old) \subseteq 1 .. t
    BY <1>7
  <2>3. more \subseteq t + 1 .. typed /\ (t + 1 .. t + n) \subseteq t + 1 .. typed
    BY <1>10
  <2> QED BY <1>7, <1>9, <1>10, <2>1, <2>2, <2>3
<1>13. ASSUME NEW i \in 2 .. Len(line) PROVE line[i - 1] < line[i]
  <2>1. CASE i <= Len(old)
    <3>1. i \in 2 .. Len(old) /\ i - 1 \in 1 .. Len(old) /\ i \in 1 .. Len(old)
      BY <1>6, <2>1
    <3> QED BY <1>7, <1>8, <3>1
  <2>2. CASE i = Len(old) + 1
    <3>1. i - 1 \in 1 .. Len(old) /\ 1 \in 1 .. n
      BY <1>1, <1>6, <1>8, <2>2
    <3>2. line[i] = t + 1 /\ line[i - 1] = old[i - 1]
      BY <1>8, <2>2, <3>1
    <3>3. old[i - 1] \in 1 .. t
      BY <1>6, <1>7, <3>1 DEF ToSet
    <3> QED BY <3>2, <3>3
  <2>3. CASE i > Len(old) + 1
    <3>1. /\ i - Len(old) \in 1 .. n /\ i - 1 - Len(old) \in 1 .. n
          /\ i = Len(old) + (i - Len(old)) /\ i - 1 = Len(old) + (i - 1 - Len(old))
      BY <1>1, <1>6, <1>8, <2>3
    <3>2. line[i] = t + (i - Len(old)) /\ line[i - 1] = t + (i - 1 - Len(old))
      BY <1>8, <3>1
    <3> QED BY <1>6, <3>2
  <2> QED BY <1>6, <2>1, <2>2, <2>3
<1>14. Line(line, lo \cup more, typed)
  BY <1>11, <1>12, <1>13 DEF Line
<1>15. Len(queue \o new) <= HeldMax
  <2>1. Len(queue) \in Nat
    OBVIOUS
  <2> QED BY <1>1, <1>5, <2>1
<1> QED BY <1>2, <1>5, <1>14, <1>15 DEF line, more

-----------------------------------------------------------------------------
(* The loop, point by point.                                               *)

\* The sub-slice that begins is no longer than what is left of the slice.
LEMMA ChunkKeeps ==
  ASSUME LoopInv, Chunk
  PROVE  LoopInv'
<1> USE BootAssumption
<1>1. /\ at = "slice"
      /\ UNCHANGED <<budget, todo, st, exit, warned, parked, timer, passes, listening, event,
                     irq, rx, tx, ris, taken, held, stdin_eof, lost, delivered, stdio, typed,
                     closed, age>>
  BY DEF Chunk, guestVars, uartVars, stdinVars, hostVars
<1>2. age = 0 /\ exit = "none" /\ st # "blocked" /\ todo \in Nat
  BY <1>1 DEF LoopInv, AtPoint, BootTypeOK
<1>3. CASE todo > 0
  <2>1. at' = "run" /\ chunk' = Least(todo, LevelQuantum) /\ stepped' = FALSE
    BY <1>3 DEF Chunk
  <2>2. chunk' \in 0 .. LevelQuantum /\ chunk' <= todo
    BY <1>2, <2>1, LeastFacts
  <2>3. BootTypeOK'
    <3>1. at' \in Points /\ stepped' \in BOOLEAN
      BY <2>1 DEF Points
    <3> QED BY <1>1, <2>2, <3>1 DEF LoopInv, BootTypeOK
  <2>4. AtPoint' /\ ExitStatus'
    BY <1>1, <1>2, <2>1, <2>2 DEF LoopInv, AtPoint, ExitStatus, Drained
  <2> QED BY <1>1, <2>3, <2>4 DEF LoopInv, Queues, LevelsFresh
<1>4. CASE ~(todo > 0)
  <2>1. at' = "pump" /\ UNCHANGED <<chunk, stepped>>
    BY <1>4 DEF Chunk
  <2>2. BootTypeOK'
    BY <1>1, <2>1 DEF LoopInv, BootTypeOK, Points
  <2>3. AtPoint' /\ ExitStatus'
    BY <1>1, <1>2, <2>1 DEF LoopInv, AtPoint, ExitStatus, Drained
  <2> QED BY <1>1, <2>2, <2>3 DEF LoopInv, Queues, LevelsFresh
<1> QED BY <1>3, <1>4

LEMMA RunEndsKeeps ==
  ASSUME LoopInv, RunEnds
  PROVE  LoopInv'
<1>1. /\ at = "run" /\ at' = "refresh" /\ st' \in {"ok", "timeout"}
      /\ UNCHANGED <<budget, todo, chunk, stepped, exit, warned, parked, timer, passes,
                     listening, event, irq, rx, tx, ris, taken, held, stdin_eof, lost,
                     delivered, stdio, typed, closed, age>>
  BY DEF RunEnds, guestVars, uartVars, stdinVars, hostVars
<1>2. BootTypeOK'
  BY <1>1 DEF LoopInv, BootTypeOK, Points
<1>3. AtPoint' /\ ExitStatus'
  BY <1>1 DEF LoopInv, AtPoint, ExitStatus, Drained
<1> QED BY <1>1, <1>2, <1>3 DEF LoopInv, Queues, LevelsFresh

LEMMA RefreshKeeps ==
  ASSUME LoopInv, Refresh
  PROVE  LoopInv'
<1> USE BootAssumption
<1>1. /\ at = "refresh" /\ age' = 0 /\ at' \in {"slice", "pump"}
      /\ irq' \in BOOLEAN
      /\ at' = "slice" => st # "blocked"
      /\ UNCHANGED <<budget, todo, chunk, stepped, st, exit, warned, parked, timer, passes,
                     listening, event, rx, tx, ris, taken, held, stdin_eof, lost,
                     delivered, stdio, typed, closed>>
  BY DEF Refresh, Level, guestVars, uartVars, stdinVars, hostVars
<1>2. BootTypeOK'
  BY <1>1 DEF LoopInv, BootTypeOK, Points
<1>3. AtPoint' /\ ExitStatus'
  BY <1>1 DEF LoopInv, AtPoint, ExitStatus, Drained
<1>4. age' \in Nat /\ LevelsFresh'
  BY <1>1 DEF LevelsFresh
<1> QED BY <1>1, <1>2, <1>3, <1>4 DEF LoopInv, Queues

LEMMA PumpKeeps ==
  ASSUME LoopInv, Pump
  PROVE  LoopInv'
<1> USE BootAssumption
<1>1. /\ at = "pump" /\ tx' = 0 /\ at' \in {"stdin", "verdict"}
      /\ UNCHANGED <<budget, todo, chunk, stepped, st, exit, warned, parked, timer, passes,
                     listening, event, irq, rx, ris, taken, held, stdin_eof, lost,
                     delivered, stdio, typed, closed, age>>
  BY DEF Pump, guestVars, stdinVars, hostVars
<1>2. BootTypeOK'
  BY <1>1 DEF LoopInv, BootTypeOK, Points
<1>3. AtPoint' /\ ExitStatus'
  BY <1>1 DEF LoopInv, AtPoint, ExitStatus, Drained
<1> QED BY <1>1, <1>2, <1>3 DEF LoopInv, Queues, LevelsFresh

\* The next slice starts with the levels sampled and the parked status gone.
LEMMA NextSliceKeeps ==
  ASSUME LoopInv, NextSlice, at # "exited", age' = 0, irq' \in BOOLEAN,
         UNCHANGED <<parked, timer, passes, listening, event, tx, stdio, typed, closed>>,
         taken' \in 0 .. typed, stdin_eof' \in BOOLEAN,
         rx' \in Seq(Nat), Len(rx') <= RxRing, ris' \in SUBSET {"rx", "tx"},
         held' \in Seq(Nat), Len(held') <= HeldMax, delivered' \in Seq(Nat)
  PROVE  LoopInv'
<1> USE BootAssumption
<1>1. /\ at' = "slice" /\ st' = "ok" /\ todo' = Least(budget, BootQuantum)
      /\ UNCHANGED <<budget, chunk, stepped, exit, warned>>
  BY DEF NextSlice
<1>2. exit = "none" /\ budget \in Nat
  BY DEF LoopInv, AtPoint, BootTypeOK
<1>3. todo' \in 0 .. BootQuantum /\ todo' <= budget
  BY <1>1, <1>2, LeastFacts
<1>4. BootTypeOK'
  BY <1>1, <1>3 DEF LoopInv, BootTypeOK, Points
<1>5. AtPoint' /\ ExitStatus'
  BY <1>1, <1>2 DEF LoopInv, AtPoint, ExitStatus, Drained
<1>6. Queues' /\ age' \in Nat /\ LevelsFresh'
  BY DEF Queues, LevelsFresh
<1> QED BY <1>4, <1>5, <1>6 DEF LoopInv

\* The other ways on from the verdict: the wait for input, and the exits, each
\* with its own reason.
LEMMA StopKeeps ==
  ASSUME LoopInv, at \in {"stdin", "verdict", "await", "read"},
         at' \in {"verdict", "await", "read", "exited"}, exit' # "none" <=> at' = "exited",
         at' \in {"await", "read"} => st = "blocked",
         exit' \in {"none", "guest", "error", "timeout", "blocked"}, warned' \in BOOLEAN,
         exit' = "guest" => event = "powerdown",
         exit' = "error" => event = "reset",
         exit' = "timeout" => budget = 0 /\ event = "none",
         exit' = "blocked" => st = "blocked",
         UNCHANGED <<budget, todo, chunk, stepped, st, parked, timer, passes, listening,
                     event, irq, tx, stdio, typed, closed, age>>,
         taken' \in 0 .. typed, stdin_eof' \in BOOLEAN,
         rx' \in Seq(Nat), Len(rx') <= RxRing, ris' \in SUBSET {"rx", "tx"},
         held' \in Seq(Nat), Len(held') <= HeldMax, delivered' \in Seq(Nat)
  PROVE  LoopInv'
<1>1. tx = 0 /\ age = 0 /\ (st = "blocked" => parked /\ event = "none")
  BY DEF LoopInv, AtPoint, Drained
<1>2. at' \in Points
  BY DEF Points
<1>3. BootTypeOK'
  BY <1>2 DEF LoopInv, BootTypeOK
<1>4. AtPoint'
  BY <1>1 DEF LoopInv, AtPoint, Drained
<1>5. ExitStatus'
  BY <1>1 DEF ExitStatus
<1>6. Queues' /\ age' \in Nat /\ LevelsFresh'
  BY DEF LoopInv, Queues, LevelsFresh
<1> QED BY <1>3, <1>4, <1>5, <1>6 DEF LoopInv

LEMMA VerdictKeeps ==
  ASSUME LoopInv, Verdict
  PROVE  LoopInv'
<1> USE BootAssumption
<1>1. /\ at = "verdict"
      /\ UNCHANGED <<parked, timer, passes, listening, event, irq, rx, tx, ris, taken, held,
                     stdin_eof, lost, delivered, stdio, typed, closed, age>>
  BY DEF Verdict, guestVars, uartVars, stdinVars, hostVars
<1>2. /\ age = 0 /\ exit = "none" /\ irq \in BOOLEAN /\ taken \in 0 .. typed
      /\ warned \in BOOLEAN /\ stdin_eof \in BOOLEAN
      /\ rx \in Seq(Nat) /\ Len(rx) <= RxRing /\ ris \in SUBSET {"rx", "tx"}
      /\ held \in Seq(Nat) /\ Len(held) <= HeldMax /\ delivered \in Seq(Nat)
      /\ event \in {"none", "powerdown", "reset"}
  BY <1>1 DEF LoopInv, AtPoint, BootTypeOK, Queues
<1>3. CASE NextSlice
  BY <1>1, <1>2, <1>3, NextSliceKeeps
<1>4. CASE ~NextSlice
  <2>1. /\ UNCHANGED <<budget, todo, chunk, stepped, st>>
        /\ \/ event = "powerdown" /\ exit' = "guest" /\ warned' = TRUE /\ at' = "exited"
           \/ event = "reset" /\ exit' = "error" /\ warned' = FALSE /\ at' = "exited"
           \/ st = "blocked" /\ exit' = "none" /\ warned' = warned /\ at' = "await"
           \/ st = "blocked" /\ exit' = "blocked" /\ warned' = FALSE /\ at' = "exited"
           \/ budget = 0 /\ event = "none" /\ exit' = "timeout" /\ warned' = TRUE
              /\ at' = "exited"
    BY <1>2, <1>4 DEF Verdict, Exit
  <2>2. warned' \in BOOLEAN
    BY <1>2, <2>1
  <2> QED BY <1>1, <1>2, <2>1, <2>2, StopKeeps
<1> QED BY <1>3, <1>4

\* What the input queue must give back at the end of a handler.
InputOK ==
  /\ rx \in Seq(Nat) /\ Len(rx) <= RxRing /\ ris \in SUBSET {"rx", "tx"}
  /\ held \in Seq(Nat) /\ Len(held) <= HeldMax /\ delivered \in Seq(Nat)

\* Bytes are read and offered in one go: boot_pump_stdin, and the blocking read.
LEMMA TakeEffect ==
  ASSUME LoopInv, InputInOrder,
         taken' = typed, typed' = typed,
         lost' = lost \cup Overflow(held, taken + 1),
         InjectHeld(Enqueue(held, taken + 1))
  PROVE  InputOK' /\ InputInOrder' /\ taken' \in 0 .. typed
<1> USE BootAssumption
<1>1. /\ rx \in Seq(Nat) /\ Len(rx) <= RxRing /\ ris \in SUBSET {"rx", "tx"}
      /\ held \in Seq(Nat) /\ Len(held) <= HeldMax /\ delivered \in Seq(Nat)
      /\ typed \in Nat /\ taken \in 0 .. typed
  BY DEF LoopInv, BootTypeOK, Queues
<1> DEFINE queue == Enqueue(held, taken + 1)
           more == Overflow(held, taken + 1)
<1>2. /\ queue \in Seq(Nat) /\ Len(queue) <= HeldMax
      /\ Line(delivered \o queue, lost \cup more, typed)
  BY <1>1, InputIsLine, EnqueueEffect
<1>3. InjectHeld(queue) /\ lost' = lost \cup more
  OBVIOUS
<1> HIDE DEF queue, more
<1>4. /\ rx' \in Seq(Nat) /\ Len(rx') <= RxRing
      /\ held' \in Seq(Nat) /\ Len(held') <= Len(queue)
      /\ delivered' \in Seq(Nat)
      /\ ris' \in SUBSET {"rx", "tx"}
      /\ delivered' \o held' = delivered \o queue
  BY <1>1, <1>2, <1>3, InjectEffect
<1>5. Len(held') <= HeldMax
  <2>1. Len(held') \in Nat /\ Len(queue) \in Nat
    BY <1>2, <1>4
  <2> QED BY <1>2, <1>4, <2>1
<1>6. Line(delivered' \o held', lost', taken')
  BY <1>2, <1>3, <1>4
<1>7. InputInOrder'
  BY <1>6 DEF InputInOrder, Line
<1> QED BY <1>1, <1>4, <1>5, <1>7 DEF InputOK

LEMMA PumpStdinKeeps ==
  ASSUME LoopInv, InputInOrder, PumpStdin
  PROVE  LoopInv' /\ InputInOrder'
<1>1. /\ at = "stdin" /\ at' = "verdict" /\ taken' = typed
      /\ lost' = lost \cup Overflow(held, taken + 1)
      /\ InjectHeld(Enqueue(held, taken + 1))
      /\ UNCHANGED <<budget, todo, chunk, stepped, st, exit, warned, parked, timer, passes,
                     listening, event, irq, tx, stdio, typed, closed, age>>
  BY DEF PumpStdin, guestVars, hostVars
<1>2. InputOK' /\ InputInOrder' /\ taken' \in 0 .. typed
  BY <1>1, TakeEffect
<1>3. stdin_eof' \in BOOLEAN /\ warned' \in BOOLEAN /\ exit = "none"
  BY <1>1 DEF PumpStdin, LoopInv, BootTypeOK, AtPoint
<1>4. LoopInv'
  BY <1>1, <1>2, <1>3, StopKeeps DEF InputOK
<1> QED BY <1>2, <1>4

LEMMA AwaitKeeps ==
  ASSUME LoopInv, InputInOrder, Await
  PROVE  LoopInv' /\ InputInOrder'
<1> USE BootAssumption
<1>1. /\ at = "await" /\ InjectHeld(held)
      /\ UNCHANGED <<parked, timer, passes, listening, event, tx, taken, stdin_eof, lost,
                     stdio, typed, closed>>
  BY DEF Await, guestVars, hostVars
<1>2. /\ rx \in Seq(Nat) /\ Len(rx) <= RxRing /\ ris \in SUBSET {"rx", "tx"}
      /\ held \in Seq(Nat) /\ Len(held) <= HeldMax /\ delivered \in Seq(Nat)
      /\ taken \in 0 .. typed /\ stdin_eof \in BOOLEAN /\ warned \in BOOLEAN
  BY DEF LoopInv, BootTypeOK, Queues
<1>3. st = "blocked" /\ exit = "none"
  BY <1>1 DEF LoopInv, AtPoint
<1>4. /\ rx' \in Seq(Nat) /\ Len(rx') <= RxRing
      /\ held' \in Seq(Nat) /\ Len(held') <= Len(held)
      /\ delivered' \in Seq(Nat)
      /\ ris' \in SUBSET {"rx", "tx"}
      /\ delivered' \o held' = delivered \o held
  BY <1>1, <1>2, InjectEffect
<1>5. Len(held') <= HeldMax
  <2>1. Len(held') \in Nat /\ Len(held) \in Nat
    BY <1>2, <1>4
  <2> QED BY <1>2, <1>4, <2>1
<1>6. InputInOrder'
  BY <1>1, <1>4 DEF InputInOrder
<1>7. CASE held' # <<>>
  <2>1. NextSlice /\ age' = 0 /\ irq' \in BOOLEAN
    BY <1>7 DEF Await, Level
  <2>2. LoopInv'
    BY <1>1, <1>2, <1>4, <1>5, <2>1, NextSliceKeeps
  <2> QED BY <1>6, <2>2
<1>8. CASE held' = <<>>
  <2>1. /\ UNCHANGED <<irq, age, budget, todo, chunk, stepped, st>>
        /\ \/ exit' = "blocked" /\ warned' = FALSE /\ at' = "exited"
           \/ exit' = exit /\ warned' = warned /\ at' = "read"
    BY <1>8 DEF Await, Exit
  <2>2. warned' \in BOOLEAN
    BY <1>2, <2>1
  <2>3. LoopInv'
    BY <1>1, <1>2, <1>3, <1>4, <1>5, <2>1, <2>2, StopKeeps
  <2> QED BY <1>6, <2>3
<1> QED BY <1>7, <1>8

LEMMA ReadKeeps ==
  ASSUME LoopInv, InputInOrder, Read
  PROVE  LoopInv' /\ InputInOrder'
<1> USE BootAssumption
<1>1. /\ at = "read"
      /\ UNCHANGED <<parked, timer, passes, listening, event, tx, stdio, typed, closed>>
  BY DEF Read, guestVars, hostVars
<1>2. /\ rx \in Seq(Nat) /\ Len(rx) <= RxRing /\ ris \in SUBSET {"rx", "tx"}
      /\ held \in Seq(Nat) /\ Len(held) <= HeldMax /\ delivered \in Seq(Nat)
      /\ taken \in 0 .. typed
  BY DEF LoopInv, BootTypeOK, Queues
<1>3. st = "blocked" /\ exit = "none" /\ closed \in BOOLEAN
  BY <1>1 DEF LoopInv, AtPoint, BootTypeOK
<1>4. CASE taken < typed
  <2>1. /\ taken' = typed /\ lost' = lost \cup Overflow(held, taken + 1)
        /\ InjectHeld(Enqueue(held, taken + 1))
        /\ NextSlice /\ age' = 0 /\ irq' = Level' /\ stdin_eof' = closed
    <3>1. taken # typed
      BY <1>2, <1>4, typed \in Nat DEF LoopInv, BootTypeOK
    <3> QED BY <3>1, Zenon DEF Read
  <2>2. InputOK' /\ InputInOrder' /\ taken' \in 0 .. typed
    BY <1>1, <2>1, TakeEffect
  <2>3. stdin_eof' \in BOOLEAN /\ irq' \in BOOLEAN
    BY <1>3, <2>1 DEF Level
  <2>4. LoopInv'
    BY <1>1, <2>1, <2>2, <2>3, NextSliceKeeps DEF InputOK
  <2> QED BY <2>2, <2>4
<1>5. CASE ~(taken < typed)
  <2>1. /\ stdin_eof' = TRUE /\ Exit("blocked", FALSE)
        /\ UNCHANGED <<taken, lost, held, delivered, rx, ris, irq, age>>
    BY <1>5 DEF Read
  <2>2. InputInOrder'
    BY <2>1 DEF InputInOrder
  <2>3. /\ exit' = "blocked" /\ warned' = FALSE /\ at' = "exited"
        /\ UNCHANGED <<budget, todo, chunk, stepped, st>>
    BY <2>1 DEF Exit
  <2>4. stdin_eof' \in BOOLEAN /\ warned' \in BOOLEAN
    BY <2>1, <2>3
  <2>5. LoopInv'
    BY <1>1, <1>2, <1>3, <2>1, <2>3, <2>4, StopKeeps
  <2> QED BY <2>2, <2>5
<1> QED BY <1>4, <1>5

\* The host: what is typed later is not yet anyone's business.
LEMMA HostKeeps ==
  ASSUME LoopInv, Type \/ Close
  PROVE  LoopInv'
<1> USE BootAssumption
<1>1. /\ UNCHANGED <<at, budget, todo, chunk, stepped, st, exit, warned, parked, timer, passes,
                     listening, event, irq, rx, tx, ris, taken, held, stdin_eof, lost,
                     delivered, stdio, age>>
  BY DEF Type, Close, loopVars, guestVars, uartVars, stdinVars
<1>2. /\ typed' \in 0 .. MaxTyped /\ typed <= typed' /\ typed \in Nat
      /\ taken \in 0 .. typed
  BY DEF Type, Close, LoopInv, BootTypeOK
<1>3. closed' \in BOOLEAN
  BY DEF Type, Close, LoopInv, BootTypeOK
<1>4. taken' \in 0 .. typed'
  BY <1>1, <1>2
<1>5. BootTypeOK'
  BY <1>1, <1>2, <1>3, <1>4 DEF LoopInv, BootTypeOK
<1>6. AtPoint' /\ ExitStatus'
  BY <1>1 DEF LoopInv, AtPoint, ExitStatus
<1> QED BY <1>1, <1>5, <1>6 DEF LoopInv, Queues, LevelsFresh

-----------------------------------------------------------------------------
(* Theorems                                                                *)

LEMMA NextKeeps ==
  ASSUME LoopInv, InputInOrder, [BootNext]_bootVars
  PROVE  LoopInv' /\ InputInOrder'
<1>1. ASSUME UNCHANGED stdinVars PROVE InputInOrder'
  BY <1>1 DEF InputInOrder, stdinVars
<1>2. CASE Chunk
  BY <1>1, <1>2, ChunkKeeps DEF Chunk
<1>3. CASE Guest
  <2>1. UNCHANGED stdinVars
    BY <1>3 DEF Guest, Plain, ArmTimer, Unmask, Listen, ReadDr, WriteDr, ClearInts, FwCall,
                Blocked, Acts, Progress
  <2> QED BY <1>1, <1>3, <2>1, GuestKeeps
<1>4. CASE RunEnds
  BY <1>1, <1>4, RunEndsKeeps DEF RunEnds
<1>5. CASE Refresh
  BY <1>1, <1>5, RefreshKeeps DEF Refresh
<1>6. CASE Pump
  BY <1>1, <1>6, PumpKeeps DEF Pump
<1>7. CASE PumpStdin
  BY <1>7, PumpStdinKeeps
<1>8. CASE Verdict
  BY <1>1, <1>8, VerdictKeeps DEF Verdict
<1>9. CASE Await
  BY <1>9, AwaitKeeps
<1>10. CASE Read
  BY <1>10, ReadKeeps
<1>11. CASE Type \/ Close
  <2>1. UNCHANGED stdinVars
    BY <1>11 DEF Type, Close
  <2> QED BY <1>1, <1>11, <2>1, HostKeeps
<1>12. CASE UNCHANGED bootVars
  <2>1. UNCHANGED <<at, budget, todo, chunk, stepped, st, exit, warned, parked, timer, passes,
                    listening, event, irq, rx, tx, ris, taken, held, stdin_eof, lost,
                    delivered, stdio, typed, closed, age>>
    BY <1>12 DEF bootVars, loopVars, guestVars, uartVars, stdinVars, hostVars
  <2>2. UNCHANGED stdinVars
    BY <2>1 DEF stdinVars
  <2>3. BootTypeOK' /\ AtPoint' /\ ExitStatus'
    BY <2>1 DEF LoopInv, BootTypeOK, AtPoint, ExitStatus
  <2> QED BY <1>1, <2>1, <2>2, <2>3 DEF LoopInv, Queues, LevelsFresh
<1> QED
  BY <1>2, <1>3, <1>4, <1>5, <1>6, <1>7, <1>8, <1>9, <1>10, <1>11, <1>12 DEF BootNext, Loop

\* What the loop knows at each of its points is inductive, together with the
\* account of the typed bytes.
THEOREM LoopInvariant == BootSpec => [](LoopInv /\ InputInOrder)
<1>1. BootInit => InputInOrder
  BY DEF BootInit, InputInOrder, ToSet
<1>2. BootInit => LoopInv /\ InputInOrder
  BY <1>1, InitLoop
<1>3. (LoopInv /\ InputInOrder) /\ [BootNext]_bootVars => (LoopInv /\ InputInOrder)'
  BY NextKeeps
<1> QED BY <1>2, <1>3, PTL DEF BootSpec

\* The scheduler's state is well typed: the slice never exceeds the budget,
\* and neither the receive ring nor the held queue outgrows its array.
THEOREM BootTypes == BootSpec => []BootTypeOK
<1>1. LoopInv => BootTypeOK
  BY DEF LoopInv
<1> QED BY <1>1, LoopInvariant, PTL

\* Every byte read from stdin is delivered, held or counted as dropped, once
\* and in the order typed.
THEOREM BootInput == BootSpec => []InputInOrder
BY LoopInvariant, PTL

\* No level handed to the core is older than a sub-slice.
THEOREM BootLevels == BootSpec => []LevelsFresh
<1>1. LoopInv => LevelsFresh
  BY DEF LoopInv
<1> QED BY <1>1, LoopInvariant, PTL

\* Whatever the guest transmitted is out when the loop exits.
THEOREM BootLog == BootSpec => []LogComplete
<1>1. LoopInv => LogComplete
  BY DEF LoopInv, AtPoint, LogComplete, Drained
<1> QED BY <1>1, LoopInvariant, PTL

\* The exit status is the one of what happened.
THEOREM BootExit == BootSpec => []ExitStatus
<1>1. LoopInv => ExitStatus
  BY DEF LoopInv
<1> QED BY <1>1, LoopInvariant, PTL

\* After a power event no step of the loop or of the host runs the guest.
THEOREM BootPowerEvent == BootSpec => PowerEventFinal
<1>1. ASSUME BootNext PROVE event # "none" => UNCHANGED <<guestVars, budget>>
  <2>1. CASE Guest
    <3>1. Running
      BY <2>1 DEF Guest, Plain, ArmTimer, Unmask, Listen, ReadDr, WriteDr, ClearInts, FwCall,
                  Blocked, Acts, Progress
    <3> QED BY <3>1 DEF Running
  <2>2. CASE Chunk \/ RunEnds \/ Refresh \/ Pump \/ PumpStdin
    BY <2>2 DEF Chunk, RunEnds, Refresh, Pump, PumpStdin
  <2>3. CASE Verdict
    BY <2>3 DEF Verdict, Exit, NextSlice
  <2>4. CASE Await \/ Read
    BY <2>4 DEF Await, Read, Exit, NextSlice
  <2>5. CASE Type \/ Close
    BY <2>5 DEF Type, Close, loopVars
  <2> QED BY <1>1, <2>1, <2>2, <2>3, <2>4, <2>5 DEF BootNext, Loop
<1>2. [BootNext]_bootVars => [event # "none" => UNCHANGED <<guestVars, budget>>]_bootVars
  BY <1>1
<1> QED BY <1>2, PTL DEF BootSpec, PowerEventFinal
=============================================================================
