---------------------------- MODULE Pl011Proofs ----------------------------
(***************************************************************************)
(* Pl011 for rings of every size and traffic of every length.              *)
(***************************************************************************)
EXTENDS Pl011, SequenceTheorems, TLAPS

\* A ring index stays in the ring.
LEMMA Wraps ==
  ASSUME NEW n \in Nat \ {0}, NEW i \in Nat
  PROVE  i % n \in 0 .. n - 1
OBVIOUS

\* A push stores its byte, moves the indices inside the ring, and adds one to
\* what is queued or to what is counted as lost.
LEMMA TxPushEffect ==
  ASSUME UartTypeOK, NEW byte \in Bytes, TxPush(byte)
  PROVE  /\ tx' \in [0 .. TxRing - 1 -> Bytes]
         /\ tx_head' \in 0 .. TxRing - 1 /\ tx_count' \in 0 .. TxRing
         /\ tx_dropped' \in Nat /\ tx_emitted' = tx_emitted
         /\ tx_dropped' + tx_count' = tx_dropped + tx_count + 1
<1> USE Pl011Assumption DEF UartTypeOK
<1>1. (tx_head + 1) % TxRing \in 0 .. TxRing - 1
  BY Wraps
<1>2. CASE tx_count >= TxRing
  <2>1. tx_count = TxRing
    BY <1>2
  <2> QED BY <1>1, <1>2, <2>1 DEF TxPush
<1>3. CASE ~(tx_count >= TxRing)
  BY <1>3 DEF TxPush
<1> QED BY <1>2, <1>3

\* A received byte fits: the refusal at a full ring keeps the count in range.
LEMMA ReceiveEffect ==
  ASSUME UartTypeOK, NEW byte \in Bytes, Accepts, Receive(byte)
  PROVE  /\ rx' \in [0 .. RxRing - 1 -> Bytes]
         /\ rx_tail' \in 0 .. RxRing - 1 /\ rx_count' \in 1 .. RxRing
         /\ rx_head' = rx_head /\ acked' = FALSE
<1> USE Pl011Assumption DEF UartTypeOK
<1>1. (rx_tail + 1) % RxRing \in 0 .. RxRing - 1
  BY Wraps
<1> QED BY <1>1 DEF Receive, Accepts

\* The transmit side of a DR write.
LEMMA WriteDrTx ==
  ASSUME UartTypeOK, TxConserved, WriteDr
  PROVE  /\ tx' \in [0 .. TxRing - 1 -> Bytes]
         /\ tx_head' \in 0 .. TxRing - 1 /\ tx_count' \in 0 .. TxRing
         /\ tx_dropped' \in Nat /\ tx_emitted' \in Nat
         /\ sent' \in 0 .. MaxTx /\ sent' \in Bytes
         /\ TxConserved'
<1>1. sent' \in 0 .. MaxTx /\ sent' = sent + 1 /\ sent' \in Bytes
  BY Pl011Assumption DEF WriteDr, UartTypeOK, Bytes
<1>2. CASE "FEN" \in cr
  <2>1. TxPush(sent')
    BY <1>2 DEF WriteDr
  <2>2. /\ tx' \in [0 .. TxRing - 1 -> Bytes]
        /\ tx_head' \in 0 .. TxRing - 1 /\ tx_count' \in 0 .. TxRing
        /\ tx_dropped' \in Nat /\ tx_emitted' = tx_emitted
        /\ tx_dropped' + tx_count' = tx_dropped + tx_count + 1
    BY <1>1, <2>1, TxPushEffect
  <2>3. /\ tx_emitted \in Nat /\ tx_count \in Nat /\ tx_dropped \in Nat
        /\ tx_count' \in Nat /\ sent \in Nat
    BY <2>2, Pl011Assumption DEF UartTypeOK
  <2>4. sent' = tx_emitted' + tx_dropped' + tx_count'
    <3> DEFINE d == tx_dropped'
               c == tx_count'
    <3>1. d \in Nat /\ c \in Nat /\ d + c = tx_dropped + tx_count + 1
      BY <2>2, <2>3
    <3> HIDE DEF d, c
    <3>2. sent + 1 = tx_emitted + d + c
      BY <2>3, <3>1 DEF TxConserved
    <3> QED BY <1>1, <2>2, <3>2 DEF d, c
  <2> QED
    BY <1>1, <2>2, <2>3, <2>4 DEF TxConserved
<1>3. CASE "FEN" \notin cr
  <2>1. PassThrough(sent')
    BY <1>3 DEF WriteDr
  <2> QED
    BY <1>1, <2>1, Pl011Assumption DEF PassThrough, TxConserved, UartTypeOK
<1> QED BY <1>2, <1>3

UartInv == UartTypeOK /\ TxConserved /\ RxSignalled /\ FlagsFresh

\* The cached flags are those of the new state.
LEMMA FlagsNow ==
  ASSUME fr' = Flags
  PROVE  FlagsFresh' /\ fr' \in SUBSET {"TXFE", "RXFE"}
BY DEF Flags, FlagsFresh

LEMMA WriteDrKeeps ==
  ASSUME UartInv, WriteDr
  PROVE  UartInv'
<1> USE DEF UartInv
<1>1. /\ tx' \in [0 .. TxRing - 1 -> Bytes]
      /\ tx_head' \in 0 .. TxRing - 1 /\ tx_count' \in 0 .. TxRing
      /\ tx_dropped' \in Nat /\ tx_emitted' \in Nat
      /\ sent' \in 0 .. MaxTx /\ sent' \in Bytes
      /\ TxConserved'
  BY WriteDrTx
<1>2. FlagsFresh' /\ fr' \in SUBSET {"TXFE", "RXFE"}
  BY FlagsNow DEF WriteDr
<1>3. UNCHANGED <<cr, imsc, offered>>
  BY DEF WriteDr
<1>4. CASE {"LBE", "RXE"} \subseteq cr /\ Accepts
  <2>1. Receive(sent') /\ ris' = ris \cup {"TXIS"} \cup INT_RX
    BY <1>4 DEF WriteDr
  <2>2. /\ rx' \in [0 .. RxRing - 1 -> Bytes]
        /\ rx_tail' \in 0 .. RxRing - 1 /\ rx_count' \in 1 .. RxRing
        /\ rx_head' = rx_head /\ acked' = FALSE /\ rx_dropped' = rx_dropped
    BY <1>1, <1>4, <2>1, ReceiveEffect DEF Receive
  <2>3. RxSignalled'
    BY <2>1, <2>2 DEF RxSignalled, UartTypeOK
  <2>4. ris' \in SUBSET Ints
    BY <2>1 DEF UartTypeOK, Ints, INT_RX
  <2>5. rx_count' \in 0 .. RxRing
    BY <2>2
  <2> QED BY <1>1, <1>2, <1>3, <2>2, <2>3, <2>4, <2>5 DEF UartTypeOK
<1>5. CASE ~({"LBE", "RXE"} \subseteq cr /\ Accepts)
  <2>1. /\ ris' = ris \cup {"TXIS"}
        /\ rx_dropped' \in {rx_dropped, rx_dropped + 1}
        /\ UNCHANGED <<rx, rx_head, rx_tail, rx_count, acked>>
    BY <1>5 DEF WriteDr
  <2>2. RxSignalled'
    BY <2>1 DEF RxSignalled, INT_RX
  <2>3. ris' \in SUBSET Ints /\ rx_dropped' \in Nat
    BY <2>1 DEF UartTypeOK, Ints
  <2> QED BY <1>1, <1>2, <1>3, <2>1, <2>2, <2>3 DEF UartTypeOK
<1> QED BY <1>4, <1>5

LEMMA InjectKeeps ==
  ASSUME UartInv, Inject
  PROVE  UartInv'
<1> USE DEF UartInv
<1>1. offered' \in 0 .. MaxRx /\ -offered' \in Bytes
  BY Pl011Assumption DEF Inject, UartTypeOK, Bytes
<1>2. /\ rx' \in [0 .. RxRing - 1 -> Bytes]
      /\ rx_tail' \in 0 .. RxRing - 1 /\ rx_count' \in 1 .. RxRing
      /\ rx_head' = rx_head /\ acked' = FALSE /\ rx_dropped' = rx_dropped
  BY <1>1, ReceiveEffect DEF Inject, Receive
<1>3. FlagsFresh' /\ fr' \in SUBSET {"TXFE", "RXFE"}
  BY FlagsNow DEF Inject
<1>4. RxSignalled'
  BY <1>2 DEF RxSignalled, Inject, UartTypeOK
<1>5. ris' \in SUBSET Ints /\ rx_count' \in 0 .. RxRing
  BY <1>2 DEF Inject, UartTypeOK, Ints, INT_RX
<1>6. UNCHANGED <<cr, imsc, txVars>>
  BY DEF Inject
<1>7. TxConserved'
  BY <1>6 DEF TxConserved, txVars
<1> QED BY <1>1, <1>2, <1>3, <1>4, <1>5, <1>6, <1>7 DEF UartTypeOK, txVars

LEMMA ReadDrKeeps ==
  ASSUME UartInv, ReadDr
  PROVE  UartInv'
<1> USE DEF UartInv
<1>1. FlagsFresh' /\ fr' \in SUBSET {"TXFE", "RXFE"}
  BY FlagsNow DEF ReadDr
<1>2. UNCHANGED <<cr, imsc, txVars, rx, rx_tail, rx_dropped, offered, acked>>
  BY DEF ReadDr
<1>3. TxConserved'
  BY <1>2 DEF TxConserved, txVars
<1>4. rx_head' \in 0 .. RxRing - 1 /\ rx_count' \in 0 .. RxRing
  <2>1. (rx_head + 1) % RxRing \in 0 .. RxRing - 1
    BY Wraps, Pl011Assumption DEF UartTypeOK
  <2> QED BY <2>1, Pl011Assumption DEF ReadDr, UartTypeOK
<1>5. RxSignalled' /\ ris' \in SUBSET Ints
  BY <1>2, Pl011Assumption DEF ReadDr, RxSignalled, UartTypeOK
<1> QED BY <1>1, <1>2, <1>3, <1>4, <1>5 DEF UartTypeOK, txVars

LEMMA RegistersKeep ==
  ASSUME UartInv,
         \/ \E v \in CrValues : WriteCr(v)
         \/ \E v \in {{}, Ints} : WriteImsc(v)
         \/ \E v \in (SUBSET Ints) \ {{}} : WriteIntClr(v)
  PROVE  UartInv'
<1> USE DEF UartInv
<1>1. FlagsFresh' /\ fr' \in SUBSET {"TXFE", "RXFE"}
  BY FlagsNow DEF WriteCr, WriteImsc, WriteIntClr
<1>2. UNCHANGED <<txVars, rx, rx_head, rx_tail, rx_count, rx_dropped, offered>>
  BY DEF WriteCr, WriteImsc, WriteIntClr, rxVars
<1>3. TxConserved'
  BY <1>2 DEF TxConserved, txVars
<1>4. cr' \in SUBSET CrBits /\ imsc' \in SUBSET Ints /\ ris' \in SUBSET Ints
  BY Pl011Assumption DEF WriteCr, WriteImsc, WriteIntClr, UartTypeOK
<1>5. RxSignalled' /\ acked' \in BOOLEAN
  <2>1. CASE UNCHANGED <<ris, rxVars>>
    BY <2>1 DEF RxSignalled, rxVars, UartTypeOK
  <2>2. CASE \E v \in (SUBSET Ints) \ {{}} : WriteIntClr(v)
    <3>1. PICK v \in SUBSET Ints : WriteIntClr(v)
      BY <2>2
    <3>2. acked' \in BOOLEAN
      BY <3>1 DEF WriteIntClr
    <3>3. ris' \cap INT_RX # {} => rx_count' > 0
      BY <3>1 DEF WriteIntClr, RxSignalled
    <3>4. ~acked' => v \cap INT_RX = {} /\ ~acked
      BY <3>1 DEF WriteIntClr
    <3>5. rx_count' > 0 /\ ~acked' => INT_RX \subseteq ris'
      BY <3>1, <3>4 DEF WriteIntClr, RxSignalled
    <3> QED BY <3>2, <3>3, <3>5 DEF RxSignalled
  <2> QED BY <2>1, <2>2 DEF WriteCr, WriteImsc
<1> QED BY <1>1, <1>2, <1>3, <1>4, <1>5 DEF UartTypeOK, txVars

LEMMA PumpKeeps ==
  ASSUME UartInv, Pump
  PROVE  UartInv'
<1> USE DEF UartInv
<1>1. FlagsFresh' /\ fr' \in SUBSET {"TXFE", "RXFE"}
  BY FlagsNow DEF Pump
<1>2. tx_head' \in 0 .. TxRing - 1
  BY Wraps, Pl011Assumption DEF Pump, UartTypeOK
<1>3. /\ tx_count' = 0 /\ tx_emitted' = tx_emitted + tx_count
      /\ UNCHANGED <<cr, imsc, ris, tx, tx_dropped, sent, rxVars>>
  BY DEF Pump
<1>4. TxConserved'
  BY <1>3 DEF TxConserved, UartTypeOK
<1>5. RxSignalled'
  BY <1>3 DEF RxSignalled, rxVars
<1> QED
  BY <1>1, <1>2, <1>3, <1>4, <1>5, Pl011Assumption DEF UartTypeOK, rxVars

LEMMA UartInvariant == UartSpec => []UartInv
<1>1. UartInit => UartInv
  <2> SUFFICES ASSUME UartInit PROVE UartInv
    OBVIOUS
  <2>1. 0 \in Bytes
    BY Pl011Assumption DEF Bytes
  <2>2. UartTypeOK
    BY <2>1, Pl011Assumption DEF UartInit, UartTypeOK, CrBits
  <2> QED
    BY <2>2 DEF UartInit, UartInv, TxConserved, RxSignalled, FlagsFresh
<1>2. UartInv /\ [UartNext]_uartVars => UartInv'
  <2> SUFFICES ASSUME UartInv, [UartNext]_uartVars PROVE UartInv'
    OBVIOUS
  <2>1. CASE UNCHANGED uartVars
    BY <2>1 DEF uartVars, txVars, rxVars, UartInv, UartTypeOK, TxConserved,
       RxSignalled, FlagsFresh
  <2> QED
    BY <2>1, WriteDrKeeps, InjectKeeps, ReadDrKeeps, RegistersKeep, PumpKeeps
    DEF UartNext
<1> QED BY <1>1, <1>2, PTL DEF UartSpec

\* The ring indices and counts stay in the rings whatever the guest writes and
\* whenever the host pumps (pl011_tx_push, oemu_pl011_inject).
THEOREM UartTypeCorrect == UartSpec => []UartTypeOK
BY UartInvariant, PTL DEF UartInv

\* No transmitted byte is lost uncounted, for every ring size and burst.
THEOREM NoSilentLoss == UartSpec => []TxConserved
BY UartInvariant, PTL DEF UartInv

\* The receive status and the receive ring agree.
THEOREM RxAlwaysSignalled == UartSpec => []RxSignalled
BY UartInvariant, PTL DEF UartInv

\* The cached flag register agrees with the receive ring.
THEOREM FlagsAlwaysFresh == UartSpec => []FlagsFresh
BY UartInvariant, PTL DEF UartInv

-----------------------------------------------------------------------------
(* The order of the bytes in the rings.                                    *)

\* An index brought back into a ring of n slots, and the slot of the i-th byte
\* from the head.
Wrap(x, n) == x % n
Slot(h, i, n) == Wrap(h + i - 1, n)

\* Once around at most.
LEMMA WrapOnce ==
  ASSUME NEW n \in Nat \ {0}, NEW x \in 0 .. n + n - 1
  PROVE  Wrap(x, n) = IF x < n THEN x ELSE x - n
<1> DEFINE q == x \div n
           r == x % n
<1>1. q \in Int /\ r \in 0 .. n - 1 /\ x = n * q + r
  OBVIOUS
<1> HIDE DEF q, r
<1>2. q < 2
  <2>1. q >= 2 => n * q >= n * 2
    BY <1>1
  <2> QED BY <1>1, <2>1
<1>3. q > -1
  <2>1. q <= -1 => n * q <= n * (-1)
    BY <1>1
  <2> QED BY <1>1, <2>1
<1>4. q = 0 \/ q = 1
  BY <1>1, <1>2, <1>3
<1>5. x = r \/ x = n + r
  BY <1>1, <1>4
<1>6. r = IF x < n THEN x ELSE x - n
  BY <1>1, <1>5
<1> QED BY <1>6 DEF r, Wrap

LEMMA SlotValue ==
  ASSUME NEW n \in Nat \ {0}, NEW h \in 0 .. n - 1, NEW i \in 1 .. n
  PROVE  /\ Slot(h, i, n) = IF h + i - 1 < n THEN h + i - 1 ELSE h + i - 1 - n
         /\ Slot(h, i, n) \in 0 .. n - 1
<1>1. h + i - 1 \in 0 .. n + n - 1
  OBVIOUS
<1> QED BY <1>1, WrapOnce DEF Slot

\* Different bytes are in different slots.
LEMMA SlotsDiffer ==
  ASSUME NEW n \in Nat \ {0}, NEW h \in 0 .. n - 1, NEW i \in 1 .. n, NEW j \in 1 .. n,
         i # j
  PROVE  Slot(h, i, n) # Slot(h, j, n)
<1>1. Slot(h, i, n) = IF h + i - 1 < n THEN h + i - 1 ELSE h + i - 1 - n
  BY SlotValue
<1>2. Slot(h, j, n) = IF h + j - 1 < n THEN h + j - 1 ELSE h + j - 1 - n
  BY SlotValue
<1> QED BY <1>1, <1>2

\* A head that moves on by one leaves its slot behind every other byte.
LEMMA HeadMoves ==
  ASSUME NEW n \in Nat \ {0}, NEW h \in 0 .. n - 1
  PROVE  /\ Wrap(h + 1, n) \in 0 .. n - 1
         /\ \A i \in 1 .. n - 1 : Slot(Wrap(h + 1, n), i, n) = Slot(h, i + 1, n)
         /\ Slot(Wrap(h + 1, n), n, n) = Slot(h, 1, n)
         /\ Slot(h, 1, n) = h
<1> DEFINE g == Wrap(h + 1, n)
<1>1. h + 1 \in 0 .. n + n - 1
  OBVIOUS
<1>2. g \in 0 .. n - 1 /\ g = IF h + 1 < n THEN h + 1 ELSE 0
  BY <1>1, WrapOnce
<1> HIDE DEF g
<1>3. Slot(h, 1, n) = h
  BY SlotValue
<1>4. Slot(g, n, n) = h
  <2>1. n \in 1 .. n
    OBVIOUS
  <2> QED BY <1>2, <2>1, SlotValue
<1>5. ASSUME NEW i \in 1 .. n - 1 PROVE Slot(g, i, n) = Slot(h, i + 1, n)
  <2>1. i \in 1 .. n /\ i + 1 \in 1 .. n
    OBVIOUS
  <2>2. Slot(g, i, n) = IF g + i - 1 < n THEN g + i - 1 ELSE g + i - 1 - n
    BY <1>2, <2>1, SlotValue
  <2>3. Slot(h, i + 1, n) = IF h + (i + 1) - 1 < n THEN h + (i + 1) - 1 ELSE h + (i + 1) - 1 - n
    BY <2>1, SlotValue
  <2> QED BY <1>2, <2>2, <2>3
<1> QED BY <1>2, <1>3, <1>4, <1>5 DEF g

\* The tail follows the last byte.
LEMMA TailMoves ==
  ASSUME NEW n \in Nat \ {0}, NEW h \in 0 .. n - 1, NEW c \in 0 .. n - 1
  PROVE  /\ Wrap(h + c, n) = Slot(h, c + 1, n)
         /\ Wrap(Wrap(h + c, n) + 1, n) = Wrap(h + (c + 1), n)
<1> DEFINE u == Wrap(h + c, n)
<1>1. Slot(h, c + 1, n) = Wrap(h + c, n)
  <2>1. h + (c + 1) - 1 = h + c
    OBVIOUS
  <2> QED BY <2>1 DEF Slot
<1>2. u \in 0 .. n - 1 /\ u = IF h + c < n THEN h + c ELSE h + c - n
  <2>1. h + c \in 0 .. n + n - 1
    OBVIOUS
  <2> QED BY <2>1, WrapOnce
<1> HIDE DEF u
<1>3. Wrap(h + (c + 1), n) = IF h + (c + 1) < n THEN h + (c + 1) ELSE h + (c + 1) - n
  <2>1. h + (c + 1) \in 0 .. n + n - 1
    OBVIOUS
  <2> QED BY <2>1, WrapOnce
<1>4. Wrap(u + 1, n) = IF u + 1 < n THEN u + 1 ELSE u + 1 - n
  <2>1. u + 1 \in 0 .. n + n - 1
    BY <1>2
  <2> QED BY <1>2, <2>1, WrapOnce
<1>5. Wrap(u + 1, n) = Wrap(h + (c + 1), n)
  BY <1>2, <1>3, <1>4
<1> QED BY <1>1, <1>5 DEF u

\* A byte stored behind the last one leaves the others where they are.
Put(ring, h, c, n, byte) == [ring EXCEPT ![Wrap(h + c, n)] = byte]
Rings(n) == [0 .. n - 1 -> Bytes]
Behind(new, ring, h, c, n, byte) ==
  /\ \A i \in 1 .. c : new[Slot(h, i, n)] = ring[Slot(h, i, n)]
  /\ new[Slot(h, c + 1, n)] = byte

LEMMA Stored ==
  ASSUME NEW n \in Nat \ {0}, NEW h \in 0 .. n - 1, NEW c \in 0 .. n - 1,
         NEW ring \in Rings(n), NEW byte \in Bytes
  PROVE  Behind(Put(ring, h, c, n, byte), ring, h, c, n, byte)
<1> USE DEF Rings
<1>1. Wrap(h + c, n) = Slot(h, c + 1, n)
  BY TailMoves
<1>2. c + 1 \in 1 .. n
  OBVIOUS
<1>3. Slot(h, c + 1, n) \in 0 .. n - 1
  BY <1>2, SlotValue
<1>4. Put(ring, h, c, n, byte)[Slot(h, c + 1, n)] = byte
  BY <1>1, <1>3 DEF Put
<1>5. ASSUME NEW i \in 1 .. c
      PROVE  Put(ring, h, c, n, byte)[Slot(h, i, n)] = ring[Slot(h, i, n)]
  <2>1. i \in 1 .. n /\ i # c + 1
    OBVIOUS
  <2>2. Slot(h, i, n) \in 0 .. n - 1 /\ Slot(h, i, n) # Slot(h, c + 1, n)
    BY <1>2, <2>1, SlotValue, SlotsDiffer
  <2> QED BY <1>1, <2>2 DEF Put
<1> QED BY <1>4, <1>5 DEF Behind

(* The receiver.                                                           *)

\* RxFifo, byte by byte, with the tail where the last byte ends.
RxFlow ==
  /\ accepted \in Seq(Bytes) /\ got \in Seq(Bytes)
  /\ rx_tail = Wrap(rx_head + rx_count, RxRing)
  /\ Len(accepted) = Len(got) + rx_count
  /\ \A i \in 1 .. Len(got) : accepted[i] = got[i]
  /\ \A i \in 1 .. rx_count : accepted[Len(got) + i] = rx[Slot(rx_head, i, RxRing)]

LEMMA FlowIsFifo ==
  ASSUME UartTypeOK, RxFlow
  PROVE  RxFifo
<1> USE Pl011Assumption
<1>1. /\ rx_count \in 0 .. RxRing /\ rx_head \in 0 .. RxRing - 1
      /\ rx \in [0 .. RxRing - 1 -> Bytes]
  BY DEF UartTypeOK
<1>2. ASSUME NEW i \in 1 .. rx_count
      PROVE  /\ RxQueue[i] = rx[Slot(rx_head, i, RxRing)]
             /\ rx[Slot(rx_head, i, RxRing)] \in Bytes
  <2>1. Slot(rx_head, i, RxRing) \in 0 .. RxRing - 1
    BY <1>1, SlotValue
  <2> QED BY <1>1, <2>1 DEF RxQueue, Slot, Wrap
<1>3. RxQueue \in Seq(Bytes) /\ Len(RxQueue) = rx_count
  <2>1. RxQueue = [i \in 1 .. rx_count |-> rx[Slot(rx_head, i, RxRing)]]
    BY DEF RxQueue, Slot, Wrap
  <2>2. RxQueue \in [1 .. rx_count -> Bytes]
    BY <1>2, <2>1
  <2> QED BY <1>1, <2>2
<1> HIDE DEF RxQueue
<1>4. /\ got \o RxQueue \in Seq(Bytes) /\ Len(got \o RxQueue) = Len(got) + rx_count
      /\ \A i \in 1 .. Len(got) + rx_count : (got \o RxQueue)[i] =
              IF i <= Len(got) THEN got[i] ELSE RxQueue[i - Len(got)]
  BY <1>3, ConcatProperties DEF RxFlow
<1> DEFINE q == got \o RxQueue
<1>5. /\ q \in Seq(Bytes) /\ Len(q) = Len(got) + rx_count
      /\ \A i \in 1 .. Len(got) + rx_count :
            q[i] = IF i <= Len(got) THEN got[i] ELSE RxQueue[i - Len(got)]
  BY <1>4
<1> HIDE DEF q
<1>6. ASSUME NEW i \in 1 .. Len(accepted) PROVE accepted[i] = q[i]
  <2>1. /\ Len(got) \in Nat /\ Len(accepted) = Len(got) + rx_count
        /\ i \in 1 .. Len(got) + rx_count
    BY DEF RxFlow
  <2>2. CASE i <= Len(got)
    BY <1>5, <2>1, <2>2 DEF RxFlow
  <2>3. CASE ~(i <= Len(got))
    <3>1. i - Len(got) \in 1 .. rx_count /\ Len(got) + (i - Len(got)) = i
      BY <1>1, <2>1, <2>3
    <3>2. accepted[i] = rx[Slot(rx_head, i - Len(got), RxRing)]
      BY <3>1 DEF RxFlow
    <3> QED BY <1>2, <1>5, <2>1, <2>3, <3>1, <3>2
  <2> QED BY <2>2, <2>3
<1>7. accepted \in Seq(Bytes) /\ Len(accepted) = Len(q)
  BY <1>5 DEF RxFlow
<1>8. accepted = q
  BY <1>5, <1>6, <1>7, SeqEqual
<1> QED BY <1>8 DEF q, RxFifo

LEMMA ReceiveFlow ==
  ASSUME UartTypeOK, RxFlow, NEW byte \in Bytes, Accepts, Receive(byte)
  PROVE  RxFlow'
<1> USE Pl011Assumption
<1>1. /\ rx_count \in 0 .. RxRing - 1 /\ rx_head \in 0 .. RxRing - 1
      /\ rx \in [0 .. RxRing - 1 -> Bytes]
      /\ accepted \in Seq(Bytes) /\ got \in Seq(Bytes) /\ Len(got) \in Nat
      /\ Len(accepted) = Len(got) + rx_count
  BY DEF UartTypeOK, Accepts, RxFlow
<1>2. /\ rx' = Put(rx, rx_head, rx_count, RxRing, byte)
      /\ rx_tail' = Wrap(Wrap(rx_head + rx_count, RxRing) + 1, RxRing)
      /\ rx_count' = rx_count + 1
      /\ accepted' = Append(accepted, byte)
      /\ rx_head' = rx_head /\ got' = got
  BY DEF Receive, RxFlow, Wrap, Put
<1>3. /\ \A i \in 1 .. rx_count :
           rx'[Slot(rx_head, i, RxRing)] = rx[Slot(rx_head, i, RxRing)]
      /\ rx'[Slot(rx_head, rx_count + 1, RxRing)] = byte
  <2>1. RxRing \in Nat \ {0} /\ rx \in Rings(RxRing)
    BY <1>1 DEF Rings
  <2>2. Behind(rx', rx, rx_head, rx_count, RxRing, byte)
    BY <1>1, <1>2, <2>1, Stored
  <2> QED BY <2>2 DEF Behind
<1>4. rx_tail' = Wrap(rx_head' + rx_count', RxRing)
  BY <1>1, <1>2, TailMoves
<1>5. /\ accepted' \in Seq(Bytes) /\ Len(accepted') = Len(got) + rx_count + 1
      /\ \A i \in 1 .. Len(got) + rx_count : accepted'[i] = accepted[i]
      /\ accepted'[Len(got) + rx_count + 1] = byte
  BY <1>1, <1>2
<1>6. ASSUME NEW i \in 1 .. Len(got) PROVE accepted'[i] = got[i]
  BY <1>1, <1>5 DEF RxFlow
<1>7. ASSUME NEW i \in 1 .. rx_count + 1
      PROVE  accepted'[Len(got) + i] = rx'[Slot(rx_head, i, RxRing)]
  <2>1. CASE i \in 1 .. rx_count
    <3>1. Len(got) + i \in 1 .. Len(got) + rx_count
      BY <1>1, <2>1
    <3> QED BY <1>3, <1>5, <2>1, <3>1 DEF RxFlow
  <2>2. CASE i = rx_count + 1
    <3>1. Len(got) + i = Len(got) + rx_count + 1
      BY <1>1, <2>2
    <3> QED BY <1>3, <1>5, <2>2, <3>1
  <2> QED BY <1>1, <2>1, <2>2
<1>8. Len(accepted') = Len(got') + rx_count'
  BY <1>1, <1>2, <1>5
<1>9. got' \in Seq(Bytes)
  BY <1>1, <1>2
<1> QED BY <1>2, <1>4, <1>5, <1>6, <1>7, <1>8, <1>9 DEF RxFlow

LEMMA ReadFlow ==
  ASSUME UartTypeOK, RxFlow, ReadDr
  PROVE  RxFlow'
<1> USE Pl011Assumption
<1>1. /\ rx_count \in 0 .. RxRing /\ rx_head \in 0 .. RxRing - 1
      /\ rx \in [0 .. RxRing - 1 -> Bytes]
      /\ accepted \in Seq(Bytes) /\ got \in Seq(Bytes) /\ Len(got) \in Nat
      /\ Len(accepted) = Len(got) + rx_count
  BY DEF UartTypeOK, RxFlow
<1>2. CASE rx_count = 0
  BY <1>2 DEF ReadDr, RxFlow
<1>3. CASE rx_count # 0
  <2>1. /\ got' = Append(got, rx[rx_head])
        /\ rx_head' = Wrap(rx_head + 1, RxRing)
        /\ rx_count' = rx_count - 1
        /\ UNCHANGED <<rx, rx_tail, accepted>>
    BY <1>3 DEF ReadDr, Wrap
  <2>2. /\ rx_head' \in 0 .. RxRing - 1
        /\ \A i \in 1 .. RxRing - 1 :
             Slot(rx_head', i, RxRing) = Slot(rx_head, i + 1, RxRing)
        /\ Slot(rx_head, 1, RxRing) = rx_head
    BY <1>1, <2>1, HeadMoves
  <2>3. rx[rx_head] \in Bytes
    BY <1>1
  <2>4. /\ got' \in Seq(Bytes) /\ Len(got') = Len(got) + 1
        /\ \A i \in 1 .. Len(got) : got'[i] = got[i]
        /\ got'[Len(got) + 1] = rx[rx_head]
    BY <1>1, <2>1, <2>3
  <2>5. accepted[Len(got) + 1] = rx[rx_head]
    <3>1. 1 \in 1 .. rx_count
      BY <1>1, <1>3
    <3> QED BY <2>2, <3>1 DEF RxFlow
  <2>6. ASSUME NEW i \in 1 .. Len(got') PROVE accepted'[i] = got'[i]
    <3>1. i \in 1 .. Len(got) \/ i = Len(got) + 1
      BY <1>1, <2>4
    <3> QED BY <2>1, <2>4, <2>5, <3>1 DEF RxFlow
  <2>7. ASSUME NEW i \in 1 .. rx_count'
        PROVE  accepted'[Len(got') + i] = rx'[Slot(rx_head', i, RxRing)]
    <3>0. i \in 1 .. rx_count - 1
      BY <2>1
    <3>1. i \in 1 .. RxRing - 1 /\ i + 1 \in 1 .. rx_count /\ Len(got') + i = Len(got) + (i + 1)
      BY <1>1, <2>4, <3>0
    <3>2. accepted[Len(got) + (i + 1)] = rx[Slot(rx_head, i + 1, RxRing)]
      BY <3>1 DEF RxFlow
    <3> QED BY <2>1, <2>2, <3>1, <3>2
  <2>8. rx_tail' = Wrap(rx_head' + rx_count', RxRing)
    <3>1. CASE rx_count = RxRing
      <4>1. rx_tail = rx_head
        <5>1. rx_head + RxRing \in 0 .. RxRing + RxRing - 1
          BY <1>1
        <5>2. Wrap(rx_head + RxRing, RxRing) = rx_head
          BY <1>1, <5>1, WrapOnce
        <5> QED BY <3>1, <5>2 DEF RxFlow
      <4>2. RxRing - 1 \in 0 .. RxRing - 1 /\ rx_count' = RxRing - 1
        BY <1>1, <2>1, <3>1
      <4>3. Wrap(rx_head' + (RxRing - 1), RxRing) = Slot(rx_head', (RxRing - 1) + 1, RxRing)
        BY <2>2, <4>2, TailMoves
      <4>4. (RxRing - 1) + 1 = RxRing
        OBVIOUS
      <4>5. Slot(rx_head', RxRing, RxRing) = rx_head
        BY <1>1, <2>1, <2>2, HeadMoves
      <4> QED BY <2>1, <4>1, <4>2, <4>3, <4>4, <4>5
    <3>2. CASE rx_count # RxRing
      <4>1. /\ rx_count - 1 \in 0 .. RxRing - 1 /\ rx_count \in 0 .. RxRing - 1
            /\ (rx_count - 1) + 1 = rx_count /\ rx_count \in 1 .. RxRing - 1
        BY <1>1, <1>3, <3>2
      <4>2. Wrap(rx_head' + (rx_count - 1), RxRing) = Slot(rx_head', rx_count, RxRing)
        BY <2>2, <4>1, TailMoves
      <4>3. Slot(rx_head', rx_count, RxRing) = Slot(rx_head, rx_count + 1, RxRing)
        BY <2>2, <4>1
      <4>4. Wrap(rx_head + rx_count, RxRing) = Slot(rx_head, rx_count + 1, RxRing)
        BY <1>1, <4>1, TailMoves
      <4> QED BY <2>1, <4>2, <4>3, <4>4 DEF RxFlow
    <3> QED BY <3>1, <3>2
  <2>9. Len(accepted') = Len(got') + rx_count'
    BY <1>1, <2>1, <2>4
  <2>10. accepted' \in Seq(Bytes)
    BY <1>1, <2>1
  <2> QED BY <2>4, <2>6, <2>7, <2>8, <2>9, <2>10 DEF RxFlow
<1> QED BY <1>2, <1>3

(* The transmitter.                                                        *)

\* The i-th byte of the transmit ring.
Queued(i) == tx[Slot(tx_head, i, TxRing)]

\* The bytes queued are in the order written and the youngest of all: what is
\* younger than the first of them is queued or was given to the sink.
TxFlow ==
  /\ out \in Seq(Int)
  /\ \A i \in 1 .. tx_count : Queued(i) \in 1 .. sent
  /\ \A i \in 2 .. tx_count : Queued(i - 1) < Queued(i)
  /\ \A b \in 1 .. sent :
       tx_count > 0 /\ b >= Queued(1) =>
         \/ \E j \in 1 .. Len(out) : out[j] = b
         \/ \E j \in 1 .. tx_count : Queued(j) = b

LEMMA FlowKeepsNewest ==
  ASSUME UartTypeOK, TxFlow
  PROVE  TxKeepsNewest
<1> USE Pl011Assumption
<1>1. tx_count \in 0 .. TxRing /\ sent \in Nat
  BY DEF UartTypeOK
<1>2. TxQueue = [i \in 1 .. tx_count |-> Queued(i)]
  BY DEF TxQueue, Queued, Slot, Wrap
<1>3. TxQueue \in Seq(Int) /\ Len(TxQueue) = tx_count
  <2>1. TxQueue \in [1 .. tx_count -> Int]
    BY <1>1, <1>2 DEF TxFlow
  <2> QED BY <1>1, <2>1
<1>4. ASSUME NEW i \in 1 .. tx_count, i > 1 PROVE TxQueue[i - 1] < TxQueue[i]
  <2>1. i \in 2 .. tx_count /\ i - 1 \in 1 .. tx_count
    BY <1>1, <1>4
  <2> QED BY <1>2, <2>1 DEF TxFlow
<1>5. ASSUME NEW i \in 1 .. tx_count, NEW b \in (TxQueue[1]) .. sent
      PROVE  \E S \in {out, TxQueue} : \E j \in 1 .. Len(S) : S[j] = b
  <2>1. 1 \in 1 .. tx_count /\ tx_count > 0
    BY <1>1
  <2>2. TxQueue[1] = Queued(1) /\ Queued(1) \in 1 .. sent
    BY <1>2, <2>1 DEF TxFlow
  <2>3. b \in 1 .. sent /\ b >= Queued(1)
    BY <1>1, <2>2
  <2>4. \/ \E j \in 1 .. Len(out) : out[j] = b
        \/ \E j \in 1 .. tx_count : Queued(j) = b
    BY <2>1, <2>3 DEF TxFlow
  <2>5. CASE \E j \in 1 .. Len(out) : out[j] = b
    BY <2>5
  <2>6. CASE \E j \in 1 .. tx_count : Queued(j) = b
    <3>1. \E j \in 1 .. Len(TxQueue) : TxQueue[j] = b
      BY <1>2, <1>3, <2>6
    <3> QED BY <3>1
  <2> QED BY <2>4, <2>5, <2>6
<1> QED BY <1>4, <1>5 DEF TxKeepsNewest

\* The i-th byte after the step.
QueuedNext(i) == tx'[Slot(tx_head', i, TxRing)]

\* A push appends to the queue, and first drops its head when it is full.
LEMMA TxPushQueue ==
  ASSUME UartTypeOK, NEW byte \in Bytes, TxPush(byte)
  PROVE  \/ /\ tx_count < TxRing /\ tx_count' = tx_count + 1
            /\ \A i \in 1 .. tx_count : QueuedNext(i) = Queued(i)
            /\ QueuedNext(tx_count + 1) = byte
         \/ /\ tx_count = TxRing /\ tx_count' = tx_count
            /\ \A i \in 1 .. tx_count - 1 : QueuedNext(i) = Queued(i + 1)
            /\ QueuedNext(tx_count) = byte
<1> USE Pl011Assumption
<1>1. /\ tx_count \in 0 .. TxRing /\ tx_head \in 0 .. TxRing - 1
      /\ tx \in [0 .. TxRing - 1 -> Bytes]
  BY DEF UartTypeOK
<1>2. CASE tx_count >= TxRing
  <2>1. tx_count = TxRing
    BY <1>1, <1>2
  <2> DEFINE head == Wrap(tx_head + 1, TxRing)
             count == TxRing - 1
  <2>2. /\ tx' = Put(tx, head, count, TxRing, byte)
        /\ tx_head' = head /\ tx_count' = count + 1
    BY <1>2, <2>1 DEF TxPush, Put, Wrap
  <2>3. /\ head \in 0 .. TxRing - 1
        /\ \A i \in 1 .. TxRing - 1 : Slot(head, i, TxRing) = Slot(tx_head, i + 1, TxRing)
    BY <1>1, HeadMoves
  <2>4. count \in 0 .. TxRing - 1 /\ count + 1 = TxRing
    OBVIOUS
  <2> HIDE DEF head, count
  <2>5. /\ \A i \in 1 .. count :
             tx'[Slot(head, i, TxRing)] = tx[Slot(head, i, TxRing)]
        /\ tx'[Slot(head, count + 1, TxRing)] = byte
    <3>1. TxRing \in Nat \ {0} /\ tx \in Rings(TxRing)
      BY <1>1 DEF Rings
    <3>2. Behind(tx', tx, head, count, TxRing, byte)
      BY <2>2, <2>3, <2>4, <3>1, Stored
    <3> QED BY <3>2 DEF Behind
  <2>6. QueuedNext(tx_count) = byte /\ tx_count' = tx_count
    BY <2>1, <2>2, <2>4, <2>5 DEF QueuedNext
  <2>7. ASSUME NEW i \in 1 .. tx_count - 1 PROVE QueuedNext(i) = Queued(i + 1)
    <3>1. i \in 1 .. count /\ i \in 1 .. TxRing - 1
      BY <2>1, <2>4 DEF count
    <3> QED BY <2>2, <2>3, <2>5, <3>1 DEF QueuedNext, Queued
  <2> QED BY <2>1, <2>6, <2>7
<1>3. CASE ~(tx_count >= TxRing)
  <2>1. tx_count \in 0 .. TxRing - 1 /\ tx_count < TxRing
    BY <1>1, <1>3
  <2>2. /\ tx' = Put(tx, tx_head, tx_count, TxRing, byte)
        /\ tx_head' = tx_head /\ tx_count' = tx_count + 1
    BY <1>3 DEF TxPush, Put, Wrap
  <2>3. /\ \A i \in 1 .. tx_count :
             tx'[Slot(tx_head, i, TxRing)] = tx[Slot(tx_head, i, TxRing)]
        /\ tx'[Slot(tx_head, tx_count + 1, TxRing)] = byte
    <3>1. TxRing \in Nat \ {0} /\ tx \in Rings(TxRing)
      BY <1>1 DEF Rings
    <3>2. Behind(tx', tx, tx_head, tx_count, TxRing, byte)
      BY <1>1, <2>1, <2>2, <3>1, Stored
    <3> QED BY <3>2 DEF Behind
  <2> QED BY <2>1, <2>2, <2>3 DEF QueuedNext, Queued
<1> QED BY <1>2, <1>3

LEMMA WriteFlow ==
  ASSUME UartTypeOK, TxFlow, WriteDr
  PROVE  TxFlow'
<1> USE Pl011Assumption
<1>1. /\ tx_count \in 0 .. TxRing /\ sent \in Nat /\ sent' = sent + 1
      /\ out \in Seq(Int) /\ sent' \in Bytes
  BY DEF UartTypeOK, WriteDr, TxFlow, Bytes
<1>2. CASE "FEN" \in cr
  <2>1. TxPush(sent') /\ out' = out
    BY <1>2 DEF WriteDr, TxPush
  <2>2. CASE /\ tx_count < TxRing /\ tx_count' = tx_count + 1
             /\ \A i \in 1 .. tx_count : QueuedNext(i) = Queued(i)
             /\ QueuedNext(tx_count + 1) = sent'
    <3>1. ASSUME NEW i \in 1 .. tx_count' PROVE QueuedNext(i) \in 1 .. sent'
      <4>1. i \in 1 .. tx_count \/ i = tx_count + 1
        BY <1>1, <2>2
      <4>2. CASE i \in 1 .. tx_count
        <5>1. QueuedNext(i) \in 1 .. sent
          BY <2>2, <4>2 DEF TxFlow
        <5> QED BY <1>1, <5>1
      <4>3. CASE i = tx_count + 1
        BY <1>1, <2>2, <4>3
      <4> QED BY <4>1, <4>2, <4>3
    <3>2. ASSUME NEW i \in 2 .. tx_count' PROVE QueuedNext(i - 1) < QueuedNext(i)
      <4>1. CASE i \in 2 .. tx_count
        <5>1. i \in 1 .. tx_count /\ i - 1 \in 1 .. tx_count
          BY <1>1, <4>1
        <5> QED BY <2>2, <4>1, <5>1 DEF TxFlow
      <4>2. CASE i = tx_count + 1
        <5>1. i - 1 \in 1 .. tx_count
          BY <1>1, <4>2
        <5>2. QueuedNext(i - 1) \in 1 .. sent
          BY <2>2, <5>1 DEF TxFlow
        <5> QED BY <1>1, <2>2, <4>2, <5>2
      <4> QED BY <1>1, <2>2, <4>1, <4>2
    <3>3. ASSUME NEW b \in 1 .. sent', b >= QueuedNext(1)
          PROVE  \/ \E j \in 1 .. Len(out') : out'[j] = b
                 \/ \E j \in 1 .. tx_count' : QueuedNext(j) = b
      <4>1. CASE b = sent'
        <5>1. tx_count + 1 \in 1 .. tx_count'
          BY <1>1, <2>2
        <5> QED BY <2>2, <4>1, <5>1
      <4>2. CASE b # sent'
        <5>1. b \in 1 .. sent
          BY <1>1, <4>2
        <5>2. tx_count > 0
          <6>1. CASE tx_count = 0
            BY <1>1, <2>2, <3>3, <4>2, <5>1, <6>1
          <6> QED BY <1>1, <6>1
        <5>3. 1 \in 1 .. tx_count
          BY <1>1, <5>2
        <5>4. b >= Queued(1)
          BY <2>2, <3>3, <5>3
        <5>5. \/ \E j \in 1 .. Len(out) : out[j] = b
              \/ \E j \in 1 .. tx_count : Queued(j) = b
          BY <5>1, <5>2, <5>4 DEF TxFlow
        <5>6. \A j \in 1 .. tx_count : j \in 1 .. tx_count'
          BY <1>1, <2>2
        <5> QED BY <2>1, <2>2, <5>5, <5>6
      <4> QED BY <4>1, <4>2
    <3> QED BY <1>1, <2>1, <3>1, <3>2, <3>3 DEF TxFlow, Queued, QueuedNext
  <2>3. CASE /\ tx_count = TxRing /\ tx_count' = tx_count
             /\ \A i \in 1 .. tx_count - 1 : QueuedNext(i) = Queued(i + 1)
             /\ QueuedNext(tx_count) = sent'
    <3>1. ASSUME NEW i \in 1 .. tx_count' PROVE QueuedNext(i) \in 1 .. sent'
      <4>1. (i \in 1 .. tx_count - 1 /\ i + 1 \in 1 .. tx_count) \/ i = tx_count
        BY <1>1, <2>3
      <4> QED BY <1>1, <2>3, <4>1 DEF TxFlow
    <3>2. ASSUME NEW i \in 2 .. tx_count' PROVE QueuedNext(i - 1) < QueuedNext(i)
      <4>0. i - 1 \in 1 .. tx_count - 1 /\ i \in 2 .. tx_count /\ i \in 1 .. tx_count
            /\ (i - 1) + 1 = i
        BY <1>1, <2>3
      <4>1. QueuedNext(i - 1) = Queued(i)
        BY <2>3, <4>0
      <4>2. CASE i # tx_count
        <5>1. i \in 1 .. tx_count - 1 /\ i + 1 \in 2 .. tx_count /\ (i + 1) - 1 = i
          BY <1>1, <4>0, <4>2
        <5>2. Queued(i) < Queued(i + 1)
          BY <5>1 DEF TxFlow
        <5> QED BY <2>3, <4>1, <5>1, <5>2
      <4>3. CASE i = tx_count
        <5>1. Queued(i) \in 1 .. sent
          BY <4>0 DEF TxFlow
        <5> QED BY <1>1, <2>3, <4>1, <4>3, <5>1
      <4> QED BY <4>2, <4>3
    <3>3. ASSUME NEW b \in 1 .. sent', b >= QueuedNext(1)
          PROVE  \/ \E j \in 1 .. Len(out') : out'[j] = b
                 \/ \E j \in 1 .. tx_count' : QueuedNext(j) = b
      <4>1. CASE b = sent'
        <5>1. tx_count \in 1 .. tx_count'
          BY <1>1, <2>3
        <5> QED BY <2>3, <4>1, <5>1
      <4>2. CASE b # sent'
        <5>1. b \in 1 .. sent
          BY <1>1, <4>2
        <5>2. tx_count # 1
          BY <1>1, <2>3, <3>3, <5>1
        <5>3. /\ tx_count > 0 /\ 1 \in 1 .. tx_count - 1 /\ 1 \in 1 .. tx_count
              /\ 2 \in 2 .. tx_count /\ 2 \in 1 .. tx_count
          BY <1>1, <2>3, <5>2
        <5>4. QueuedNext(1) = Queued(1 + 1)
          BY <2>3, <5>3
        <5>5. Queued(2 - 1) < Queued(2) /\ Queued(1) \in Int /\ Queued(2) \in Int
          BY <5>3 DEF TxFlow
        <5>6. b > Queued(1)
          BY <3>3, <5>1, <5>4, <5>5
        <5>7. \/ \E j \in 1 .. Len(out) : out[j] = b
              \/ \E j \in 1 .. tx_count : Queued(j) = b
          BY <5>1, <5>3, <5>5, <5>6 DEF TxFlow
        <5>8. ASSUME NEW j \in 1 .. tx_count, Queued(j) = b
              PROVE  \E k \in 1 .. tx_count' : QueuedNext(k) = b
          <6>1. j # 1
            BY <5>5, <5>6, <5>8
          <6>2. j - 1 \in 1 .. tx_count - 1 /\ (j - 1) + 1 = j /\ j - 1 \in 1 .. tx_count'
            BY <1>1, <2>3, <6>1
          <6>3. QueuedNext(j - 1) = b
            BY <2>3, <5>8, <6>2
          <6> QED BY <6>2, <6>3
        <5> QED BY <2>1, <5>7, <5>8
      <4> QED BY <4>1, <4>2
    <3> QED BY <1>1, <2>1, <3>1, <3>2, <3>3 DEF TxFlow, Queued, QueuedNext
  <2> QED BY <1>1, <2>1, <2>2, <2>3, TxPushQueue
<1>3. CASE "FEN" \notin cr
  <2>1. out' = Append(out, sent') /\ UNCHANGED <<tx, tx_head, tx_count>>
    BY <1>3 DEF WriteDr, PassThrough
  <2>2. /\ out' \in Seq(Int) /\ Len(out') = Len(out) + 1 /\ out'[Len(out) + 1] = sent'
        /\ \A j \in 1 .. Len(out) : out'[j] = out[j] /\ j \in 1 .. Len(out')
        /\ Len(out) + 1 \in 1 .. Len(out')
    BY <1>1, <2>1
  <2>3. \A i : Queued(i)' = Queued(i)
    BY <2>1 DEF Queued
  <2>4. \A i \in 1 .. tx_count : Queued(i) \in 1 .. sent'
    BY <1>1 DEF TxFlow
  <2>5. ASSUME NEW b \in 1 .. sent', tx_count > 0, b >= Queued(1)
        PROVE  \/ \E j \in 1 .. Len(out') : out'[j] = b
               \/ \E j \in 1 .. tx_count : Queued(j) = b
    <3>1. CASE b = sent'
      BY <2>2, <3>1
    <3>2. CASE b # sent'
      <4>1. b \in 1 .. sent
        BY <1>1, <3>2
      <4>2. \/ \E j \in 1 .. Len(out) : out[j] = b
            \/ \E j \in 1 .. tx_count : Queued(j) = b
        BY <2>5, <4>1 DEF TxFlow
      <4> QED BY <2>2, <4>2
    <3> QED BY <3>1, <3>2
  <2> QED BY <2>1, <2>2, <2>3, <2>4, <2>5 DEF TxFlow
<1> QED BY <1>2, <1>3

LEMMA PumpFlow ==
  ASSUME UartTypeOK, TxFlow, Pump
  PROVE  TxFlow'
<1>1. tx_count' = 0 /\ out' = out \o TxQueue
  BY DEF Pump
<1>2. TxQueue \in Seq(Int)
  <2>1. TxQueue = [i \in 1 .. tx_count |-> Queued(i)]
    BY DEF TxQueue, Queued, Slot, Wrap
  <2>2. TxQueue \in [1 .. tx_count -> Int] /\ tx_count \in Nat
    BY <2>1, Pl011Assumption DEF TxFlow, UartTypeOK
  <2> QED BY <2>2
<1>3. out' \in Seq(Int)
  BY <1>1, <1>2 DEF TxFlow
<1> QED BY <1>1, <1>3 DEF TxFlow

\* The order of both rings is inductive on top of UartInv.
LEMMA FlowInvariant == UartSpec => [](RxFlow /\ TxFlow)
<1>1. UartInit => RxFlow /\ TxFlow
  <2> SUFFICES ASSUME UartInit PROVE RxFlow /\ TxFlow
    OBVIOUS
  <2>1. Wrap(0 + 0, RxRing) = 0
    BY WrapOnce, Pl011Assumption
  <2>2. RxFlow
    BY <2>1 DEF UartInit, RxFlow
  <2>3. TxFlow
    BY DEF UartInit, TxFlow
  <2> QED BY <2>2, <2>3
<1>2. UartInv /\ (RxFlow /\ TxFlow) /\ [UartNext]_uartVars => (RxFlow /\ TxFlow)'
  <2> SUFFICES ASSUME UartInv, RxFlow, TxFlow, [UartNext]_uartVars
               PROVE  RxFlow' /\ TxFlow'
    OBVIOUS
  <2>1. UartTypeOK
    BY DEF UartInv
  <2>2. ASSUME UNCHANGED <<rx, rx_head, rx_tail, rx_count, accepted, got>> PROVE RxFlow'
    BY <2>2 DEF RxFlow
  <2>3. ASSUME UNCHANGED <<tx, tx_head, tx_count, sent, out>> PROVE TxFlow'
    BY <2>3 DEF TxFlow, Queued
  <2>4. CASE WriteDr
    <3>1. TxFlow'
      BY <2>1, <2>4, WriteFlow
    <3>2. CASE {"LBE", "RXE"} \subseteq cr /\ Accepts
      <4>1. Receive(sent') /\ sent' \in Bytes
        BY <2>1, <2>4, <3>2, Pl011Assumption DEF WriteDr, UartTypeOK, Bytes
      <4> QED BY <2>1, <3>1, <3>2, <4>1, ReceiveFlow
    <3>3. CASE ~({"LBE", "RXE"} \subseteq cr /\ Accepts)
      BY <2>2, <2>4, <3>1, <3>3 DEF WriteDr
    <3> QED BY <3>2, <3>3
  <2>5. CASE Inject
    <3>1. Accepts /\ Receive(-offered') /\ -offered' \in Bytes
      BY <2>1, <2>5, Pl011Assumption DEF Inject, UartTypeOK, Bytes
    <3>2. TxFlow'
      BY <2>3, <2>5 DEF Inject, txVars
    <3> QED BY <2>1, <3>1, <3>2, ReceiveFlow
  <2>6. CASE ReadDr
    <3>1. TxFlow'
      BY <2>3, <2>6 DEF ReadDr, txVars
    <3> QED BY <2>1, <2>6, <3>1, ReadFlow
  <2>7. CASE \/ \E v \in CrValues : WriteCr(v)
             \/ \E v \in {{}, Ints} : WriteImsc(v)
             \/ \E v \in (SUBSET Ints) \ {{}} : WriteIntClr(v)
    BY <2>2, <2>3, <2>7 DEF WriteCr, WriteImsc, WriteIntClr, txVars, rxVars
  <2>8. CASE Pump
    <3>1. RxFlow'
      BY <2>2, <2>8 DEF Pump, rxVars
    <3> QED BY <2>1, <2>8, <3>1, PumpFlow
  <2>9. CASE UNCHANGED uartVars
    BY <2>2, <2>3, <2>9 DEF uartVars, txVars, rxVars
  <2> QED BY <2>4, <2>5, <2>6, <2>7, <2>8, <2>9 DEF UartNext
<1> QED BY <1>1, <1>2, UartInvariant, PTL DEF UartSpec

\* The guest reads back exactly what the receiver accepted, in order, for a
\* ring of any size and every interleaving of host, loopback and reader.
THEOREM RxInOrder == UartSpec => []RxFifo
<1>1. UartInv /\ RxFlow => RxFifo
  BY FlowIsFifo DEF UartInv
<1> QED BY <1>1, UartInvariant, FlowInvariant, PTL

\* Through any overflow the transmit ring holds the youngest bytes, in order.
THEOREM TxNewest == UartSpec => []TxKeepsNewest
<1>1. UartInv /\ TxFlow => TxKeepsNewest
  BY FlowKeepsNewest DEF UartInv
<1> QED BY <1>1, UartInvariant, FlowInvariant, PTL
=============================================================================
