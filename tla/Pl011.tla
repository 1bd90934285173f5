------------------------------- MODULE Pl011 -------------------------------
(***************************************************************************)
(* The PL011 UART of oemu, src/src/dev/pl011.c: the register file, the     *)
(* transmit ring that drops its oldest byte when nobody pumps it, the      *)
(* receive ring that refuses when it is full, and the raw interrupt state. *)
(*                                                                         *)
(* A byte is the number of its arrival: the n-th byte the guest transmits  *)
(* is n, the n-th byte the host offers is -n, so that a byte lost, doubled *)
(* or out of order shows.  Registers that nothing reads back into a        *)
(* decision (the baud divisors, LCR_H, FIFLS, the ID table) are left out;  *)
(* a sink is installed, as boot_run always has one.                        *)
(***************************************************************************)
EXTENDS Integers, Sequences, FiniteSets

CONSTANTS
  TxRing,      \* OEMU_PL011_TX_RING
  RxRing,      \* OEMU_PL011_RX_RING
  CrValues,    \* values the guest writes to CR
  MaxTx,       \* bound on the bytes the guest transmits
  MaxRx        \* bound on the bytes the host offers

CrBits == {"UARTEN", "RXE", "LBE", "FEN"}
Ints == {"RXIS", "RTIS", "TXIS"}
INT_RX == {"RXIS", "RTIS"}

ASSUME Pl011Assumption ==
  /\ TxRing \in Nat \ {0} /\ RxRing \in Nat \ {0}
  /\ MaxTx \in Nat /\ MaxRx \in Nat
  /\ CrValues \subseteq SUBSET CrBits

Bytes == (- MaxRx) .. MaxTx

VARIABLES
  cr, imsc, ris, fr,                    \* the registers
  tx, tx_head, tx_count,                \* the transmit ring
  rx, rx_head, rx_tail, rx_count,       \* the receive ring
  tx_emitted, tx_dropped, rx_dropped,   \* the counters
  sent, offered,                        \* bytes transmitted and offered so far
  out,                                  \* history: what the sink was given
  accepted, got,                        \* history: what the receiver took, and
                                        \* what the guest read back
  acked                                 \* history: the guest cleared an RX
                                        \* status bit since the last byte came

txVars == <<tx, tx_head, tx_count, tx_emitted, tx_dropped, sent, out>>
rxVars == <<rx, rx_head, rx_tail, rx_count, rx_dropped, offered, accepted, got, acked>>
uartVars == <<cr, imsc, ris, fr, txVars, rxVars>>

\* oemu_pl011_init: CR resets to TXE | LBE and FR to zero, whatever the rings.
UartInit ==
  /\ cr = {"LBE"} /\ imsc = {} /\ ris = {} /\ fr = {}
  /\ tx = [i \in 0 .. TxRing - 1 |-> 0] /\ tx_head = 0 /\ tx_count = 0
  /\ rx = [i \in 0 .. RxRing - 1 |-> 0] /\ rx_head = 0 /\ rx_tail = 0 /\ rx_count = 0
  /\ tx_emitted = 0 /\ tx_dropped = 0 /\ rx_dropped = 0
  /\ sent = 0 /\ offered = 0
  /\ out = <<>> /\ accepted = <<>> /\ got = <<>>
  /\ acked = FALSE

-----------------------------------------------------------------------------
\* Mutant: the empty flag is computed before the handler's own change.
FlagsStale == {"TXFE"} \cup (IF rx_count = 0 THEN {"RXFE"} ELSE {})

\* oemu_pl011_internal_update_flags runs last in every handler that can move
\* a ring: the transmitter always looks empty.
Flags == {"TXFE"} \cup (IF rx_count' = 0 THEN {"RXFE"} ELSE {})

\* Mutant: a full ring overwrites its oldest byte without moving the head.
TxPushOverwrite(byte) ==
  LET full == tx_count >= TxRing
      tail == (tx_head + tx_count) % TxRing
  IN  /\ tx' = [tx EXCEPT ![tail] = byte]
      /\ tx_head' = tx_head
      /\ tx_count' = IF full THEN tx_count ELSE tx_count + 1
      /\ tx_dropped' = IF full THEN tx_dropped + 1 ELSE tx_dropped
      /\ UNCHANGED <<tx_emitted, out>>

\* Mutant: the byte dropped from a full ring is not counted.
TxPushUncounted(byte) ==
  LET full == tx_count >= TxRing
      head == IF full THEN (tx_head + 1) % TxRing ELSE tx_head
      count == IF full THEN tx_count - 1 ELSE tx_count
  IN  /\ tx' = [tx EXCEPT ![(head + count) % TxRing] = byte]
      /\ tx_head' = head
      /\ tx_count' = count + 1
      /\ UNCHANGED <<tx_dropped, tx_emitted, out>>

\* pl011_tx_push: a full ring loses its oldest byte, counted.
TxPush(byte) ==
  LET full == tx_count >= TxRing
      head == IF full THEN (tx_head + 1) % TxRing ELSE tx_head
      count == IF full THEN tx_count - 1 ELSE tx_count
  IN  /\ tx' = [tx EXCEPT ![(head + count) % TxRing] = byte]
      /\ tx_head' = head
      /\ tx_count' = count + 1
      /\ tx_dropped' = IF full THEN tx_dropped + 1 ELSE tx_dropped
      /\ UNCHANGED <<tx_emitted, out>>

\* With the FIFO off the byte passes straight through to the sink.
PassThrough(byte) ==
  /\ out' = Append(out, byte)
  /\ tx_emitted' = tx_emitted + 1
  /\ UNCHANGED <<tx, tx_head, tx_count, tx_dropped>>

\* The two reasons oemu_pl011_inject refuses a byte: OEMU_ERR_STATE and
\* OEMU_ERR_FULL.
Listening == {"UARTEN", "RXE"} \subseteq cr

\* Mutant: a full ring is not refused.
AcceptsFull == Listening

Accepts == Listening /\ rx_count < RxRing

\* oemu_pl011_inject on a byte it accepts, FR and RIS apart.
Receive(byte) ==
  /\ rx' = [rx EXCEPT ![rx_tail] = byte]
  /\ rx_tail' = (rx_tail + 1) % RxRing
  /\ rx_count' = rx_count + 1
  /\ accepted' = Append(accepted, byte)
  /\ acked' = FALSE
  /\ UNCHANGED <<rx_head, rx_dropped, got>>

\* A write of DR: emitted or queued, and in loopback mirrored into an enabled
\* receiver, whose refusal is counted as a receive loss.
WriteDr ==
  /\ sent < MaxTx
  /\ sent' = sent + 1
  /\ IF "FEN" \in cr THEN TxPush(sent') ELSE PassThrough(sent')
  /\ IF {"LBE", "RXE"} \subseteq cr
     THEN IF Accepts
          THEN Receive(sent') /\ ris' = ris \cup {"TXIS"} \cup INT_RX
          ELSE /\ rx_dropped' = rx_dropped + 1
               /\ ris' = ris \cup {"TXIS"}
               /\ UNCHANGED <<rx, rx_head, rx_tail, rx_count, accepted, got, acked>>
     ELSE /\ ris' = ris \cup {"TXIS"}
          /\ UNCHANGED <<rx, rx_head, rx_tail, rx_count, rx_dropped, accepted, got, acked>>
  /\ fr' = Flags
  /\ UNCHANGED <<cr, imsc, offered>>

\* The host delivers one byte; a refused one stays with the caller.
Inject ==
  /\ offered < MaxRx
  /\ Accepts
  /\ offered' = offered + 1
  /\ Receive(-offered')
  /\ ris' = ris \cup INT_RX
  /\ fr' = Flags
  /\ UNCHANGED <<cr, imsc, txVars>>

\* Mutant: the receive status outlives the last byte.
ReadDrKeepsStatus ==
  /\ IF rx_count = 0
     THEN UNCHANGED <<rx_head, rx_count, got>>
     ELSE /\ got' = Append(got, rx[rx_head])
          /\ rx_head' = (rx_head + 1) % RxRing
          /\ rx_count' = rx_count - 1
  /\ fr' = Flags
  /\ UNCHANGED <<cr, imsc, ris, txVars, rx, rx_tail, rx_dropped, offered, accepted, acked>>

\* A read of DR pops the receive ring; draining it retires the RX status.
ReadDr ==
  /\ IF rx_count = 0
     THEN UNCHANGED <<rx_head, rx_count, got, ris>>
     ELSE /\ got' = Append(got, rx[rx_head])
          /\ rx_head' = (rx_head + 1) % RxRing
          /\ rx_count' = rx_count - 1
          /\ ris' = IF rx_count' = 0 THEN ris \ INT_RX ELSE ris
  /\ fr' = Flags
  /\ UNCHANGED <<cr, imsc, txVars, rx, rx_tail, rx_dropped, offered, accepted, acked>>

\* Writes of CR, of the interrupt mask and of the clear register.
WriteCr(v) ==
  /\ cr' = v
  /\ UNCHANGED <<imsc, ris, txVars, rxVars>>
  /\ fr' = Flags

WriteImsc(v) ==
  /\ imsc' = v
  /\ UNCHANGED <<cr, ris, txVars, rxVars>>
  /\ fr' = Flags

WriteIntClr(v) ==
  /\ ris' = ris \ v
  /\ acked' = (acked \/ v \cap INT_RX # {})
  /\ UNCHANGED <<cr, imsc, txVars, rx, rx_head, rx_tail, rx_count, rx_dropped,
                 offered, accepted, got>>
  /\ fr' = Flags

\* oemu_pl011_pump: everything queued leaves in order.
TxQueue == [i \in 1 .. tx_count |-> tx[(tx_head + i - 1) % TxRing]]

Pump ==
  /\ out' = out \o TxQueue
  /\ tx_head' = (tx_head + tx_count) % TxRing
  /\ tx_count' = 0
  /\ tx_emitted' = tx_emitted + tx_count
  /\ UNCHANGED <<cr, imsc, ris, tx, tx_dropped, sent, rxVars>>
  /\ fr' = Flags

\* oemu_pl011_irq_level: the line is the masked status.
IrqLevel == ris \cap imsc # {}

UartNext ==
  \/ WriteDr
  \/ Inject
  \/ ReadDr
  \/ \E v \in CrValues : WriteCr(v)
  \/ \E v \in {{}, Ints} : WriteImsc(v)
  \/ \E v \in (SUBSET Ints) \ {{}} : WriteIntClr(v)
  \/ Pump

UartSpec == UartInit /\ [][UartNext]_uartVars

-----------------------------------------------------------------------------
(* Properties *)

RxQueue == [i \in 1 .. rx_count |-> rx[(rx_head + i - 1) % RxRing]]

UartTypeOK ==
  /\ cr \in SUBSET CrBits /\ imsc \in SUBSET Ints /\ ris \in SUBSET Ints
  /\ fr \in SUBSET {"TXFE", "RXFE"}
  /\ tx \in [0 .. TxRing - 1 -> Bytes] /\ rx \in [0 .. RxRing - 1 -> Bytes]
  /\ tx_head \in 0 .. TxRing - 1 /\ tx_count \in 0 .. TxRing
  /\ rx_head \in 0 .. RxRing - 1 /\ rx_tail \in 0 .. RxRing - 1
  /\ rx_count \in 0 .. RxRing
  /\ tx_emitted \in Nat /\ tx_dropped \in Nat /\ rx_dropped \in Nat
  /\ sent \in 0 .. MaxTx /\ offered \in 0 .. MaxRx
  /\ acked \in BOOLEAN

\* Every byte the guest transmitted is in the log, in the ring, or counted as
\* lost: the boot gate may trust that a log with no counted drop is complete
\* once pumped (boot_console_warn).
TxConserved == sent = tx_emitted + tx_dropped + tx_count

\* The ring keeps the newest bytes in the order they were written, through any
\* overflow: what it holds is exactly the youngest bytes queued.
TxKeepsNewest ==
  \A i \in 1 .. tx_count :
    /\ i > 1 => TxQueue[i - 1] < TxQueue[i]
    /\ \A b \in (TxQueue[1]) .. sent :
         \E S \in {out, TxQueue} : \E j \in 1 .. Len(S) : S[j] = b

\* The receiver loses, doubles and reorders nothing it accepted: the guest has
\* read, in order, all but what the ring still holds, loopback bytes and host
\* bytes alike, for every interleaving of the two producers with the reader.
RxFifo == accepted = got \o RxQueue

\* A receive interrupt always has a byte behind it, and a byte waiting in the
\* ring is signalled unless the guest itself cleared the status: the driver
\* neither storms on an empty ring nor sleeps on a full one.
RxSignalled ==
  /\ ris \cap INT_RX # {} => rx_count > 0
  /\ rx_count > 0 /\ ~acked => INT_RX \subseteq ris

\* FR, which is cached, is never stale once an event handler has run: the
\* driver's poll of RXFE sees the ring as it is.
FlagsFresh == fr # {} => ("RXFE" \in fr <=> rx_count = 0)

\* The log shows bytes in the order the guest wrote them (main.c: "so markers
\* appear as the guest writes them").  A driver that turns the FIFO off with
\* bytes queued breaks it (README, observation 3).
LogInOrder == \A i, j \in 1 .. Len(out) : i < j => out[i] < out[j]
=============================================================================
