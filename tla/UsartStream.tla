---------------------------- MODULE UsartStream ----------------------------
(***************************************************************************)
(* mptl::usart_irq_stream on top of mptl::usart: the main program and the  *)
(* USART interrupt share two queues, the control register CR1 and the      *)
(* data register.                                                          *)
(*                                                                         *)
(* One core: the interrupt preempts the main program between any two of    *)
(* its steps and runs to its end before the main program goes on, while    *)
(* the peripheral keeps shifting bytes under both.  A queue operation is   *)
(* one step here, which module RingBuffer justifies: its buffer implements *)
(* the queue of module Fifo whatever the interleaving.                     *)
(*                                                                         *)
(* Bytes are numbers.  Sent ones are numbered as they are accepted into    *)
(* tx_fifo, received ones as they arrive on the wire.                      *)
(***************************************************************************)
EXTENDS Naturals, Sequences

CONSTANTS TxCapacity, RxCapacity,  \* what tx_fifo and rx_fifo hold at most
          MaxBlock,                \* the longest string written at once
          MaxTx, MaxRx,            \* bounds: bytes accepted, bytes on the wire
          MaxSessions              \* bound: calls of open()

ASSUME CapacityAssumption ==
  /\ TxCapacity \in Nat \ {0} /\ RxCapacity \in Nat \ {0} /\ MaxBlock \in Nat \ {0}
ASSUME BoundAssumption == MaxTx \in Nat /\ MaxRx \in Nat /\ MaxSessions \in Nat

VARIABLES
  cr1, tdr, rdr, ore,           \* the peripheral: CR1, data registers, overrun
  irq_enabled, irq_pending,     \* the interrupt channel in the NVIC
  tx_fifo, rx_fifo,
  isr, flags,                   \* the interrupt: where it is, its copy of SR
  mpc, cr1_copy,                \* the main program: where it is, its copy of CR1
  session,                      \* history: "closed", "open", or between the two
  sent, accepted, flushed,      \* history: numbers of the last byte of each kind
  arrived, last_read, taken, lost, sessions

hw == <<tdr, rdr, ore>>
irqc == <<irq_enabled>>
fifos == <<tx_fifo, rx_fifo>>
main == <<mpc, cr1_copy, session>>
isrv == <<isr, flags>>
txh == <<sent, accepted, flushed>>
rxh == <<arrived, last_read, taken, lost>>
vars == <<cr1, hw, irq_enabled, irq_pending, fifos, isrv, main, txh, rxh, sessions>>

OpenBits == {"RXNEIE", "PEIE"}            \* what open() enables, close() disables
Cr1Bits == {"UE", "TXEIE"} \cup OpenBits

\* Status flags: a data register to be read, one ready to be written, an overrun.
StatusBits == {"RXNE", "TXE", "ORE"}
SR == {f \in StatusBits :
         \/ f = "RXNE" /\ rdr # <<>>
         \/ f = "TXE" /\ tdr = <<>>
         \/ f = "ORE" /\ ore}

\* The request line of the peripheral, and the NVIC latching it.
IrqLine == \/ "RXNEIE" \in cr1 /\ (rdr # <<>> \/ ore)
           \/ "TXEIE" \in cr1 /\ tdr = <<>>
Latch == irq_pending' = (irq_pending \/ IrqLine')

Init == /\ cr1 = {} /\ tdr = <<>> /\ rdr = <<>> /\ ore = FALSE
        /\ irq_enabled = FALSE /\ irq_pending = FALSE
        /\ tx_fifo = <<>> /\ rx_fifo = <<>>
        /\ isr = "idle" /\ flags = {}
        /\ mpc = "idle" /\ cr1_copy = {} /\ session = "closed"
        /\ sent = 0 /\ accepted = 0 /\ flushed = 0
        /\ arrived = 0 /\ last_read = 0 /\ taken = 0 /\ lost = 0
        /\ sessions = 0

-----------------------------------------------------------------------------
(* The interrupt service routine. *)

\* The core takes the interrupt; isr() loads SR, once.
IsrEnter ==
  /\ isr = "idle" /\ irq_enabled /\ irq_pending
  /\ isr' = "rx" /\ flags' = SR
  /\ irq_pending' = FALSE
  /\ UNCHANGED <<cr1, hw, irqc, fifos, main, txh, rxh, sessions>>

\* Mutants: take a byte whether or not RXNE was set (the data register still
\* holds the last one); leave the byte in the data register if rx_fifo is full.
IsrReceiveUnchecked ==
  /\ isr = "rx"
  /\ isr' = "tx"
  /\ rdr' = <<>> /\ ore' = (ore /\ "ORE" \notin flags)
  /\ IF Len(rx_fifo) < RxCapacity
     THEN rx_fifo' = Append(rx_fifo, arrived) /\ UNCHANGED lost
     ELSE lost' = lost + Len(rdr) /\ UNCHANGED rx_fifo
  /\ UNCHANGED <<cr1, tdr, irqc, irq_pending, tx_fifo, flags, main, txh,
                 arrived, last_read, taken, sessions>>
IsrReceiveIfRoom ==
  /\ isr = "rx"
  /\ isr' = "tx"
  /\ IF "RXNE" \in flags /\ Len(rx_fifo) < RxCapacity
     THEN /\ rdr' = <<>> /\ ore' = (ore /\ "ORE" \notin flags)
          /\ rx_fifo' = rx_fifo \o rdr
     ELSE UNCHANGED <<rdr, ore, rx_fifo>>
  /\ UNCHANGED <<cr1, tdr, irqc, irq_pending, tx_fifo, flags, main, txh,
                 arrived, last_read, taken, lost, sessions>>

\* A received byte goes to rx_fifo, or is lost if that is full.  The load of DR
\* clears RXNE, and the overrun flag if the load of SR before it found that set.
IsrReceive ==
  /\ isr = "rx"
  /\ isr' = "tx"
  /\ IF "RXNE" \in flags
     THEN /\ rdr' = <<>> /\ ore' = (ore /\ "ORE" \notin flags)
          /\ IF Len(rx_fifo) < RxCapacity
             THEN rx_fifo' = rx_fifo \o rdr /\ UNCHANGED lost
             ELSE lost' = lost + Len(rdr) /\ UNCHANGED rx_fifo
     ELSE UNCHANGED <<rdr, ore, rx_fifo, lost>>
  /\ UNCHANGED <<cr1, tdr, irqc, irq_pending, tx_fifo, flags, main, txh,
                 arrived, last_read, taken, sessions>>

\* Mutants: send without looking at TXE; leave the interrupt enabled; disable
\* it after every byte.
IsrTransmitUnchecked ==
  /\ isr = "tx"
  /\ isr' = "idle"
  /\ \/ /\ tx_fifo # <<>>
        /\ tdr' = <<Head(tx_fifo)>> /\ tx_fifo' = Tail(tx_fifo)
        /\ UNCHANGED cr1
     \/ /\ tx_fifo = <<>>
        /\ cr1' = cr1 \ {"TXEIE"}
        /\ UNCHANGED <<tdr, tx_fifo>>
  /\ UNCHANGED <<rdr, ore, irqc, rx_fifo, flags, main, txh, rxh, sessions>>
  /\ Latch
IsrTransmitForever ==
  /\ isr = "tx"
  /\ isr' = "idle"
  /\ \/ /\ "TXE" \in flags /\ tx_fifo # <<>>
        /\ tdr' = <<Head(tx_fifo)>> /\ tx_fifo' = Tail(tx_fifo)
     \/ ~("TXE" \in flags /\ tx_fifo # <<>>) /\ UNCHANGED <<tdr, tx_fifo>>
  /\ UNCHANGED <<cr1, rdr, ore, irqc, rx_fifo, flags, main, txh, rxh, sessions>>
  /\ Latch
IsrTransmitOneShot ==
  /\ isr = "tx"
  /\ isr' = "idle"
  /\ IF "TXE" \in flags
     THEN /\ cr1' = cr1 \ {"TXEIE"}
          /\ IF tx_fifo # <<>>
             THEN tdr' = <<Head(tx_fifo)>> /\ tx_fifo' = Tail(tx_fifo)
             ELSE UNCHANGED <<tdr, tx_fifo>>
     ELSE UNCHANGED <<cr1, tdr, tx_fifo>>
  /\ UNCHANGED <<rdr, ore, irqc, rx_fifo, flags, main, txh, rxh, sessions>>
  /\ Latch

\* The next byte of tx_fifo goes to the data register.  If there is none, the
\* interrupt on TXE is disabled; TXE is looked at whether it is enabled or not.
IsrTransmit ==
  /\ isr = "tx"
  /\ isr' = "idle"
  /\ \/ /\ "TXE" \in flags /\ tx_fifo # <<>>
        /\ tdr' = <<Head(tx_fifo)>> /\ tx_fifo' = Tail(tx_fifo)
        /\ UNCHANGED cr1
     \/ /\ "TXE" \in flags /\ tx_fifo = <<>>
        /\ cr1' = cr1 \ {"TXEIE"}
        /\ UNCHANGED <<tdr, tx_fifo>>
     \/ "TXE" \notin flags /\ UNCHANGED <<cr1, tdr, tx_fifo>>
  /\ UNCHANGED <<rdr, ore, irqc, rx_fifo, flags, main, txh, rxh, sessions>>
  /\ Latch

-----------------------------------------------------------------------------
(* The peripheral, while UE is set. *)

\* During the interrupt the line is looked at when it returns.
LatchUnlessInIsr == IF isr = "idle" THEN Latch ELSE UNCHANGED irq_pending

HwTransmit ==
  /\ "UE" \in cr1 /\ tdr # <<>>
  /\ sent' = sent + 1 /\ tdr' = <<>>
  /\ UNCHANGED <<cr1, rdr, ore, irqc, fifos, isrv, main, accepted, flushed, rxh, sessions>>
  /\ LatchUnlessInIsr

\* A byte that arrives before the last one was read is lost to an overrun.
HwReceive ==
  /\ "UE" \in cr1 /\ arrived < MaxRx
  /\ arrived' = arrived + 1
  /\ IF rdr = <<>>
     THEN rdr' = <<arrived + 1>> /\ UNCHANGED <<ore, lost>>
     ELSE ore' = TRUE /\ lost' = lost + 1 /\ UNCHANGED rdr
  /\ UNCHANGED <<cr1, tdr, irqc, fifos, isrv, main, txh, last_read, taken, sessions>>
  /\ LatchUnlessInIsr

-----------------------------------------------------------------------------
(* The main program: the calls of the stream's users, one at a time. *)

MainAt(pc) == isr = "idle" /\ mpc = pc

\* Mutant: the write goes in whether or not it fits.
WriteUnchecked(n) ==
  /\ tx_fifo' = tx_fifo \o [k \in 1 .. n |-> accepted + k]
  /\ accepted' = accepted + n
  /\ UNCHANGED <<cr1, hw, irqc, irq_pending, rx_fifo, isrv, cr1_copy, session,
                 sent, flushed, rxh, sessions>>

\* put(), write() and puts() of fifo_stream: n bytes go in together, or none
\* does and nobody is told.
Write(n) ==
  /\ IF Len(tx_fifo) + n <= TxCapacity
     THEN /\ tx_fifo' = tx_fifo \o [k \in 1 .. n |-> accepted + k]
          /\ accepted' = accepted + n
     ELSE UNCHANGED <<tx_fifo, accepted>>
  /\ UNCHANGED <<cr1, hw, irqc, irq_pending, rx_fifo, isrv, cr1_copy, session,
                 sent, flushed, rxh, sessions>>

\* flush() sets TXEIE, by a single bit-band write.
flush == cr1' = cr1 \cup {"TXEIE"}

Flush ==
  /\ flush
  /\ flushed' = accepted
  /\ UNCHANGED <<hw, irqc, fifos, isrv, cr1_copy, session, sent, accepted, rxh, sessions>>
  /\ Latch

\* rx_fifo.pop() by the main program, when there is something.
Read ==
  /\ rx_fifo # <<>>
  /\ last_read' = Head(rx_fifo) /\ taken' = taken + 1
  /\ rx_fifo' = Tail(rx_fifo)
  /\ UNCHANGED <<cr1, hw, irqc, irq_pending, tx_fifo, isrv, cr1_copy, session,
                 txh, arrived, lost, sessions>>

\* open(): both fifos are reset and UE is set; the irq channel is enabled;
\* enable_interrupt() loads CR1 and stores it with the bits added.
OpenReset ==
  /\ MainAt("idle") /\ sessions < MaxSessions
  /\ mpc' = "open_irq" /\ session' = "opening" /\ sessions' = sessions + 1
  /\ tx_fifo' = <<>> /\ accepted' = sent + Len(tdr) /\ flushed' = sent + Len(tdr)
  /\ rx_fifo' = <<>> /\ lost' = lost + Len(rx_fifo)
  /\ cr1' = cr1 \cup {"UE"}
  /\ UNCHANGED <<hw, irqc, isrv, cr1_copy, sent, arrived, last_read, taken>>
  /\ Latch

OpenIrq ==
  /\ MainAt("open_irq")
  /\ mpc' = "open_load" /\ irq_enabled' = TRUE
  /\ UNCHANGED <<cr1, hw, irq_pending, fifos, isrv, cr1_copy, session, txh, rxh, sessions>>

OpenLoad ==
  /\ MainAt("open_load")
  /\ mpc' = "open_store" /\ cr1_copy' = cr1
  /\ UNCHANGED <<cr1, hw, irqc, irq_pending, fifos, isrv, session, txh, rxh, sessions>>

OpenStore ==
  /\ MainAt("open_store")
  /\ mpc' = "idle" /\ session' = "open"
  /\ cr1' = cr1_copy \cup OpenBits
  /\ UNCHANGED <<hw, irqc, fifos, isrv, cr1_copy, txh, rxh, sessions>>
  /\ Latch

\* close(): disable_interrupt() loads CR1 and stores it with the bits removed;
\* the irq channel is disabled; UE is cleared.
CloseLoad ==
  /\ MainAt("idle")
  /\ mpc' = "close_store" /\ session' = "closing" /\ cr1_copy' = cr1
  /\ UNCHANGED <<cr1, hw, irqc, irq_pending, fifos, isrv, txh, rxh, sessions>>

\* Mutant: the parity error interrupt is forgotten.
CloseStorePartly ==
  /\ MainAt("close_store")
  /\ mpc' = "close_irq"
  /\ cr1' = cr1_copy \ {"RXNEIE"}
  /\ UNCHANGED <<hw, irqc, fifos, isrv, cr1_copy, session, txh, rxh, sessions>>
  /\ Latch

CloseStore ==
  /\ MainAt("close_store")
  /\ mpc' = "close_irq"
  /\ cr1' = cr1_copy \ OpenBits
  /\ UNCHANGED <<hw, irqc, fifos, isrv, cr1_copy, session, txh, rxh, sessions>>
  /\ Latch

CloseIrq ==
  /\ MainAt("close_irq")
  /\ mpc' = "close_ue" /\ irq_enabled' = FALSE
  /\ UNCHANGED <<cr1, hw, irq_pending, fifos, isrv, cr1_copy, session, txh, rxh, sessions>>

CloseDisable ==
  /\ MainAt("close_ue")
  /\ mpc' = "idle" /\ session' = "closed"
  /\ cr1' = cr1 \ {"UE"}
  /\ UNCHANGED <<hw, irqc, fifos, isrv, cr1_copy, txh, rxh, sessions>>
  /\ Latch

-----------------------------------------------------------------------------
Isr == IsrEnter \/ IsrReceive \/ IsrTransmit
Hw == HwTransmit \/ HwReceive
Open == OpenIrq \/ OpenLoad \/ OpenStore
Close == CloseStore \/ CloseIrq \/ CloseDisable

\* The main program may call anything, in any order, open or not; put('\r'),
\* put('\n'), flush() in a row is endl().
Call == /\ MainAt("idle")
        /\ \/ \E n \in 1 .. MaxBlock : accepted + n <= MaxTx /\ Write(n)
           \/ Flush
           \/ Read
        /\ UNCHANGED mpc

\* Its only duty is to open a closed stream and to close an open one.
OpenCall == session = "closed" /\ OpenReset
CloseCall == session = "open" /\ CloseLoad

Next == Isr \/ Hw \/ OpenCall \/ Open \/ CloseCall \/ Close \/ Call

Spec == Init /\ [][Next]_vars

\* The core takes and finishes interrupts, the transmitter shifts, and a call
\* of open() or close() runs on.  Nobody has to write, read, open or close.
Fairness == WF_vars(Isr) /\ WF_vars(HwTransmit) /\ WF_vars(Open) /\ WF_vars(Close)
FairSpec == Spec /\ Fairness

-----------------------------------------------------------------------------
(* Properties. *)

TypeOK ==
  /\ cr1 \subseteq Cr1Bits /\ cr1_copy \subseteq Cr1Bits
  /\ Len(tdr) <= 1 /\ Len(rdr) <= 1 /\ ore \in BOOLEAN
  /\ irq_enabled \in BOOLEAN /\ irq_pending \in BOOLEAN
  /\ Len(tx_fifo) <= TxCapacity /\ Len(rx_fifo) <= RxCapacity
  /\ isr \in {"idle", "rx", "tx"} /\ flags \subseteq StatusBits
  /\ mpc \in {"idle", "open_irq", "open_load", "open_store",
              "close_store", "close_irq", "close_ue"}
  /\ session \in {"closed", "opening", "open", "closing"}
  /\ sent \in 0 .. MaxTx /\ accepted \in sent .. MaxTx /\ flushed \in 0 .. MaxTx

\* Every accepted byte goes out once and in order: what is not sent yet is in
\* the data register and tx_fifo, whatever the interrupt, the peripheral and
\* an open() or close() in between do.
TxInOrder == tdr \o tx_fifo = [k \in 1 .. accepted - sent |-> sent + k]

Increasing(s) == \A j, k \in 1 .. Len(s) : j < k => s[j] < s[k]

\* Received bytes come in order and none twice, and every byte that arrived is
\* read, waiting or was lost to an overrun, a full rx_fifo or a reset.
RxAccounted ==
  /\ Increasing(<<last_read>> \o rx_fifo \o rdr)
  /\ arrived = taken + Len(rx_fifo) + Len(rdr) + lost

\* An open stream listens and a closed one is silent: the loads and stores of
\* CR1 in open() and close() do not undo each other or the interrupt's write.
SessionBits ==
  /\ session = "open" => irq_enabled /\ {"UE"} \cup OpenBits \subseteq cr1
  /\ session = "closed" => ~irq_enabled /\ cr1 \cap ({"UE"} \cup OpenBits) = {} /\ isr = "idle"

\* What was flushed is sent, unless the stream is closed meanwhile.
FlushedIsSent == flushed > sent ~> (flushed <= sent \/ session # "open")

\* The interrupt does not fire for ever over an empty tx_fifo, although the
\* store in open() or close() may set TXEIE again behind its back.
TxInterruptStops ==
  (session = "open" /\ tx_fifo = <<>> /\ "TXEIE" \in cr1)
    ~> ("TXEIE" \notin cr1 \/ tx_fifo # <<>> \/ session # "open")

\* A received byte does not stay in the data register of an open stream.
RxIsFetched == (rdr # <<>> /\ session = "open") ~> (rdr = <<>> \/ session # "open")
=============================================================================
