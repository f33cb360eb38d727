--------------------------- MODULE TerminalProofs ---------------------------
(***************************************************************************)
(* Proofs about UsartStream and Terminal.  For the stream, with queues of  *)
(* every size and any number of bytes and sessions: types, the order of    *)
(* the bytes sent, what becomes of the bytes received, and the bits of a   *)
(* session.  For the terminal, with line buffers of every size and any     *)
(* number of keys: its main loop uses the stream as UsartStream allows, so *)
(* that what is shown of the stream holds of the terminal, and the command *)
(* line is what was typed.                                                 *)
(***************************************************************************)
EXTENDS Terminal, SequenceTheorems, TLAPS

\* A register that holds at most one byte is empty or holds one.
LEMMA AtMostOne ==
  ASSUME NEW s \in Seq(Nat), Len(s) <= 1
  PROVE  s = <<>> \/ Len(s) = 1
<1>1. PICK m \in Nat : m = Len(s)
  BY LenProperties
<1>2. s # <<>> => m # 0
  BY <1>1
<1>3. m <= 1
  BY <1>1
<1>4. QED
  BY <1>1, <1>2, <1>3

USE CapacityAssumption, BoundAssumption

-----------------------------------------------------------------------------
(* The inductive invariant, in parts. *)

\* What TypeOK leaves open: bytes are numbers, and the history counts.
Types ==
  /\ TypeOK
  /\ tdr \in Seq(Nat) /\ tx_fifo \in Seq(Nat) /\ rdr \in Seq(Nat) /\ rx_fifo \in Seq(Nat)
  /\ arrived \in Nat /\ last_read \in Nat /\ taken \in Nat /\ lost \in Nat
  /\ sessions \in Nat

\* The copy of SR is old when the interrupt acts on it, but an empty data
\* register stays empty until the interrupt fills it.
FlagIsTrue == isr # "idle" /\ "TXE" \in flags => tdr = <<>>

\* TxInOrder, place by place.
TxNumbered ==
  /\ Len(tdr) + Len(tx_fifo) = accepted - sent
  /\ \A k \in 1 .. Len(tdr) : tdr[k] = sent + k
  /\ \A k \in 1 .. Len(tx_fifo) : tx_fifo[k] = sent + Len(tdr) + k

\* RxAccounted, place by place; no byte is numbered higher than those arrived.
RxNumbered ==
  /\ last_read <= arrived
  /\ \A k \in 1 .. Len(rx_fifo) : last_read < rx_fifo[k] /\ rx_fifo[k] <= arrived
  /\ \A j, k \in 1 .. Len(rx_fifo) : j < k => rx_fifo[j] < rx_fifo[k]
  /\ \A n \in 1 .. Len(rdr) : /\ last_read < rdr[n] /\ rdr[n] <= arrived
                              /\ \A k \in 1 .. Len(rx_fifo) : rx_fifo[k] < rdr[n]
  /\ arrived = taken + Len(rx_fifo) + Len(rdr) + lost

\* Where the main program is inside open() and close(), and what it has done.
SessionSteps ==
  /\ session = "closed" => mpc = "idle"
  /\ session = "open" => mpc = "idle"
  /\ mpc = "idle" => session \in {"closed", "open"}
  /\ mpc \in {"open_irq", "open_load", "open_store"} => session = "opening" /\ "UE" \in cr1
  /\ mpc \in {"open_load", "open_store"} => irq_enabled
  /\ mpc = "open_store" => "UE" \in cr1_copy
  /\ mpc \in {"close_store", "close_irq", "close_ue"} => session = "closing"
  /\ mpc \in {"close_irq", "close_ue"} => cr1 \cap OpenBits = {}
  /\ mpc = "close_ue" => ~irq_enabled
  /\ isr # "idle" => irq_enabled

StreamInv == Types /\ FlagIsTrue /\ TxNumbered /\ RxNumbered /\ SessionSteps /\ SessionBits

-----------------------------------------------------------------------------
\* A byte behind a sequence.
LEMMA ConcatOne ==
  ASSUME NEW s \in Seq(Nat), NEW t \in Seq(Nat), Len(t) = 1
  PROVE  /\ s \o t \in Seq(Nat) /\ Len(s \o t) = Len(s) + 1
         /\ \A k \in 1 .. Len(s) : (s \o t)[k] = s[k]
         /\ (s \o t)[Len(s) + 1] = t[1]
<1> DEFINE whole == s \o t
<1>1. /\ whole \in Seq(Nat) /\ Len(whole) = Len(s) + Len(t)
      /\ \A k \in 1 .. Len(s) + Len(t) : whole[k] = IF k <= Len(s) THEN s[k] ELSE t[k - Len(s)]
  BY ConcatProperties, Zenon
<1>2. PICK m \in Nat : m = Len(s)
  BY LenProperties
<1> HIDE DEF whole
<1>3. /\ whole \in Seq(Nat) /\ Len(whole) = m + 1
      /\ \A k \in 1 .. m + 1 : whole[k] = IF k <= m THEN s[k] ELSE t[k - m]
  BY <1>1, <1>2
<1>4. \A k \in 1 .. m : whole[k] = s[k]
  BY <1>3
<1>5. whole[m + 1] = t[1]
  <2>1. m + 1 \in 1 .. m + 1 /\ ~(m + 1 <= m) /\ (m + 1) - m = 1
    OBVIOUS
  <2>2. QED
    BY <1>3, <2>1
<1>6. QED
  BY <1>2, <1>3, <1>4, <1>5 DEF whole

LEMMA InitStream == Init => StreamInv
<1> SUFFICES ASSUME Init PROVE StreamInv
  OBVIOUS
<1>1. Types
  <2>1. <<>> \in Seq(Nat) /\ Len(<<>>) = 0
    OBVIOUS
  <2>2. sent \in 0 .. MaxTx /\ accepted \in sent .. MaxTx /\ flushed \in 0 .. MaxTx
    BY DEF Init
  <2>3. Len(tdr) <= 1 /\ Len(rdr) <= 1 /\ Len(tx_fifo) <= TxCapacity /\ Len(rx_fifo) <= RxCapacity
    BY <2>1 DEF Init
  <2>4. TypeOK
    BY <2>2, <2>3 DEF Init, TypeOK
  <2>5. QED
    BY <2>1, <2>4 DEF Init, Types
<1>2. FlagIsTrue /\ TxNumbered /\ RxNumbered
  BY DEF Init, FlagIsTrue, TxNumbered, RxNumbered
<1>3. SessionSteps /\ SessionBits
  BY DEF Init, SessionSteps, SessionBits, OpenBits
<1>4. QED
  BY <1>1, <1>2, <1>3 DEF StreamInv

\* Latching keeps the pending bit a bit.
LEMMA LatchType ==
  /\ Latch => irq_pending' \in BOOLEAN
  /\ irq_pending \in BOOLEAN /\ LatchUnlessInIsr => irq_pending' \in BOOLEAN
BY DEF Latch, LatchUnlessInIsr

\* What each step leaves to the transmit side, to the receive side, and of the
\* copy of SR.
LEMMA TxUnchanged ==
  ASSUME [Next]_vars
  PROVE  \/ IsrTransmit \/ HwTransmit \/ OpenReset
         \/ \E n \in 1 .. MaxBlock : accepted + n <= MaxTx /\ Write(n)
         \/ UNCHANGED <<tdr, tx_fifo, sent, accepted>>
BY DEF Next, Isr, Hw, OpenCall, Open, CloseCall, Close, Call, IsrEnter, IsrReceive,
       HwReceive, OpenIrq, OpenLoad, OpenStore, CloseLoad, CloseStore, CloseIrq,
       CloseDisable, Flush, Read, vars, hw, fifos, txh

LEMMA RxUnchanged ==
  ASSUME [Next]_vars
  PROVE  \/ IsrReceive \/ HwReceive \/ OpenReset \/ Read
         \/ UNCHANGED <<rdr, rx_fifo, rxh>>
BY DEF Next, Isr, Hw, OpenCall, Open, CloseCall, Close, Call, IsrEnter, IsrTransmit,
       HwTransmit, OpenIrq, OpenLoad, OpenStore, CloseLoad, CloseStore, CloseIrq,
       CloseDisable, Flush, Write, vars, hw, fifos, rxh

\* One step on the transmit side: the queue and the register together lose
\* their first byte, get new ones at the end, or the byte moves between them.
LEMMA TxStep ==
  ASSUME Types, FlagIsTrue, TxNumbered, [Next]_vars
  PROVE  TxNumbered' /\ tdr' \in Seq(Nat) /\ tx_fifo' \in Seq(Nat)
                     /\ Len(tdr') <= 1 /\ Len(tx_fifo') <= TxCapacity
<1> DEFINE Goal == TxNumbered' /\ tdr' \in Seq(Nat) /\ tx_fifo' \in Seq(Nat)
                               /\ Len(tdr') <= 1 /\ Len(tx_fifo') <= TxCapacity
<1>0. /\ tdr \in Seq(Nat) /\ tx_fifo \in Seq(Nat) /\ Len(tdr) <= 1
      /\ Len(tx_fifo) <= TxCapacity /\ sent \in Nat /\ accepted \in Nat
  BY DEF Types, TypeOK
<1>1. CASE IsrTransmit
  <2>1. CASE UNCHANGED <<tdr, tx_fifo>>
    BY <1>0, <1>1, <2>1 DEF IsrTransmit, TxNumbered, txh
  <2>2. CASE tdr = <<>> /\ tx_fifo # <<>> /\ tdr' = <<Head(tx_fifo)>> /\ tx_fifo' = Tail(tx_fifo)
    <3>1. /\ tx_fifo[1] = Head(tx_fifo) /\ Head(tx_fifo) \in Nat /\ Tail(tx_fifo) \in Seq(Nat)
          /\ Len(Tail(tx_fifo)) = Len(tx_fifo) - 1
          /\ \A k \in 1 .. Len(Tail(tx_fifo)) : Tail(tx_fifo)[k] = tx_fifo[k + 1]
      BY <1>0, <2>2, HeadTailProperties
    <3>2. sent' = sent /\ accepted' = accepted
      BY <1>1 DEF IsrTransmit, txh
    <3>3. Len(tdr') = 1 /\ tdr'[1] = tx_fifo[1] /\ tdr' \in Seq(Nat)
      BY <2>2, <3>1
    <3>4. Len(tx_fifo) >= 1
      BY <1>0, <2>2
    <3>5. TxNumbered'
      BY <1>0, <2>2, <3>1, <3>2, <3>3, <3>4 DEF TxNumbered
    <3>6. QED
      BY <1>0, <2>2, <3>1, <3>3, <3>5
  <2>3. QED
    BY <1>1, <2>1, <2>2 DEF IsrTransmit, FlagIsTrue
<1>2. CASE HwTransmit
  <2>1. tdr # <<>> /\ tdr' = <<>> /\ tx_fifo' = tx_fifo /\ sent' = sent + 1 /\ accepted' = accepted
    BY <1>2 DEF HwTransmit, fifos
  <2>2. Len(tdr) = 1
    BY <1>0, <2>1, AtMostOne
  <2>3. QED
    BY <1>0, <2>1, <2>2 DEF TxNumbered
<1>3. CASE OpenReset
  <2>1. tx_fifo' = <<>> /\ tdr' = tdr /\ sent' = sent /\ accepted' = sent + Len(tdr)
    BY <1>3 DEF OpenReset, hw
  <2>2. QED
    BY <1>0, <2>1 DEF TxNumbered
<1>4. ASSUME NEW n \in 1 .. MaxBlock, Write(n) PROVE Goal
  <2> DEFINE new == [k \in 1 .. n |-> accepted + k]
  <2>1. new \in Seq(Nat) /\ Len(new) = n
    BY <1>0
  <2>2. CASE UNCHANGED <<tx_fifo, accepted>>
    BY <1>0, <1>4, <2>2 DEF Write, TxNumbered, hw
  <2>3. CASE /\ Len(tx_fifo) + n <= TxCapacity
             /\ tx_fifo' = tx_fifo \o new /\ accepted' = accepted + n
    <3>1. tdr' = tdr /\ sent' = sent
      BY <1>4 DEF Write, hw
    <3>2. /\ tx_fifo' \in Seq(Nat) /\ Len(tx_fifo') = Len(tx_fifo) + n
          /\ \A k \in 1 .. Len(tx_fifo) + n :
               tx_fifo'[k] = IF k <= Len(tx_fifo) THEN tx_fifo[k] ELSE new[k - Len(tx_fifo)]
      BY <1>0, <2>1, <2>3, ConcatProperties
    <3>3. \A k \in 1 .. n : new[k] = accepted + k
      OBVIOUS
    <3>4. accepted = sent + Len(tdr) + Len(tx_fifo)
      BY <1>0 DEF TxNumbered
    <3>5. ASSUME NEW k \in 1 .. Len(tx_fifo) + n
          PROVE  tx_fifo'[k] = sent + Len(tdr) + k
      <4> HIDE DEF new
      <4>1. CASE k <= Len(tx_fifo)
        <5>1. k \in 1 .. Len(tx_fifo)
          BY <1>0, <4>1
        <5>2. QED
          BY <3>2, <4>1, <5>1 DEF TxNumbered
      <4>2. CASE k > Len(tx_fifo)
        <5>1. k - Len(tx_fifo) \in 1 .. n
          BY <1>0, <3>2, <4>2
        <5>2. tx_fifo'[k] = new[k - Len(tx_fifo)]
          BY <1>0, <3>2, <4>2
        <5>3. new[k - Len(tx_fifo)] = accepted + (k - Len(tx_fifo))
          BY <3>3, <5>1
        <5>4. QED
          BY <1>0, <3>4, <5>2, <5>3
      <4>3. QED
        BY <1>0, <3>2, <4>1, <4>2
    <3>6. TxNumbered'
      BY <1>0, <2>3, <3>1, <3>2, <3>4, <3>5 DEF TxNumbered
    <3>7. QED
      BY <1>0, <2>3, <3>1, <3>2, <3>6
  <2>4. QED
    BY <1>4, <2>2, <2>3 DEF Write
<1>5. CASE UNCHANGED <<tdr, tx_fifo, sent, accepted>>
  BY <1>0, <1>5 DEF TxNumbered
<1>6. QED
  BY <1>1, <1>2, <1>3, <1>4, <1>5, TxUnchanged

\* One step on the receive side: the byte in the register is younger than all
\* in the queue, and a byte that disappears is counted.
LEMMA RxStep ==
  ASSUME Types, RxNumbered, [Next]_vars
  PROVE  /\ RxNumbered'
         /\ rdr' \in Seq(Nat) /\ rx_fifo' \in Seq(Nat)
         /\ Len(rdr') <= 1 /\ Len(rx_fifo') <= RxCapacity
         /\ arrived' \in Nat /\ last_read' \in Nat /\ taken' \in Nat /\ lost' \in Nat
<1> DEFINE Queues == /\ rdr' \in Seq(Nat) /\ rx_fifo' \in Seq(Nat)
                     /\ Len(rdr') <= 1 /\ Len(rx_fifo') <= RxCapacity
           Counts == /\ arrived' \in Nat /\ last_read' \in Nat
                     /\ taken' \in Nat /\ lost' \in Nat
<1>0. /\ rdr \in Seq(Nat) /\ rx_fifo \in Seq(Nat)
      /\ Len(rdr) <= 1 /\ Len(rx_fifo) <= RxCapacity
      /\ arrived \in Nat /\ last_read \in Nat /\ taken \in Nat /\ lost \in Nat
  BY DEF Types, TypeOK
<1>1. CASE IsrReceive
  <2>1. CASE "RXNE" \notin flags
    BY <1>0, <1>1, <2>1 DEF IsrReceive, RxNumbered
  <2>2. CASE "RXNE" \in flags /\ Len(rx_fifo) < RxCapacity
    <3>1. /\ rdr' = <<>> /\ rx_fifo' = rx_fifo \o rdr /\ lost' = lost
          /\ arrived' = arrived /\ last_read' = last_read /\ taken' = taken
      BY <1>1, <2>2 DEF IsrReceive
    <3>2. CASE rdr = <<>>
      <4>1. rx_fifo' = rx_fifo /\ rdr' = rdr
        BY <1>0, <3>1, <3>2, ConcatEmptySeq
      <4>2. QED
        BY <1>0, <3>1, <4>1 DEF RxNumbered
    <3>3. CASE Len(rdr) = 1
      <4>0. /\ (rx_fifo \o rdr) \in Seq(Nat) /\ Len(rx_fifo \o rdr) = Len(rx_fifo) + 1
            /\ \A k \in 1 .. Len(rx_fifo) : (rx_fifo \o rdr)[k] = rx_fifo[k]
            /\ (rx_fifo \o rdr)[Len(rx_fifo) + 1] = rdr[1]
        BY <1>0, <3>3, ConcatOne, Zenon
      <4>1. rx_fifo' \in Seq(Nat) /\ Len(rx_fifo') = Len(rx_fifo) + 1
        BY <3>1, <4>0, Zenon
      <4>2. \A k \in 1 .. Len(rx_fifo) : rx_fifo'[k] = rx_fifo[k]
        BY <3>1, <4>0, Zenon
      <4>3. rx_fifo'[Len(rx_fifo) + 1] = rdr[1]
        BY <3>1, <4>0, Zenon
      <4>4. /\ last_read < rdr[1] /\ rdr[1] <= arrived /\ rdr[1] \in Nat
            /\ \A k \in 1 .. Len(rx_fifo) : rx_fifo[k] < rdr[1]
        <5>1. 1 \in 1 .. Len(rdr)
          BY <3>3
        <5>2. rdr[1] \in Nat
          BY <1>0, <5>1, ElementOfSeq
        <5>3. QED
          BY <5>1, <5>2 DEF RxNumbered
      <4>5. \A k \in 1 .. Len(rx_fifo') : k \in 1 .. Len(rx_fifo) \/ k = Len(rx_fifo) + 1
        BY <1>0, <4>1
      <4>6. \A k \in 1 .. Len(rx_fifo') : last_read < rx_fifo'[k] /\ rx_fifo'[k] <= arrived
        BY <4>2, <4>3, <4>4, <4>5 DEF RxNumbered
      <4>7. ASSUME NEW j \in 1 .. Len(rx_fifo'), NEW k \in 1 .. Len(rx_fifo'), j < k
            PROVE  rx_fifo'[j] < rx_fifo'[k]
        <5>1. j \in 1 .. Len(rx_fifo)
          BY <1>0, <4>1, <4>7
        <5>2. QED
          BY <4>2, <4>3, <4>4, <4>5, <4>7, <5>1 DEF RxNumbered
      <4>8. arrived = taken + Len(rx_fifo') + lost
        BY <1>0, <3>3, <4>1 DEF RxNumbered
      <4>9. rdr' \in Seq(Nat) /\ Len(rdr') = 0
        BY <3>1
      <4>10. RxNumbered'
        <5>1. \A k \in 1 .. Len(rx_fifo') : last_read' < rx_fifo'[k] /\ rx_fifo'[k] <= arrived'
          BY <3>1, <4>6, Zenon
        <5>2. \A j, k \in 1 .. Len(rx_fifo') : j < k => rx_fifo'[j] < rx_fifo'[k]
          BY <4>7, Zenon
        <5>3. last_read' <= arrived'
          BY <3>1 DEF RxNumbered
        <5>4. arrived' = taken' + Len(rx_fifo') + Len(rdr') + lost'
          BY <1>0, <3>1, <4>1, <4>8, <4>9
        <5>5. \A n \in 1 .. Len(rdr') : FALSE
          BY <4>9
        <5>6. QED
          BY <5>1, <5>2, <5>3, <5>4, <5>5, Zenon DEF RxNumbered
      <4>11. QED
        BY <1>0, <2>2, <3>1, <4>1, <4>9, <4>10
    <3>4. QED
      BY <1>0, <3>2, <3>3, AtMostOne
  <2>3. CASE "RXNE" \in flags /\ ~(Len(rx_fifo) < RxCapacity)
    <3>1. /\ rdr' = <<>> /\ rx_fifo' = rx_fifo /\ lost' = lost + Len(rdr)
          /\ arrived' = arrived /\ last_read' = last_read /\ taken' = taken
      BY <1>1, <2>3 DEF IsrReceive
    <3>2. QED
      BY <1>0, <3>1 DEF RxNumbered
  <2>4. QED
    BY <2>1, <2>2, <2>3
<1>2. CASE HwReceive
  <2>1. /\ arrived' = arrived + 1
        /\ rx_fifo' = rx_fifo /\ last_read' = last_read /\ taken' = taken
    BY <1>2 DEF HwReceive, fifos
  <2>2. CASE rdr = <<>>
    <3>1. rdr' = <<arrived + 1>> /\ lost' = lost
      BY <1>2, <2>2 DEF HwReceive
    <3>2. rdr' \in Seq(Nat) /\ Len(rdr') = 1 /\ rdr'[1] = arrived + 1 /\ Len(rdr) = 0
      BY <1>0, <2>2, <3>1
    <3>3. \A k \in 1 .. Len(rx_fifo) : rx_fifo[k] \in Nat
      BY <1>0, ElementOfSeq
    <3>4. RxNumbered'
      BY <1>0, <2>1, <3>1, <3>2, <3>3 DEF RxNumbered
    <3>5. QED
      BY <1>0, <2>1, <3>1, <3>2, <3>4
  <2>3. CASE rdr # <<>>
    <3>1. rdr' = rdr /\ lost' = lost + 1
      BY <1>2, <2>3 DEF HwReceive
    <3>2. (\A k \in 1 .. Len(rx_fifo) : rx_fifo[k] \in Nat) /\ (\A n \in 1 .. Len(rdr) : rdr[n] \in Nat)
      BY <1>0, ElementOfSeq
    <3>3. arrived' = taken' + Len(rx_fifo') + Len(rdr') + lost'
      BY <1>0, <2>1, <3>1 DEF RxNumbered
    <3>4. last_read' <= arrived'
      BY <1>0, <2>1 DEF RxNumbered
    <3>5. \A k \in 1 .. Len(rx_fifo) : last_read < rx_fifo[k] /\ rx_fifo[k] <= arrived + 1
      BY <1>0, <3>2 DEF RxNumbered
    <3>6. \A n \in 1 .. Len(rdr) : last_read < rdr[n] /\ rdr[n] <= arrived + 1
      BY <1>0, <3>2 DEF RxNumbered
    <3>7. RxNumbered'
      BY <2>1, <3>1, <3>3, <3>4, <3>5, <3>6 DEF RxNumbered
    <3>8. QED
      BY <1>0, <2>1, <3>1, <3>7
  <2>4. QED
    BY <2>2, <2>3
<1>3. CASE OpenReset
  <2>1. /\ rx_fifo' = <<>> /\ lost' = lost + Len(rx_fifo) /\ rdr' = rdr
        /\ arrived' = arrived /\ last_read' = last_read /\ taken' = taken
    BY <1>3 DEF OpenReset, hw
  <2>2. QED
    BY <1>0, <2>1 DEF RxNumbered
<1>4. CASE Read
  <2>1. /\ rx_fifo # <<>> /\ last_read' = Head(rx_fifo) /\ rx_fifo' = Tail(rx_fifo)
        /\ taken' = taken + 1 /\ rdr' = rdr /\ arrived' = arrived /\ lost' = lost
    BY <1>4 DEF Read, hw
  <2>2. /\ Head(rx_fifo) = rx_fifo[1] /\ Head(rx_fifo) \in Nat /\ Tail(rx_fifo) \in Seq(Nat)
        /\ Len(Tail(rx_fifo)) = Len(rx_fifo) - 1
        /\ \A k \in 1 .. Len(Tail(rx_fifo)) : Tail(rx_fifo)[k] = rx_fifo[k + 1]
    BY <1>0, <2>1, HeadTailProperties
  <2>3. 1 \in 1 .. Len(rx_fifo) /\ \A k \in 1 .. Len(Tail(rx_fifo)) : k + 1 \in 2 .. Len(rx_fifo)
    BY <1>0, <2>1, <2>2
  <2>4. RxNumbered'
    <3>1. /\ last_read' = rx_fifo[1] /\ Len(rx_fifo') = Len(rx_fifo) - 1
          /\ \A k \in 1 .. Len(rx_fifo') : /\ rx_fifo'[k] = rx_fifo[k + 1]
                                           /\ k + 1 \in 1 .. Len(rx_fifo) /\ 1 < k + 1
      BY <1>0, <2>1, <2>2, <2>3
    <3>2. arrived' = taken' + Len(rx_fifo') + Len(rdr') + lost'
      BY <1>0, <2>1, <3>1 DEF RxNumbered
    <3>3. last_read' <= arrived'
      BY <2>1, <2>3, <3>1 DEF RxNumbered
    <3>4. \A k \in 1 .. Len(rx_fifo') : last_read' < rx_fifo'[k] /\ rx_fifo'[k] <= arrived'
      BY <2>1, <2>3, <3>1 DEF RxNumbered
    <3>5. ASSUME NEW j \in 1 .. Len(rx_fifo'), NEW k \in 1 .. Len(rx_fifo'), j < k
          PROVE  rx_fifo'[j] < rx_fifo'[k]
      <4>1. j + 1 < k + 1
        BY <3>5
      <4>2. QED
        BY <3>1, <4>1 DEF RxNumbered
    <3>6. \A n \in 1 .. Len(rdr') : /\ last_read' < rdr'[n] /\ rdr'[n] <= arrived'
                                     /\ \A k \in 1 .. Len(rx_fifo') : rx_fifo'[k] < rdr'[n]
      BY <2>1, <2>3, <3>1 DEF RxNumbered
    <3>7. QED
      BY <3>2, <3>3, <3>4, <3>5, <3>6 DEF RxNumbered
  <2>5. QED
    BY <1>0, <2>1, <2>2, <2>4
<1>5. CASE UNCHANGED <<rdr, rx_fifo, rxh>>
  BY <1>0, <1>5 DEF RxNumbered, rxh
<1>6. QED
  BY <1>1, <1>2, <1>3, <1>4, <1>5, RxUnchanged

\* The copy of SR is taken on entry, and nobody else fills the data register.
LEMMA FlagStep ==
  ASSUME FlagIsTrue, [Next]_vars
  PROVE  FlagIsTrue'
<1>1. CASE IsrEnter
  BY <1>1 DEF IsrEnter, FlagIsTrue, SR, hw
<1>2. CASE IsrReceive
  BY <1>2 DEF IsrReceive, FlagIsTrue
<1>3. CASE IsrTransmit
  BY <1>3 DEF IsrTransmit, FlagIsTrue
<1>4. CASE HwTransmit
  BY <1>4 DEF HwTransmit, FlagIsTrue, isrv
<1>5. CASE UNCHANGED <<isr, flags, tdr>>
  BY <1>5 DEF FlagIsTrue
<1>6. \/ IsrEnter \/ IsrReceive \/ IsrTransmit \/ HwTransmit \/ UNCHANGED <<isr, flags, tdr>>
  BY DEF Next, Isr, Hw, OpenCall, Open, CloseCall, Close, Call, HwReceive, OpenReset,
         OpenIrq, OpenLoad, OpenStore, CloseLoad, CloseStore, CloseIrq, CloseDisable,
         Flush, Write, Read, vars, hw, isrv
<1>7. QED
  BY <1>1, <1>2, <1>3, <1>4, <1>5, <1>6

\* The types of the registers, the interrupt and the main program.
LEMMA ControlStep ==
  ASSUME Types, [Next]_vars
  PROVE  /\ cr1' \subseteq Cr1Bits /\ cr1_copy' \subseteq Cr1Bits
         /\ ore' \in BOOLEAN /\ irq_enabled' \in BOOLEAN /\ irq_pending' \in BOOLEAN
         /\ isr' \in {"idle", "rx", "tx"} /\ flags' \subseteq StatusBits
         /\ mpc' \in {"idle", "open_irq", "open_load", "open_store",
                     "close_store", "close_irq", "close_ue"}
         /\ session' \in {"closed", "opening", "open", "closing"}
         /\ sessions' \in Nat
<1>0. /\ cr1 \subseteq Cr1Bits /\ cr1_copy \subseteq Cr1Bits
      /\ ore \in BOOLEAN /\ irq_enabled \in BOOLEAN /\ irq_pending \in BOOLEAN
      /\ isr \in {"idle", "rx", "tx"} /\ flags \subseteq StatusBits
      /\ mpc \in {"idle", "open_irq", "open_load", "open_store",
                  "close_store", "close_irq", "close_ue"}
      /\ session \in {"closed", "opening", "open", "closing"}
      /\ sessions \in Nat
  BY DEF Types, TypeOK
<1>1. CASE IsrEnter
  BY <1>0, <1>1 DEF IsrEnter, SR, hw, irqc, main
<1>2. CASE IsrReceive
  BY <1>0, <1>2 DEF IsrReceive, irqc, main
<1>3. CASE IsrTransmit
  BY <1>0, <1>3, LatchType DEF IsrTransmit, irqc, main
<1>4. CASE Hw
  <2>1. CASE HwTransmit
    BY <1>0, <2>1, LatchType DEF HwTransmit, irqc, isrv, main
  <2>2. CASE HwReceive
    <3>1. /\ UNCHANGED <<cr1, irq_enabled, isr, flags, mpc, cr1_copy, session, sessions>>
          /\ ore' \in {TRUE, ore} /\ LatchUnlessInIsr
      BY <2>2 DEF HwReceive, irqc, isrv, main
    <3>2. ore' \in BOOLEAN /\ irq_pending' \in BOOLEAN
      BY <1>0, <3>1, LatchType
    <3>3. QED
      BY <1>0, <3>1, <3>2
  <2>3. QED
    BY <1>4, <2>1, <2>2 DEF Hw
<1>5. CASE Call
  BY <1>0, <1>5, LatchType DEF Call, Write, Flush, flush, Read, hw, irqc, isrv, Cr1Bits
<1>6. CASE OpenReset
  BY <1>0, <1>6, LatchType DEF OpenReset, hw, irqc, isrv, Cr1Bits
<1>7. CASE OpenIrq
  BY <1>0, <1>7 DEF OpenIrq, hw, isrv
<1>8. CASE OpenLoad
  BY <1>0, <1>8 DEF OpenLoad, hw, irqc, isrv
<1>9. CASE OpenStore
  BY <1>0, <1>9, LatchType DEF OpenStore, hw, irqc, isrv, Cr1Bits
<1>10. CASE CloseLoad
  BY <1>0, <1>10 DEF CloseLoad, hw, irqc, isrv
<1>11. CASE CloseStore
  BY <1>0, <1>11, LatchType DEF CloseStore, hw, irqc, isrv
<1>12. CASE CloseIrq
  BY <1>0, <1>12 DEF CloseIrq, hw, isrv
<1>13. CASE CloseDisable
  BY <1>0, <1>13, LatchType DEF CloseDisable, hw, irqc, isrv
<1>14. CASE UNCHANGED vars
  BY <1>0, <1>14 DEF vars, hw, isrv, main
<1>15. QED
  BY <1>1, <1>2, <1>3, <1>4, <1>5, <1>6, <1>7, <1>8, <1>9, <1>10, <1>11, <1>12, <1>13, <1>14 DEF Next, Isr, OpenCall, Open, CloseCall, Close

\* open() and close() step by step: the interrupt changes no bit of CR1 but
\* TXEIE, so that the copy taken before is still right when it is stored.
LEMMA SessionStep ==
  ASSUME Types, SessionSteps, SessionBits, [Next]_vars
  PROVE  SessionSteps' /\ SessionBits'
<1> USE DEF SessionSteps, SessionBits
<1>0. /\ isr \in {"idle", "rx", "tx"}
      /\ mpc \in {"idle", "open_irq", "open_load", "open_store",
                  "close_store", "close_irq", "close_ue"}
      /\ session \in {"closed", "opening", "open", "closing"}
  BY DEF Types, TypeOK
<1>1. CASE IsrEnter
  BY <1>0, <1>1 DEF IsrEnter, irqc, main
<1>2. CASE IsrReceive
  BY <1>0, <1>2 DEF IsrReceive, irqc, main
<1>3. CASE IsrTransmit
  BY <1>0, <1>3 DEF IsrTransmit, irqc, main, OpenBits
<1>4. CASE Hw
  BY <1>0, <1>4 DEF Hw, HwTransmit, HwReceive, irqc, isrv, main
<1>5. CASE Call
  BY <1>0, <1>5 DEF Call, MainAt, Write, Flush, flush, Read, irqc, isrv, OpenBits
<1>6. CASE OpenReset
  BY <1>0, <1>6 DEF OpenReset, MainAt, OpenBits, irqc, isrv
<1>7. CASE OpenIrq
  BY <1>0, <1>7 DEF OpenIrq, MainAt, OpenBits, isrv
<1>8. CASE OpenLoad
  BY <1>0, <1>8 DEF OpenLoad, MainAt, OpenBits, irqc, isrv
<1>9. CASE OpenStore
  BY <1>0, <1>9 DEF OpenStore, MainAt, OpenBits, irqc, isrv
<1>10. CASE CloseLoad
  BY <1>0, <1>10 DEF CloseLoad, MainAt, OpenBits, irqc, isrv
<1>11. CASE CloseStore
  BY <1>0, <1>11 DEF CloseStore, MainAt, OpenBits, irqc, isrv
<1>12. CASE CloseIrq
  BY <1>0, <1>12 DEF CloseIrq, MainAt, OpenBits, isrv
<1>13. CASE CloseDisable
  BY <1>0, <1>13 DEF CloseDisable, MainAt, OpenBits, irqc, isrv
<1>14. CASE UNCHANGED vars
  BY <1>0, <1>14 DEF vars, isrv, main
<1>15. QED
  BY <1>1, <1>2, <1>3, <1>4, <1>5, <1>6, <1>7, <1>8, <1>9, <1>10, <1>11, <1>12, <1>13, <1>14 DEF Next, Isr, OpenCall, Open, CloseCall, Close

\* The bounds of the transmit counts: the peripheral sends nothing that was not
\* accepted, and open() takes nothing back that is in the data register.
LEMMA CountStep ==
  ASSUME Types, TxNumbered, [Next]_vars
  PROVE  sent' \in 0 .. MaxTx /\ accepted' \in sent' .. MaxTx /\ flushed' \in 0 .. MaxTx
<1> DEFINE Goal == sent' \in 0 .. MaxTx /\ accepted' \in sent' .. MaxTx /\ flushed' \in 0 .. MaxTx
<1>0. /\ tdr \in Seq(Nat) /\ tx_fifo \in Seq(Nat) /\ Len(tdr) <= 1
      /\ sent \in 0 .. MaxTx /\ accepted \in sent .. MaxTx /\ flushed \in 0 .. MaxTx
  BY DEF Types, TypeOK
<1>1. CASE HwTransmit
  <2>1. tdr # <<>> /\ sent' = sent + 1 /\ accepted' = accepted /\ flushed' = flushed
    BY <1>1 DEF HwTransmit
  <2>2. Len(tdr) = 1
    BY <1>0, <2>1, AtMostOne
  <2>3. sent + 1 <= accepted
    BY <1>0, <2>2 DEF TxNumbered
  <2>4. QED
    BY <1>0, <2>1, <2>3
<1>2. CASE OpenReset
  <2>1. sent' = sent /\ accepted' = sent + Len(tdr) /\ flushed' = sent + Len(tdr)
    BY <1>2 DEF OpenReset
  <2>2. sent + Len(tdr) <= accepted
    BY <1>0 DEF TxNumbered
  <2>3. QED
    BY <1>0, <2>1, <2>2
<1>3. ASSUME NEW n \in 1 .. MaxBlock, accepted + n <= MaxTx, Write(n) PROVE Goal
  BY <1>0, <1>3 DEF Write
<1>4. CASE Flush
  BY <1>0, <1>4 DEF Flush
<1>5. CASE UNCHANGED txh
  BY <1>0, <1>5 DEF txh
<1>6. \/ HwTransmit \/ OpenReset \/ Flush \/ UNCHANGED txh
      \/ \E n \in 1 .. MaxBlock : accepted + n <= MaxTx /\ Write(n)
  BY DEF Next, Isr, Hw, OpenCall, Open, CloseCall, Close, Call, IsrEnter, IsrReceive,
         IsrTransmit, HwReceive, OpenIrq, OpenLoad, OpenStore, CloseLoad, CloseStore,
         CloseIrq, CloseDisable, Read, vars, txh
<1>7. QED
  BY <1>1, <1>2, <1>3, <1>4, <1>5, <1>6

LEMMA NextStream == StreamInv /\ [Next]_vars => StreamInv'
<1> SUFFICES ASSUME StreamInv, [Next]_vars PROVE StreamInv'
  OBVIOUS
<1>0. Types /\ FlagIsTrue /\ TxNumbered /\ RxNumbered /\ SessionSteps /\ SessionBits
  BY DEF StreamInv
<1>1. FlagIsTrue' /\ SessionSteps' /\ SessionBits'
  BY <1>0, FlagStep, SessionStep
<1>2. TxNumbered' /\ tdr' \in Seq(Nat) /\ tx_fifo' \in Seq(Nat)
                  /\ Len(tdr') <= 1 /\ Len(tx_fifo') <= TxCapacity
  BY <1>0, TxStep
<1>3. /\ RxNumbered'
      /\ rdr' \in Seq(Nat) /\ rx_fifo' \in Seq(Nat)
      /\ Len(rdr') <= 1 /\ Len(rx_fifo') <= RxCapacity
      /\ arrived' \in Nat /\ last_read' \in Nat /\ taken' \in Nat /\ lost' \in Nat
  BY <1>0, RxStep
<1>4. sent' \in 0 .. MaxTx /\ accepted' \in sent' .. MaxTx /\ flushed' \in 0 .. MaxTx
  BY <1>0, CountStep
<1>5. /\ cr1' \subseteq Cr1Bits /\ cr1_copy' \subseteq Cr1Bits
      /\ ore' \in BOOLEAN /\ irq_enabled' \in BOOLEAN /\ irq_pending' \in BOOLEAN
      /\ isr' \in {"idle", "rx", "tx"} /\ flags' \subseteq StatusBits
      /\ mpc' \in {"idle", "open_irq", "open_load", "open_store",
                  "close_store", "close_irq", "close_ue"}
      /\ session' \in {"closed", "opening", "open", "closing"}
      /\ sessions' \in Nat
  BY <1>0, ControlStep
<1>6. TypeOK'
  BY <1>2, <1>3, <1>4, <1>5 DEF TypeOK
<1>7. Types'
  BY <1>2, <1>3, <1>5, <1>6 DEF Types
<1>8. QED
  BY <1>1, <1>2, <1>3, <1>7 DEF StreamInv

-----------------------------------------------------------------------------
(* The invariant says what the runs check. *)

\* TxNumbered, read as an equation of sequences.
LEMMA NumberedIsInOrder == Types /\ TxNumbered => TxInOrder
<1> SUFFICES ASSUME Types, TxNumbered PROVE TxInOrder
  OBVIOUS
<1> DEFINE whole == tdr \o tx_fifo
           numbers == [k \in 1 .. accepted - sent |-> sent + k]
<1>0. /\ tdr \in Seq(Nat) /\ tx_fifo \in Seq(Nat) /\ sent \in Nat /\ accepted \in Nat
      /\ accepted - sent \in Nat
  BY DEF Types, TypeOK
<1>1. /\ whole \in Seq(Nat) /\ Len(whole) = Len(tdr) + Len(tx_fifo)
      /\ \A k \in 1 .. Len(tdr) + Len(tx_fifo) :
           whole[k] = IF k <= Len(tdr) THEN tdr[k] ELSE tx_fifo[k - Len(tdr)]
  BY <1>0, ConcatProperties
<1>2. numbers \in Seq(Nat) /\ Len(numbers) = accepted - sent
      /\ \A k \in 1 .. accepted - sent : numbers[k] = sent + k
  BY <1>0
<1> HIDE DEF whole, numbers
<1>3. ASSUME NEW k \in 1 .. accepted - sent PROVE whole[k] = numbers[k]
  <2>0. PICK m \in Nat : m = Len(tdr)
    BY <1>0, LenProperties
  <2>1. k \in 1 .. Len(tdr) + Len(tx_fifo)
    BY DEF TxNumbered
  <2>2. CASE k <= m
    <3>1. k \in 1 .. Len(tdr)
      BY <1>0, <2>0, <2>2
    <3>2. whole[k] = tdr[k]
      BY <1>1, <2>0, <2>1, <2>2
    <3>3. QED
      BY <1>2, <3>1, <3>2 DEF TxNumbered
  <2>3. CASE k > m
    <3>1. k - m \in 1 .. Len(tx_fifo)
      BY <1>0, <2>0, <2>1, <2>3
    <3>2. whole[k] = tx_fifo[k - m]
      BY <1>0, <1>1, <2>0, <2>1, <2>3
    <3>3. tx_fifo[k - m] = sent + m + (k - m)
      BY <2>0, <3>1 DEF TxNumbered
    <3>4. numbers[k] = sent + k
      BY <1>2
    <3>5. QED
      BY <1>0, <2>0, <3>2, <3>3, <3>4
  <2>4. QED
    BY <1>0, <2>0, <2>2, <2>3
<1>4. Len(whole) = Len(numbers)
  BY <1>1, <1>2 DEF TxNumbered
<1>5. whole = numbers
  BY <1>1, <1>2, <1>3, <1>4, SeqEqual
<1>6. QED
  BY <1>5 DEF TxInOrder, whole, numbers

\* RxNumbered, read as one increasing sequence.
LEMMA NumberedIsAccounted == Types /\ RxNumbered => RxAccounted
<1> SUFFICES ASSUME Types, RxNumbered PROVE RxAccounted
  OBVIOUS
<1> DEFINE front == <<last_read>> \o rx_fifo
           whole == front \o rdr
<1>0. /\ rdr \in Seq(Nat) /\ rx_fifo \in Seq(Nat) /\ last_read \in Nat /\ Len(rdr) <= 1
  BY DEF Types, TypeOK
<1>1. PICK m \in Nat, r \in Nat : m = Len(rx_fifo) /\ r = Len(rdr)
  BY <1>0, LenProperties
<1>2. /\ front \in Seq(Nat) /\ Len(front) = 1 + m
      /\ front[1] = last_read
      /\ \A k \in 1 .. m : front[k + 1] = rx_fifo[k]
  <2>1. <<last_read>> \in Seq(Nat) /\ Len(<<last_read>>) = 1 /\ <<last_read>>[1] = last_read
    BY <1>0
  <2>2. /\ front \in Seq(Nat) /\ Len(front) = 1 + m
        /\ \A k \in 1 .. 1 + m :
             front[k] = IF k <= 1 THEN <<last_read>>[k] ELSE rx_fifo[k - 1]
    BY <1>0, <1>1, <2>1, ConcatProperties
  <2>3. front[1] = last_read
    BY <2>1, <2>2
  <2>4. ASSUME NEW k \in 1 .. m PROVE front[k + 1] = rx_fifo[k]
    <3> HIDE DEF front
    <3>1. k + 1 \in 1 .. 1 + m /\ ~(k + 1 <= 1) /\ (k + 1) - 1 = k
      OBVIOUS
    <3>2. QED
      BY <2>2, <3>1
  <2>5. QED
    BY <2>2, <2>3, <2>4
<1> HIDE DEF front
<1>3. /\ Len(whole) = (1 + m) + r
      /\ \A k \in 1 .. (1 + m) + r :
           whole[k] = IF k <= 1 + m THEN front[k] ELSE rdr[k - (1 + m)]
  <2>1. /\ Len(front \o rdr) = Len(front) + Len(rdr)
        /\ \A k \in 1 .. Len(front) + Len(rdr) : (front \o rdr)[k] =
             IF k <= Len(front) THEN front[k] ELSE rdr[k - Len(front)]
    BY <1>0, <1>2, ConcatProperties, Zenon
  <2>2. Len(front) = 1 + m /\ Len(rdr) = r
    BY <1>1, <1>2
  <2>3. QED
    BY <2>1, <2>2, Zenon
<1> HIDE DEF whole
<1>4. \A k \in 1 .. m : rx_fifo[k] \in Nat
  BY <1>0, <1>1, ElementOfSeq
<1>5. /\ whole[1] = last_read
      /\ \A k \in 1 .. m : whole[k + 1] = rx_fifo[k]
      /\ r = 1 => whole[m + 2] = rdr[1] /\ rdr[1] \in Nat
  <2>1. whole[1] = last_read
    BY <1>2, <1>3
  <2>2. ASSUME NEW k \in 1 .. m PROVE whole[k + 1] = rx_fifo[k]
    BY <1>2, <1>3
  <2>3. ASSUME r = 1 PROVE whole[m + 2] = rdr[1] /\ rdr[1] \in Nat
    <3>1. 1 \in 1 .. Len(rdr)
      BY <1>1, <2>3
    <3>2. whole[m + 2] = rdr[1]
      BY <1>3, <2>3
    <3>3. QED
      BY <1>0, <3>1, <3>2, ElementOfSeq
  <2>4. QED
    BY <2>1, <2>2, <2>3
<1>6. ASSUME NEW j \in 1 .. Len(whole), NEW k \in 1 .. Len(whole), j < k
      PROVE  whole[j] < whole[k]
  <2>0. r <= 1 /\ j \in 1 .. 1 + m + r /\ k \in 1 .. 1 + m + r
    BY <1>0, <1>1, <1>3
  <2>1. k = 1 \/ k - 1 \in 1 .. m \/ (r = 1 /\ k = m + 2)
    BY <2>0
  <2>2. j = 1 \/ j - 1 \in 1 .. m
    BY <1>6, <2>0
  <2>3. CASE k - 1 \in 1 .. m
    <3>1. whole[k] = rx_fifo[k - 1]
      BY <1>5, <2>3
    <3>2. CASE j = 1
      BY <1>1, <1>5, <2>3, <3>1, <3>2 DEF RxNumbered
    <3>3. CASE j - 1 \in 1 .. m
      <4>1. whole[j] = rx_fifo[j - 1]
        BY <1>5, <3>3
      <4>2. j - 1 < k - 1
        BY <1>6
      <4>3. QED
        BY <1>1, <2>3, <3>1, <3>3, <4>1, <4>2 DEF RxNumbered
    <3>4. QED
      BY <2>2, <3>2, <3>3
  <2>4. CASE r = 1 /\ k = m + 2
    <3>1. whole[k] = rdr[1] /\ 1 \in 1 .. Len(rdr)
      BY <1>1, <1>5, <2>4
    <3>2. CASE j = 1
      BY <1>5, <3>1, <3>2 DEF RxNumbered
    <3>3. CASE j - 1 \in 1 .. m
      <4>1. whole[j] = rx_fifo[j - 1]
        BY <1>5, <3>3
      <4>2. QED
        BY <1>1, <3>1, <3>3, <4>1 DEF RxNumbered
    <3>4. QED
      BY <2>2, <3>2, <3>3
  <2>5. QED
    BY <1>6, <2>0, <2>1, <2>3, <2>4
<1>7. Increasing(whole)
  BY <1>6 DEF Increasing
<1>8. arrived = taken + Len(rx_fifo) + Len(rdr) + lost
  BY DEF RxNumbered
<1>9. QED
  BY <1>7, <1>8 DEF RxAccounted, whole, front

-----------------------------------------------------------------------------
\* The inductive invariant holds for queues of every capacity, every bound on
\* the bytes and any number of sessions of usart_irq_stream.
THEOREM StreamInvariance == Spec => []StreamInv
<1>1. Init => StreamInv
  BY InitStream
<1>2. StreamInv /\ [Next]_vars => StreamInv'
  BY NextStream
<1>3. QED
  BY <1>1, <1>2, PTL DEF Spec

\* Types: queues stay within their capacities, and the bytes sent never exceed
\* those accepted.
THEOREM StreamTypes == Spec => []TypeOK
<1>1. StreamInv => TypeOK
  BY DEF StreamInv, Types
<1>2. QED
  BY <1>1, StreamInvariance, PTL

\* isr(), open() and close() never reorder, lose or repeat a byte between
\* tx_fifo and the wire.
THEOREM BytesInOrder == Spec => []TxInOrder
<1>1. StreamInv => TxInOrder
  BY NumberedIsInOrder DEF StreamInv
<1>2. QED
  BY <1>1, StreamInvariance, PTL

\* Received bytes reach the reader in order, and those that do not are counted:
\* none disappears in isr() between the load of SR and the end of the interrupt.
THEOREM BytesAccounted == Spec => []RxAccounted
<1>1. StreamInv => RxAccounted
  BY NumberedIsAccounted DEF StreamInv
<1>2. QED
  BY <1>1, StreamInvariance, PTL

\* The stores of CR1 in open() and close(), from copies the interrupt may have
\* overtaken, leave an open stream listening and a closed one silent.
THEOREM SessionIsRight == Spec => []SessionBits
<1>1. StreamInv => SessionBits
  BY DEF StreamInv
<1>2. QED
  BY <1>1, StreamInvariance, PTL

-----------------------------------------------------------------------------
(* The terminal. *)

USE CmdBufAssumption, RoomAssumption

(* Its inductive invariant, in parts. *)

Places == {"boot", "welcome", "flush", "loop", "char", "hook", "closing",
           "reopen", "reopening", "prompt"}

\* The stream is closed where the main loop takes it to be, and inside open()
\* or close() only behind a call of them.
PlaceInv ==
  /\ tpc \in Places
  /\ mpc = "idle" => (session = "closed" <=> tpc \in {"boot", "closing", "reopen"})
  /\ mpc \in {"open_irq", "open_load", "open_store"} => tpc \in {"welcome", "reopening"}
  /\ mpc \in {"close_store", "close_irq", "close_ue"} => tpc = "closing"

\* What the main loop may still write of its own: for keys not read yet, and for
\* what it is in the middle of.
Owed ==
  4 * (MaxRx - taken) +
    (IF tpc = "char" THEN 4
     ELSE IF tpc \in {"hook", "closing", "reopen", "reopening", "prompt"} THEN 2
     ELSE IF tpc \in {"boot", "welcome"} THEN WelcomeLength ELSE 0)
RoomInv ==
  /\ arrived <= MaxRx
  /\ accepted + Owed <= WelcomeLength + HookLimit + 4 * MaxRx + 2

\* LineIsWhatWasTyped, with types and the time before the first prompt.
LineInv ==
  /\ line \in Seq(Nat) /\ c \in Nat
  /\ cmd_index \in 0 .. CmdBufSize /\ cmd_buf \in [0 .. CmdBufSize - 1 -> Nat]
  /\ tpc \in {"boot", "welcome"} => cmd_index = 0 /\ line = <<>>
  /\ LineIsWhatWasTyped

TermInv == StreamInv /\ PlaceInv /\ RoomInv /\ LineInv

-----------------------------------------------------------------------------
LEMMA InitTerm == TInit => TermInv
<1> SUFFICES ASSUME TInit PROVE TermInv
  OBVIOUS
<1>1. StreamInv
  BY InitStream DEF TInit
<1>2. PlaceInv
  BY DEF TInit, Init, PlaceInv, Places
<1>3. RoomInv
  BY DEF TInit, Init, RoomInv, Owed
<1>4. LineInv
  BY DEF TInit, LineInv, LineIsWhatWasTyped
<1>5. QED
  BY <1>1, <1>2, <1>3, <1>4 DEF TermInv

\* Facts about numbers that StreamInv has.
LEMMA Numbers ==
  ASSUME StreamInv
  PROVE  /\ sent \in Nat /\ accepted \in Nat /\ taken \in Nat /\ arrived \in Nat
         /\ sent + Len(tdr) <= accepted /\ taken <= arrived
         /\ rx_fifo \in Seq(Nat)
<1>1. /\ sent \in Nat /\ accepted \in Nat /\ taken \in Nat /\ arrived \in Nat /\ lost \in Nat
      /\ tdr \in Seq(Nat) /\ tx_fifo \in Seq(Nat) /\ rdr \in Seq(Nat) /\ rx_fifo \in Seq(Nat)
  BY DEF StreamInv, Types, TypeOK
<1>2. /\ Len(tdr) \in Nat /\ Len(tx_fifo) \in Nat /\ Len(rdr) \in Nat /\ Len(rx_fifo) \in Nat
  BY <1>1
<1>3. /\ Len(tdr) + Len(tx_fifo) = accepted - sent
      /\ arrived = taken + Len(rx_fifo) + Len(rdr) + lost
  BY DEF StreamInv, TxNumbered, RxNumbered
<1>4. QED
  BY <1>1, <1>2, <1>3

\* Each step of the terminal is a call of the stream, a step inside one, of the
\* interrupt or of the peripheral, or leaves the stream alone.
LEMMA StepUsesStream == TermInv /\ [TNext]_allvars => [Next]_vars
<1> SUFFICES ASSUME TermInv, [TNext]_allvars PROVE [Next]_vars
  OBVIOUS
<1>1. /\ accepted \in Nat /\ taken \in Nat /\ taken <= MaxRx
      /\ accepted + Owed <= MaxTx
  <2>1. /\ accepted \in Nat /\ taken \in Nat /\ arrived \in Nat /\ taken <= arrived /\ arrived <= MaxRx
        /\ accepted + Owed <= WelcomeLength + HookLimit + 4 * MaxRx + 2
    BY Numbers DEF TermInv, RoomInv
  <2>2. taken <= MaxRx
    BY <2>1
  <2>3. PICK owed \in Nat : owed = Owed
    <3>1. 4 * (MaxRx - taken) \in Nat
      BY <2>1, <2>2
    <3>2. QED
      BY <3>1 DEF Owed
  <2>4. QED
    BY <2>1, <2>2, <2>3
<1>2. mpc = "idle" => session \in {"closed", "open"}
  BY DEF TermInv, StreamInv, SessionSteps
<1>3. ASSUME NEW n \in 1 .. MaxBlock, accepted + n <= MaxTx, MainAt("idle"), Write(n), Stay
      PROVE  Next
  BY <1>3 DEF Next, Call, Stay
<1>4. CASE Boot
  BY <1>4 DEF Boot, At, MainAt, TermInv, PlaceInv, Next, OpenCall
<1>5. CASE Welcome
  BY <1>1, <1>3, <1>5 DEF Welcome, At, Owed
<1>6. CASE Pop
  BY <1>6 DEF Pop, At, Next, Call, Stay
<1>7. CASE PopNothing \/ Ignored \/ SetBaudrate \/ BaudrateEnd
  BY <1>7 DEF PopNothing, Ignored, SetBaudrate, BaudrateEnd
<1>8. CASE FlushTx \/ HookEnd
  BY <1>8 DEF FlushTx, HookEnd, At, Next, Call, Stay
<1>9. CASE Printable
  BY <1>1, <1>3, <1>9 DEF Printable, At, Owed
<1>10. CASE CarriageReturn
  BY <1>1, <1>3, <1>10 DEF CarriageReturn, At, Owed, NewlineLength
<1>11. CASE HookWrite
  BY <1>1, <1>3, <1>11 DEF HookWrite, At
<1>12. CASE BaudrateClose
  BY <1>2, <1>12 DEF BaudrateClose, At, MainAt, TermInv, PlaceInv, Next, CloseCall
<1>13. CASE BaudrateOpen
  BY <1>13 DEF BaudrateOpen, At, MainAt, TermInv, PlaceInv, Next, OpenCall
<1>14. CASE Prompt
  BY <1>1, <1>3, <1>14 DEF Prompt, At, Owed, PromptLength
<1>15. CASE StreamCall \/ Key \/ TIsr \/ THwTransmit
  BY <1>15 DEF StreamCall, Key, TIsr, THwTransmit, Next, Hw
<1>16. CASE UNCHANGED allvars
  BY <1>16 DEF allvars
<1>17. QED
  BY <1>4, <1>5, <1>6, <1>7, <1>8, <1>9, <1>10, <1>11, <1>12, <1>13, <1>14, <1>15, <1>16
     DEF TNext, Program

\* Most steps move neither the main program inside a call nor the session.
LEMMA PlaceStep == TermInv /\ [TNext]_allvars => PlaceInv'
<1> SUFFICES ASSUME TermInv, [TNext]_allvars PROVE PlaceInv'
  OBVIOUS
<1> USE DEF PlaceInv, Places, At, MainAt
<1>0. PlaceInv /\ (mpc = "idle" => session \in {"closed", "open"})
  BY DEF TermInv, StreamInv, SessionSteps
<1>1. CASE Boot \/ BaudrateOpen
  BY <1>0, <1>1 DEF Boot, BaudrateOpen, OpenReset
<1>2. CASE BaudrateClose
  BY <1>0, <1>2 DEF BaudrateClose, CloseLoad
<1>3. CASE StreamCall
  BY <1>0, <1>3 DEF StreamCall, tvars, Open, Close, OpenIrq, OpenLoad, OpenStore,
                    CloseStore, CloseIrq, CloseDisable
<1>4. CASE Welcome \/ Printable \/ CarriageReturn \/ HookWrite \/ Prompt
  BY <1>0, <1>4 DEF Welcome, Printable, CarriageReturn, HookWrite, Prompt, Write, Stay, tvars
<1>5. CASE Pop \/ FlushTx \/ HookEnd
  BY <1>0, <1>5 DEF Pop, FlushTx, HookEnd, Read, Flush, Stay
<1>6. CASE PopNothing \/ Ignored \/ SetBaudrate \/ BaudrateEnd \/ UNCHANGED allvars
  BY <1>0, <1>6 DEF PopNothing, Ignored, SetBaudrate, BaudrateEnd, allvars, vars, main, tvars
<1>7. CASE Key \/ TIsr \/ THwTransmit
  BY <1>0, <1>7 DEF Key, TIsr, THwTransmit, tvars, Isr, IsrEnter, IsrReceive, IsrTransmit,
                    HwReceive, HwTransmit, main
<1>8. QED
  BY <1>1, <1>2, <1>3, <1>4, <1>5, <1>6, <1>7 DEF TNext, Program

\* A character written was owed, or comes from a hook below its limit.
LEMMA RoomStep == TermInv /\ StreamInv' /\ [TNext]_allvars => RoomInv'
<1> SUFFICES ASSUME TermInv, StreamInv', [TNext]_allvars PROVE RoomInv'
  OBVIOUS
<1>0. /\ sent \in Nat /\ accepted \in Nat /\ taken \in Nat /\ arrived \in Nat
      /\ sent + Len(tdr) <= accepted /\ taken <= arrived /\ arrived <= MaxRx
  BY Numbers DEF TermInv, RoomInv
<1>1. /\ sent' \in Nat /\ accepted' \in Nat /\ taken' \in Nat /\ arrived' \in Nat
      /\ taken' <= arrived'
  <2>1. sent' \in Nat /\ accepted' \in Nat /\ taken' \in Nat /\ arrived' \in Nat
    BY DEF StreamInv, Types, TypeOK
  <2>2. lost' \in Nat /\ Len(rx_fifo') \in Nat /\ Len(rdr') \in Nat
    BY DEF StreamInv, Types
  <2>3. arrived' = taken' + Len(rx_fifo') + Len(rdr') + lost'
    BY DEF StreamInv, RxNumbered
  <2>4. QED
    BY <2>1, <2>2, <2>3
<1>2. ASSUME NEW n \in Nat, Write(n)
      PROVE  accepted' <= accepted + n /\ taken' = taken /\ arrived' = arrived
  BY <1>0, <1>2 DEF Write, rxh
<1> DEFINE rest(place) ==
       IF place = "char" THEN 4
       ELSE IF place \in {"hook", "closing", "reopen", "reopening", "prompt"} THEN 2
       ELSE IF place \in {"boot", "welcome"} THEN WelcomeLength ELSE 0
<1>r. \A place : rest(place) \in Nat
  OBVIOUS
<1>o. Owed = 4 * (MaxRx - taken) + rest(tpc) /\ Owed' = 4 * (MaxRx - taken') + rest(tpc')
  BY DEF Owed
<1>p. PICK a2 \in Nat, t2 \in Nat, r2 \in Nat : a2 = accepted' /\ t2 = taken' /\ r2 = arrived'
  BY <1>1
<1>q. PICK w \in Nat, w2 \in Nat : w = rest(tpc) /\ w2 = rest(tpc')
  BY <1>r
<1> HIDE DEF rest
<1>3. SUFFICES /\ r2 <= MaxRx
               /\ a2 + 4 * (MaxRx - t2) + w2 <= accepted + 4 * (MaxRx - taken) + w \/ HookWrite
  <2>1. accepted + 4 * (MaxRx - taken) + w <= WelcomeLength + HookLimit + 4 * MaxRx + 2
    BY <1>0, <1>o, <1>q DEF TermInv, RoomInv
  <2>2. ASSUME HookWrite PROVE a2 <= HookLimit /\ w2 = 2
    BY <1>0, <1>2, <1>p, <1>q, <2>2 DEF HookWrite, At, tvars, rest
  <2>3. a2 + 4 * (MaxRx - t2) + w2 <= WelcomeLength + HookLimit + 4 * MaxRx + 2
    BY <1>0, <1>3, <2>1, <2>2
  <2>4. QED
    BY <1>o, <1>p, <1>q, <1>3, <2>3 DEF RoomInv
<1>s. ASSUME NEW n \in Nat, a2 <= accepted + n, t2 = taken, r2 = arrived, w2 + n <= w
      PROVE  r2 <= MaxRx /\ a2 + 4 * (MaxRx - t2) + w2 <= accepted + 4 * (MaxRx - taken) + w
  <2>1. PICK a \in Nat, t \in Nat : a = accepted /\ t = taken
    BY <1>0
  <2>2. a2 + w2 <= a + w
    BY <1>p, <1>q, <1>s, <2>1
  <2>3. PICK m \in Int : m = 4 * (MaxRx - t)
    OBVIOUS
  <2>4. a2 + m + w2 <= a + m + w
    BY <1>p, <1>q, <2>2, <2>3
  <2>5. QED
    BY <1>0, <1>s, <2>1, <2>3, <2>4
<1>4. CASE Boot \/ BaudrateOpen
  <2>1. accepted' = sent + Len(tdr) /\ taken' = taken /\ arrived' = arrived
    BY <1>4 DEF Boot, BaudrateOpen, OpenReset
  <2>2. (tpc = "boot" /\ tpc' = "welcome") \/ (tpc = "reopen" /\ tpc' = "reopening")
    BY <1>4 DEF Boot, BaudrateOpen, At
  <2>3. w2 = w
    BY <1>q, <2>2 DEF rest
  <2>4. QED
    BY <1>0, <1>p, <1>q, <2>1, <2>3
<1>5. CASE Welcome
  <2>1. a2 <= accepted + WelcomeLength /\ t2 = taken /\ r2 = arrived
    BY <1>2, <1>p, <1>5 DEF Welcome
  <2>2. tpc = "welcome" /\ tpc' = "flush"
    BY <1>5 DEF Welcome, At
  <2>3. w = WelcomeLength /\ w2 = 0
    BY <1>q, <2>2 DEF rest
  <2>4. QED
    BY <1>s, <2>1, <2>3
<1>6. CASE Printable
  <2>1. a2 <= accepted + 1 /\ t2 = taken /\ r2 = arrived
    BY <1>2, <1>p, <1>6 DEF Printable
  <2>2. tpc = "char" /\ tpc' = "loop"
    BY <1>6 DEF Printable, At
  <2>3. w = 4 /\ w2 = 0
    BY <1>q, <2>2 DEF rest
  <2>4. QED
    BY <1>s, <2>1, <2>3
<1>7. CASE CarriageReturn
  <2>1. a2 <= accepted + 2 /\ t2 = taken /\ r2 = arrived
    BY <1>2, <1>p, <1>7 DEF CarriageReturn, NewlineLength
  <2>2. tpc = "char" /\ tpc' \in {"hook", "prompt"}
    BY <1>7 DEF CarriageReturn, At
  <2>3. w = 4 /\ w2 = 2
    BY <1>q, <2>2 DEF rest
  <2>4. QED
    BY <1>s, <2>1, <2>3
<1>8. CASE Prompt
  <2>1. a2 <= accepted + 2 /\ t2 = taken /\ r2 = arrived
    BY <1>2, <1>p, <1>8 DEF Prompt, PromptLength
  <2>2. tpc = "prompt" /\ tpc' = "loop"
    BY <1>8 DEF Prompt, At
  <2>3. w = 2 /\ w2 = 0
    BY <1>q, <2>2 DEF rest
  <2>4. QED
    BY <1>s, <2>1, <2>3
<1>9. CASE HookWrite
  BY <1>0, <1>2, <1>9, <1>p DEF HookWrite
<1>10. CASE Pop
  <2>1. accepted' = accepted /\ taken' = taken + 1 /\ arrived' = arrived
    BY <1>10 DEF Pop, Read, txh
  <2>2. tpc = "loop" /\ tpc' = "char"
    BY <1>10 DEF Pop, At
  <2>3. w = 0 /\ w2 = 4
    BY <1>q, <2>2 DEF rest
  <2>4. QED
    BY <1>0, <1>p, <1>q, <2>1, <2>3
<1>11. CASE Key
  <2>1. accepted' = accepted /\ taken' = taken /\ arrived' <= MaxRx /\ tpc' = tpc
    BY <1>0, <1>11 DEF Key, HwReceive, txh
  <2>2. QED
    BY <1>0, <1>p, <1>q, <2>1
<1>12. ASSUME accepted' = accepted, taken' = taken, arrived' = arrived, tpc' = tpc
       PROVE  r2 <= MaxRx /\ a2 + 4 * (MaxRx - t2) + w2 <= accepted + 4 * (MaxRx - taken) + w
  BY <1>0, <1>p, <1>q, <1>12
<1>13. CASE StreamCall \/ TIsr \/ THwTransmit \/ UNCHANGED allvars
  BY <1>12, <1>13 DEF StreamCall, TIsr, THwTransmit, allvars, vars, tvars, Open, Close, OpenIrq,
                      OpenLoad, OpenStore, CloseStore, CloseIrq, CloseDisable, Isr, IsrEnter,
                      IsrReceive, IsrTransmit, HwTransmit, txh, rxh
<1>14. CASE PopNothing \/ Ignored \/ SetBaudrate \/ BaudrateEnd \/ FlushTx \/ HookEnd \/ BaudrateClose
  <2>1. accepted' = accepted /\ taken' = taken /\ arrived' = arrived
    BY <1>14 DEF PopNothing, Ignored, SetBaudrate, BaudrateEnd, FlushTx, HookEnd, BaudrateClose,
                 CloseLoad, Flush, vars, txh, rxh
  <2>2. \/ tpc = "loop" /\ tpc' = "flush"
        \/ tpc \in {"char", "flush"} /\ tpc' = "loop"
        \/ tpc = "closing" /\ tpc' = "reopen"
        \/ tpc = "reopening" /\ tpc' = "prompt"
        \/ tpc = "hook" /\ tpc' \in {"prompt", "closing"}
    BY <1>14 DEF PopNothing, Ignored, SetBaudrate, BaudrateEnd, FlushTx, HookEnd, BaudrateClose, At
  <2>3. w2 <= w
    BY <1>q, <2>2 DEF rest
  <2>4. a2 <= accepted + 0 /\ t2 = taken /\ r2 = arrived
    BY <1>0, <1>p, <2>1
  <2>5. w2 + 0 <= w
    BY <1>q, <2>3
  <2>6. QED
    BY <1>s, <2>4, <2>5
<1>15. QED
  BY <1>4, <1>5, <1>6, <1>7, <1>8, <1>9, <1>10, <1>11, <1>13, <1>14 DEF TNext, Program

\* The line and the buffer grow together, while there is room; a hook starts
\* with a line behind it, and the prompt starts a new one.
LEMMA LineStep == TermInv /\ [TNext]_allvars => LineInv'
<1> SUFFICES ASSUME TermInv, [TNext]_allvars PROVE LineInv'
  OBVIOUS
<1>0. LineInv /\ rx_fifo \in Seq(Nat)
  BY Numbers DEF TermInv
<1>1. /\ line \in Seq(Nat) /\ c \in Nat /\ Len(line) \in Nat
      /\ cmd_index \in 0 .. CmdBufSize /\ cmd_buf \in [0 .. CmdBufSize - 1 -> Nat]
      /\ CmdBufSize \in Nat \ {0}
  BY <1>0 DEF LineInv
<1>2. ASSUME UNCHANGED <<c, cmd_buf, cmd_index, line>>,
             \/ tpc' = tpc
             \/ tpc' \in {"closing", "reopen", "reopening", "prompt"}
             \/ tpc = "boot" /\ tpc' = "welcome"
             \/ tpc = "welcome" /\ tpc' = "flush"
             \/ tpc \in {"flush", "loop"} /\ tpc' \in {"flush", "loop"}
      PROVE  LineInv'
  BY <1>0, <1>1, <1>2 DEF LineInv, LineIsWhatWasTyped
<1>3. CASE Boot \/ Welcome \/ PopNothing \/ FlushTx \/ HookWrite \/ HookEnd
           \/ BaudrateClose \/ BaudrateOpen \/ BaudrateEnd
  BY <1>2, <1>3 DEF Boot, Welcome, PopNothing, FlushTx, HookWrite, HookEnd, BaudrateClose,
                    BaudrateOpen, BaudrateEnd, local, tvars, At
<1>4. CASE StreamCall \/ Key \/ TIsr \/ THwTransmit \/ UNCHANGED allvars
  BY <1>2, <1>4 DEF StreamCall, Key, TIsr, THwTransmit, allvars, tvars
<1>5. CASE Pop
  <2>1. c' \in Nat /\ tpc = "loop" /\ tpc' = "char" /\ UNCHANGED <<cmd_buf, cmd_index, line>>
    BY <1>0, <1>5 DEF Pop, At, Read
  <2>2. QED
    BY <1>0, <1>1, <2>1 DEF LineInv, LineIsWhatWasTyped
<1>6. CASE Printable
  <2>1. /\ cmd_index < CmdBufSize /\ cmd_index = Len(line)
        /\ \A k \in 1 .. cmd_index : cmd_buf[k - 1] = line[k]
    BY <1>0, <1>1, <1>6 DEF Printable, At, LineInv, LineIsWhatWasTyped
  <2>2. /\ line' = Append(line, c) /\ cmd_index' = cmd_index + 1 /\ c' = c
        /\ cmd_buf' = [cmd_buf EXCEPT ![cmd_index] = c] /\ tpc' = "loop"
    BY <1>6 DEF Printable
  <2>3. /\ line' \in Seq(Nat) /\ Len(line') = Len(line) + 1
        /\ cmd_index' \in 0 .. CmdBufSize /\ cmd_buf' \in [0 .. CmdBufSize - 1 -> Nat]
    BY <1>1, <2>1, <2>2
  <2>4. cmd_index' = IF Len(line') < CmdBufSize THEN Len(line') ELSE CmdBufSize
    BY <1>1, <2>1, <2>2, <2>3
  <2>5. ASSUME NEW k \in 1 .. cmd_index' PROVE cmd_buf'[k - 1] = line'[k]
    <3>1. CASE k = cmd_index + 1
      BY <1>1, <2>1, <2>2, <3>1
    <3>2. CASE k # cmd_index + 1
      <4>1. k \in 1 .. cmd_index /\ k - 1 # cmd_index /\ k - 1 \in 0 .. CmdBufSize - 1
        BY <1>1, <2>1, <2>2, <2>5, <3>2
      <4>2. line'[k] = line[k] /\ cmd_buf'[k - 1] = cmd_buf[k - 1]
        BY <1>1, <2>1, <2>2, <4>1
      <4>3. QED
        BY <2>1, <4>1, <4>2
    <3>3. QED
      BY <3>1, <3>2
  <2>6. QED
    BY <1>1, <2>2, <2>3, <2>4, <2>5 DEF LineInv, LineIsWhatWasTyped
<1>7. CASE Ignored
  <2>1. tpc = "char" /\ tpc' = "loop" /\ UNCHANGED <<c, cmd_buf, cmd_index>>
    BY <1>7 DEF Ignored, At
  <2>2. CASE UNCHANGED line
    BY <1>0, <1>1, <2>1, <2>2 DEF LineInv, LineIsWhatWasTyped
  <2>3. CASE cmd_index >= CmdBufSize /\ line' = Append(line, c)
    <3>1. /\ cmd_index = CmdBufSize /\ Len(line) >= CmdBufSize
          /\ \A k \in 1 .. cmd_index : cmd_buf[k - 1] = line[k]
      BY <1>0, <1>1, <2>1, <2>3 DEF LineInv, LineIsWhatWasTyped
    <3>2. /\ line' \in Seq(Nat) /\ Len(line') = Len(line) + 1
          /\ \A k \in 1 .. cmd_index : line'[k] = line[k]
      BY <1>1, <2>3, <3>1
    <3>3. cmd_index' = IF Len(line') < CmdBufSize THEN Len(line') ELSE CmdBufSize
      BY <1>1, <2>1, <3>1, <3>2
    <3>4. \A k \in 1 .. cmd_index' : cmd_buf'[k - 1] = line'[k]
      BY <2>1, <3>1, <3>2
    <3>5. QED
      BY <1>1, <2>1, <3>2, <3>3, <3>4 DEF LineInv, LineIsWhatWasTyped
  <2>4. QED
    BY <1>7, <2>2, <2>3 DEF Ignored
<1>8. CASE CarriageReturn
  <2>1. /\ cmd_index = IF Len(line) < CmdBufSize THEN Len(line) ELSE CmdBufSize
        /\ \A k \in 1 .. cmd_index : cmd_buf[k - 1] = line[k]
    BY <1>0, <1>8 DEF CarriageReturn, At, LineInv, LineIsWhatWasTyped
  <2>2. /\ cmd_index' \in {0, cmd_index} /\ UNCHANGED <<c, cmd_buf, line>>
        /\ tpc' = IF cmd_index' > 0 THEN "hook" ELSE "prompt"
    BY <1>8 DEF CarriageReturn, Terminated
  <2>3. CASE cmd_index' = 0
    BY <1>1, <2>2, <2>3 DEF LineInv, LineIsWhatWasTyped
  <2>4. CASE cmd_index' = cmd_index /\ cmd_index # 0
    <3>1. Len(line) # 0 /\ cmd_index <= Len(line)
      BY <1>1, <2>1, <2>4
    <3>2. line # <<>>
      BY <3>1
    <3>3. tpc' = "hook"
      BY <1>1, <2>2, <2>4
    <3>4. QED
      BY <1>1, <2>1, <2>2, <2>4, <3>1, <3>2, <3>3 DEF LineInv, LineIsWhatWasTyped
  <2>5. QED
    BY <2>2, <2>3, <2>4
<1>9. CASE SetBaudrate
  BY <1>1, <1>9 DEF SetBaudrate, LineInv, LineIsWhatWasTyped
<1>10. CASE Prompt
  <2>1. cmd_index' = 0 /\ line' = <<>> /\ tpc' = "loop" /\ UNCHANGED <<c, cmd_buf>>
    BY <1>10 DEF Prompt
  <2>2. QED
    BY <1>1, <2>1 DEF LineInv, LineIsWhatWasTyped
<1>11. QED
  BY <1>3, <1>4, <1>5, <1>6, <1>7, <1>8, <1>9, <1>10 DEF TNext, Program

-----------------------------------------------------------------------------
LEMMA NextTerm == TermInv /\ [TNext]_allvars => TermInv'
<1> SUFFICES ASSUME TermInv, [TNext]_allvars PROVE TermInv'
  OBVIOUS
<1>1. StreamInv'
  BY StepUsesStream, NextStream DEF TermInv
<1>2. PlaceInv' /\ RoomInv' /\ LineInv'
  BY <1>1, PlaceStep, RoomStep, LineStep
<1>3. QED
  BY <1>1, <1>2 DEF TermInv

\* The inductive invariant of terminal and stream together.
THEOREM TerminalInvariance == TSpec => []TermInv
<1>1. TInit => TermInv
  BY InitTerm
<1>2. TermInv /\ [TNext]_allvars => TermInv'
  BY NextTerm
<1>3. QED
  BY <1>1, <1>2, PTL DEF TSpec

\* The main loop, hooks that close and reopen the stream included, calls open()
\* only on a closed stream and close() only on an open one, and never while
\* either runs.
THEOREM TerminalUsesStream == TSpec => UsesStream
<1>1. TermInv /\ [TNext]_allvars => [Next]_vars
  BY StepUsesStream
<1>2. QED
  BY <1>1, TerminalInvariance, PTL DEF TSpec, UsesStream

\* So the terminal is one of the main programs UsartStream allows, and what is
\* proved of that holds under it.
THEOREM TerminalIsMainProgram == TSpec => Spec
<1>1. TInit => Init
  BY DEF TInit
<1>2. TermInv /\ [TNext]_allvars => [Next]_vars
  BY StepUsesStream
<1>3. QED
  BY <1>1, <1>2, TerminalInvariance, PTL DEF TSpec, Spec

\* What process_input(), echo and hooks write reaches the wire in order, across
\* a close() and open() in the middle of a command.
THEOREM TerminalBytesInOrder == TSpec => []TxInOrder
<1>1. QED
  BY TerminalIsMainProgram, BytesInOrder, PTL

\* While the baudrate hook has the stream closed it is silent, and it listens
\* again when the prompt is written.
THEOREM TerminalSession == TSpec => []SessionBits
<1>1. QED
  BY TerminalIsMainProgram, SessionIsRight, PTL

\* The command process_input() passes to a hook is the line typed since the last
\* prompt, cut to cmd_buf_size, although terminating a full buffer writes past it.
THEOREM TypedLine == TSpec => []LineIsWhatWasTyped
<1>1. TermInv => LineIsWhatWasTyped
  BY DEF TermInv, LineInv
<1>2. QED
  BY <1>1, TerminalInvariance, PTL
=============================================================================
