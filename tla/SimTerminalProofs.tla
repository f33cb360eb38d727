------------------------- MODULE SimTerminalProofs -------------------------
(***************************************************************************)
(* Proofs about SimTerminal: the reactions to stores of CR1 keep one       *)
(* printing thread and, while the terminal is open, one that listens; and  *)
(* the one printing thread prints the bytes of the first session in order. *)
(* For any number of threads, keys and sessions.                           *)
(***************************************************************************)
EXTENDS SimTerminal, Integers, FiniteSetTheorems, TLAPS

-----------------------------------------------------------------------------
(* The inductive invariant, in parts. *)

Reacting == {"react_rx", "start_rx", "react_tx", "start_tx"}
Returns == {"closed", "open_store", "open", "close_ue"}
Closed == {"closed", "open_tx", "open_rx", "open_rx_read", "open_ue", "open_store", "close_ue"}

\* Where the main program and the threads are; what a reaction was entered for.
SimPlaces ==
  /\ mpc \in Closed \cup Reacting \cup {"open"} /\ return \in Returns
  /\ DOMAIN rx_thread = Threads /\ DOMAIN tx_thread = Threads

\* TXEIE is never cleared, so that the printing thread is never asked to end;
\* none runs before TXEIE is set and the reaction to that has started one.
TxInv ==
  /\ ~terminal_tx_thread_terminate
  /\ "TXEIE" \in old_value => "TXEIE" \in cr1
  /\ mpc = "start_tx" => "TXEIE" \in cr1 \ old_value
  /\ \A t, u \in Running(tx_thread) : t = u
  /\ "TXEIE" \notin cr1 \/ (mpc \in Reacting /\ "TXEIE" \notin old_value)
       => Running(tx_thread) = {}

Listening == Running(rx_thread) # {} /\ ~terminal_rx_thread_terminate

\* RXNEIE is set behind open() until close(), and once the reaction to that is
\* over somebody listens.
RxInv ==
  /\ mpc \in Closed => "RXNEIE" \notin cr1
  /\ mpc = "open" => "RXNEIE" \in cr1 /\ Listening
  /\ mpc \in Reacting => ("RXNEIE" \in cr1 <=> return = "open")
  /\ mpc = "react_rx" /\ "RXNEIE" \in cr1 /\ "RXNEIE" \in old_value => Listening
  /\ mpc = "start_rx" => "RXNEIE" \in cr1 /\ ~terminal_rx_thread_terminate
  /\ mpc \in {"react_tx", "start_tx"} /\ "RXNEIE" \in cr1 => Listening

SimInv == SimPlaces /\ TxInv /\ RxInv

-----------------------------------------------------------------------------
LEMMA InitSim == Init => SimInv
BY DEF Init, SimInv, SimPlaces, Closed, Reacting, Returns, TxInv, RxInv, Running

\* The steps of the threads leave the main program and the flags alone.
LEMMA ThreadStep ==
  ASSUME SimInv, NEW t \in Threads, RxThread(t) \/ TxThread(t)
  PROVE  SimInv'
<1>0. UNCHANGED <<mainv, flagv>>
  BY DEF RxThread, RxLook, RxNothing, RxKey, RxPushLoad, RxPushFill, RxPublish, RxStep,
         TxThread, TxLook, TxPopLoad, TxEmpty, TxPopTest, TxPopRead, TxRelease, TxStep
<1>1. ASSUME RxThread(t), ~terminal_rx_thread_terminate
      PROVE  Running(rx_thread)' = Running(rx_thread)
  <2>1. PICK pc, next \in {"loop", "poll", "push", "fill", "publish"} :
          rx_thread[t] = pc /\ rx_thread' = [rx_thread EXCEPT ![t] = next]
    BY <1>1 DEF RxThread, RxLook, RxNothing, RxKey, RxPushLoad, RxPushFill, RxPublish, RxStep
  <2>2. \A u \in Threads : rx_thread[u] \in {"none", "ended"} <=> rx_thread'[u] \in {"none", "ended"}
    BY <2>1 DEF SimInv, SimPlaces
  <2>3. QED
    BY <2>2 DEF Running
<1>2. ASSUME TxThread(t)
      PROVE  Running(tx_thread)' = Running(tx_thread)
  <2>1. PICK pc, next \in {"loop", "pop", "test", "read", "release"} :
          tx_thread[t] = pc /\ tx_thread' = [tx_thread EXCEPT ![t] = next]
    BY <1>2 DEF TxThread, TxLook, TxPopLoad, TxEmpty, TxPopTest, TxPopRead, TxRelease, TxStep,
                SimInv, TxInv
  <2>2. \A u \in Threads : tx_thread[u] \in {"none", "ended"} <=> tx_thread'[u] \in {"none", "ended"}
    BY <2>1 DEF SimInv, SimPlaces
  <2>3. QED
    BY <2>2 DEF Running
<1>3. RxThread(t) => tx_thread' = tx_thread /\ DOMAIN rx_thread' = DOMAIN rx_thread
  BY DEF RxThread, RxLook, RxNothing, RxKey, RxPushLoad, RxPushFill, RxPublish, RxStep
<1>4. TxThread(t) => rx_thread' = rx_thread /\ DOMAIN tx_thread' = DOMAIN tx_thread
  BY DEF TxThread, TxLook, TxPopLoad, TxEmpty, TxPopTest, TxPopRead, TxRelease, TxStep
<1>5. Running(tx_thread)' = Running(tx_thread)
  BY <1>2, <1>3 DEF Running
<1>6. Listening => Listening'
  BY <1>0, <1>1, <1>4 DEF Listening, Running, flagv
<1>7. QED
  BY <1>0, <1>3, <1>4, <1>5, <1>6 DEF SimInv, SimPlaces, TxInv, RxInv, mainv, flagv

\* A store of CR1 that clears TXEIE does not happen, and open() and close()
\* alone change RXNEIE.
LEMMA StoreStep ==
  ASSUME SimInv, NEW bits, NEW next \in Returns, mpc \in Closed \cup {"open"},
         Store(bits, next),
         "TXEIE" \in cr1 => "TXEIE" \in bits,
         "RXNEIE" \in bits <=> next = "open"
  PROVE  SimInv'
<1>1. /\ cr1' = bits /\ old_value' = cr1 /\ mpc' = "react_rx" /\ return' = next
      /\ UNCHANGED <<flagv, rx_thread, tx_thread>>
  BY DEF Store, threadv
<1>2. Running(tx_thread)' = Running(tx_thread) /\ (Listening' <=> Listening)
  BY <1>1 DEF Running, Listening, flagv
<1>3. SimPlaces'
  BY <1>1 DEF SimInv, SimPlaces, Reacting
<1>4. TxInv'
  BY <1>1, <1>2 DEF SimInv, TxInv, flagv, Closed, Reacting
<1>5. RxInv'
  BY <1>1, <1>2 DEF SimInv, RxInv, Closed, Reacting
<1>6. QED
  BY <1>3, <1>4, <1>5 DEF SimInv

\* The reaction to RXNEIE: a thread is let run before it is started.
LEMMA ReactRxStep ==
  ASSUME SimInv, ReactRx \/ StartRx
  PROVE  SimInv'
<1>1. CASE ReactRx
  <2>1. UNCHANGED <<cr1, old_value, return, terminal_tx_thread_terminate, rx_thread, tx_thread>>
    BY <1>1 DEF ReactRx, threadv
  <2>2. mpc = "react_rx" /\ mpc' = IF "RXNEIE" \in cr1 \ old_value THEN "start_rx" ELSE "react_tx"
    BY <1>1 DEF ReactRx, bits_set
  <2>3. Running(tx_thread)' = Running(tx_thread) /\ Running(rx_thread)' = Running(rx_thread)
    BY <2>1 DEF Running
  <2>4. "RXNEIE" \in cr1 =>
          (terminal_rx_thread_terminate' <=>
             "RXNEIE" \in old_value /\ terminal_rx_thread_terminate)
    BY <1>1 DEF ReactRx, bits_set, bits_cleared, SimInv, RxInv
  <2>5. SimPlaces' /\ TxInv'
    BY <2>1, <2>2, <2>3 DEF SimInv, SimPlaces, TxInv, Reacting, Closed
  <2>6. RxInv'
    BY <2>1, <2>2, <2>3, <2>4 DEF SimInv, RxInv, Listening, Reacting, Closed
  <2>7. QED
    BY <2>5, <2>6 DEF SimInv
<1>2. CASE StartRx
  <2>1. UNCHANGED <<cr1, old_value, return, flagv, tx_thread>> /\ mpc = "start_rx" /\ mpc' = "react_tx"
    BY <1>2 DEF StartRx
  <2>2. PICK t \in Threads : rx_thread' = [rx_thread EXCEPT ![t] = "loop"]
    BY <1>2 DEF StartRx
  <2>3. t \in Running(rx_thread)' /\ DOMAIN rx_thread' = Threads
    BY <2>2 DEF Running, SimInv, SimPlaces
  <2>4. Running(tx_thread)' = Running(tx_thread)
    BY <2>1 DEF Running
  <2>5. SimPlaces' /\ TxInv'
    BY <2>1, <2>3, <2>4 DEF SimInv, SimPlaces, TxInv, Reacting, Closed, flagv
  <2>6. RxInv'
    BY <2>1, <2>3 DEF SimInv, RxInv, Listening, Reacting, Closed, flagv
  <2>7. QED
    BY <2>5, <2>6 DEF SimInv
<1>3. QED
  BY <1>1, <1>2

\* The reaction to TXEIE starts a thread only if TXEIE was not set before, when
\* there is none.
LEMMA ReactTxStep ==
  ASSUME SimInv, ReactTx \/ StartTx
  PROVE  SimInv'
<1>1. UNCHANGED <<cr1, old_value, return, terminal_rx_thread_terminate, rx_thread>>
  BY DEF ReactTx, StartTx, threadv, flagv
<1>2. mpc \in {"react_tx", "start_tx"} /\ mpc' \in {"start_tx", return}
  BY DEF ReactTx, StartTx
<1>3. Listening' <=> Listening
  BY <1>1 DEF Listening, Running
<1>4. RxInv'
  BY <1>1, <1>2, <1>3 DEF SimInv, SimPlaces, RxInv, Reacting, Returns, Closed
<1>5. CASE ReactTx
  <2>1. tx_thread' = tx_thread
    BY <1>5 DEF ReactTx, threadv
  <2>2. mpc' = IF "TXEIE" \in cr1 \ old_value THEN "start_tx" ELSE return
    BY <1>5 DEF ReactTx, bits_set
  <2>3. ~terminal_tx_thread_terminate'
    BY <1>5 DEF ReactTx, bits_set, bits_cleared, SimInv, TxInv
  <2>4. Running(tx_thread)' = Running(tx_thread)
    BY <2>1 DEF Running
  <2>5. SimPlaces' /\ TxInv'
    BY <1>1, <1>2, <2>1, <2>2, <2>3, <2>4 DEF SimInv, SimPlaces, TxInv, Reacting, Returns, Closed
  <2>6. QED
    BY <1>4, <2>5 DEF SimInv
<1>6. CASE StartTx
  <2>1. PICK t \in Threads : tx_thread' = [tx_thread EXCEPT ![t] = "loop"]
    BY <1>6 DEF StartTx
  <2>2. /\ mpc = "start_tx" /\ mpc' = return
        /\ terminal_tx_thread_terminate' = terminal_tx_thread_terminate
    BY <1>6 DEF StartTx, flagv
  <2>3. Running(tx_thread) = {} /\ "TXEIE" \in cr1
    BY <2>2 DEF SimInv, TxInv, Reacting
  <2>4. Running(tx_thread)' = {t} /\ DOMAIN tx_thread' = Threads
    BY <2>1, <2>3 DEF Running, SimInv, SimPlaces
  <2>5. SimPlaces' /\ TxInv'
    BY <1>1, <2>2, <2>3, <2>4 DEF SimInv, SimPlaces, TxInv, Reacting, Returns, Closed
  <2>6. QED
    BY <1>4, <2>5 DEF SimInv
<1>7. QED
  BY <1>5, <1>6

LEMMA NextSim == SimInv /\ [Next]_vars => SimInv'
<1> SUFFICES ASSUME SimInv, [Next]_vars PROVE SimInv'
  OBVIOUS
<1>1. CASE React
  BY <1>1, ReactRxStep, ReactTxStep DEF React
<1>2. CASE OpenEnable \/ OpenStore \/ CloseStore \/ CloseDisable \/ Flush
  <2>1. CASE OpenEnable
    BY <2>1, StoreStep DEF OpenEnable, Returns, Closed, SimInv, RxInv
  <2>2. CASE OpenStore
    BY <2>2, StoreStep DEF OpenStore, OpenBits, Returns, Closed
  <2>3. CASE CloseStore
    BY <2>3, StoreStep DEF CloseStore, OpenBits, Returns
  <2>4. CASE CloseDisable
    BY <2>4, StoreStep DEF CloseDisable, Returns, Closed, SimInv, RxInv
  <2>5. CASE Flush
    BY <2>5, StoreStep DEF Flush, Returns, SimInv, RxInv
  <2>6. QED
    BY <1>2, <2>1, <2>2, <2>3, <2>4, <2>5
<1>3. CASE OpenTxWrite \/ OpenTxRead \/ OpenRxWrite \/ OpenRxRead
  <2>1. /\ mpc \in Closed /\ mpc' \in Closed /\ mpc' \notin Reacting
        /\ UNCHANGED <<cr1, old_value, return, flagv, rx_thread, tx_thread>>
    BY <1>3 DEF OpenTxWrite, OpenTxRead, OpenRxWrite, OpenRxRead, ResetStep, threadv, Closed, Reacting
  <2>2. QED
    BY <2>1 DEF SimInv, SimPlaces, TxInv, RxInv, Running, Listening, Closed, Reacting, flagv
<1>4. CASE Write \/ Read \/ UNCHANGED vars
  <2>1. UNCHANGED <<cr1, old_value, mpc, return, flagv, rx_thread, tx_thread>>
    BY <1>4 DEF Write, Read, vars, mainv, threadv
  <2>2. QED
    BY <2>1 DEF SimInv, SimPlaces, TxInv, RxInv, Running, Listening, flagv
<1>5. CASE \E t \in Threads : RxThread(t) \/ TxThread(t)
  BY <1>5, ThreadStep
<1>6. QED
  BY <1>1, <1>2, <1>3, <1>4, <1>5 DEF Next, OpenCall, Open, CloseCall, Close

-----------------------------------------------------------------------------
\* The inductive invariant of the simulated terminal.
THEOREM SimInvariance == Spec => []SimInv
<1>1. Init => SimInv
  BY InitSim
<1>2. SimInv /\ [Next]_vars => SimInv'
  BY NextSim
<1>3. QED
  BY <1>1, <1>2, PTL DEF Spec

\* However often the terminal is closed, opened and flushed, the simulation runs
\* at most one printing thread: tx_fifo keeps its single reader.
THEOREM SingleReader == Spec => []OneTxThread
<1>1. SimInv => OneTxThread
  <2> SUFFICES ASSUME SimInv PROVE OneTxThread
    OBVIOUS
  <2>1. CASE Running(tx_thread) = {}
    BY <2>1, FS_EmptySet DEF OneTxThread
  <2>2. CASE Running(tx_thread) # {}
    <3>1. PICK t : Running(tx_thread) = {t}
      BY <2>2 DEF SimInv, TxInv
    <3>2. Cardinality({t}) = 1
      BY FS_Singleton
    <3>3. QED
      BY <3>1, <3>2 DEF OneTxThread
  <2>3. QED
    BY <2>1, <2>2
<1>2. QED
  BY <1>1, SimInvariance, PTL

\* A close() that asked the polling threads to end does not leave the next
\* session deaf: react() takes the flag back before it starts a thread.
THEOREM OpenListens == Spec => []ListensWhileOpen
<1>1. SimInv => ListensWhileOpen
  BY DEF SimInv, RxInv, Listening, ListensWhileOpen
<1>2. QED
  BY <1>1, SimInvariance, PTL

-----------------------------------------------------------------------------
(* The queue of the bytes to print, in the first session. *)

QueueTypes ==
  /\ accepted \in Nat /\ printed \in Nat /\ sessions \in Nat
  /\ tx_fifo \in [w : Slots, r : Slots, buf : [Slots -> Nat]]
  /\ "tx" \in DOMAIN index /\ index.tx \in [Threads -> Slots]
  /\ char \in [Threads -> Nat]
  /\ tx_thread \in [Threads -> {"none", "loop", "pop", "test", "read", "release", "ended"}]

\* Nothing is written before open() is over.
UnwrittenInv ==
  /\ sessions = 0 => mpc = "closed" /\ accepted = 0
  /\ sessions = 1 /\ mpc = "open_tx" => accepted = 0

\* Byte k + 1 is in slot k, round the buffer, until it is printed.
QueueInv ==
  /\ printed <= accepted /\ accepted < printed + Size
  /\ tx_fifo.w = accepted % Size /\ tx_fifo.r = printed % Size
  /\ \A k \in printed .. accepted - 1 : tx_fifo.buf[k % Size] = k + 1

\* The index a printing thread has loaded is one the queue has had since the
\* byte printed last; what it has taken out is the next one.
TakenInv(t) ==
  /\ tx_thread[t] = "test" => \E n \in printed .. accepted : index.tx[t] = n % Size
  /\ tx_thread[t] \in {"read", "release"} =>
       printed < accepted /\ index.tx[t] = printed % Size
  /\ tx_thread[t] = "release" => char[t] = printed + 1

PrintInv ==
  /\ QueueTypes /\ UnwrittenInv
  /\ sessions <= 1 => QueueInv /\ \A t \in Threads : TakenInv(t)

-----------------------------------------------------------------------------
\* A number is in a slot, some rounds round the buffer.
LEMMA Division ==
  ASSUME NEW n \in Nat
  PROVE  /\ n % Size \in Slots
         /\ \E q \in Nat : n = Size * q + (n % Size)
<1>1. PICK s \in Nat \ {0} : s = Size
  BY SimSizeAssumption
<1>2. PICK q \in Int, m \in Int : q = n \div s /\ m = n % s
  OBVIOUS
<1>3. n = s * q + m /\ 0 <= m /\ m < s
  BY <1>2
<1>4. q >= 0
  <2>1. SUFFICES ASSUME q + 1 <= 0 PROVE FALSE
    BY <1>2
  <2>2. s * (q + 1) = s * q + s /\ s * (q + 1) <= 0
    BY <2>1
  <2>3. QED
    BY <1>3, <2>2
<1>5. m \in 0 .. s - 1 /\ q \in Nat
  BY <1>3, <1>4
<1>6. n % Size \in Slots
  BY <1>1, <1>2, <1>5 DEF Slots
<1>7. n = Size * q + (n % Size)
  BY <1>1, <1>2, <1>3
<1>8. QED
  BY <1>5, <1>6, <1>7

\* Numbers less than a round apart are in the same slot only if they are equal.
LEMMA SlotsApart ==
  ASSUME NEW a \in Nat, NEW b \in Nat, a <= b, b < a + Size, a % Size = b % Size
  PROVE  a = b
<1>1. PICK s \in Nat \ {0}, m \in Nat : s = Size /\ m = a % Size
  <2>1. a % Size \in Slots /\ Size \in Nat \ {0}
    BY SimSizeAssumption, Division
  <2>2. a % Size \in Nat
    BY <2>1 DEF Slots
  <2>3. QED
    BY <2>1, <2>2
<1>2. PICK p \in Nat : a = s * p + m
  BY <1>1, Division
<1>3. PICK q \in Nat : b = s * q + m
  BY <1>1, Division
<1>4. 0 <= s * (q - p) /\ s * (q - p) < s
  BY <1>1, <1>2, <1>3
<1>5. q = p
  <2>1. CASE q - p >= 1
    BY <1>4, <2>1
  <2>2. CASE q - p <= -1
    BY <1>4, <2>2
  <2>3. QED
    BY <2>1, <2>2
<1>6. QED
  BY <1>2, <1>3, <1>5

\* A slot is that of the number it is in after any number of rounds.
LEMMA SlotOf ==
  ASSUME NEW q \in Nat, NEW m \in Slots
  PROVE  (Size * q + m) % Size = m
<1>1. PICK s \in Nat \ {0} : s = Size
  BY SimSizeAssumption
<1>2. PICK n \in Nat : n = s * q + m
  BY <1>1 DEF Slots
<1>3. PICK k \in Nat : k = n % s /\ k < s
  BY <1>1, <1>2, Division DEF Slots
<1>4. PICK p \in Nat : n = s * p + k
  BY <1>1, <1>2, <1>3, Division
<1>5. m \in Nat /\ m < s
  BY <1>1 DEF Slots
<1>6. s * (q - p) = k - m
  BY <1>2, <1>4, <1>5
<1>7. q = p
  <2>1. CASE q - p >= 1
    BY <1>3, <1>5, <1>6, <2>1
  <2>2. CASE q - p <= -1
    BY <1>3, <1>5, <1>6, <2>2
  <2>3. QED
    BY <2>1, <2>2
<1>8. QED
  BY <1>1, <1>2, <1>3, <1>4, <1>5, <1>7

\* increment() goes to the slot of the next number.
LEMMA NextSlot ==
  ASSUME NEW n \in Nat
  PROVE  increment(n % Size) = (n + 1) % Size
<1>1. PICK s \in Nat \ {0, 1}, m \in Slots : s = Size /\ m = n % Size
  BY SimSizeAssumption, Division
<1>2. PICK q \in Nat : n = s * q + m
  BY <1>1, Division
<1>3. m \in Nat /\ m < s
  BY <1>1 DEF Slots
<1>4. CASE m + 1 < s
  <2>1. m + 1 \in Slots /\ n + 1 = s * q + (m + 1)
    BY <1>1, <1>2, <1>3, <1>4 DEF Slots
  <2>2. (n + 1) % s = m + 1
    BY <1>1, <2>1, SlotOf
  <2>3. (m + 1) % s = m + 1
    BY <1>3, <1>4
  <2>4. QED
    BY <1>1, <2>2, <2>3 DEF increment
<1>5. CASE m + 1 = s
  <2>1. 0 \in Slots /\ q + 1 \in Nat
    BY <1>1 DEF Slots
  <2>2. n + 1 = s * (q + 1) + 0
    BY <1>2, <1>3, <1>5
  <2>3. (n + 1) % s = 0
    BY <1>1, <2>1, <2>2, SlotOf
  <2>4. (m + 1) % s = 0
    BY <1>1, <1>5
  <2>5. QED
    BY <1>1, <2>3, <2>4 DEF increment
<1>6. QED
  BY <1>3, <1>4, <1>5

\* The slot a round on is the same.
LEMMA RoundSlot ==
  ASSUME NEW n \in Nat
  PROVE  (n + Size) % Size = n % Size
<1>1. PICK s \in Nat \ {0}, m \in Slots : s = Size /\ m = n % Size
  BY SimSizeAssumption, Division
<1>2. PICK q \in Nat : n = s * q + m
  BY <1>1, Division
<1>3. n + s = s * (q + 1) + m
  BY <1>1, <1>2 DEF Slots
<1>4. (s * (q + 1) + m) % s = m
  <2>1. q + 1 \in Nat
    OBVIOUS
  <2>2. (Size * (q + 1) + m) % Size = m
    BY <2>1, SlotOf
  <2>3. QED
    BY <1>1, <2>2
<1>5. QED
  BY <1>1, <1>3, <1>4

-----------------------------------------------------------------------------
LEMMA InitPrint == Init => PrintInv
<1> SUFFICES ASSUME Init PROVE PrintInv
  OBVIOUS
<1>1. 0 \in Slots /\ 0 % Size = 0
  BY SimSizeAssumption DEF Slots
<1>2. QueueTypes /\ UnwrittenInv
  BY <1>1 DEF Init, QueueTypes, UnwrittenInv
<1>3. QueueInv
  BY <1>1, SimSizeAssumption DEF Init, QueueInv
<1>4. \A t \in Threads : TakenInv(t)
  BY DEF Init, TakenInv
<1>5. QED
  BY <1>2, <1>3, <1>4 DEF PrintInv

\* A byte is written behind those that wait, to a slot none of them is in.
LEMMA WritePrint ==
  ASSUME PrintInv, Write
  PROVE  PrintInv'
<1>0. /\ accepted' = accepted + 1 /\ mpc = "open" /\ mpc' = "open"
      /\ UNCHANGED <<printed, sessions, index, char, tx_thread>>
      /\ increment(tx_fifo.w) # tx_fifo.r
      /\ tx_fifo' = [tx_fifo EXCEPT !.buf[tx_fifo.w] = accepted + 1, !.w = increment(tx_fifo.w)]
  BY DEF Write, mainv, threadv
<1>1. /\ accepted \in Nat /\ printed \in Nat /\ sessions \in Nat
      /\ tx_fifo \in [w : Slots, r : Slots, buf : [Slots -> Nat]]
  BY DEF PrintInv, QueueTypes
<1>2. \A s \in Slots : increment(s) \in Slots
  BY SimSizeAssumption DEF increment, Slots
<1>3. /\ tx_fifo'.w = increment(tx_fifo.w) /\ tx_fifo'.r = tx_fifo.r
      /\ tx_fifo'.buf = [tx_fifo.buf EXCEPT ![tx_fifo.w] = accepted + 1]
      /\ tx_fifo' \in [w : Slots, r : Slots, buf : [Slots -> Nat]]
  <2>1. PICK w \in Slots, r \in Slots, b \in [Slots -> Nat] : tx_fifo = [w |-> w, r |-> r, buf |-> b]
    BY <1>1
  <2>2. PICK v \in Slots, c \in Nat : v = increment(w) /\ c = accepted + 1
    BY <1>1, <1>2
  <2>3. tx_fifo' = [w |-> v, r |-> r, buf |-> [b EXCEPT ![w] = c]]
    BY <1>0, <2>1, <2>2
  <2>4. [b EXCEPT ![w] = c] \in [Slots -> Nat]
    OBVIOUS
  <2>5. QED
    BY <2>1, <2>2, <2>3, <2>4
<1>4. QueueTypes'
  BY <1>0, <1>1, <1>3 DEF PrintInv, QueueTypes
<1>5. UnwrittenInv'
  BY <1>0, <1>1 DEF PrintInv, UnwrittenInv
<1>6. ASSUME sessions <= 1
      PROVE  QueueInv' /\ \A t \in Threads : TakenInv(t)'
  <2>1. QueueInv /\ \A t \in Threads : TakenInv(t)
    BY <1>6 DEF PrintInv
  <2>2. increment(tx_fifo.w) = (accepted + 1) % Size
    BY <1>1, <2>1, NextSlot DEF QueueInv
  <2>3. accepted + 1 # printed + Size
    BY <1>0, <1>1, <2>1, <2>2, RoundSlot DEF QueueInv
  <2>4. printed <= accepted + 1 /\ accepted + 1 < printed + Size
    BY <1>1, <2>1, <2>3, SimSizeAssumption DEF QueueInv
  <2>5. ASSUME NEW k \in printed .. accepted
        PROVE  tx_fifo'.buf[k % Size] = k + 1
    <3>1. k \in Nat /\ k % Size \in Slots /\ accepted % Size \in Slots
      BY <1>1, <2>5, Division
    <3>2. CASE k = accepted
      BY <1>1, <1>3, <2>1, <3>1, <3>2 DEF QueueInv
    <3>3. CASE k # accepted
      <4>1. k <= accepted /\ accepted < k + Size /\ k \in printed .. accepted - 1
        BY <1>1, <2>1, <2>5, <3>3, SimSizeAssumption DEF QueueInv
      <4>2. k % Size # accepted % Size
        BY <1>1, <3>1, <3>3, <4>1, SlotsApart
      <4>3. QED
        BY <1>1, <1>3, <2>1, <3>1, <4>1, <4>2 DEF QueueInv
    <3>4. QED
      BY <3>2, <3>3
  <2>6. QueueInv'
    <3>1. accepted' - 1 = accepted
      BY <1>0, <1>1
    <3>2. QED
      BY <1>0, <1>3, <2>1, <2>2, <2>4, <2>5, <3>1 DEF QueueInv
  <2>7. ASSUME NEW t \in Threads PROVE TakenInv(t)'
    <3>1. printed .. accepted \subseteq printed .. accepted'
      BY <1>0, <1>1
    <3>2. printed < accepted => printed < accepted'
      BY <1>0, <1>1
    <3>3. QED
      BY <1>0, <2>1, <3>1, <3>2 DEF TakenInv
  <2>8. QED
    BY <2>6, <2>7
<1>7. QED
  BY <1>0, <1>4, <1>5, <1>6 DEF PrintInv

\* The printing thread, which is the only one: it takes out what waits longest.
LEMMA TxPrint ==
  ASSUME SimInv, PrintInv, NEW t \in Threads, TxThread(t)
  PROVE  PrintInv' /\ (sessions <= 1 => printed' \in {printed, printed + 1})
<1>0. UNCHANGED <<mpc, accepted, sessions>>
  BY DEF TxThread, TxLook, TxPopLoad, TxEmpty, TxPopTest, TxPopRead, TxRelease, TxStep, mainv
<1>1. /\ accepted \in Nat /\ printed \in Nat /\ sessions \in Nat
      /\ tx_fifo \in [w : Slots, r : Slots, buf : [Slots -> Nat]]
      /\ "tx" \in DOMAIN index /\ index.tx \in [Threads -> Slots] /\ char \in [Threads -> Nat]
      /\ tx_thread \in [Threads -> {"none", "loop", "pop", "test", "read", "release", "ended"}]
  BY DEF PrintInv, QueueTypes
<1>2. PICK next \in {"loop", "pop", "test", "read", "release", "ended"} :
        tx_thread' = [tx_thread EXCEPT ![t] = next]
  BY DEF TxThread, TxLook, TxPopLoad, TxEmpty, TxPopTest, TxPopRead, TxRelease, TxStep
<1>3. /\ tx_thread' \in [Threads -> {"none", "loop", "pop", "test", "read", "release", "ended"}]
      /\ tx_thread'[t] = next /\ tx_thread[t] \in {"loop", "pop", "test", "read", "release"}
  BY <1>1, <1>2 DEF TxThread, TxLook, TxPopLoad, TxEmpty, TxPopTest, TxPopRead, TxRelease, TxStep
<1>4. \A u \in Threads : u # t => TakenInv(u)'
  <2>1. TAKE u \in Threads
  <2>2. HAVE u # t
  <2>3. tx_thread[u] \in {"none", "ended"}
    BY <1>3, <2>2 DEF SimInv, TxInv, Running
  <2>4. tx_thread'[u] = tx_thread[u]
    BY <1>1, <1>2, <2>2
  <2>5. QED
    BY <2>3, <2>4 DEF TakenInv
<1>5. UnwrittenInv'
  BY <1>0 DEF PrintInv, UnwrittenInv
<1>6. Slots \subseteq Nat /\ \A s \in Nat : increment(s) \in Slots
  <2>1. \A s \in Nat : s + 1 \in Nat
    OBVIOUS
  <2>2. QED
    BY <2>1, Division DEF increment, Slots
<1>7. SUFFICES /\ QueueTypes'
               /\ sessions <= 1 => /\ QueueInv' /\ TakenInv(t)'
                                   /\ printed' \in {printed, printed + 1}
  BY <1>0, <1>4, <1>5 DEF PrintInv
<1>8. CASE TxLook(t) \/ TxEmpty(t)
  <2>1. UNCHANGED <<index, char, tx_fifo, printed>> /\ next \in {"loop", "pop", "ended"}
    BY <1>1, <1>2, <1>8 DEF TxLook, TxEmpty, TxStep
  <2>2. QueueTypes'
    BY <1>0, <1>1, <1>3, <2>1 DEF QueueTypes
  <2>3. TakenInv(t)'
    BY <1>3, <2>1 DEF TakenInv
  <2>4. QED
    BY <1>0, <2>1, <2>2, <2>3 DEF PrintInv, QueueInv
<1>9. CASE TxPopLoad(t)
  <2>1. /\ UNCHANGED <<char, tx_fifo, printed>> /\ next = "test"
        /\ index' = [index EXCEPT !.tx[t] = tx_fifo.w]
    BY <1>1, <1>2, <1>9 DEF TxPopLoad, TxStep
  <2>2. index'.tx = [index.tx EXCEPT ![t] = tx_fifo.w] /\ "tx" \in DOMAIN index'
    BY <1>1, <2>1
  <2>3. QueueTypes'
    BY <1>0, <1>1, <1>3, <1>6, <2>1, <2>2 DEF QueueTypes
  <2>4. ASSUME sessions <= 1 PROVE TakenInv(t)'
    <3>1. index'.tx[t] = accepted % Size /\ accepted \in printed .. accepted
      BY <1>1, <2>2, <2>4 DEF PrintInv, QueueInv
    <3>2. QED
      BY <1>0, <1>3, <2>1, <3>1 DEF TakenInv
  <2>5. QED
    BY <1>0, <2>1, <2>3, <2>4 DEF PrintInv, QueueInv
<1>10. CASE TxPopTest(t)
  <2>1. /\ UNCHANGED <<char, tx_fifo, printed>> /\ next = "read" /\ tx_thread[t] = "test"
        /\ tx_fifo.r # index.tx[t]
        /\ index' = [index EXCEPT !.tx[t] = tx_fifo.r]
    BY <1>1, <1>2, <1>10 DEF TxPopTest, TxStep
  <2>2. index'.tx = [index.tx EXCEPT ![t] = tx_fifo.r] /\ "tx" \in DOMAIN index'
    BY <1>1, <2>1
  <2>3. QueueTypes'
    BY <1>0, <1>1, <1>3, <1>6, <2>1, <2>2 DEF QueueTypes
  <2>4. ASSUME sessions <= 1 PROVE TakenInv(t)'
    <3>1. QueueInv /\ TakenInv(t)
      BY <2>4 DEF PrintInv
    <3>2. PICK n \in printed .. accepted : index.tx[t] = n % Size
      BY <2>1, <3>1 DEF TakenInv
    <3>3. n # printed
      BY <2>1, <3>1, <3>2 DEF QueueInv
    <3>4. printed < accepted
      BY <1>1, <3>2, <3>3
    <3>5. index'.tx[t] = printed % Size
      BY <1>1, <2>2, <3>1 DEF QueueInv
    <3>6. QED
      BY <1>0, <1>3, <2>1, <3>4, <3>5 DEF TakenInv
  <2>5. QED
    BY <1>0, <2>1, <2>3, <2>4 DEF PrintInv, QueueInv
<1>11. CASE TxPopRead(t)
  <2>1. /\ UNCHANGED <<index, tx_fifo, printed>> /\ next = "release" /\ tx_thread[t] = "read"
        /\ char' = [char EXCEPT ![t] = tx_fifo.buf[index.tx[t]]]
    BY <1>1, <1>2, <1>11 DEF TxPopRead, TxStep
  <2>2. ASSUME sessions <= 1 PROVE TakenInv(t)'
    <3>1. QueueInv /\ TakenInv(t)
      BY <2>2 DEF PrintInv
    <3>2. printed < accepted /\ index.tx[t] = printed % Size
      BY <2>1, <3>1 DEF TakenInv
    <3>3. printed \in printed .. accepted - 1
      BY <1>1, <3>2
    <3>4. char'[t] = printed + 1
      BY <1>1, <2>1, <3>1, <3>2, <3>3 DEF QueueInv
    <3>5. QED
      BY <1>0, <1>3, <2>1, <3>2, <3>4 DEF TakenInv
  <2>3. QueueTypes'
    BY <1>0, <1>1, <1>3, <2>1 DEF QueueTypes
  <2>4. QED
    BY <1>0, <2>1, <2>2, <2>3 DEF PrintInv, QueueInv
<1>12. CASE TxRelease(t)
  <2>1. /\ UNCHANGED <<index, char>> /\ next = "pop" /\ tx_thread[t] = "release"
        /\ tx_fifo' = [tx_fifo EXCEPT !.r = increment(index.tx[t])]
        /\ printed' = char[t]
    BY <1>1, <1>2, <1>12 DEF TxRelease, TxStep
  <2>2. /\ tx_fifo'.w = tx_fifo.w /\ tx_fifo'.r = increment(index.tx[t])
        /\ tx_fifo'.buf = tx_fifo.buf
        /\ tx_fifo' \in [w : Slots, r : Slots, buf : [Slots -> Nat]]
    BY <1>1, <1>6, <2>1
  <2>3. QueueTypes'
    BY <1>0, <1>1, <1>3, <2>1, <2>2 DEF QueueTypes
  <2>4. TakenInv(t)'
    BY <1>3, <2>1 DEF TakenInv
  <2>5. ASSUME sessions <= 1 PROVE QueueInv' /\ printed' = printed + 1
    <3>1. QueueInv /\ TakenInv(t)
      BY <2>5 DEF PrintInv
    <3>2. printed' = printed + 1 /\ printed < accepted /\ index.tx[t] = printed % Size
      BY <2>1, <3>1 DEF TakenInv
    <3>3. tx_fifo'.r = (printed + 1) % Size
      BY <1>1, <2>2, <3>2, NextSlot
    <3>4. /\ printed + 1 <= accepted /\ accepted < printed + 1 + Size
          /\ printed + 1 .. accepted - 1 \subseteq printed .. accepted - 1
      BY <1>1, <3>1, <3>2, SimSizeAssumption DEF QueueInv
    <3>5. QED
      BY <1>0, <2>2, <3>1, <3>2, <3>3, <3>4 DEF QueueInv
  <2>6. QED
    BY <2>3, <2>4, <2>5
<1>13. QED
  BY <1>8, <1>9, <1>10, <1>11, <1>12 DEF TxThread

LEMMA NextPrint ==
  ASSUME SimInv, PrintInv, [Next]_vars
  PROVE  PrintInv' /\ (sessions <= 1 => printed' \in {printed, printed + 1})
<1>1. CASE Write
  BY <1>1, WritePrint DEF Write
<1>2. CASE \E t \in Threads : TxThread(t)
  BY <1>2, TxPrint
<1>3. CASE OpenTxWrite
  <2>1. /\ sessions' = sessions + 1 /\ mpc = "closed" /\ mpc' = "open_tx"
        /\ UNCHANGED <<accepted, printed, tx_thread, index, char>>
        /\ tx_fifo' = [tx_fifo EXCEPT !.w = 0]
    BY <1>3 DEF OpenTxWrite, ResetStep, threadv
  <2>2. /\ tx_fifo \in [w : Slots, r : Slots, buf : [Slots -> Nat]] /\ sessions \in Nat
        /\ 0 \in Slots /\ 0 % Size = 0
    BY SimSizeAssumption DEF PrintInv, QueueTypes, Slots
  <2>3. QueueTypes' /\ sessions' \in Nat
    BY <2>1, <2>2 DEF PrintInv, QueueTypes
  <2>4. CASE sessions = 0
    <3>1. accepted = 0 /\ tx_fifo.w = 0
      BY <2>2, <2>4 DEF PrintInv, UnwrittenInv, QueueInv
    <3>2. tx_fifo' = tx_fifo
      BY <2>1, <2>2, <3>1
    <3>3. QED
      BY <2>1, <2>2, <2>3, <2>4, <3>1, <3>2 DEF PrintInv, UnwrittenInv, QueueInv, TakenInv
  <2>5. CASE sessions # 0
    <3>1. sessions' # 0 /\ sessions' # 1 /\ ~(sessions' <= 1)
      BY <2>1, <2>2, <2>5
    <3>2. QED
      BY <2>1, <2>3, <3>1 DEF PrintInv, UnwrittenInv
  <2>6. QED
    BY <2>4, <2>5
<1>4. CASE OpenTxRead
  <2>1. /\ mpc = "open_tx" /\ mpc' = "open_rx"
        /\ UNCHANGED <<accepted, printed, tx_thread, index, char, sessions>>
        /\ tx_fifo' = [tx_fifo EXCEPT !.r = 0]
    BY <1>4 DEF OpenTxRead, ResetStep, threadv
  <2>2. /\ tx_fifo \in [w : Slots, r : Slots, buf : [Slots -> Nat]]
        /\ sessions \in Nat /\ printed \in Nat /\ accepted \in Nat
        /\ 0 \in Slots /\ 0 % Size = 0
    BY SimSizeAssumption DEF PrintInv, QueueTypes, Slots
  <2>3. QueueTypes' /\ UnwrittenInv'
    BY <2>1, <2>2 DEF PrintInv, QueueTypes, UnwrittenInv
  <2>4. ASSUME sessions <= 1 PROVE tx_fifo' = tx_fifo
    <3>1. accepted = 0
      BY <2>1, <2>2, <2>4 DEF PrintInv, UnwrittenInv
    <3>2. printed = 0 /\ tx_fifo.r = 0
      BY <2>2, <2>4, <3>1 DEF PrintInv, QueueInv
    <3>3. QED
      BY <2>1, <2>2, <3>2
  <2>5. QED
    BY <2>1, <2>3, <2>4 DEF PrintInv, QueueInv, TakenInv
<1>5. CASE \/ React \/ OpenRxWrite \/ OpenRxRead \/ OpenEnable \/ OpenStore \/ CloseStore
           \/ CloseDisable \/ Flush \/ Read \/ (\E t \in Threads : RxThread(t)) \/ UNCHANGED vars
  <2>1. UNCHANGED <<accepted, printed, char, sessions, tx_fifo>>
    BY <1>5 DEF React, ReactRx, StartRx, ReactTx, StartTx, OpenRxWrite, OpenRxRead, ResetStep,
                OpenEnable, OpenStore, CloseStore, CloseDisable, Flush, Store, Read,
                RxThread, RxLook, RxNothing, RxKey, RxPushLoad, RxPushFill, RxPublish, RxStep,
                vars, hist, threadv
  <2>2. "tx" \in DOMAIN index' /\ index'.tx = index.tx
    <3>1. CASE \E t \in Threads : RxPushLoad(t)
      BY <3>1 DEF RxPushLoad, PrintInv, QueueTypes
    <3>2. CASE UNCHANGED index
      BY <3>2 DEF PrintInv, QueueTypes
    <3>3. QED
      BY <1>5, <3>1, <3>2
         DEF React, ReactRx, StartRx, ReactTx, StartTx, OpenRxWrite, OpenRxRead, ResetStep,
             OpenEnable, OpenStore, CloseStore, CloseDisable, Flush, Store, Read,
             RxThread, RxLook, RxNothing, RxKey, RxPushFill, RxPublish, vars, threadv
  <2>3. \/ mpc' = mpc
        \/ mpc' # "open_tx" /\ (mpc = "closed" => mpc' = "closed")
    BY <1>5 DEF React, ReactRx, StartRx, ReactTx, StartTx, OpenRxWrite, OpenRxRead, ResetStep,
                OpenEnable, OpenStore, CloseStore, CloseDisable, Flush, Store, Read,
                RxThread, RxLook, RxNothing, RxKey, RxPushLoad, RxPushFill, RxPublish, RxStep,
                vars, mainv, SimInv, SimPlaces, Returns
  <2>4. UnwrittenInv'
    BY <2>1, <2>3 DEF PrintInv, UnwrittenInv
  <2>5. tx_thread' = tx_thread \/ \E t \in Threads : tx_thread' = [tx_thread EXCEPT ![t] = "loop"]
    BY <1>5 DEF React, ReactRx, StartRx, ReactTx, StartTx, OpenRxWrite, OpenRxRead, ResetStep,
                OpenEnable, OpenStore, CloseStore, CloseDisable, Flush, Store, Read,
                RxThread, RxLook, RxNothing, RxKey, RxPushLoad, RxPushFill, RxPublish, RxStep,
                vars, threadv
  <2>6. /\ tx_thread' \in [Threads -> {"none", "loop", "pop", "test", "read", "release", "ended"}]
        /\ \A t \in Threads : tx_thread'[t] = tx_thread[t] \/ tx_thread'[t] = "loop"
    BY <2>5 DEF PrintInv, QueueTypes
  <2>7. QueueTypes'
    BY <2>1, <2>2, <2>6 DEF PrintInv, QueueTypes
  <2>8. \A t \in Threads : TakenInv(t) => TakenInv(t)'
    BY <2>1, <2>2, <2>6 DEF TakenInv
  <2>9. QED
    BY <2>1, <2>4, <2>7, <2>8 DEF PrintInv, QueueInv
<1>6. QED
  BY <1>1, <1>2, <1>3, <1>4, <1>5 DEF Next, OpenCall, Open, CloseCall, Close

-----------------------------------------------------------------------------
\* In the first session the bytes are printed in the order written, none left
\* out or twice, by a thread that reads the indices at one time and uses them at
\* another, for every size of the queue and whatever the thread of the keys and
\* the reactions do in between.
THEOREM PrintsInOrder == Spec => PrintedInOrder
<1>1. Init => PrintInv
  BY InitPrint
<1>2. SimInv /\ PrintInv /\ [Next]_vars => PrintInv'
  BY NextPrint
<1>3. SimInv /\ PrintInv /\ [Next]_vars =>
        [sessions <= 1 => printed' \in {printed, printed + 1}]_vars
  BY NextPrint
<1>4. QED
  BY <1>1, <1>2, <1>3, SimInvariance, PTL DEF Spec, PrintedInOrder
=============================================================================
