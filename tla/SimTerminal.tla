---------------------------- MODULE SimTerminal ----------------------------
(***************************************************************************)
(* The terminal in the simulation (lib/include/terminal_sim.hpp with the   *)
(* reactions of projects/stm32f4discovery).  There is no interrupt: every  *)
(* store to CR1 calls react(), which starts and stops threads that feed    *)
(* rx_fifo from stdin and print what is in tx_fifo.  A thread is detached  *)
(* and asked to end by a flag all threads of its kind share; it looks at   *)
(* the flag once a turn, between sleeps of 20 ms.                          *)
(*                                                                         *)
(* The threads' queue operations are split at the loads and stores of the  *)
(* indices.  Those of the main program are one step: it is the only        *)
(* producer of tx_fifo and the only consumer of rx_fifo, so that its call  *)
(* takes effect at one load or store of an index; its reset() is not.      *)
(* Which keys are in rx_fifo is left out; its indices are there.           *)
(***************************************************************************)
EXTENDS Naturals, FiniteSets

CONSTANTS Size,                    \* slots of each ring buffer
          Threads,                 \* bound: threads of each kind ever started
          MaxTx, MaxRx,            \* bounds: bytes written, keys typed
          MaxSessions              \* bound: calls of open()

ASSUME SimSizeAssumption == Size \in Nat \ {0, 1}
ASSUME SimBoundAssumption == MaxTx \in Nat /\ MaxRx \in Nat /\ MaxSessions \in Nat

VARIABLES
  cr1, old_value,                  \* CR1, and what it was before the last store
  mpc, return,                     \* the main program: where it is, and goes after react()
  terminal_rx_thread_terminate, terminal_tx_thread_terminate,
  rx_thread, tx_thread,            \* the threads: where each is,
  index, char,                     \* its copy of an index, what it is about to print
  tx_fifo, rx_fifo,                \* indices and slots; of rx_fifo the indices only
  accepted, typed, printed, sessions   \* history: written, typed, printed last; opens

flagv == <<terminal_rx_thread_terminate, terminal_tx_thread_terminate>>
threadv == <<rx_thread, tx_thread, index, char>>
mainv == <<cr1, old_value, mpc, return>>
hist == <<accepted, typed, printed, sessions>>
vars == <<mainv, flagv, threadv, tx_fifo, rx_fifo, hist>>

OpenBits == {"RXNEIE", "PEIE"}
Cr1Bits == OpenBits \cup {"UE", "TXEIE"}
Slots == 0 .. Size - 1

increment(k) == (k + 1) % Size
Used(f) == (f.w + Size - f.r) % Size

Running(thread) == {t \in Threads : thread[t] \notin {"none", "ended"}}

Init ==
  /\ cr1 = {} /\ old_value = {} /\ mpc = "closed" /\ return = "closed"
  /\ terminal_rx_thread_terminate = FALSE /\ terminal_tx_thread_terminate = FALSE
  /\ rx_thread = [t \in Threads |-> "none"] /\ tx_thread = [t \in Threads |-> "none"]
  /\ index = [rx |-> [t \in Threads |-> 0], tx |-> [t \in Threads |-> 0]]
  /\ char = [t \in Threads |-> 0]
  /\ tx_fifo = [w |-> 0, r |-> 0, buf |-> [s \in Slots |-> 0]]
  /\ rx_fifo = [w |-> 0, r |-> 0]
  /\ accepted = 0 /\ typed = 0 /\ printed = 0 /\ sessions = 0

-----------------------------------------------------------------------------
(* A store to CR1 and the reaction to it, in the main program. *)

Store(bits, next) ==
  /\ cr1' = bits /\ old_value' = cr1
  /\ mpc' = "react_rx" /\ return' = next
  /\ UNCHANGED <<flagv, threadv, tx_fifo, rx_fifo>>

bits_set(b) == b \in cr1 \ old_value
bits_cleared(b) == b \in old_value \ cr1

\* Mutants: the flag is taken back after the thread was started; it is never
\* set again.
ReactRxLate ==
  /\ mpc = "react_rx"
  /\ mpc' = IF bits_set("RXNEIE") THEN "start_rx" ELSE "react_tx"
  /\ terminal_rx_thread_terminate' =
       IF bits_cleared("RXNEIE") THEN TRUE ELSE terminal_rx_thread_terminate
  /\ UNCHANGED <<cr1, old_value, return, terminal_tx_thread_terminate, threadv, tx_fifo, rx_fifo, hist>>
ReactRxNoStop ==
  /\ mpc = "react_rx"
  /\ mpc' = IF bits_set("RXNEIE") THEN "start_rx" ELSE "react_tx"
  /\ terminal_rx_thread_terminate' =
       IF bits_set("RXNEIE") THEN FALSE ELSE terminal_rx_thread_terminate
  /\ UNCHANGED <<cr1, old_value, return, terminal_tx_thread_terminate, threadv, tx_fifo, rx_fifo, hist>>

\* RXNEIE was set: let threads run and start one.  It was cleared: end them.
ReactRx ==
  /\ mpc = "react_rx"
  /\ mpc' = IF bits_set("RXNEIE") THEN "start_rx" ELSE "react_tx"
  /\ terminal_rx_thread_terminate' =
       IF bits_set("RXNEIE") THEN FALSE
       ELSE bits_cleared("RXNEIE") \/ terminal_rx_thread_terminate
  /\ UNCHANGED <<cr1, old_value, return, terminal_tx_thread_terminate, threadv, tx_fifo, rx_fifo, hist>>

StartRx ==
  /\ mpc = "start_rx"
  /\ mpc' = "react_tx"
  /\ \E t \in Threads : /\ rx_thread[t] = "none"
                        /\ rx_thread' = [rx_thread EXCEPT ![t] = "loop"]
  /\ UNCHANGED <<cr1, old_value, return, flagv, tx_thread, index, char, tx_fifo, rx_fifo, hist>>

\* Mutant: a thread is started whenever TXEIE is found set.
ReactTxLevel ==
  /\ mpc = "react_tx"
  /\ mpc' = IF "TXEIE" \in cr1 THEN "start_tx" ELSE return
  /\ terminal_tx_thread_terminate' =
       IF "TXEIE" \in cr1 THEN FALSE
       ELSE bits_cleared("TXEIE") \/ terminal_tx_thread_terminate
  /\ UNCHANGED <<cr1, old_value, return, terminal_rx_thread_terminate, threadv, tx_fifo, rx_fifo, hist>>

\* The same for TXEIE and the printing thread.
ReactTx ==
  /\ mpc = "react_tx"
  /\ mpc' = IF bits_set("TXEIE") THEN "start_tx" ELSE return
  /\ terminal_tx_thread_terminate' =
       IF bits_set("TXEIE") THEN FALSE
       ELSE bits_cleared("TXEIE") \/ terminal_tx_thread_terminate
  /\ UNCHANGED <<cr1, old_value, return, terminal_rx_thread_terminate, threadv, tx_fifo, rx_fifo, hist>>

StartTx ==
  /\ mpc = "start_tx"
  /\ mpc' = return
  /\ \E t \in Threads : /\ tx_thread[t] = "none"
                        /\ tx_thread' = [tx_thread EXCEPT ![t] = "loop"]
  /\ UNCHANGED <<cr1, old_value, return, flagv, rx_thread, index, char, tx_fifo, rx_fifo, hist>>

React == ReactRx \/ StartRx \/ ReactTx \/ StartTx

-----------------------------------------------------------------------------
(* The main program. *)

\* open(): reset() of both fifos, store by store, then UE, then the interrupts.
ResetStep(pc, next) ==
  /\ mpc = pc /\ mpc' = next
  /\ UNCHANGED <<cr1, old_value, return, flagv, threadv, accepted, typed, printed>>

OpenTxWrite == /\ sessions < MaxSessions /\ sessions' = sessions + 1
               /\ ResetStep("closed", "open_tx")
               /\ tx_fifo' = [tx_fifo EXCEPT !.w = 0] /\ UNCHANGED rx_fifo
OpenTxRead == /\ ResetStep("open_tx", "open_rx") /\ UNCHANGED sessions
              /\ tx_fifo' = [tx_fifo EXCEPT !.r = 0] /\ UNCHANGED rx_fifo
OpenRxWrite == /\ ResetStep("open_rx", "open_rx_read") /\ UNCHANGED sessions
               /\ rx_fifo' = [rx_fifo EXCEPT !.w = 0] /\ UNCHANGED tx_fifo
OpenRxRead == /\ ResetStep("open_rx_read", "open_ue") /\ UNCHANGED sessions
              /\ rx_fifo' = [rx_fifo EXCEPT !.r = 0] /\ UNCHANGED tx_fifo
OpenEnable == mpc = "open_ue" /\ Store(cr1 \cup {"UE"}, "open_store") /\ UNCHANGED hist
OpenStore == mpc = "open_store" /\ Store(cr1 \cup OpenBits, "open") /\ UNCHANGED hist

\* Mutant: close() disables the transmit interrupt, too.
CloseStoreAll == /\ mpc = "open"
                 /\ Store(cr1 \ (OpenBits \cup {"TXEIE"}), "close_ue") /\ UNCHANGED hist

\* close(): the interrupts, then UE; TXEIE stays as it is.
CloseStore == mpc = "open" /\ Store(cr1 \ OpenBits, "close_ue") /\ UNCHANGED hist
CloseDisable == mpc = "close_ue" /\ Store(cr1 \ {"UE"}, "closed") /\ UNCHANGED hist

Flush == mpc = "open" /\ Store(cr1 \cup {"TXEIE"}, "open") /\ UNCHANGED hist

\* tx_fifo.push(), and rx_fifo.pop().
Write ==
  /\ mpc = "open" /\ accepted < MaxTx
  /\ increment(tx_fifo.w) # tx_fifo.r
  /\ accepted' = accepted + 1
  /\ tx_fifo' = [tx_fifo EXCEPT !.buf[tx_fifo.w] = accepted + 1, !.w = increment(tx_fifo.w)]
  /\ UNCHANGED <<mainv, flagv, threadv, rx_fifo, typed, printed, sessions>>
Read ==
  /\ mpc = "open" /\ rx_fifo.r # rx_fifo.w
  /\ rx_fifo' = [rx_fifo EXCEPT !.r = increment(rx_fifo.r)]
  /\ UNCHANGED <<mainv, flagv, threadv, tx_fifo, hist>>

-----------------------------------------------------------------------------
(* terminal_rx_thread(): look at the flag, poll stdin, push what was typed. *)

RxStep(t, pc, next) ==
  /\ rx_thread[t] = pc /\ rx_thread' = [rx_thread EXCEPT ![t] = next]
  /\ UNCHANGED <<mainv, flagv, tx_thread, char, tx_fifo, accepted, printed, sessions>>

RxLook(t) == /\ RxStep(t, "loop", IF terminal_rx_thread_terminate THEN "ended" ELSE "poll")
             /\ UNCHANGED <<index, rx_fifo, typed>>
RxNothing(t) == RxStep(t, "poll", "loop") /\ UNCHANGED <<index, rx_fifo, typed>>
RxKey(t) == /\ typed < MaxRx /\ RxStep(t, "poll", "push")
            /\ typed' = typed + 1 /\ UNCHANGED <<index, rx_fifo>>
RxPushLoad(t) == /\ RxStep(t, "push", "fill")
                 /\ index' = [index EXCEPT !.rx[t] = rx_fifo.w]
                 /\ UNCHANGED <<rx_fifo, typed>>
RxPushFill(t) ==
  /\ RxStep(t, "fill", IF increment(index.rx[t]) = rx_fifo.r THEN "loop" ELSE "publish")
  /\ UNCHANGED <<index, rx_fifo, typed>>
RxPublish(t) == /\ RxStep(t, "publish", "loop")
                /\ rx_fifo' = [rx_fifo EXCEPT !.w = increment(index.rx[t])]
                /\ UNCHANGED <<index, typed>>

RxThread(t) == \/ RxLook(t) \/ RxNothing(t) \/ RxKey(t)
               \/ RxPushLoad(t) \/ RxPushFill(t) \/ RxPublish(t)

(* terminal_tx_thread(): look at the flag, pop and print all there is. *)

TxStep(t, pc, next) ==
  /\ tx_thread[t] = pc /\ tx_thread' = [tx_thread EXCEPT ![t] = next]
  /\ UNCHANGED <<mainv, flagv, rx_thread, rx_fifo, accepted, typed, sessions>>

TxLook(t) == /\ TxStep(t, "loop", IF terminal_tx_thread_terminate THEN "ended" ELSE "pop")
             /\ UNCHANGED <<index, char, tx_fifo, printed>>
TxPopLoad(t) == /\ TxStep(t, "pop", "test")
                /\ index' = [index EXCEPT !.tx[t] = tx_fifo.w]
                /\ UNCHANGED <<char, tx_fifo, printed>>

\* Mutant: the thread ends when there is nothing to print.
TxEmptyEnds(t) == /\ tx_fifo.r = index.tx[t] /\ TxStep(t, "test", "ended")
                  /\ UNCHANGED <<index, char, tx_fifo, printed>>
TxEmpty(t) == /\ tx_fifo.r = index.tx[t] /\ TxStep(t, "test", "loop")
              /\ UNCHANGED <<index, char, tx_fifo, printed>>
TxPopTest(t) == /\ tx_fifo.r # index.tx[t] /\ TxStep(t, "test", "read")
                /\ index' = [index EXCEPT !.tx[t] = tx_fifo.r]
                /\ UNCHANGED <<char, tx_fifo, printed>>
TxPopRead(t) == /\ TxStep(t, "read", "release")
                /\ char' = [char EXCEPT ![t] = tx_fifo.buf[index.tx[t]]]
                /\ UNCHANGED <<index, tx_fifo, printed>>
TxRelease(t) == /\ TxStep(t, "release", "pop")
                /\ tx_fifo' = [tx_fifo EXCEPT !.r = increment(index.tx[t])]
                /\ printed' = char[t]
                /\ UNCHANGED <<index, char>>

TxThread(t) == \/ TxLook(t) \/ TxPopLoad(t) \/ TxEmpty(t)
               \/ TxPopTest(t) \/ TxPopRead(t) \/ TxRelease(t)

-----------------------------------------------------------------------------
OpenCall == OpenTxWrite
Open == OpenTxRead \/ OpenRxWrite \/ OpenRxRead \/ OpenEnable \/ OpenStore
CloseCall == CloseStore
Close == CloseDisable

Next == \/ OpenCall \/ Open \/ CloseCall \/ Close \/ React \/ Flush \/ Write \/ Read
        \/ \E t \in Threads : RxThread(t) \/ TxThread(t)

\* The system schedules every thread, and a call the main program is in runs on.
Fairness == /\ WF_vars(Open \/ Close \/ React)
            /\ \A t \in Threads : WF_vars(RxThread(t)) /\ WF_vars(TxThread(t))

Spec == Init /\ [][Next]_vars /\ Fairness

-----------------------------------------------------------------------------
(* Properties. *)

\* Nothing but the flush of the first session starts a printing thread, and so
\* no two threads pop from tx_fifo: it is what close() does not clear, TXEIE,
\* that keeps it so.
OneTxThread == Cardinality(Running(tx_thread)) <= 1

\* While the terminal is open a thread polls stdin and is not about to end,
\* though an earlier close() may have asked its threads to.
ListensWhileOpen ==
  mpc = "open" => Running(rx_thread) # {} /\ ~terminal_rx_thread_terminate

\* In the first session bytes are printed in the order written, none left out.
PrintedInOrder == [][sessions <= 1 => printed' \in {printed, printed + 1}]_vars

\* Once the terminal is closed, and stays so, nobody polls stdin any more.
ClosedIsDeaf ==
  "RXNEIE" \notin cr1 ~> (Running(rx_thread) = {} \/ "RXNEIE" \in cr1)

\* After the first flush tx_fifo gets empty in the end, closed or not: all that is
\* in it is printed, unless the reset() in open() drops it (fifo.hpp:77).
EverythingPrinted == "TXEIE" \in cr1 ~> Used(tx_fifo) = 0

\* fifo.hpp:41 "(single reader, single writer)".
SingleWriter ==
  Cardinality({t \in Threads : rx_thread[t] \in {"push", "fill", "publish"}}) <= 1
=============================================================================
