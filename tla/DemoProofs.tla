----------------------------- MODULE DemoProofs -----------------------------
(***************************************************************************)
(* Proofs about Demo.  The debouncer accepts no position that was not      *)
(* held, for every clock width and every hold time, whatever the stick     *)
(* does.  On the bus every byte reaches its device and no other, with its  *)
(* pins and configuration in place until it is out, every answer is to its *)
(* byte, and between two pictures the display shows the list as the        *)
(* accepted positions left it, for displays, lists and addresses of every  *)
(* size.                                                                   *)
(*                                                                         *)
(* A driver function is a sequence of steps.  Runs(up, steps, a, b) says   *)
(* that it leads from phase a of the bus to phase b, each step from one    *)
(* phase to the next; so it is proved of the steps of a function once, and *)
(* of a function from those it is made of.  BusInv says that what is left  *)
(* of the function entered runs from the phase the bus is in to one where  *)
(* the next function may be entered.                                       *)
(***************************************************************************)
EXTENDS Demo, Induction

USE DemoAssumption

-----------------------------------------------------------------------------
\* The debouncer remembers the last poll.  Unless the clock was near its wrap
\* when the position was first seen, hold_time is as far ahead of the clock as
\* the position has still to be held.
DebInv ==
  /\ systick \in 0 .. Word - 1 /\ steady \in 0 .. WaitTicks
  /\ deb = [value |-> deb.value, current |-> polled, hold |-> deb.hold]
  /\ deb.hold \in Nat
  /\ ~wrapped => steady = WaitTicks \/ deb.hold = systick + (WaitTicks - steady)
  /\ ~wrapped => deb.hold < Word

debVars == <<deb, systick, polled, steady, wrapped>>

LEMMA InitDeb == Init => DebInv
<1> SUFFICES ASSUME Init PROVE DebInv
  OBVIOUS
<1>1. /\ systick \in {0, Word - 1} /\ polled = "center" /\ steady = WaitTicks /\ ~wrapped
     
      /\ deb = [value |-> "center", current |-> "center", hold |-> 0]
  BY DEF Init
<1>2. systick \in 0 .. Word - 1 /\ 0 < Word
  BY <1>1
<1>3. QED
  BY <1>1, <1>2 DEF DebInv

\* Only the clock and poll() touch the debouncer.
LEMMA DebUnchanged ==
  ASSUME [Next]_vars
  PROVE  Tick \/ Poll \/ UNCHANGED debVars
BY DEF Next, Main, OnBus, InitRadio, InitJoystick, StartConversion, NoCommand, NrfTest,
       HeapEater, EnableLcd, UpdateScreen, ConversionEnds, MoveStick, OnWire, vars,
       demoVars, debVars

\* poll() with a new position restarts the hold time; with the same one it
\* leaves it.
LEMMA PollStep ==
  ASSUME DebInv, Poll
  PROVE  /\ DebInv'
         /\ deb'.value # deb.value => deb'.value = polled' /\ (steady' >= WaitTicks \/ wrapped')
<1> DEFINE new == position(adc.data)
           hold == IF polled # new THEN (systick + WaitTicks) % Word ELSE deb.hold
<1>0. /\ systick \in 0 .. Word - 1 /\ steady \in 0 .. WaitTicks
      /\ deb.hold \in Nat /\ deb.current = polled
  BY DEF DebInv
<1>1. deb' = [value |-> IF hold > systick THEN deb.value ELSE new, current |-> new, hold |-> hold]
  BY <1>0 DEF Poll, poll
<1>2. /\ polled' = new /\ systick' = systick
      /\ steady' = IF new = polled THEN steady ELSE 0
      /\ wrapped' = IF new = polled THEN wrapped ELSE systick + WaitTicks >= Word
  BY DEF Poll
<1> HIDE DEF new
<1>3. CASE new = polled
  <2>1. hold = deb.hold /\ steady' = steady /\ wrapped' = wrapped
    BY <1>0, <1>2, <1>3
  <2>2. DebInv'
    BY <1>0, <1>1, <1>2, <2>1 DEF DebInv
  <2>3. ASSUME deb'.value # deb.value, ~wrapped
        PROVE  deb'.value = polled' /\ steady >= WaitTicks
    <3>1. deb.hold <= systick /\ deb'.value = new
      BY <1>0, <1>1, <2>1, <2>3
    <3>2. steady = WaitTicks \/ deb.hold = systick + (WaitTicks - steady)
      BY <2>3 DEF DebInv
    <3>3. QED
      BY <1>0, <1>2, <3>1, <3>2
  <2>4. deb'.value # deb.value => deb'.value = polled'
    BY <1>1, <1>2
  <2>5. QED
    BY <2>1, <2>2, <2>3, <2>4
<1>4. CASE new # polled
  <2>1. hold = (systick + WaitTicks) % Word /\ steady' = 0
    BY <1>2, <1>4
  <2> HIDE DEF hold
  <2> DEFINE late == systick + WaitTicks >= Word
  <2>2. wrapped' = late
    BY <1>2, <1>4
  <2>3. PICK sum \in Nat : sum = systick + WaitTicks
    BY <1>0
  <2>4. ~wrapped' => sum < Word
    <3>1. ~late => sum < Word
      BY <2>3
    <3> HIDE DEF late
    <3>2. ~wrapped' => ~late
      BY <2>2
    <3>3. QED
      BY <3>1, <3>2
  <2>5. sum % Word \in Nat /\ (sum < Word => sum % Word = sum)
    OBVIOUS
  <2>6. hold \in Nat /\ (~wrapped' => hold = systick + WaitTicks /\ hold < Word)
    <3>1. hold = sum % Word
      BY <2>1, <2>3
    <3>2. hold \in Nat /\ (sum < Word => hold = sum)
      BY <2>5, <3>1
    <3>3. QED
      BY <2>3, <2>4, <3>2
  <2>7. DebInv'
    BY <1>0, <1>1, <1>2, <2>1, <2>6 DEF DebInv
  <2>8. deb'.value # deb.value => deb'.value = polled' /\ hold <= systick
    BY <1>0, <1>1, <1>2, <2>6
  <2>9. ASSUME ~wrapped', hold <= systick PROVE steady' >= WaitTicks
    <3>1. sum <= systick
      BY <2>3, <2>6, <2>9
    <3>2. WaitTicks = 0
      BY <1>0, <2>3, <3>1
    <3>3. QED
      BY <2>1, <3>2
  <2>10. QED
    BY <2>7, <2>8, <2>9
<1>5. QED
  BY <1>3, <1>4

LEMMA TickStep ==
  ASSUME DebInv, Tick
  PROVE  DebInv' /\ deb' = deb
<1>1. /\ systick \in 0 .. Word - 1 /\ steady \in 0 .. WaitTicks
      /\ deb.hold \in Nat
      /\ deb = [value |-> deb.value, current |-> polled, hold |-> deb.hold]
  BY DEF DebInv
<1>2. /\ UNCHANGED <<deb, polled, wrapped>>
      /\ systick' = (systick + 1) % Word
      /\ steady' = IF steady < WaitTicks THEN steady + 1 ELSE steady
  BY DEF Tick
<1>3. systick' \in 0 .. Word - 1 /\ steady' \in 0 .. WaitTicks
  BY <1>1, <1>2
<1>4. ASSUME ~wrapped, steady + 1 < WaitTicks
      PROVE  deb.hold = systick' + (WaitTicks - steady')
  <2>1. deb.hold = systick + (WaitTicks - steady) /\ deb.hold < Word
    BY <1>1, <1>4 DEF DebInv
  <2>2. systick + 1 < Word
    BY <1>1, <1>4, <2>1
  <2>3. systick' = systick + 1 /\ steady' = steady + 1
    BY <1>1, <1>2, <1>4, <2>2
  <2>4. QED
    BY <1>1, <2>1, <2>3
<1>5. ~(steady + 1 < WaitTicks) => steady' = WaitTicks
  BY <1>1, <1>2
<1>6. QED
  BY <1>1, <1>2, <1>3, <1>4, <1>5 DEF DebInv

-----------------------------------------------------------------------------
\* Where poll() stands in the hold time.
THEOREM DebounceInvariance == Spec => []DebInv
<1>1. Init => DebInv
  BY InitDeb
<1>2. DebInv /\ [Next]_vars => DebInv'
  BY DebUnchanged, PollStep, TickStep DEF DebInv, debVars
<1>3. QED
  BY <1>1, <1>2, PTL DEF Spec

\* debouncer::poll() accepts a position only when all polls since the clock stood
\* wait_time_ticks earlier gave it: for every hold time shorter than the clock's
\* range, except where the clock wraps in it.
THEOREM AcceptedOnlyIfHeld == Spec => AcceptedWasHeld
<1>1. DebInv /\ [Next]_vars =>
        [deb'.value # deb.value => deb'.value = polled' /\ (steady' >= WaitTicks \/ wrapped')]_vars
  BY DebUnchanged, PollStep, TickStep DEF debVars
<1>2. QED
  BY <1>1, DebounceInvariance, PTL DEF Spec, AcceptedWasHeld
-----------------------------------------------------------------------------
(* What a driver function does on the bus, as it is written: the phases the   *)
(* program takes the bus through.                                             *)

\* Between two of its operations: the pins and the control register; that
\* nothing is on its way ("quiet"), that only bytes for the display may be, or
\* that the answer to a byte sent is awaited; what the display holds when
\* everything is out.
Phase(p, c, bus, sent, shown) ==
  [pin |-> p, cr1 |-> c, bus |-> bus, sent |-> sent, shown |-> shown]

\* The devices that listen when the pins are so, and what the display makes of
\* a byte then.
Listens(p) ==
  {d \in Devices : IF d = "lcd" THEN p.lcd_e = Low /\ p.lcd_reset = High
                                ELSE p.nrf_csn = Low}
Shown(shown, byte, p) ==
  IF "lcd" \notin Listens(p) THEN shown
  ELSE IF p.lcd_ds = High
       THEN [at  |-> (shown.at % VideoBytes) + 1,
             ram |-> [shown.ram EXCEPT ![shown.at] =
                        IF byte.to = "lcd" THEN byte.row ELSE Garbled]]
       ELSE IF byte.to = "lcd" /\ byte.cmd \in {"x", "y"} THEN [shown EXCEPT !.at = 1] ELSE shown

\* What the operations do to pins and control register.
Driven(p, l, level) == [p EXCEPT ![l] = level]
Disabled(c) == [c EXCEPT !.SPE = FALSE]
Enabled(cfg) == [SPE |-> TRUE, cfg |-> cfg]

\* A byte may be on its way: pins and configuration are right for it, and its
\* device alone listens, of those whose pins are set up.
RightFor(up, p, c, byte) ==
  /\ Listens(p) \cap up = {byte.to}
  /\ c = Enabled(spi_cfg[byte.to])
  /\ byte.to = "lcd" => p.lcd_ds = byte.ds

\* An operation takes the bus from one phase to another.  Pins and configuration
\* change in quiet.
Takes(up, a, o, b) ==
  \/ /\ o.op = "pin" /\ a.bus = "quiet"
     /\ b = Phase(Driven(a.pin, o.pin, o.level), a.cr1, "quiet", a.sent, a.shown)
  \/ /\ o.op = "not_busy" /\ a.bus \in {"quiet", "display"}
     /\ b = Phase(a.pin, a.cr1, "quiet", a.sent, a.shown)
  \/ /\ o.op = "send" /\ a.bus \in {"quiet", "display"}
     /\ RightFor(up, a.pin, a.cr1, o.byte) /\ o.byte.to = "lcd"
     /\ b = Phase(a.pin, a.cr1, "display", a.sent, Shown(a.shown, o.byte, a.pin))
  \/ /\ o.op = "send" /\ a.bus = "quiet"
     /\ RightFor(up, a.pin, a.cr1, o.byte) /\ o.byte.to = "nrf" /\ "lcd" \notin Listens(a.pin)
     /\ b = Phase(a.pin, a.cr1, "answer", o.byte, a.shown)
  \/ /\ o.op = "receive" /\ a.bus = "answer" /\ a.sent = o.byte
     /\ b = Phase(a.pin, a.cr1, "quiet", a.sent, a.shown)
  \/ /\ o.op = "disable" /\ a.bus = "quiet"
     /\ b = Phase(a.pin, Disabled(a.cr1), "quiet", a.sent, a.shown)
  \/ /\ o.op = "configure" /\ a.bus = "quiet"
     /\ b = Phase(a.pin, Enabled(o.cfg), "quiet", a.sent, a.shown)

\* A sequence of operations takes the bus from one phase to another, by way of
\* those in between.
Through(up, s, ph) == \A k \in 1 .. Len(s) : Takes(up, ph[k - 1], s[k], ph[k])
Runs(up, s, a, b) ==
  \E S : s \in Seq(S) /\ \E ph : ph[0] = a /\ ph[Len(s)] = b /\ Through(up, s, ph)

\* To show that there are phases in between it is enough to name them.
LEMMA RunsWitness ==
  ASSUME NEW up, NEW s, NEW a, NEW b, NEW S, NEW ph, s \in Seq(S),
         ph[0] = a, ph[Len(s)] = b, Through(up, s, ph)
  PROVE  Runs(up, s, a, b)
BY DEF Runs

\* Nothing to do.
LEMMA RunsNothing ==
  ASSUME NEW up, NEW a
  PROVE  Runs(up, <<>>, a, a)
<1>1. <<>> \in Seq({}) /\ Len(<<>>) = 0
  OBVIOUS
<1> DEFINE ph == [k \in {0} |-> a]
<1>2. ph[0] = a
  OBVIOUS
<1> HIDE DEF ph
<1>3. Through(up, <<>>, ph)
  BY <1>1 DEF Through
<1>4. QED
  BY <1>1, <1>2, <1>3, RunsWitness

LEMMA RunsNowhere ==
  ASSUME NEW up, NEW s, s = <<>>, NEW a, NEW b, Runs(up, s, a, b)
  PROVE  a = b
BY DEF Runs

\* One operation.
One(o) == <<o>>

LEMMA RunsOne ==
  ASSUME NEW up, NEW o, NEW a, NEW b, Takes(up, a, o, b)
  PROVE  Runs(up, One(o), a, b)
<1> DEFINE ph == [k \in {0, 1} |-> IF k = 0 THEN a ELSE b]
           S == {o}
<1>1. One(o) \in Seq(S) /\ Len(One(o)) = 1 /\ One(o)[1] = o
  BY DEF One
<1>2. ph[0] = a /\ ph[1] = b
  OBVIOUS
<1> HIDE DEF ph, S
<1>3. Through(up, One(o), ph)
  BY <1>1, <1>2 DEF Through
<1>4. One(o) \in Seq(S) /\ ph[0] = a /\ ph[Len(One(o))] = b
  BY <1>1, <1>2
<1>5. QED
  BY <1>3, <1>4, RunsWitness

\* One sequence after another.
LEMMA RunsBoth ==
  ASSUME NEW up, NEW s, NEW t, NEW a, NEW b, NEW c,
         Runs(up, s, a, b), Runs(up, t, b, c)
  PROVE  Runs(up, s \o t, a, c)
<1>1. PICK S : s \in Seq(S) /\ \E p : p[0] = a /\ p[Len(s)] = b /\ Through(up, s, p)
  BY DEF Runs
<1>2. PICK T : t \in Seq(T) /\ \E q : q[0] = b /\ q[Len(t)] = c /\ Through(up, t, q)
  BY DEF Runs
<1>3. PICK p : p[0] = a /\ p[Len(s)] = b /\ Through(up, s, p)
  BY <1>1
<1>4. PICK q : q[0] = b /\ q[Len(t)] = c /\ Through(up, t, q)
  BY <1>2
<1> DEFINE U == S \cup T
           m == Len(s)
           n == Len(t)
           st == s \o t
           ph == [k \in 0 .. m + n |-> IF k <= m THEN p[k] ELSE q[k - m]]
<1>5. s \in Seq(U) /\ t \in Seq(U) /\ m \in Nat /\ n \in Nat
  BY <1>1, <1>2, SeqMonotonic, LenProperties
<1>6. /\ st \in Seq(U) /\ Len(st) = m + n
      /\ \A i \in 1 .. m : st[i] = s[i]
      /\ \A i \in m + 1 .. m + n : st[i] = t[i - m]
  BY <1>5, ConcatProperties
<1>7. /\ p[m] = b /\ \A k \in 1 .. m : Takes(up, p[k - 1], s[k], p[k])
      /\ q[n] = c /\ \A k \in 1 .. n : Takes(up, q[k - 1], t[k], q[k])
  BY <1>3, <1>4 DEF Through
<1> HIDE DEF m, n, U, st
<1>8. /\ \A k \in 0 .. m : ph[k] = p[k]
      /\ \A k \in m + 1 .. m + n : ph[k] = q[k - m]
  BY <1>5, SMTT(30)
<1> HIDE DEF ph
<1>9. \A k \in m .. m + n : ph[k] = q[k - m]
  <2>1. ph[m] = p[m] /\ m - m = 0 /\ p[m] = b /\ q[0] = b
    BY <1>4, <1>5, <1>7, <1>8
  <2>2. ASSUME NEW k \in m .. m + n PROVE ph[k] = q[k - m]
    <3>1. CASE k = m
      BY <2>1, <3>1
    <3>2. CASE k # m
      <4>1. k \in m + 1 .. m + n
        BY <1>5, <3>2
      <4>2. QED
        BY <1>8, <4>1
    <3>3. QED
      BY <3>1, <3>2
  <2>3. QED
    BY <2>2
<1>10. ph[0] = a /\ ph[m + n] = c
  <2>1. 0 \in 0 .. m /\ m + n \in m .. m + n /\ (m + n) - m = n
    BY <1>5
  <2>2. ph[0] = p[0] /\ ph[m + n] = q[n]
    BY <1>8, <1>9, <2>1
  <2>3. QED
    BY <1>3, <1>7, <2>2
<1>11. ASSUME NEW k \in 1 .. m PROVE Takes(up, ph[k - 1], st[k], ph[k])
  <2>1. k \in 0 .. m /\ k - 1 \in 0 .. m
    BY <1>5
  <2>2. ph[k - 1] = p[k - 1] /\ ph[k] = p[k] /\ st[k] = s[k]
    BY <1>6, <1>8, <2>1
  <2>3. Takes(up, p[k - 1], s[k], p[k])
    BY <1>7
  <2>4. QED
    BY <2>2, <2>3
<1>12. ASSUME NEW k \in m + 1 .. m + n
       PROVE  Takes(up, ph[k - 1], st[k], ph[k])
  <2>1. /\ k \in m .. m + n /\ k - 1 \in m .. m + n /\ k - m \in 1 .. n
        /\ (k - 1) - m = (k - m) - 1
    BY <1>5
  <2>2. ph[k - 1] = q[(k - m) - 1] /\ ph[k] = q[k - m] /\ st[k] = t[k - m]
    BY <1>6, <1>9, <2>1
  <2>3. Takes(up, q[(k - m) - 1], t[k - m], q[k - m])
    BY <1>7, <2>1
  <2>4. QED
    BY <2>2, <2>3
<1>13. Through(up, st, ph)
  <2>1. ASSUME NEW k \in 1 .. m + n PROVE k \in 1 .. m \/ k \in m + 1 .. m + n
    BY <1>5
  <2>2. QED
    BY <1>6, <1>11, <1>12, <2>1 DEF Through
<1>14. st \in Seq(U) /\ ph[Len(st)] = c
  BY <1>6, <1>10
<1>15. QED
  <2>1. Runs(up, st, a, c)
    BY <1>10, <1>13, <1>14, RunsWitness
  <2>2. QED
    BY <2>1 DEF st

\* The first operation and the rest.
LEMMA RunsFirst ==
  ASSUME NEW up, NEW s, NEW a, NEW c, Runs(up, s, a, c), s # <<>>
  PROVE  \E b : Takes(up, a, Head(s), b) /\ Runs(up, Tail(s), b, c)
<1>1. PICK S : s \in Seq(S) /\ \E p : p[0] = a /\ p[Len(s)] = c /\ Through(up, s, p)
  BY DEF Runs
<1>2. PICK p : p[0] = a /\ p[Len(s)] = c /\ Through(up, s, p)
  BY <1>1
<1>3. /\ Len(s) \in Nat \ {0} /\ Head(s) = s[1] /\ Tail(s) \in Seq(S)
      /\ Len(Tail(s)) = Len(s) - 1
      /\ \A i \in 1 .. Len(s) - 1 : Tail(s)[i] = s[i + 1]
  <2>1. s \in Seq(S)
    BY <1>1
  <2>2. Len(s) \in Nat \ {0}
    BY <2>1, EmptySeq
  <2>3. QED
    BY <2>1, <2>2, HeadTailProperties
<1> DEFINE n == Len(s) - 1
           q == [k \in 0 .. n |-> p[k + 1]]
<1>4. n \in Nat /\ Len(Tail(s)) = n /\ n + 1 = Len(s)
  BY <1>3
<1> HIDE DEF n
<1>5. \A k \in 1 .. n + 1 : Takes(up, p[k - 1], s[k], p[k])
  BY <1>2, <1>4 DEF Through
<1>6. Takes(up, a, Head(s), p[1])
  <2>1. 1 \in 1 .. n + 1 /\ 1 - 1 = 0
    BY <1>4
  <2>2. Takes(up, p[1 - 1], s[1], p[1])
    BY <1>5, <2>1
  <2>3. QED
    BY <1>2, <1>3, <2>1, <2>2
<1>7. q[0] = p[1] /\ q[n] = c
  BY <1>2, <1>4
<1>8. ASSUME NEW k \in 1 .. n PROVE Takes(up, q[k - 1], Tail(s)[k], q[k])
  <2>1. /\ k + 1 \in 1 .. n + 1 /\ k - 1 \in 0 .. n /\ k \in 0 .. n
        /\ (k - 1) + 1 = k /\ (k + 1) - 1 = k /\ k \in 1 .. Len(s) - 1
    BY <1>4
  <2>2. q[k - 1] = p[(k + 1) - 1] /\ q[k] = p[k + 1] /\ Tail(s)[k] = s[k + 1]
    BY <1>3, <2>1
  <2>3. QED
    BY <1>5, <2>1, <2>2
<1> HIDE DEF q
<1>9. Through(up, Tail(s), q)
  BY <1>4, <1>8 DEF Through
<1>10. Runs(up, Tail(s), p[1], c)
  <2> DEFINE st == Tail(s)
  <2>1. q[0] = p[1] /\ q[Len(st)] = c /\ st \in Seq(S) /\ Through(up, st, q)
    BY <1>3, <1>4, <1>7, <1>9
  <2> HIDE DEF st
  <2>2. Runs(up, st, p[1], c)
    BY <2>1, RunsWitness
  <2>3. QED
    BY <2>2 DEF st
<1>11. QED
  BY <1>6, <1>10
-----------------------------------------------------------------------------
(* The operations, one by one. *)

Quiet(p, c, sent, shown) == Phase(p, c, "quiet", sent, shown)

LEMMA RunsTwo ==
  ASSUME NEW up, NEW o1, NEW o2, NEW a, NEW b, NEW c,
         Takes(up, a, o1, b), Takes(up, b, o2, c)
  PROVE  Runs(up, One(o1) \o One(o2), a, c)
<1>1. Runs(up, One(o1), a, b) /\ Runs(up, One(o2), b, c)
  BY RunsOne
<1>2. QED
  BY <1>1, RunsBoth

Two(o1, o2) == <<o1, o2>>

LEMMA RunsPair ==
  ASSUME NEW up, NEW o1, NEW o2, NEW a, NEW b, NEW c,
         Takes(up, a, o1, b), Takes(up, b, o2, c)
  PROVE  Runs(up, Two(o1, o2), a, c)
<1> DEFINE ph == [k \in {0, 1, 2} |-> IF k = 0 THEN a ELSE IF k = 1 THEN b ELSE c]
           S == {o1, o2}
           s == Two(o1, o2)
<1>1. s \in Seq(S) /\ Len(s) = 2 /\ s[1] = o1 /\ s[2] = o2
  BY DEF Two
<1>2. ph[0] = a /\ ph[1] = b /\ ph[2] = c
  OBVIOUS
<1> HIDE DEF ph, S, s
<1>3. Through(up, s, ph)
  BY <1>1, <1>2 DEF Through
<1>4. s \in Seq(S) /\ ph[0] = a /\ ph[Len(s)] = c
  BY <1>1, <1>2
<1>5. Runs(up, s, a, c)
  BY <1>3, <1>4, RunsWitness
<1>6. QED
  BY <1>5 DEF s

Drive(l, level) == <<[op |-> "pin", pin |-> l, level |-> level]>>

LEMMA DriveRuns ==
  ASSUME NEW up, NEW p, NEW c, NEW sent, NEW shown, NEW l, NEW level
  PROVE  Runs(up, Drive(l, level), Quiet(p, c, sent, shown),
              Quiet(Driven(p, l, level), c, sent, shown))
<1> DEFINE o == [op |-> "pin", pin |-> l, level |-> level]
           a == Quiet(p, c, sent, shown)
           b == Quiet(Driven(p, l, level), c, sent, shown)
<1>1. Takes(up, a, o, b)
  BY DEF Takes, Quiet, Phase, Driven
<1> HIDE DEF o, a, b
<1>2. Runs(up, One(o), a, b)
  BY <1>1, RunsOne
<1>3. QED
  BY <1>2 DEF o, a, b, Drive, One

LEMMA WaitRuns ==
  ASSUME NEW up, NEW p, NEW c, NEW bus \in {"quiet", "display"}, NEW sent, NEW shown
  PROVE  Runs(up, wait_not_busy, Phase(p, c, bus, sent, shown), Quiet(p, c, sent, shown))
<1> DEFINE o == [op |-> "not_busy"]
           a == Phase(p, c, bus, sent, shown)
           b == Quiet(p, c, sent, shown)
<1>1. Takes(up, a, o, b)
  BY DEF Takes, Quiet, Phase
<1> HIDE DEF o, a, b
<1>2. Runs(up, One(o), a, b)
  BY <1>1, RunsOne
<1>3. QED
  BY <1>2 DEF wait_not_busy, o, a, b, One

LEMMA ReconfigureRuns ==
  ASSUME NEW up, NEW p, NEW c, NEW sent, NEW shown, NEW cfg
  PROVE  Runs(up, reconfigure(cfg), Quiet(p, c, sent, shown), Quiet(p, Enabled(cfg), sent, shown))
<1> DEFINE off == Disabled(c)
           o1 == [op |-> "disable"]
           o2 == [op |-> "configure", cfg |-> cfg]
           a == Quiet(p, c, sent, shown)
           m == Quiet(p, off, sent, shown)
           b == Quiet(p, Enabled(cfg), sent, shown)
<1>1. Takes(up, a, o1, m)
  BY DEF Takes, Quiet, Phase
<1>2. Takes(up, m, o2, b)
  BY DEF Takes, Quiet, Phase, Enabled
<1>3. reconfigure(cfg) = Two(o1, o2)
  BY DEF reconfigure, Two
<1> HIDE DEF off, o1, o2, a, m, b
<1>4. Runs(up, reconfigure(cfg), a, b)
  BY <1>1, <1>2, <1>3, RunsPair
<1>5. QED
  BY <1>4 DEF a, b

\* A byte for the radio, with the display deselected, and the answer to it.
LEMMA TransferRuns ==
  ASSUME NEW up, NEW p, NEW c, NEW sent, NEW shown, NEW byte, byte.to = "nrf",
         RightFor(up, p, c, byte), "lcd" \notin Listens(p)
  PROVE  Runs(up, writeread_blocking(byte), Quiet(p, c, sent, shown), Quiet(p, c, byte, shown))
<1> DEFINE o1 == [op |-> "send", byte |-> byte]
           o2 == [op |-> "receive", byte |-> byte]
           a == Quiet(p, c, sent, shown)
           m == Phase(p, c, "answer", byte, shown)
           b == Quiet(p, c, byte, shown)
<1>1. Takes(up, a, o1, m)
  BY DEF Takes, Quiet, Phase
<1>2. Takes(up, m, o2, b)
  BY DEF Takes, Quiet, Phase
<1>3. writeread_blocking(byte) = One(o1) \o One(o2)
  BY DEF writeread_blocking, send_blocking, One
<1> HIDE DEF a, m, b, o1, o2
<1>4. Runs(up, writeread_blocking(byte), a, b)
  BY <1>1, <1>2, <1>3, RunsTwo
<1>5. QED
  BY <1>4 DEF a, b

\* Bytes for the display, one after another: show[k] is what it holds after k.
Shows(up, p, c, n, bytes, show) ==
  \A k \in 1 .. n : /\ bytes[k].to = "lcd" /\ RightFor(up, p, c, bytes[k])
                    /\ show[k] = Shown(show[k - 1], bytes[k], p)
Sends(up, p, c, bytes, first, last) ==
  \E n \in Nat \ {0} : DOMAIN bytes = 1 .. n /\
    \E show : show[0] = first /\ show[n] = last /\ Shows(up, p, c, n, bytes, show)

LEMMA SendsRun ==
  ASSUME NEW up, NEW p, NEW c, NEW bus \in {"quiet", "display"}, NEW sent, NEW bytes,
         NEW shown, NEW last, Sends(up, p, c, bytes, shown, last)
  PROVE  Runs(up, LcdSend(bytes), Phase(p, c, bus, sent, shown), Phase(p, c, "display", sent, last))
<1> PICK n \in Nat \ {0} : DOMAIN bytes = 1 .. n /\
      \E show : show[0] = shown /\ show[n] = last /\ Shows(up, p, c, n, bytes, show)
  BY DEF Sends
<1> PICK show : show[0] = shown /\ show[n] = last /\ Shows(up, p, c, n, bytes, show)
  OBVIOUS
<1> DEFINE s == LcdSend(bytes)
           S == {[op |-> "send", byte |-> bytes[i]] : i \in 1 .. n}
           on(k) == IF k = 0 THEN bus ELSE "display"
           ph == [k \in 0 .. n |-> Phase(p, c, on(k), sent, show[k])]
<1>1. s = [i \in 1 .. n |-> [op |-> "send", byte |-> bytes[i]]]
  BY DEF LcdSend
<1>2. s \in Seq(S) /\ Len(s) = n
  <2>1. s \in [1 .. n -> S]
    <3> HIDE DEF s
    <3>1. QED
      BY <1>1
  <2>2. s \in Seq(S)
    <3> HIDE DEF s, S
    <3>1. QED
      BY <2>1, SeqDef
  <2>3. DOMAIN s = 1 .. n /\ DOMAIN s = 1 .. Len(s) /\ Len(s) \in Nat
    BY <2>1, <2>2, LenProperties
  <2>4. QED
    BY <2>2, <2>3
<1>3. \A k \in 1 .. n : s[k] = [op |-> "send", byte |-> bytes[k]]
  BY <1>1
<1>4. \A k \in 0 .. n : ph[k] = Phase(p, c, on(k), sent, show[k])
  OBVIOUS
<1> HIDE DEF s, S, ph
<1>5. ASSUME NEW k \in 1 .. n PROVE Takes(up, ph[k - 1], s[k], ph[k])
  <2>1. k - 1 \in 0 .. n /\ k \in 0 .. n /\ k # 0
    OBVIOUS
  <2> DEFINE o == [op |-> "send", byte |-> bytes[k]]
             a == Phase(p, c, on(k - 1), sent, show[k - 1])
             b == Phase(p, c, "display", sent, Shown(show[k - 1], bytes[k], p))
  <2>2. RightFor(up, p, c, bytes[k]) /\ bytes[k].to = "lcd"
    BY DEF Shows
  <2>3. on(k - 1) \in {"quiet", "display"}
    OBVIOUS
  <2> HIDE DEF on
  <2>4. Takes(up, a, o, b)
    BY <2>2, <2>3 DEF Takes, Phase
  <2>5. ph[k - 1] = a /\ s[k] = o
    BY <1>3, <1>4, <2>1
  <2>6. ph[k] = b
    <3>1. on(k) = "display"
      BY <2>1 DEF on
    <3>2. QED
      BY <1>4, <2>1, <3>1 DEF Shows
  <2>7. QED
    BY <2>4, <2>5, <2>6
<1>6. Through(up, s, ph)
  BY <1>2, <1>5 DEF Through
<1>7. /\ ph[0] = Phase(p, c, bus, sent, shown)
      /\ ph[Len(s)] = Phase(p, c, "display", sent, last)
  BY <1>2, <1>4
<1>8. Runs(up, s, Phase(p, c, bus, sent, shown), Phase(p, c, "display", sent, last))
  BY <1>2, <1>6, <1>7, RunsWitness
<1>9. QED
  BY <1>8 DEF s
-----------------------------------------------------------------------------
(* The driver functions of the radio. *)

\* Nothing is selected, the display is out of its reset.
Idle(p) ==
  /\ p \in [Pins -> {Low, High}]
  /\ p.lcd_e = High /\ p.lcd_reset = High /\ p.nrf_csn = High

\* From pins p and configuration c to q and d, in quiet, and nothing shown.
Brings(s, p, c, q, d, shown) ==
  \A sent : \E last : Runs(Devices, s, Quiet(p, c, sent, shown), Quiet(q, d, last, shown))

LEMMA BringsBoth ==
  ASSUME NEW s, NEW t, NEW p, NEW c, NEW q, NEW d, NEW r, NEW e, NEW shown,
         Brings(s, p, c, q, d, shown), Brings(t, q, d, r, e, shown)
  PROVE  Brings(s \o t, p, c, r, e, shown)
<1>1. ASSUME NEW sent
      PROVE  \E last : Runs(Devices, s \o t, Quiet(p, c, sent, shown), Quiet(r, e, last, shown))
  <2>1. PICK middle : Runs(Devices, s, Quiet(p, c, sent, shown), Quiet(q, d, middle, shown))
    BY DEF Brings
  <2>2. PICK last : Runs(Devices, t, Quiet(q, d, middle, shown), Quiet(r, e, last, shown))
    BY DEF Brings
  <2>3. Runs(Devices, s \o t, Quiet(p, c, sent, shown), Quiet(r, e, last, shown))
    BY <2>1, <2>2, RunsBoth
  <2>4. QED
    BY <2>3
<1>2. QED
  BY <1>1 DEF Brings

LEMMA BringsNothing == ASSUME NEW p, NEW c, NEW shown PROVE Brings(<<>>, p, c, p, c, shown)
<1>1. ASSUME NEW sent PROVE Runs(Devices, <<>>, Quiet(p, c, sent, shown), Quiet(p, c, sent, shown))
  BY RunsNothing
<1>2. QED
  BY <1>1 DEF Brings

\* The radio selected and deselected.
Selected(p) == Driven(p, "nrf_csn", Low)

LEMMA SelectedPins ==
  ASSUME NEW p, Idle(p)
  PROVE  /\ Listens(Selected(p)) = {"nrf"}
         /\ Driven(Selected(p), "nrf_csn", High) = p
<1> DEFINE q == Selected(p)
<1>1. p \in [Pins -> {0, 1}] /\ p.lcd_e = 1 /\ p.nrf_csn = 1
  BY DEF Idle, Low, High
<1>2. q = [p EXCEPT !["nrf_csn"] = 0]
  BY DEF Selected, Driven, Low
<1>3. q \in [Pins -> {0, 1}] /\ q.lcd_e = 1 /\ q.nrf_csn = 0
  BY <1>1, <1>2 DEF Pins
<1> HIDE DEF q
<1>4. Listens(q) = {"nrf"}
  BY <1>3 DEF Listens, Devices, Low
<1>5. Driven(q, "nrf_csn", High) = p
  <2> DEFINE r == [q EXCEPT !["nrf_csn"] = 1]
  <2>1. r \in [Pins -> {0, 1}] /\ \A l \in Pins : r[l] = p[l]
    BY <1>1, <1>2, <1>3
  <2>2. r = p
    <3> HIDE DEF r
    <3>1. QED
      BY <1>1, <2>1
  <2>3. QED
    BY <2>2 DEF Driven, High
<1>6. QED
  BY <1>4, <1>5 DEF q

LEMMA SelectBrings ==
  ASSUME NEW p, NEW c, NEW shown, Idle(p)
  PROVE  /\ Brings(NrfSelect, p, c, Selected(p), c, shown)
         /\ Brings(NrfDeselect, Selected(p), c, p, c, shown)
<1>1. NrfSelect = Drive("nrf_csn", Low) /\ NrfDeselect = Drive("nrf_csn", High)
  BY DEF NrfSelect, NrfDeselect, Set, Reset, Drive
<1>2. ASSUME NEW sent
      PROVE  /\ Runs(Devices, NrfSelect, Quiet(p, c, sent, shown), Quiet(Selected(p), c, sent, shown))
             /\ Runs(Devices, NrfDeselect, Quiet(Selected(p), c, sent, shown), Quiet(p, c, sent, shown))
  BY <1>1, DriveRuns, SelectedPins DEF Selected
<1>3. QED
  BY <1>2 DEF Brings

\* A byte with the radio selected and configured.
NrfConfig == Enabled(spi_cfg.nrf)
NrfTransfers(s, p, shown) == Brings(s, Selected(p), NrfConfig, Selected(p), NrfConfig, shown)

LEMMA TransferBrings ==
  ASSUME NEW p, NEW shown, Idle(p), NEW cmd, NEW reg, NEW n
  PROVE  NrfTransfers(writeread_blocking(NrfByte(cmd, reg, n)), p, shown)
<1> DEFINE byte == NrfByte(cmd, reg, n)
<1>1. byte.to = "nrf"
  BY DEF NrfByte
<1> HIDE DEF byte
<1>2. "lcd" \notin Listens(Selected(p)) /\ Listens(Selected(p)) = {"nrf"}
  BY SelectedPins
<1>3. RightFor(Devices, Selected(p), NrfConfig, byte)
  <2>1. {"nrf"} \cap Devices = {byte.to} /\ spi_cfg[byte.to] = spi_cfg.nrf
    BY <1>1 DEF Devices
  <2>2. QED
    BY <1>1, <1>2, <2>1 DEF RightFor, NrfConfig, Enabled
<1>4. ASSUME NEW sent
      PROVE  Runs(Devices, writeread_blocking(byte), Quiet(Selected(p), NrfConfig, sent, shown),
                  Quiet(Selected(p), NrfConfig, byte, shown))
  BY <1>1, <1>2, <1>3, TransferRuns
<1>5. Brings(writeread_blocking(byte), Selected(p), NrfConfig, Selected(p), NrfConfig, shown)
  BY <1>4 DEF Brings
<1>6. QED
  BY <1>5 DEF NrfTransfers, byte

\* The transfers of an address, however long it is.
LEMMA AddressBrings ==
  ASSUME NEW p, NEW shown, Idle(p), NEW what, NEW reg
  PROVE  NrfTransfers(AddressTransfer(what, reg), p, shown)
<1> DEFINE byte(i) == NrfByte(what, reg, i)
           Ops == {[op |-> "send", byte |-> byte(i)] : i \in 1 .. AddressBytes}
                    \cup {[op |-> "receive", byte |-> byte(i)] : i \in 1 .. AddressBytes}
           D == {s \in Seq(Ops) : NrfTransfers(s, p, shown)}
           raw == [i \in 1 .. AddressBytes |-> writeread_blocking(byte(i))]
<1>1. ASSUME NEW i \in 1 .. AddressBytes PROVE writeread_blocking(byte(i)) \in Seq(Ops)
  <2> DEFINE s == <<[op |-> "send", byte |-> byte(i)]>>
             t == <<[op |-> "receive", byte |-> byte(i)]>>
  <2>1. s \in Seq(Ops) /\ t \in Seq(Ops)
    OBVIOUS
  <2>2. writeread_blocking(byte(i)) = s \o t
    BY DEF writeread_blocking, send_blocking
  <2> HIDE DEF s, t, Ops
  <2>3. s \o t \in Seq(Ops)
    BY <2>1, ConcatProperties
  <2>4. QED
    BY <2>2, <2>3
<1> HIDE DEF Ops
<1>2. ASSUME NEW i \in 1 .. AddressBytes PROVE writeread_blocking(byte(i)) \in D
  BY <1>1, TransferBrings
<1>3. <<>> \in D
  BY EmptySeq, BringsNothing DEF NrfTransfers
<1>4. ASSUME NEW s \in D, NEW t \in D PROVE s \o t \in D
  <2>1. s \o t \in Seq(Ops)
    BY ConcatProperties
  <2>2. NrfTransfers(s \o t, p, shown)
    BY BringsBoth DEF NrfTransfers
  <2>3. QED
    BY <2>1, <2>2
<1> HIDE DEF D
<1>5. raw \in Seq(D)
  <2>1. raw \in [1 .. AddressBytes -> D] /\ AddressBytes \in Nat
    BY <1>2, BusAssumption
  <2> HIDE DEF raw
  <2>2. QED
    BY <2>1, SeqDef
<1> HIDE DEF raw
<1>6. FlattenSeq(raw) \in D
  BY <1>3, <1>4, <1>5, FlattenClosed
<1>7. AddressTransfer(what, reg) = FlattenSeq(raw)
  BY DEF AddressTransfer, raw
<1>8. QED
  BY <1>6, <1>7 DEF D

\* A function of the radio: select, transfers, deselect.
NrfRuns(s, p, shown) == Brings(s, p, NrfConfig, p, NrfConfig, shown)

LEMMA NrfFunction ==
  ASSUME NEW p, NEW shown, Idle(p), NEW s, NEW t,
         NrfTransfers(s, p, shown), NrfTransfers(t, p, shown)
  PROVE  NrfRuns(NrfSelect \o s \o t \o NrfDeselect, p, shown)
<1>1. Brings(NrfSelect \o s, p, NrfConfig, Selected(p), NrfConfig, shown)
  BY SelectBrings, BringsBoth DEF NrfTransfers
<1>2. Brings(NrfSelect \o s \o t, p, NrfConfig, Selected(p), NrfConfig, shown)
  BY <1>1, BringsBoth DEF NrfTransfers
<1>3. Brings(NrfSelect \o s \o t \o NrfDeselect, p, NrfConfig, p, NrfConfig, shown)
  BY <1>2, SelectBrings, BringsBoth
<1>4. QED
  BY <1>3 DEF NrfRuns

LEMMA NrfFunctions ==
  ASSUME NEW p, NEW shown, Idle(p), NEW reg
  PROVE  /\ NrfRuns(read_register(reg), p, shown)
         /\ NrfRuns(write_register(reg), p, shown)
         /\ NrfRuns(read_address_register(reg), p, shown)
         /\ NrfRuns(write_address_register(reg), p, shown)
<1>1. \A cmd, n : NrfTransfers(writeread_blocking(NrfByte(cmd, reg, n)), p, shown)
  BY TransferBrings
<1>2. \A what : NrfTransfers(AddressTransfer(what, reg), p, shown)
  BY AddressBrings
<1>3. NrfRuns(read_register(reg), p, shown)
  BY <1>1, NrfFunction DEF read_register
<1>4. NrfRuns(write_register(reg), p, shown)
  BY <1>1, NrfFunction DEF write_register
<1>5. NrfRuns(read_address_register(reg), p, shown)
  BY <1>1, <1>2, NrfFunction DEF read_address_register
<1>6. NrfRuns(write_address_register(reg), p, shown)
  BY <1>1, <1>2, NrfFunction DEF write_address_register
<1>7. QED
  BY <1>3, <1>4, <1>5, <1>6

\* All of the command "nrf", from any configuration.
Nrf == NrfEnable \o read_register("status") \o write_register("config")
         \o read_register("config") \o write_address_register("rx_addr_p0")
         \o read_address_register("rx_addr_p0")

LEMMA NrfBrings ==
  ASSUME NEW p, NEW c, NEW shown, Idle(p)
  PROVE  Brings(Nrf, p, c, p, NrfConfig, shown)
<1> DEFINE s1 == read_register("status")
           s2 == write_register("config")
           s3 == read_register("config")
           s4 == write_address_register("rx_addr_p0")
           s5 == read_address_register("rx_addr_p0")
           B(s) == Brings(s, p, c, p, NrfConfig, shown)
<1>1. B(NrfEnable)
  <2>1. ASSUME NEW sent
        PROVE  Runs(Devices, NrfEnable, Quiet(p, c, sent, shown), Quiet(p, NrfConfig, sent, shown))
    BY ReconfigureRuns DEF NrfEnable, NrfConfig
  <2>2. QED
    BY <2>1 DEF Brings
<1>2. /\ NrfRuns(s1, p, shown) /\ NrfRuns(s2, p, shown) /\ NrfRuns(s3, p, shown)
      /\ NrfRuns(s4, p, shown) /\ NrfRuns(s5, p, shown)
  BY NrfFunctions
<1>3. ASSUME NEW s, B(s), NEW t, NrfRuns(t, p, shown) PROVE B(s \o t)
  BY <1>3, BringsBoth DEF NrfRuns
<1> HIDE DEF s1, s2, s3, s4, s5, B
<1>4. B(NrfEnable \o s1)
  BY <1>1, <1>2, <1>3
<1>5. B(NrfEnable \o s1 \o s2)
  BY <1>2, <1>3, <1>4
<1>6. B(NrfEnable \o s1 \o s2 \o s3)
  BY <1>2, <1>3, <1>5
<1>7. B(NrfEnable \o s1 \o s2 \o s3 \o s4)
  BY <1>2, <1>3, <1>6
<1>8. B(NrfEnable \o s1 \o s2 \o s3 \o s4 \o s5)
  BY <1>2, <1>3, <1>7
<1>9. QED
  BY <1>8 DEF Nrf, B, s1, s2, s3, s4, s5
-----------------------------------------------------------------------------
(* The driver functions of the display. *)

Levels == [Pins -> {Low, High}]
LcdConfig == Enabled(spi_cfg.lcd)

LEMMA DrivenPins ==
  ASSUME NEW p \in Levels, NEW l \in Pins, NEW level \in {Low, High}
  PROVE  /\ Driven(p, l, level) \in Levels
         /\ Driven(p, l, level)[l] = level
         /\ \A other \in Pins \ {l} : Driven(p, l, level)[other] = p[other]
BY DEF Driven, Levels

LEMMA LcdPins ==
  ASSUME NEW up, NEW p, NEW c, NEW bus \in {"quiet", "display"}, NEW sent, NEW shown
  PROVE  /\ Runs(up, LcdSelect, Quiet(p, c, sent, shown), Quiet(Driven(p, "lcd_e", Low), c, sent, shown))
         /\ Runs(up, select_command, Quiet(p, c, sent, shown),
                 Quiet(Driven(p, "lcd_ds", Low), c, sent, shown))
         /\ Runs(up, select_data, Phase(p, c, bus, sent, shown),
                 Quiet(Driven(p, "lcd_ds", High), c, sent, shown))
         /\ Runs(up, LcdDeselect, Phase(p, c, bus, sent, shown),
                 Quiet(Driven(p, "lcd_e", High), c, sent, shown))
<1>1. \A l, level : Runs(up, Drive(l, level), Quiet(p, c, sent, shown),
                         Quiet(Driven(p, l, level), c, sent, shown))
  BY DriveRuns
<1>2. Runs(up, wait_not_busy, Phase(p, c, bus, sent, shown), Quiet(p, c, sent, shown))
  BY WaitRuns
<1>3. \A l, level : Runs(up, wait_not_busy \o Drive(l, level), Phase(p, c, bus, sent, shown),
                         Quiet(Driven(p, l, level), c, sent, shown))
  BY <1>1, <1>2, RunsBoth
<1> Runs(up, wait_not_busy \o Drive("lcd_ds", Low), Quiet(p, c, sent, shown),
         Quiet(Driven(p, "lcd_ds", Low), c, sent, shown))
  <2>1. Runs(up, wait_not_busy, Quiet(p, c, sent, shown), Quiet(p, c, sent, shown))
    BY WaitRuns DEF Quiet
  <2>2. QED
    BY <1>1, <2>1, RunsBoth
<1>4. /\ LcdSelect = Drive("lcd_e", Low)
      /\ select_command = wait_not_busy \o Drive("lcd_ds", Low)
      /\ select_data = wait_not_busy \o Drive("lcd_ds", High)
      /\ LcdDeselect = wait_not_busy \o Drive("lcd_e", High)
  BY DEF LcdSelect, select_command, select_data, LcdDeselect, Drive, Set, Reset
<1>5. QED
  BY <1>1, <1>3, <1>4

LEMMA LcdRight ==
  ASSUME NEW up, NEW p, Listens(p) \cap up = {"lcd"},
         NEW byte, byte.to = "lcd", byte.ds = p.lcd_ds
  PROVE  RightFor(up, p, LcdConfig, byte)
<1>1. spi_cfg[byte.to] = spi_cfg.lcd /\ {byte.to} = {"lcd"}
  OBVIOUS
<1>2. QED
  BY <1>1 DEF RightFor, LcdConfig, Enabled

\* The commands of initialization leave the display as it is.
LEMMA InitCommandsRun ==
  ASSUME NEW up, NEW p, Listens(p) \cap up = {"lcd"}, p.lcd_ds = Low, NEW sent, NEW shown
  PROVE  Runs(up, LcdSend(InitCommands), Quiet(p, LcdConfig, sent, shown),
              Phase(p, LcdConfig, "display", sent, shown))
<1> DEFINE show == [k \in 0 .. 7 |-> shown]
<1>1. \A k \in 1 .. 7 : InitCommands[k] = Command("init")
  BY DEF InitCommands
<1>2. DOMAIN InitCommands = 1 .. 7
  BY DEF InitCommands
<1>3. /\ Command("init").to = "lcd" /\ Command("init").ds = Low
      /\ Shown(shown, Command("init"), p) = shown
  BY DEF Command, Shown, High, Low
<1>4. RightFor(up, p, LcdConfig, Command("init"))
  BY <1>3, LcdRight
<1>5. show[0] = shown /\ show[7] = shown /\ \A k \in 1 .. 7 : show[k] = shown /\ show[k - 1] = shown
  OBVIOUS
<1> HIDE DEF show
<1>6. \A k \in 1 .. 7 : /\ InitCommands[k].to = "lcd"
                        /\ RightFor(up, p, LcdConfig, InitCommands[k])
                        /\ show[k] = Shown(show[k - 1], InitCommands[k], p)
  BY <1>1, <1>3, <1>4, <1>5
<1>7. Shows(up, p, LcdConfig, 7, InitCommands, show)
  BY <1>6 DEF Shows
<1>8. Sends(up, p, LcdConfig, InitCommands, shown, shown)
  BY <1>2, <1>5, <1>7 DEF Sends
<1>9. QED
  BY <1>8, SendsRun DEF Quiet

\* Lcd::init()
LEMMA LcdInitRuns ==
  ASSUME NEW p \in Levels, NEW c, NEW sent, NEW shown
  PROVE  \E q \in Levels :
           /\ q.lcd_e = High /\ q.lcd_reset = High
           /\ Runs({"lcd"}, LcdInit, Quiet(p, c, sent, shown), Quiet(q, LcdConfig, sent, shown))
<1> DEFINE up == {"lcd"}
           p1 == Driven(p, "lcd_ds", High)
           p2 == Driven(p1, "lcd_e", High)
           p3 == Driven(p2, "lcd_reset", High)
           p4 == Driven(p3, "lcd_reset", Low)
           p5 == Driven(p4, "lcd_reset", High)
           p6 == Driven(p5, "lcd_e", Low)
           p7 == Driven(p6, "lcd_ds", Low)
           p8 == Driven(p7, "lcd_e", High)
           Q(q) == Quiet(q, c, sent, shown)
           E(q) == Quiet(q, LcdConfig, sent, shown)
           s1 == Drive("lcd_ds", High) \o Drive("lcd_e", High) \o Drive("lcd_reset", High)
                   \o Drive("lcd_reset", Low) \o Drive("lcd_reset", High)
           s2 == s1 \o LcdEnable \o LcdSelect \o select_command
           s3 == s2 \o LcdSend(InitCommands) \o LcdDeselect
<1>1. LcdInit = s3
  BY DEF LcdInit, Set, Reset, Drive
<1>2. Runs(up, s1, Q(p), Q(p5))
  <2>1. /\ Runs(up, Drive("lcd_ds", High), Q(p), Q(p1))
        /\ Runs(up, Drive("lcd_e", High), Q(p1), Q(p2))
        /\ Runs(up, Drive("lcd_reset", High), Q(p2), Q(p3))
        /\ Runs(up, Drive("lcd_reset", Low), Q(p3), Q(p4))
        /\ Runs(up, Drive("lcd_reset", High), Q(p4), Q(p5))
    BY DriveRuns
  <2> HIDE DEF Q, p1, p2, p3, p4, p5, up
  <2>2. Runs(up, Drive("lcd_ds", High) \o Drive("lcd_e", High), Q(p), Q(p2))
    BY <2>1, RunsBoth
  <2>3. Runs(up, Drive("lcd_ds", High) \o Drive("lcd_e", High) \o Drive("lcd_reset", High), Q(p), Q(p3))
    BY <2>1, <2>2, RunsBoth
  <2>4. Runs(up, Drive("lcd_ds", High) \o Drive("lcd_e", High) \o Drive("lcd_reset", High)
                   \o Drive("lcd_reset", Low), Q(p), Q(p4))
    BY <2>1, <2>3, RunsBoth
  <2>5. QED
    BY <2>1, <2>4, RunsBoth
<1>3. Runs(up, LcdEnable, Q(p5), E(p5))
  BY ReconfigureRuns DEF LcdEnable, LcdConfig
<1>4. /\ Runs(up, LcdSelect, E(p5), E(p6))
      /\ Runs(up, select_command, E(p6), E(p7))
      /\ Runs(up, LcdDeselect, Phase(p7, LcdConfig, "display", sent, shown), E(p8))
  BY LcdPins, SMTT(30)
<1>5. /\ p1 \in Levels /\ p2 \in Levels /\ p3 \in Levels /\ p4 \in Levels
      /\ p5 \in Levels /\ p5.lcd_reset = High
  BY DrivenPins DEF Pins
<1> HIDE DEF p1, p2, p3, p4, p5
<1>6. p6 \in Levels /\ p6.lcd_reset = High /\ p6.lcd_e = Low
  BY <1>5, DrivenPins DEF Pins
<1> HIDE DEF p6
<1>7. p7 \in Levels /\ p7.lcd_reset = High /\ p7.lcd_e = Low /\ p7.lcd_ds = Low
  BY <1>6, DrivenPins DEF Pins
<1> HIDE DEF p7
<1>8. p8 \in Levels /\ p8.lcd_reset = High /\ p8.lcd_e = High
  BY <1>7, DrivenPins DEF Pins
<1>9. Listens(p7) \cap up = {"lcd"}
  BY <1>7 DEF Listens, Devices
<1>10. Runs(up, LcdSend(InitCommands), E(p7), Phase(p7, LcdConfig, "display", sent, shown))
  BY <1>7, <1>9, InitCommandsRun
<1> HIDE DEF p8, Q, E, s1, up
<1>11. Runs(up, s1 \o LcdEnable, Q(p), E(p5))
  BY <1>2, <1>3, RunsBoth
<1>12. Runs(up, s1 \o LcdEnable \o LcdSelect, Q(p), E(p6))
  BY <1>4, <1>11, RunsBoth
<1>13. Runs(up, s2, Q(p), E(p7))
  BY <1>4, <1>12, RunsBoth
<1> HIDE DEF s2
<1>14. Runs(up, s2 \o LcdSend(InitCommands), Q(p), Phase(p7, LcdConfig, "display", sent, shown))
  BY <1>10, <1>13, RunsBoth
<1>15. Runs(up, s3, Q(p), E(p8))
  BY <1>4, <1>14, RunsBoth
<1> HIDE DEF s3
<1>16. Runs({"lcd"}, LcdInit, Quiet(p, c, sent, shown), Quiet(p8, LcdConfig, sent, shown))
  BY <1>1, <1>15 DEF up, Q, E
<1>17. QED
  BY <1>8, <1>16
\* The display's address and its rows.
Holds(at, ram) == [at |-> at, ram |-> ram]
Rams(ram) == ram = [i \in 1 .. VideoBytes |-> ram[i]]

\* The commands that set the address to the start.
Origin == <<Command("x"), Command("y")>>

LEMMA OriginSends ==
  ASSUME NEW up, NEW p, Listens(p) \cap up = {"lcd"}, p.lcd_ds = Low, NEW at, NEW ram
  PROVE  Sends(up, p, LcdConfig, Origin, Holds(at, ram), Holds(1, ram))
<1> DEFINE show == [k \in 0 .. 2 |-> IF k = 0 THEN Holds(at, ram) ELSE Holds(1, ram)]
           bytes == Origin
<1>1. /\ DOMAIN bytes = 1 .. 2
      /\ \A k \in 1 .. 2 : bytes[k] = Command("x") \/ bytes[k] = Command("y")
  BY DEF Origin
<1>2. show[0] = Holds(at, ram) /\ \A k \in 1 .. 2 : show[k] = Holds(1, ram)
  OBVIOUS
<1> HIDE DEF show, bytes
<1>3. "lcd" \in Listens(p)
  OBVIOUS
<1>4. ASSUME NEW byte, byte = Command("x") \/ byte = Command("y")
      PROVE  /\ byte.to = "lcd" /\ byte.ds = Low
             /\ \A a : Shown(Holds(a, ram), byte, p) = Holds(1, ram)
  <2>1. byte.to = "lcd" /\ byte.ds = Low /\ byte.cmd \in {"x", "y"}
    BY <1>4 DEF Command
  <2>2. ASSUME NEW a PROVE Shown(Holds(a, ram), byte, p) = Holds(1, ram)
    <3>1. Shown(Holds(a, ram), byte, p) = [Holds(a, ram) EXCEPT !.at = 1]
      BY <1>3, <2>1 DEF Shown, Low, High
    <3>2. QED
      BY <3>1 DEF Holds
  <2>3. QED
    BY <2>1, <2>2
<1>5. ASSUME NEW k \in 1 .. 2
      PROVE  /\ bytes[k].to = "lcd" /\ RightFor(up, p, LcdConfig, bytes[k])
             /\ show[k] = Shown(show[k - 1], bytes[k], p)
  <2>1. bytes[k].to = "lcd" /\ bytes[k].ds = Low
    BY <1>1, <1>4
  <2>2. RightFor(up, p, LcdConfig, bytes[k])
    BY <2>1, LcdRight
  <2>3. PICK a : show[k - 1] = Holds(a, ram)
    BY <1>2
  <2>4. Shown(show[k - 1], bytes[k], p) = Holds(1, ram)
    BY <1>1, <1>4, <2>3, SMTT(30)
  <2>5. QED
    BY <1>2, <2>1, <2>2, <2>4
<1>6. Shows(up, p, LcdConfig, 2, bytes, show)
  BY <1>5 DEF Shows
<1>7. show[2] = Holds(1, ram)
  BY <1>2
<1>8. Sends(up, p, LcdConfig, bytes, Holds(at, ram), Holds(1, ram))
  BY <1>1, <1>2, <1>6, <1>7 DEF Sends
<1>9. QED
  BY <1>8 DEF bytes

\* The bytes of a picture, from the address at the start.
Picture(video) == [i \in 1 .. VideoBytes |-> video[i]]
PictureBytes(video) == [i \in 1 .. VideoBytes |-> Data(video[i])]

PictureShown(up, p, ram, video) ==
  \E at \in 1 .. VideoBytes :
    Sends(up, p, LcdConfig, PictureBytes(video), Holds(1, ram), Holds(at, Picture(video)))

LEMMA PictureSends ==
  ASSUME NEW up, NEW p, Listens(p) \cap up = {"lcd"}, p.lcd_ds = High,
         NEW ram, Rams(ram), NEW video
  PROVE  PictureShown(up, p, ram, video)
<1> DEFINE N == VideoBytes
           at(k) == (k % N) + 1
           part(k) == [i \in 1 .. N |-> IF i <= k THEN video[i] ELSE ram[i]]
           show == [k \in 0 .. N |-> Holds(at(k), part(k))]
           bytes == PictureBytes(video)
<1>1. N \in Nat \ {0}
  BY BusAssumption
<1>2. DOMAIN bytes = 1 .. N /\ \A k \in 1 .. N : bytes[k] = Data(video[k])
  BY DEF PictureBytes
<1>3. \A k \in 0 .. N : show[k] = Holds(at(k), part(k))
  OBVIOUS
<1> HIDE DEF bytes, show, N
<1>4. ASSUME NEW k \in 0 .. N - 1 PROVE at(k) = k + 1
  <2>1. PICK n \in Nat \ {0} : n = N
    BY <1>1
  <2>2. k % n = k
    BY <2>1
  <2>3. QED
    BY <2>1, <2>2
<1>5. at(N) \in 1 .. N
  BY <1>1
<1>6. part(0) = ram /\ part(N) = Picture(video)
  BY <1>1 DEF Rams, Picture, N
<1>7. ASSUME NEW k \in 1 .. N
      PROVE  /\ bytes[k].to = "lcd" /\ RightFor(up, p, LcdConfig, bytes[k])
             /\ show[k] = Shown(show[k - 1], bytes[k], p)
  <2>1. bytes[k].to = "lcd" /\ bytes[k].ds = High /\ bytes[k].row = video[k]
    BY <1>2 DEF Data
  <2>2. RightFor(up, p, LcdConfig, bytes[k])
    BY <2>1, LcdRight
  <2>3. /\ k - 1 \in 0 .. N - 1 /\ k - 1 \in 0 .. N /\ k \in 0 .. N
        /\ (k - 1) + 1 = k
    BY <1>1
  <2>4. at(k - 1) = k
    BY <1>4, <2>3
  <2> HIDE DEF at
  <2>5. show[k - 1] = Holds(k, part(k - 1))
    BY <1>3, <2>3, <2>4
  <2>6. "lcd" \in Listens(p)
    OBVIOUS
  <2>7. [part(k - 1) EXCEPT ![k] = video[k]] = part(k)
    <3> DEFINE f == part(k - 1)
               g == part(k)
    <3>1. /\ f = [i \in 1 .. N |-> f[i]] /\ g = [i \in 1 .. N |-> g[i]]
          /\ g[k] = video[k]
      BY <1>1
    <3>2. ASSUME NEW i \in 1 .. N, i # k PROVE g[i] = f[i]
      <4>1. i <= k <=> i <= k - 1
        BY <1>1, <3>2
      <4>2. QED
        BY <4>1
    <3> HIDE DEF f, g
    <3>3. [f EXCEPT ![k] = video[k]] = g
      <4> DEFINE v == video[k]
                 h == [f EXCEPT ![k] = v]
                 T == {f[i] : i \in 1 .. N} \cup {v}
      <4>1. f \in [1 .. N -> T] /\ v \in T
        BY <3>1
      <4>2. g \in [1 .. N -> T]
        BY <3>1, <3>2
      <4>3. g[k] = v /\ \A i \in 1 .. N : i # k => g[i] = f[i]
        BY <3>1, <3>2
      <4> HIDE DEF v, T
      <4>4. h \in [1 .. N -> T] /\ \A i \in 1 .. N : h[i] = IF i = k THEN v ELSE f[i]
        BY <4>1
      <4> HIDE DEF h
      <4>5. h = g
        <5>1. \A i \in 1 .. N : h[i] = g[i]
          BY <4>3, <4>4
        <5> DEFINE S == 1 .. N
        <5>2. h \in [S -> T] /\ g \in [S -> T] /\ \A i \in S : h[i] = g[i]
          BY <4>2, <4>4, <5>1
        <5> HIDE DEF S
        <5>3. QED
          BY <5>2
      <4>6. QED
        BY <4>5 DEF h, v
    <3>4. QED
      BY <3>3 DEF f, g
  <2> HIDE DEF part
  <2>8. Shown(Holds(k, part(k - 1)), bytes[k], p)
          = Holds((k % N) + 1, [part(k - 1) EXCEPT ![k] = video[k]])
    BY <2>1, <2>6 DEF Shown, Holds, N
  <2>9. Shown(show[k - 1], bytes[k], p) = Holds(at(k), part(k))
    BY <2>5, <2>7, <2>8 DEF at
  <2>10. QED
    BY <1>3, <2>1, <2>2, <2>3, <2>9
<1>8. Shows(up, p, LcdConfig, N, bytes, show)
  BY <1>7 DEF Shows
<1>9. show[0] = Holds(1, ram) /\ show[N] = Holds(at(N), Picture(video))
  <2>1. 0 \in 0 .. N - 1 /\ 0 \in 0 .. N /\ N \in 0 .. N
    BY <1>1
  <2>2. at(0) = 1
    BY <1>4, <2>1
  <2> HIDE DEF at, part
  <2>3. QED
    BY <1>3, <1>6, <2>1, <2>2
<1> HIDE DEF at
<1>10. Sends(up, p, LcdConfig, bytes, Holds(1, ram), Holds(at(N), Picture(video)))
  BY <1>1, <1>2, <1>8, <1>9 DEF Sends
<1>11. QED
  BY <1>5, <1>10 DEF bytes, N, PictureShown

\* Lcd::update()
LEMMA LcdUpdateRuns ==
  ASSUME NEW p, Idle(p), NEW sent, NEW at, NEW ram, Rams(ram), NEW video
  PROVE  \E q, last : /\ Idle(q) /\ last \in 1 .. VideoBytes
                      /\ Runs(Devices, LcdUpdate(video), Quiet(p, LcdConfig, sent, Holds(at, ram)),
                              Quiet(q, LcdConfig, sent, Holds(last, Picture(video))))
<1> DEFINE up == Devices
           p1 == Driven(p, "lcd_e", Low)
           p2 == Driven(p1, "lcd_ds", Low)
           p3 == Driven(p2, "lcd_ds", High)
           p4 == Driven(p3, "lcd_e", High)
           first == Holds(at, ram)
           start == Holds(1, ram)
           Q(q, shown) == Quiet(q, LcdConfig, sent, shown)
           D(q, shown) == Phase(q, LcdConfig, "display", sent, shown)
           s1 == LcdSelect \o select_command
           s2 == s1 \o LcdSend(Origin) \o select_data
           s3 == s2 \o LcdSend(PictureBytes(video)) \o LcdDeselect
<1>0. /\ p1 = Driven(p, "lcd_e", Low) /\ p2 = Driven(p1, "lcd_ds", Low)
      /\ p3 = Driven(p2, "lcd_ds", High) /\ p4 = Driven(p3, "lcd_e", High)
  OBVIOUS
<1> HIDE DEF p1, p2, p3, p4
<1>1. LcdUpdate(video) = s3
  BY DEF LcdUpdate, Origin, PictureBytes
<1>2. p \in Levels /\ p.lcd_e = High /\ p.lcd_reset = High /\ p.nrf_csn = High
  BY DEF Idle, Levels
<1>3. p1 \in Levels /\ p1.lcd_e = Low /\ p1.lcd_reset = High /\ p1.nrf_csn = High
  BY <1>2, <1>0, DrivenPins DEF Pins
<1> HIDE DEF first, start, up
<1>4. /\ Runs(up, LcdSelect, Q(p, first), Q(p1, first))
      /\ Runs(up, select_command, Q(p1, first), Q(p2, first))
  BY <1>0, LcdPins
<1>5. p2 \in Levels /\ p2.lcd_e = Low /\ p2.lcd_reset = High /\ p2.nrf_csn = High /\ p2.lcd_ds = Low
  BY <1>3, <1>0, DrivenPins DEF Pins
<1>6. Runs(up, select_data, D(p2, start), Q(p3, start))
  BY <1>0, LcdPins
<1>7. p3 \in Levels /\ p3.lcd_e = Low /\ p3.lcd_reset = High /\ p3.nrf_csn = High /\ p3.lcd_ds = High
  BY <1>5, <1>0, DrivenPins DEF Pins
<1>9. p4 \in Levels /\ p4.lcd_e = High /\ p4.lcd_reset = High /\ p4.nrf_csn = High
  BY <1>7, <1>0, DrivenPins DEF Pins
<1>10. Listens(p2) \cap up = {"lcd"} /\ Listens(p3) \cap up = {"lcd"}
  BY <1>5, <1>7 DEF Listens, Devices, Low, High, up
<1>11. Runs(up, LcdSend(Origin), Q(p2, first), D(p2, start))
  <2>1. Sends(up, p2, LcdConfig, Origin, first, start)
    BY <1>5, <1>10, OriginSends DEF first, start
  <2>2. Runs(up, LcdSend(Origin), Phase(p2, LcdConfig, "quiet", sent, first), D(p2, start))
    BY <2>1, SendsRun, SMTT(30)
  <2>3. QED
    BY <2>2 DEF Quiet
<1>12. PICK last \in 1 .. VideoBytes :
         Sends(up, p3, LcdConfig, PictureBytes(video), start, Holds(last, Picture(video)))
  <2>1. PictureShown(up, p3, ram, video)
    BY <1>7, <1>10, PictureSends
  <2>2. QED
    BY <2>1 DEF start, PictureShown
<1> DEFINE end == Holds(last, Picture(video))
<1>a. Sends(up, p3, LcdConfig, PictureBytes(video), start, end)
  BY <1>12
<1> HIDE DEF end
<1>13. Runs(up, LcdSend(PictureBytes(video)), Q(p3, start), D(p3, end))
  <2>1. Runs(up, LcdSend(PictureBytes(video)), Phase(p3, LcdConfig, "quiet", sent, start), D(p3, end))
    BY <1>a, SendsRun
  <2>2. QED
    BY <2>1 DEF Quiet
<1>14. Runs(up, LcdDeselect, D(p3, end), Q(p4, end))
  BY <1>0, LcdPins, SMTT(30)
<1> HIDE DEF Q, D
<1>15. Runs(up, s1, Q(p, first), Q(p2, first))
  BY <1>4, RunsBoth
<1> HIDE DEF s1
<1>16. Runs(up, s1 \o LcdSend(Origin), Q(p, first), D(p2, start))
  BY <1>11, <1>15, RunsBoth
<1>17. Runs(up, s2, Q(p, first), Q(p3, start))
  BY <1>6, <1>16, RunsBoth
<1> HIDE DEF s2
<1>18. Runs(up, s2 \o LcdSend(PictureBytes(video)), Q(p, first), D(p3, end))
  BY <1>13, <1>17, RunsBoth
<1>19. Runs(up, s3, Q(p, first), Q(p4, end))
  BY <1>14, <1>18, RunsBoth
<1> HIDE DEF s3
<1>20. Idle(p4)
  BY <1>9 DEF Idle, Levels
<1>21. Runs(Devices, LcdUpdate(video), Quiet(p, LcdConfig, sent, Holds(at, ram)),
            Quiet(p4, LcdConfig, sent, Holds(last, Picture(video))))
  BY <1>1, <1>19 DEF up, Q, first, end
<1>22. QED
  BY <1>20, <1>21
-----------------------------------------------------------------------------
(* The peripheral at a phase, and the phases to come. *)

\* What the display holds when a byte is out.
Out(shown, byte, p) == IF byte = NoByte THEN shown ELSE Shown(shown, byte, p)

\* Pins p, control register c, data register d, byte s on the wire, receive
\* register r and the display are at phase a.
Linked(up, p, c, d, s, r, display, a) ==
  /\ a.pin = p /\ a.cr1 = c /\ a.shown = Out(Out(display, s, p), d, p)
  /\ \A byte \in {d, s} \ {NoByte} : RightFor(up, p, c, byte)
  /\ a.bus = "quiet" => d = NoByte /\ s = NoByte /\ r = NoByte
  /\ a.bus = "display" => r = NoByte /\ \A byte \in {d, s} \ {NoByte} : byte.to = "lcd"
  /\ a.bus = "answer" => /\ a.sent.to = "nrf"
                         /\ \/ d = a.sent /\ s = NoByte /\ r = NoByte
                            \/ d = NoByte /\ s = a.sent /\ r = NoByte
                            \/ d = NoByte /\ s = NoByte /\ r = a.sent

LEMMA ToOfBytes ==
  /\ NoByte.to = "none" /\ spi_cfg["lcd"].BIDIMODE = 1 /\ spi_cfg["nrf"].BIDIMODE = 0
BY DEF NoByte, spi_cfg

LEMMA LinkedPin ==
  ASSUME NEW up, NEW p, NEW c, NEW d, NEW s, NEW r, NEW display, NEW a, NEW b, NEW o, NEW q,
         Linked(up, p, c, d, s, r, display, a), Takes(up, a, o, b),
         o.op = "pin", q = Driven(p, o.pin, o.level)
  PROVE  Linked(up, q, c, d, s, r, display, b)
<1>1. /\ a.bus = "quiet" /\ a.pin = p /\ a.cr1 = c
      /\ b = Phase(q, c, "quiet", a.sent, a.shown)
  BY DEF Takes, Linked, Driven
<1>2. d = NoByte /\ s = NoByte /\ r = NoByte /\ a.shown = display
  BY <1>1 DEF Linked, Out
<1>3. QED
  BY <1>1, <1>2 DEF Linked, Phase, Out

LEMMA LinkedDisable ==
  ASSUME NEW up, NEW p, NEW c, NEW d, NEW s, NEW r, NEW display, NEW a, NEW b, NEW o, NEW e,
         Linked(up, p, c, d, s, r, display, a), Takes(up, a, o, b), o.op = "disable", e = Disabled(c)
  PROVE  Linked(up, p, e, d, s, r, display, b)
<1>1. /\ a.bus = "quiet" /\ a.pin = p /\ a.cr1 = c
      /\ b = Phase(p, e, "quiet", a.sent, a.shown)
  BY DEF Takes, Linked
<1>2. d = NoByte /\ s = NoByte /\ r = NoByte /\ a.shown = display
  BY <1>1 DEF Linked, Out
<1>3. QED
  BY <1>1, <1>2 DEF Linked, Phase, Out

LEMMA LinkedConfigure ==
  ASSUME NEW up, NEW p, NEW c, NEW d, NEW s, NEW r, NEW display, NEW a, NEW b, NEW o, NEW e,
         Linked(up, p, c, d, s, r, display, a), Takes(up, a, o, b), o.op = "configure", e = Enabled(o.cfg)
  PROVE  Linked(up, p, e, d, s, r, display, b)
<1>1. /\ a.bus = "quiet" /\ a.pin = p /\ a.cr1 = c
      /\ b = Phase(p, e, "quiet", a.sent, a.shown)
  BY DEF Takes, Linked
<1>2. d = NoByte /\ s = NoByte /\ r = NoByte /\ a.shown = display
  BY <1>1 DEF Linked, Out
<1>3. QED
  BY <1>1, <1>2 DEF Linked, Phase, Out

LEMMA LinkedWait ==
  ASSUME NEW up, NEW p, NEW c, NEW r, NEW display, NEW a, NEW b, NEW o,
         Linked(up, p, c, NoByte, NoByte, r, display, a), Takes(up, a, o, b), o.op = "not_busy"
  PROVE  Linked(up, p, c, NoByte, NoByte, r, display, b)
<1>1. /\ a.bus \in {"quiet", "display"} /\ a.pin = p /\ a.cr1 = c
      /\ b = Phase(p, c, "quiet", a.sent, a.shown)
  BY DEF Takes, Linked
<1>2. r = NoByte /\ a.shown = display
  BY <1>1 DEF Linked, Out
<1>3. QED
  BY <1>1, <1>2 DEF Linked, Phase, Out

LEMMA LinkedSend ==
  ASSUME NEW up, NEW p, NEW c, NEW s, NEW r, NEW display, NEW a, NEW b, NEW o,
         Linked(up, p, c, NoByte, s, r, display, a), Takes(up, a, o, b), o.op = "send"
  PROVE  Linked(up, p, c, o.byte, s, r, display, b)
<1> DEFINE byte == o.byte
           out == Out(display, s, p)
<1>1. a.pin = p /\ a.cr1 = c /\ a.shown = out
  BY DEF Linked, Out
<1>2. \A x \in {s} \ {NoByte} : RightFor(up, p, c, x)
  BY DEF Linked
<1> HIDE DEF byte, out
<1>3. CASE /\ a.bus \in {"quiet", "display"} /\ RightFor(up, p, c, byte) /\ byte.to = "lcd"
           /\ b = Phase(p, c, "display", a.sent, Shown(out, byte, p))
  <2>1. r = NoByte /\ \A x \in {s} \ {NoByte} : x.to = "lcd"
    BY <1>3 DEF Linked
  <2>2. byte # NoByte
    BY <1>3, ToOfBytes
  <2>3. Out(out, byte, p) = Shown(out, byte, p)
    BY <2>2 DEF Out
  <2>4. \A x \in {byte, s} \ {NoByte} : RightFor(up, p, c, x) /\ x.to = "lcd"
    BY <1>2, <1>3, <2>1
  <2>5. Linked(up, p, c, byte, s, r, display, b)
    BY <1>3, <2>1, <2>3, <2>4 DEF Linked, Phase, out
  <2>6. QED
    BY <2>5 DEF byte
<1>4. CASE /\ a.bus = "quiet" /\ RightFor(up, p, c, byte) /\ byte.to = "nrf" /\ "lcd" \notin Listens(p)
           /\ b = Phase(p, c, "answer", byte, out)
  <2>1. s = NoByte /\ r = NoByte
    BY <1>4 DEF Linked
  <2>2. byte # NoByte
    BY <1>4, ToOfBytes
  <2>3. Out(out, byte, p) = out
    BY <1>4, <2>2 DEF Out, Shown
  <2>4. \A x \in {byte, s} \ {NoByte} : RightFor(up, p, c, x)
    BY <1>4, <2>1
  <2>5. Linked(up, p, c, byte, s, r, display, b)
    BY <1>4, <2>1, <2>3, <2>4 DEF Linked, Phase, out
  <2>6. QED
    BY <2>5 DEF byte
<1>5. QED
  BY <1>1, <1>3, <1>4 DEF Takes, byte

LEMMA LinkedReceive ==
  ASSUME NEW up, NEW p, NEW c, NEW d, NEW s, NEW r, NEW display, NEW a, NEW b, NEW o,
         Linked(up, p, c, d, s, r, display, a), Takes(up, a, o, b), o.op = "receive", r # NoByte
  PROVE  r = o.byte /\ Linked(up, p, c, d, s, NoByte, display, b)
<1>1. /\ a.bus = "answer" /\ a.pin = p /\ a.cr1 = c /\ a.sent = o.byte
      /\ b = Phase(p, c, "quiet", a.sent, a.shown)
  BY DEF Takes, Linked
<1>2. d = NoByte /\ s = NoByte /\ r = a.sent /\ a.shown = display
  BY <1>1 DEF Linked, Out
<1>3. QED
  BY <1>1, <1>2 DEF Linked, Phase, Out

LEMMA LinkedShiftStarts ==
  ASSUME NEW up, NEW p, NEW c, NEW d, NEW r, NEW display, NEW a,
         Linked(up, p, c, d, NoByte, r, display, a), d # NoByte
  PROVE  Linked(up, p, c, NoByte, d, r, display, a)
BY DEF Linked, Out

LEMMA LinkedShiftEnds ==
  ASSUME NEW up \in SUBSET Devices, NEW p, NEW c, NEW d, NEW s, NEW r, NEW display, NEW a,
         Linked(up, p, c, d, s, r, display, a), s # NoByte
  PROVE  Linked(up, p, c, d, NoByte, IF c.cfg.BIDIMODE = 0 THEN s ELSE r, Shown(display, s, p), a)
<1> DEFINE n == IF c.cfg.BIDIMODE = 0 THEN s ELSE r
           out == Shown(display, s, p)
<1>1. RightFor(up, p, c, s) /\ a.bus # "quiet"
  BY DEF Linked
<1>2. Out(display, s, p) = out /\ Out(out, NoByte, p) = out
  BY DEF Out
<1>3. c.cfg = spi_cfg[s.to]
  BY <1>1 DEF RightFor, Enabled
<1>4. a.bus = "display" => n = NoByte
  BY <1>3, ToOfBytes DEF Linked
<1>5. a.bus = "answer" => d = NoByte /\ n = a.sent
  BY <1>3, ToOfBytes DEF Linked
<1> HIDE DEF n, out
<1>6. Linked(up, p, c, d, NoByte, n, out, a)
  BY <1>1, <1>2, <1>4, <1>5 DEF Linked
<1>7. QED
  BY <1>6 DEF n, out
-----------------------------------------------------------------------------
(* The invariant of the bus: the peripheral is at a phase from which the rest *)
(* of the driver function leads to where the program wants it.                *)

\* The devices whose pins are set up: the radio's are after the display's
\* commands of initialization.
Ready(where) == IF where = "lcd_init" THEN {"lcd"} ELSE Devices

\* At the end of a driver function everything is out, nothing is selected, the
\* configuration is the display's where its picture comes next, and the display
\* holds what it should: nothing yet, the rows from top on, or the message.
Ending(where, top, text, p, c, ram) ==
  /\ p \in Levels /\ p.lcd_e = High /\ p.lcd_reset = High
  /\ where # "lcd_init" => p.nrf_csn = High
  /\ where \in {"lcd_init", "nrf_init", "update"} => c = LcdConfig
  /\ Rams(ram)
  /\ where \in {"lcd_init", "nrf_init"} => ram[1] = Unset
  /\ where \in {"poll", "convert"} => ram[1] = Unset \/ ram = Video(top, text)
  /\ where = "exit" => ram = Message

Ends(where, top, text, b) ==
  \E p, c, sent, at, ram :
    b = Quiet(p, c, sent, Holds(at, ram)) /\ Ending(where, top, text, p, c, ram)

Leads(o, where, top, text, p, c, d, s, r, display) ==
  \E a, b : /\ Linked(Ready(where), p, c, d, s, r, display, a)
            /\ Runs(Ready(where), o, a, b)
            /\ Ends(where, top, text, b)

BusInv ==
  /\ answer.got = answer.sent
  /\ pc = "convert" => ops = <<>>
  /\ Leads(ops, pc, item_top, joypos_text, pin, cr1, dr, shift, received, panel)

\* The list shows what the accepted positions led to.
ListInv ==
  /\ item_top = moves /\ moves \in 0 .. Rows - 1
  /\ joypos_text = deb.value

\* Between two driver functions.
Rests(where, top, text, p, c, d, s, r, display) ==
  /\ d = NoByte /\ s = NoByte /\ r = NoByte
  /\ \E at, ram : display = Holds(at, ram) /\ Ending(where, top, text, p, c, ram)

LEMMA LeadsToRest ==
  ASSUME NEW o, o = <<>>, NEW where, NEW top, NEW text, NEW p, NEW c, NEW d, NEW s, NEW r, NEW display,
         Leads(o, where, top, text, p, c, d, s, r, display)
  PROVE  Rests(where, top, text, p, c, d, s, r, display)
<1> DEFINE up == Ready(where)
<1>1. PICK a, b : Linked(up, p, c, d, s, r, display, a) /\ Runs(up, o, a, b) /\ Ends(where, top, text, b)
  BY DEF Leads
<1> HIDE DEF up
<1>2. a = b
  BY <1>1, RunsNowhere
<1>3. PICK q, e, sent, at, ram :
        a = Quiet(q, e, sent, Holds(at, ram)) /\ Ending(where, top, text, q, e, ram)
  BY <1>1, <1>2 DEF Ends
<1>4. a.bus = "quiet" /\ a.pin = q /\ a.cr1 = e /\ a.shown = Holds(at, ram)
  BY <1>3 DEF Quiet, Phase
<1>5. d = NoByte /\ s = NoByte /\ r = NoByte /\ p = q /\ c = e /\ display = Holds(at, ram)
  BY <1>1, <1>4 DEF Linked, Out
<1>6. QED
  BY <1>3, <1>5 DEF Rests

\* Operations that lead from there to the end of a driver function.
Brought(o, where, top, text, p, c, shown) ==
  \E q, e, last, at, ram :
    /\ Runs(Ready(where), o, Quiet(p, c, NoByte, shown), Quiet(q, e, last, Holds(at, ram)))
    /\ Ending(where, top, text, q, e, ram)

LEMMA RestLeads ==
  ASSUME NEW o, NEW where, NEW top, NEW text, NEW p, NEW c, NEW display,
         Brought(o, where, top, text, p, c, display)
  PROVE  Leads(o, where, top, text, p, c, NoByte, NoByte, NoByte, display)
<1> DEFINE a == Quiet(p, c, NoByte, display)
           up == Ready(where)
<1>1. PICK q, e, last, at, ram :
        /\ Runs(up, o, a, Quiet(q, e, last, Holds(at, ram)))
        /\ Ending(where, top, text, q, e, ram)
  BY DEF Brought
<1> DEFINE b == Quiet(q, e, last, Holds(at, ram))
<1>2. Linked(up, p, c, NoByte, NoByte, NoByte, display, a)
  BY DEF Linked, Quiet, Phase, Out
<1>3. Ends(where, top, text, b)
  BY <1>1 DEF Ends
<1>4. Runs(up, o, a, b)
  BY <1>1
<1> HIDE DEF a, b, up
<1>5. \E x, y : /\ Linked(up, p, c, NoByte, NoByte, NoByte, display, x)
                /\ Runs(up, o, x, y) /\ Ends(where, top, text, y)
  BY <1>2, <1>3, <1>4
<1>6. QED
  BY <1>5 DEF Leads, up

LEMMA RestLeadsNowhere ==
  ASSUME NEW where, NEW top, NEW text, NEW p, NEW c, NEW d, NEW s, NEW r, NEW display,
         Rests(where, top, text, p, c, d, s, r, display)
  PROVE  Leads(<<>>, where, top, text, p, c, d, s, r, display)
<1>1. PICK at, ram : display = Holds(at, ram) /\ Ending(where, top, text, p, c, ram)
  BY DEF Rests
<1>2. d = NoByte /\ s = NoByte /\ r = NoByte
  BY DEF Rests
<1> DEFINE a == Quiet(p, c, NoByte, Holds(at, ram))
<1>3. Runs(Ready(where), <<>>, a, a)
  BY RunsNothing
<1>4. Leads(<<>>, where, top, text, p, c, NoByte, NoByte, NoByte, Holds(at, ram))
  BY <1>1, <1>3, RestLeads DEF Brought
<1>5. QED
  BY <1>1, <1>2, <1>4

\* The first of the operations left.
LEMMA LeadsFirst ==
  ASSUME NEW o, NEW where, NEW top, NEW text, NEW p, NEW c, NEW d, NEW s, NEW r, NEW display,
         Leads(o, where, top, text, p, c, d, s, r, display), o # <<>>
  PROVE  \E a, b : /\ Linked(Ready(where), p, c, d, s, r, display, a)
                   /\ Takes(Ready(where), a, Head(o), b)
                   /\ \A q, e, d1, s1, r1, display1 :
                        Linked(Ready(where), q, e, d1, s1, r1, display1, b) =>
                          Leads(Tail(o), where, top, text, q, e, d1, s1, r1, display1)
<1> DEFINE up == Ready(where)
<1>1. PICK a, z : Linked(up, p, c, d, s, r, display, a) /\ Runs(up, o, a, z) /\ Ends(where, top, text, z)
  BY DEF Leads
<1> HIDE DEF up
<1>2. PICK b : Takes(up, a, Head(o), b) /\ Runs(up, Tail(o), b, z)
  BY <1>1, RunsFirst
<1>3. ASSUME NEW q, NEW e, NEW d1, NEW s1, NEW r1, NEW display1,
             Linked(up, q, e, d1, s1, r1, display1, b)
      PROVE  Leads(Tail(o), where, top, text, q, e, d1, s1, r1, display1)
  BY <1>1, <1>2, <1>3 DEF Leads, up
<1>4. QED
  BY <1>1, <1>2, <1>3 DEF up

LEMMA ReadyDevices ==
  /\ \A where : Ready(where) \in SUBSET Devices
  /\ \A where : where # "lcd_init" => Ready(where) = Devices
  /\ Ready("lcd_init") = {"lcd"}
BY DEF Ready, Devices

-----------------------------------------------------------------------------
(* Initialization and the steps on the bus. *)

LEMMA InitBus == Init => BusInv /\ ListInv
<1> SUFFICES ASSUME Init PROVE BusInv /\ ListInv
  OBVIOUS
<1>1. ListInv
  BY DEF Init, ListInv
<1> DEFINE ram == [i \in 1 .. VideoBytes |-> Unset]
           low == [p \in Pins |-> Low]
           off == [SPE |-> FALSE, cfg |-> ResetCfg]
<1>2. /\ cr1 = off /\ dr = NoByte /\ shift = NoByte /\ received = NoByte /\ pin = low
      /\ panel = Holds(1, ram) /\ ops = LcdInit /\ pc = "lcd_init" /\ answer.got = answer.sent
  BY DEF Init, BusInit, Holds
<1>3. low \in Levels
  BY DEF Levels
<1>4. Rams(ram) /\ ram[1] = Unset
  BY BusAssumption DEF Rams
<1> HIDE DEF low, off, ram
<1>5. PICK q \in Levels :
        /\ q.lcd_e = High /\ q.lcd_reset = High
        /\ Runs({"lcd"}, LcdInit, Quiet(low, off, NoByte, Holds(1, ram)),
                Quiet(q, LcdConfig, NoByte, Holds(1, ram)))
  BY <1>3, LcdInitRuns
<1>6. Ending("lcd_init", item_top, joypos_text, q, LcdConfig, ram)
  BY <1>4, <1>5 DEF Ending
<1>7. Leads(LcdInit, "lcd_init", item_top, joypos_text, low, off, NoByte, NoByte, NoByte, Holds(1, ram))
  BY <1>5, <1>6, ReadyDevices, RestLeads, SMTT(30) DEF Brought
<1>8. QED
  BY <1>1, <1>2, <1>7 DEF BusInv

Kept == UNCHANGED <<pc, item_top, joypos_text, moves, deb>>

LEMMA DriverStepKeeps == BusInv /\ DriverStep /\ Kept => BusInv'
<1> SUFFICES ASSUME BusInv, DriverStep, Kept PROVE BusInv'
  OBVIOUS
<1> DEFINE o == Head(ops)
           L(q, e, d, s, r, display) ==
             Leads(Tail(ops), pc, item_top, joypos_text, q, e, d, s, r, display)
           up == Ready(pc)
<1>1. ops # <<>> /\ ops' = Tail(ops)
  BY DEF DriverStep, DrivePin, WaitNotBusy, Send, Receive, Disable, Configure, Step
<1>2. Leads(ops, pc, item_top, joypos_text, pin, cr1, dr, shift, received, panel)
  BY DEF BusInv
<1>3. PICK a, b : /\ Linked(up, pin, cr1, dr, shift, received, panel, a)
                  /\ Takes(up, a, o, b)
                  /\ \A q, e, d, s, r, display :
                       Linked(up, q, e, d, s, r, display, b) => L(q, e, d, s, r, display)
  BY <1>1, <1>2, LeadsFirst
<1>4. pc' = pc /\ item_top' = item_top /\ joypos_text' = joypos_text
  BY DEF Kept
<1>5. pc # "convert"
  BY <1>1 DEF BusInv
<1>6. ASSUME L(pin', cr1', dr', shift', received', panel'), answer'.got = answer'.sent
      PROVE  BusInv'
  BY <1>1, <1>4, <1>5, <1>6 DEF BusInv
<1>7. answer.got = answer.sent
  BY DEF BusInv
<1> HIDE DEF o, up, L
<1>8. CASE DrivePin
  <2>1. /\ o.op = "pin" /\ pin' = Driven(pin, o.pin, o.level)
        /\ UNCHANGED <<cr1, dr, shift, received, answer, panel>>
    BY <1>8 DEF DrivePin, Step, Driven, o
  <2>2. Linked(up, pin', cr1, dr, shift, received, panel, b)
    BY <1>3, <2>1, LinkedPin
  <2>3. QED
    BY <1>3, <1>6, <1>7, <2>1, <2>2
<1>9. CASE WaitNotBusy
  <2>1. /\ o.op = "not_busy" /\ dr = NoByte /\ shift = NoByte
        /\ UNCHANGED <<cr1, dr, shift, received, pin, answer, panel>>
    BY <1>9 DEF WaitNotBusy, Step, Busy, o
  <2>2. Linked(up, pin, cr1, dr, shift, received, panel, b)
    BY <1>3, <2>1, LinkedWait
  <2>3. QED
    BY <1>3, <1>6, <1>7, <2>1, <2>2
<1>10. CASE Send
  <2>1. /\ o.op = "send" /\ dr = NoByte /\ dr' = o.byte
        /\ UNCHANGED <<cr1, shift, received, pin, answer, panel>>
    BY <1>10 DEF Send, Step, o
  <2>2. Linked(up, pin, cr1, dr', shift, received, panel, b)
    BY <1>3, <2>1, LinkedSend
  <2>3. QED
    BY <1>3, <1>6, <1>7, <2>1, <2>2
<1>11. CASE Receive
  <2>1. /\ o.op = "receive" /\ received # NoByte /\ received' = NoByte
        /\ answer' = [sent |-> o.byte, got |-> received]
        /\ UNCHANGED <<cr1, dr, shift, pin, panel>>
    BY <1>11 DEF Receive, Step, o
  <2>2. received = o.byte /\ Linked(up, pin, cr1, dr, shift, received', panel, b)
    BY <1>3, <2>1, LinkedReceive
  <2>3. QED
    BY <1>3, <1>6, <2>1, <2>2
<1>12. CASE Disable
  <2>1. /\ o.op = "disable" /\ cr1' = Disabled(cr1)
        /\ UNCHANGED <<dr, shift, received, pin, answer, panel>>
    BY <1>12 DEF Disable, Step, Disabled, o
  <2>2. Linked(up, pin, cr1', dr, shift, received, panel, b)
    BY <1>3, <2>1, LinkedDisable
  <2>3. QED
    BY <1>3, <1>6, <1>7, <2>1, <2>2
<1>13. CASE Configure
  <2>1. /\ o.op = "configure" /\ cr1' = Enabled(o.cfg)
        /\ UNCHANGED <<dr, shift, received, pin, answer, panel>>
    BY <1>13 DEF Configure, Step, Enabled, o
  <2>2. Linked(up, pin, cr1', dr, shift, received, panel, b)
    BY <1>3, <2>1, LinkedConfigure
  <2>3. QED
    BY <1>3, <1>6, <1>7, <2>1, <2>2
<1>14. QED
  BY <1>8, <1>9, <1>10, <1>11, <1>12, <1>13 DEF DriverStep

LEMMA SpiHardwareKeeps == BusInv /\ SpiHardware /\ Kept => BusInv'
<1> SUFFICES ASSUME BusInv, SpiHardware, Kept PROVE BusInv'
  OBVIOUS
<1> DEFINE up == Ready(pc)
<1>1. PICK a, b : /\ Linked(up, pin, cr1, dr, shift, received, panel, a)
                  /\ Runs(up, ops, a, b) /\ Ends(pc, item_top, joypos_text, b)
  BY DEF BusInv, Leads
<1>2. /\ pc' = pc /\ item_top' = item_top /\ joypos_text' = joypos_text
      /\ ops' = ops /\ answer' = answer /\ pin' = pin /\ cr1' = cr1
  BY DEF Kept, SpiHardware, ShiftStarts, ShiftEnds
<1>3. up \in SUBSET Devices
  BY ReadyDevices
<1> HIDE DEF up
<1>4. Linked(up, pin, cr1, dr', shift', received', panel', a)
  <2>1. CASE ShiftStarts
    <3>1. /\ dr # NoByte /\ shift = NoByte /\ shift' = dr /\ dr' = NoByte
          /\ received' = received /\ panel' = panel
      BY <2>1 DEF ShiftStarts
    <3>2. Linked(up, pin, cr1, NoByte, dr, received, panel, a)
      BY <1>1, <3>1, LinkedShiftStarts
    <3>3. QED
      BY <3>1, <3>2
  <2>2. CASE ShiftEnds
    <3>1. /\ shift # NoByte /\ shift' = NoByte /\ dr' = dr
          /\ received' = IF cr1.cfg.BIDIMODE = 0 THEN shift ELSE received
      BY <2>2 DEF ShiftEnds, FullDuplex
    <3>2. panel' = Shown(panel, shift, pin)
      <4>1. RightFor(up, pin, cr1, shift)
        BY <1>1, <3>1 DEF Linked
      <4>2. shift.to = "lcd" => cr1.cfg = spi_cfg.lcd
        BY <4>1 DEF RightFor, Enabled
      <4>3. Understood <=> shift.to = "lcd"
        BY <4>2 DEF Understood
      <4>4. QED
        BY <2>2, <4>3 DEF ShiftEnds, Shown, Listening, Listens
    <3>3. Linked(up, pin, cr1, dr, NoByte, IF cr1.cfg.BIDIMODE = 0 THEN shift ELSE received,
                 Shown(panel, shift, pin), a)
      BY <1>1, <1>3, <3>1, LinkedShiftEnds
    <3>4. QED
      BY <3>1, <3>2, <3>3
  <2>3. QED
    BY <2>1, <2>2 DEF SpiHardware
<1>5. Leads(ops, pc, item_top, joypos_text, pin, cr1, dr', shift', received', panel')
  BY <1>1, <1>4 DEF Leads, up
<1>6. QED
  BY <1>2, <1>5 DEF BusInv
-----------------------------------------------------------------------------
(* The steps of the program. *)

LEMMA NrfInitRuns ==
  ASSUME NEW p \in Levels, p.lcd_e = High, p.lcd_reset = High, NEW c, NEW sent, NEW shown
  PROVE  \E q : Idle(q) /\ Runs(Devices, NrfInit, Quiet(p, c, sent, shown), Quiet(q, c, sent, shown))
<1> DEFINE p1 == Driven(p, "nrf_csn", High)
           p2 == Driven(p1, "nrf_ce", Low)
<1>1. NrfInit = Drive("nrf_csn", High) \o Drive("nrf_ce", Low)
  BY DEF NrfInit, Set, Reset, Drive
<1>2. /\ Runs(Devices, Drive("nrf_csn", High), Quiet(p, c, sent, shown), Quiet(p1, c, sent, shown))
      /\ Runs(Devices, Drive("nrf_ce", Low), Quiet(p1, c, sent, shown), Quiet(p2, c, sent, shown))
  BY DriveRuns
<1>3. p1 \in Levels /\ p1.lcd_e = High /\ p1.lcd_reset = High /\ p1.nrf_csn = High
  BY DrivenPins DEF Pins
<1> HIDE DEF p1
<1>4. p2 \in Levels /\ p2.lcd_e = High /\ p2.lcd_reset = High /\ p2.nrf_csn = High
  BY <1>3, DrivenPins DEF Pins
<1> HIDE DEF p2
<1>5. Runs(Devices, NrfInit, Quiet(p, c, sent, shown), Quiet(p2, c, sent, shown))
  BY <1>1, <1>2, RunsBoth
<1>6. Idle(p2)
  BY <1>4 DEF Idle, Levels
<1>7. QED
  BY <1>5, <1>6

LEMMA EndingIsIdle ==
  ASSUME NEW where, where # "lcd_init", NEW top, NEW text, NEW p, NEW c, NEW ram,
         Ending(where, top, text, p, c, ram)
  PROVE  Idle(p) /\ Rams(ram)
BY DEF Ending, Idle, Levels

LEMMA IdleIsEnding ==
  ASSUME NEW where \in {"terminal", "enable"}, NEW top, NEW text, NEW p, NEW c, NEW ram,
         Idle(p), Rams(ram)
  PROVE  Ending(where, top, text, p, c, ram)
BY DEF Ending, Idle, Levels

LEMMA PictureIsEnding ==
  ASSUME NEW top, NEW text, NEW p, NEW c, Idle(p)
  PROVE  /\ Ending("poll", top, text, p, c, Picture(Video(top, text)))
         /\ Ending("exit", top, text, p, c, Picture(Message))
<1>1. Picture(Video(top, text)) = Video(top, text) /\ Picture(Message) = Message
  BY DEF Picture, Video, Message
<1>2. Rams(Picture(Video(top, text))) /\ Rams(Picture(Message))
  BY DEF Rams, Picture
<1>3. QED
  BY <1>1, <1>2 DEF Ending, Idle, Levels

\* No driver function: the program goes on with the bus at rest.
LEMMA PassingKeeps ==
  ASSUME BusInv, ops = <<>>, UNCHANGED busVars, pc' # "lcd_init",
         \A p, c, ram : Ending(pc, item_top, joypos_text, p, c, ram) =>
                          Ending(pc', item_top', joypos_text', p, c, ram)
  PROVE  BusInv'
<1>1. Rests(pc, item_top, joypos_text, pin, cr1, dr, shift, received, panel)
  BY LeadsToRest DEF BusInv
<1>2. Rests(pc', item_top', joypos_text', pin, cr1, dr, shift, received, panel)
  BY <1>1 DEF Rests
<1>3. Leads(<<>>, pc', item_top', joypos_text', pin, cr1, dr, shift, received, panel)
  BY <1>2, RestLeadsNowhere
<1>4. /\ ops' = <<>> /\ answer' = answer /\ pin' = pin /\ cr1' = cr1 /\ dr' = dr
      /\ shift' = shift /\ received' = received /\ panel' = panel
  BY DEF busVars
<1>5. QED
  BY <1>3, <1>4 DEF BusInv

\* A driver function: what it is to lead to, from any place the last one ended.
LEMMA CallKeeps ==
  ASSUME BusInv, ops = <<>>, KeepBus, pc' # "convert",
         \A p, c, at, ram :
           Ending(pc, item_top, joypos_text, p, c, ram) =>
             Brought(ops', pc', item_top', joypos_text', p, c, Holds(at, ram))
  PROVE  BusInv'
<1>1. Rests(pc, item_top, joypos_text, pin, cr1, dr, shift, received, panel)
  BY LeadsToRest DEF BusInv
<1>2. PICK at, ram : panel = Holds(at, ram) /\ Ending(pc, item_top, joypos_text, pin, cr1, ram)
  BY <1>1 DEF Rests
<1>3. dr = NoByte /\ shift = NoByte /\ received = NoByte
  BY <1>1 DEF Rests
<1>4. Brought(ops', pc', item_top', joypos_text', pin, cr1, Holds(at, ram))
  BY <1>2
<1>5. Leads(ops', pc', item_top', joypos_text', pin, cr1, NoByte, NoByte, NoByte, Holds(at, ram))
  BY <1>4, RestLeads
<1>6. /\ answer' = answer /\ pin' = pin /\ cr1' = cr1 /\ dr' = dr
      /\ shift' = shift /\ received' = received /\ panel' = panel
  BY DEF KeepBus
<1>7. QED
  BY <1>2, <1>3, <1>5, <1>6 DEF BusInv

LEMMA PassingSteps ==
  BusInv /\ (InitJoystick \/ StartConversion \/ Poll \/ NoCommand) => BusInv'
<1>1. ASSUME BusInv, InitJoystick PROVE BusInv'
  <2>1. ops = <<>> /\ UNCHANGED busVars /\ pc = "nrf_init" /\ pc' = "poll"
    BY <1>1 DEF InitJoystick, Returned, KeepBus, busVars
  <2>2. \A p, c, ram : Ending(pc, item_top, joypos_text, p, c, ram) =>
                         Ending(pc', item_top', joypos_text', p, c, ram)
    BY <2>1 DEF Ending
  <2>3. QED
    BY <1>1, <2>1, <2>2, PassingKeeps
<1>2. ASSUME BusInv, StartConversion PROVE BusInv'
  <2>1. /\ ops = <<>> /\ UNCHANGED busVars /\ pc = "poll" /\ pc' = "convert"
        /\ item_top' = item_top /\ joypos_text' = joypos_text
    BY <1>2 DEF StartConversion, Returned, KeepBus, busVars
  <2>2. \A p, c, ram : Ending(pc, item_top, joypos_text, p, c, ram) =>
                         Ending(pc', item_top', joypos_text', p, c, ram)
    BY <2>1 DEF Ending
  <2>3. QED
    BY <1>2, <2>1, <2>2, PassingKeeps
<1>3. ASSUME BusInv, Poll PROVE BusInv'
  <2>1. ops = <<>> /\ UNCHANGED busVars /\ pc = "convert" /\ pc' = "terminal"
    BY <1>3 DEF Poll, Returned, KeepBus, busVars
  <2>2. \A p, c, ram : Ending(pc, item_top, joypos_text, p, c, ram) =>
                         Ending(pc', item_top', joypos_text', p, c, ram)
    BY <2>1, EndingIsIdle, IdleIsEnding
  <2>3. QED
    BY <1>3, <2>1, <2>2, PassingKeeps
<1>4. ASSUME BusInv, NoCommand PROVE BusInv'
  <2>1. ops = <<>> /\ UNCHANGED busVars /\ pc = "terminal" /\ pc' = "enable"
    BY <1>4 DEF NoCommand, Returned, KeepBus, busVars
  <2>2. \A p, c, ram : Ending(pc, item_top, joypos_text, p, c, ram) =>
                         Ending(pc', item_top', joypos_text', p, c, ram)
    BY <2>1, EndingIsIdle, IdleIsEnding
  <2>3. QED
    BY <1>4, <2>1, <2>2, PassingKeeps
<1>5. QED
  BY <1>1, <1>2, <1>3, <1>4

LEMMA RadioSteps == BusInv /\ (InitRadio \/ NrfTest) => BusInv'
<1>1. ASSUME BusInv, InitRadio PROVE BusInv'
  <2>1. /\ ops = <<>> /\ KeepBus /\ pc = "lcd_init" /\ pc' = "nrf_init" /\ ops' = NrfInit
        /\ item_top' = item_top /\ joypos_text' = joypos_text
    BY <1>1 DEF InitRadio, Returned
  <2>2. ASSUME NEW p, NEW c, NEW at, NEW ram, Ending(pc, item_top, joypos_text, p, c, ram)
        PROVE  Brought(ops', pc', item_top', joypos_text', p, c, Holds(at, ram))
    <3>1. p \in Levels /\ p.lcd_e = High /\ p.lcd_reset = High
      BY <2>2 DEF Ending
    <3>2. PICK q : Idle(q) /\ Runs(Devices, NrfInit, Quiet(p, c, NoByte, Holds(at, ram)),
                                   Quiet(q, c, NoByte, Holds(at, ram)))
      BY <3>1, NrfInitRuns
    <3>3. Ending("nrf_init", item_top, joypos_text, q, c, ram)
      BY <2>1, <2>2, <3>2 DEF Ending, Idle, Levels
    <3>4. QED
      BY <2>1, <3>2, <3>3, ReadyDevices DEF Brought
  <2>3. QED
    BY <1>1, <2>1, <2>2, CallKeeps
<1>2. ASSUME BusInv, NrfTest PROVE BusInv'
  <2>1. ops = <<>> /\ KeepBus /\ pc = "terminal" /\ pc' = "terminal" /\ ops' = Nrf
    BY <1>2 DEF NrfTest, Returned, Nrf
  <2>2. ASSUME NEW p, NEW c, NEW at, NEW ram, Ending(pc, item_top, joypos_text, p, c, ram)
        PROVE  Brought(ops', pc', item_top', joypos_text', p, c, Holds(at, ram))
    <3>1. Idle(p) /\ Rams(ram)
      BY <2>1, <2>2, EndingIsIdle
    <3>2. PICK last : Runs(Devices, Nrf, Quiet(p, c, NoByte, Holds(at, ram)),
                           Quiet(p, NrfConfig, last, Holds(at, ram)))
      BY <3>1, NrfBrings DEF Brings
    <3>3. Ending("terminal", item_top', joypos_text', p, NrfConfig, ram)
      BY <3>1, IdleIsEnding
    <3>4. QED
      BY <2>1, <3>2, <3>3, ReadyDevices DEF Brought
  <2>3. QED
    BY <1>2, <2>1, <2>2, CallKeeps
<1>3. QED
  BY <1>1, <1>2
\* lcd::enable(), from any configuration.
LEMMA LcdEnableRuns ==
  ASSUME NEW up, NEW p, NEW c, NEW sent, NEW shown
  PROVE  Runs(up, LcdEnable, Quiet(p, c, sent, shown), Quiet(p, LcdConfig, sent, shown))
BY ReconfigureRuns DEF LcdEnable, LcdConfig

LEMMA DisplaySteps == BusInv /\ (HeapEater \/ EnableLcd \/ UpdateScreen) => BusInv'
<1>1. ASSUME BusInv, HeapEater, heap_ptr + 1 > HeapEnd PROVE BusInv'
  <2>1. /\ ops = <<>> /\ KeepBus /\ pc = "terminal" /\ pc' = "exit"
        /\ ops' = LcdEnable \o LcdUpdate(Message)
    BY <1>1, SMTT(30) DEF HeapEater, ShowMessage, Returned
  <2>2. ASSUME NEW p, NEW c, NEW at, NEW ram, Ending(pc, item_top, joypos_text, p, c, ram)
        PROVE  Brought(ops', pc', item_top', joypos_text', p, c, Holds(at, ram))
    <3>1. Idle(p) /\ Rams(ram)
      BY <2>1, <2>2, EndingIsIdle
    <3>2. Runs(Devices, LcdEnable, Quiet(p, c, NoByte, Holds(at, ram)),
               Quiet(p, LcdConfig, NoByte, Holds(at, ram)))
      BY LcdEnableRuns
    <3>3. PICK q, last : /\ Idle(q)
                         /\ Runs(Devices, LcdUpdate(Message), Quiet(p, LcdConfig, NoByte, Holds(at, ram)),
                                 Quiet(q, LcdConfig, NoByte, Holds(last, Picture(Message))))
      BY <3>1, LcdUpdateRuns
    <3>4. Runs(Devices, LcdEnable \o LcdUpdate(Message), Quiet(p, c, NoByte, Holds(at, ram)),
               Quiet(q, LcdConfig, NoByte, Holds(last, Picture(Message))))
      BY <3>2, <3>3, RunsBoth
    <3>5. Ending("exit", item_top', joypos_text', q, LcdConfig, Picture(Message))
      BY <3>3, PictureIsEnding
    <3>6. QED
      BY <2>1, <3>4, <3>5, ReadyDevices DEF Brought
  <2>3. QED
    BY <1>1, <2>1, <2>2, CallKeeps
<1>2. ASSUME BusInv, HeapEater, ~ (heap_ptr + 1 > HeapEnd) PROVE BusInv'
  <2>1. ops = <<>> /\ UNCHANGED busVars /\ pc = "terminal" /\ pc' = "terminal"
    BY <1>2 DEF HeapEater, Returned, KeepBus, busVars
  <2>2. \A p, c, ram : Ending(pc, item_top, joypos_text, p, c, ram) =>
                         Ending(pc', item_top', joypos_text', p, c, ram)
    BY <2>1, EndingIsIdle, IdleIsEnding
  <2>3. QED
    BY <1>2, <2>1, <2>2, PassingKeeps
<1>3. ASSUME BusInv, EnableLcd PROVE BusInv'
  <2>1. ops = <<>> /\ KeepBus /\ pc = "enable" /\ pc' = "update" /\ ops' = LcdEnable
    BY <1>3 DEF EnableLcd, Returned
  <2>2. ASSUME NEW p, NEW c, NEW at, NEW ram, Ending(pc, item_top, joypos_text, p, c, ram)
        PROVE  Brought(ops', pc', item_top', joypos_text', p, c, Holds(at, ram))
    <3>1. Idle(p) /\ Rams(ram)
      BY <2>1, <2>2, EndingIsIdle
    <3>2. Runs(Devices, LcdEnable, Quiet(p, c, NoByte, Holds(at, ram)),
               Quiet(p, LcdConfig, NoByte, Holds(at, ram)))
      BY LcdEnableRuns
    <3>3. Ending("update", item_top', joypos_text', p, LcdConfig, ram)
      BY <3>1 DEF Ending, Idle, Levels
    <3>4. QED
      BY <2>1, <3>2, <3>3, ReadyDevices DEF Brought
  <2>3. QED
    BY <1>3, <2>1, <2>2, CallKeeps
<1>4. ASSUME BusInv, UpdateScreen PROVE BusInv'
  <2> DEFINE video == Video(item_top, joypos_text)
  <2>1. /\ ops = <<>> /\ KeepBus /\ pc = "update" /\ pc' = "poll" /\ ops' = LcdUpdate(video)
        /\ item_top' = item_top /\ joypos_text' = joypos_text
    BY <1>4 DEF UpdateScreen, Returned
  <2>2. ASSUME NEW p, NEW c, NEW at, NEW ram, Ending(pc, item_top, joypos_text, p, c, ram)
        PROVE  Brought(ops', pc', item_top', joypos_text', p, c, Holds(at, ram))
    <3>1. Idle(p) /\ Rams(ram) /\ c = LcdConfig
      <4>1. Idle(p) /\ Rams(ram)
        BY <2>1, <2>2, EndingIsIdle
      <4>2. c = LcdConfig
        BY <2>1, <2>2 DEF Ending
      <4>3. QED
        BY <4>1, <4>2
    <3>2. PICK q, last : /\ Idle(q)
                         /\ Runs(Devices, LcdUpdate(video), Quiet(p, LcdConfig, NoByte, Holds(at, ram)),
                                 Quiet(q, LcdConfig, NoByte, Holds(last, Picture(video))))
      BY <3>1, LcdUpdateRuns
    <3>3. Ending("poll", item_top, joypos_text, q, LcdConfig, Picture(video))
      BY <3>2, PictureIsEnding
    <3> HIDE DEF video
    <3>4. QED
      BY <2>1, <3>1, <3>2, <3>3, ReadyDevices DEF Brought
  <2>3. QED
    BY <1>4, <2>1, <2>2, CallKeeps
<1>5. QED
  BY <1>1, <1>2, <1>3, <1>4

-----------------------------------------------------------------------------
(* The list of items. *)

\* Going up or down moves the top as it moves what is counted, modulo Rows.
LEMMA ListStep == ListInv /\ [Next]_vars => ListInv'
<1> SUFFICES ASSUME ListInv, [Next]_vars PROVE ListInv'
  OBVIOUS
<1>1. CASE Poll
  <2> DEFINE d == poll(deb, position(adc.data), systick)
             turn(v) == CASE v = "up" -> Rows - 1 [] v = "down" -> 1 [] OTHER -> 0
  <2>1. /\ deb' = d
        /\ IF d.value # deb.value
           THEN /\ item_top' = react(item_top, d.value) /\ joypos_text' = d.value
                /\ moves' = (moves + turn(d.value)) % Rows
           ELSE UNCHANGED <<item_top, joypos_text, moves>>
    BY <1>1 DEF Poll
  <2> HIDE DEF d
  <2>2. ASSUME NEW v, NEW m \in 0 .. Rows - 1
        PROVE  react(m, v) = (m + turn(v)) % Rows /\ react(m, v) \in 0 .. Rows - 1
    <3>1. PICK n \in Nat \ {0} : n = Rows
      BY DemoAssumption
    <3>2. \A x \in 0 .. n - 1 : x % n = x /\ (x + n) % n = x
      OBVIOUS
    <3>3. CASE v = "up"
      <4>1. CASE m = 0
        BY <3>1, <3>2, <3>3, <4>1 DEF react, Up
      <4>2. CASE m # 0
        <5>1. m + (n - 1) = (m - 1) + n /\ m - 1 \in 0 .. n - 1
          BY <3>1, <4>2
        <5>2. QED
          BY <3>1, <3>2, <3>3, <4>2, <5>1 DEF react, Up
      <4>3. QED
        BY <4>1, <4>2
    <3>4. CASE v = "down"
      <4>1. CASE m + 1 = n
        <5>1. (m + 1) % n = 0
          BY <3>1, <3>2, <4>1
        <5>2. QED
          BY <3>1, <3>4, <4>1, <5>1 DEF react, Down
      <4>2. CASE m + 1 # n
        <5>1. m + 1 \in 0 .. n - 1
          BY <3>1, <4>2
        <5>2. QED
          BY <3>1, <3>2, <3>4, <4>2, <5>1 DEF react, Down
      <4>3. QED
        BY <4>1, <4>2
    <3>5. CASE v # "up" /\ v # "down"
      BY <3>1, <3>2, <3>5 DEF react
    <3>6. QED
      BY <3>3, <3>4, <3>5
  <2> HIDE DEF turn
  <2>3. QED
    BY <2>1, <2>2, SMTT(30) DEF ListInv
<1>2. CASE ~ Poll
  <2>1. UNCHANGED <<item_top, moves, joypos_text, deb>>
    BY <1>2 DEF Next, Main, OnBus, InitRadio, InitJoystick, StartConversion, NoCommand, NrfTest,
                HeapEater, EnableLcd, UpdateScreen, ConversionEnds, MoveStick, Tick, OnWire,
                vars, demoVars
  <2>2. QED
    BY <2>1 DEF ListInv
<1>3. QED
  BY <1>1, <1>2

\* The bus goes through the phases of the driver function entered, and the list
\* is where the accepted positions led to.
THEOREM BusInvariance == Spec => [](BusInv /\ ListInv)
<1>1. Init => BusInv /\ ListInv
  BY InitBus
<1>2. BusInv /\ ListInv /\ [Next]_vars => (BusInv /\ ListInv)'
  <2> SUFFICES ASSUME BusInv, ListInv, [Next]_vars PROVE BusInv'
    BY ListStep
  <2>1. CASE OnBus
    BY <2>1, DriverStepKeeps DEF OnBus, Kept, demoVars
  <2>2. CASE OnWire
    BY <2>2, SpiHardwareKeeps DEF OnWire, Kept, demoVars
  <2>3. CASE InitRadio \/ InitJoystick \/ StartConversion \/ Poll \/ NoCommand \/ NrfTest
               \/ HeapEater \/ EnableLcd \/ UpdateScreen
    BY <2>3, PassingSteps, RadioSteps, DisplaySteps
  <2>4. CASE ConversionEnds \/ MoveStick \/ Tick \/ UNCHANGED vars
    <3>1. UNCHANGED <<busVars, pc, item_top, joypos_text>>
      BY <2>4 DEF ConversionEnds, MoveStick, Tick, vars, demoVars
    <3>2. QED
      BY <3>1 DEF BusInv, busVars
  <2>5. QED
    BY <2>1, <2>2, <2>3, <2>4 DEF Next, Main
<1>3. QED
  BY <1>1, <1>2, PTL DEF Spec

-----------------------------------------------------------------------------
(* What follows from it. *)

\* The clock of each configuration is one its device can follow.
LEMMA ClockFits ==
  ASSUME NEW dev \in Devices
  PROVE  clk_freq \div 2^(spi_cfg[dev].BR + 1) <= MaxFrequency[dev]
<1> DEFINE F == MaxFrequency[dev]
<1>1. F \in {4000, 8000}
  BY DEF MaxFrequency, Devices
<1>2. 2^7 = 128 /\ 6 + 1 = 7
  OBVIOUS
<1> DEFINE fits == Fits(F)
<1>3. 6 \in fits
  BY <1>1, <1>2 DEF Fits, clk_freq
<1>4. fits \subseteq 0 .. 6
  BY DEF Fits
<1>5. spi_cfg[dev].BR = max_frequency(F)
  BY DEF spi_cfg, Devices
<1>6. F # 0
  BY <1>1
<1>7. F # 0 /\ fits # {} => max_frequency(F) = CHOOSE i \in fits : \A j \in fits : i <= j
  <2> HIDE DEF F
  <2>1. QED
    BY DEF max_frequency
<1>8. spi_cfg[dev].BR \in fits
  <2> HIDE DEF F, fits
  <2>1. \E i \in fits : \A j \in fits : i <= j
    <3>1. fits \in SUBSET Nat /\ fits # {}
      BY <1>3, <1>4
    <3>2. \A T \in SUBSET Nat : T # {} => \E i \in T : \A j \in T : i <= j
      BY LeastNatural, SMTT(30)
    <3>3. QED
      BY <3>1, <3>2, SMTT(30)
  <2>2. QED
    BY <1>3, <1>5, <1>6, <1>7, <2>1
<1>9. QED
  BY <1>8 DEF Fits

\* Every byte reaches its device, with the pins and the configuration in place
\* until it is out, and no other device hears it.
THEOREM DevicesHearTheirBytes == Spec => []BytesReachTheirDevice
<1>1. BusInv => BytesReachTheirDevice
  <2> SUFFICES ASSUME BusInv, NEW b \in InTransit
               PROVE  /\ b.to \in Listening
                      /\ cr1.SPE /\ cr1.cfg = spi_cfg[b.to] /\ SpiClock <= MaxFrequency[b.to]
                      /\ b.to = "lcd" => pin.lcd_ds = b.ds
                      /\ pc # "lcd_init" => Listening = {b.to}
    BY DEF BytesReachTheirDevice, TransferIsRight, HeardByOneDevice
  <2> DEFINE up == Ready(pc)
  <2>1. RightFor(up, pin, cr1, b)
    BY DEF BusInv, Leads, Linked, InTransit
  <2>2. Listening = Listens(pin)
    BY DEF Listening, Listens
  <2>3. b.to \in Listens(pin) /\ b.to \in Devices
    BY <2>1 DEF RightFor, Listens
  <2>4. cr1.SPE /\ cr1.cfg = spi_cfg[b.to]
    BY <2>1 DEF RightFor, Enabled
  <2>5. SpiClock <= MaxFrequency[b.to]
    BY <2>3, <2>4, ClockFits DEF SpiClock
  <2>6. pc # "lcd_init" => Listens(pin) = {b.to}
    <3>1. Listens(pin) \cap Devices = Listens(pin)
      BY DEF Listens
    <3>2. QED
      BY <2>1, <3>1, ReadyDevices DEF RightFor
  <2>7. QED
    BY <2>1, <2>2, <2>3, <2>4, <2>5, <2>6 DEF RightFor
<1>2. QED
  BY <1>1, BusInvariance, PTL

\* What writeread_blocking() returns answers the byte it sent.
THEOREM AnswersMatch == Spec => []AnswerIsToThisByte
<1>1. BusInv => AnswerIsToThisByte
  BY DEF BusInv, AnswerIsToThisByte
<1>2. QED
  BY <1>1, BusInvariance, PTL

\* Between two pictures the display shows the rows the accepted positions led
\* to, and after _exit() the message, whatever the radio did on the bus.
THEOREM DisplayIsCurrent == Spec => []PanelIsCurrent
<1>1. BusInv /\ ListInv => PanelIsCurrent
  <2> SUFFICES ASSUME BusInv, ListInv,
                      ops = <<>> /\ pc \in {"poll", "convert", "exit"}
               PROVE  PanelIsCurrent
    <3>1. BusInv => (pc = "convert" => ops = <<>>)
      BY DEF BusInv
    <3>2. ~(ops = <<>> /\ pc \in {"poll", "convert", "exit"}) /\ BusInv => PanelIsCurrent
      BY <3>1 DEF PanelIsCurrent, Returned
    <3>3. QED
      BY <3>2
  <2>1. Rests(pc, item_top, joypos_text, pin, cr1, dr, shift, received, panel)
    BY LeadsToRest DEF BusInv
  <2>2. PICK at, ram : panel = Holds(at, ram) /\ Ending(pc, item_top, joypos_text, pin, cr1, ram)
    BY <2>1 DEF Rests
  <2>3. panel.ram = ram
    BY <2>2 DEF Holds
  <2>4. ASSUME pc \in {"poll", "convert"}, ram[1] # Unset, NEW i \in 1 .. VideoBytes
        PROVE  ram[i] = LET r == moves + i - 1
                        IN  IF r >= Rows THEN Blank
                            ELSE IF r = JoyRow THEN <<r, deb.value>> ELSE <<r, NoText>>
    <3>1. ram = Video(moves, deb.value)
      BY <2>2, <2>4 DEF Ending, ListInv
    <3> DEFINE r == moves + i - 1
    <3>2. r \in Nat /\ Rows \in Nat
      BY DemoAssumption DEF ListInv
    <3>3. ram[i] = IF r < Rows THEN RowContent(r, deb.value) ELSE Blank
      BY <3>1 DEF Video
    <3>4. ram[i] = IF r >= Rows THEN Blank
                   ELSE IF r = JoyRow THEN <<r, deb.value>> ELSE <<r, NoText>>
      <4> HIDE DEF r
      <4>1. QED
        BY <3>2, <3>3 DEF RowContent
    <3>5. QED
      BY <3>4
  <2>5. ASSUME pc = "exit", NEW i \in 1 .. VideoBytes PROVE ram[i] = <<Rows, "oops">>
    BY <2>2, <2>5 DEF Ending, Message
  <2>6. QED
    BY <2>3, <2>4, <2>5 DEF PanelIsCurrent, Returned
<1>2. QED
  BY <1>1, BusInvariance, PTL
=============================================================================
