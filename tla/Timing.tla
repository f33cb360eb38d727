------------------------------- MODULE Timing -------------------------------
(***************************************************************************)
(* The time of projects/stm32f103stk-demo: the SysTick counter, the        *)
(* interrupt that counts its periods, TimePoint, which reads the two one   *)
(* after the other, SystemTime::nanosleep() and TimeMeasurement.           *)
(*                                                                         *)
(* The counter runs from reload_value down to 0 and starts again, so that  *)
(* a period has one tick more than reload_value.  On reaching 0 it pends   *)
(* the exception.  The core takes it before its next instruction but one:  *)
(* the main program goes on for as long as the counter stays at 0, which   *)
(* with the clock divided by 8 is less than an exception takes to enter    *)
(* and leave.                                                              *)
(***************************************************************************)
EXTENDS Integers

CONSTANTS Reload,           \* systick::reload_value, TimePoint::counter_base
          Word,             \* 2^32: what an unsigned int has values
          PsPerNs,          \* 1000, as in the conversions
          PsPerTick,        \* systick::ps_per_tick
          Requests,         \* what nanosleep() is called with
          MaxDelay,         \* bound: ticks in a row without a step of the main program
          MaxCalls,         \* bound: calls of nanosleep() and start()
          MaxTime           \* bound: ticks in all

ASSUME TimingAssumption ==
  /\ Reload \in Nat \ {0} /\ Word \in Nat /\ Word > Reload
  /\ PsPerNs \in Nat \ {0} /\ PsPerTick \in Nat \ {0}
  /\ Requests \subseteq 0 .. Word - 1
  /\ MaxDelay \in Nat /\ MaxCalls \in Nat /\ MaxTime \in Nat

VARIABLES
  counter, pending,    \* SysTick: STCVR, and the exception it pends
  systick_count,       \* SystemTime::systick_count
  isr,                 \* the exception is being handled
  doing, part,         \* the main program: which TimePoint it sets, and how far
  ns,                  \* the argument of nanosleep()
  tp,                  \* the TimePoints, by name
  time, read,          \* history: ticks so far, and when each TimePoint was read
  delay, calls         \* for the bounds

clock == <<counter, pending, systick_count, isr>>
main == <<doing, part, ns, tp>>
vars == <<clock, main, time, read, delay, calls>>

Points == {"end", "now", "tp_start", "tp_end"}   \* of nanosleep(), of TimeMeasurement

Unset == [systick |-> 0, counter |-> 0]
Unread == [from |-> 0, to |-> 0, count |-> 0, torn |-> FALSE]

\* Kernel::init() has enabled the counter, then the exception, and goes on for
\* more than a tick before anyone looks at the time.
Init == /\ counter \in 1 .. Reload /\ pending = FALSE
        /\ systick_count = 0 /\ isr = FALSE
        /\ doing = "idle" /\ part = 1 /\ ns = 0
        /\ tp = [x \in Points |-> Unset] /\ read = [x \in Points |-> Unread]
        /\ time = Reload - counter /\ delay = 0 /\ calls = 0

-----------------------------------------------------------------------------
(* Arithmetic of TimePoint. *)

counter_ticks(n) == ((n * PsPerNs) % Word) \div PsPerTick + 1

\* Mutant: a carry that does not move to the next period.
add_nsSamePeriod(p, n) ==
  LET wait_frac == counter_ticks(n) % Reload
      carry == IF wait_frac > p.counter THEN 1 ELSE 0
  IN  [systick |-> (p.systick + counter_ticks(n) \div Reload) % Word,
       counter |-> p.counter + carry * Reload - wait_frac]

add_ns(p, n) ==
  LET wait_frac == counter_ticks(n) % Reload
      carry == IF wait_frac > p.counter THEN 1 ELSE 0
  IN  [systick |-> (p.systick + counter_ticks(n) \div Reload + carry) % Word,
       counter |-> p.counter + carry * Reload - wait_frac]

\* Mutant: the end is waited for as if no tick could be missed.
lessUntilEqual(p, q) == p # q

\* operator<: the counter decreases in time.
less(p, q) ==
  p.systick < q.systick \/ (p.systick = q.systick /\ p.counter > q.counter)

\* Mutant: no borrow when the counter parts are the other way round.
TimePointDiffNoBorrow(p, q) ==
  LET c1 == Reload - p.counter
      c2 == Reload - q.counter
  IN  [systick |-> (p.systick - q.systick) % Word,
       counter |-> IF c1 > c2 THEN Reload - (c1 - c2) ELSE c2 - c1]

TimePointDiff(p, q) ==
  LET c1 == Reload - p.counter
      c2 == Reload - q.counter
  IN  IF c1 > c2
      THEN [systick |-> (p.systick - q.systick) % Word, counter |-> Reload - (c1 - c2)]
      ELSE [systick |-> (p.systick - q.systick - 1) % Word, counter |-> c2 - c1]

\* get_ns(), before and after the conversion to nanoseconds.
get_ticks(p) == (p.systick * Reload - p.counter + Reload) % Word
get_ns(p) == ((get_ticks(p) * PsPerNs) % Word) \div PsPerTick

-----------------------------------------------------------------------------
(* The clock. *)

\* Handlers are short: the exception is handled before the next period ends.
Tick ==
  /\ delay < MaxDelay \/ isr
  /\ time < MaxTime
  /\ ~(counter = 1 /\ (pending \/ isr))
  /\ counter' = IF counter = 0 THEN Reload ELSE counter - 1
  /\ pending' = (pending \/ counter = 1)
  /\ time' = time + 1 /\ delay' = IF delay < MaxDelay THEN delay + 1 ELSE delay
  /\ UNCHANGED <<systick_count, isr, main, read, calls>>

IsrEnter ==
  /\ ~isr /\ pending
  /\ isr' = TRUE /\ pending' = FALSE
  /\ UNCHANGED <<counter, systick_count, main, time, read, delay, calls>>

\* systick_isr(), and the return, a tick later at least.
systick_isr ==
  /\ isr /\ counter # 0
  /\ systick_count' = (systick_count + 1) % Word
  /\ isr' = FALSE
  /\ UNCHANGED <<counter, pending, main, time, read, delay, calls>>

-----------------------------------------------------------------------------
(* The main program. *)

MainRuns == ~isr /\ (~pending \/ counter = 0)

\* Mutant: the counter is loaded first.
LoadOrderSwapped == <<"counter", "systick">>

\* TimePoint::set(): what it loads, in this order.
LoadOrder == <<"systick", "counter">>

Call(x) ==
  /\ MainRuns /\ doing = "idle"
  /\ doing' = x /\ part' = 1 /\ delay' = 0
  /\ UNCHANGED <<clock, time>>

Nanosleep ==
  /\ calls < MaxCalls /\ calls' = calls + 1
  /\ Call("end")
  /\ ns' \in Requests
  /\ UNCHANGED <<tp, read>>

\* A measurement; the last one is forgotten.
Start ==
  /\ calls < MaxCalls /\ calls' = calls + 1
  /\ Call("tp_start")
  /\ tp' = [tp EXCEPT !.tp_end = Unset] /\ read' = [read EXCEPT !.tp_end = Unread]
  /\ UNCHANGED ns

Stop ==
  /\ read.tp_start # Unread /\ read.tp_end = Unread
  /\ Call("tp_end")
  /\ UNCHANGED <<tp, ns, calls, read>>

loaded == [systick |-> systick_count, counter |-> counter]

LoadFirst ==
  /\ MainRuns /\ doing # "idle" /\ part = 1
  /\ part' = 2 /\ delay' = 0
  /\ tp' = [tp EXCEPT ![doing][LoadOrder[1]] = loaded[LoadOrder[1]]]
  /\ read' = [read EXCEPT ![doing].from = time, ![doing].count = systick_count]
  /\ UNCHANGED <<clock, doing, ns, time, calls>>

\* The second load, and what follows it: nanosleep() adds the time to wait to
\* end, then sets now until it is not less than end.
LoadSecond ==
  /\ MainRuns /\ doing # "idle" /\ part = 2
  /\ part' = 1 /\ delay' = 0
  /\ LET point == [tp[doing] EXCEPT ![LoadOrder[2]] = loaded[LoadOrder[2]]]
         when == [read[doing] EXCEPT !.to = time, !.torn = (@ \/ systick_count # read[doing].count)]
     IN  IF doing = "now" /\ ~less(point, tp.end)
         THEN /\ doing' = "idle"
              /\ tp' = [tp EXCEPT !.end = Unset, !.now = Unset]
              /\ read' = [read EXCEPT !.end = Unread, !.now = Unread]
         ELSE /\ doing' = IF doing \in {"end", "now"} THEN "now" ELSE "idle"
              /\ tp' = [tp EXCEPT ![doing] = IF doing = "end" THEN add_ns(point, ns) ELSE point]
              /\ read' = [read EXCEPT ![doing] = when]
  /\ UNCHANGED <<clock, ns, time, calls>>

-----------------------------------------------------------------------------
Isr == IsrEnter \/ systick_isr
Main == Nanosleep \/ Start \/ Stop \/ LoadFirst \/ LoadSecond
Next == Tick \/ Isr \/ Main

Spec == Init /\ [][Next]_vars

\* The clock ticks, interrupts are taken, and a call that was made runs on.
FairSpec == Spec /\ WF_vars(Tick) /\ WF_vars(Isr) /\ WF_vars(LoadFirst) /\ WF_vars(LoadSecond)

-----------------------------------------------------------------------------
(* Properties. *)

\* The tick a TimePoint stands for.
Value(p) == p.systick * (Reload + 1) + Reload - p.counter

\* A TimePoint is never ahead of the clock.  It is right unless the interrupt
\* came between the two loads, and then behind by less than a period.
ReadingLags ==
  \A x \in Points \ {"end"} : (read[x] # Unread /\ doing # x) =>
    /\ Value(tp[x]) <= read[x].to
    /\ Value(tp[x]) + Reload >= read[x].from
    /\ ~read[x].torn => Value(tp[x]) = read[x].to

\* nanosleep() waits as long as it is asked to, in whole ticks, less up to a
\* period if the interrupt came between the loads of end.  Requests whose
\* picoseconds do not fit into an unsigned int are another matter.
Returns == doing = "now" /\ doing' = "idle"
SleepsLongEnough ==
  [][Returns /\ ns * PsPerNs < Word =>
       (time - read.end.from + IF read.end.torn THEN Reload ELSE 0) * PsPerTick >= ns * PsPerNs]_vars

\* nanosleep() returns, however the main program is held up.
SleepEnds == (doing \in {"end", "now"}) ~> (doing = "idle")

\* A measurement counts the ticks that went by, less the one that a period has
\* more than reload_value, for every period that ended: if they fit into a word,
\* though the ticks of the two TimePoints themselves may not.
Measured == read.tp_end # Unread /\ doing # "tp_end" /\ ~read.tp_start.torn /\ ~read.tp_end.torn
MeasuredTicks ==
  Measured /\ read.tp_end.to - read.tp_start.to < Word =>
    get_ticks(TimePointDiff(tp.tp_end, tp.tp_start)) + (tp.tp_end.systick - tp.tp_start.systick)
      = read.tp_end.to - read.tp_start.to

\* timepoint.hpp:112, "diff time in nanoseconds": right to a tick for every
\* period that ended, and one for the rounding.
DiffIsNanoseconds ==
  Measured =>
    LET ticks == read.tp_end.to - read.tp_start.to
        slack == 1 + tp.tp_end.systick - tp.tp_start.systick
        diff == get_ns(TimePointDiff(tp.tp_end, tp.tp_start))
    IN  /\ diff * PsPerNs >= (ticks - slack) * PsPerTick
        /\ diff * PsPerNs <= (ticks + slack) * PsPerTick

\* timepoint.hpp:52, "always rounded up": the ticks cover the nanoseconds.
AlwaysRoundedUp == doing = "now" => counter_ticks(ns) * PsPerTick >= ns * PsPerNs
=============================================================================
