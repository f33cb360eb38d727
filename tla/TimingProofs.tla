---------------------------- MODULE TimingProofs ----------------------------
(***************************************************************************)
(* Proofs about Timing: what a TimePoint says of the time at which it was  *)
(* read, how long nanosleep() waits and what a measurement counts, for     *)
(* every reload value, every word size and runs of any length in which     *)
(* systick_count does not wrap (497 days).                                 *)
(***************************************************************************)
EXTENDS Timing, TLAPS

USE TimingAssumption

-----------------------------------------------------------------------------
(* The inductive invariant, in parts. *)

ClockTypes ==
  /\ counter \in 0 .. Reload /\ pending \in BOOLEAN /\ isr \in BOOLEAN
  /\ systick_count \in Nat /\ time \in Nat

TimePoint == [systick : Int, counter : Int]
Reading == [from : Nat, to : Nat, count : Nat, torn : BOOLEAN]

MainTypes ==
  /\ doing \in Points \cup {"idle"} /\ part \in {1, 2} /\ ns \in Nat
  /\ tp \in [Points -> TimePoint] /\ read \in [Points -> Reading]

\* A period is counted by the interrupt, which comes after it has ended.
Uncounted == counter # 0 /\ (pending \/ isr)
Ticks(n) == n * (Reload + 1)

\* The interrupt is pending or being handled when the counter is at 0, and not
\* both at any time, so that none is lost and the count is late by one at most.
ClockInv ==
  /\ ~(pending /\ isr)
  /\ counter = 0 => pending \/ isr
  /\ time = Ticks(systick_count) + (IF Uncounted THEN Reload + 1 ELSE 0) + Reload - counter
  /\ time <= MaxTime + Reload

\* Between the two loads: systick is what was loaded, in the period of `from`.
HalfRead ==
  doing # "idle" /\ part = 2 =>
    /\ tp[doing].systick = read[doing].count
    /\ read[doing].count <= systick_count
    /\ Ticks(read[doing].count) <= read[doing].from
    /\ read[doing].from <= Ticks(read[doing].count) + Reload

\* The longest run ends before systick_count wraps.
CountLasts == MaxTime + Reload < Ticks(Word)

TimeInv == ClockTypes /\ MainTypes /\ ClockInv /\ HalfRead /\ ReadingLags

-----------------------------------------------------------------------------
\* A later count is not fewer ticks.
LEMMA TicksGrow ==
  ASSUME NEW m \in Nat, NEW n \in Nat, m <= n
  PROVE  Ticks(m) \in Nat /\ Ticks(n) \in Nat /\ Ticks(m) <= Ticks(n)
<1>1. PICK d \in Nat : n = m + d
  <2>1. n - m \in Nat /\ n = m + (n - m)
    OBVIOUS
  <2>2. QED
    BY <2>1
<1>2. PICK p \in Nat : p = Reload + 1
  OBVIOUS
<1>3. m * p \in Nat /\ d * p \in Nat /\ (m + d) * p = m * p + d * p
  OBVIOUS
<1>4. QED
  BY <1>1, <1>2, <1>3 DEF Ticks

LEMMA OneMore ==
  ASSUME NEW n \in Nat
  PROVE  Ticks(n + 1) = Ticks(n) + Reload + 1
<1>1. PICK p \in Nat : p = Reload + 1
  OBVIOUS
<1>2. (n + 1) * p = n * p + p
  OBVIOUS
<1>3. n * p \in Nat
  OBVIOUS
<1>4. QED
  BY <1>1, <1>2, <1>3 DEF Ticks

LEMMA InitTime == Init => TimeInv
<1> SUFFICES ASSUME Init PROVE TimeInv
  OBVIOUS
<1>1. ClockTypes /\ ClockInv
  <2>1. Ticks(0) = 0
    BY DEF Ticks
  <2>2. /\ counter \in 1 .. Reload /\ ~pending /\ ~isr /\ pending \in BOOLEAN /\ isr \in BOOLEAN
        /\ systick_count = 0 /\ time = Reload - counter
    BY DEF Init
  <2>3. time \in Nat /\ time <= Reload /\ counter # 0
    BY <2>2
  <2>4. ~Uncounted
    BY <2>2 DEF Uncounted
  <2>5. time = Ticks(systick_count) + 0 + Reload - counter
    BY <2>1, <2>2
  <2>6. QED
    BY <2>2, <2>3, <2>4, <2>5 DEF ClockTypes, ClockInv
<1>2. MainTypes /\ HalfRead
  BY DEF Init, MainTypes, HalfRead, Points, TimePoint, Reading, Unset, Unread
<1>3. ReadingLags
  BY DEF Init, ReadingLags
<1>4. QED
  BY <1>1, <1>2, <1>3 DEF TimeInv

\* The counter goes round, the exception is taken, and its handler counts the
\* period that has ended, before the next one ends.
LEMMA ClockStep ==
  ASSUME CountLasts, ClockTypes, ClockInv, [Next]_vars
  PROVE  ClockTypes' /\ ClockInv' /\ systick_count <= systick_count'
<1> USE DEF ClockTypes, ClockInv, Uncounted
<1>0. Ticks(systick_count) \in Nat
  BY TicksGrow
<1>1. CASE Tick
  <2>1. PICK k \in Nat, n \in 0 .. Reload, m \in Nat :
          k = Ticks(systick_count) /\ n = counter /\ m = time
    BY <1>0
  <2>2. /\ systick_count' = systick_count /\ isr' = isr /\ time' = m + 1 /\ m < MaxTime
        /\ Ticks(systick_count') = k
    BY <1>1, <2>1 DEF Tick
  <2>3. CASE n = 0
    <3>1. counter' = Reload /\ pending' = pending /\ (pending \/ isr)
      BY <1>1, <2>1, <2>3 DEF Tick
    <3>2. m = k + Reload
      BY <2>1, <2>3
    <3>3. time' = k + (Reload + 1) + Reload - Reload
      BY <2>1, <2>2, <3>2
    <3>4. QED
      BY <2>1, <2>2, <3>1, <3>3
  <2>4. CASE n = 1
    <3>1. counter' = 0 /\ ~pending /\ ~isr
      BY <1>1, <2>1, <2>4 DEF Tick
    <3>a. pending' /\ pending' \in BOOLEAN
      BY <1>1, <2>1, <2>4, Zenon DEF Tick
    <3>2. m = k + Reload - 1
      BY <2>1, <2>4, <3>1
    <3>3. time' = k + 0 + Reload - 0
      BY <2>1, <2>2, <3>2
    <3>4. QED
      BY <2>1, <2>2, <3>1, <3>a, <3>3
  <2>5. CASE n > 1
    <3>1. counter' = n - 1 /\ pending' = pending /\ counter' # 0 /\ counter' \in 0 .. Reload
      BY <1>1, <2>1, <2>5 DEF Tick
    <3>2. PICK late \in Nat : late = (IF pending \/ isr THEN Reload + 1 ELSE 0)
      OBVIOUS
    <3>3. m = k + late + Reload - n
      BY <2>1, <2>5, <3>2
    <3>4. time' = k + late + Reload - (n - 1)
      BY <2>1, <2>2, <3>2, <3>3
    <3>5. QED
      BY <2>1, <2>2, <3>1, <3>2, <3>4
  <2>6. QED
    BY <2>1, <2>3, <2>4, <2>5
<1>2. CASE IsrEnter
  <2>1. /\ ~isr /\ pending /\ isr' /\ ~pending' /\ isr' \in BOOLEAN /\ pending' \in BOOLEAN
        /\ UNCHANGED <<counter, systick_count, time>>
    BY <1>2 DEF IsrEnter
  <2>2. Uncounted' <=> Uncounted
    BY <2>1
  <2>3. QED
    BY <2>1, <2>2
<1>3. CASE systick_isr
  <2>1. Ticks(systick_count + 1) = Ticks(systick_count) + Reload + 1
    BY OneMore
  <2>2. Ticks(systick_count + 1) <= time
    BY <1>0, <1>3, <2>1 DEF systick_isr
  <2>3. Ticks(systick_count + 1) < Ticks(Word)
    BY <1>0, <2>1, <2>2, TicksGrow DEF CountLasts
  <2>4. systick_count + 1 < Word
    BY <1>0, <2>1, <2>3, TicksGrow
  <2>5. (systick_count + 1) % Word = systick_count + 1
    BY <2>4
  <2>6. /\ systick_count' = systick_count + 1 /\ isr /\ ~isr' /\ isr' \in BOOLEAN /\ ~pending /\ counter # 0
        /\ UNCHANGED <<counter, pending, time>>
    BY <1>3, <2>5 DEF systick_isr
  <2>7. time = Ticks(systick_count) + (Reload + 1) + Reload - counter
    BY <1>3, <2>6
  <2>8. time' = Ticks(systick_count') + 0 + Reload - counter'
    BY <1>0, <2>1, <2>6, <2>7
  <2>9. ~Uncounted' /\ systick_count' \in Nat
    BY <2>6
  <2>10. QED
    BY <2>6, <2>8, <2>9
<1>4. CASE Main \/ UNCHANGED vars
  BY <1>0, <1>4 DEF Main, Nanosleep, Start, Stop, Call, LoadFirst, LoadSecond, clock, vars
<1>5. QED
  BY <1>1, <1>2, <1>3, <1>4 DEF Next, Isr

\* What the main program sees when it runs: the count and the counter agree
\* with the time.
LEMMA SeenInTime ==
  ASSUME ClockTypes, ClockInv, MainRuns
  PROVE  time = Ticks(systick_count) + Reload - counter
BY TicksGrow DEF ClockTypes, ClockInv, Uncounted, MainRuns

\* add_ns() makes a TimePoint.
LEMMA AddType ==
  ASSUME NEW p \in TimePoint, NEW n \in Nat
  PROVE  add_ns(p, n) \in TimePoint
<1>1. counter_ticks(n) \in Nat
  <2>1. n * PsPerNs \in Nat
    OBVIOUS
  <2>2. (n * PsPerNs) % Word \in Nat
    BY <2>1
  <2>3. QED
    BY <2>2 DEF counter_ticks
<1>2. PICK k \in Nat : k = counter_ticks(n)
  BY <1>1
<1>3. k % Reload \in Int /\ k \div Reload \in Int
  OBVIOUS
<1>4. PICK carry \in {0, 1} : carry = IF k % Reload > p.counter THEN 1 ELSE 0
  OBVIOUS
<1>5. p.systick \in Int /\ p.counter \in Int
  BY DEF TimePoint
<1>6. /\ (p.systick + k \div Reload + carry) % Word \in Int
      /\ p.counter + carry * Reload - (k % Reload) \in Int
  BY <1>3, <1>5
<1>7. QED
  BY <1>2, <1>4, <1>6 DEF add_ns, TimePoint

\* The clock going on, and a call, leave what was read as it is.
LEMMA CallStep ==
  ASSUME TimeInv, systick_count <= systick_count', ClockTypes',
         Tick \/ Isr \/ Nanosleep \/ Start \/ Stop \/ UNCHANGED vars
  PROVE  MainTypes' /\ HalfRead' /\ ReadingLags'
<1>1. CASE Tick \/ Isr \/ UNCHANGED vars
  <2>1. UNCHANGED <<doing, part, ns, tp, read>>
    BY <1>1 DEF Tick, Isr, IsrEnter, systick_isr, main, vars
  <2>2. MainTypes'
    BY <2>1 DEF TimeInv, MainTypes
  <2>3. HalfRead'
    <3>1. SUFFICES ASSUME doing # "idle", part = 2 PROVE read[doing].count <= systick_count'
      BY <2>1 DEF TimeInv, HalfRead
    <3>2. read[doing].count \in Nat /\ read[doing].count <= systick_count
      BY <3>1 DEF TimeInv, HalfRead, MainTypes, Reading
    <3>3. PICK a \in Nat, b \in Nat : a = systick_count /\ b = systick_count'
      BY DEF TimeInv, ClockTypes
    <3>4. QED
      BY <3>2, <3>3
  <2>4. ReadingLags'
    BY <2>1 DEF TimeInv, ReadingLags, Value
  <2>5. QED
    BY <2>2, <2>3, <2>4
<1>2. CASE Nanosleep \/ Start \/ Stop
  <2>1. doing = "idle" /\ doing' \in Points /\ part' = 1
    BY <1>2 DEF Nanosleep, Start, Stop, Call, Points
  <2>2. \/ UNCHANGED <<tp, read>>
        \/ /\ tp' = [tp EXCEPT !.tp_end = Unset]
           /\ read' = [read EXCEPT !.tp_end = Unread]
    BY <1>2 DEF Nanosleep, Start, Stop
  <2>3. ns' \in Nat
    BY <1>2 DEF Nanosleep, Start, Stop, Call, TimeInv, MainTypes
  <2>4. Unset \in TimePoint /\ Unread \in Reading
    BY DEF Unset, Unread, TimePoint, Reading
  <2>5. MainTypes'
    BY <2>1, <2>2, <2>3, <2>4 DEF TimeInv, MainTypes
  <2>6. HalfRead'
    BY <2>1 DEF HalfRead
  <2>7. ReadingLags'
    <3>1. ASSUME NEW x \in Points \ {"end"}, read'[x] # Unread
          PROVE  read'[x] = read[x] /\ tp'[x] = tp[x]
      BY <2>2, <3>1 DEF TimeInv, MainTypes, Points
    <3>2. \A x \in Points : doing # x
      BY <2>1 DEF Points
    <3>3. QED
      BY <3>1, <3>2 DEF TimeInv, ReadingLags, Value
  <2>8. QED
    BY <2>5, <2>6, <2>7
<1>3. QED
  BY <1>1, <1>2

\* The first load: systick, in the period the time is in.
LEMMA FirstStep ==
  ASSUME TimeInv, LoadFirst
  PROVE  MainTypes' /\ HalfRead' /\ ReadingLags'
<1>0. /\ doing \in Points /\ part = 1 /\ UNCHANGED <<systick_count, doing, ns>> /\ part' = 2
      /\ tp \in [Points -> TimePoint] /\ read \in [Points -> Reading] /\ ns \in Nat
      /\ systick_count \in Nat /\ time \in Nat /\ counter \in 0 .. Reload
  BY DEF LoadFirst, clock, TimeInv, MainTypes, ClockTypes
<1>1. tp' = [tp EXCEPT ![doing] = [tp[doing] EXCEPT !.systick = systick_count]]
  BY DEF LoadFirst, LoadOrder, loaded
<1>2. read' = [read EXCEPT ![doing] = [read[doing] EXCEPT !.from = time, !.count = systick_count]]
  BY DEF LoadFirst
<1>3. tp[doing] \in TimePoint /\ read[doing] \in Reading
  BY <1>0
<1>4. /\ tp'[doing] \in TimePoint /\ tp'[doing].systick = systick_count
      /\ read'[doing] \in Reading /\ read'[doing].from = time /\ read'[doing].count = systick_count
  <2>1. /\ tp'[doing] = [tp[doing] EXCEPT !.systick = systick_count]
        /\ read'[doing] = [read[doing] EXCEPT !.from = time, !.count = systick_count]
    BY <1>0, <1>1, <1>2
  <2>2. ASSUME NEW p \in TimePoint, NEW v \in Int
        PROVE  [p EXCEPT !.systick = v] \in TimePoint /\ [p EXCEPT !.systick = v].systick = v
    BY DEF TimePoint
  <2>4. systick_count \in Int
    BY <1>0
  <2>5. tp'[doing] \in TimePoint /\ tp'[doing].systick = systick_count
    BY <1>3, <2>1, <2>2, <2>4
  <2>6. time \in Nat /\ systick_count \in Nat
    BY <1>0
  <2>7. /\ read'[doing] \in Reading /\ read'[doing].from = time
        /\ read'[doing].count = systick_count
    <3>1. PICK q \in Reading : q = read[doing]
      BY <1>3
    <3>2. read'[doing] = [q EXCEPT !.from = time, !.count = systick_count]
      BY <2>1, <3>1
    <3>3. /\ [q EXCEPT !.from = time, !.count = systick_count] \in Reading
          /\ [q EXCEPT !.from = time, !.count = systick_count].from = time
          /\ [q EXCEPT !.from = time, !.count = systick_count].count = systick_count
      BY <2>6 DEF Reading
    <3>4. QED
      BY <3>2, <3>3
  <2>8. QED
    BY <2>5, <2>7
<1>5. \A x \in Points : x # doing => tp'[x] = tp[x] /\ read'[x] = read[x]
  BY <1>0, <1>1, <1>2
<1>6. tp' \in [Points -> TimePoint] /\ read' \in [Points -> Reading]
  BY <1>0, <1>1, <1>2, <1>4
<1>7. MainTypes'
  BY <1>0, <1>6 DEF MainTypes
<1>8. HalfRead'
  <2>1. time = Ticks(systick_count) + Reload - counter
    BY SeenInTime DEF LoadFirst, TimeInv
  <2>2. Ticks(systick_count) \in Nat
    BY <1>0, TicksGrow
  <2>3. Ticks(systick_count) <= time /\ time <= Ticks(systick_count) + Reload
    BY <1>0, <2>1, <2>2
  <2>4. QED
    BY <1>0, <1>4, <2>3 DEF HalfRead
<1>9. ReadingLags'
  BY <1>0, <1>5 DEF TimeInv, ReadingLags, Value
<1>10. QED
  BY <1>7, <1>8, <1>9

\* The second load: counter, at a time the count may have moved on since.
LEMMA SecondRead ==
  ASSUME TimeInv, MainRuns, doing \in Points, part = 2,
         NEW point \in TimePoint, point.systick = tp[doing].systick, point.counter = counter
  PROVE  /\ Value(point) <= time
         /\ Value(point) + Reload >= read[doing].from
         /\ systick_count = read[doing].count => Value(point) = time
<1>1. time = Ticks(systick_count) + Reload - counter
  BY SeenInTime DEF TimeInv
<1>2. PICK n \in Nat, m \in Nat, k \in 0 .. Reload, t \in Nat, f \in Nat :
        /\ n = read[doing].count /\ m = systick_count /\ k = counter /\ t = time
        /\ f = read[doing].from
  BY DEF TimeInv, ClockTypes, MainTypes, Reading
<1>3. point.systick = n /\ n <= m /\ Ticks(n) <= f /\ f <= Ticks(n) + Reload
  BY <1>2 DEF TimeInv, HalfRead, Points
<1>4. PICK a \in Nat, b \in Nat : a = Ticks(n) /\ b = Ticks(m) /\ a <= b
  BY <1>3, TicksGrow
<1>5. Value(point) = a + Reload - k
  BY <1>2, <1>3, <1>4 DEF Value, Ticks
<1>6. t = b + Reload - k
  BY <1>1, <1>2, <1>4
<1>7. a + Reload - k <= t /\ a + Reload - k + Reload >= f
  BY <1>3, <1>4, <1>6
<1>8. m = n => a = b
  BY <1>4
<1>9. QED
  BY <1>2, <1>5, <1>6, <1>7, <1>8

LEMMA SecondStep ==
  ASSUME TimeInv, LoadSecond
  PROVE  MainTypes' /\ HalfRead' /\ ReadingLags'
<1>0. /\ doing \in Points /\ part = 2 /\ part' = 1 /\ ns' = ns /\ ns \in Nat
      /\ tp \in [Points -> TimePoint] /\ read \in [Points -> Reading]
      /\ counter \in Int /\ time \in Nat
  BY DEF LoadSecond, TimeInv, MainTypes, ClockTypes
<1> DEFINE point == [tp[doing] EXCEPT !.counter = counter]
           when == [read[doing] EXCEPT !.to = time,
                                       !.torn = (@ \/ systick_count # read[doing].count)]
<1>1. \/ /\ doing = "now" /\ doing' = "idle"
         /\ tp' = [tp EXCEPT !.end = Unset, !.now = Unset]
         /\ read' = [read EXCEPT !.end = Unread, !.now = Unread]
      \/ /\ doing' = IF doing \in {"end", "now"} THEN "now" ELSE "idle"
         /\ tp' = [tp EXCEPT ![doing] = IF doing = "end" THEN add_ns(point, ns) ELSE point]
         /\ read' = [read EXCEPT ![doing] = when]
  BY DEF LoadSecond, LoadOrder, loaded
<1>2. point \in TimePoint /\ point.systick = tp[doing].systick /\ point.counter = counter
  <2>1. PICK p \in TimePoint : p = tp[doing]
    BY <1>0
  <2>2. LET q == [p EXCEPT !.counter = counter]
        IN  q \in TimePoint /\ q.systick = p.systick /\ q.counter = counter
    BY <1>0 DEF TimePoint
  <2>3. QED
    BY <2>1, <2>2
<1>3. /\ when \in Reading /\ when.to = time /\ when.from = read[doing].from
      /\ ~when.torn => systick_count = read[doing].count
  <2>1. PICK q \in Reading : q = read[doing]
    BY <1>0
  <2>2. PICK tear \in BOOLEAN : tear = (q.torn \/ systick_count # q.count)
    OBVIOUS
  <2>3. when = [q EXCEPT !.to = time, !.torn = tear]
    BY <2>1, <2>2
  <2>4. LET r == [q EXCEPT !.to = time, !.torn = tear]
        IN  r \in Reading /\ r.to = time /\ r.from = q.from /\ r.torn = tear
    BY <1>0, <2>2 DEF Reading
  <2>5. QED
    BY <2>1, <2>2, <2>3, <2>4
<1> HIDE DEF point, when
<1>4. add_ns(point, ns) \in TimePoint
  BY <1>0, <1>2, AddType
<1>5. Unset \in TimePoint /\ Unread \in Reading
  BY DEF Unset, Unread, TimePoint, Reading
<1>6. MainTypes'
  <2>1. doing' \in Points \cup {"idle"}
    BY <1>1 DEF Points
  <2>2. tp' \in [Points -> TimePoint] /\ read' \in [Points -> Reading]
    <3>1. CASE /\ tp' = [tp EXCEPT !.end = Unset, !.now = Unset]
               /\ read' = [read EXCEPT !.end = Unread, !.now = Unread]
      BY <1>0, <1>5, <3>1
    <3>2. CASE /\ tp' = [tp EXCEPT ![doing] = IF doing = "end" THEN add_ns(point, ns) ELSE point]
               /\ read' = [read EXCEPT ![doing] = when]
      <4>1. (IF doing = "end" THEN add_ns(point, ns) ELSE point) \in TimePoint
        BY <1>2, <1>4
      <4>2. tp' \in [Points -> TimePoint]
        BY <1>0, <3>2, <4>1
      <4>3. read' \in [Points -> Reading]
        BY <1>0, <1>3, <3>2
      <4>4. QED
        BY <4>2, <4>3
    <3>3. QED
      BY <1>1, <3>1, <3>2
  <2>3. QED
    BY <1>0, <2>1, <2>2 DEF MainTypes
<1>7. HalfRead'
  BY <1>0 DEF HalfRead
<1>8. ReadingLags'
  <2>1. SUFFICES ASSUME NEW x \in Points \ {"end"}, read'[x] # Unread, doing' # x
                 PROVE  /\ Value(tp'[x]) <= read'[x].to
                        /\ Value(tp'[x]) + Reload >= read'[x].from
                        /\ ~read'[x].torn => Value(tp'[x]) = read'[x].to
    BY DEF ReadingLags, Value
  <2>2. CASE x # doing
    <3>1. tp'[x] = tp[x] /\ read'[x] = read[x]
      BY <1>0, <1>1, <2>1, <2>2 DEF Points
    <3>2. QED
      BY <2>1, <2>2, <3>1 DEF TimeInv, ReadingLags
  <2>3. CASE x = doing
    <3>1. tp'[x] = point /\ read'[x] = when
      BY <1>0, <1>1, <2>1, <2>3 DEF Points
    <3>2. MainRuns
      BY DEF LoadSecond
    <3>3. QED
      BY <1>0, <1>2, <1>3, <2>3, <3>1, <3>2, SecondRead
  <2>4. QED
    BY <2>2, <2>3
<1>9. QED
  BY <1>6, <1>7, <1>8

LEMMA NextTime ==
  ASSUME CountLasts
  PROVE  TimeInv /\ [Next]_vars => TimeInv'
<1> SUFFICES ASSUME TimeInv, [Next]_vars PROVE TimeInv'
  OBVIOUS
<1>1. ClockTypes' /\ ClockInv' /\ systick_count <= systick_count'
  BY ClockStep DEF TimeInv
<1>2. MainTypes' /\ HalfRead' /\ ReadingLags'
  <2>1. CASE Tick \/ Isr \/ Nanosleep \/ Start \/ Stop \/ UNCHANGED vars
    BY <1>1, <2>1, CallStep
  <2>2. CASE LoadFirst
    BY <2>2, FirstStep
  <2>3. CASE LoadSecond
    BY <2>3, SecondStep
  <2>4. QED
    BY <2>1, <2>2, <2>3 DEF Next, Main
<1>3. QED
  BY <1>1, <1>2 DEF TimeInv

-----------------------------------------------------------------------------
\* The inductive invariant, for as long as systick_count does not wrap.
THEOREM TimeInvariance ==
  ASSUME CountLasts
  PROVE  Spec => []TimeInv
<1>1. Init => TimeInv
  BY InitTime
<1>2. TimeInv /\ [Next]_vars => TimeInv'
  BY NextTime
<1>3. QED
  BY <1>1, <1>2, PTL DEF Spec

\* TimePoint::set() reads two halves one after the other with interrupts on:
\* what it makes of them is never ahead of the clock, is behind by less than a
\* period, and is exact unless systick_isr() came between the loads.
THEOREM TimePointsLag ==
  ASSUME CountLasts
  PROVE  Spec => []ReadingLags
<1>1. TimeInv => ReadingLags
  BY DEF TimeInv
<1>2. QED
  BY <1>1, TimeInvariance, PTL

-----------------------------------------------------------------------------
(* Measurements. *)

LEMMA ModSmall == ASSUME NEW x \in 0 .. Word - 1 PROVE x % Word = x
OBVIOUS

LEMMA ModMultiple == ASSUME NEW k \in Nat PROVE (Word * k) % Word = 0
<1>1. PICK w \in Nat \ {0} : w = Word
  OBVIOUS
<1>2. PICK q \in Int, m \in Int : q = (w * k) \div w /\ m = (w * k) % w
  OBVIOUS
<1>3. w * k = w * q + m /\ 0 <= m /\ m < w
  BY <1>2
<1>4. w * (k - q) = m
  BY <1>3
<1>5. k - q = 0
  <2>1. CASE k - q >= 1
    BY <1>3, <1>4, <2>1
  <2>2. CASE k - q <= -1
    BY <1>3, <1>4, <2>2
  <2>3. QED
    BY <2>1, <2>2
<1>6. QED
  BY <1>1, <1>2, <1>4, <1>5

\* get_ticks() of operator-: a period counts for reload_value ticks.
LEMMA DiffTicks ==
  ASSUME NEW p, NEW q, NEW sp \in Nat, NEW sq \in Nat, NEW cp \in 0 .. Reload, NEW cq \in 0 .. Reload,
         p = [systick |-> sp, counter |-> cp], q = [systick |-> sq, counter |-> cq],
         Value(q) <= Value(p), Value(p) - Value(q) < Word
  PROVE  get_ticks(TimePointDiff(p, q)) + (sp - sq) = Value(p) - Value(q)
<1>1. PICK e1 \in 0 .. Reload, e2 \in 0 .. Reload : e1 = Reload - cp /\ e2 = Reload - cq
  OBVIOUS
<1>2. Value(p) = Ticks(sp) + e1 /\ Value(q) = Ticks(sq) + e2
  BY <1>1, TicksGrow DEF Value, Ticks
<1>3. Ticks(sp) \in Nat /\ Ticks(sq) \in Nat
  BY TicksGrow
<1>4. sq <= sp
  <2>1. SUFFICES ASSUME sp + 1 <= sq PROVE FALSE
    OBVIOUS
  <2>2. Ticks(sp) + Reload + 1 <= Ticks(sq)
    BY <2>1, OneMore, TicksGrow
  <2>3. QED
    BY <1>2, <1>3, <2>2
<1>5. PICK d \in Nat : d = sp - sq /\ sp = sq + d
  <2>1. sp - sq \in Nat /\ sp = sq + (sp - sq)
    BY <1>4
  <2>2. QED
    BY <2>1
<1>6. Ticks(sp) = Ticks(sq) + Ticks(d)
  BY <1>5 DEF Ticks
<1>7. PICK g \in Nat : g = d * Reload /\ Ticks(d) = g + d
  BY DEF Ticks
<1>8. /\ Value(p) - Value(q) = g + d + e1 - e2
      /\ 0 <= g + d + e1 - e2 /\ g + d + e1 - e2 < Word
  BY <1>2, <1>3, <1>6, <1>7
<1>9. SUFFICES get_ticks(TimePointDiff(p, q)) = g + e1 - e2
  BY <1>5, <1>7, <1>8
<1>10. TimePointDiff(p, q) =
         IF e1 > e2 THEN [systick |-> d % Word, counter |-> Reload - (e1 - e2)]
                    ELSE [systick |-> (d - 1) % Word, counter |-> e2 - e1]
  BY <1>1, <1>5 DEF TimePointDiff
<1>11. CASE e1 > e2
  <2>1. d % Word = d
    BY <1>7, <1>8, <1>11, ModSmall
  <2>2. get_ticks(TimePointDiff(p, q)) = (g - (Reload - (e1 - e2)) + Reload) % Word
    BY <1>7, <1>10, <1>11, <2>1 DEF get_ticks
  <2>3. g - (Reload - (e1 - e2)) + Reload = g + e1 - e2 /\ g + e1 - e2 \in 0 .. Word - 1
    BY <1>7, <1>8, <1>11
  <2>4. QED
    BY <2>2, <2>3, ModSmall
<1>12. CASE e1 <= e2 /\ d # 0
  <2>1. g >= Reload
    <3>1. d >= 1 /\ g = (d - 1) * Reload + Reload /\ (d - 1) * Reload \in Nat
      BY <1>7, <1>12
    <3>2. QED
      BY <3>1
  <2>2. (d - 1) % Word = d - 1
    BY <1>7, <1>8, <1>12, <2>1, ModSmall
  <2>3. (d - 1) * Reload = g - Reload
    BY <1>7
  <2>4. get_ticks(TimePointDiff(p, q)) = (g - Reload - (e2 - e1) + Reload) % Word
    <3>1. ~(e1 > e2)
      BY <1>12
    <3>2. TimePointDiff(p, q) = [systick |-> d - 1, counter |-> e2 - e1]
      BY <1>10, <2>2, <3>1
    <3>3. get_ticks(TimePointDiff(p, q)) = ((d - 1) * Reload - (e2 - e1) + Reload) % Word
      BY <3>2 DEF get_ticks
    <3>4. QED
      BY <2>3, <3>3
  <2>5. g - Reload - (e2 - e1) + Reload = g + e1 - e2 /\ g + e1 - e2 \in 0 .. Word - 1
    BY <1>7, <1>8, <1>12, <2>1
  <2>6. QED
    BY <2>4, <2>5, ModSmall
<1>13. CASE e1 <= e2 /\ d = 0
  <2>1. g = 0 /\ e1 = e2
    BY <1>7, <1>8, <1>13
  <2>2. (d - 1) % Word = Word - 1
    BY <1>13
  <2>3. (Word - 1) * Reload = Word * Reload - Reload /\ Word * Reload \in Nat
    OBVIOUS
  <2>4. get_ticks(TimePointDiff(p, q)) = ((Word - 1) * Reload - 0 + Reload) % Word
    BY <1>10, <1>13, <2>1, <2>2 DEF get_ticks
  <2>5. (Word - 1) * Reload - 0 + Reload = Word * Reload
    BY <2>3
  <2>6. QED
    BY <2>1, <2>4, <2>5, ModMultiple
<1>14. QED
  BY <1>11, <1>12, <1>13

\* A measurement in order: its start was read when its end is, and before it.
Ends == {"tp_start", "tp_end"}
MeasureInv ==
  /\ \A x \in Ends : /\ tp[x] \in [systick : Nat, counter : 0 .. Reload]
                     /\ read[x].to <= time
  /\ doing = "tp_start" => read["tp_end"] = Unread
  /\ doing = "tp_end" => read["tp_start"] # Unread
  /\ read["tp_end"] # Unread =>
       /\ read["tp_start"] # Unread
       /\ doing # "tp_end" => read["tp_start"].to <= read["tp_end"].to

LEMMA MeasureStep ==
  ASSUME TimeInv, ClockTypes', MeasureInv, [Next]_vars
  PROVE  MeasureInv'
<1>0. /\ tp \in [Points -> TimePoint] /\ read \in [Points -> Reading]
      /\ Ends \subseteq Points /\ "end" \notin Ends /\ "now" \notin Ends
      /\ doing \in Points \cup {"idle"} /\ "idle" \notin Points
      /\ time \in Nat /\ systick_count \in Nat /\ counter \in 0 .. Reload
  BY DEF TimeInv, MainTypes, ClockTypes, Ends, Points
<1>1. ASSUME time <= time', \A x \in Ends : tp'[x] = tp[x] /\ read'[x] = read[x]
      PROVE  \A x \in Ends : /\ tp'[x] \in [systick : Nat, counter : 0 .. Reload]
                             /\ read'[x].to <= time'
  <2>1. TAKE x \in Ends
  <2>2. PICK t \in Nat, t2 \in Nat, r \in Nat : t = time /\ t2 = time' /\ r = read[x].to
    BY <1>0 DEF ClockTypes, Reading
  <2>3. r <= t /\ t <= t2
    BY <1>1, <2>2 DEF MeasureInv
  <2>4. QED
    BY <1>1, <2>2, <2>3 DEF MeasureInv
<1>2. CASE Tick \/ Isr \/ UNCHANGED vars
  <2>1. UNCHANGED <<doing, tp, read>> /\ time <= time'
    BY <1>0, <1>2 DEF Tick, Isr, IsrEnter, systick_isr, main, vars
  <2>2. QED
    BY <1>1, <2>1 DEF MeasureInv
<1>3. CASE Nanosleep \/ Stop
  <2>1. /\ UNCHANGED <<tp, read>> /\ time' = time /\ doing = "idle"
        /\ doing' = "end" \/ (doing' = "tp_end" /\ read["tp_start"] # Unread /\ read["tp_end"] = Unread)
    BY <1>3 DEF Nanosleep, Stop, Call
  <2>2. QED
    BY <1>0, <1>1, <2>1 DEF MeasureInv
<1>4. CASE Start
  <2>1. /\ tp' = [tp EXCEPT !["tp_end"] = Unset] /\ read' = [read EXCEPT !["tp_end"] = Unread]
        /\ time' = time /\ doing' = "tp_start"
    BY <1>4 DEF Start, Call
  <2>2. /\ tp'["tp_end"] = Unset /\ tp'["tp_start"] = tp["tp_start"]
        /\ read'["tp_end"] = Unread /\ read'["tp_start"] = read["tp_start"]
    BY <1>0, <2>1 DEF Ends
  <2>3. Unset \in [systick : Nat, counter : 0 .. Reload] /\ Unread.to = 0
    BY DEF Unset, Unread
  <2>4. QED
    BY <1>0, <2>1, <2>2, <2>3 DEF MeasureInv, Ends
<1>5. CASE LoadFirst
  <2>1. /\ doing \in Points /\ doing' = doing /\ time' = time
        /\ tp' = [tp EXCEPT ![doing] = [tp[doing] EXCEPT !.systick = systick_count]]
        /\ read' = [read EXCEPT ![doing] = [read[doing] EXCEPT !.from = time, !.count = systick_count]]
    BY <1>0, <1>5 DEF LoadFirst, LoadOrder, loaded
  <2>2. \A x \in Points : x # doing => tp'[x] = tp[x] /\ read'[x] = read[x]
    BY <1>0, <2>1
  <2>3. CASE doing \notin Ends
    BY <1>0, <1>1, <2>1, <2>2, <2>3 DEF MeasureInv, Ends
  <2>4. CASE doing \in Ends
    <3>1. tp'[doing] \in [systick : Nat, counter : 0 .. Reload]
      <4>1. PICK p \in [systick : Nat, counter : 0 .. Reload] : p = tp[doing]
        BY <2>4 DEF MeasureInv
      <4>2. tp'[doing] = [p EXCEPT !.systick = systick_count]
        BY <1>0, <2>1, <4>1
      <4>3. QED
        BY <1>0, <4>2
    <3>2. read'[doing].to = read[doing].to
      <4>1. PICK q \in Reading : q = read[doing]
        BY <1>0, <2>1
      <4>2. read'[doing] = [q EXCEPT !.from = time, !.count = systick_count]
        BY <1>0, <2>1, <4>1
      <4>3. QED
        BY <4>1, <4>2 DEF Reading
    <3>3. \A x \in Ends : /\ tp'[x] \in [systick : Nat, counter : 0 .. Reload]
                          /\ read'[x].to <= time'
      BY <1>0, <2>1, <2>2, <3>1, <3>2 DEF MeasureInv
    <3>4. QED
      BY <1>0, <2>1, <2>2, <2>4, <3>3 DEF MeasureInv, Ends
  <2>5. QED
    BY <2>3, <2>4
<1>6. CASE LoadSecond
  <2>1. CASE doing \notin Ends
    <3>1. time' = time /\ doing' \notin Ends
      BY <1>0, <1>6, <2>1 DEF LoadSecond, Ends
    <3>2. \A x \in Ends : tp'[x] = tp[x] /\ read'[x] = read[x]
      BY <1>0, <1>6, <2>1 DEF LoadSecond, Ends
    <3>3. QED
      BY <1>0, <1>1, <2>1, <3>1, <3>2 DEF MeasureInv, Ends
  <2>2. CASE doing \in Ends
    <3>1. /\ time' = time /\ doing' = "idle"
          /\ tp' = [tp EXCEPT ![doing] = [tp[doing] EXCEPT !.counter = counter]]
          /\ read' = [read EXCEPT ![doing] = [read[doing] EXCEPT !.to = time,
                        !.torn = (@ \/ systick_count # read[doing].count)]]
      BY <1>6, <2>2 DEF LoadSecond, LoadOrder, loaded, Ends
    <3>2. \A x \in Points : x # doing => tp'[x] = tp[x] /\ read'[x] = read[x]
      BY <1>0, <3>1
    <3>3. tp'[doing] \in [systick : Nat, counter : 0 .. Reload]
      <4>1. PICK p \in [systick : Nat, counter : 0 .. Reload] : p = tp[doing]
        BY <2>2 DEF MeasureInv
      <4>2. tp'[doing] = [p EXCEPT !.counter = counter]
        BY <1>0, <2>2, <3>1, <4>1
      <4>3. QED
        BY <1>0, <4>2
    <3>4. read'[doing].to = time
      <4>1. PICK q \in Reading : q = read[doing]
        BY <1>0, <2>2
      <4>2. PICK tear : read'[doing] = [q EXCEPT !.to = time, !.torn = tear]
        BY <1>0, <2>2, <3>1, <4>1
      <4>3. QED
        BY <4>2 DEF Reading
    <3>5. \A x \in Ends : /\ tp'[x] \in [systick : Nat, counter : 0 .. Reload]
                          /\ read'[x].to <= time'
      BY <1>0, <3>1, <3>2, <3>3, <3>4 DEF MeasureInv
    <3>6. QED
      BY <1>0, <2>2, <3>1, <3>2, <3>4, <3>5 DEF MeasureInv, Ends
  <2>3. QED
    BY <2>1, <2>2
<1>7. QED
  BY <1>2, <1>3, <1>4, <1>5, <1>6 DEF Next, Main

LEMMA MeasureRight ==
  ASSUME TimeInv, MeasureInv
  PROVE  MeasuredTicks
<1> SUFFICES ASSUME Measured, read.tp_end.to - read.tp_start.to < Word
             PROVE  get_ticks(TimePointDiff(tp.tp_end, tp.tp_start))
                      + (tp.tp_end.systick - tp.tp_start.systick)
                      = read.tp_end.to - read.tp_start.to
  BY DEF MeasuredTicks
<1>1. /\ read["tp_end"] # Unread /\ read["tp_start"] # Unread
      /\ doing # "tp_start" /\ doing # "tp_end"
      /\ read["tp_start"].to <= read["tp_end"].to /\ read["tp_end"].to <= time
      /\ ~read["tp_start"].torn /\ ~read["tp_end"].torn
  BY DEF Measured, MeasureInv, Ends
<1>2. /\ Value(tp["tp_start"]) = read["tp_start"].to
      /\ Value(tp["tp_end"]) = read["tp_end"].to
  BY <1>1 DEF TimeInv, ReadingLags, Points
<1>3. PICK a \in Nat, b \in Nat : a = read["tp_start"].to /\ b = read["tp_end"].to
  BY DEF TimeInv, MainTypes, Reading, Points
<1>4. a <= b /\ b - a < Word
  BY <1>1, <1>3
<1>6. PICK sp \in Nat, cp \in 0 .. Reload : tp["tp_end"] = [systick |-> sp, counter |-> cp]
  BY DEF MeasureInv, Ends
<1>7. PICK sq \in Nat, cq \in 0 .. Reload : tp["tp_start"] = [systick |-> sq, counter |-> cq]
  BY DEF MeasureInv, Ends
<1>8. get_ticks(TimePointDiff(tp["tp_end"], tp["tp_start"])) + (sp - sq) = b - a
  BY <1>2, <1>3, <1>4, <1>6, <1>7, DiffTicks
<1>9. QED
  BY <1>3, <1>6, <1>7, <1>8

\* TimeMeasurement is exact in ticks, however late it is made, across as many
\* periods as have their ticks in a word and with the counter parts either way
\* round, when neither reading was torn; a period counts for reload_value ticks,
\* one less than it has.
THEOREM MeasurementIsExact ==
  ASSUME CountLasts
  PROVE  Spec => []MeasuredTicks
<1>1. Init => MeasureInv
  BY DEF Init, MeasureInv, Ends, Points, Unset, Unread
<1>2. TimeInv /\ TimeInv' /\ MeasureInv /\ [Next]_vars => MeasureInv'
  BY MeasureStep DEF TimeInv
<1>3. TimeInv /\ MeasureInv => MeasuredTicks
  BY MeasureRight
<1>4. QED
  BY <1>1, <1>2, <1>3, TimeInvariance, PTL DEF Spec

-----------------------------------------------------------------------------
(* nanosleep(). *)

\* What is waited for comes before systick_count wraps, too.
EndsCounted ==
  \A n \in Requests :
    MaxTime + Reload + Ticks(counter_ticks(n) \div Reload + 1) < Ticks(Word)

Exact == [systick : Nat, counter : 0 .. Reload]
Slack(x) == IF read[x].torn THEN Reload ELSE 0

\* `end` stands for a tick that is as far from where it was read as was asked
\* for, and add_ns() has left it a TimePoint that can be compared.
SleepInv ==
  /\ doing \in {"end", "now"} => ns \in Requests
  /\ doing # "idle" /\ part = 2 => read[doing].from <= time
  /\ doing = "now" => /\ tp["end"] \in Exact
                      /\ read["end"].from + counter_ticks(ns) <= Value(tp["end"]) + Slack("end")

\* Quotient and remainder.
LEMMA DivMod ==
  ASSUME NEW a \in Nat, NEW b \in Nat \ {0}
  PROVE  a \div b \in Nat /\ a % b \in 0 .. b - 1 /\ a = b * (a \div b) + (a % b)
<1>1. PICK q \in Int, m \in Int : q = a \div b /\ m = a % b
  OBVIOUS
<1>2. a = b * q + m /\ 0 <= m /\ m < b
  BY <1>1
<1>3. q >= 0
  <2>1. SUFFICES ASSUME q + 1 <= 0 PROVE FALSE
    BY <1>1
  <2>2. b * (q + 1) = b * q + b
    OBVIOUS
  <2>3. b * (q + 1) <= 0
    BY <2>1
  <2>4. QED
    BY <1>2, <2>2, <2>3
<1>4. QED
  BY <1>1, <1>2, <1>3

\* The ticks of a request are one at least, and cover it if it does not wrap.
LEMMA TicksType ==
  ASSUME NEW n \in Nat
  PROVE  /\ counter_ticks(n) \in Nat \ {0}
         /\ n * PsPerNs < Word => counter_ticks(n) * PsPerTick >= n * PsPerNs
<1>1. PICK a \in Nat : a = n * PsPerNs
  OBVIOUS
<1>2. PICK w \in Nat \ {0}, p \in Nat \ {0} : w = Word /\ p = PsPerTick
  OBVIOUS
<1>3. PICK m \in Nat : m = a % w
  OBVIOUS
<1>4. PICK q \in Nat, r \in Nat : q = m \div p /\ m = p * q + r /\ r < p
  <2>1. m \div p \in Nat /\ m % p \in 0 .. p - 1 /\ m = p * (m \div p) + (m % p)
    BY DivMod
  <2>2. m % p \in Nat /\ m % p < p
    BY <2>1
  <2>3. QED
    BY <2>1, <2>2
<1>5. counter_ticks(n) = q + 1
  BY <1>1, <1>2, <1>3, <1>4 DEF counter_ticks
<1>6. a < w => m = a
  BY <1>3
<1>7. (q + 1) * p = p * q + p
  OBVIOUS
<1>8. m <= (q + 1) * p
  BY <1>4, <1>7
<1>9. QED
  BY <1>1, <1>2, <1>5, <1>6, <1>8

\* add_ns() moves a TimePoint by the ticks at least: the carry into systick
\* makes up for what counter is short of, and a tick more.
LEMMA AddTicks ==
  ASSUME NEW p \in Exact, NEW n \in Nat,
         p.systick + counter_ticks(n) \div Reload + 1 < Word
  PROVE  add_ns(p, n) \in Exact /\ Value(p) + counter_ticks(n) <= Value(add_ns(p, n))
<1>1. PICK k \in Nat, s \in Nat, c \in 0 .. Reload, r \in Nat \ {0} :
        k = counter_ticks(n) /\ s = p.systick /\ c = p.counter /\ r = Reload
  BY TicksType DEF Exact
<1>2. PICK d \in Nat, f \in Nat : d = k \div r /\ f = k % r /\ f < r /\ k = r * d + f
  <2>1. k \div r \in Nat /\ k % r \in 0 .. r - 1 /\ k = r * (k \div r) + (k % r)
    BY DivMod
  <2>2. k % r \in Nat /\ k % r < r
    BY <2>1
  <2>3. QED
    BY <2>1, <2>2
<1>3. PICK y \in {0, 1} : y = IF f > c THEN 1 ELSE 0
  OBVIOUS
<1>4. (s + d + y) % Word = s + d + y
  <2>1. s + d + 1 < Word
    BY <1>1, <1>2
  <2>2. s + d + y \in 0 .. Word - 1
    BY <2>1
  <2>3. QED
    BY <2>2, ModSmall
<1>5. PICK z \in Nat : z = y * r /\ z = IF f > c THEN r ELSE 0
  BY <1>3
<1>6. add_ns(p, n) = [systick |-> s + d + y, counter |-> c + z - f]
  BY <1>1, <1>2, <1>3, <1>4, <1>5 DEF add_ns
<1>7. PICK e \in 0 .. Reload : e = c + z - f
  <2>1. f < r
    BY <1>2, Zenon
  <2>2. c + z - f \in 0 .. Reload
    <3>1. z = IF f > c THEN r ELSE 0
      BY <1>5, Zenon
    <3>2. QED
      BY <1>1, <2>1, <3>1
  <2>3. QED
    BY <2>2
<1>8. PICK u \in Nat, v \in Nat : u = s * (r + 1) /\ v = r * d
  OBVIOUS
<1>9. Value(p) = u + r - c /\ k = v + f
  BY <1>1, <1>2, <1>8 DEF Value
<1>10. (s + d + y) * (r + 1) = u + v + d + z + y
  BY <1>5, <1>8
<1>11. Value(add_ns(p, n)) = (u + v + d + z + y) + r - e
  BY <1>1, <1>6, <1>7, <1>10 DEF Value
<1>12. u + r - c + k <= Value(add_ns(p, n))
  <2>1. \A g, h, i \in Nat : g + r - c + (h + f) <= (g + h + d + i + y) + r - (c + i - f)
    BY <1>3
  <2>2. QED
    BY <1>5, <1>7, <1>8, <1>9, <1>11, <2>1
<1>13. add_ns(p, n) \in Exact
  BY <1>3, <1>6, <1>7 DEF Exact
<1>14. QED
  BY <1>1, <1>9, <1>12, <1>13

\* Once operator< is false the time is not before.
LEMMA NotLess ==
  ASSUME NEW p \in Exact, NEW q \in Exact, ~less(p, q)
  PROVE  Value(q) <= Value(p)
<1>1. PICK sp \in Nat, sq \in Nat, cp \in 0 .. Reload, cq \in 0 .. Reload :
        sp = p.systick /\ sq = q.systick /\ cp = p.counter /\ cq = q.counter
  BY DEF Exact
<1>2. PICK a \in Nat, b \in Nat : a = Ticks(sp) /\ b = Ticks(sq)
  BY TicksGrow
<1>3. Value(p) = a + Reload - cp /\ Value(q) = b + Reload - cq
  BY <1>1, <1>2 DEF Value, Ticks
<1>4. sq <= sp /\ (sq = sp => cp <= cq)
  BY <1>1 DEF less
<1>5. CASE sq = sp
  BY <1>2, <1>3, <1>4, <1>5
<1>6. CASE sq + 1 <= sp
  <2>1. b + Reload + 1 <= a
    BY <1>2, <1>6, OneMore, TicksGrow
  <2>2. QED
    BY <1>3, <2>1
<1>7. QED
  BY <1>4, <1>5, <1>6

\* What a TimePoint has when its second half is loaded: a tick not before it
\* was asked for, less a period if the count has moved on since.
LEMMA SecondExact ==
  ASSUME TimeInv, SleepInv, MainRuns, doing \in Points, part = 2,
         NEW point, point = [tp[doing] EXCEPT !.counter = counter]
  PROVE  /\ point \in Exact /\ point.systick = read[doing].count
         /\ Value(point) <= time
         /\ Value(point) + Reload >= read[doing].from
         /\ systick_count = read[doing].count => Value(point) >= read[doing].from
<1>1. PICK p \in TimePoint : p = tp[doing]
  BY DEF TimeInv, MainTypes
<1>2. /\ p.systick = read[doing].count /\ read[doing].count \in Nat
      /\ read[doing].from \in Nat /\ read[doing].from <= time
      /\ counter \in 0 .. Reload /\ time \in Nat
  BY <1>1 DEF TimeInv, HalfRead, MainTypes, ClockTypes, Reading, SleepInv, Points
<1>3. /\ point = [p EXCEPT !.counter = counter]
      /\ point \in TimePoint /\ point.systick = p.systick /\ point.counter = counter
  BY <1>1, <1>2 DEF TimePoint
<1>4. point \in Exact
  BY <1>2, <1>3 DEF Exact, TimePoint
<1>5. /\ Value(point) <= time /\ Value(point) + Reload >= read[doing].from
      /\ systick_count = read[doing].count => Value(point) = time
  BY <1>1, <1>3, SecondRead
<1>6. QED
  BY <1>2, <1>3, <1>4, <1>5

\* The end of the wait, computed when `end` has been read.
LEMMA EndStep ==
  ASSUME EndsCounted, TimeInv, SleepInv, LoadSecond, doing = "end"
  PROVE  /\ tp'["end"] \in Exact
         /\ read'["end"].from + counter_ticks(ns) <= Value(tp'["end"]) + Slack("end")'
<1> DEFINE point == [tp["end"] EXCEPT !.counter = counter]
<1>0. /\ tp \in [Points -> TimePoint] /\ read \in [Points -> Reading]
      /\ "end" \in Points /\ time \in Nat /\ ns \in Requests /\ ns \in Nat
  BY DEF TimeInv, MainTypes, ClockTypes, Points, SleepInv
<1>1. /\ tp'["end"] = add_ns(point, ns)
      /\ read'["end"] = [read["end"] EXCEPT !.to = time,
                           !.torn = (@ \/ systick_count # read["end"].count)]
  BY <1>0 DEF LoadSecond, LoadOrder, loaded
<1>2. PICK q \in Reading : q = read["end"]
  BY <1>0
<1>3. /\ read'["end"].from = q.from /\ q.from \in Nat
      /\ ~read'["end"].torn => systick_count = q.count
  <2>1. PICK tear \in BOOLEAN : tear = (q.torn \/ systick_count # q.count)
    OBVIOUS
  <2>2. read'["end"] = [q EXCEPT !.to = time, !.torn = tear]
    BY <1>1, <1>2, <2>1
  <2>3. QED
    BY <1>0, <2>1, <2>2 DEF Reading
<1>4. /\ point \in Exact /\ point.systick = q.count /\ Value(point) <= time
      /\ Value(point) + Reload >= q.from
      /\ systick_count = q.count => Value(point) >= q.from
  BY <1>0, <1>2, SecondExact DEF LoadSecond
<1> HIDE DEF point
<1>5. PICK k \in Nat, d \in Nat : k = counter_ticks(ns) /\ d = k \div Reload
  BY <1>0, TicksType, DivMod
<1>6. point.systick + d + 1 < Word
  <2>1. PICK s \in Nat, c \in 0 .. Reload : s = point.systick /\ c = point.counter
    BY <1>4 DEF Exact
  <2>2. Ticks(s) <= time
    <3>1. PICK t \in Nat, u \in Nat : t = Ticks(s) /\ u = time
      BY <1>0, TicksGrow
    <3>2. Value(point) = t + Reload - c
      BY <2>1, <3>1 DEF Value, Ticks
    <3>3. QED
      BY <1>4, <2>1, <3>1, <3>2
  <2>3. time <= MaxTime + Reload /\ MaxTime + Reload + Ticks(d + 1) < Ticks(Word)
    BY <1>0, <1>5 DEF TimeInv, ClockInv, EndsCounted
  <2>4. Ticks(s + (d + 1)) = Ticks(s) + Ticks(d + 1)
    BY DEF Ticks
  <2>5. Ticks(s + (d + 1)) < Ticks(Word)
    BY <1>0, <2>2, <2>3, <2>4, TicksGrow
  <2>6. s + (d + 1) < Word
    BY <2>5, TicksGrow
  <2>7. QED
    BY <2>1, <2>6
<1>7. add_ns(point, ns) \in Exact /\ Value(point) + k <= Value(add_ns(point, ns))
  BY <1>0, <1>4, <1>5, <1>6, AddTicks
<1>8. PICK v \in Int, w \in Int : v = Value(point) /\ w = Value(add_ns(point, ns))
  <2>1. ASSUME NEW e \in Exact PROVE Value(e) \in Int
    BY DEF Exact, Value
  <2>2. QED
    BY <1>4, <1>7, <2>1
<1>9. q.from + k <= w + Slack("end")'
  <2>1. CASE read'["end"].torn
    BY <1>3, <1>4, <1>7, <1>8, <2>1 DEF Slack
  <2>2. CASE ~read'["end"].torn
    BY <1>3, <1>4, <1>7, <1>8, <2>2 DEF Slack
  <2>3. QED
    BY <2>1, <2>2
<1>10. QED
  BY <1>1, <1>3, <1>5, <1>7, <1>8, <1>9

LEMMA SleepStep ==
  ASSUME EndsCounted, TimeInv, ClockTypes', SleepInv, [Next]_vars
  PROVE  SleepInv'
<1>0. /\ tp \in [Points -> TimePoint] /\ read \in [Points -> Reading]
      /\ doing \in Points \cup {"idle"} /\ "idle" \notin Points /\ "end" \in Points
      /\ time \in Nat /\ time' \in Nat
  BY DEF TimeInv, MainTypes, ClockTypes, Points
<1>1. CASE Tick \/ Isr \/ UNCHANGED vars
  <2>1. UNCHANGED <<doing, part, ns, tp, read>> /\ time <= time'
    BY <1>0, <1>1 DEF Tick, Isr, IsrEnter, systick_isr, main, vars
  <2>2. doing # "idle" /\ part = 2 => read[doing].from <= time'
    <3>1. SUFFICES ASSUME doing # "idle", part = 2 PROVE read[doing].from <= time'
      OBVIOUS
    <3>2. read[doing].from \in Nat /\ read[doing].from <= time
      BY <1>0, <3>1 DEF SleepInv, Reading
    <3>3. QED
      BY <1>0, <2>1, <3>2
  <2>3. QED
    BY <2>1, <2>2 DEF SleepInv, Value, Slack
<1>2. CASE Nanosleep \/ Start \/ Stop
  <2>1. /\ part' = 1 /\ doing' \in {"end", "tp_start", "tp_end"}
        /\ doing' = "end" => ns' \in Requests
    BY <1>2 DEF Nanosleep, Start, Stop, Call
  <2>2. QED
    BY <2>1 DEF SleepInv
<1>3. CASE LoadFirst
  <2>1. /\ doing \in Points /\ doing' = doing /\ ns' = ns /\ time' = time
        /\ tp' = [tp EXCEPT ![doing] = [tp[doing] EXCEPT !.systick = systick_count]]
        /\ read' = [read EXCEPT ![doing] = [read[doing] EXCEPT !.from = time, !.count = systick_count]]
    BY <1>0, <1>3 DEF LoadFirst, LoadOrder, loaded
  <2>2. read'[doing].from = time
    <3>1. PICK q \in Reading : q = read[doing]
      BY <1>0, <2>1
    <3>2. read'[doing] = [q EXCEPT !.from = time, !.count = systick_count]
      BY <1>0, <2>1, <3>1
    <3>3. QED
      BY <3>2 DEF Reading
  <2>3. doing = "now" => tp'["end"] = tp["end"] /\ read'["end"] = read["end"]
    BY <1>0, <2>1
  <2>4. QED
    BY <1>0, <2>1, <2>2, <2>3 DEF SleepInv, Value, Slack
<1>4. CASE LoadSecond
  <2>1. part' = 1 /\ ns' = ns /\ doing \in Points
    BY <1>0, <1>4 DEF LoadSecond
  <2>2. CASE doing \notin {"end", "now"}
    <3>1. doing' = "idle"
      BY <1>4, <2>2 DEF LoadSecond
    <3>2. QED
      BY <2>1, <3>1 DEF SleepInv
  <2>3. CASE doing = "end"
    <3>1. doing' = "now"
      BY <1>4, <2>3 DEF LoadSecond
    <3>2. QED
      BY <1>4, <2>1, <2>3, <3>1, EndStep DEF SleepInv
  <2>4. CASE doing = "now"
    <3>1. \/ doing' = "idle"
          \/ doing' = "now" /\ tp'["end"] = tp["end"] /\ read'["end"] = read["end"]
      BY <1>0, <1>4, <2>4 DEF LoadSecond
    <3>2. QED
      BY <2>1, <2>4, <3>1 DEF SleepInv, Value, Slack
  <2>5. QED
    BY <2>2, <2>3, <2>4
<1>5. QED
  BY <1>1, <1>2, <1>3, <1>4 DEF Next, Main

\* The step on which nanosleep() returns: now is not less than end.
LEMMA ReturnStep ==
  ASSUME TimeInv, SleepInv, [Next]_vars, Returns, ns * PsPerNs < Word
  PROVE  (time - read.end.from + IF read.end.torn THEN Reload ELSE 0) * PsPerTick >= ns * PsPerNs
<1>0. /\ tp \in [Points -> TimePoint] /\ read \in [Points -> Reading]
      /\ time \in Nat /\ ns \in Nat /\ doing \in Points /\ doing = "now" /\ doing' = "idle"
  BY DEF TimeInv, MainTypes, ClockTypes, Points, Returns
<1> DEFINE point == [tp["now"] EXCEPT !.counter = counter]
<1>1. LoadSecond
  BY <1>0 DEF Next, Main, Tick, Isr, IsrEnter, systick_isr, Nanosleep, Start, Stop, Call,
              LoadFirst, main, vars
<1>2. MainRuns /\ part = 2 /\ ~less(point, tp["end"])
  BY <1>0, <1>1 DEF LoadSecond, LoadOrder, loaded
<1>3. point \in Exact /\ Value(point) <= time
  BY <1>0, <1>2, SecondExact
<1> HIDE DEF point
<1>4. tp["end"] \in Exact /\ read["end"].from + counter_ticks(ns) <= Value(tp["end"]) + Slack("end")
  BY <1>0 DEF SleepInv
<1>5. Value(tp["end"]) <= Value(point)
  BY <1>2, <1>3, <1>4, NotLess
<1>6. PICK k \in Nat, f \in Nat, b \in {0, Reload} :
        k = counter_ticks(ns) /\ f = read["end"].from /\ b = Slack("end")
  BY <1>0, TicksType DEF Reading, Slack, Points
<1>7. Value(tp["end"]) \in Int /\ Value(point) \in Int
  BY <1>3, <1>4 DEF Exact, Value
<1>8. k <= time - f + b
  BY <1>0, <1>3, <1>4, <1>5, <1>6, <1>7
<1>9. k * PsPerTick >= ns * PsPerNs
  BY <1>0, <1>6, TicksType
<1>10. (time - f + b) * PsPerTick >= ns * PsPerNs
  <2>1. PICK h \in Nat : time - f + b = k + h
    <3>1. time - f + b - k \in Nat /\ time - f + b = k + (time - f + b - k)
      BY <1>0, <1>6, <1>8
    <3>2. QED
      BY <3>1
  <2>2. PICK p \in Nat, a \in Nat : p = PsPerTick /\ a = ns * PsPerNs
    BY <1>0
  <2>3. (k + h) * p = k * p + h * p /\ h * p \in Nat /\ k * p \in Nat
    OBVIOUS
  <2>4. QED
    BY <1>9, <2>1, <2>2, <2>3
<1>11. QED
  BY <1>6, <1>10 DEF Slack

\* nanosleep() does not return early, however the interrupt comes between the
\* loads of end and of now, for every request that fits into an unsigned int
\* in picoseconds: less than a period is lost if it came between those of end.
THEOREM SleepsEnough ==
  ASSUME CountLasts, EndsCounted
  PROVE  Spec => SleepsLongEnough
<1>1. Init => SleepInv
  BY DEF Init, SleepInv
<1>2. TimeInv /\ TimeInv' /\ SleepInv /\ [Next]_vars => SleepInv'
  BY SleepStep DEF TimeInv
<1>3. TimeInv /\ SleepInv /\ [Next]_vars =>
        [Returns /\ ns * PsPerNs < Word =>
           (time - read.end.from + IF read.end.torn THEN Reload ELSE 0) * PsPerTick >= ns * PsPerNs]_vars
  BY ReturnStep
<1>4. QED
  BY <1>1, <1>2, <1>3, TimeInvariance, PTL DEF Spec, SleepsLongEnough
=============================================================================
