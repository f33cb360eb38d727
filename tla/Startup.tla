------------------------------- MODULE Startup -------------------------------
(***************************************************************************)
(* The programs start on their devices: the main program works through the *)
(* operations of Programs, the clocks, the real time clock and the         *)
(* interrupts do their part, and a reset may come at any time.             *)
(*                                                                         *)
(* Memory is addressed as on the device.  The program uses the addresses   *)
(* of the headers; the device has its registers where the address map of   *)
(* the repository, generated from the vendor's description, names them.    *)
(***************************************************************************)
EXTENDS Integers, Sequences, FiniteSetsExt, TLC

\* A program on its device is a record:
\*   name, device, hclk, voltage   its parameters, MHz and hundredths of a volt
\*   code, handlers, resources     operations, vector table and list of resources
\*   codeAt, deviceAt    the address the code takes for a register, and its own
\*   registerAt          the register at an address of the device
\*   resets, fields      the registers' values after a reset, and their fields
CONSTANTS ProgramSet,     \* the programs
          MaxResets,      \* resets after power-on
          ToggleInterval  \* ticks between toggles of the LEDs of stm32f4discovery

VARIABLES build,    \* the program, never changed
          pc,       \* next operation
          mem,      \* registers: address -> bits that are one
          reached,  \* the Reached() operations passed
          count,    \* systick_count of stm32f4discovery, in RAM
          resets    \* resets so far

vars == <<build, pc, mem, reached, count, resets>>

\* Computation on register masks.
Mask == INSTANCE RegMask WITH Regs <- {}, Bits <- 0 .. 31, ResetValue <- <<>>, BitBand <- {}

(***************************************************************************)
(* The device (external).                                                  *)
(***************************************************************************)
Ports == {"GPIOA", "GPIOB", "GPIOC", "GPIOD"}
IsF4(b) == b.device = "STM32F4XX"
AfterReset(b) == [a \in DOMAIN b.registerAt |-> b.resets[b.registerAt[a]]]

\* Registers the model needs, besides those the program accesses.
Needed(b) ==
  {<<"FLASH", "ACR">>, <<"RCC", "CR">>, <<"RCC", "CFGR">>, <<"RCC", "APB1ENR">>}
    \cup (Ports \X {"ODR"}) \cup ({"NVIC"} \X {"ISER0", "ISER1"})
    \cup {<<"SCB", "STCSR">>, <<"SCB", "STRVR">>, <<"USART2", "BRR">>}
    \cup IF IsF4(b)
         THEN (Ports \X {"MODER", "AFRL", "AFRH"})
                \cup {<<"RCC", "AHB1ENR">>, <<"RCC", "PLLCFGR">>}
         ELSE (Ports \X {"CRL", "CRH"})
                \cup {<<"RCC", "APB2ENR">>, <<"RCC", "BDCR">>, <<"PWR", "CR">>}
                \cup ({"RTC"} \X {"CRL", "CRH", "PRLH", "PRLL", "CNTH", "CNTL"})

Bits(b, p, r, f) == b.fields[<<p, r>>][f]
Value(b, m, p, r) == m[b.deviceAt[<<p, r>>]]
On(b, m, p, r, f) == Bits(b, p, r, f) \subseteq Value(b, m, p, r)
NumberOf(field, bits) == MapThenSumSet(LAMBDA k : 2 ^ (k - Min(field)), bits)
Number(b, m, p, r, f) == NumberOf(Bits(b, p, r, f), Bits(b, p, r, f) \cap Value(b, m, p, r))

\* The bit that gives a peripheral its clock.
ClockBit(b, p) ==
  IF IsF4(b)
  THEN [GPIOA |-> <<"AHB1ENR", 0>>, GPIOB |-> <<"AHB1ENR", 1>>, GPIOC |-> <<"AHB1ENR", 2>>,
        GPIOD |-> <<"AHB1ENR", 3>>, USART2 |-> <<"APB1ENR", 17>>][p]
  ELSE [GPIOA |-> <<"APB2ENR", 2>>, GPIOB |-> <<"APB2ENR", 3>>, GPIOC |-> <<"APB2ENR", 4>>,
        GPIOD |-> <<"APB2ENR", 5>>, ADC1 |-> <<"APB2ENR", 9>>, USART2 |-> <<"APB1ENR", 17>>,
        PWR |-> <<"APB1ENR", 28>>, RTC |-> <<"APB1ENR", 27>>][p]
Clocked(b, m, p) ==
  p \in {"RCC", "FLASH", "SCB", "NVIC"} \/ LET c == ClockBit(b, p) IN c[2] \in Value(b, m, "RCC", c[1])

\* Registers of the clock, and those of them that need configuration mode.
RtcCounter == {"PRLH", "PRLL", "CNTH", "CNTL", "ALRH", "ALRL"}
Backup(r) == r = <<"RCC", "BDCR">> \/ (r[1] = "RTC" /\ r[2] \in RtcCounter)

\* A store is ignored without the clock, and by a protected or busy register.
Accepts(b, m, r) ==
  /\ Clocked(b, m, r[1])
  /\ r[1] = "RTC" => On(b, m, "RTC", "CRL", "RTOFF")
  /\ r[1] = "RTC" /\ r[2] \in RtcCounter =>
       On(b, m, "RTC", "CRL", "CNF") /\ On(b, m, "PWR", "CR", "DBP")

\* Bits only the hardware changes, and bits a program can only clear.
ReadOnly(b, r) ==
  IF r = <<"RCC", "CR">> THEN Bits(b, "RCC", "CR", "HSERDY") \cup Bits(b, "RCC", "CR", "PLLRDY")
  ELSE IF r = <<"RCC", "CFGR">> THEN Bits(b, "RCC", "CFGR", "SWS")
  ELSE IF r = <<"RCC", "BDCR">> THEN Bits(b, "RCC", "BDCR", "LSERDY")
  ELSE IF r = <<"RTC", "CRL">> THEN Bits(b, "RTC", "CRL", "RTOFF")
  ELSE {}
ClearOnly(b, r) ==
  IF r = <<"RTC", "CRL">> THEN Bits(b, "RTC", "CRL", "RSF") \cup Bits(b, "RTC", "CRL", "SECF") ELSE {}
Plain(b, r, old, v) ==
  ((v \ ReadOnly(b, r)) \ ClearOnly(b, r))
    \cup (old \cap ReadOnly(b, r)) \cup (old \cap v \cap ClearOnly(b, r))

\* The registers after the device took a store of v to an address: the set and
\* reset registers of a port, those where a one enables, the reset of the backup
\* registers, their protection, and the end of configuration mode, from where on
\* the clock is busy.
Taken(b, m, a, v) ==
  LET r == b.registerAt[a]
      new == Plain(b, r, m[a], v)
      odr == b.deviceAt[<<r[1], "ODR">>]
      BDRST == Bits(b, "RCC", "BDCR", "BDRST")
  IN IF r[1] \in Ports /\ r[2] = "BSRR"
     THEN [m EXCEPT ![odr] = (@ \ {k \in 0 .. 15 : k + 16 \in v}) \cup (v \cap 0 .. 15)]
     ELSE IF r[1] \in Ports /\ r[2] = "BRR" THEN [m EXCEPT ![odr] = @ \ v]
     ELSE IF r[1] = "NVIC" THEN [m EXCEPT ![a] = @ \cup v]
     ELSE IF r = <<"RCC", "BDCR">> /\ BDRST \subseteq v
     THEN [x \in DOMAIN m |-> IF x = a THEN BDRST
                              ELSE IF Backup(b.registerAt[x]) THEN AfterReset(b)[x] ELSE m[x]]
     ELSE IF r = <<"RCC", "BDCR">> /\ ~On(b, m, "PWR", "CR", "DBP") THEN [m EXCEPT ![a] = @ \ BDRST]
     ELSE IF /\ r = <<"RTC", "CRL">> /\ On(b, m, "RTC", "CRL", "CNF")
             /\ ~(Bits(b, "RTC", "CRL", "CNF") \subseteq v)
     THEN [m EXCEPT ![a] = new \ Bits(b, "RTC", "CRL", "RTOFF")]
     ELSE [m EXCEPT ![a] = new]

\* The registers after a store of v to an address, where there may be nothing.
Loaded(m, a) == IF a \in DOMAIN m THEN m[a] ELSE {}
Stored(b, m, a, v) ==
  IF a \in DOMAIN m THEN IF Accepts(b, m, b.registerAt[a]) THEN Taken(b, m, a, v) ELSE m ELSE m

\* The hardware sets bits of a register.
Sets(p, r, f) ==
  /\ mem' = [mem EXCEPT ![build.deviceAt[<<p, r>>]] = @ \cup Bits(build, p, r, f)]
  /\ UNCHANGED <<build, pc, reached, count, resets>>

Is(p, r, f) == On(build, mem, p, r, f)

HseReady == Is("RCC", "CR", "HSEON") /\ ~Is("RCC", "CR", "HSERDY") /\ Sets("RCC", "CR", "HSERDY")
PllReady ==
  /\ Is("RCC", "CR", "PLLON") /\ Is("RCC", "CR", "HSERDY") /\ ~Is("RCC", "CR", "PLLRDY")
  /\ Sets("RCC", "CR", "PLLRDY")
Switch ==
  /\ Number(build, mem, "RCC", "CFGR", "SW") = 2 /\ Number(build, mem, "RCC", "CFGR", "SWS") # 2
  /\ Is("RCC", "CR", "PLLRDY")
  /\ LET a == build.deviceAt[<<"RCC", "CFGR">>]
     IN mem' = [mem EXCEPT ![a] = (@ \ Bits(build, "RCC", "CFGR", "SWS")) \cup {Max(Bits(build, "RCC", "CFGR", "SWS"))}]
  /\ UNCHANGED <<build, pc, reached, count, resets>>

\* The real time clock of the F1.
HasRtc == ~IsF4(build)
LseReady ==
  /\ HasRtc /\ Is("RCC", "BDCR", "LSEON") /\ ~Is("RCC", "BDCR", "LSERDY")
  /\ Sets("RCC", "BDCR", "LSERDY")
RtcRuns == /\ HasRtc /\ Is("RCC", "BDCR", "LSERDY") /\ Is("RCC", "BDCR", "RTCEN")
           /\ Number(build, mem, "RCC", "BDCR", "RTCSEL") = 1
RtcSync == RtcRuns /\ ~Is("RTC", "CRL", "RSF") /\ Sets("RTC", "CRL", "RSF")
RtcDone == RtcRuns /\ ~Is("RTC", "CRL", "RTOFF") /\ Sets("RTC", "CRL", "RTOFF")
Second == RtcRuns /\ ~Is("RTC", "CRL", "SECF") /\ Sets("RTC", "CRL", "SECF")

(***************************************************************************)
(* The main program.  A read-modify-write is one step: what the hardware   *)
(* and the interrupts change are other bits than those it writes.          *)
(***************************************************************************)
Op == build.code[pc]

\* What an operation writes to its register, which holds v.
Written(b, op, v) ==
  IF op.do = "set" THEN Mask!ValueSet(v, op.m)
  ELSE IF op.do = "clear" THEN Mask!ValueClear(v, op.m)
  ELSE IF op.do = "reset_to" THEN Mask!ValueSet(b.resets[op.m.reg], op.m)
  ELSE op.m.set_mask
Executed(b, m, op) ==
  LET a == b.codeAt[op.m.reg] IN Stored(b, m, a, Written(b, op, Loaded(m, a)))

Main ==
  /\ \/ /\ Op.do \in {"set", "clear", "reset_to", "store"}
        /\ mem' = Executed(build, mem, Op)
        /\ UNCHANGED <<reached, count>>
     \/ /\ Op.do = "wait" /\ Mask!test(Op.m, Loaded(mem, build.codeAt[Op.m.reg]))
        /\ UNCHANGED <<mem, reached, count>>
     \/ /\ Op.do = "reached"
        /\ reached' = reached \cup {Op.what}
        /\ count' = IF Op.what = "data" THEN ToggleInterval ELSE count
        /\ UNCHANGED mem
  /\ pc' = IF pc = Len(build.code) THEN pc ELSE pc + 1
  /\ UNCHANGED <<build, resets>>

(***************************************************************************)
(* Interrupts.  A handler runs to its end before the program continues.    *)
(***************************************************************************)
\* Interrupt n is entry 16 + n of the processor's table, which "handlers"
\* continues after the stack pointer: the system timer is interrupt -1, the
\* real time clock 3, USART 2 is 38.
Handler(n) == build.handlers[16 + n]

\* gpio_output_base::toggle(): sets or resets the pin (BSRR, BRR) by what it reads
\* there, which is what a push-pull output drives.
Toggled(m, port, pin) ==
  LET odr == build.deviceAt[<<port, "ODR">>]
  IN [m EXCEPT ![odr] = IF pin \in @ THEN @ \ {pin} ELSE @ \cup {pin}]

TicksOn(b, m) == On(b, m, "SCB", "STCSR", "ENABLE") /\ On(b, m, "SCB", "STCSR", "TICKINT")
RtcIrqOn(b, m) == ~IsF4(b) /\ On(b, m, "RTC", "CRH", "SECIE") /\ 3 \in Value(b, m, "NVIC", "ISER0")
UsartIrqOn(b, m) == 6 \in Value(b, m, "NVIC", "ISER1")
\* Mutant: the interrupt also drives the orange LED, which the program turns off.
ToggleLedsOrange == Toggled(Toggled(Toggled(mem, "GPIOD", 12), "GPIOD", 15), "GPIOD", 13)

ToggleLeds == Toggled(Toggled(mem, "GPIOD", 12), "GPIOD", 15)

\* Kernel::systick_isr() of stm32f4discovery; that of stm32f103stk-demo only
\* counts, see Timing.
SystickIsr ==
  /\ TicksOn(build, mem) /\ Handler(-1) = "systick_isr"
  /\ build.name = "stm32f4discovery"
  /\ IF count - 1 = 0 THEN count' = ToggleInterval /\ mem' = ToggleLeds
                      ELSE count' = count - 1 /\ mem' = mem
  /\ UNCHANGED <<build, pc, reached, resets>>

\* SystemTime::rtc_isr(): clears the flag and toggles the LED.
RtcIsr ==
  /\ RtcIrqOn(build, mem) /\ Is("RTC", "CRL", "SECF") /\ Handler(3) = "rtc_isr"
  /\ LET a == build.deviceAt[<<"RTC", "CRL">>]
     IN mem' = Toggled(Stored(build, mem, a, mem[a] \ Bits(build, "RTC", "CRL", "SECF")), "GPIOC", 12)
  /\ UNCHANGED <<build, pc, reached, count, resets>>

(***************************************************************************)
(* A reset: the real time clock's registers and RAM keep their values.     *)
(***************************************************************************)
Reset ==
  /\ resets < MaxResets
  /\ resets' = resets + 1 /\ pc' = 1 /\ reached' = {}
  /\ mem' = [a \in DOMAIN mem |-> IF Backup(build.registerAt[a]) THEN mem[a] ELSE AfterReset(build)[a]]
  /\ UNCHANGED <<build, count>>

Init ==
  /\ build \in ProgramSet /\ pc = 1 /\ mem = AfterReset(build)
  /\ reached = {} /\ count \in 0 .. ToggleInterval /\ resets = 0

Hardware == HseReady \/ PllReady \/ Switch \/ LseReady \/ RtcSync \/ RtcDone \/ Second
Next == Main \/ Hardware \/ SystickIsr \/ RtcIsr \/ Reset

\* The processor runs, oscillators and clocks come up, interrupts are taken.
Fairness ==
  /\ WF_vars(Main) /\ WF_vars(SystickIsr) /\ WF_vars(RtcIsr)
  /\ WF_vars(HseReady) /\ WF_vars(PllReady) /\ WF_vars(Switch) /\ WF_vars(LseReady)
  /\ WF_vars(RtcSync) /\ WF_vars(RtcDone) /\ WF_vars(Second)
Spec == Init /\ [][Next]_vars /\ Fairness

(***************************************************************************)
(* Properties.                                                             *)
(***************************************************************************)
\* What the registers m of a program mean.  Frequencies in MHz.
SysClk(b, m) ==
  IF Number(b, m, "RCC", "CFGR", "SWS") # 2 THEN IF IsF4(b) THEN 16 ELSE 8
  ELSE IF IsF4(b)
       THEN ((IF On(b, m, "RCC", "PLLCFGR", "PLLSRC") THEN 8 ELSE 16) * Number(b, m, "RCC", "PLLCFGR", "PLLN"))
              \div (Number(b, m, "RCC", "PLLCFGR", "PLLM") * 2 * (Number(b, m, "RCC", "PLLCFGR", "PLLP") + 1))
       ELSE (IF On(b, m, "RCC", "CFGR", "PLLSRC") /\ ~On(b, m, "RCC", "CFGR", "PLLXTPRE") THEN 8 ELSE 4)
              * (Number(b, m, "RCC", "CFGR", "PLLMUL") + 2)
Hclk(b, m) ==
  LET v == Number(b, m, "RCC", "CFGR", "HPRE")
  IN IF v < 8 THEN SysClk(b, m) ELSE SysClk(b, m) \div 2 ^ (v - 7)
Pclk(b, m, f) ==
  LET v == Number(b, m, "RCC", "CFGR", f) IN IF v < 4 THEN Hclk(b, m) ELSE Hclk(b, m) \div 2 ^ (v - 3)

\* MHz the flash memory follows without a wait state (external).
FlashStep(b) ==
  IF ~IsF4(b) THEN 24
  ELSE IF b.voltage \in 180 .. 210 THEN 20
  ELSE IF b.voltage \in 211 .. 240 THEN 22
  ELSE IF b.voltage \in 241 .. 270 THEN 24 ELSE 30

FlashKeepsUp(b, m) == Hclk(b, m) <= (Number(b, m, "FLASH", "ACR", "LATENCY") + 1) * FlashStep(b)
BusesInRange(b, m) ==
  IF IsF4(b) THEN Hclk(b, m) <= 168 /\ Pclk(b, m, "PPRE1") <= 42 /\ Pclk(b, m, "PPRE2") <= 84
             ELSE Hclk(b, m) <= 72 /\ Pclk(b, m, "PPRE1") <= 36 /\ Pclk(b, m, "PPRE2") <= 72

Near(x, y, d) == x - y \in -d .. d
TickFreq(b) == IF IsF4(b) THEN 1000 ELSE 100
RatesAsDeclared(b, m) ==
  /\ Hclk(b, m) = b.hclk
  /\ b.name # "ledtest" =>
       LET pclk == Pclk(b, m, "PPRE1") * 1000000
           brr == Number(b, m, "USART2", "BRR", "DIV_Mantissa") * 16 + Number(b, m, "USART2", "BRR", "DIV_Fraction")
       IN /\ Near((Number(b, m, "SCB", "STRVR", "bits") + 1) * TickFreq(b) * 8, Hclk(b, m) * 1000000, TickFreq(b) * 8)
          /\ Near(brr * 115200, pclk, pclk \div 50)
SecondAsDeclared(b, m) ==
  Number(b, m, "RTC", "PRLH", "bits") * 65536 + Number(b, m, "RTC", "PRLL", "bits") + 1 = 32768

\* The clocks are right with registers m, when the operations done are passed.
ClocksRight(b, m, done) ==
  /\ FlashKeepsUp(b, m) /\ BusesInRange(b, m)
  /\ "configured" \in done => RatesAsDeclared(b, m)
  /\ "lcd::init, nrf::init" \in done => SecondAsDeclared(b, m)

\* At every moment of the start, also after a reset, the flash memory's wait
\* states suffice for the clock then running and the buses are within their
\* limits; and once configured, the processor, the system timer, the baud rate
\* and the second have the frequency the program declares.
ClocksAreRight == ClocksRight(build, mem, reached)

\* Mode of a pin as the board has it wired: CNF and MODE on the F1, MODER and
\* the alternate function on the F4; the others are as after a reset.
PinMode(b, m, port, pin) ==
  IF IsF4(b)
  THEN LET af == IF pin < 8 THEN "AFRL" ELSE "AFRH"
           at == (pin % 8) * 4
       IN <<{k - 2 * pin : k \in Value(b, m, port, "MODER") \cap {2 * pin, 2 * pin + 1}},
            {k - at : k \in Value(b, m, port, af) \cap at .. at + 3}>>
  ELSE LET at == (pin % 8) * 4
       IN {k - at : k \in Value(b, m, port, IF pin < 8 THEN "CRL" ELSE "CRH") \cap at .. at + 3}
\* 2 or 50 MHz push-pull output, 50 MHz alternate function, floating and pulled input.
Out2 == {1}
Out50 == {0, 1}
Alt50 == {0, 1, 3}
Float == {2}
Pulled == {3}
Wired(b) ==
  CASE b.name = "stm32f103stk-demo" ->
         [GPIOA |-> 2 :> Alt50 @@ 3 :> Float @@ 4 :> Out50 @@ 5 :> Alt50 @@ 6 :> Pulled @@ 7 :> Alt50,
          GPIOB |-> 2 :> Out50,
          GPIOC |-> 6 :> Float @@ 7 :> Out50 @@ 8 :> Out50 @@ 9 :> Pulled @@ 10 :> Out50 @@ 12 :> Out2]
    [] b.name = "stm32f4discovery" ->
         [GPIOA |-> [pin \in {2, 3} |-> <<{1}, {0, 1, 2}>>] @@ [pin \in 13 .. 15 |-> <<{1}, {}>>],
          GPIOD |-> [pin \in 12 .. 15 |-> <<{0}, {}>>]]
    [] b.name = "ledtest" ->
         [GPIOA |-> [pin \in 13 .. 15 |-> <<{1}, {}>>],
          GPIOD |-> 12 :> <<{0}, {}>>]
\* The ledtest sets its pin's mode after its resources.
Unset(b, done) == IF b.name = "ledtest" /\ "main loop" \notin done THEN {12} ELSE {}
PinsWired(b, m, done) ==
  \A port \in DOMAIN Wired(b) : \A pin \in 0 .. 15 \ Unset(b, done) :
    PinMode(b, m, port, pin) = IF pin \in DOMAIN Wired(b)[port] THEN Wired(b)[port][pin]
                               ELSE IF IsF4(b) THEN <<{}, {}>> ELSE Float
\* The clocks kernel.cpp:44 asserts, and those of the F4's ports A, D and USART 2.
ClocksOn(b, m) ==
  /\ b.name = "stm32f103stk-demo" =>
       /\ Value(b, m, "RCC", "APB1ENR") = {17, 27, 28}
       /\ Value(b, m, "RCC", "APB2ENR") = {2, 3, 4, 9, 12}
  /\ b.name = "stm32f4discovery" =>
       /\ Value(b, m, "RCC", "AHB1ENR") = b.resets[<<"RCC", "AHB1ENR">>] \cup {0, 3}
       /\ Value(b, m, "RCC", "APB1ENR") = {17}
MasksHold(b, m) ==
  \A k \in DOMAIN b.resources :
    Mask!Holds(b.resources[k], Value(b, m, b.resources[k].reg[1], b.resources[k].reg[2]))

\* Once the list of resources is applied, and whatever the rest of the start
\* and the interrupts store, each of its masks is in effect in the device, every
\* pin is in the mode its board needs, and no other pin has left its reset mode.
ResourcesRight(b, m, done) ==
  "configured" \in done => MasksHold(b, m) /\ ClocksOn(b, m) /\ PinsWired(b, m, done)
ResourcesInEffect == ResourcesRight(build, mem, reached)

\* What an operation is for holds after it: its register is found where the code
\* writes it, has its clock, and is neither protected nor busy at that moment.
Effect(b, m, op) ==
  LET new == Value(b, m, op.m.reg[1], op.m.reg[2])
  IN /\ op.do \in {"set", "reset_to"} => new \cap (op.m.clear_mask \cup op.m.set_mask) = op.m.set_mask
     /\ op.do = "clear" => new \cap op.m.clear_mask = {}
     /\ op.do = "store" =>
          IF op.m.reg[2] = "BSRR"
          THEN \A k \in op.m.set_mask : k < 16 <=> k % 16 \in Value(b, m, op.m.reg[1], "ODR")
          ELSE IF op.m.reg[1] = "NVIC" THEN op.m.set_mask \subseteq new
          ELSE new = op.m.set_mask
StoresTakeEffect == [][pc' = pc + 1 => Effect(build, mem', Op)]_vars

\* An interrupt that may come finds its handler in the vector table and memory
\* initialised: the sections copied, the constructors called.
HandlersReady(b, m, done) ==
  /\ b.handlers[1] = "reset_isr"
  /\ TicksOn(b, m) => b.handlers[15] = "systick_isr"
  /\ RtcIrqOn(b, m) => b.handlers[19] = "rtc_isr"
  /\ UsartIrqOn(b, m) => b.handlers[54] = "isr"
  /\ TicksOn(b, m) \/ RtcIrqOn(b, m) \/ UsartIrqOn(b, m) => {"data", "bss", "ctors"} \subseteq done
InterruptsHaveHandlers == HandlersReady(build, mem, reached)

\* The program starts, whatever the order in which the hardware becomes ready
\* and the resets: in the end the LED of stm32f103stk-demo blinks with the
\* seconds, green and blue of stm32f4discovery are lit alternately, as
\* kernel.cpp:38 says, and that of the ledtest stays lit.
Lit(port, pin) == pin \in Value(build, mem, port, "ODR")
LedsBlink ==
  /\ build.name = "stm32f103stk-demo" => []<>Lit("GPIOC", 12) /\ []<>~Lit("GPIOC", 12)
  /\ build.name = "stm32f4discovery" =>
       /\ []<>(Lit("GPIOD", 12) /\ ~Lit("GPIOD", 15))
       /\ []<>(~Lit("GPIOD", 12) /\ Lit("GPIOD", 15))
  /\ build.name = "ledtest" => <>[]Lit("GPIOD", 12)
=============================================================================
