------------------------------ MODULE Programs ------------------------------
(***************************************************************************)
(* What the three programs do from the reset until their main loop, as     *)
(* sequences of operations on registers: core::startup(), Kernel::init()   *)
(* and the opening of the terminal.  Register masks come from the lists of *)
(* ResourcesF1 and ResourcesF4, addresses from the tables of registers.    *)
(***************************************************************************)
EXTENDS Integers, Sequences, SequencesExt, FiniteSets, TLC

CONSTANTS F1Clocks,     \* frequencies of stm32f103stk-demo, MHz
          F4Clocks,     \* frequencies of stm32f4discovery, MHz
          Voltages      \* supply voltages of the ledtest, hundredths of a volt

F1 == INSTANCE ResourcesF1
F4 == INSTANCE ResourcesF4
Irq == INSTANCE Interrupts
List == INSTANCE RegList
          WITH Regs <- {}, Bits <- 0 .. 31, ResetValue <- <<>>, BitBand <- {}, NoReg <- <<>>

ASSUME ClocksAssumption ==
  /\ F1Clocks \subseteq {24, 36, 48, 56, 72}
  /\ \A f \in F4Clocks : F4!Supported(f)
  /\ \A v \in Voltages : v \in 180 .. 360 /\ F4!min_latency(168, v) # 255

Program(name, device, hclk, voltage) ==
  [name |-> name, device |-> device, hclk |-> hclk, voltage |-> voltage]

\* The programs, built for each clock and voltage; value line devices have 24 MHz.
Builds ==
  {Program("stm32f103stk-demo", IF f = 24 THEN "STM32F10X_MD_VL" ELSE "STM32F10X_MD", f, 330) :
     f \in F1Clocks}
    \cup {Program("stm32f4discovery", "STM32F4XX", f, 330) : f \in F4Clocks}
    \cup {Program("ledtest", "STM32F4XX", 168, v) : v \in Voltages}

IsF4Device(b) == b.device = "STM32F4XX"
irqs(b) == [n \in {"reset", "systick", "nmi", "sv_call", "debug_monitor", "pend_sv", "usart2"}
              |-> Irq!irqn(b.device, n)]
           @@ (IF IsF4Device(b) THEN <<>> ELSE [rtc |-> Irq!irqn(b.device, "rtc")])

(***************************************************************************)
(* Operations.                                                             *)
(***************************************************************************)
Set(m) == [do |-> "set", m |-> m]               \* regmask::set()
Clear(m) == [do |-> "clear", m |-> m]           \* regmask::clear()
WaitFor(m) == [do |-> "wait", m |-> m]          \* while(test() == false)
Store(p, r, bits) ==                            \* reg::store()
  [do |-> "store", m |-> [reg |-> <<p, r>>, set_mask |-> bits, clear_mask |-> bits]]
Reached(what) == [do |-> "reached", what |-> what]   \* no access to a register

Bit(p, r, f) == F1!regbits(p, r, f)
Val(p, r, f, v) == F1!regval(p, r, f, v)
ResetList(l) == [do |-> "reset_to", list |-> l]   \* reglist::reset_to()
SetList(l) == [do |-> "set", list |-> l]          \* reglist::set()

\* reglist::strict_reset_to<>: the neutral masks of registers, and a list.
StrictResetList(rs, l) ==
  ResetList([k \in DOMAIN rs |-> F4!regval_at(rs[k][1], rs[k][2], {}, 0)] \o l)

\* What the compiler makes of an operation with the tables of registers: a list
\* becomes an operation for each register.
Compiled(tables, op) ==
  IF "list" \in DOMAIN op
  THEN LET masks == List!unique_merged_list(List!make_reglist(<<F1!Masks(tables, op.list)>>))
       IN [k \in DOMAIN masks |-> [do |-> op.do, m |-> masks[k]]]
  ELSE IF op.do \in {"store", "reached"} THEN <<op>>
  ELSE <<[op EXCEPT !.m = F1!Mask(tables, @)]>>
CompiledCode(tables, ops) == FlattenSeq([k \in DOMAIN ops |-> Compiled(tables, ops[k])])

\* core::startup(): sections, oscillator, early registers, PLL, constructors.
startupEarlyLast(hse, early_cfg, configure) ==   \* Mutant: flash is set up last.
  <<Reached("data"), Reached("bss")>> \o hse \o configure \o early_cfg \o <<Reached("ctors")>>
startup(hse, early_cfg, configure) ==
  <<Reached("data"), Reached("bss")>> \o hse \o early_cfg \o configure \o <<Reached("ctors")>>

(***************************************************************************)
(* stm32f103stk-demo.                                                      *)
(***************************************************************************)
\* system_clock_hse_impl.
F1_hse == <<Set(Val("RCC", "CR", "HSEON", 1)), WaitFor(Bit("RCC", "CR", "HSERDY"))>>
F1_configure(hclk) ==
  <<ResetList(F1!system_clock_hse(hclk)),
    Set(Bit("RCC", "CR", "PLLON")), WaitFor(Bit("RCC", "CR", "PLLRDY")),
    Set(Val("RCC", "CFGR", "SW", 2)), WaitFor(Val("RCC", "CFGR", "SWS", 2))>>

\* rtc: a register of the counter is written in configuration mode.
wait_config_done == <<WaitFor(Bit("RTC", "CRL", "RTOFF"))>>
enter_config_mode == wait_config_done \o <<Set(Bit("RTC", "CRL", "CNF"))>>
\* Mutant: nobody waits for the end of the write.
exit_config_modeNoWait == <<Clear(Bit("RTC", "CRL", "CNF"))>>
exit_config_mode == <<Clear(Bit("RTC", "CRL", "CNF"))>> \o wait_config_done

BitsOf(v) == {b \in 0 .. 19 : (v \div 2 ^ b) % 2 = 1}
InHalves(high, low, v) ==
  enter_config_mode
    \o <<Store("RTC", high, BitsOf(v \div 65536)), Store("RTC", low, BitsOf(v % 65536))>>
    \o exit_config_mode
set_prescaler(v) == InHalves("PRLH", "PRLL", v)
set_counter(v) == InHalves("CNTH", "CNTL", v)

wait_sync == <<Clear(Bit("RTC", "CRL", "RSF")), WaitFor(Bit("RTC", "CRL", "RSF"))>>

\* rtc::init<1 Hz> of an rtc<32768 Hz>.
rtc_init ==
  <<Set(Bit("RCC", "BDCR", "BDRST")), Clear(Bit("RCC", "BDCR", "BDRST")),
    Set(Bit("PWR", "CR", "DBP")), SetList(F1!rtc_clock), WaitFor(Bit("RCC", "BDCR", "LSERDY"))>> \o wait_sync
    \o set_prescaler(32768 \div 1 - 1)

systick_enable == <<Store("SCB", "STCVR", {}), Set(Bit("SCB", "STCSR", "ENABLE"))>>
systick_enable_interrupt == <<Set(Bit("SCB", "STCSR", "TICKINT"))>>

\* irq_channel::enable().
irq_enable(n) ==
  <<Store("NVIC", "ISER" \o ToString(Irq!reg_index(n)), {Irq!irq_bit(n)})>>

\* usart_irq_stream::open(), without its queues: see UsartStream.
terminal_open(n) ==
  <<Set(Bit("USART2", "CR1", "UE"))>> \o irq_enable(n)
    \o <<SetList(<<Bit("USART2", "CR1", "RXNEIE"), Bit("USART2", "CR1", "PEIE")>>)>>

\* The LED is active low: off() sets the pin.
\* The display and the radio, whose initialisation SpiBus has, come after the clock.
stk_init(b) ==
  <<ResetList(F1!stk_resources(irqs(b), b.hclk)), Reached("configured"), Store("GPIOC", "BSRR", {12})>>
    \o systick_enable \o rtc_init \o set_counter(0)
    \o systick_enable_interrupt \o <<Set(Bit("RTC", "CRH", "SECIE"))>> \o irq_enable(irqs(b).rtc)
    \o <<Reached("lcd::init, nrf::init"), Set(Bit("ADC1", "CR2", "ADON"))>>

stk_code(b) ==
  startup(F1_hse, <<ResetList(F1!flash_cfg(b.hclk))>>, F1_configure(b.hclk))
    \o stk_init(b) \o terminal_open(irqs(b).usart2) \o <<Reached("main loop")>>

(***************************************************************************)
(* stm32f4discovery and its ledtest.                                       *)
(***************************************************************************)
\* system_clock_hse_base.
F4_hse == <<Set(Val("RCC", "CR", "HSEON", 1)), WaitFor(Bit("RCC", "CR", "HSERDY"))>>
F4_configure(hclk) ==
  <<StrictResetList(<<<<"RCC", "CFGR">>, <<"RCC", "PLLCFGR">>>>, F4!system_clock_hse(hclk)),
    Set(Bit("RCC", "CR", "PLLON")), WaitFor(Bit("RCC", "CR", "PLLRDY")),
    Set(Val("RCC", "CFGR", "SW", 2)), WaitFor(Val("RCC", "CFGR", "SWS", 2))>>

\* Mutant: blue is switched off as if it were active high.
F4_leds_offBlue == <<Store("GPIOD", "BSRR", {12 + 16}), Store("GPIOD", "BSRR", {13 + 16}),
                     Store("GPIOD", "BSRR", {14 + 16}), Store("GPIOD", "BSRR", {15 + 16})>>

\* off() of the LEDs green, orange, red and the blue one, which is active low.
F4_leds_off == <<Store("GPIOD", "BSRR", {12 + 16}), Store("GPIOD", "BSRR", {13 + 16}),
                 Store("GPIOD", "BSRR", {14 + 16}), Store("GPIOD", "BSRR", {15})>>

discovery_code(b) ==
  startup(F4_hse, <<ResetList(F4!flash_cfg(b.hclk, b.voltage))>>, F4_configure(b.hclk))
    \o <<ResetList(F4!discovery_resources(irqs(b), b.hclk)), Reached("configured")>>
    \o F4_leds_off \o systick_enable \o systick_enable_interrupt
    \o terminal_open(irqs(b).usart2) \o <<Reached("main loop")>>

\* reset_isr() of the ledtest; its list of resources has no registers.
ledtest_resources(irq) == <<F4!irq_handler(irq.reset, "reset_isr")>>
ledtest_code(b) ==
  startup(F4_hse, <<ResetList(<<F4!latency_minimum(b.hclk, b.voltage)>>)>>, F4_configure(b.hclk))
    \o <<ResetList(ledtest_resources(irqs(b))), Reached("configured"),
         Set(Bit("RCC", "AHB1ENR", "GPIODEN")), Set(F4!mode_output("GPIOD", 12)),
         Store("GPIOD", "BSRR", {12}), Reached("main loop")>>

(***************************************************************************)
(* Code, resources and vector table of each build.                         *)
(***************************************************************************)
resources(b) ==
  CASE b.name = "stm32f103stk-demo" -> F1!stk_resources(irqs(b), b.hclk)
    [] b.name = "stm32f4discovery" -> F4!discovery_resources(irqs(b), b.hclk)
    [] b.name = "ledtest" -> ledtest_resources(irqs(b))

Code(b) ==
  CASE b.name = "stm32f103stk-demo" -> stk_code(b)
    [] b.name = "stm32f4discovery" -> discovery_code(b)
    [] b.name = "ledtest" -> ledtest_code(b)

\* startup.cpp: the default handler is error_isr, of the ledtest null_isr.
vector_table(b) ==
  Irq!make_vector_table(b.device, F1!handlers(resources(b)),
                        IF b.name = "ledtest" THEN "null_isr" ELSE "error_isr")
=============================================================================
