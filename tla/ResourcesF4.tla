---------------------------- MODULE ResourcesF4 -----------------------------
(***************************************************************************)
(* The configuration traits of the F4 (arch/rcc.hpp, gpio.hpp, usart.hpp,  *)
(* flash.hpp) and the resources of the program stm32f4discovery.           *)
(***************************************************************************)
EXTENDS Resources, PeripheralsF4

\* The regbits that enable a port's clock.
rcc_gpio_clock(port) ==
  regbits("RCC", "AHB1ENR", [GPIOA |-> "GPIOAEN", GPIOB |-> "GPIOBEN", GPIOC |-> "GPIOCEN",
                             GPIOD |-> "GPIODEN", GPIOE |-> "GPIOEEN", GPIOF |-> "GPIOFEN",
                             GPIOG |-> "GPIOGEN", GPIOH |-> "GPIOHEN", GPIOI |-> "GPIOIEN"][port])

\* The bits a pin has in the registers of its port.
mode(port, pin, v) == regval_at(port, "MODER", TwoBits(pin), v)
mode_output(port, pin) == mode(port, pin, 1)
alternate_function(port, pin) == mode(port, pin, 2)
push_pull(port, pin) == regval_at(port, "OTYPER", {pin}, 0)
speed(port, pin, f) ==
  regval_at(port, "OSPEEDR", TwoBits(pin), CASE f = 2 -> 0 [] f = 25 -> 1 [] f = 50 -> 2 [] f = 100 -> 3)
floating(port, pin) == regval_at(port, "PUPDR", TwoBits(pin), 0)
alt_func_num(port, pin, n) == regval_at(port, AFRx(pin), AFRx_bits(pin), n)

gpio_output(port, pin) == <<rcc_gpio_clock(port), mode_output(port, pin)>>
gpio_led(port, pin) == Append(gpio_output(port, pin), push_pull(port, pin))

\* usart<>::resources of usart 1 to 3, with the pins of RX and TX.
usart_resources(clock, port, rx, tx) ==
  <<clock, rcc_gpio_clock(port), floating(port, rx), alternate_function(port, rx),
    alt_func_num(port, rx, 7), rcc_gpio_clock(port), push_pull(port, tx), floating(port, tx),
    speed(port, tx, 50), alternate_function(port, tx), alt_func_num(port, tx, 7)>>

\* min_latency(): MHz per wait state at a voltage in hundredths of a volt, and
\* the highest frequency; 0xff above it.
Step(voltage) == CASE voltage <= 210 -> 20 [] voltage <= 240 -> 22 [] voltage <= 270 -> 24
                   [] voltage <= 360 -> 30
\* Mutant: the limits are exclusive.
min_latencyBelow(hclk, voltage) == (hclk + 1) \div Step(voltage) - 1

min_latency(hclk, voltage) ==
  IF hclk > (IF voltage <= 210 THEN 160 ELSE 168) THEN 255
  ELSE CHOOSE ws \in 0 .. 7 : hclk \in ws * Step(voltage) + 1 .. (ws + 1) * Step(voltage)

latency_minimum(hclk, voltage) == regval("FLASH", "ACR", "LATENCY", min_latency(hclk, voltage))

\* flash_cfg of stm32f4discovery.
flash_cfg(hclk, voltage) ==
  <<latency_minimum(hclk, voltage), regval("FLASH", "ACR", "PRFTEN", 1),
    regval("FLASH", "ACR", "ICEN", 1), regval("FLASH", "ACR", "DCEN", 1)>>

\* system_clock_pllcfgr<> with an oscillator of 8 MHz, divided to 1 MHz.
PLL(hclk) ==
  LET n == hclk * 2 IN [m |-> 8, n |-> n, p |-> 2, q |-> n \div 48 + (IF n % 48 # 0 THEN 1 ELSE 0)]

\* The assertions: the multiplier's range, and 48 MHz for USB.
Supported(hclk) == PLL(hclk).n \in 192 .. 432 /\ PLL(hclk).n = 48 * PLL(hclk).q

\* system_clock_hse<>: cfg_list, and the peripheral clock.
system_clock_hse(hclk) ==
  <<regval("RCC", "CFGR", "HPRE", 0), regval("RCC", "CFGR", "PPRE1", 5),
    regval("RCC", "CFGR", "PPRE2", 4),
    regval("RCC", "PLLCFGR", "PLLM", PLL(hclk).m), regval("RCC", "PLLCFGR", "PLLN", PLL(hclk).n),
    regval("RCC", "PLLCFGR", "PLLP", PLL(hclk).p \div 2 - 1),
    regval("RCC", "PLLCFGR", "PLLQ", PLL(hclk).q), regbits("RCC", "PLLCFGR", "PLLSRC")>>
pclk1_freq(hclk) == hclk \div 4

\* resources of stm32f4discovery, in the order of the list.
irq_resources(irq) ==
  <<irq_handler(irq.reset, "reset_isr"), irq_handler(irq.systick, "systick_isr"),
    irq_handler(irq.nmi, "null_isr"), irq_handler(irq.sv_call, "null_isr"),
    irq_handler(irq.debug_monitor, "null_isr"), irq_handler(irq.pend_sv, "null_isr")>>
led_resources ==
  gpio_led("GPIOD", 12) \o gpio_led("GPIOD", 13) \o gpio_led("GPIOD", 14) \o gpio_led("GPIOD", 15)
usart2_resources == usart_resources(regbits("RCC", "APB1ENR", "USART2EN"), "GPIOA", 3, 2)
terminal_resources(irq) == Append(usart2_resources, irq_handler(irq.usart2, "isr"))

\* Mutant: pin 13 of port A, one of the debugger's, is made an output.
discovery_resourcesPA13(irq, hclk) ==
  irq_resources(irq) \o systick_external(hclk * 1000000, 1000) \o led_resources
    \o usart2_resources \o usart_cfg("USART2", pclk1_freq(hclk) * 1000000)
    \o terminal_resources(irq) \o <<mode_output("GPIOA", 13)>>

discovery_resources(irq, hclk) ==
  irq_resources(irq) \o systick_external(hclk * 1000000, 1000) \o led_resources
    \o usart2_resources \o usart_cfg("USART2", pclk1_freq(hclk) * 1000000)
    \o terminal_resources(irq)
=============================================================================
