---------------------------- MODULE ResourcesF1 -----------------------------
(***************************************************************************)
(* The configuration traits of the F1 (arch/rcc.hpp, gpio.hpp, usart.hpp,  *)
(* spi.hpp, adc.hpp, rtc.hpp, flash.hpp) and the resources of the program  *)
(* stm32f103stk-demo, which lists those of its drivers.                    *)
(***************************************************************************)
EXTENDS Resources, PeripheralsF1

\* The regbits that enable a peripheral's clock.
rcc_gpio_clock(port) ==
  regbits("RCC", "APB2ENR", [GPIOA |-> "IOPAEN", GPIOB |-> "IOPBEN", GPIOC |-> "IOPCEN",
                             GPIOD |-> "IOPDEN", GPIOE |-> "IOPEEN", GPIOF |-> "IOPFEN",
                             GPIOG |-> "IOPGEN"][port])
rcc_rtc_clock == <<regbits("RCC", "APB1ENR", "PWREN"), regbits("RCC", "APB1ENR", "BKPEN")>>

\* CRx<pin>: MODE and CNF of a pin.
CRx_val(port, pin, field, v) == regval_at(port, CRx(pin), field, v)
MODE(port, pin, v) == CRx_val(port, pin, CRx_MODE(pin), v)
CNF(port, pin, v) == CRx_val(port, pin, CRx_CNF(pin), v)

mode_input(port, pin) == MODE(port, pin, 0)
mode_output(port, pin, speed) ==
  MODE(port, pin, CASE speed = 10 -> 1 [] speed = 2 -> 2 [] speed = 50 -> 3)
floating(port, pin) == CNF(port, pin, 1)
pull_up_down(port, pin) == CNF(port, pin, 2)
push_pull(port, pin) == CNF(port, pin, 0)
af_push_pull(port, pin) == CNF(port, pin, 2)

gpio_input(port, pin) == <<rcc_gpio_clock(port), mode_input(port, pin)>>
gpio_output(port, pin, speed) == <<rcc_gpio_clock(port), mode_output(port, pin, speed)>>
gpio_led(port, pin) == Append(gpio_output(port, pin, 2), push_pull(port, pin))

\* usart<>::resources with the pins of RX and TX.
usart_resources(clock, port, rx, tx) ==
  <<clock, rcc_gpio_clock(port), mode_input(port, rx), floating(port, rx),
    rcc_gpio_clock(port), mode_output(port, tx, 50), af_push_pull(port, tx)>>

\* spi<>::resources with the pins of SCK, MISO and MOSI.
spi_resources(clock, port, sck, miso, mosi) ==
  <<clock, rcc_gpio_clock(port), mode_output(port, sck, 50), af_push_pull(port, sck),
    rcc_gpio_clock(port), mode_input(port, miso), pull_up_down(port, miso),
    rcc_gpio_clock(port), mode_output(port, mosi, 50), af_push_pull(port, mosi)>>

\* regular_channel_config<channel, rank, sample_time>: here of channel 15 at rank 1.
regular_channel_config(sample_time) ==
  <<regval("ADC1", "SMPR1", "SMP15", sample_time), regval("ADC1", "SQR3", "SQ1", 15)>>

\* flash::latency::minimum<>.  Frequencies in MHz.
min_latency(hclk) == IF hclk <= 24 THEN 0 ELSE IF hclk <= 48 THEN 1 ELSE IF hclk <= 72 THEN 2 ELSE 255
flash_cfg(hclk) == <<regval("FLASH", "ACR", "LATENCY", min_latency(hclk)),
                     regval("FLASH", "ACR", "PRFTBE", 1)>>

\* system_clock_hse<>: PLL and bus prescalers for each frequency; the clocks.
PLL(hclk) ==
  [xtpre |-> IF hclk \in {24, 36} THEN 1 ELSE 0,
   mul |-> CASE hclk \in {24, 48} -> 6 [] hclk \in {36, 72} -> 9 [] hclk = 56 -> 7]
PPRE1(hclk) == IF hclk > 36 THEN 4 ELSE 0
pclk1_freq(hclk) == IF hclk > 36 THEN hclk \div 2 ELSE hclk
system_clock_hse(hclk) ==
  <<regval("RCC", "CFGR", "HPRE", 0), regval("RCC", "CFGR", "PPRE1", PPRE1(hclk)),
    regval("RCC", "CFGR", "PPRE2", 0), regval("RCC", "CFGR", "PLLSRC", 1),
    regval("RCC", "CFGR", "PLLXTPRE", PLL(hclk).xtpre),
    regval("RCC", "CFGR", "PLLMUL", PLL(hclk).mul - 2)>>

\* rtc::init(): the list it sets.
rtc_clock == <<regval("RCC", "BDCR", "LSEON", 1), regval("RCC", "BDCR", "RTCSEL", 1),
               regval("RCC", "BDCR", "RTCEN", 1)>>

\* resources of stm32f103stk-demo: time, joystick, LED, SPI, display, radio,
\* USART and terminal, in the order of the list.
time_resources(irq, hclk) ==
  <<irq_handler(irq.systick, "systick_isr"), irq_handler(irq.rtc, "rtc_isr")>>
    \o systick_external(hclk * 1000000, 100) \o rcc_rtc_clock
joy_resources ==
  <<regbits("RCC", "APB2ENR", "ADC1EN"), regval("ADC1", "CR2", "EXTSEL", 7),
    regval("ADC1", "SQR1", "L", 0)>>
    \o regular_channel_config(5) \o gpio_input("GPIOC", 6) \o <<floating("GPIOC", 6)>>
led_resources == gpio_led("GPIOC", 12)
spi1_resources == spi_resources(regbits("RCC", "APB2ENR", "SPI1EN"), "GPIOA", 5, 6, 7)
lcd_resources ==
  spi1_resources \o gpio_output("GPIOB", 2, 50) \o gpio_output("GPIOC", 7, 50)
    \o gpio_output("GPIOC", 10, 50)
    \o <<push_pull("GPIOB", 2), push_pull("GPIOC", 7), push_pull("GPIOC", 10)>>
nrf_resources ==
  spi1_resources \o gpio_output("GPIOC", 8, 50) \o gpio_output("GPIOA", 4, 50)
    \o gpio_input("GPIOC", 9)
    \o <<push_pull("GPIOC", 8), push_pull("GPIOA", 4), pull_up_down("GPIOC", 9)>>
usart2_resources == usart_resources(regbits("RCC", "APB1ENR", "USART2EN"), "GPIOA", 3, 2)
terminal_resources(irq) == Append(usart2_resources, irq_handler(irq.usart2, "isr"))

stk_resources(irq, hclk) ==
  <<irq_handler(irq.reset, "reset_isr")>> \o time_resources(irq, hclk) \o joy_resources
    \o led_resources \o spi1_resources \o lcd_resources \o nrf_resources \o usart2_resources
    \o usart_cfg("USART2", pclk1_freq(hclk) * 1000000) \o terminal_resources(irq)
=============================================================================
