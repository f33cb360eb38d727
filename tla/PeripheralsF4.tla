--------------------------- MODULE PeripheralsF4 ----------------------------
(***************************************************************************)
(* The registers of the STM32F4 peripherals (stm32/f4/include/arch/reg).   *)
(***************************************************************************)
EXTENDS PeripheralsCommon

RCC_clock ==
  [CR |-> Reg(\h00, {0, 1, 7},
      [HSION |-> {0}, HSIRDY |-> {1}, HSITRIM |-> 3..7, HSICAL |-> 8..15, HSEON |-> {16},
       HSERDY |-> {17}, HSEBYP |-> {18}, CSSON |-> {19}, PLLON |-> {24}, PLLRDY |-> {25},
       PLLI2SON |-> {26}, PLLI2SRDY |-> {27}]),
   PLLCFGR |-> Reg(\h04, {4, 12, 13, 26, 29},
      [PLLM |-> 0..5, PLLN |-> 6..14, PLLP |-> 16..17, PLLSRC |-> {22}, PLLQ |-> 24..27]),
   CFGR |-> Reg(\h08, {},
      [SW |-> 0..1, SWS |-> 2..3, HPRE |-> 4..7, PPRE1 |-> 10..12, PPRE2 |-> 13..15,
       RTCPRE |-> 16..20, MCO1 |-> 21..22, I2SSRC |-> {23}, MCO1PRE |-> 24..26,
       MCO2PRE |-> 27..29, MCO2 |-> 30..31])]

RCC_resets ==
  [CIR |-> Reg(\h0C, {},
      [LSIRDYF |-> {0}, LSERDYF |-> {1}, HSIRDYF |-> {2}, HSERDYF |-> {3}, PLLRDYF |-> {4},
       PLLI2SRDYF |-> {5}, CSSF |-> {7}, LSIRDYIE |-> {8}, LSERDYIE |-> {9}, HSIRDYIE |-> {10},
       HSERDYIE |-> {11}, PLLRDYIE |-> {12}, PLLI2SRDYIE |-> {13}, LSIRDYC |-> {16},
       LSERDYC |-> {17}, HSIRDYC |-> {18}, HSERDYC |-> {19}, PLLRDYC |-> {20},
       PLLI2SRDYC |-> {21}, CSSC |-> {23}]),
   AHB1RSTR |-> Reg(\h10, {},
      [GPIOARST |-> {0}, GPIOBRST |-> {1}, GPIOCRST |-> {2}, GPIODRST |-> {3}, GPIOERST |-> {4},
       GPIOFRST |-> {5}, GPIOGRST |-> {6}, GPIOHRST |-> {7}, GPIOIRST |-> {8}, CRCRST |-> {12},
       DMA1RST |-> {21}, DMA2RST |-> {22}, ETHMACRST |-> {25}, OTGHSRST |-> {29}]),
   AHB2RSTR |-> Reg(\h14, {}, [DCMIRST |-> {0}, RNGRST |-> {6}, OTGFSRST |-> {7}]),
   AHB3RSTR |-> Reg(\h18, {}, [FSMCRST |-> {0}]),
   APB1RSTR |-> Reg(\h20, {},
      [TIM2RST |-> {0}, TIM3RST |-> {1}, TIM4RST |-> {2}, TIM5RST |-> {3}, TIM6RST |-> {4},
       TIM7RST |-> {5}, TIM12RST |-> {6}, TIM13RST |-> {7}, TIM14RST |-> {8}, WWDGRST |-> {11},
       SPI2RST |-> {14}, SPI3RST |-> {15}, UART2RST |-> {17}, UART3RST |-> {18},
       UART4RST |-> {19}, UART5RST |-> {20}, I2C1RST |-> {21}, I2C2RST |-> {22},
       I2C3RST |-> {23}, CAN1RST |-> {25}, CAN2RST |-> {26}, PWRRST |-> {28}, DACRST |-> {29}]),
   APB2RSTR |-> Reg(\h24, {},
      [TIM1RST |-> {0}, TIM8RST |-> {1}, USART1RST |-> {4}, USART6RST |-> {5}, ADCRST |-> {8},
       SDIORST |-> {11}, SPI1RST |-> {12}, SYSCFGRST |-> {14}, TIM9RST |-> {16},
       TIM10RST |-> {17}, TIM11RST |-> {18}])]

RCC_enables ==
  [AHB1ENR |-> Reg(\h30, {20},
      [GPIOAEN |-> {0}, GPIOBEN |-> {1}, GPIOCEN |-> {2}, GPIODEN |-> {3}, GPIOEEN |-> {4},
       GPIOFEN |-> {5}, GPIOGEN |-> {6}, GPIOHEN |-> {7}, GPIOIEN |-> {8}, CRCEN |-> {12},
       BKPSRAMEN |-> {18}, DMA1EN |-> {21}, DMA2EN |-> {22}, ETHMACEN |-> {25},
       ETHMACTXEN |-> {26}, ETHMACRXEN |-> {27}, ETHMACPTPEN |-> {28}, OTGHSEN |-> {29},
       OTGHSULPIEN |-> {30}]),
   AHB2ENR |-> Reg(\h34, {}, [DCMIEN |-> {0}, RNGEN |-> {6}, OTGFSEN |-> {7}]),
   AHB3ENR |-> Reg(\h38, {}, [FSMCEN |-> {0}]),
   APB1ENR |-> Reg(\h40, {},
      [TIM2EN |-> {0}, TIM3EN |-> {1}, TIM4EN |-> {2}, TIM5EN |-> {3}, TIM6EN |-> {4},
       TIM7EN |-> {5}, TIM12EN |-> {6}, TIM13EN |-> {7}, TIM14EN |-> {8}, WWDGEN |-> {11},
       SPI2EN |-> {14}, SPI3EN |-> {15}, USART2EN |-> {17}, USART3EN |-> {18}, UART4EN |-> {19},
       UART5EN |-> {20}, I2C1EN |-> {21}, I2C2EN |-> {22}, I2C3EN |-> {23}, CAN1EN |-> {25},
       CAN2EN |-> {26}, PWREN |-> {28}, DACEN |-> {29}]),
   APB2ENR |-> Reg(\h44, {},
      [TIM1EN |-> {0}, TIM8EN |-> {1}, USART1EN |-> {4}, USART6EN |-> {5}, ADC1EN |-> {8},
       ADC2EN |-> {9}, ADC3EN |-> {10}, SDIOEN |-> {11}, SPI1EN |-> {12}, SYSCFGEN |-> {14},
       TIM9EN |-> {16}, TIM10EN |-> {17}, TIM11EN |-> {18}])]

RCC_sleep ==
  [AHB1LPENR |-> Reg(\h50, (0 .. 8) \cup {12} \cup (15 .. 18) \cup {21, 22} \cup (25 .. 30),
      [GPIOALPEN |-> {0}, GPIOBLPEN |-> {1}, GPIOCLPEN |-> {2}, GPIODLPEN |-> {3},
       GPIOELPEN |-> {4}, GPIOFLPEN |-> {5}, GPIOGLPEN |-> {6}, GPIOHLPEN |-> {7},
       GPIOILPEN |-> {8}, CRCLPEN |-> {12}, FLITFLPEN |-> {15}, SRAM1LPEN |-> {16},
       SRAM2LPEN |-> {17}, BKPSRAMLPEN |-> {18}, DMA1LPEN |-> {21}, DMA2LPEN |-> {22},
       ETHMACLPEN |-> {25}, ETHMACTXLPEN |-> {26}, ETHMACRXLPEN |-> {27},
       ETHMACPTPLPEN |-> {28}, OTGHSLPEN |-> {29}, OTGHSULPILPEN |-> {30}]),
   AHB2LPENR |-> Reg(\h54, {0, 4, 5, 6, 7},
      [DCMILPEN |-> {0}, RNGLPEN |-> {6}, OTGFSLPEN |-> {7}]),
   AHB3LPENR |-> Reg(\h58, {0}, [FSMCLPEN |-> {0}]),
   APB1LPENR |-> Reg(\h60, (0 .. 8) \cup {11, 14, 15, 25, 26, 28, 29} \cup (17 .. 23),
      [TIM2LPEN |-> {0}, TIM3LPEN |-> {1}, TIM4LPEN |-> {2}, TIM5LPEN |-> {3}, TIM6LPEN |-> {4},
       TIM7LPEN |-> {5}, TIM12LPEN |-> {6}, TIM13LPEN |-> {7}, TIM14LPEN |-> {8},
       WWDGLPEN |-> {11}, SPI2LPEN |-> {14}, SPI3LPEN |-> {15}, USART2LPEN |-> {17},
       USART3LPEN |-> {18}, UART4LPEN |-> {19}, UART5LPEN |-> {20}, I2C1LPEN |-> {21},
       I2C2LPEN |-> {22}, I2C3LPEN |-> {23}, CAN1LPEN |-> {25}, CAN2LPEN |-> {26},
       PWRLPEN |-> {28}, DACLPEN |-> {29}]),
   APB2LPENR |-> Reg(\h64, {0, 1, 4, 5, 8, 9, 10, 11, 12, 14, 16, 17, 18},
      [TIM1LPEN |-> {0}, TIM8LPEN |-> {1}, USART1LPEN |-> {4}, USART6LPEN |-> {5},
       ADC1LPEN |-> {8}, ADC2LPEN |-> {9}, ADC3LPEN |-> {10}, SDIOLPEN |-> {11},
       SPI1LPEN |-> {12}, SYSCFGLPEN |-> {14}, TIM9LPEN |-> {16}, TIM10LPEN |-> {17},
       TIM11LPEN |-> {18}])]

RCC_backup ==
  [BDCR |-> Reg(\h70, {},
      [LSEON |-> {0}, LSERDY |-> {1}, LSEBYP |-> {2}, RTCSEL0 |-> {8}, RTCSEL1 |-> {9},
       RTCEN |-> {15}, BDRST |-> {16}]),
   CSR |-> Reg(\h74, 25..27,
      [LSION |-> {0}, LSIRDY |-> {1}, RMVF |-> {24}, BORRSTF |-> {25}, PADRSTF |-> {26},
       PORRSTF |-> {27}, SFTRSTF |-> {28}, WDGRSTF |-> {29}, WWDGRSTF |-> {30},
       LPWRRSTF |-> {31}]),
   SSCGR |-> Reg(\h80, {},
      [MODPER |-> 0..12, INCSTEP |-> 13..27, SPREADSEL |-> {30}, SSCGEN |-> {31}]),
   PLLI2SCFGR |-> Reg(\h84, {12, 13, 29}, [PLLI2SN |-> 6..14, PLLI2SR |-> 28..30])]

RCC_regs == RCC_clock @@ RCC_resets @@ RCC_enables @@ RCC_sleep @@ RCC_backup

FLASH_regs ==
  [ACR |-> Reg(\h00, {},
      [LATENCY |-> 0..2, PRFTEN |-> {8}, ICEN |-> {9}, DCEN |-> {10}, ICRST |-> {11},
       DCRST |-> {12}]),
   KEYR |-> Reg(\h04, {}, <<>>),
   OPTKEYR |-> Reg(\h08, {}, <<>>),
   SR |-> Reg(\h0C, {},
      [EOP |-> {0}, OPERR |-> {1}, WRPERR |-> {4}, PGAERR |-> {5}, PGPERR |-> {6},
       PGSERR |-> {7}, BSY |-> {16}]),
   CR |-> Reg(\h10, {31},
      [PG |-> {0}, SER |-> {1}, MER |-> {2}, SNB |-> 3..6, PSIZE |-> 8..9, STRT |-> {16},
       EOPIE |-> {24}, ERRIE |-> {25}, LOCK |-> {31}]),
   OPTCR |-> Reg(\h14, {2, 4},
      [OPTLOCK |-> {0}, OPTSTRT |-> {1}, BOR_LEV |-> 2..3, USER |-> 5..7, RDP |-> 8..15,
       NWRP |-> 16..27])]

PWR_regs ==
  [CR |-> Reg(\h0, {14},
      [LPDS |-> {0}, PDDS |-> {1}, CWUF |-> {2}, CSBF |-> {3}, PVDE |-> {4}, PLS |-> 5..7,
       DBP |-> {8}, FPDS |-> {9}, VOS |-> {14}]),
   CSR |-> Reg(\h4, {},
      [WUF |-> {0}, SBF |-> {1}, PVDO |-> {2}, BRR |-> {3}, EWUP |-> {8}, BRE |-> {9},
       VOSRDY |-> {14}])]

\* Some pins of ports A and B are debug pins after a reset.
moder_reset(port) == CASE port = "GPIOA" -> {27, 29, 31} [] port = "GPIOB" -> {7, 9} [] OTHER -> {}
ospeedr_reset(port) == IF port = "GPIOB" THEN {6, 7} ELSE {}
pupdr_reset(port) == CASE port = "GPIOA" -> {26, 29, 30} [] port = "GPIOB" -> {8} [] OTHER -> {}

GPIO_regs(port) ==
  [MODER |-> Reg(\h00, moder_reset(port), <<>>),
   OTYPER |-> Reg(\h04, {}, <<>>),
   OSPEEDR |-> Reg(\h08, ospeedr_reset(port), <<>>),
   PUPDR |-> Reg(\h0C, pupdr_reset(port), <<>>),
   IDR |-> Reg(\h10, {}, <<>>),
   ODR |-> Reg(\h14, {}, <<>>),
   BSRR |-> Reg(\h18, {}, <<>>),
   LCKR |-> Reg(\h1C, {}, <<>>),
   AFRL |-> Reg(\h20, {}, <<>>),
   AFRH |-> Reg(\h24, {}, <<>>)]

\* The bits of a pin in registers with two bits a pin; AFRx<>.
TwoBits(pin) == {2 * pin, 2 * pin + 1}
AFRx(pin) == IF pin < 8 THEN "AFRL" ELSE "AFRH"
AFRx_bits(pin) == (pin % 8) * 4 .. (pin % 8) * 4 + 3

At(page, offset, table) == [at |-> Address(page, offset), regs |-> table]
Ports == <<"GPIOA", "GPIOB", "GPIOC", "GPIOD", "GPIOE", "GPIOF", "GPIOG", "GPIOH", "GPIOI">>
PortOffset(p) == \h0400 * ((CHOOSE k \in DOMAIN Ports : Ports[k] = p) - 1)

\* Where the peripherals are.
Peripherals ==
  Core
    @@ [RCC |-> At(\h4002, \h3800, RCC_regs), FLASH |-> At(\h4002, \h3C00, FLASH_regs),
        PWR |-> At(\h4000, \h7000, PWR_regs),
        USART1 |-> At(\h4001, \h1000, USART_ext_regs), USART2 |-> At(\h4000, \h4400, USART_ext_regs),
        USART3 |-> At(\h4000, \h4800, USART_ext_regs), USART6 |-> At(\h4001, \h1400, USART_ext_regs),
        SPI1 |-> At(\h4001, \h3000, SPI_ext_regs),
        SPI2 |-> At(\h4000, \h3800, SPI_ext_regs),
        SPI3 |-> At(\h4000, \h3C00, SPI_ext_regs), SPI4 |-> At(\h4001, \h3400, SPI_ext_regs),
        SPI5 |-> At(\h4001, \h5000, SPI_ext_regs), SPI6 |-> At(\h4001, \h5400, SPI_ext_regs),
        TIM1 |-> At(\h4001, \h0000, TIM_regs), TIM8 |-> At(\h4001, \h0400, TIM_regs),
        TIM2 |-> At(\h4000, \h0000, TIM_regs), TIM3 |-> At(\h4000, \h0400, TIM_regs),
        TIM4 |-> At(\h4000, \h0800, TIM_regs), TIM5 |-> At(\h4000, \h0C00, TIM_regs),
        TIM6 |-> At(\h4000, \h1000, TIM_regs), TIM7 |-> At(\h4000, \h1400, TIM_regs),
        TIM9 |-> At(\h4001, \h4000, TIM_regs), TIM10 |-> At(\h4001, \h4400, TIM_regs),
        TIM11 |-> At(\h4001, \h4800, TIM_regs), TIM12 |-> At(\h4000, \h1800, TIM_regs),
        TIM13 |-> At(\h4000, \h1C00, TIM_regs), TIM14 |-> At(\h4000, \h2000, TIM_regs)]
    @@ [p \in {Ports[k] : k \in DOMAIN Ports} |-> At(\h4002, PortOffset(p), GPIO_regs(p))]
=============================================================================
