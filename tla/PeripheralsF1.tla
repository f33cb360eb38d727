--------------------------- MODULE PeripheralsF1 ----------------------------
(***************************************************************************)
(* The registers of the STM32F1 peripherals (stm32/f1/include/arch/reg).   *)
(***************************************************************************)
EXTENDS PeripheralsCommon

RCC_oscillators ==
  [CR |-> Reg(\h0, {0, 1, 7},
      [HSION |-> {0}, HSIRDY |-> {1}, HSITRIM |-> 3..7, HSICAL |-> 8..15, HSEON |-> {16},
       HSERDY |-> {17}, HSEBYP |-> {18}, CSSON |-> {19}, PLLON |-> {24}, PLLRDY |-> {25},
       PLL2ON |-> {26}, PLL2RDY |-> {27}, PLL3ON |-> {28}, PLL3RDY |-> {29}])]

RCC_configuration ==
  [CFGR |-> Reg(\h4, {},
      [SW |-> 0..1, SWS |-> 2..3, HPRE |-> 4..7, PPRE1 |-> 8..10, PPRE2 |-> 11..13,
       ADCPRE |-> 14..15, PLLSRC |-> {16}, PLLXTPRE |-> {17}, PLLMUL |-> 18..21,
       OTGFSPRE |-> {22}, USBPRE |-> {22}, MCO |-> 24..27])]

RCC_resets ==
  [CIR |-> Reg(\h8, {},
      [LSIRDYF |-> {0}, LSERDYF |-> {1}, HSIRDYF |-> {2}, HSERDYF |-> {3}, PLLRDYF |-> {4},
       PLL2RDYF |-> {5}, PLL3RDYF |-> {6}, CSSF |-> {7}, LSIRDYIE |-> {8}, LSERDYIE |-> {9},
       HSIRDYIE |-> {10}, HSERDYIE |-> {11}, PLLRDYIE |-> {12}, PLL2RDYIE |-> {13},
       PLL3RDYIE |-> {14}, LSIRDYC |-> {16}, LSERDYC |-> {17}, HSIRDYC |-> {18},
       HSERDYC |-> {19}, PLLRDYC |-> {20}, PLL2RDYC |-> {21}, PLL3RDYC |-> {22},
       CSSC |-> {23}]),
   APB2RSTR |-> Reg(\hC, {},
      [AFIORST |-> {0}, IOPARST |-> {2}, IOPBRST |-> {3}, IOPCRST |-> {4}, IOPDRST |-> {5},
       IOPERST |-> {6}, IOPFRST |-> {7}, IOPGRST |-> {8}, ADC1RST |-> {9}, ADC2RST |-> {10},
       TIM1RST |-> {11}, SPI1RST |-> {12}, TIM8RST |-> {13}, USART1RST |-> {14},
       ADC3RST |-> {15}, TIM15RST |-> {16}, TIM16RST |-> {17}, TIM17RST |-> {18},
       TIM9RST |-> {19}, TIM10RST |-> {20}, TIM11RST |-> {21}]),
   APB1RSTR |-> Reg(\h10, {},
      [TIM2RST |-> {0}, TIM3RST |-> {1}, TIM4RST |-> {2}, TIM5RST |-> {3}, TIM6RST |-> {4},
       TIM7RST |-> {5}, TIM12RST |-> {6}, TIM13RST |-> {7}, TIM14RST |-> {8}, WWDGRST |-> {11},
       SPI2RST |-> {14}, SPI3RST |-> {15}, USART2RST |-> {17}, USART3RST |-> {18},
       UART4RST |-> {19}, UART5RST |-> {20}, I2C1RST |-> {21}, I2C2RST |-> {22},
       USBRST |-> {23}, CAN1RST |-> {25}, CAN2RST |-> {26}, BKPRST |-> {27}, PWRRST |-> {28},
       DACRST |-> {29}, CECRST |-> {30}])]

RCC_enables ==
  [AHBENR |-> Reg(\h14, {2, 4},
      [DMA1EN |-> {0}, DMA2EN |-> {1}, SRAMEN |-> {2}, FLITFEN |-> {4}, CRCEN |-> {6},
       FSMCEN |-> {8}, SDIOEN |-> {10}, OTGFSEN |-> {12}, ETHMACEN |-> {14},
       ETHMACTXEN |-> {15}, ETHMACRXEN |-> {16}]),
   APB2ENR |-> Reg(\h18, {},
      [AFIOEN |-> {0}, IOPAEN |-> {2}, IOPBEN |-> {3}, IOPCEN |-> {4}, IOPDEN |-> {5},
       IOPEEN |-> {6}, IOPFEN |-> {7}, IOPGEN |-> {8}, ADC1EN |-> {9}, ADC2EN |-> {10},
       TIM1EN |-> {11}, SPI1EN |-> {12}, TIM8EN |-> {13}, USART1EN |-> {14}, ADC3EN |-> {15},
       TIM15EN |-> {16}, TIM16EN |-> {17}, TIM17EN |-> {18}, TIM9EN |-> {19}, TIM10EN |-> {20},
       TIM11EN |-> {21}]),
   APB1ENR |-> Reg(\h1C, {},
      [TIM2EN |-> {0}, TIM3EN |-> {1}, TIM4EN |-> {2}, TIM5EN |-> {3}, TIM6EN |-> {4},
       TIM7EN |-> {5}, TIM12EN |-> {6}, TIM13EN |-> {7}, TIM14EN |-> {8}, WWDGEN |-> {11},
       SPI2EN |-> {14}, SPI3EN |-> {15}, USART2EN |-> {17}, USART3EN |-> {18}, UART4EN |-> {19},
       UART5EN |-> {20}, I2C1EN |-> {21}, I2C2EN |-> {22}, USBEN |-> {23}, CAN1EN |-> {25},
       CAN2EN |-> {26}, BKPEN |-> {27}, PWREN |-> {28}, DACEN |-> {29}, CECEN |-> {30}])]

RCC_backup ==
  [BDCR |-> Reg(\h20, {},
      [LSEON |-> {0}, LSERDY |-> {1}, LSEBYP |-> {2}, RTCSEL |-> 8..9, RTCEN |-> {15},
       BDRST |-> {16}]),
   CSR |-> Reg(\h24, 26..27,
      [LSION |-> {0}, LSIRDY |-> {1}, RMVF |-> {24}, PINRSTF |-> {26}, PORRSTF |-> {27},
       SFTRSTF |-> {28}, IWDGRSTF |-> {29}, WWDGRSTF |-> {30}, LPWRRSTF |-> {31}]),
   AHBRSTR |-> Reg(\h28, {}, [OTGFSRST |-> {12}, ETHMACRST |-> {14}]),
   CFGR2 |-> Reg(\h2C, {},
      [PREDIV1 |-> 0..3, PREDIV2 |-> 4..7, PLL2MUL |-> 8..11, PLL3MUL |-> 12..15,
       PREDIV1SRC |-> {16}, I2S2SRC |-> {17}, I2S3SRC |-> {18}])]

RCC_regs == RCC_oscillators @@ RCC_configuration @@ RCC_resets @@ RCC_enables @@ RCC_backup

FLASH_regs ==
  [ACR |-> Reg(\h0, 4..5, [LATENCY |-> 0..2, HLFCYA |-> {3}, PRFTBE |-> {4}, PRFTBS |-> {5}]),
   KEYR |-> Reg(\h4, {}, [KEY |-> 0..31]),
   OPTKEYR |-> Reg(\h8, {}, [OPTKEY |-> 0..31]),
   SR |-> Reg(\hC, {}, [BSY |-> {0}, PGERR |-> {2}, WRPRTERR |-> {4}, EOP |-> {5}]),
   CR |-> Reg(\h10, {7},
      [PG |-> {0}, PER |-> {1}, MER |-> {2}, OPTPG |-> {4}, OPTER |-> {5}, STRT |-> {6},
       LOCK |-> {7}, OPTWRE |-> {9}, ERRIE |-> {10}, EOPIE |-> {12}]),
   AR |-> Reg(\h14, {}, [FAR |-> 0..31]),
   OBR |-> Reg(\h1C, 2..25,
      [OPTERR |-> {0}, RDPRT |-> {1}, WDG_SW |-> {2}, nRST_STOP |-> {3}, nRST_STDBY |-> {4},
       Data0 |-> 10..17, Data1 |-> 18..25]),
   WRPR |-> Reg(\h20, 0..31, [WRP |-> 0..31]),
   KEYR2 |-> Reg(\h44, {}, <<>>),
   SR2 |-> Reg(\h4C, {}, <<>>),
   CR2 |-> Reg(\h50, {}, <<>>),
   AR2 |-> Reg(\h54, {}, <<>>)]

RTC_regs ==
  [CRH |-> Reg(\h0, {}, [SECIE |-> {0}, ALRIE |-> {1}, OWIE |-> {2}]),
   CRL |-> Reg(\h4, {5},
      [SECF |-> {0}, ALRF |-> {1}, OWF |-> {2}, RSF |-> {3}, CNF |-> {4}, RTOFF |-> {5}]),
   PRLH |-> Reg(\h8, {}, [bits |-> 0..3]),
   PRLL |-> Reg(\hC, {15}, [bits |-> 0..15]),
   DIVH |-> Reg(\h10, {}, [bits |-> 0..3]),
   DIVL |-> Reg(\h14, {15}, [bits |-> 0..15]),
   CNTH |-> Reg(\h18, {}, [bits |-> 0..15]),
   CNTL |-> Reg(\h1C, {}, [bits |-> 0..15]),
   ALRH |-> Reg(\h20, 0..15, [bits |-> 0..15]),
   ALRL |-> Reg(\h24, 0..15, [bits |-> 0..15])]

PWR_regs ==
  [CR |-> Reg(\h0, {},
      [LPDS |-> {0}, PDDS |-> {1}, CWUF |-> {2}, CSBF |-> {3}, PVDE |-> {4}, PLS |-> 5..7,
       DBP |-> {8}]),
   CSR |-> Reg(\h4, {}, [WUF |-> {0}, SBF |-> {1}, PVDO |-> {2}, EWUP |-> {8}])]

GPIO_regs ==
  [CRL |-> Reg(\h00, {2, 6, 10, 14, 18, 22, 26, 30}, <<>>),
   CRH |-> Reg(\h04, {2, 6, 10, 14, 18, 22, 26, 30}, <<>>),
   IDR |-> Reg(\h08, {}, <<>>),
   ODR |-> Reg(\h0C, {}, <<>>),
   BSRR |-> Reg(\h10, {}, <<>>),
   BRR |-> Reg(\h14, {}, <<>>),
   LCKR |-> Reg(\h18, {}, <<>>)]

ADC_control ==
  [SR |-> Reg(\h0, {}, [AWD |-> {0}, EOC |-> {1}, JEOC |-> {2}, JSTRT |-> {3}, STRT |-> {4}]),
   CR1 |-> Reg(\h4, {},
      [AWDCH |-> 0..4, EOCIE |-> {5}, AWDIE |-> {6}, JEOCIE |-> {7}, SCAN |-> {8},
       AWDSGL |-> {9}, JAUTO |-> {10}, DISCEN |-> {11}, JDISCEN |-> {12}, DISCNUM |-> 13..15,
       DUALMOD |-> 16..19, JAWDEN |-> {22}, AWDEN |-> {23}]),
   CR2 |-> Reg(\h8, {},
      [ADON |-> {0}, CONT |-> {1}, CAL |-> {2}, RSTCAL |-> {3}, DMA |-> {8}, ALIGN |-> {11},
       JEXTSEL |-> 12..14, JEXTTRIG |-> {15}, EXTSEL |-> 17..19, EXTTRIG |-> {20},
       JSWSTART |-> {21}, SWSTART |-> {22}, TSVREFE |-> {23}]),
   SMPR1 |-> Reg(\hC, {},
      [SMP10 |-> 0..2, SMP11 |-> 3..5, SMP12 |-> 6..8, SMP13 |-> 9..11, SMP14 |-> 12..14,
       SMP15 |-> 15..17, SMP16 |-> 18..20, SMP17 |-> 21..23]),
   SMPR2 |-> Reg(\h10, {},
      [SMP0 |-> 0..2, SMP1 |-> 3..5, SMP2 |-> 6..8, SMP3 |-> 9..11, SMP4 |-> 12..14,
       SMP5 |-> 15..17, SMP6 |-> 18..20, SMP7 |-> 21..23, SMP8 |-> 24..26, SMP9 |-> 27..29])]

\* ADC: sequences, without those of injected channels.
ADC_sequence ==
  [HTR |-> Reg(\h24, 0..11, [HT |-> 0..11]),
   LTR |-> Reg(\h28, {}, [LT |-> 0..11]),
   SQR1 |-> Reg(\h2C, {},
      [SQ13 |-> 0..4, SQ14 |-> 5..9, SQ15 |-> 10..14, SQ16 |-> 15..19, L |-> 20..23]),
   SQR2 |-> Reg(\h30, {},
      [SQ7 |-> 0..4, SQ8 |-> 5..9, SQ9 |-> 10..14, SQ10 |-> 15..19, SQ11 |-> 20..24,
       SQ12 |-> 25..29]),
   SQR3 |-> Reg(\h34, {},
      [SQ1 |-> 0..4, SQ2 |-> 5..9, SQ3 |-> 10..14, SQ4 |-> 15..19, SQ5 |-> 20..24,
       SQ6 |-> 25..29]),
   JSQR |-> Reg(\h38, {},
      [JSQ1 |-> 0..4, JSQ2 |-> 5..9, JSQ3 |-> 10..14, JSQ4 |-> 15..19, JL |-> 20..21]),
   DR |-> Reg(\h4C, {}, [DATA |-> 0..15, ADC2DATA |-> 16..31])]

ADC_regs == ADC_control @@ ADC_sequence

\* CRx<> of a pin, and its fields.
CRx(pin) == IF pin < 8 THEN "CRL" ELSE "CRH"
CRx_MODE(pin) == {(pin % 8) * 4, (pin % 8) * 4 + 1}
CRx_CNF(pin) == {(pin % 8) * 4 + 2, (pin % 8) * 4 + 3}

At(page, offset, table) == [at |-> Address(page, offset), regs |-> table]
Ports == <<"GPIOA", "GPIOB", "GPIOC", "GPIOD", "GPIOE", "GPIOF", "GPIOG">>
PortOffset(p) == \h0800 + \h0400 * ((CHOOSE k \in DOMAIN Ports : Ports[k] = p) - 1)

\* Where the peripherals are.
Peripherals ==
  Core
    @@ [RCC |-> At(\h4002, \h1000, RCC_regs), FLASH |-> At(\h4002, \h2000, FLASH_regs),
        RTC |-> At(\h4000, \h2800, RTC_regs), PWR |-> At(\h4000, \h7000, PWR_regs),
        ADC1 |-> At(\h4001, \h2400, ADC_regs), ADC2 |-> At(\h4001, \h2800, ADC_regs),
        ADC3 |-> At(\h4001, \h3C00, ADC_regs),
        USART1 |-> At(\h4001, \h3800, USART_regs), USART2 |-> At(\h4000, \h4400, USART_regs),
        USART3 |-> At(\h4000, \h4800, USART_regs),
        SPI1 |-> At(\h4001, \h3000, SPI_regs), SPI2 |-> At(\h4000, \h3800, SPI_regs),
        SPI3 |-> At(\h4000, \h3C00, SPI_regs),
        TIM1 |-> At(\h4001, \h2C00, TIM_regs), TIM2 |-> At(\h4000, \h0000, TIM_regs),
        TIM3 |-> At(\h4000, \h0400, TIM_regs), TIM4 |-> At(\h4000, \h0800, TIM_regs),
        TIM5 |-> At(\h4000, \h0C00, TIM_regs), TIM6 |-> At(\h4000, \h1000, TIM_regs),
        TIM7 |-> At(\h4000, \h1400, TIM_regs), TIM8 |-> At(\h4001, \h3400, TIM_regs),
        TIM9 |-> At(\h4001, \h4C00, TIM_regs), TIM10 |-> At(\h4001, \h5000, TIM_regs),
        TIM11 |-> At(\h4001, \h5400, TIM_regs), TIM12 |-> At(\h4000, \h1800, TIM_regs),
        TIM13 |-> At(\h4000, \h1C00, TIM_regs), TIM14 |-> At(\h4000, \h2000, TIM_regs)]
    @@ [p \in {Ports[k] : k \in DOMAIN Ports} |-> At(\h4001, PortOffset(p), GPIO_regs)]
=============================================================================
