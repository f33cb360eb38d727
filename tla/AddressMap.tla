----------------------------- MODULE AddressMap -----------------------------
(***************************************************************************)
(* The address maps of the devices (arch/reg/address_map.hpp of F1 and     *)
(* F4): the name of the register at each address, which the simulation's   *)
(* register dump prints.  A map is a set of blocks of consecutive          *)
(* registers; the name of a gap in a block is "".  CAN, DMA, Ethernet,     *)
(* USB and the other peripherals this code has no registers of are left    *)
(* out.                                                                    *)
(***************************************************************************)
EXTENDS PeripheralsCommon

Block(p, page, offset, names) == [p |-> p, at |-> Address(page, offset), names |-> names]

Names(name, n) == [i \in 1 .. n |-> name \o ToString(i - 1)]

TIM_layout ==
  <<"CR1", "CR2", "SMCR", "DIER", "SR", "EGR", "CCMR1", "CCMR2", "CCER", "CNT", "PSC",
    "ARR", "", "CCR1", "CCR2", "CCR3", "CCR4", "", "DCR", "DMAR">>
TIM_layout_basic == <<"CR1", "CR2", "", "DIER", "SR", "EGR", "", "", "", "CNT", "PSC", "ARR">>
RTC_layout == <<"CRH", "CRL", "PRLH", "PRLL", "DIVH", "DIVL", "CNTH", "CNTL", "ALRH", "ALRL">>
WWDG_layout == <<"CR", "CFR", "SR">>
IWDG_layout == <<"KR", "PR", "RLR", "SR">>
SPI_layout == <<"CR1", "CR2", "SR", "DR", "CRCPR", "RXCRCR", "TXCRCR", "I2SCFGR", "I2SPR">>
USART_layout == <<"SR", "DR", "BRR", "CR1", "CR2", "CR3", "GTPR">>
UART_layout == <<"SR", "DR", "BRR", "CR1", "CR2", "CR3">>
I2C_layout == <<"CR1", "CR2", "OAR1", "OAR2", "DR", "SR1", "SR2", "CCR", "TRISE">>
PWR_layout == <<"CR", "CSR">>
DAC_layout ==
  <<"CR", "SWTRIGR", "DHR12R1", "DHR12L1", "DHR8R1", "DHR12R2", "DHR12L2", "DHR8R2",
    "DHR12RD", "DHR12LD", "DHR8RD", "DOR1", "DOR2">>
AFIO_layout == <<"EVCR", "MAPR", "EXTICR1", "EXTICR2", "EXTICR3", "EXTICR4", "", "MAPR2">>
EXTI_layout == <<"IMR", "EMR", "RTSR", "FTSR", "SWIER", "PR">>
GPIO_layout == <<"CRL", "CRH", "IDR", "ODR", "BSRR", "BRR", "LCKR">>
ADC_layout ==
  <<"SR", "CR1", "CR2", "SMPR1", "SMPR2", "JOFR1", "JOFR2", "JOFR3", "JOFR4", "HTR", "LTR",
    "SQR1", "SQR2", "SQR3", "JSQR", "JDR1", "JDR2", "JDR3", "JDR4", "DR">>
TIM_layout_advanced ==
  <<"CR1", "CR2", "SMCR", "DIER", "SR", "EGR", "CCMR1", "CCMR2", "CCER", "CNT", "PSC",
    "ARR", "RCR", "CCR1", "CCR2", "CCR3", "CCR4", "BDTR", "DCR", "DMAR">>
RCC_layout ==
  <<"CR", "CFGR", "CIR", "APB2RSTR", "APB1RSTR", "AHBENR", "APB2ENR", "APB1ENR", "BDCR",
    "CSR", "AHBRSTR", "CFGR2">>
FLASH_layout == <<"ACR", "KEYR", "OPTKEYR", "SR", "CR", "AR", "", "OBR", "WRPR">>
CRC_layout == <<"DR", "IDR", "CR">>
TIM_layout_or ==
  <<"CR1", "CR2", "SMCR", "DIER", "SR", "EGR", "CCMR1", "CCMR2", "CCER", "CNT", "PSC",
    "ARR", "", "CCR1", "CCR2", "CCR3", "CCR4", "", "DCR", "DMAR", "OR">>
TIM_layout_2ch ==
  <<"CR1", "CR2", "SMCR", "DIER", "SR", "EGR", "CCMR1", "", "CCER", "CNT", "PSC", "ARR", "",
    "CCR1", "CCR2">>
TIM_layout_1ch ==
  <<"CR1", "", "", "DIER", "SR", "EGR", "CCMR1", "", "CCER", "CNT", "PSC", "ARR", "",
    "CCR1">>
RTC_layout_F4 ==
  <<"TR", "DR", "CR", "ISR", "PRER", "WUTR", "CALIBR", "ALRMAR", "ALRMBR", "WPR", "SSR",
    "SHIFTR", "TSTR", "TSDR", "TSSSR", "CALR", "TAFCR", "ALRMASSR", "ALRMBSSR", "", "BKP0R",
    "BKP1R", "BKP2R", "BKP3R", "BKP4R", "BKP5R", "BKP6R", "BKP7R", "BKP8R", "BKP9R",
    "BKP10R", "BKP11R", "BKP12R", "BKP13R", "BKP14R", "BKP15R", "BKP16R", "BKP17R",
    "BKP18R", "BKP19R">>
DAC_layout_F4 ==
  <<"CR", "SWTRIGR", "DHR12R1", "DHR12L1", "DHR8R1", "DHR12R2", "DHR12L2", "DHR8R2",
    "DHR12RD", "DHR12LD", "DHR8RD", "DOR1", "DOR2", "SR">>
SYSCFG_layout == <<"MEMRM", "PMC", "EXTICR1", "EXTICR2", "EXTICR3", "EXTICR4", "", "", "CMPCR">>
GPIO_layout_F4 == <<"MODER", "OTYPER", "OSPEEDR", "PUPDR", "IDR", "ODR", "BSRR", "LCKR", "AFRL", "AFRH">>
RCC_layout_F4 ==
  <<"CR", "PLLCFGR", "CFGR", "CIR", "AHB1RSTR", "AHB2RSTR", "AHB3RSTR", "", "APB1RSTR",
    "APB2RSTR", "", "", "AHB1ENR", "AHB2ENR", "AHB3ENR", "", "APB1ENR", "APB2ENR", "", "",
    "AHB1LPENR", "AHB2LPENR", "AHB3LPENR", "", "APB1LPENR", "APB2LPENR", "", "", "BDCR",
    "CSR", "", "", "SSCGR", "PLLI2SCFGR">>

F1_timers ==
  {Block("TIM2", \h4000, \h0000, TIM_layout),
   Block("TIM3", \h4000, \h0400, TIM_layout),
   Block("TIM4", \h4000, \h0800, TIM_layout),
   Block("TIM5", \h4000, \h0C00, TIM_layout),
   Block("TIM6", \h4000, \h1000, TIM_layout_basic),
   Block("TIM7", \h4000, \h1400, TIM_layout_basic)}

F1_apb1 ==
  {Block("RTC", \h4000, \h2800, RTC_layout),
   Block("WWDG", \h4000, \h2C00, WWDG_layout),
   Block("IWDG", \h4000, \h3000, IWDG_layout),
   Block("SPI2", \h4000, \h3800, SPI_layout),
   Block("SPI3", \h4000, \h3C00, SPI_layout),
   Block("USART2", \h4000, \h4400, USART_layout),
   Block("USART3", \h4000, \h4800, USART_layout),
   Block("UART4", \h4000, \h4C00, UART_layout),
   Block("UART5", \h4000, \h5000, UART_layout),
   Block("I2C1", \h4000, \h5400, I2C_layout),
   Block("I2C2", \h4000, \h5800, I2C_layout)}

F1_misc ==
  {Block("PWR", \h4000, \h7000, PWR_layout),
   Block("DAC", \h4000, \h7400, DAC_layout),
   Block("AFIO", \h4001, \h0000, AFIO_layout),
   Block("EXTI", \h4001, \h0400, EXTI_layout)}

F1_ports ==
  {Block("GPIOA", \h4001, \h0800, GPIO_layout),
   Block("GPIOB", \h4001, \h0C00, GPIO_layout),
   Block("GPIOC", \h4001, \h1000, GPIO_layout),
   Block("GPIOD", \h4001, \h1400, GPIO_layout),
   Block("GPIOE", \h4001, \h1800, GPIO_layout)}

F1_apb2 ==
  {Block("ADC1", \h4001, \h2400, ADC_layout),
   Block("ADC2", \h4001, \h2800, ADC_layout),
   Block("TIM1", \h4001, \h2C00, TIM_layout_advanced),
   Block("SPI1", \h4001, \h3000, SPI_layout),
   Block("USART1", \h4001, \h3800, USART_layout)}

F1_ahb ==
  {Block("RCC", \h4002, \h1000, RCC_layout),
   Block("FLASH", \h4002, \h2000, FLASH_layout),
   Block("CRC", \h4002, \h3000, CRC_layout)}

F1_core ==
  {Block("NVIC", \hE000, \hE004, <<"ICTR">>),
   Block("NVIC", \hE000, \hE100, Names("ISER", 3)),
   Block("NVIC", \hE000, \hE180, Names("ICER", 3)),
   Block("NVIC", \hE000, \hE200, Names("ISPR", 3)),
   Block("NVIC", \hE000, \hE280, Names("ICPR", 3)),
   Block("NVIC", \hE000, \hE300, Names("IABR", 3)),
   Block("NVIC", \hE000, \hE400, Names("IPR", 17)),
   Block("NVIC", \hE000, \hEF00, <<"STIR">>),
   Block("DBG", \hE004, \h2000, <<"IDCODE", "CR">>)}

F4_timers ==
  {Block("TIM2", \h4000, \h0000, TIM_layout_or),
   Block("TIM3", \h4000, \h0400, TIM_layout),
   Block("TIM4", \h4000, \h0800, TIM_layout),
   Block("TIM5", \h4000, \h0C00, TIM_layout_or),
   Block("TIM6", \h4000, \h1000, TIM_layout_basic),
   Block("TIM7", \h4000, \h1400, TIM_layout_basic),
   Block("TIM12", \h4000, \h1800, TIM_layout_2ch),
   Block("TIM13", \h4000, \h1C00, TIM_layout_1ch),
   Block("TIM14", \h4000, \h2000, TIM_layout_1ch)}

F4_apb1 ==
  {Block("RTC", \h4000, \h2800, RTC_layout_F4),
   Block("WWDG", \h4000, \h2C00, WWDG_layout),
   Block("IWDG", \h4000, \h3000, IWDG_layout),
   Block("I2S2ext", \h4000, \h3400, SPI_layout),
   Block("SPI2", \h4000, \h3800, SPI_layout),
   Block("SPI3", \h4000, \h3C00, SPI_layout),
   Block("I2S3ext", \h4000, \h4000, SPI_layout),
   Block("USART2", \h4000, \h4400, USART_layout),
   Block("USART3", \h4000, \h4800, USART_layout),
   Block("UART4", \h4000, \h4C00, UART_layout),
   Block("UART5", \h4000, \h5000, UART_layout),
   Block("I2C1", \h4000, \h5400, I2C_layout),
   Block("I2C2", \h4000, \h5800, I2C_layout),
   Block("I2C3", \h4000, \h5C00, I2C_layout)}

F4_misc ==
  {Block("PWR", \h4000, \h7000, PWR_layout),
   Block("DAC", \h4000, \h7400, DAC_layout_F4)}

F4_apb2 ==
  {Block("TIM1", \h4001, \h0000, TIM_layout_advanced),
   Block("TIM8", \h4001, \h0400, TIM_layout_advanced),
   Block("USART1", \h4001, \h1000, USART_layout),
   Block("USART6", \h4001, \h1400, USART_layout)}

F4_adc ==
  {Block("ADC1", \h4001, \h2000, ADC_layout),
   Block("ADC2", \h4001, \h2100, ADC_layout),
   Block("ADC3", \h4001, \h2200, ADC_layout),
   Block("C_ADC", \h4001, \h2300, <<"CSR", "CCR", "CDR">>)}

F4_apb2s ==
  {Block("SPI1", \h4001, \h3000, SPI_layout),
   Block("SYSCFG", \h4001, \h3800, SYSCFG_layout),
   Block("EXTI", \h4001, \h3C00, EXTI_layout),
   Block("TIM9", \h4001, \h4000, TIM_layout_2ch),
   Block("TIM10", \h4001, \h4400, TIM_layout_1ch),
   Block("TIM11", \h4001, \h4800, TIM_layout_1ch),
   Block("TIM11", \h4001, \h4850, <<"OR">>)}

F4_ports ==
  {Block("GPIOA", \h4002, \h0000, GPIO_layout_F4),
   Block("GPIOB", \h4002, \h0400, GPIO_layout_F4),
   Block("GPIOC", \h4002, \h0800, GPIO_layout_F4),
   Block("GPIOD", \h4002, \h0C00, GPIO_layout_F4),
   Block("GPIOE", \h4002, \h1000, GPIO_layout_F4),
   Block("GPIOF", \h4002, \h1400, GPIO_layout_F4),
   Block("GPIOG", \h4002, \h1800, GPIO_layout_F4),
   Block("GPIOH", \h4002, \h1C00, GPIO_layout_F4),
   Block("GPIOI", \h4002, \h2000, GPIO_layout_F4)}

F4_ahb ==
  {Block("CRC", \h4002, \h3000, CRC_layout),
   Block("RCC", \h4002, \h3800, RCC_layout_F4),
   Block("FLASH", \h4002, \h3C00, <<"ACR", "KEYR", "OPTKEYR", "SR", "CR", "OPTCR">>)}

F4_core ==
  {Block("NVIC", \hE000, \hE004, <<"ICTR">>),
   Block("NVIC", \hE000, \hE100, Names("ISER", 3)),
   Block("NVIC", \hE000, \hE180, Names("ICER", 3)),
   Block("NVIC", \hE000, \hE200, Names("ISPR", 3)),
   Block("NVIC", \hE000, \hE280, Names("ICPR", 3)),
   Block("NVIC", \hE000, \hE300, Names("IABR", 3)),
   Block("NVIC", \hE000, \hE400, Names("IPR", 21)),
   Block("NVIC", \hE000, \hEF00, <<"STIR">>),
   Block("DBG", \hE004, \h2000,
         <<"DBGMCU_IDCODE", "DBGMCU_CR", "DBGMCU_APB1_FZ", "DBGMCU_APB2_FZ">>)}

\* The registers <<peripheral, register>> with the name at an address, and
\* where a register is.
NamesAt(map, a) ==
  {<<b.p, b.names[a - b.at + 1]>> :
     b \in {b \in map : a \in b.at .. b.at + Len(b.names) - 1 /\ b.names[a - b.at + 1] # ""}}
AddressesOf(map, r) ==
  UNION {{b.at + i - 1 : i \in {i \in DOMAIN b.names : b.names[i] = r[2]}} :
           b \in {b \in map : b.p = r[1]}}

F1_map == F1_timers \cup F1_apb1 \cup F1_misc \cup F1_ports \cup F1_apb2 \cup F1_ahb
            \cup F1_core
F4_map == F4_timers \cup F4_apb1 \cup F4_misc \cup F4_apb2 \cup F4_adc \cup F4_apb2s \cup F4_ports
            \cup F4_ahb \cup F4_core
=============================================================================
