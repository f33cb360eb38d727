------------------------- MODULE PeripheralsCommon --------------------------
(***************************************************************************)
(* The registers of the core (cortex/common/reg) and of the peripherals    *)
(* both device families have (stm32/common/reg): the offset of each in its *)
(* peripheral (of the core, in page E000), its value after a reset, and    *)
(* its bit fields.  A value and a field are sets of bits.                  *)
(***************************************************************************)
EXTENDS Integers, Sequences, TLC

\* reg<> with its regbits<>.
Reg(at, reset, fields) == [at |-> at, reset |-> reset, fields |-> fields]

\* An array of registers: name0, name1, ...
Indexed(name, first, n) ==
  [r \in {name \o ToString(i) : i \in 0 .. n - 1} |->
     LET i == CHOOSE i \in 0 .. n - 1 : r = name \o ToString(i)
     IN Reg(first + 4 * i, {}, <<>>)]

\* TLC's integers are too short for an address, which is counted in words here.
Address(page, offset) == page * 2 ^ 14 + offset \div 4

\* SCB: the system timer.
SCB_systick ==
  [ACTLR |-> Reg(\hE008, {}, <<>>),
   STCSR |-> Reg(\hE010, {},
      [ENABLE |-> {0}, TICKINT |-> {1}, CLKSOURCE |-> {2}, COUNTFLAG |-> {16}]),
   STRVR |-> Reg(\hE014, {}, [bits |-> 0..23]),
   STCVR |-> Reg(\hE018, {}, [bits |-> 0..23]),
   STCR |-> Reg(\hE01C, {}, [SKEW |-> {30}, NOREF |-> {31}])]

\* SCB: control.
SCB_control ==
  [CPUID |-> Reg(\hED00, {},
      [REVISION |-> 0..3, PARTNO |-> 4..15, Constant |-> 16..19, VARIANT |-> 20..23,
       IMPLEMENTER |-> 24..31]),
   ICSR |-> Reg(\hED04, {},
      [VECTACTIVE |-> 0..8, RETTOBASE |-> {11}, VECTPENDING |-> 12..21, ISRPENDING |-> {22},
       ISRPREEMPT |-> {23}, PENDSTCLR |-> {25}, PENDSTSET |-> {26}, PENDSVCLR |-> {27},
       PENDSVSET |-> {28}, NMIPENDSET |-> {31}]),
   VTOR |-> Reg(\hED08, {}, [TBLOFF |-> 7..28, TBLBASE |-> {29}]),
   AIRCR |-> Reg(\hED0C, {},
      [VECTRESET |-> {0}, VECTCLRACTIVE |-> {1}, SYSRESETREQ |-> {2}, PRIGROUP |-> 8..10,
       ENDIANESS |-> {15}, VECTKEY |-> 16..31]),
   SCR |-> Reg(\hED10, {}, [SLEEPONEXIT |-> {1}, SLEEPDEEP |-> {2}, SEVONPEND |-> {4}]),
   CCR |-> Reg(\hED14, {9},
      [NONBASETHRDENA |-> {0}, USERSETMPEND |-> {1}, UNALIGN_TRP |-> {3}, DIV_0_TRP |-> {4},
       BFHFNMIGN |-> {8}, STKALIGN |-> {9}])]

\* SCB: faults.
SCB_faults ==
  [SHCSR |-> Reg(\hED24, {},
      [MEMFAULTACT |-> {0}, BUSFAULTACT |-> {1}, USGFAULTACT |-> {3}, SVCALLACT |-> {7},
       MONITORACT |-> {8}, PENDSVACT |-> {10}, SYSTICKACT |-> {11}, USGFAULTPENDED |-> {12},
       MEMFAULTPENDED |-> {13}, BUSFAULTPENDED |-> {14}, SVCALLPENDED |-> {15},
       MEMFAULTENA |-> {16}, BUSFAULTENA |-> {17}, USGFAULTENA |-> {18}]),
   CFSR |-> Reg(\hED28, {},
      [IACCVIOL |-> {0}, DACCVIOL |-> {1}, MUNSTKERR |-> {3}, MSTKERR |-> {4},
       IBUSERR |-> {8}, PRECISERR |-> {9}, IMPRECISERR |-> {10},
       UNSTKERR |-> {11}, STKERR |-> {12}, BFARVALID |-> {15}, 
       UNDEFINSTR |-> {16}, INVSTATE |-> {17}, INVPC |-> {18}, NOCP |-> {19},
       UNALIGNED |-> {24}, DIVBYZERO |-> {25}]),
   HFSR |-> Reg(\hED2C, {}, [VECTTBL |-> {1}, FORCED |-> {30}, DEBUGEVT |-> {31}]),
   DFSR |-> Reg(\hED30, {},
      [HALTED |-> {0}, BKPT |-> {1}, DWTTRAP |-> {2}, VCATCH |-> {3}, EXTERNAL |-> {4}]),
   MMFAR |-> Reg(\hED34, {}, <<>>),
   BFAR |-> Reg(\hED38, {}, <<>>),
   AFSR |-> Reg(\hED3C, {}, <<>>)]

\* SCB without its priorities and identification.
SCB_regs == SCB_systick @@ SCB_control @@ SCB_faults

NVIC_regs ==
  Indexed("ISER", \hE100, 3) @@ Indexed("ICER", \hE180, 3) @@ Indexed("ISPR", \hE200, 3)
    @@ Indexed("ICPR", \hE280, 3) @@ Indexed("IABR", \hE300, 3) @@ Indexed("IPR", \hE400, 21)
    @@ [ICTR |-> Reg(\hE004, {}, <<>>)]

\* DWT without its comparators and identification.
DWT_regs ==
  [CTRL |-> Reg(\h1000, {}, <<>>), CYCCNT |-> Reg(\h1004, {}, <<>>),
   CPICNT |-> Reg(\h1008, {}, <<>>), EXCCNT |-> Reg(\h100C, {}, <<>>),
   SLEEPCNT |-> Reg(\h1010, {}, <<>>), LSUCNT |-> Reg(\h1014, {}, <<>>),
   FOLDCNT |-> Reg(\h1018, {}, <<>>), PCSR |-> Reg(\h101C, {}, <<>>)]

DEBUG_regs ==
  [DFSR |-> Reg(\hED30, {}, <<>>),
   DHCSR |-> Reg(\hEDF0, {}, <<>>),
   DCRSR |-> Reg(\hEDF4, {}, <<>>),
   DCRDR |-> Reg(\hEDF8, {}, <<>>),
   DEMCR |-> Reg(\hEDFC, {}, [TRCENA |-> {24}])]

USART_regs ==
  [SR |-> Reg(\h00, 6..7,
      [PE |-> {0}, FE |-> {1}, NE |-> {2}, ORE |-> {3}, IDLE |-> {4}, RXNE |-> {5}, TC |-> {6},
       TXE |-> {7}, LBD |-> {8}, CTS |-> {9}]),
   DR |-> Reg(\h04, {}, [bits |-> 0..8]),
   BRR |-> Reg(\h08, {}, [DIV_Fraction |-> 0..3, DIV_Mantissa |-> 4..15]),
   CR1 |-> Reg(\h0C, {},
      [SBK |-> {0}, RWU |-> {1}, RE |-> {2}, TE |-> {3}, IDLEIE |-> {4}, RXNEIE |-> {5},
       TCIE |-> {6}, TXEIE |-> {7}, PEIE |-> {8}, PS |-> {9}, PCE |-> {10}, WAKE |-> {11},
       M |-> {12}, UE |-> {13}]),
   CR2 |-> Reg(\h10, {},
      [ADD |-> 0..3, LBDL |-> {5}, LBDIE |-> {6}, LBCL |-> {8}, CPHA |-> {9}, CPOL |-> {10},
       CLKEN |-> {11}, STOP |-> 12..13, LINEN |-> {14}]),
   CR3 |-> Reg(\h14, {},
      [EIE |-> {0}, IREN |-> {1}, IRLP |-> {2}, HDSEL |-> {3}, NACK |-> {4}, SCEN |-> {5},
       DMAR |-> {6}, DMAT |-> {7}, RTSE |-> {8}, CTSE |-> {9}, CTSIE |-> {10}]),
   GTPR |-> Reg(\h18, {}, [PSC |-> 0..7, GT |-> 8..15])]

\* USART_common_ext.
USART_ext_regs ==
  [USART_regs EXCEPT !.CR1.fields = @ @@ [OVER8 |-> {15}], !.CR3.fields = @ @@ [ONEBIT |-> {11}]]

SPI_regs ==
  [CR1 |-> Reg(\h00, {},
      [CPHA |-> {0}, CPOL |-> {1}, MSTR |-> {2}, BR |-> 3..5, SPE |-> {6}, LSBFIRST |-> {7},
       SSI |-> {8}, SSM |-> {9}, RXONLY |-> {10}, DFF |-> {11}, CRCNEXT |-> {12},
       CRCEN |-> {13}, BIDIOE |-> {14}, BIDIMODE |-> {15}]),
   CR2 |-> Reg(\h04, {},
      [RXDMAEN |-> {0}, TXDMAEN |-> {1}, SSOE |-> {2}, ERRIE |-> {5}, RXNEIE |-> {6},
       TXEIE |-> {7}]),
   SR |-> Reg(\h08, {1},
      [RXNE |-> {0}, TXE |-> {1}, CHSIDE |-> {2}, UDR |-> {3}, CRCERR |-> {4}, MODF |-> {5},
       OVR |-> {6}, BSY |-> {7}]),
   DR |-> Reg(\h0C, {}, <<>>),
   CRCPR |-> Reg(\h10, 0..2, <<>>),
   RXCRCR |-> Reg(\h14, {}, <<>>),
   TXCRCR |-> Reg(\h18, {}, <<>>),
   I2SCFGR |-> Reg(\h1C, {},
      [CHLEN |-> {0}, DATLEN |-> 1..2, CKPOL |-> {3}, I2SSTD |-> 4..5, PCMSYNC |-> {7},
       I2SCFG |-> 8..9, I2SE |-> {10}, I2SMOD |-> {11}]),
   I2SPR |-> Reg(\h20, {3}, [I2SDIV |-> 0..7, ODD |-> {8}, MCKOE |-> {9}])]

\* SPI_Common_Ext.
SPI_ext_regs == [SPI_regs EXCEPT !.CR2.fields = @ @@ [FRF |-> {4}], !.SR.fields = @ @@ [RFE |-> {8}]]

TIM_control ==
  [CR1 |-> Reg(\h0, {},
      [CEN |-> {0}, UDIS |-> {1}, URS |-> {2}, OPM |-> {3}, DIR |-> {4}, CMS |-> 5..6,
       ARPE |-> {7}, CKD |-> 8..9]),
   CR2 |-> Reg(\h4, {},
      [CCPC |-> {0}, CCUS |-> {2}, CCDS |-> {3}, MMS |-> 4..6, TI1S |-> {7}, OIS1 |-> {8},
       OIS1N |-> {9}, OIS2 |-> {10}, OIS2N |-> {11}, OIS3 |-> {12}, OIS3N |-> {13},
       OIS4 |-> {14}]),
   SMCR |-> Reg(\h8, {},
      [SMS |-> 0..2, TS |-> 4..6, MSM |-> {7}, ETF |-> 8..11, ETPS |-> 12..13, ECE |-> {14},
       ETP |-> {15}]),
   DIER |-> Reg(\hC, {},
      [UIE |-> {0}, CC1IE |-> {1}, CC2IE |-> {2}, CC3IE |-> {3}, CC4IE |-> {4}, COMIE |-> {5},
       TIE |-> {6}, BIE |-> {7}, UDE |-> {8}, CC1DE |-> {9}, CC2DE |-> {10}, CC3DE |-> {11},
       CC4DE |-> {12}, COMDE |-> {13}, TDE |-> {14}]),
   SR |-> Reg(\h10, {},
      [UIF |-> {0}, CC1IF |-> {1}, CC2IF |-> {2}, CC3IF |-> {3}, CC4IF |-> {4}, COMIF |-> {5},
       TIF |-> {6}, BIF |-> {7}, CC1OF |-> {9}, CC2OF |-> {10}, CC3OF |-> {11},
       CC4OF |-> {12}]),
   EGR |-> Reg(\h14, {},
      [UG |-> {0}, CC1G |-> {1}, CC2G |-> {2}, CC3G |-> {3}, CC4G |-> {4}, COMG |-> {5},
       TG |-> {6}, BG |-> {7}])]

TIM_compare ==
  [CCMR1_Output |-> Reg(\h18, {},
      [CC1S |-> 0..1, OC1FE |-> {2}, OC1PE |-> {3}, OC1M |-> 4..6, OC1CE |-> {7}, CC2S |-> 8..9,
       OC2FE |-> {10}, OC2PE |-> {11}, OC2M |-> 12..14, OC2CE |-> {15}]),
   CCMR1_Input |-> Reg(\h18, {},
      [CC1S |-> 0..1, IC1PSC |-> 2..3, IC1F |-> 4..7, CC2S |-> 8..9, IC2PSC |-> 10..11,
       IC2F |-> 12..15]),
   CCMR2_Output |-> Reg(\h1C, {},
      [CC3S |-> 0..1, OC3FE |-> {2}, OC3PE |-> {3}, OC3M |-> 4..6, OC3CE |-> {7}, CC4S |-> 8..9,
       OC4FE |-> {10}, OC4PE |-> {11}, OC4M |-> 12..14, OC4CE |-> {15}]),
   CCMR2_Input |-> Reg(\h1C, {},
      [CC3S |-> 0..1, IC3PSC |-> 2..3, IC3F |-> 4..7, CC4S |-> 8..9, IC4PSC |-> 10..11,
       IC4F |-> 12..15]),
   CCER |-> Reg(\h20, {},
      [CC1E |-> {0}, CC1P |-> {1}, CC1NE |-> {2}, CC1NP |-> {3}, CC2E |-> {4}, CC2P |-> {5},
       CC2NE |-> {6}, CC2NP |-> {7}, CC3E |-> {8}, CC3P |-> {9}, CC3NE |-> {10}, CC3NP |-> {11},
       CC4E |-> {12}, CC4P |-> {13}])]

TIM_counter ==
  [CNT |-> Reg(\h24, {}, <<>>),
   PSC |-> Reg(\h28, {}, <<>>),
   ARR |-> Reg(\h2C, {}, <<>>),
   CCR1 |-> Reg(\h34, {}, <<>>),
   CCR2 |-> Reg(\h38, {}, <<>>),
   CCR3 |-> Reg(\h3C, {}, <<>>),
   CCR4 |-> Reg(\h40, {}, <<>>),
   DCR |-> Reg(\h48, {}, [DBA |-> 0..4, DBL |-> 8..12]),
   DMAR |-> Reg(\h4C, {}, <<>>),
   RCR |-> Reg(\h30, {}, [REP |-> 0..7]),
   BDTR |-> Reg(\h44, {},
      [DTG |-> 0..7, LOCK |-> 8..9, OSSI |-> {10}, OSSR |-> {11}, BKE |-> {12}, BKP |-> {13},
       AOE |-> {14}, MOE |-> {15}])]

TIM_regs == TIM_control @@ TIM_compare @@ TIM_counter

CoreAddress == Address(\hE000, 0)
Core == ("SCB" :> [at |-> CoreAddress, regs |-> SCB_regs])
          @@ ("NVIC" :> [at |-> CoreAddress, regs |-> NVIC_regs])
          @@ ("DWT" :> [at |-> CoreAddress, regs |-> DWT_regs])
          @@ ("DEBUG" :> [at |-> CoreAddress, regs |-> DEBUG_regs])
=============================================================================
