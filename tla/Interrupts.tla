----------------------------- MODULE Interrupts -----------------------------
(***************************************************************************)
(* The interrupts of the devices (arch/nvic.hpp of F1 and F4, common       *)
(* nvic.hpp) and the vector table computed from the irq_handler<> of a     *)
(* type list (vector_table.hpp, isr.hpp).                                  *)
(***************************************************************************)
EXTENDS Integers, Sequences, FiniteSets, TLC

\* Names of consecutive channels.
From(first, names) == [n \in first .. first + Len(names) - 1 |-> names[n - first + 1]]

\* Some channels of a device: all but those of a set.
Without(channels, ns) == [n \in DOMAIN channels \ ns |-> channels[n]]

\* Device families of the F1: channels all have, and those of each.
F1_common ==
  From(0,
     <<"wwdg", "pvd", "tamper", "rtc", "flash", "rcc", "exti0", "exti1",
       "exti2", "exti3", "exti4", "dma1_channel1", "dma1_channel2",
       "dma1_channel3", "dma1_channel4", "dma1_channel5", "dma1_channel6",
       "dma1_channel7">>)

F1_MD ==
  From(18,
     <<"adc1_2", "usb_hp_can1_tx", "usb_lp_can1_rx0", "can1_rx1", "can1_sce",
       "exti9_5", "tim1_brk", "tim1_up", "tim1_trg_com", "tim1_cc", "tim2",
       "tim3", "tim4", "i2c1_ev", "i2c1_er", "i2c2_ev", "i2c2_er", "spi1",
       "spi2", "usart1", "usart2", "usart3", "exti15_10", "rtc_alarm",
       "usb_wakeup">>)

\* The low density devices lack some peripherals.
LowDensity == {30, 33, 34, 36, 39}
F1_LD == Without(F1_MD, LowDensity)

ValueLine ==
  From(24, <<"tim1_brk_tim15", "tim1_up_tim16", "tim1_trg_com_tim17">>)
    @@ (18 :> "adc1" @@ 42 :> "cec" @@ 54 :> "tim6_dac" @@ 55 :> "tim7")
F1_MD_VL == ValueLine @@ Without(F1_MD, 19 .. 22)
F1_LD_VL == ValueLine @@ Without(F1_LD, 19 .. 22)

F1_HD ==
  F1_MD @@ From(43,
     <<"tim8_brk", "tim8_up", "tim8_trg_com", "tim8_cc", "adc3", "fsmc",
       "sdio", "tim5", "spi3", "uart4", "uart5", "tim6", "tim7",
       "dma2_channel1", "dma2_channel2", "dma2_channel3", "dma2_channel4_5">>)

F1_XL ==
  From(24, <<"tim1_brk_tim9", "tim1_up_tim10", "tim1_trg_com_tim11">>)
    @@ From(43, <<"tim8_brk_tim12", "tim8_up_tim13", "tim8_trg_com_tim14">>) @@ F1_HD

F1_CL ==
  (19 :> "can1_tx" @@ 20 :> "can1_rx0" @@ 42 :> "otg_fs_wkup") @@ F1_MD
  @@ From(50,
     <<"tim5", "spi3", "uart4", "uart5", "tim6", "tim7", "dma2_channel1",
       "dma2_channel2", "dma2_channel3", "dma2_channel4", "dma2_channel5",
       "eth", "eth_wkup", "can2_tx", "can2_rx0", "can2_rx1", "can2_sce",
       "otg_fs">>)

F4_channels ==
  From(0,
     <<"wwdg", "pvd", "tamp_stamp", "rtc_wkup", "flash", "rcc", "exti0",
       "exti1", "exti2", "exti3", "exti4", "dma1_stream0", "dma1_stream1",
       "dma1_stream2", "dma1_stream3", "dma1_stream4", "dma1_stream5",
       "dma1_stream6", "adc", "can1_tx", "can1_rx0", "can1_rx1", "can1_sce",
       "exti9_5", "tim1_brk_tim9", "tim1_up_tim10", "tim1_trg_com_tim11",
       "tim1_cc", "tim2", "tim3", "tim4", "i2c1_ev", "i2c1_er", "i2c2_ev",
       "i2c2_er", "spi1", "spi2", "usart1", "usart2", "usart3", "exti15_10",
       "rtc_alarm", "otg_fs_wkup", "tim8_brk_tim12", "tim8_up_tim13",
       "tim8_trg_com_tim14", "tim8_cc", "dma1_stream7", "fsmc", "sdio",
       "tim5", "spi3", "uart4", "uart5", "tim6_dac", "tim7", "dma2_stream0",
       "dma2_stream1", "dma2_stream2", "dma2_stream3", "dma2_stream4", "eth",
       "eth_wkup", "can2_tx", "can2_rx0", "can2_rx1", "can2_sce", "otg_fs",
       "dma2_stream5", "dma2_stream6", "dma2_stream7", "usart6", "i2c3_ev",
       "i2c3_er", "otg_hs_ep1_out", "otg_hs_ep1_in", "otg_hs_wkup", "otg_hs",
       "dcmi", "cryp", "hash_rng", "fpu">>)

\* Each device's channels and numof_interrupt_channels.
Devices ==
  [STM32F10X_LD |-> [channels |-> F1_common @@ F1_LD, numof |-> 43],
   STM32F10X_LD_VL |-> [channels |-> F1_common @@ F1_LD_VL, numof |-> 56],
   STM32F10X_MD |-> [channels |-> F1_common @@ F1_MD, numof |-> 43],
   STM32F10X_MD_VL |-> [channels |-> F1_common @@ F1_MD_VL, numof |-> 56],
   STM32F10X_HD |-> [channels |-> F1_common @@ F1_HD, numof |-> 60],
   STM32F10X_XL |-> [channels |-> F1_common @@ F1_XL, numof |-> 60],
   STM32F10X_CL |-> [channels |-> F1_common @@ F1_CL, numof |-> 68],
   STM32F4XX |-> [channels |-> F4_channels, numof |-> 82]]

\* The core exceptions of common/nvic.hpp.
core_exception ==
  [reset |-> -15, nmi |-> -14, hard_fault |-> -13, memory_management |-> -12,
   bus_fault |-> -11, usage_fault |-> -10, sv_call |-> -5, debug_monitor |-> -4,
   pend_sv |-> -2, systick |-> -1]

reserved_irqn(n) == n \in {-3, -6, -7, -8, -9}

\* irqn of an interrupt of a device, by its name.
irqn(d, name) ==
  IF name \in DOMAIN core_exception THEN core_exception[name]
  ELSE CHOOSE n \in DOMAIN Devices[d].channels : Devices[d].channels[n] = name

\* irq_channel: the register of an array and the bit in it.
reg_index(n) == n \div 32
irq_bit(n) == n % 32

\* irqn_list: the handlers of a list with this number.
irqn_list(handlers, n) == {h \in handlers : h.irqn = n}

\* unique_irq_handler asserts that no number has two.
unique_irq_handlers(handlers) == \A h \in handlers : irqn_list(handlers, h.irqn) = {h}

\* What the table has for a number.
irq_handler_type(handlers, n, default) ==
  IF reserved_irqn(n) \/ irqn_list(handlers, n) = {} THEN default
  ELSE (CHOOSE h \in irqn_list(handlers, n) : TRUE).isr

\* Mutant: the table is one entry off.
make_vector_tableOff(d, handlers, default) ==
  [i \in 1 .. Devices[d].numof - core_exception.reset |->
     irq_handler_type(handlers, i + core_exception.reset, default)]

\* make_vector_table: isr_vector[], which the stack pointer precedes.
make_vector_table(d, handlers, default) ==
  [i \in 1 .. Devices[d].numof - core_exception.reset |->
     irq_handler_type(handlers, (i - 1) + core_exception.reset, default)]
=============================================================================
