----------------------------- MODULE Resources ------------------------------
(***************************************************************************)
(* The configuration traits both device families have: register masks and  *)
(* interrupt handlers, which the drivers put into the lists called         *)
(* resources.  A register is named by the pair of its peripheral and its   *)
(* own name.                                                               *)
(***************************************************************************)
EXTENDS Integers, Sequences, FiniteSetsExt

\* regval<field, value> and regbits<>, whose bits are all to be set.
regval(p, r, f, v) == [reg |-> <<p, r>>, field |-> f, value |-> v]
regbits(p, r, f) == regval(p, r, f, -1)

\* A regval<> of bits that the code computes, as those of a pin.
regval_at(p, r, bits, v) == [reg |-> <<p, r>>, bits |-> bits, value |-> v]

\* regmask: the value at the field's place, which the table of registers has.
Mask(tables, e) ==
  LET field == IF "bits" \in DOMAIN e THEN e.bits
               ELSE tables[e.reg[1]].regs[e.reg[2]].fields[e.field]
  IN [reg |-> e.reg, clear_mask |-> field,
      set_mask |-> {b \in field : (e.value \div 2 ^ (b - Min(field))) % 2 = 1}]

\* irq_handler<>: an element of lists that is no register mask.
irq_handler(n, isr) == [reg |-> <<>>, irqn |-> n, isr |-> isr]

handlers(l) == {l[k] : k \in {k \in DOMAIN l : l[k].reg = <<>>}}
Masks(tables, l) ==
  LET regs == SelectSeq(l, LAMBDA e : e.reg # <<>>)
  IN [k \in DOMAIN regs |-> Mask(tables, regs[k])]

\* systick_clock::external: HCLK/8, frequencies in Hz.
systick_external(hclk_freq, freq) ==
  <<regval("SCB", "STCSR", "CLKSOURCE", 0),
    regval("SCB", "STRVR", "bits", hclk_freq \div (freq * 8))>>

\* Mutant: the fraction is not rounded and counts hundredths.
baud_rateHundredths(p, pclk, value) ==
  LET div == (pclk * 25) \div (4 * value)
  IN <<regval(p, "BRR", "DIV_Mantissa", div \div 100), regval(p, "BRR", "DIV_Fraction", div % 100)>>

\* usart::baud_rate<>: the divisor as a mantissa and sixteenths.
baud_rate(p, pclk, value) ==
  LET div == (pclk * 25) \div (4 * value)
      mant == div \div 100
      fraq == ((div - mant * 100) * 16 + 50) \div 100
  IN <<regval(p, "BRR", "DIV_Mantissa", mant), regval(p, "BRR", "DIV_Fraction", fraq)>>

\* usart_cfg of both projects.
usart_cfg(p, pclk) ==
  baud_rate(p, pclk, 115200) \o <<regval(p, "CR1", "RE", 1), regval(p, "CR1", "TE", 1)>>
=============================================================================
