---------------------------- MODULE MCRegisters ----------------------------
(***************************************************************************)
(* Two registers of two bits: A in the bit-band region, C outside it, bit  *)
(* 1 of which no mask covers; lists of up to three elements, the first     *)
(* ones in a nested list, with a void and an element that is no regmask;   *)
(* an interrupt that sets a bit of A or the bit of C no mask covers.       *)
(***************************************************************************)
EXTENDS Registers

CONSTANTS A, C

MCRegs == {A, C}
MCBits == {0, 1}
MCResetValue == (A :> {}) @@ (C :> {0})
MCMasks == {e \in RegMasks : e.reg = C => 1 \notin e.clear_mask}
Handler == [reg |-> NoReg, set_mask |-> {}, clear_mask |-> {}]
MCRawLists ==
  {<<>>, <<<<>>>>}
    \cup {<<<<>>, <<e, Handler>>>> : e \in MCMasks}
    \cup {<<<<e>>, <<>>, <<f>>>> : e, f \in MCMasks}
    \cup {<<<<e, f>>, <<Handler>>, <<>>, <<g>>>> : e, f, g \in MCMasks}
MCStrictRegs == <<A>>
MCStartValues == {[r \in Regs |-> {}], [r \in Regs |-> Bits]}
MCInterruptBits == {<<A, 0>>, <<A, 1>>, <<C, 1>>}
=============================================================================
