------------------------------ MODULE RegMask ------------------------------
(***************************************************************************)
(* The register classes of include/register.hpp: reg, regmask, regbits and *)
(* regval.  A register's value is the set of the bits that are one.  The   *)
(* masks are types in the code, and everything here is computed by the     *)
(* compiler but the loads and stores.                                      *)
(***************************************************************************)
EXTENDS Naturals

CONSTANTS Regs,         \* registers
          Bits,         \* bit numbers of a register
          ResetValue,   \* reg::reset_value of each register
          BitBand       \* the registers in the bit-band region

ASSUME ResetValueAssumption == ResetValue \in [Regs -> SUBSET Bits]
ASSUME BitBandAssumption == BitBand \subseteq Regs

\* regmask: the bits to be set, and the bits covered, which contain those.
RegMasks == {m \in [reg : Regs, set_mask : SUBSET Bits, clear_mask : SUBSET Bits] :
               m.set_mask \subseteq m.clear_mask}

neutral_regmask(r) == [reg |-> r, set_mask |-> {}, clear_mask |-> {}]

cropped_clear_mask(m) == m.clear_mask \ m.set_mask

\* The mask has one bit, and its register is in the bit-band region.
bitop_enabled(m) == m.reg \in BitBand /\ \E b \in Bits : m.clear_mask = {b}

\* The assertions of regmask::merge.
Mergeable(m, rm) ==
  /\ m.reg = rm.reg
  /\ rm.set_mask \cap m.clear_mask \subseteq m.set_mask     \* setting a bit previously cleared
  /\ m.set_mask \cap rm.clear_mask \subseteq rm.set_mask    \* clearing a bit previously set

\* Mutant: the bits to be set are those of the second one.
mergeLast(m, rm) == [reg |-> m.reg, set_mask |-> rm.set_mask,
                     clear_mask |-> m.clear_mask \cup rm.clear_mask]

merge(m, rm) == [reg |-> m.reg,
                 set_mask |-> m.set_mask \cup rm.set_mask,
                 clear_mask |-> m.clear_mask \cup rm.clear_mask]

\* What a register holding v is given by reg::set() with the two masks, by
\* reg::clear() and by reset_to().
ValueSet(v, m) == (v \ cropped_clear_mask(m)) \cup m.set_mask
ValueClear(v, m) == v \ m.clear_mask
ValueResetTo(m) == ValueSet(ResetValue[m.reg], m)

\* Mutant: a cleared single bit is tested as if it were to be set.
testBitOnly(m, v) ==
  IF bitop_enabled(m) THEN v \cap m.clear_mask # {} ELSE v \cap m.clear_mask = m.set_mask

\* regmask::test() of a register holding v.
test(m, v) ==
  IF m.clear_mask = {} THEN FALSE
  ELSE IF bitop_enabled(m) THEN (m.set_mask = {}) <=> (v \cap m.clear_mask = {})
  ELSE IF m.clear_mask = m.set_mask THEN v \cap m.clear_mask # {}
  ELSE v \cap m.clear_mask = m.set_mask

\* The mask is in effect: each bit it covers is as it says.
Holds(m, v) == v \cap m.clear_mask = m.set_mask
=============================================================================
