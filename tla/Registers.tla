----------------------------- MODULE Registers -----------------------------
(***************************************************************************)
(* reglist (include/register.hpp): what the compiler made of a list is run *)
(* as one register operation after the other, while an interrupt may write *)
(* to a register once.                                                     *)
(***************************************************************************)
EXTENDS RegList

CONSTANTS RawLists,      \* the lists a program is written with
          StrictRegs,    \* the registers strict_reset_to() is given, in order
          StartValues,   \* the values the registers have when the list is run
          InterruptBits  \* the <<register, bit>> an interrupt may set

\* A list has regmasks and elements that are none.
OtherElements == [reg : {NoReg}, set_mask : {{}}, clear_mask : {{}}]
ASSUME RawAssumption == RawLists \subseteq Seq(Seq(RegMasks \cup OtherElements))
ASSUME StrictAssumption == StrictRegs \in Seq(Regs)
ASSUME StartAssumption == StartValues \subseteq [Regs -> SUBSET Bits]
ASSUME InterruptAssumption == InterruptBits \subseteq Regs \X Bits

VARIABLES value,         \* of each register
          op, list, todo,   \* the operation, its list, and what is left to do
          pc, copy,      \* where the register operation is, its copy of the register
          start,         \* history: value at the start
          writes,        \* history: the registers the program wrote to, in order
          isr            \* history: what the interrupt set, or <<>>

vars == <<value, op, list, todo, pc, copy, start, writes, isr>>

-----------------------------------------------------------------------------
\* strict_reset_to<>() puts neutral masks before its list, and runs reset_to().
ListOf(o, l) == IF o = "strict_reset_to" THEN neutrals(StrictRegs) \o l ELSE l

Compiles(o, l) == Asserted(ListOf(o, l)) /\ (o = "strict_reset_to" => all_reg_type(l, StrictRegs))

Init ==
  /\ value \in StartValues /\ start = value
  /\ \E raw \in RawLists : list = make_reglist(raw)
  /\ op \in {"set", "clear", "reset_to", "strict_reset_to"}
  /\ todo = IF Compiles(op, list) THEN unique_merged_list(ListOf(op, list)) ELSE <<>>
  /\ pc = IF Compiles(op, list) THEN "next" ELSE "rejected"
  /\ copy = {} /\ writes = <<>> /\ isr = <<>>

current == Head(todo)
MoreToDo == pc = "next" /\ todo # <<>>

Store(v) == /\ value' = [value EXCEPT ![current.reg] = v]
            /\ writes' = Append(writes, current.reg)
            /\ todo' = Tail(todo) /\ pc' = "next"
            /\ UNCHANGED <<op, list, copy, start, isr>>

\* The store of one value, for a reset.
RegResetTo == MoreToDo /\ op \in {"reset_to", "strict_reset_to"} /\ Store(ValueResetTo(current))

\* Mutant: built with CONFIG_DISABLE_AUTO_BITBAND.
BitOpDisabled == FALSE

\* set() and clear() of one bit, by the bit-band alias.
BitOp == bitop_enabled(current) /\ (op = "clear" \/ (op = "set" /\ current.set_mask = current.clear_mask))
RegBitOp == /\ MoreToDo /\ BitOp
            /\ Store(IF op = "set" THEN ValueSet(value[current.reg], current)
                     ELSE ValueClear(value[current.reg], current))

\* set() and clear() of other masks: a load, later a store; nothing for no bits.
RegNothing == /\ MoreToDo /\ op \in {"set", "clear"} /\ current.clear_mask = {}
              /\ todo' = Tail(todo)
              /\ UNCHANGED <<value, op, list, pc, copy, start, writes, isr>>
RegLoad == /\ MoreToDo /\ op \in {"set", "clear"} /\ ~BitOp /\ current.clear_mask # {}
           /\ copy' = value[current.reg] /\ pc' = "store"
           /\ UNCHANGED <<value, op, list, todo, start, writes, isr>>
RegStore == /\ pc = "store"
            /\ Store(IF op = "set" THEN ValueSet(copy, current) ELSE ValueClear(copy, current))

\* An interrupt runs, once, and sets a bit.
Interrupt ==
  /\ isr = <<>> /\ pc # "rejected"
  /\ \E rb \in InterruptBits :
       /\ value' = [value EXCEPT ![rb[1]] = @ \cup {rb[2]}]
       /\ isr' = rb
  /\ UNCHANGED <<op, list, todo, pc, copy, start, writes>>

Next == RegResetTo \/ RegBitOp \/ RegNothing \/ RegLoad \/ RegStore \/ Interrupt

Spec == Init /\ [][Next]_vars

-----------------------------------------------------------------------------
(* Properties. *)

Done == pc = "next" /\ todo = <<>>
Resets == op \in {"reset_to", "strict_reset_to"}

\* The registers a reset starts from their reset values.
InReset(l, r) ==
  /\ Resets
  /\ \/ \E k \in DOMAIN l : l[k].reg = r
     \/ op = "strict_reset_to" /\ Contains(StrictRegs, r)

\* What is meant by a list: its elements, as written, take effect one by one.
OneByOne(l) ==
  LET result[k \in 0 .. Len(l)] ==
        IF k = 0
        THEN [r \in Regs |-> IF InReset(l, r) THEN ResetValue[r] ELSE start[r]]
        ELSE LET before == result[k - 1]
                 v == before[l[k].reg]
             IN [before EXCEPT ![l[k].reg] =
                   IF op = "clear" THEN ValueClear(v, l[k]) ELSE ValueSet(v, l[k])]
  IN result[Len(l)]

\* Running the merged list does what the list says, whatever its order.
ListApplied ==
  Done /\ isr = <<>> =>
    \A p \in [DOMAIN list -> DOMAIN list] :
      (\A j, k \in DOMAIN list : p[j] = p[k] => j = k)
        => value = OneByOne([k \in DOMAIN list |-> list[p[k]]])

\* The compiler rejects a list if, and only if, two of its elements want the
\* same bit to be different; merged masks and right-to-left merging hide none.
Contradictory(l) ==
  \E j, k \in DOMAIN l :
    /\ l[j].reg = l[k].reg
    /\ l[j].set_mask \cap (l[k].clear_mask \ l[k].set_mask) # {}
RejectedIfContradictory ==
  pc = "rejected" <=> \/ Contradictory(list)
                      \/ op = "strict_reset_to" /\ ~all_reg_type(list, StrictRegs)

\* "This results in a single write": a reset writes each register once, so
\* that no register holds an intermediate value on the way.
OneWritePerRegister ==
  Resets => \A j, k \in DOMAIN writes : writes[j] = writes[k] => j = k

\* test() tells whether a mask is in effect, however it is computed; but of a
\* mask of several bits that are all to be one, whether some bit is one.
TestMeansHolds ==
  \A e \in RegMasks :
    e.clear_mask # {} =>
      (test(e, value[e.reg]) <=>
         IF e.set_mask = e.clear_mask THEN value[e.reg] \cap e.set_mask # {}
         ELSE Holds(e, value[e.reg]))

\* A bit an interrupt sets is not lost to a bit-band write of another bit of
\* its register, as it may be to a load and a store.
BitBandKeepsBits ==
  LET l == unique_merged_list(list)
      OneBit(e) == bitop_enabled(e) /\ (op = "clear" \/ e.set_mask = e.clear_mask)
  IN Done /\ isr # <<>> /\ ~Resets
       /\ (\A k \in DOMAIN l : l[k].reg = isr[1] => OneBit(l[k]) /\ isr[2] \notin l[k].clear_mask)
     => isr[2] \in value[isr[1]]
=============================================================================
