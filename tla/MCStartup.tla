----------------------------- MODULE MCStartup ------------------------------
(***************************************************************************)
(* The start of the three programs, with the registers and fields they     *)
(* use.  The code takes a register's address from the headers; the device  *)
(* has the register where the address map of the repository, generated     *)
(* from the vendor's description, names it.                                *)
(***************************************************************************)
EXTENDS StartupPlan, Programs, SequencesExt

P1 == INSTANCE PeripheralsF1
P4 == INSTANCE PeripheralsF4
Map == INSTANCE AddressMap

\* Registers the operations access.
Accessed(code) ==
  {code[k].m.reg : k \in {k \in DOMAIN code : code[k].do # "reached"}}

\* A program with its device: regs are registers it uses, t the tables of the
\* code, map the device's.  A register without a name in the map is taken to be
\* where the code has it.
CodeAt(regs, t) ==
  [r \in regs |-> t[r[1]].at + t[r[1]].regs[r[2]].at \div 4]
DeviceAt(codeAt, map) ==
  [r \in DOMAIN codeAt |-> LET named == Map!AddressesOf(map, r)
                           IN IF named = {} THEN codeAt[r] ELSE CHOOSE a \in named : TRUE]
Inverted(f) == [a \in {f[r] : r \in DOMAIN f} |-> CHOOSE r \in DOMAIN f : f[r] = a]
Placed(codeAt, deviceAt) ==
  [codeAt |-> codeAt, deviceAt |-> deviceAt, registerAt |-> Inverted(deviceAt)]
WithRegisters(b, code, regs, t, map) ==
  b @@ [code |-> code, handlers |-> vector_table(b), resources |-> F1!Masks(t, resources(b)),
        resets |-> [r \in regs |-> t[r[1]].regs[r[2]].reset],
        fields |-> [r \in regs |-> t[r[1]].regs[r[2]].fields]]
    @@ Placed(CodeAt(regs, t), DeviceAt(CodeAt(regs, t), map))
WithCode(b, code, t, map) == WithRegisters(b, code, Accessed(code) \cup Needed(b), t, map)
Machine(b, t, map) == WithCode(b, CompiledCode(t, Code(b)), t, map)

F1_tables == P1!Peripherals
F4_tables == P4!Peripherals
MCProgramSet == {IF IsF4Device(b) THEN Machine(b, F4_tables, Map!F4_map)
                              ELSE Machine(b, F1_tables, Map!F1_map) : b \in Builds}

\* Their plans, one registers after the other.
PlanOf(b) ==
  FoldLeft(LAMBDA ms, op : Append(ms, Ahead(b, ms[Len(ms)], op)),
           <<AfterReset(b) @@ <<>>>>, b.code)
Key(b) == <<b.name, b.hclk, b.voltage>>
Plans == {<<Key(b), PlanOf(b)>> : b \in MCProgramSet}
MCPlan(b) == (CHOOSE plan \in Plans : plan[1] = Key(b))[2]

(***************************************************************************)
(* What the headers state twice agrees.                                    *)
(***************************************************************************)

\* The timers' CCMR1 and CCMR2 have a name for input and one for output.
MapName(r) ==
  CASE r \in {"CCMR1_Output", "CCMR1_Input"} -> "CCMR1"
    [] r \in {"CCMR2_Output", "CCMR2_Input"} -> "CCMR2"
    [] OTHER -> r

\* Each register of the headers is where the address map names it, or where the
\* map names nothing; fields of a register do not overlap, but for the two names
\* of one bit in CFGR of the F1.
Agree(t, map) ==
  \A p \in DOMAIN t : \A r \in DOMAIN t[p].regs :
    /\ Map!NamesAt(map, t[p].at + t[p].regs[r].at \div 4) \subseteq {<<p, MapName(r)>>}
    /\ LET fields == t[p].regs[r].fields
       IN \A f, g \in DOMAIN fields :
            f # g /\ {f, g} # {"OTGFSPRE", "USBPRE"} => fields[f] \cap fields[g] = {}
ASSUME TablesAgree == Agree(F1_tables, Map!F1_map) /\ Agree(F4_tables, Map!F4_map)

\* Each interrupt channel of each device has an entry of its vector table.
ASSUME EveryChannelHasItsSlot ==
  \A d \in DOMAIN Irq!Devices :
    DOMAIN Irq!Devices[d].channels \subseteq 0 .. Irq!Devices[d].numof - 1

\* No assertion on the list of resources fails: its masks do not contradict
\* each other, and no interrupt has two handlers.
ASSUME ListsAreSound ==
  \A b \in Builds :
    /\ List!Asserted(F1!Masks(IF IsF4Device(b) THEN F4_tables ELSE F1_tables, resources(b)))
    /\ Irq!unique_irq_handlers(F1!handlers(resources(b)))
=============================================================================
