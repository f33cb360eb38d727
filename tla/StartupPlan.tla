---------------------------- MODULE StartupPlan ----------------------------
(***************************************************************************)
(* The start of a program, read as a straight line: its plan is what the   *)
(* registers are at each operation if nothing but the program changes them *)
(* and every wait ends.  The device does not run along a straight line:    *)
(* clocks become ready when they are, interrupts come, a reset leaves the  *)
(* backup registers as they are.  That it nevertheless has, at each        *)
(* operation, the registers planned there is the invariant StartInv; it    *)
(* needs what Sound says of the program and its plan.                      *)
(***************************************************************************)
EXTENDS Startup

CONSTANT Plan(_)       \* the registers at each operation of a program

Storing == {"set", "clear", "reset_to", "store"}

\* The plan goes on with an operation: a wait ends, with the bits it waited for.
Ahead(b, m, op) ==
  IF op.do \in Storing THEN Executed(b, m, op)
  ELSE IF op.do = "wait"
  THEN [m EXCEPT ![b.codeAt[op.m.reg]] = @ \cup (op.m.set_mask \cap ReadOnly(b, op.m.reg))]
  ELSE m

IsPlan(b) ==
  /\ Plan(b)[1] = AfterReset(b)
  /\ \A k \in DOMAIN b.code :
       /\ DOMAIN Plan(b)[k] = DOMAIN b.registerAt
       /\ k # Len(b.code) => Plan(b)[k + 1] = Ahead(b, Plan(b)[k], b.code[k])

ASSUME PlanAssumption == \A b \in ProgramSet : IsPlan(b)

(***************************************************************************)
(* How far the registers are as planned.                                   *)
(***************************************************************************)
\* Bits the hardware and the interrupts change.
Toggles(r) ==
  IF r = <<"GPIOC", "ODR">> THEN {12} ELSE IF r = <<"GPIOD", "ODR">> THEN {12, 15} ELSE {}
Volatile(b, r) == ReadOnly(b, r) \cup ClearOnly(b, r) \cup Toggles(r)

\* The operation resets the backup registers; until then they are what they were
\* before a reset.
BDRST(b) == Bits(b, "RCC", "BDCR", "BDRST")
Wipes(b, op) == op.do = "set" /\ op.m.reg = <<"RCC", "BDCR">> /\ BDRST(b) \subseteq op.m.set_mask
Wiped(b, k) == \E j \in 1 .. k - 1 : Wipes(b, b.code[j])
Known(b, k, r) == Backup(r) => Wiped(b, k)

\* At an address, m is as in the registers n planned: the bits only the program
\* changes are, and a bit that was waited for is on.
AsPlanned(b, n, m, a) ==
  LET r == b.registerAt[a]
  IN /\ m[a] \ Volatile(b, r) = n[a] \ Volatile(b, r)
     /\ n[a] \cap ReadOnly(b, r) \subseteq m[a]
Follows(b, k, m) ==
  LET n == Plan(b)[k]
  IN \A a \in DOMAIN b.registerAt : Known(b, k, b.registerAt[a]) => AsPlanned(b, n, m, a)

\* The operations passed at k, with the last one, where the program stays.
Passed(b, k) == {b.code[j].what : j \in {j \in 1 .. k - 1 : b.code[j].do = "reached"}}
Done(b, k) ==
  {Passed(b, k)} \cup IF k = Len(b.code) THEN {Passed(b, k) \cup {b.code[k].what}} ELSE {}

\* The clock switch: off, or on the PLL where the program has asked for it.
SWS(b) == Bits(b, "RCC", "CFGR", "SWS")
SwitchOf(b, m) == Value(b, m, "RCC", "CFGR") \cap SWS(b)
OnPll(b) == {Max(SWS(b))}
AsksForPll(b, m) == Number(b, m, "RCC", "CFGR", "SW") = 2
SwitchInv(b, k, m) ==
  SwitchOf(b, m) = {} \/ (SwitchOf(b, m) = OnPll(b) /\ AsksForPll(b, Plan(b)[k]))

(***************************************************************************)
(* What makes a program sound: conditions on its code and its plan alone.  *)
(***************************************************************************)
At(b, k) == b.code[k].m.reg
Accesses(b, k) == b.code[k].do \in Storing \cup {"wait"}

\* Registers have one address each, the device's, and no bit two natures.
WellPlaced(b) ==
  /\ Needed(b) \subseteq DOMAIN b.deviceAt
  /\ \A r \in DOMAIN b.deviceAt :
       /\ r = <<r[1], r[2]>>
       /\ b.deviceAt[r] \in DOMAIN b.registerAt /\ b.registerAt[b.deviceAt[r]] = r
  /\ \A a \in DOMAIN b.registerAt :
       b.registerAt[a] \in DOMAIN b.deviceAt /\ b.deviceAt[b.registerAt[a]] = a
  /\ IF IsF4(b)
     THEN \A r \in DOMAIN b.deviceAt : r # <<"RCC", "BDCR">> /\ r[1] # "RTC"
     ELSE /\ Bits(b, "RTC", "CRL", "CNF") \cap Volatile(b, <<"RTC", "CRL">>) = {}
          /\ BDRST(b) \cap Volatile(b, <<"RCC", "BDCR">>) = {}

\* The code has an end, where it stays, and its operations are on registers
\* where the device has them.
WellFormed(b) ==
  /\ Len(b.code) \in Nat \ {0} /\ DOMAIN b.code = 1 .. Len(b.code)
  /\ b.code[Len(b.code)].do = "reached"
  /\ \A k \in DOMAIN b.code : Accesses(b, k) =>
       At(b, k) \in DOMAIN b.deviceAt /\ b.codeAt[At(b, k)] = b.deviceAt[At(b, k)]

\* The register that gives a peripheral its clock.
Gates(b) == {"APB1ENR", IF IsF4(b) THEN "AHB1ENR" ELSE "APB2ENR"}

\* Each store is accepted, and the backup registers are reset before they are used.
Accepted(b) ==
  LET plan == Plan(b)
  IN \A k \in DOMAIN b.code : b.code[k].do \in Storing =>
    /\ Accepts(b, plan[k], At(b, k))
    /\ At(b, k)[1] \in {"RCC", "FLASH", "SCB", "NVIC"} \/ ClockBit(b, At(b, k)[1])[1] \in Gates(b)
    /\ Known(b, k, At(b, k)) \/ Wipes(b, b.code[k])

\* A wait for several bits is for all of them.
WaitsSound(b) ==
  \A k \in DOMAIN b.code :
    LET m == b.code[k].m
    IN b.code[k].do = "wait" /\ m.clear_mask = m.set_mask => \E x \in m.set_mask : m.set_mask = {x}

\* The clock is switched to the PLL for good.
SwitchSound(b) ==
  /\ SWS(b) \cap b.resets[<<"RCC", "CFGR">>] = {}
  /\ Bits(b, "RCC", "CFGR", "SW") \cap SWS(b) = {}
  /\ NumberOf(SWS(b), OnPll(b)) = 2 /\ OnPll(b) \subseteq SWS(b)
  /\ LET plan == Plan(b)
     IN \A k \in DOMAIN b.code :
          k # Len(b.code) /\ AsksForPll(b, plan[k]) => AsksForPll(b, plan[k + 1])

Sound(b) ==
  WellPlaced(b) /\ WellFormed(b) /\ Accepted(b) /\ WaitsSound(b) /\ SwitchSound(b)

\* The planned registers n with the clock switch on s, and where it may be.
Switched(b, n, s) == [n EXCEPT ![b.deviceAt[<<"RCC", "CFGR">>]] = (@ \ SWS(b)) \cup s]
Switches(b, n) == {s \in {{}, OnPll(b)} : SwitchOf(b, n) \subseteq s /\ (s # {} => AsksForPll(b, n))}

\* Along the plan the clocks are right, wherever the switch is,
ClocksPlanned(b) ==
  LET plan == Plan(b)
  IN \A k \in DOMAIN b.code : \A done \in Done(b, k) :
       /\ \A s \in Switches(b, plan[k]) :
            LET m == Switched(b, plan[k], s) IN ClocksRight(b, m, done)
       /\ "lcd::init, nrf::init" \in done => ~IsF4(b) /\ Wiped(b, k)
\* the resources in effect, with masks only the program changes,
ResourcesPlanned(b) ==
  LET plan == Plan(b)
  IN /\ DOMAIN Wired(b) \subseteq Ports
     /\ IF IsF4(b) THEN b.name # "stm32f103stk-demo" ELSE b.name # "stm32f4discovery"
     /\ \A k \in DOMAIN b.code : \A done \in Done(b, k) :
          LET m == plan[k] IN ResourcesRight(b, m, done)
     /\ \A k \in DOMAIN b.resources :
          LET mask == b.resources[k]
          IN /\ mask.reg \in DOMAIN b.deviceAt /\ ~Backup(mask.reg)
             /\ mask.clear_mask \cap Volatile(b, mask.reg) = {}
\* the handlers ready,
HandlersPlanned(b) ==
  LET plan == Plan(b)
  IN \A k \in DOMAIN b.code : \A done \in Done(b, k) :
       LET m == plan[k] IN HandlersReady(b, m, done)
\* and the stores effective: of bits only the program changes, or a flag cleared;
\* no bit of a port is set and reset at once.
StorePlanned(b, op, m) ==
  LET r == op.m.reg
  IN /\ op.do \in {"set", "clear", "reset_to"} =>
          \/ (op.m.set_mask \cup op.m.clear_mask) \cap Volatile(b, r) = {} /\ Effect(b, m, op)
          \/ /\ op.do = "clear" /\ r = <<"RTC", "CRL">>
             /\ op.m.clear_mask \cap ReadOnly(b, r) = {}
     /\ op.do = "store" =>
          IF r[2] = "BSRR"
          THEN /\ r[1] \in Ports
               /\ \A x \in op.m.set_mask : x \in 0 .. 31 /\ (x < 16 => x + 16 \notin op.m.set_mask)
          ELSE Volatile(b, r) = {} /\ Effect(b, m, op)
StoresPlanned(b) ==
  LET plan == Plan(b)
  IN \A k \in DOMAIN b.code : b.code[k].do \in Storing =>
       LET m == plan[k + 1] IN StorePlanned(b, b.code[k], m)
StartSound(b) ==
  Sound(b) /\ ClocksPlanned(b) /\ ResourcesPlanned(b) /\ HandlersPlanned(b) /\ StoresPlanned(b)

(***************************************************************************)
(* The inductive invariant.                                                *)
(***************************************************************************)
StartInv ==
  /\ pc \in DOMAIN build.code
  /\ DOMAIN mem = DOMAIN build.registerAt
  /\ Follows(build, pc, mem)
  /\ SwitchInv(build, pc, mem)
  /\ reached \in Done(build, pc)

\* The program is sound, and at each of its operations the registers are as
\* planned there, whatever became ready or interrupted and whenever a reset came;
\* of the backup registers, from their reset on.
StartsAsPlanned == (pc = 1 /\ resets = 0 => StartSound(build)) /\ StartInv
=============================================================================
