--------------------------- MODULE StartupProofs ---------------------------
(***************************************************************************)
(* Proofs about Startup: a sound program has at each of its operations the *)
(* registers its plan has there, in whatever order clocks become ready,    *)
(* interrupts are taken and resets come.  What holds along the plans of    *)
(* the programs therefore holds of the device, for every set of programs,  *)
(* any number of resets and every interval of the LEDs.                    *)
(***************************************************************************)
EXTENDS StartupPlan, TLAPS

-----------------------------------------------------------------------------
(* Single registers. *)

\* A store to a register leaves the hardware's bits and decides the others.
LEMMA PlainParts ==
  ASSUME NEW b, NEW r, NEW old, NEW v
  PROVE  /\ Plain(b, r, old, v) \ Volatile(b, r) = v \ Volatile(b, r)
         /\ Plain(b, r, old, v) \cap ReadOnly(b, r) = old \cap ReadOnly(b, r)
BY DEF Plain, Volatile

\* What an operation writes depends on the register only where it leaves bits.
LEMMA WrittenParts ==
  ASSUME NEW b, NEW op, NEW v, NEW w, NEW V, v \ V = w \ V
  PROVE  Written(b, op, v) \ V = Written(b, op, w) \ V
<1>1. Mask!ValueSet(v, op.m) \ V = Mask!ValueSet(w, op.m) \ V
  BY DEF Mask!ValueSet
<1>2. Mask!ValueClear(v, op.m) \ V = Mask!ValueClear(w, op.m) \ V
  BY DEF Mask!ValueClear
<1>3. QED
  BY <1>1, <1>2 DEF Written

\* Registers no other actor writes.
LEMMA QuietRegisters ==
  ASSUME NEW b, NEW p, NEW r,
         <<p, r>> \notin {<<"RCC", "CR">>, <<"RCC", "CFGR">>, <<"RCC", "BDCR">>, <<"RTC", "CRL">>,
                          <<"GPIOC", "ODR">>, <<"GPIOD", "ODR">>}
  PROVE  Volatile(b, <<p, r>>) = {} /\ ReadOnly(b, <<p, r>>) = {}
BY DEF Volatile, ReadOnly, ClearOnly, Toggles

\* What the plan knows of a register holds of the device.
LEMMA FollowsValue ==
  ASSUME NEW b, NEW k, NEW m, NEW p, NEW r, WellPlaced(b), Follows(b, k, m),
         <<p, r>> \in DOMAIN b.deviceAt, Known(b, k, <<p, r>>)
  PROVE  /\ Value(b, m, p, r) \ Volatile(b, <<p, r>>) = Value(b, Plan(b)[k], p, r) \ Volatile(b, <<p, r>>)
         /\ Value(b, Plan(b)[k], p, r) \cap ReadOnly(b, <<p, r>>) \subseteq Value(b, m, p, r)
BY DEF WellPlaced, Follows, AsPlanned, Value

\* A register no other actor writes, and no reset keeps, is as planned.
LEMMA FollowsQuiet ==
  ASSUME NEW b, NEW k, NEW m, NEW p, NEW r, WellPlaced(b), Follows(b, k, m),
         <<p, r>> \in DOMAIN b.deviceAt, Known(b, k, <<p, r>>), Volatile(b, <<p, r>>) = {}
  PROVE  Value(b, m, p, r) = Value(b, Plan(b)[k], p, r)
<1>1. Value(b, m, p, r) \ Volatile(b, <<p, r>>) = Value(b, Plan(b)[k], p, r) \ Volatile(b, <<p, r>>)
  BY FollowsValue
<1>2. QED
  BY <1>1

\* A bit only the program writes is on where it is on in the plan.
LEMMA FollowsOn ==
  ASSUME NEW b, NEW k, NEW m, NEW p, NEW r, NEW f, WellPlaced(b), Follows(b, k, m),
         <<p, r>> \in DOMAIN b.deviceAt, Known(b, k, <<p, r>>),
         Bits(b, p, r, f) \cap Volatile(b, <<p, r>>) = {}
  PROVE  On(b, m, p, r, f) <=> On(b, Plan(b)[k], p, r, f)
<1>1. Value(b, m, p, r) \ Volatile(b, <<p, r>>) = Value(b, Plan(b)[k], p, r) \ Volatile(b, <<p, r>>)
  BY FollowsValue
<1>2. QED
  BY <1>1 DEF On

\* The registers the model needs on a device.
LEMMA Placed ==
  ASSUME NEW b, WellPlaced(b)
  PROVE  /\ \A r \in {<<"FLASH", "ACR">>, <<"RCC", "CR">>, <<"RCC", "CFGR">>, <<"RCC", "APB1ENR">>,
                      <<"NVIC", "ISER0">>, <<"NVIC", "ISER1">>, <<"SCB", "STCSR">>, <<"SCB", "STRVR">>,
                      <<"USART2", "BRR">>} : r \in DOMAIN b.deviceAt
         /\ \A port \in Ports : <<port, "ODR">> \in DOMAIN b.deviceAt
         /\ IsF4(b) => /\ <<"RCC", "AHB1ENR">> \in DOMAIN b.deviceAt
                       /\ <<"RCC", "PLLCFGR">> \in DOMAIN b.deviceAt
                       /\ \A port \in Ports : \A r \in {"MODER", "AFRL", "AFRH"} :
                            <<port, r>> \in DOMAIN b.deviceAt
         /\ ~IsF4(b) => /\ <<"RCC", "APB2ENR">> \in DOMAIN b.deviceAt
                        /\ <<"RCC", "BDCR">> \in DOMAIN b.deviceAt
                        /\ <<"PWR", "CR">> \in DOMAIN b.deviceAt
                        /\ \A port \in Ports : \A r \in {"CRL", "CRH"} :
                             <<port, r>> \in DOMAIN b.deviceAt
                        /\ \A r \in {"CRL", "CRH", "PRLH", "PRLL", "CNTH", "CNTL"} :
                             <<"RTC", r>> \in DOMAIN b.deviceAt
BY DEF WellPlaced, Needed

\* Which of them a reset may keep.
LEMMA NotBackup ==
  ASSUME NEW b, NEW k, NEW p, NEW r, <<p, r>> # <<"RCC", "BDCR">>,
         p # "RTC" \/ r \in {"CRL", "CRH"}
  PROVE  Known(b, k, <<p, r>>)
BY DEF Known, Backup, RtcCounter

-----------------------------------------------------------------------------
(* Stores. *)

\* The bits that decide what becomes of a store are as planned.
LEMMA FollowsModes ==
  ASSUME NEW b, NEW k, NEW m, WellPlaced(b), Follows(b, k, m), ~IsF4(b)
  PROVE  /\ On(b, m, "RTC", "CRL", "CNF") <=> On(b, Plan(b)[k], "RTC", "CRL", "CNF")
         /\ On(b, m, "PWR", "CR", "DBP") <=> On(b, Plan(b)[k], "PWR", "CR", "DBP")
<1>1. /\ <<"RTC", "CRL">> \in DOMAIN b.deviceAt /\ Known(b, k, <<"RTC", "CRL">>)
      /\ <<"PWR", "CR">> \in DOMAIN b.deviceAt /\ Known(b, k, <<"PWR", "CR">>)
  BY Placed, NotBackup
<1>2. Bits(b, "RTC", "CRL", "CNF") \cap Volatile(b, <<"RTC", "CRL">>) = {}
  BY DEF WellPlaced
<1>3. Volatile(b, <<"PWR", "CR">>) = {}
  BY QuietRegisters
<1>4. On(b, m, "RTC", "CRL", "CNF") <=> On(b, Plan(b)[k], "RTC", "CRL", "CNF")
  BY <1>1, <1>2, FollowsOn
<1>5. On(b, m, "PWR", "CR", "DBP") <=> On(b, Plan(b)[k], "PWR", "CR", "DBP")
  BY <1>1, <1>3, FollowsOn
<1>6. QED
  BY <1>4, <1>5

\* The device accepts what it accepts in the plan: a bit that must be on is on.
LEMMA FollowsAccepts ==
  ASSUME NEW b, NEW k, NEW m, NEW r, WellPlaced(b), Follows(b, k, m), r \in DOMAIN b.deviceAt,
         Accepts(b, Plan(b)[k], r),
         r[1] \in {"RCC", "FLASH", "SCB", "NVIC"} \/ ClockBit(b, r[1])[1] \in Gates(b)
  PROVE  Accepts(b, m, r)
<1>1. Clocked(b, m, r[1])
  <2>1. CASE r[1] \in {"RCC", "FLASH", "SCB", "NVIC"}
    BY <2>1 DEF Clocked
  <2>2. CASE ClockBit(b, r[1])[1] \in Gates(b)
    <3>1. \A g \in Gates(b) : Value(b, m, "RCC", g) = Value(b, Plan(b)[k], "RCC", g)
      <4> SUFFICES ASSUME NEW g \in Gates(b)
                   PROVE  Value(b, m, "RCC", g) = Value(b, Plan(b)[k], "RCC", g)
        OBVIOUS
      <4>1. g \in {"APB1ENR", "AHB1ENR", "APB2ENR"} /\ <<"RCC", g>> \in DOMAIN b.deviceAt
        BY Placed DEF Gates
      <4>2. Volatile(b, <<"RCC", g>>) = {}
        BY <4>1, QuietRegisters
      <4>3. Known(b, k, <<"RCC", g>>)
        BY <4>1, NotBackup
      <4>4. QED
        BY <4>1, <4>2, <4>3, FollowsQuiet
    <3>2. QED
      BY <2>2, <3>1 DEF Accepts, Clocked
  <2>3. QED
    BY <2>1, <2>2
<1>2. ASSUME r[1] = "RTC" PROVE On(b, m, "RTC", "CRL", "RTOFF")
  <2>1. ~IsF4(b)
    BY <1>2 DEF WellPlaced
  <2>2. <<"RTC", "CRL">> \in DOMAIN b.deviceAt /\ Known(b, k, <<"RTC", "CRL">>)
    BY <2>1, Placed, NotBackup
  <2>3. Bits(b, "RTC", "CRL", "RTOFF") = ReadOnly(b, <<"RTC", "CRL">>)
    BY DEF ReadOnly
  <2>4. Value(b, Plan(b)[k], "RTC", "CRL") \cap ReadOnly(b, <<"RTC", "CRL">>) \subseteq Value(b, m, "RTC", "CRL")
    BY <2>2, FollowsValue
  <2>5. On(b, Plan(b)[k], "RTC", "CRL", "RTOFF")
    BY <1>2 DEF Accepts
  <2>6. QED
    BY <2>3, <2>4, <2>5 DEF On
<1>3. ASSUME r[1] = "RTC", r[2] \in RtcCounter
      PROVE  On(b, m, "RTC", "CRL", "CNF") /\ On(b, m, "PWR", "CR", "DBP")
  <2>1. ~IsF4(b)
    BY <1>3 DEF WellPlaced
  <2>2. QED
    BY <1>3, <2>1, FollowsModes DEF Accepts
<1>4. QED
  BY <1>1, <1>2, <1>3 DEF Accepts

\* The output register of a port a store goes to.
LEMMA OutputRegister ==
  ASSUME NEW b, NEW k, NEW port \in Ports, WellPlaced(b)
  PROVE  LET odr == b.deviceAt[<<port, "ODR">>]
         IN /\ odr \in DOMAIN b.registerAt /\ b.registerAt[odr] = <<port, "ODR">>
            /\ Known(b, k, <<port, "ODR">>)
            /\ ReadOnly(b, <<port, "ODR">>) = {}
<1>1. <<port, "ODR">> \in DOMAIN b.deviceAt
  BY Placed
<1>2. Known(b, k, <<port, "ODR">>)
  BY NotBackup DEF Ports
<1>3. ReadOnly(b, <<port, "ODR">>) = {}
  BY DEF ReadOnly, Ports
<1>4. QED
  BY <1>1, <1>2, <1>3 DEF WellPlaced

\* A store that agrees with the planned one in the bits only the program changes
\* leaves every register as planned that was so: m is the device, n the plan.
LEMMA TakenAsPlanned ==
  ASSUME NEW b, NEW m, NEW n, NEW a \in DOMAIN b.registerAt, NEW v, NEW w, NEW x \in DOMAIN b.registerAt,
         DOMAIN m = DOMAIN b.registerAt, DOMAIN n = DOMAIN b.registerAt,
         b.registerAt[a][1] \in Ports =>
           LET odr == b.deviceAt[<<b.registerAt[a][1], "ODR">>]
           IN /\ odr \in DOMAIN b.registerAt /\ ReadOnly(b, b.registerAt[odr]) = {}
              /\ AsPlanned(b, n, m, odr),
         b.registerAt[a] = <<"RTC", "CRL">> =>
           /\ On(b, m, "RTC", "CRL", "CNF") <=> On(b, n, "RTC", "CRL", "CNF")
           /\ Bits(b, "RTC", "CRL", "CNF") \cap Volatile(b, <<"RTC", "CRL">>) = {},
         b.registerAt[a] = <<"RCC", "BDCR">> =>
           /\ On(b, m, "PWR", "CR", "DBP") <=> On(b, n, "PWR", "CR", "DBP")
           /\ BDRST(b) \cap Volatile(b, <<"RCC", "BDCR">>) = {},
         b.registerAt[a][1] \in Ports /\ b.registerAt[a][2] \in {"BSRR", "BRR"} => v = w,
         AsPlanned(b, n, m, a), AsPlanned(b, n, m, x),
         v \ Volatile(b, b.registerAt[a]) = w \ Volatile(b, b.registerAt[a])
  PROVE  AsPlanned(b, Taken(b, n, a, w), Taken(b, m, a, v), x)
<1> DEFINE r == b.registerAt[a]
           odr == b.deviceAt[<<r[1], "ODR">>]
           newm == Plain(b, r, m[a], v)
           newn == Plain(b, r, n[a], w)
<1>1. CASE r[1] \in Ports /\ r[2] = "BSRR"
  <2>1. /\ Taken(b, m, a, v) = [m EXCEPT ![odr] = (@ \ {k \in 0 .. 15 : k + 16 \in v}) \cup (v \cap 0 .. 15)]
        /\ Taken(b, n, a, w) = [n EXCEPT ![odr] = (@ \ {k \in 0 .. 15 : k + 16 \in v}) \cup (v \cap 0 .. 15)]
    BY <1>1 DEF Taken
  <2>2. QED
    BY <1>1, <2>1 DEF AsPlanned
<1>2. CASE r[1] \in Ports /\ r[2] = "BRR"
  <2>1. /\ Taken(b, m, a, v) = [m EXCEPT ![odr] = @ \ v]
        /\ Taken(b, n, a, w) = [n EXCEPT ![odr] = @ \ v]
    BY <1>2 DEF Taken
  <2>2. QED
    BY <1>2, <2>1 DEF AsPlanned
<1>3. CASE r[1] = "NVIC"
  <2>1. /\ Taken(b, m, a, v) = [m EXCEPT ![a] = @ \cup v]
        /\ Taken(b, n, a, w) = [n EXCEPT ![a] = @ \cup w]
    BY <1>3 DEF Taken, Ports
  <2>2. ReadOnly(b, r) = {}
    BY <1>3 DEF ReadOnly
  <2>3. QED
    BY <2>1, <2>2 DEF AsPlanned
<1>4. CASE r = <<"RCC", "BDCR">>
  <2>1. r[1] \notin Ports /\ r[1] # "NVIC" /\ r # <<"RTC", "CRL">>
    BY <1>4 DEF Ports
  <2>2. BDRST(b) \subseteq v <=> BDRST(b) \subseteq w
    BY <1>4
  <2>3. CASE BDRST(b) \subseteq v
    <3>1. /\ Taken(b, m, a, v) = [y \in DOMAIN m |-> IF y = a THEN BDRST(b)
                                    ELSE IF Backup(b.registerAt[y]) THEN AfterReset(b)[y] ELSE m[y]]
          /\ Taken(b, n, a, w) = [y \in DOMAIN n |-> IF y = a THEN BDRST(b)
                                    ELSE IF Backup(b.registerAt[y]) THEN AfterReset(b)[y] ELSE n[y]]
      BY <1>4, <2>1, <2>2, <2>3 DEF Taken, BDRST
    <3>2. QED
      BY <3>1 DEF AsPlanned
  <2>4. CASE ~(BDRST(b) \subseteq v) /\ ~On(b, m, "PWR", "CR", "DBP")
    <3>1. /\ Taken(b, m, a, v) = [m EXCEPT ![a] = @ \ BDRST(b)]
          /\ Taken(b, n, a, w) = [n EXCEPT ![a] = @ \ BDRST(b)]
      BY <1>4, <2>1, <2>2, <2>4 DEF Taken, BDRST
    <3>2. BDRST(b) \cap ReadOnly(b, r) = {}
      BY <1>4 DEF Volatile
    <3>3. QED
      BY <3>1, <3>2 DEF AsPlanned
  <2>5. CASE ~(BDRST(b) \subseteq v) /\ On(b, m, "PWR", "CR", "DBP")
    <3>1. /\ Taken(b, m, a, v) = [m EXCEPT ![a] = newm]
          /\ Taken(b, n, a, w) = [n EXCEPT ![a] = newn]
      BY <1>4, <2>1, <2>2, <2>5 DEF Taken, BDRST
    <3>2. QED
      BY <3>1, PlainParts DEF AsPlanned
  <2>6. QED
    BY <2>3, <2>4, <2>5
<1>5. CASE r = <<"RTC", "CRL">>
  <2>1. r[1] \notin Ports /\ r[1] # "NVIC" /\ r # <<"RCC", "BDCR">>
    BY <1>5 DEF Ports
  <2>2. Bits(b, "RTC", "CRL", "CNF") \subseteq v <=> Bits(b, "RTC", "CRL", "CNF") \subseteq w
    BY <1>5
  <2>3. CASE On(b, m, "RTC", "CRL", "CNF") /\ ~(Bits(b, "RTC", "CRL", "CNF") \subseteq v)
    <3>1. /\ Taken(b, m, a, v) = [m EXCEPT ![a] = newm \ Bits(b, "RTC", "CRL", "RTOFF")]
          /\ Taken(b, n, a, w) = [n EXCEPT ![a] = newn \ Bits(b, "RTC", "CRL", "RTOFF")]
      BY <1>5, <2>1, <2>2, <2>3 DEF Taken
    <3>2. Bits(b, "RTC", "CRL", "RTOFF") = ReadOnly(b, r)
      BY <1>5 DEF ReadOnly
    <3>3. /\ newm \ Volatile(b, r) = newn \ Volatile(b, r)
          /\ ReadOnly(b, r) \subseteq Volatile(b, r)
      BY PlainParts DEF Volatile
    <3>4. QED
      BY <3>1, <3>2, <3>3 DEF AsPlanned
  <2>4. CASE ~On(b, m, "RTC", "CRL", "CNF") \/ Bits(b, "RTC", "CRL", "CNF") \subseteq v
    <3>1. /\ Taken(b, m, a, v) = [m EXCEPT ![a] = newm]
          /\ Taken(b, n, a, w) = [n EXCEPT ![a] = newn]
      BY <1>5, <2>1, <2>2, <2>4 DEF Taken
    <3>2. QED
      BY <3>1, PlainParts DEF AsPlanned
  <2>5. QED
    BY <2>3, <2>4
<1>6. CASE /\ ~(r[1] \in Ports /\ r[2] \in {"BSRR", "BRR"})
           /\ r[1] # "NVIC" /\ r # <<"RCC", "BDCR">> /\ r # <<"RTC", "CRL">>
  <2>1. /\ Taken(b, m, a, v) = [m EXCEPT ![a] = newm]
        /\ Taken(b, n, a, w) = [n EXCEPT ![a] = newn]
    BY <1>6 DEF Taken
  <2>2. QED
    BY <2>1, PlainParts DEF AsPlanned
<1>7. QED
  BY <1>1, <1>2, <1>3, <1>4, <1>5, <1>6

\* An operation of a sound program is taken by the device, at the register the
\* plan has it for.
LEMMA StoreIsTaken ==
  ASSUME NEW b, NEW k \in DOMAIN b.code, NEW m, WellPlaced(b), WellFormed(b), Accepted(b), IsPlan(b),
         DOMAIN m = DOMAIN b.registerAt, Follows(b, k, m), b.code[k].do \in Storing
  PROVE  LET op == b.code[k]
             a == b.deviceAt[op.m.reg]
         IN /\ a \in DOMAIN b.registerAt /\ b.registerAt[a] = op.m.reg /\ op.m.reg \in DOMAIN b.deviceAt
            /\ Executed(b, m, op) = Taken(b, m, a, Written(b, op, m[a]))
            /\ Executed(b, Plan(b)[k], op) = Taken(b, Plan(b)[k], a, Written(b, op, Plan(b)[k][a]))
<1> DEFINE op == b.code[k]
           r == op.m.reg
           a == b.deviceAt[r]
           n == Plan(b)[k]
<1>1. r \in DOMAIN b.deviceAt /\ b.codeAt[r] = a
  BY DEF WellFormed, Accesses, At
<1>2. a \in DOMAIN b.registerAt /\ b.registerAt[a] = r
  BY <1>1 DEF WellPlaced
<1>3. /\ Accepts(b, n, r)
      /\ r[1] \in {"RCC", "FLASH", "SCB", "NVIC"} \/ ClockBit(b, r[1])[1] \in Gates(b)
  BY DEF Accepted, At
<1>4. Accepts(b, m, r)
  BY <1>1, <1>3, FollowsAccepts
<1>5. DOMAIN n = DOMAIN b.registerAt
  BY DEF IsPlan
<1>6. Executed(b, m, op) = Taken(b, m, a, Written(b, op, m[a]))
  BY <1>1, <1>2, <1>4 DEF Executed, Stored, Loaded
<1>7. Executed(b, n, op) = Taken(b, n, a, Written(b, op, n[a]))
  BY <1>1, <1>2, <1>3, <1>5 DEF Executed, Stored, Loaded
<1>8. QED
  BY <1>1, <1>2, <1>6, <1>7

\* What a store leaves of the registers' domain.
LEMMA TakenDomain ==
  ASSUME NEW b, NEW m, NEW a, NEW v
  PROVE  DOMAIN Taken(b, m, a, v) = DOMAIN m
BY DEF Taken

\* What is known of a register after an operation.
LEMMA KnownNext ==
  ASSUME NEW b, NEW k \in Nat \ {0}, NEW r
  PROVE  Known(b, k + 1, r) <=> Known(b, k, r) \/ (Backup(r) /\ Wipes(b, b.code[k]))
<1>1. 1 .. (k + 1) - 1 = (1 .. k - 1) \cup {k}
  OBVIOUS
<1>2. QED
  BY <1>1 DEF Known, Wiped

\* Once the backup registers are reset, all registers are as planned.
LEMMA WipeAsPlanned ==
  ASSUME NEW b, NEW m, NEW n, NEW a \in DOMAIN b.registerAt, NEW v, NEW w, NEW x \in DOMAIN b.registerAt,
         DOMAIN m = DOMAIN b.registerAt, DOMAIN n = DOMAIN b.registerAt,
         b.registerAt[a] = <<"RCC", "BDCR">>, BDRST(b) \subseteq v, BDRST(b) \subseteq w,
         Backup(b.registerAt[x]) \/ AsPlanned(b, n, m, x)
  PROVE  AsPlanned(b, Taken(b, n, a, w), Taken(b, m, a, v), x)
<1>1. /\ Taken(b, m, a, v) = [y \in DOMAIN m |-> IF y = a THEN BDRST(b)
                                ELSE IF Backup(b.registerAt[y]) THEN AfterReset(b)[y] ELSE m[y]]
      /\ Taken(b, n, a, w) = [y \in DOMAIN n |-> IF y = a THEN BDRST(b)
                                ELSE IF Backup(b.registerAt[y]) THEN AfterReset(b)[y] ELSE n[y]]
  BY DEF Taken, BDRST, Ports
<1>2. QED
  BY <1>1 DEF AsPlanned

\* After a store the registers are as planned for the next operation.
LEMMA StoreFollows ==
  ASSUME NEW b, NEW k \in DOMAIN b.code, NEW m, WellPlaced(b), WellFormed(b), Accepted(b), IsPlan(b),
         DOMAIN m = DOMAIN b.registerAt, Follows(b, k, m), b.code[k].do \in Storing, k # Len(b.code)
  PROVE  LET next == Executed(b, m, b.code[k])
         IN Follows(b, k + 1, next) /\ DOMAIN next = DOMAIN b.registerAt
<1> DEFINE op == b.code[k]
           r == op.m.reg
           a == b.deviceAt[r]
           n == Plan(b)[k]
           v == Written(b, op, m[a])
           w == Written(b, op, n[a])
<1>1. /\ a \in DOMAIN b.registerAt /\ b.registerAt[a] = r /\ r \in DOMAIN b.deviceAt
      /\ Executed(b, m, op) = Taken(b, m, a, v)
      /\ Executed(b, n, op) = Taken(b, n, a, w)
  BY StoreIsTaken
<1>2. Plan(b)[k + 1] = Taken(b, n, a, w) /\ DOMAIN n = DOMAIN b.registerAt
  BY <1>1 DEF IsPlan, Ahead
<1>3. k \in Nat \ {0}
  BY DEF WellFormed
<1>4. DOMAIN Taken(b, m, a, v) = DOMAIN b.registerAt
  <2> HIDE DEF v
  <2> QED
    BY TakenDomain
<1>5. SUFFICES ASSUME NEW x \in DOMAIN b.registerAt, Known(b, k + 1, b.registerAt[x])
               PROVE  AsPlanned(b, Taken(b, n, a, w), Taken(b, m, a, v), x)
  BY <1>1, <1>2, <1>4 DEF Follows
<1>6. CASE Wipes(b, op)
  <2>1. r = <<"RCC", "BDCR">> /\ BDRST(b) \subseteq v /\ BDRST(b) \subseteq w
    BY <1>6 DEF Wipes, Written, Mask!ValueSet
  <2>2. Backup(b.registerAt[x]) \/ AsPlanned(b, n, m, x)
    BY DEF Follows, Known
  <2>3. QED
    BY <1>1, <1>2, <2>1, <2>2, WipeAsPlanned
<1>7. CASE ~Wipes(b, op)
  <2>1. Known(b, k, b.registerAt[x]) /\ Known(b, k, r)
    BY <1>3, <1>5, <1>7, KnownNext DEF Accepted, At
  <2>2. AsPlanned(b, n, m, a) /\ AsPlanned(b, n, m, x)
    BY <1>1, <2>1 DEF Follows
  <2>3. m[a] \ Volatile(b, r) = n[a] \ Volatile(b, r)
    BY <1>1, <2>2 DEF AsPlanned
  <2>4. v \ Volatile(b, r) = w \ Volatile(b, r)
    <3> HIDE DEF op, r, a, n
    <3>1. QED
      BY <2>3, WrittenParts
  <2>5. r[1] \in Ports =>
          LET odr == b.deviceAt[<<r[1], "ODR">>]
          IN /\ odr \in DOMAIN b.registerAt /\ ReadOnly(b, b.registerAt[odr]) = {}
             /\ AsPlanned(b, n, m, odr)
    <3>1. ASSUME NEW port \in Ports
          PROVE  LET odr == b.deviceAt[<<port, "ODR">>]
                 IN /\ odr \in DOMAIN b.registerAt /\ ReadOnly(b, b.registerAt[odr]) = {}
                    /\ Known(b, k, b.registerAt[odr])
      BY OutputRegister
    <3>2. QED
      BY <3>1 DEF Follows
  <2>6. r[1] = "RTC" \/ r = <<"RCC", "BDCR">> => ~IsF4(b)
    BY <1>1 DEF WellPlaced
  <2>7. /\ r = <<"RTC", "CRL">> =>
             /\ On(b, m, "RTC", "CRL", "CNF") <=> On(b, n, "RTC", "CRL", "CNF")
             /\ Bits(b, "RTC", "CRL", "CNF") \cap Volatile(b, <<"RTC", "CRL">>) = {}
        /\ r = <<"RCC", "BDCR">> =>
             /\ On(b, m, "PWR", "CR", "DBP") <=> On(b, n, "PWR", "CR", "DBP")
             /\ BDRST(b) \cap Volatile(b, <<"RCC", "BDCR">>) = {}
    BY <2>6, FollowsModes DEF WellPlaced
  <2>8. r[1] \in Ports /\ r[2] \in {"BSRR", "BRR"} => v = w
    <3>1. ASSUME r[1] \in Ports, r[2] \in {"BSRR", "BRR"} PROVE Volatile(b, r) = {}
      BY <3>1 DEF Volatile, ReadOnly, ClearOnly, Toggles, Ports
    <3>2. QED
      BY <2>4, <3>1
  <2>9. QED
    BY <1>1, <1>2, <2>2, <2>4, <2>5, <2>7, <2>8, TakenAsPlanned
<1>8. QED
  BY <1>6, <1>7

\* When a wait has ended, the bits waited for are on, as planned.
LEMMA WaitFollows ==
  ASSUME NEW b, NEW k \in DOMAIN b.code, NEW m, WellPlaced(b), WellFormed(b), WaitsSound(b), IsPlan(b),
         DOMAIN m = DOMAIN b.registerAt, Follows(b, k, m), b.code[k].do = "wait", k # Len(b.code),
         Mask!test(b.code[k].m, Loaded(m, b.codeAt[b.code[k].m.reg]))
  PROVE  Follows(b, k + 1, m)
<1> DEFINE op == b.code[k]
           r == op.m.reg
           a == b.deviceAt[r]
           n == Plan(b)[k]
<1>1. r \in DOMAIN b.deviceAt /\ b.codeAt[r] = a
  BY DEF WellFormed, Accesses, At
<1>2. a \in DOMAIN b.registerAt /\ b.registerAt[a] = r
  BY <1>1 DEF WellPlaced
<1>3. Plan(b)[k + 1] = [n EXCEPT ![a] = @ \cup (op.m.set_mask \cap ReadOnly(b, r))]
  BY <1>1 DEF IsPlan, Ahead, Storing
<1>4. DOMAIN n = DOMAIN b.registerAt
  BY DEF IsPlan
<1>5. op.m.set_mask \subseteq m[a]
  <2>1. Mask!test(op.m, m[a])
    BY <1>1, <1>2 DEF Loaded
  <2>2. CASE op.m.clear_mask = op.m.set_mask
    <3>1. PICK x \in op.m.set_mask : op.m.set_mask = {x}
      BY <2>2 DEF WaitsSound
    <3>2. m[a] \cap op.m.clear_mask # {}
      BY <2>1, <2>2 DEF Mask!test, Mask!bitop_enabled
    <3>3. QED
      BY <2>2, <3>1, <3>2
  <2>3. CASE op.m.clear_mask # op.m.set_mask
    BY <2>1, <2>3 DEF Mask!test, Mask!bitop_enabled
  <2>4. QED
    BY <2>2, <2>3
<1>6. ASSUME NEW x \in DOMAIN b.registerAt, Known(b, k + 1, b.registerAt[x])
      PROVE  AsPlanned(b, Plan(b)[k + 1], m, x)
  <2>1. Known(b, k, b.registerAt[x])
    <3>1. k \in Nat \ {0} /\ ~Wipes(b, op)
      BY DEF WellFormed, Wipes
    <3>2. QED
      BY <1>6, <3>1, KnownNext
  <2>2. AsPlanned(b, n, m, x)
    BY <2>1 DEF Follows
  <2>3. QED
    BY <1>2, <1>3, <1>4, <1>5, <2>2 DEF AsPlanned, Volatile
<1>7. QED
  BY <1>6 DEF Follows

-----------------------------------------------------------------------------
(* What the hardware and the interrupts change. *)

\* One register changes.
Changed(m, a, new) == [m EXCEPT ![a] = new]

\* Its bits change that others than the program may change, and none goes off
\* that the plan has on.
Harmless(b, k, m, a, new) ==
  /\ new \ Volatile(b, b.registerAt[a]) = m[a] \ Volatile(b, b.registerAt[a])
  /\ m[a] \cap Plan(b)[k][a] \cap ReadOnly(b, b.registerAt[a]) \subseteq new

\* Then the registers are as planned as before.
LEMMA VolatileChange ==
  ASSUME NEW b, NEW k, NEW m, NEW a \in DOMAIN b.registerAt, NEW new,
         DOMAIN m = DOMAIN b.registerAt, Follows(b, k, m), Harmless(b, k, m, a, new)
  PROVE  Follows(b, k, Changed(m, a, new)) /\ DOMAIN Changed(m, a, new) = DOMAIN b.registerAt
BY DEF Follows, AsPlanned, Changed, Harmless

\* The switch stays where it is when another register changes.
LEMMA SwitchElsewhere ==
  ASSUME NEW b, NEW m, NEW a \in DOMAIN b.registerAt, NEW new, WellPlaced(b),
         DOMAIN m = DOMAIN b.registerAt, b.registerAt[a] # <<"RCC", "CFGR">>
  PROVE  SwitchOf(b, Changed(m, a, new)) = SwitchOf(b, m)
<1>1. /\ b.deviceAt[<<"RCC", "CFGR">>] \in DOMAIN b.registerAt
      /\ b.registerAt[b.deviceAt[<<"RCC", "CFGR">>]] = <<"RCC", "CFGR">>
  BY Placed DEF WellPlaced
<1>2. QED
  BY <1>1 DEF SwitchOf, Value, Changed

\* No store moves the switch.
LEMMA TakenKeepsSwitch ==
  ASSUME NEW b, NEW m, NEW a \in DOMAIN b.registerAt, NEW v, WellPlaced(b),
         DOMAIN m = DOMAIN b.registerAt
  PROVE  SwitchOf(b, Taken(b, m, a, v)) = SwitchOf(b, m)
<1> DEFINE r == b.registerAt[a]
           cfgr == b.deviceAt[<<"RCC", "CFGR">>]
<1>1. cfgr \in DOMAIN b.registerAt /\ b.registerAt[cfgr] = <<"RCC", "CFGR">>
  BY Placed DEF WellPlaced
<1>2. CASE r = <<"RCC", "CFGR">>
  <2>1. Taken(b, m, a, v) = [m EXCEPT ![a] = Plain(b, r, m[a], v)]
    BY <1>2 DEF Taken, Ports
  <2>2. SWS(b) = ReadOnly(b, r) /\ a = cfgr
    BY <1>2 DEF ReadOnly, SWS, WellPlaced
  <2>3. Plain(b, r, m[a], v) \cap ReadOnly(b, r) = m[a] \cap ReadOnly(b, r)
    BY PlainParts
  <2>4. QED
    BY <2>1, <2>2, <2>3 DEF SwitchOf, Value
<1>3. CASE r # <<"RCC", "CFGR">>
  <2>1. \A new : SwitchOf(b, Changed(m, a, new)) = SwitchOf(b, m)
    BY <1>3, SwitchElsewhere
  <2>2. ASSUME r[1] \in Ports
        PROVE  LET odr == b.deviceAt[<<r[1], "ODR">>]
               IN \A new : SwitchOf(b, Changed(m, odr, new)) = SwitchOf(b, m)
    <3>1. \A port \in Ports :
            /\ b.deviceAt[<<port, "ODR">>] \in DOMAIN b.registerAt
            /\ b.registerAt[b.deviceAt[<<port, "ODR">>]] = <<port, "ODR">>
      BY OutputRegister
    <3>2. ASSUME NEW odr \in DOMAIN b.registerAt, b.registerAt[odr] # <<"RCC", "CFGR">>, NEW new
          PROVE  SwitchOf(b, Changed(m, odr, new)) = SwitchOf(b, m)
      BY <3>2, SwitchElsewhere
    <3>3. QED
      BY <2>2, <3>1, <3>2
  <2>3. SwitchOf(b, [x \in DOMAIN m |-> IF x = a THEN BDRST(b)
                       ELSE IF Backup(b.registerAt[x]) THEN AfterReset(b)[x] ELSE m[x]]) = SwitchOf(b, m)
    <3>1. ~Backup(<<"RCC", "CFGR">>)
      BY DEF Backup
    <3>2. QED
      BY <1>1, <1>3, <3>1 DEF SwitchOf, Value
  <2>4. QED
    BY <2>1, <2>2, <2>3 DEF Taken, BDRST, Changed
<1>4. QED
  BY <1>2, <1>3

\* The hardware turns on a bit that only it changes, elsewhere than in the switch.
LEMMA SetsFollows ==
  ASSUME NEW p, NEW r, NEW f, <<p, r>> \in DOMAIN build.deviceAt, <<p, r>> # <<"RCC", "CFGR">>,
         Bits(build, p, r, f) \subseteq Volatile(build, <<p, r>>),
         WellPlaced(build), StartInv, Sets(p, r, f)
  PROVE  StartInv'
<1> DEFINE a == build.deviceAt[<<p, r>>]
<1>1. a \in DOMAIN build.registerAt /\ build.registerAt[a] = <<p, r>>
  BY DEF WellPlaced
<1>2. mem' = Changed(mem, a, mem[a] \cup Bits(build, p, r, f))
  BY <1>1 DEF Sets, StartInv, Changed
<1>3. UNCHANGED <<build, pc, reached>>
  BY DEF Sets
<1>4. Follows(build, pc, mem') /\ DOMAIN mem' = DOMAIN build.registerAt
  <2> DEFINE new == mem[a] \cup Bits(build, p, r, f)
  <2>1. Harmless(build, pc, mem, a, new)
    BY <1>1 DEF Harmless
  <2> HIDE DEF new, a
  <2>2. QED
    BY <1>1, <1>2, <2>1, VolatileChange DEF StartInv, new
<1>5. SwitchOf(build, mem') = SwitchOf(build, mem)
  BY <1>1, <1>2, SwitchElsewhere DEF StartInv
<1>6. SwitchInv(build, pc, mem')
  BY <1>5 DEF StartInv, SwitchInv
<1>7. QED
  BY <1>3, <1>4, <1>6 DEF StartInv

\* The oscillators, the PLL and the clock become ready.
LEMMA ReadyFollows ==
  ASSUME WellPlaced(build), StartInv, HseReady \/ PllReady \/ LseReady \/ RtcSync \/ RtcDone \/ Second
  PROVE  StartInv'
<1>1. <<"RCC", "CR">> \in DOMAIN build.deviceAt
  BY Placed
<1>2. HasRtc => <<"RCC", "BDCR">> \in DOMAIN build.deviceAt /\ <<"RTC", "CRL">> \in DOMAIN build.deviceAt
  BY Placed DEF HasRtc
<1>3. /\ Bits(build, "RCC", "CR", "HSERDY") \subseteq Volatile(build, <<"RCC", "CR">>)
      /\ Bits(build, "RCC", "CR", "PLLRDY") \subseteq Volatile(build, <<"RCC", "CR">>)
      /\ Bits(build, "RCC", "BDCR", "LSERDY") \subseteq Volatile(build, <<"RCC", "BDCR">>)
      /\ \A f \in {"RSF", "RTOFF", "SECF"} :
           Bits(build, "RTC", "CRL", f) \subseteq Volatile(build, <<"RTC", "CRL">>)
  BY DEF Volatile, ReadOnly, ClearOnly
<1>4. CASE HseReady
  BY <1>1, <1>3, <1>4, SetsFollows DEF HseReady
<1>5. CASE PllReady
  BY <1>1, <1>3, <1>5, SetsFollows DEF PllReady
<1>6. CASE LseReady
  BY <1>2, <1>3, <1>6, SetsFollows DEF LseReady
<1>7. CASE RtcSync
  BY <1>2, <1>3, <1>7, SetsFollows DEF RtcSync, RtcRuns
<1>8. CASE RtcDone
  BY <1>2, <1>3, <1>8, SetsFollows DEF RtcDone, RtcRuns
<1>9. CASE Second
  BY <1>2, <1>3, <1>9, SetsFollows DEF Second, RtcRuns
<1>10. QED
  BY <1>4, <1>5, <1>6, <1>7, <1>8, <1>9

\* The processor's clock is switched to the PLL, once the program asks for it.
LEMMA SwitchFollows ==
  ASSUME WellPlaced(build), SwitchSound(build), StartInv, Switch
  PROVE  StartInv'
<1> DEFINE cfgr == build.deviceAt[<<"RCC", "CFGR">>]
           new == (mem[cfgr] \ SWS(build)) \cup OnPll(build)
<1>1. cfgr \in DOMAIN build.registerAt /\ build.registerAt[cfgr] = <<"RCC", "CFGR">>
  BY Placed DEF WellPlaced
<1>2. mem' = Changed(mem, cfgr, new) /\ UNCHANGED <<build, pc, reached>>
  BY <1>1 DEF Switch, SWS, OnPll, StartInv, Changed
<1>3. SWS(build) = ReadOnly(build, <<"RCC", "CFGR">>) /\ SWS(build) \subseteq Volatile(build, <<"RCC", "CFGR">>)
  BY DEF SWS, ReadOnly, Volatile
<1>4. OnPll(build) \subseteq SWS(build)
  BY DEF SwitchSound
<1>5. SwitchOf(build, mem) = {}
  <2>1. SwitchOf(build, mem) # OnPll(build)
    <3>1. NumberOf(SWS(build), SwitchOf(build, mem)) # 2
      <4>1. SwitchOf(build, mem) = Bits(build, "RCC", "CFGR", "SWS") \cap Value(build, mem, "RCC", "CFGR")
        BY DEF SwitchOf, SWS
      <4>2. QED
        BY <4>1 DEF Switch, Number, SWS
    <3>2. QED
      BY <3>1 DEF SwitchSound
  <2>2. QED
    BY <2>1 DEF StartInv, SwitchInv
<1>6. mem[cfgr] \cap SWS(build) = {}
  BY <1>5 DEF SwitchOf, Value
<1>7. Follows(build, pc, mem') /\ DOMAIN mem' = DOMAIN build.registerAt
  <2>1. Harmless(build, pc, mem, cfgr, new)
    BY <1>1, <1>3, <1>4, <1>6 DEF Harmless
  <2> HIDE DEF new, cfgr
  <2>2. QED
    BY <1>1, <1>2, <2>1, VolatileChange DEF StartInv
<1>8. SwitchOf(build, mem') = OnPll(build)
  BY <1>1, <1>2, <1>4 DEF SwitchOf, Value, StartInv, Changed
<1>9. AsksForPll(build, Plan(build)[pc])
  <2>1. AsksForPll(build, mem)
    BY DEF AsksForPll, Switch
  <2>2. /\ <<"RCC", "CFGR">> \in DOMAIN build.deviceAt
        /\ Known(build, pc, <<"RCC", "CFGR">>)
    BY Placed, NotBackup
  <2>3. Volatile(build, <<"RCC", "CFGR">>) = SWS(build)
    BY DEF Volatile, ReadOnly, ClearOnly, Toggles, SWS
  <2>4. Value(build, mem, "RCC", "CFGR") \ SWS(build) = Value(build, Plan(build)[pc], "RCC", "CFGR") \ SWS(build)
    BY <2>2, <2>3, FollowsValue DEF StartInv
  <2>5. Bits(build, "RCC", "CFGR", "SW") \cap SWS(build) = {}
    BY DEF SwitchSound
  <2>6. Bits(build, "RCC", "CFGR", "SW") \cap Value(build, mem, "RCC", "CFGR")
          = Bits(build, "RCC", "CFGR", "SW") \cap Value(build, Plan(build)[pc], "RCC", "CFGR")
    BY <2>4, <2>5
  <2>7. QED
    BY <2>1, <2>6 DEF AsksForPll, Number
<1>10. QED
  BY <1>2, <1>7, <1>8, <1>9 DEF StartInv, SwitchInv

\* An interrupt drives its LED the other way.
LEMMA ToggleFollows ==
  ASSUME NEW k, NEW m, NEW port \in Ports, NEW pin \in Toggles(<<port, "ODR">>),
         WellPlaced(build), DOMAIN m = DOMAIN build.registerAt, Follows(build, k, m)
  PROVE  /\ Follows(build, k, Toggled(m, port, pin))
         /\ DOMAIN Toggled(m, port, pin) = DOMAIN build.registerAt
         /\ SwitchOf(build, Toggled(m, port, pin)) = SwitchOf(build, m)
<1> DEFINE odr == build.deviceAt[<<port, "ODR">>]
           new == IF pin \in m[odr] THEN m[odr] \ {pin} ELSE m[odr] \cup {pin}
<1>1. /\ odr \in DOMAIN build.registerAt /\ build.registerAt[odr] = <<port, "ODR">>
      /\ ReadOnly(build, <<port, "ODR">>) = {}
  BY OutputRegister
<1>2. Toggled(m, port, pin) = Changed(m, odr, new)
  BY <1>1 DEF Toggled, Changed
<1>3. Harmless(build, k, m, odr, new)
  BY <1>1 DEF Harmless, Volatile
<1>4. build.registerAt[odr] # <<"RCC", "CFGR">>
  BY <1>1
<1> HIDE DEF new, odr
<1>5. Follows(build, k, Toggled(m, port, pin)) /\ DOMAIN Toggled(m, port, pin) = DOMAIN build.registerAt
  BY <1>1, <1>2, <1>3, VolatileChange
<1>6. SwitchOf(build, Toggled(m, port, pin)) = SwitchOf(build, m)
  BY <1>1, <1>2, <1>4, SwitchElsewhere
<1>7. QED
  BY <1>5, <1>6

\* Interrupts leave the registers as planned.
LEMMA SystickFollows ==
  ASSUME WellPlaced(build), StartInv, SystickIsr
  PROVE  StartInv'
<1>1. UNCHANGED <<build, pc, reached>>
  BY DEF SystickIsr
<1>2. CASE mem' = mem
  BY <1>1, <1>2 DEF StartInv
<1>3. CASE mem' = ToggleLeds
  <2>1. "GPIOD" \in Ports /\ 12 \in Toggles(<<"GPIOD", "ODR">>) /\ 15 \in Toggles(<<"GPIOD", "ODR">>)
    BY DEF Ports, Toggles
  <2> DEFINE one == Toggled(mem, "GPIOD", 12)
  <2>2. /\ Follows(build, pc, one) /\ DOMAIN one = DOMAIN build.registerAt
        /\ SwitchOf(build, one) = SwitchOf(build, mem)
    BY <2>1, ToggleFollows DEF StartInv
  <2>3. mem' = Toggled(one, "GPIOD", 15)
    BY <1>3 DEF ToggleLeds
  <2> HIDE DEF one
  <2>4. /\ Follows(build, pc, mem') /\ DOMAIN mem' = DOMAIN build.registerAt
        /\ SwitchOf(build, mem') = SwitchOf(build, mem)
    BY <2>1, <2>2, <2>3, ToggleFollows
  <2>5. QED
    BY <1>1, <2>4 DEF StartInv, SwitchInv
<1>4. QED
  BY <1>2, <1>3 DEF SystickIsr

LEMMA RtcFollows ==
  ASSUME WellPlaced(build), StartInv, RtcIsr
  PROVE  StartInv'
<1> DEFINE a == build.deviceAt[<<"RTC", "CRL">>]
           v == mem[a] \ Bits(build, "RTC", "CRL", "SECF")
           cleared == Stored(build, mem, a, v)
           r == <<"RTC", "CRL">>
<1>1. UNCHANGED <<build, pc, reached>> /\ mem' = Toggled(cleared, "GPIOC", 12)
  BY DEF RtcIsr
<1>2. ~IsF4(build)
  BY DEF RtcIsr, RtcIrqOn
<1>3. a \in DOMAIN build.registerAt /\ build.registerAt[a] = r
  BY <1>2, Placed DEF WellPlaced
<1>4. /\ Follows(build, pc, cleared) /\ DOMAIN cleared = DOMAIN build.registerAt
      /\ SwitchOf(build, cleared) = SwitchOf(build, mem)
  <2>1. CASE Accepts(build, mem, r)
    <3> DEFINE new == Plain(build, r, mem[a], v)
    <3>1. Bits(build, r[1], r[2], "SECF") \subseteq Volatile(build, r)
      BY DEF Volatile, ClearOnly
    <3>2. Bits(build, "RTC", "CRL", "CNF") \cap Volatile(build, r) = {}
      BY <1>2 DEF WellPlaced
    <3>3. On(build, mem, "RTC", "CRL", "CNF") => Bits(build, "RTC", "CRL", "CNF") \subseteq v
      BY <3>1, <3>2 DEF On, Value
    <3>4. cleared = Changed(mem, a, new)
      BY <1>3, <2>1, <3>3 DEF Stored, Taken, Ports, StartInv, Changed
    <3>5. Harmless(build, pc, mem, a, new)
      BY <1>3, <3>1, PlainParts DEF Harmless
    <3> HIDE DEF new, a, cleared
    <3>6. QED
      BY <1>3, <3>4, <3>5, VolatileChange, SwitchElsewhere DEF StartInv
  <2>2. CASE ~Accepts(build, mem, r)
    BY <1>3, <2>2 DEF Stored, StartInv
  <2>3. QED
    BY <2>1, <2>2
<1>5. "GPIOC" \in Ports /\ 12 \in Toggles(<<"GPIOC", "ODR">>)
  BY DEF Ports, Toggles
<1> HIDE DEF cleared
<1>6. /\ Follows(build, pc, mem') /\ DOMAIN mem' = DOMAIN build.registerAt
      /\ SwitchOf(build, mem') = SwitchOf(build, mem)
  BY <1>1, <1>4, <1>5, ToggleFollows
<1>7. QED
  BY <1>1, <1>6 DEF StartInv, SwitchInv

-----------------------------------------------------------------------------
(* Resets and the main program. *)

\* Where the program starts, nothing is done, and the registers that a reset does
\* not keep are as planned.
LEMMA StartsThere ==
  ASSUME NEW b, NEW m, WellPlaced(b), WellFormed(b), SwitchSound(b), IsPlan(b),
         DOMAIN m = DOMAIN b.registerAt,
         \A a \in DOMAIN b.registerAt : Backup(b.registerAt[a]) \/ m[a] = AfterReset(b)[a]
  PROVE  /\ 1 \in DOMAIN b.code /\ {} \in Done(b, 1)
         /\ Follows(b, 1, m) /\ SwitchInv(b, 1, m)
<1>1. 1 \in DOMAIN b.code
  BY DEF WellFormed
<1>2. 1 .. 1 - 1 = {}
  OBVIOUS
<1>3. {} \in Done(b, 1)
  BY <1>2 DEF Done, Passed
<1>4. Follows(b, 1, m)
  BY <1>2 DEF Follows, AsPlanned, Known, Wiped, IsPlan
<1>5. SwitchOf(b, m) = {}
  <2> DEFINE cfgr == b.deviceAt[<<"RCC", "CFGR">>]
  <2>1. cfgr \in DOMAIN b.registerAt /\ b.registerAt[cfgr] = <<"RCC", "CFGR">>
    BY Placed DEF WellPlaced
  <2>2. ~Backup(<<"RCC", "CFGR">>)
    BY DEF Backup
  <2>3. m[cfgr] = b.resets[<<"RCC", "CFGR">>]
    BY <2>1, <2>2 DEF AfterReset
  <2>4. QED
    BY <2>3 DEF SwitchOf, Value, SwitchSound
<1>6. QED
  BY <1>1, <1>3, <1>4, <1>5 DEF SwitchInv

LEMMA ResetFollows ==
  ASSUME Sound(build), IsPlan(build), StartInv, Reset
  PROVE  StartInv'
<1>1. /\ DOMAIN mem' = DOMAIN build.registerAt /\ build' = build
      /\ \A a \in DOMAIN build.registerAt : Backup(build.registerAt[a]) \/ mem'[a] = AfterReset(build)[a]
  BY DEF Reset, StartInv
<1>2. pc' = 1 /\ reached' = {}
  BY DEF Reset
<1>3. /\ 1 \in DOMAIN build.code /\ {} \in Done(build, 1)
      /\ Follows(build, 1, mem') /\ SwitchInv(build, 1, mem')
  BY <1>1, StartsThere DEF Sound
<1>4. QED
  BY <1>1, <1>2, <1>3 DEF StartInv

\* The operations passed, one further on.
LEMMA PassedNext ==
  ASSUME NEW b, NEW k \in Nat \ {0}
  PROVE  /\ b.code[k].do = "reached" => Passed(b, k + 1) = Passed(b, k) \cup {b.code[k].what}
         /\ b.code[k].do # "reached" => Passed(b, k + 1) = Passed(b, k)
<1>1. 1 .. (k + 1) - 1 = (1 .. k - 1) \cup {k}
  OBVIOUS
<1>2. QED
  BY <1>1 DEF Passed

LEMMA MainFollows ==
  ASSUME Sound(build), IsPlan(build), StartInv, Main
  PROVE  StartInv'
<1> USE DEF Sound
<1>1. /\ build' = build /\ pc \in Nat \ {0} /\ Len(build.code) \in Nat \ {0}
      /\ DOMAIN build.code = 1 .. Len(build.code)
  BY DEF Main, StartInv, WellFormed
<1>2. CASE pc = Len(build.code)
  <2>1. Op.do = "reached"
    BY <1>2 DEF WellFormed, Op
  <2>2. /\ reached' = reached \cup {Op.what} /\ mem' = mem /\ pc' = pc
    BY <1>2, <2>1 DEF Main, Storing
  <2>3. reached' \in Done(build, pc)
    BY <1>2, <2>2 DEF StartInv, Done, Op
  <2>4. QED
    BY <1>1, <2>2, <2>3 DEF StartInv
<1>3. CASE pc # Len(build.code)
  <2>1. pc' = pc + 1 /\ pc + 1 \in DOMAIN build.code
    BY <1>1, <1>3 DEF Main, StartInv
  <2>2. reached = Passed(build, pc)
    BY <1>3 DEF StartInv, Done
  <2>3. CASE Op.do \in Storing
    <3>1. mem' = Executed(build, mem, Op) /\ reached' = reached
      BY <2>3 DEF Main, Storing
    <3>2. /\ Follows(build, pc + 1, mem') /\ DOMAIN mem' = DOMAIN build.registerAt
      BY <1>3, <2>3, <3>1, StoreFollows DEF StartInv, Op
    <3>3. SwitchOf(build, mem') = SwitchOf(build, mem)
      <4> DEFINE a == build.deviceAt[Op.m.reg]
                 v == Written(build, Op, mem[a])
      <4>1. a \in DOMAIN build.registerAt /\ mem' = Taken(build, mem, a, v)
        BY <2>3, <3>1, StoreIsTaken DEF StartInv, Op
      <4> HIDE DEF a, v
      <4>2. QED
        BY <4>1, TakenKeepsSwitch DEF StartInv
    <3>4. SwitchInv(build, pc + 1, mem')
      BY <1>3, <3>3 DEF StartInv, SwitchInv, SwitchSound
    <3>5. Passed(build, pc + 1) = reached'
      BY <1>1, <2>2, <2>3, <3>1, PassedNext DEF Storing, Op
    <3>6. QED
      BY <1>1, <2>1, <3>2, <3>4, <3>5 DEF StartInv, Done
  <2>4. CASE Op.do = "wait"
    <3>1. mem' = mem /\ reached' = reached
          /\ Mask!test(Op.m, Loaded(mem, build.codeAt[Op.m.reg]))
      BY <2>4 DEF Main
    <3>2. Follows(build, pc + 1, mem)
      BY <1>3, <2>4, <3>1, WaitFollows DEF StartInv, Op
    <3>3. SwitchInv(build, pc + 1, mem)
      BY <1>3 DEF StartInv, SwitchInv, SwitchSound
    <3>4. Passed(build, pc + 1) = reached'
      BY <1>1, <2>2, <2>4, <3>1, PassedNext DEF Op
    <3>5. QED
      BY <1>1, <2>1, <3>1, <3>2, <3>3, <3>4 DEF StartInv, Done
  <2>5. CASE Op.do = "reached"
    <3>1. mem' = mem /\ reached' = reached \cup {Op.what}
      BY <2>5 DEF Main
    <3>2. Follows(build, pc + 1, mem)
      <4>1. Plan(build)[pc + 1] = Plan(build)[pc]
        BY <1>3, <2>5 DEF IsPlan, Ahead, Storing, Op, StartInv
      <4>2. \A r : Known(build, pc + 1, r) <=> Known(build, pc, r)
        BY <1>1, <2>5, KnownNext DEF Wipes, Op
      <4>3. QED
        BY <4>1, <4>2 DEF Follows, StartInv
    <3>3. SwitchInv(build, pc + 1, mem)
      BY <1>3 DEF StartInv, SwitchInv, SwitchSound
    <3>4. Passed(build, pc + 1) = reached'
      BY <1>1, <2>2, <2>5, <3>1, PassedNext DEF Op
    <3>5. QED
      BY <1>1, <2>1, <3>1, <3>2, <3>3, <3>4 DEF StartInv, Done
  <2>6. QED
    BY <2>3, <2>4, <2>5 DEF Main, Storing
<1>4. QED
  BY <1>2, <1>3

-----------------------------------------------------------------------------
(* The device follows the plan. *)

\* Every program of the set is sound: conditions on code and plan alone, which
\* StartsAsPlanned has evaluated for each program.
ProgramsAreSound == \A b \in ProgramSet : StartSound(b)

Inv == build \in ProgramSet /\ StartInv

LEMMA InitInv ==
  ASSUME ProgramsAreSound, Init
  PROVE  Inv
<1>1. build \in ProgramSet /\ Sound(build) /\ IsPlan(build)
  BY PlanAssumption DEF ProgramsAreSound, StartSound, Init
<1>2. DOMAIN mem = DOMAIN build.registerAt /\ mem = AfterReset(build)
  BY DEF Init, AfterReset
<1>3. /\ 1 \in DOMAIN build.code /\ {} \in Done(build, 1)
      /\ Follows(build, 1, mem) /\ SwitchInv(build, 1, mem)
  BY <1>1, <1>2, StartsThere DEF Sound
<1>4. QED
  BY <1>1, <1>2, <1>3 DEF Inv, StartInv, Init

LEMMA NextInv ==
  ASSUME ProgramsAreSound, Inv, [Next]_vars
  PROVE  Inv'
<1>1. build \in ProgramSet /\ Sound(build) /\ IsPlan(build) /\ StartInv
  BY PlanAssumption DEF ProgramsAreSound, StartSound, Inv
<1>2. build' = build
  BY DEF Next, Main, Hardware, HseReady, PllReady, Switch, LseReady, RtcSync, RtcDone, Second, Sets,
         SystickIsr, RtcIsr, Reset, vars
<1>3. CASE Main
  BY <1>1, <1>2, <1>3, MainFollows DEF Inv
<1>4. CASE Hardware
  <2>1. CASE Switch
    BY <1>1, <1>2, <2>1, SwitchFollows DEF Inv, Sound
  <2>2. CASE HseReady \/ PllReady \/ LseReady \/ RtcSync \/ RtcDone \/ Second
    BY <1>1, <1>2, <2>2, ReadyFollows DEF Inv, Sound
  <2>3. QED
    BY <1>4, <2>1, <2>2 DEF Hardware
<1>5. CASE SystickIsr
  BY <1>1, <1>2, <1>5, SystickFollows DEF Inv, Sound
<1>6. CASE RtcIsr
  BY <1>1, <1>2, <1>6, RtcFollows DEF Inv, Sound
<1>7. CASE Reset
  BY <1>1, <1>2, <1>7, ResetFollows DEF Inv
<1>8. CASE UNCHANGED vars
  BY <1>1, <1>8 DEF Inv, StartInv, vars
<1>9. QED
  BY <1>3, <1>4, <1>5, <1>6, <1>7, <1>8 DEF Next

\* Of a sound program, in every state: the registers only the program changes are
\* what its plan has at the operation it is at, in whatever order oscillators and
\* PLL become ready, interrupts are taken and resets come; the backup registers
\* from their reset on.
THEOREM PlanIsFollowed == ProgramsAreSound => (Spec => []StartsAsPlanned)
<1> SUFFICES ASSUME ProgramsAreSound
             PROVE  Spec => []StartsAsPlanned
  OBVIOUS
<1>1. Init => Inv
  BY InitInv
<1>2. Inv /\ [Next]_vars => Inv'
  BY NextInv
<1>3. Inv => StartsAsPlanned
  BY DEF Inv, StartsAsPlanned, ProgramsAreSound
<1>4. QED
  BY <1>1, <1>2, <1>3, PTL DEF Spec

-----------------------------------------------------------------------------
(* What holds along the plans holds of the device. *)

\* What a state of a sound program is.
LEMMA InvIsSound ==
  ASSUME ProgramsAreSound, Inv
  PROVE  /\ StartSound(build) /\ WellPlaced(build) /\ IsPlan(build)
         /\ pc \in DOMAIN build.code /\ Follows(build, pc, mem) /\ reached \in Done(build, pc)
         /\ SwitchInv(build, pc, mem) /\ DOMAIN mem = DOMAIN build.registerAt
BY PlanAssumption DEF ProgramsAreSound, Inv, StartInv, StartSound, Sound

\* A register nobody but the program writes.
LEMMA QuietValue ==
  ASSUME NEW b, NEW k, NEW m, NEW p, NEW r, WellPlaced(b), Follows(b, k, m),
         <<p, r>> \in DOMAIN b.deviceAt, p # "RTC" \/ r \in {"CRL", "CRH"},
         <<p, r>> \notin {<<"RCC", "CR">>, <<"RCC", "CFGR">>, <<"RCC", "BDCR">>, <<"RTC", "CRL">>,
                          <<"GPIOC", "ODR">>, <<"GPIOD", "ODR">>}
  PROVE  Value(b, m, p, r) = Value(b, Plan(b)[k], p, r)
<1>1. Known(b, k, <<p, r>>)
  BY NotBackup
<1>2. Volatile(b, <<p, r>>) = {}
  BY QuietRegisters
<1>3. QED
  BY <1>1, <1>2, FollowsQuiet

\* The interrupts on are those of the plan.
LEMMA HandlersFollow ==
  ASSUME NEW b, NEW k, NEW m, NEW done, WellPlaced(b), Follows(b, k, m),
         HandlersReady(b, Plan(b)[k], done)
  PROVE  HandlersReady(b, m, done)
<1>1. TicksOn(b, m) <=> TicksOn(b, Plan(b)[k])
  <2>1. Value(b, m, "SCB", "STCSR") = Value(b, Plan(b)[k], "SCB", "STCSR")
    <3>1. <<"SCB", "STCSR">> \in DOMAIN b.deviceAt
      BY Placed
    <3>2. QED
      BY <3>1, QuietValue
  <2>2. QED
    BY <2>1 DEF TicksOn, On
<1>2. UsartIrqOn(b, m) <=> UsartIrqOn(b, Plan(b)[k])
  <2>1. Value(b, m, "NVIC", "ISER1") = Value(b, Plan(b)[k], "NVIC", "ISER1")
    <3>1. <<"NVIC", "ISER1">> \in DOMAIN b.deviceAt
      BY Placed
    <3>2. QED
      BY <3>1, QuietValue
  <2>2. QED
    BY <2>1 DEF UsartIrqOn
<1>3. RtcIrqOn(b, m) <=> RtcIrqOn(b, Plan(b)[k])
  <2>1. Value(b, m, "NVIC", "ISER0") = Value(b, Plan(b)[k], "NVIC", "ISER0")
    <3>1. <<"NVIC", "ISER0">> \in DOMAIN b.deviceAt
      BY Placed
    <3>2. QED
      BY <3>1, QuietValue
  <2>2. ASSUME ~IsF4(b) PROVE Value(b, m, "RTC", "CRH") = Value(b, Plan(b)[k], "RTC", "CRH")
    <3>1. <<"RTC", "CRH">> \in DOMAIN b.deviceAt
      BY <2>2, Placed
    <3>2. QED
      BY <3>1, QuietValue
  <2>3. QED
    BY <2>1, <2>2 DEF RtcIrqOn, On
<1>4. QED
  BY <1>1, <1>2, <1>3 DEF HandlersReady

\* In every state of a sound program an interrupt that may come finds its handler
\* in the vector table and memory initialised, after any reset.
THEOREM InterruptsServed == ProgramsAreSound => (Spec => []InterruptsHaveHandlers)
<1> SUFFICES ASSUME ProgramsAreSound
             PROVE  Spec => []InterruptsHaveHandlers
  OBVIOUS
<1>1. Init => Inv
  BY InitInv
<1>2. Inv /\ [Next]_vars => Inv'
  BY NextInv
<1>3. Inv => InterruptsHaveHandlers
  <2> SUFFICES ASSUME Inv PROVE HandlersReady(build, mem, reached)
    BY DEF InterruptsHaveHandlers
  <2>1. HandlersReady(build, Plan(build)[pc], reached)
    BY InvIsSound DEF StartSound, HandlersPlanned
  <2>2. QED
    BY <2>1, InvIsSound, HandlersFollow
<1>4. QED
  BY <1>1, <1>2, <1>3, PTL DEF Spec

\* The modes of the pins are those of the plan.
LEMMA PinsFollow ==
  ASSUME NEW b, NEW k, NEW m, NEW port \in Ports, NEW pin, WellPlaced(b), Follows(b, k, m)
  PROVE  PinMode(b, m, port, pin) = PinMode(b, Plan(b)[k], port, pin)
<1>1. CASE IsF4(b)
  <2>1. \A r \in {"MODER", "AFRL", "AFRH"} : <<port, r>> \in DOMAIN b.deviceAt
    BY <1>1, Placed
  <2>2. /\ Value(b, m, port, "MODER") = Value(b, Plan(b)[k], port, "MODER")
        /\ Value(b, m, port, "AFRL") = Value(b, Plan(b)[k], port, "AFRL")
        /\ Value(b, m, port, "AFRH") = Value(b, Plan(b)[k], port, "AFRH")
    BY <2>1, QuietValue DEF Ports
  <2>3. QED
    BY <1>1, <2>2 DEF PinMode
<1>2. CASE ~IsF4(b)
  <2>1. \A r \in {"CRL", "CRH"} : <<port, r>> \in DOMAIN b.deviceAt
    BY <1>2, Placed
  <2>2. /\ Value(b, m, port, "CRL") = Value(b, Plan(b)[k], port, "CRL")
        /\ Value(b, m, port, "CRH") = Value(b, Plan(b)[k], port, "CRH")
    BY <2>1, QuietValue DEF Ports
  <2>3. QED
    BY <1>2, <2>2 DEF PinMode
<1>3. QED
  BY <1>1, <1>2

\* The resources in effect are those of the plan.
LEMMA ResourcesFollow ==
  ASSUME NEW b, NEW k, NEW m, NEW done, WellPlaced(b), Follows(b, k, m), ResourcesPlanned(b),
         ResourcesRight(b, Plan(b)[k], done), DOMAIN Wired(b) \subseteq Ports,
         b.name = "stm32f103stk-demo" => ~IsF4(b), b.name = "stm32f4discovery" => IsF4(b)
  PROVE  ResourcesRight(b, m, done)
<1>1. MasksHold(b, Plan(b)[k]) => MasksHold(b, m)
  <2> SUFFICES ASSUME MasksHold(b, Plan(b)[k]), NEW j \in DOMAIN b.resources
               PROVE  Mask!Holds(b.resources[j], Value(b, m, b.resources[j].reg[1], b.resources[j].reg[2]))
    BY DEF MasksHold
  <2> DEFINE mask == b.resources[j]
             p == mask.reg[1]
             r == mask.reg[2]
  <2>1. /\ <<p, r>> \in DOMAIN b.deviceAt /\ Known(b, k, <<p, r>>)
        /\ mask.clear_mask \cap Volatile(b, <<p, r>>) = {}
    <3>1. /\ mask.reg \in DOMAIN b.deviceAt /\ ~Backup(mask.reg)
          /\ mask.clear_mask \cap Volatile(b, mask.reg) = {}
      BY DEF ResourcesPlanned
    <3>2. mask.reg = <<p, r>>
      BY <3>1 DEF WellPlaced
    <3>3. QED
      BY <3>1, <3>2 DEF Known
  <2>2. Mask!Holds(mask, Value(b, Plan(b)[k], p, r))
    BY DEF MasksHold
  <2> HIDE DEF p, r
  <2>3. Value(b, m, p, r) \ Volatile(b, <<p, r>>) = Value(b, Plan(b)[k], p, r) \ Volatile(b, <<p, r>>)
    BY <2>1, FollowsValue
  <2>4. Mask!Holds(mask, Value(b, m, p, r))
    BY <2>1, <2>2, <2>3 DEF Mask!Holds
  <2>5. QED
    BY <2>4 DEF p, r
<1>2. ClocksOn(b, Plan(b)[k]) => ClocksOn(b, m)
  <2>1. ASSUME NEW r \in {"APB1ENR", "APB2ENR", "AHB1ENR"}, <<"RCC", r>> \in DOMAIN b.deviceAt
        PROVE  Value(b, m, "RCC", r) = Value(b, Plan(b)[k], "RCC", r)
    BY <2>1, QuietValue
  <2>2. /\ <<"RCC", "APB1ENR">> \in DOMAIN b.deviceAt
        /\ IF IsF4(b) THEN <<"RCC", "AHB1ENR">> \in DOMAIN b.deviceAt
                       ELSE <<"RCC", "APB2ENR">> \in DOMAIN b.deviceAt
    BY Placed
  <2>3. QED
    BY <2>1, <2>2 DEF ClocksOn
<1>3. PinsWired(b, Plan(b)[k], done) => PinsWired(b, m, done)
  <2>1. \A port \in DOMAIN Wired(b) : \A pin : PinMode(b, m, port, pin) = PinMode(b, Plan(b)[k], port, pin)
    BY PinsFollow
  <2>2. QED
    BY <2>1 DEF PinsWired
<1>4. QED
  BY <1>1, <1>2, <1>3 DEF ResourcesRight

\* Once the list of resources is applied, in every state of a sound program each
\* of its masks is in effect in the device, the clocks are on, and the pins are as
\* the board has them wired.
THEOREM ResourcesStay == ProgramsAreSound => (Spec => []ResourcesInEffect)
<1> SUFFICES ASSUME ProgramsAreSound
             PROVE  Spec => []ResourcesInEffect
  OBVIOUS
<1>1. Init => Inv
  BY InitInv
<1>2. Inv /\ [Next]_vars => Inv'
  BY NextInv
<1>3. Inv => ResourcesInEffect
  <2> SUFFICES ASSUME Inv PROVE ResourcesRight(build, mem, reached)
    BY DEF ResourcesInEffect
  <2>1. ResourcesPlanned(build)
    BY InvIsSound DEF StartSound
  <2>2. ResourcesRight(build, Plan(build)[pc], reached)
    BY <2>1, InvIsSound DEF ResourcesPlanned
  <2>3. /\ DOMAIN Wired(build) \subseteq Ports
        /\ build.name = "stm32f103stk-demo" => ~IsF4(build)
        /\ build.name = "stm32f4discovery" => IsF4(build)
    BY <2>1 DEF ResourcesPlanned
  <2>4. QED
    BY <2>1, <2>2, <2>3, InvIsSound, ResourcesFollow
<1>4. QED
  BY <1>1, <1>2, <1>3, PTL DEF Spec

-----------------------------------------------------------------------------
(* Stores take effect. *)

\* A store to the set and reset register of a port drives its pins.
LEMMA PortIsDriven ==
  ASSUME NEW b, NEW m, NEW a \in DOMAIN b.registerAt, NEW v, NEW port \in Ports, WellPlaced(b),
         DOMAIN m = DOMAIN b.registerAt, b.registerAt[a] = <<port, "BSRR">>,
         \A x \in v : x \in 0 .. 31 /\ (x < 16 => x + 16 \notin v),
         NEW x \in v
  PROVE  x < 16 <=> (x % 16) \in Value(b, Taken(b, m, a, v), port, "ODR")
<1> DEFINE odr == b.deviceAt[<<port, "ODR">>]
           new == (m[odr] \ {k \in 0 .. 15 : k + 16 \in v}) \cup (v \cap 0 .. 15)
<1>1. odr \in DOMAIN m
  BY OutputRegister
<1>2. Value(b, Taken(b, m, a, v), port, "ODR") = new
  BY <1>1 DEF Taken, Value
<1>3. CASE x < 16
  <2>1. (x % 16) = x /\ x \in 0 .. 15
    BY <1>3
  <2>2. QED
    BY <1>2, <1>3, <2>1
<1>4. CASE ~(x < 16)
  <2>1. (x % 16) = x - 16 /\ x - 16 \in 0 .. 15 /\ (x - 16) + 16 = x
    BY <1>4
  <2>2. x - 16 \notin v
    BY <2>1
  <2>3. x - 16 \notin new
    BY <2>1, <2>2
  <2>4. QED
    BY <1>2, <1>4, <2>1, <2>3
<1>5. QED
  BY <1>3, <1>4

\* A flag of the clock is cleared.
LEMMA FlagIsCleared ==
  ASSUME NEW b, NEW m, NEW a \in DOMAIN b.registerAt, NEW mask,
         DOMAIN m = DOMAIN b.registerAt, b.registerAt[a] = <<"RTC", "CRL">>,
         mask \cap ReadOnly(b, <<"RTC", "CRL">>) = {}
  PROVE  Taken(b, m, a, m[a] \ mask)[a] \cap mask = {}
<1> DEFINE new == Plain(b, <<"RTC", "CRL">>, m[a], m[a] \ mask)
<1>1. new \cap mask = {}
  BY DEF Plain
<1>2. Taken(b, m, a, m[a] \ mask)[a] \in {new, new \ Bits(b, "RTC", "CRL", "RTOFF")}
  BY DEF Taken, Ports
<1> HIDE DEF new
<1>3. QED
  BY <1>1, <1>2

\* What an operation is for holds after it.
LEMMA StoreTakesEffect ==
  ASSUME NEW b, NEW k \in DOMAIN b.code, NEW m, WellPlaced(b), WellFormed(b), Accepted(b), IsPlan(b),
         DOMAIN m = DOMAIN b.registerAt, Follows(b, k, m), b.code[k].do \in Storing, k # Len(b.code),
         StoresPlanned(b)
  PROVE  Effect(b, Executed(b, m, b.code[k]), b.code[k])
<1> DEFINE op == b.code[k]
           r == op.m.reg
           a == b.deviceAt[r]
           v == Written(b, op, m[a])
           next == Executed(b, m, op)
           n == Plan(b)[k + 1]
<1>1. /\ a \in DOMAIN b.registerAt /\ b.registerAt[a] = r /\ r \in DOMAIN b.deviceAt
      /\ next = Taken(b, m, a, v)
  BY StoreIsTaken
<1>2. r = <<r[1], r[2]>>
  BY <1>1 DEF WellPlaced
<1>3. Follows(b, k + 1, next)
  BY StoreFollows
<1>4. Known(b, k + 1, <<r[1], r[2]>>)
  <2>1. Known(b, k, r) \/ (Backup(r) /\ Wipes(b, op))
    BY DEF Accepted, At, Wipes, Backup
  <2>2. k \in Nat \ {0}
    BY DEF WellFormed
  <2>3. QED
    BY <1>2, <2>1, <2>2, KnownNext
<1>5. Value(b, next, r[1], r[2]) \ Volatile(b, r) = Value(b, n, r[1], r[2]) \ Volatile(b, r)
  <2> DEFINE p == r[1]
             q == r[2]
  <2>1. <<p, q>> \in DOMAIN b.deviceAt /\ Known(b, k + 1, <<p, q>>) /\ r = <<p, q>>
    BY <1>1, <1>2, <1>4
  <2> HIDE DEF p, q, n, next
  <2>2. Value(b, next, p, q) \ Volatile(b, <<p, q>>) = Value(b, n, p, q) \ Volatile(b, <<p, q>>)
    <3>1. Value(b, next, p, q) \ Volatile(b, <<p, q>>) = Value(b, Plan(b)[k + 1], p, q) \ Volatile(b, <<p, q>>)
      <4> DEFINE j == k + 1
      <4>1. Follows(b, j, next) /\ Known(b, j, <<p, q>>)
        BY <1>3, <2>1
      <4> HIDE DEF j, r, op
      <4>2. Value(b, next, p, q) \ Volatile(b, <<p, q>>) = Value(b, Plan(b)[j], p, q) \ Volatile(b, <<p, q>>)
        BY <2>1, <4>1, FollowsValue
      <4>3. QED
        BY <4>2 DEF j
    <3>2. QED
      BY <3>1 DEF n
  <2>3. QED
    BY <2>1, <2>2 DEF p, q
<1>6. StorePlanned(b, op, n)
  BY DEF StoresPlanned
<1>7. Value(b, next, r[1], r[2]) = next[a]
  BY <1>2 DEF Value
<1>8. CASE (op.m.set_mask \cup op.m.clear_mask) \cap Volatile(b, r) = {} /\ Effect(b, n, op) /\ op.do # "store"
  <2> DEFINE mine == Value(b, next, r[1], r[2])
             planned == Value(b, n, r[1], r[2])
  <2>1. /\ mine \ Volatile(b, r) = planned \ Volatile(b, r)
        /\ op.do \in {"set", "reset_to"} => planned \cap (op.m.clear_mask \cup op.m.set_mask) = op.m.set_mask
        /\ op.do = "clear" => planned \cap op.m.clear_mask = {}
    BY <1>5, <1>8 DEF Effect
  <2> HIDE DEF mine, planned
  <2>2. /\ op.do \in {"set", "reset_to"} => mine \cap (op.m.clear_mask \cup op.m.set_mask) = op.m.set_mask
        /\ op.do = "clear" => mine \cap op.m.clear_mask = {}
    BY <1>8, <2>1
  <2> HIDE DEF op, next
  <2>3. Effect(b, next, op)
    BY <1>8, <2>2 DEF Effect, mine
  <2>4. QED
    BY <2>3 DEF op, next
<1>9. CASE op.do = "clear" /\ r = <<"RTC", "CRL">> /\ op.m.clear_mask \cap ReadOnly(b, r) = {}
  <2>1. v = m[a] \ op.m.clear_mask
    BY <1>9 DEF Written, Mask!ValueClear
  <2>2. next[a] \cap op.m.clear_mask = {}
    <3> HIDE DEF v, a, next, r, op
    <3>1. next = Taken(b, m, a, m[a] \ op.m.clear_mask) /\ b.registerAt[a] = <<"RTC", "CRL">>
      BY <1>1, <1>9, <2>1
    <3>2. \A mask : mask \cap ReadOnly(b, <<"RTC", "CRL">>) = {} =>
            Taken(b, m, a, m[a] \ mask)[a] \cap mask = {}
      BY <1>1, <3>1, FlagIsCleared
    <3>3. QED
      BY <1>9, <3>1, <3>2
  <2>3. QED
    BY <1>7, <1>9, <2>2 DEF Effect
<1>10. CASE op.do = "store" /\ r[2] = "BSRR"
  <2>1. /\ r[1] \in Ports
        /\ \A x \in op.m.set_mask : x \in 0 .. 31 /\ (x < 16 => x + 16 \notin op.m.set_mask)
    BY <1>6, <1>10 DEF StorePlanned
  <2>2. v = op.m.set_mask /\ b.registerAt[a] = <<r[1], "BSRR">>
    BY <1>1, <1>2, <1>10 DEF Written
  <2>3. \A x \in op.m.set_mask : x < 16 <=> (x % 16) \in Value(b, Taken(b, m, a, v), r[1], "ODR")
    <3> HIDE DEF v, a, r
    <3>1. QED
      BY <1>1, <2>1, <2>2, PortIsDriven
  <2>4. QED
    BY <1>1, <1>10, <2>3 DEF Effect
<1>11. CASE op.do = "store" /\ r[2] # "BSRR"
  <2>1. Volatile(b, r) = {} /\ Effect(b, n, op)
    BY <1>6, <1>11 DEF StorePlanned
  <2>2. Value(b, next, r[1], r[2]) = Value(b, n, r[1], r[2])
    BY <1>5, <2>1
  <2>3. QED
    BY <1>11, <2>1, <2>2 DEF Effect
<1>12. QED
  BY <1>6, <1>8, <1>9, <1>10, <1>11 DEF StorePlanned, Storing

\* Each operation of a sound program takes effect: its register is where the code
\* writes it, has its clock, and is neither protected nor busy at that moment.
THEOREM StoresWork == ProgramsAreSound => (Spec => StoresTakeEffect)
<1> SUFFICES ASSUME ProgramsAreSound
             PROVE  Spec => StoresTakeEffect
  OBVIOUS
<1>1. Init => Inv
  BY InitInv
<1>2. Inv /\ [Next]_vars => Inv'
  BY NextInv
<1>3. Inv /\ [Next]_vars => [pc' = pc + 1 => Effect(build, mem', Op)]_vars
  <2> SUFFICES ASSUME Inv, Next, pc' = pc + 1
               PROVE  Effect(build, mem', Op)
    OBVIOUS
  <2>1. /\ Sound(build) /\ StoresPlanned(build) /\ IsPlan(build)
        /\ pc \in DOMAIN build.code /\ Follows(build, pc, mem) /\ DOMAIN mem = DOMAIN build.registerAt
    BY InvIsSound DEF StartSound
  <2>2. pc \in Nat \ {0} /\ Len(build.code) \in Nat
    BY <2>1 DEF Sound, WellFormed
  <2>3. Main
    BY <2>2 DEF Next, Hardware, HseReady, PllReady, Switch, LseReady, RtcSync, RtcDone, Second, Sets,
         SystickIsr, RtcIsr, Reset
  <2>4. pc # Len(build.code)
    BY <2>2, <2>3 DEF Main
  <2>5. CASE Op.do \in Storing
    <3>1. mem' = Executed(build, mem, Op)
      BY <2>3, <2>5 DEF Main, Storing
    <3>2. QED
      BY <2>1, <2>4, <2>5, <3>1, StoreTakesEffect DEF Sound, Op
  <2>6. CASE Op.do \notin Storing
    BY <2>6 DEF Effect, Storing
  <2>7. QED
    BY <2>5, <2>6
<1>4. QED
  BY <1>1, <1>2, <1>3, PTL DEF Spec, StoresTakeEffect

-----------------------------------------------------------------------------
(* The clocks. *)

\* Registers m and n have the same contents where the clocks are configured.
SameClocks(b, m, n) ==
  /\ Value(b, m, "RCC", "CFGR") = Value(b, n, "RCC", "CFGR")
  /\ Value(b, m, "FLASH", "ACR") = Value(b, n, "FLASH", "ACR")
  /\ Value(b, m, "SCB", "STRVR") = Value(b, n, "SCB", "STRVR")
  /\ Value(b, m, "USART2", "BRR") = Value(b, n, "USART2", "BRR")
  /\ IsF4(b) => Value(b, m, "RCC", "PLLCFGR") = Value(b, n, "RCC", "PLLCFGR")

\* Then the frequencies are the same,
LEMMA SameFrequencies ==
  ASSUME NEW b, NEW m, NEW n, SameClocks(b, m, n)
  PROVE  /\ Hclk(b, m) = Hclk(b, n)
         /\ \A f : Pclk(b, m, f) = Pclk(b, n, f)
<1>1. \A f : /\ Number(b, m, "RCC", "CFGR", f) = Number(b, n, "RCC", "CFGR", f)
             /\ On(b, m, "RCC", "CFGR", f) <=> On(b, n, "RCC", "CFGR", f)
  BY DEF SameClocks, Number, On
<1>2. ASSUME IsF4(b)
      PROVE  \A f : /\ Number(b, m, "RCC", "PLLCFGR", f) = Number(b, n, "RCC", "PLLCFGR", f)
                    /\ On(b, m, "RCC", "PLLCFGR", f) <=> On(b, n, "RCC", "PLLCFGR", f)
  BY <1>2 DEF SameClocks, Number, On
<1>3. SysClk(b, m) = SysClk(b, n)
  <2>1. CASE IsF4(b)
    BY <1>1, <1>2, <2>1 DEF SysClk
  <2>2. CASE ~IsF4(b)
    BY <1>1, <2>2 DEF SysClk
  <2>3. QED
    BY <2>1, <2>2
<1>4. Hclk(b, m) = Hclk(b, n)
  BY <1>1, <1>3 DEF Hclk
<1>5. \A f : Pclk(b, m, f) = Pclk(b, n, f)
  BY <1>1, <1>4 DEF Pclk
<1>6. QED
  BY <1>4, <1>5

\* and with the same frequencies the clocks are as right.
LEMMA SameBuses ==
  ASSUME NEW b, NEW m, NEW n, Hclk(b, m) = Hclk(b, n), \A f : Pclk(b, m, f) = Pclk(b, n, f),
         BusesInRange(b, n)
  PROVE  BusesInRange(b, m)
BY DEF BusesInRange

LEMMA SameFlash ==
  ASSUME NEW b, NEW m, NEW n, Hclk(b, m) = Hclk(b, n), FlashKeepsUp(b, n),
         Number(b, m, "FLASH", "ACR", "LATENCY") = Number(b, n, "FLASH", "ACR", "LATENCY")
  PROVE  FlashKeepsUp(b, m)
BY DEF FlashKeepsUp

LEMMA SameRates ==
  ASSUME NEW b, NEW m, NEW n, Hclk(b, m) = Hclk(b, n), Pclk(b, m, "PPRE1") = Pclk(b, n, "PPRE1"),
         Number(b, m, "SCB", "STRVR", "bits") = Number(b, n, "SCB", "STRVR", "bits"),
         Number(b, m, "USART2", "BRR", "DIV_Mantissa") = Number(b, n, "USART2", "BRR", "DIV_Mantissa"),
         Number(b, m, "USART2", "BRR", "DIV_Fraction") = Number(b, n, "USART2", "BRR", "DIV_Fraction"),
         RatesAsDeclared(b, n)
  PROVE  RatesAsDeclared(b, m)
BY SMT DEF RatesAsDeclared

LEMMA SameSecond ==
  ASSUME NEW b, NEW m, NEW n,
         Number(b, m, "RTC", "PRLH", "bits") = Number(b, n, "RTC", "PRLH", "bits"),
         Number(b, m, "RTC", "PRLL", "bits") = Number(b, n, "RTC", "PRLL", "bits"),
         SecondAsDeclared(b, n)
  PROVE  SecondAsDeclared(b, m)
BY SMT DEF SecondAsDeclared

LEMMA SameClocksRight ==
  ASSUME NEW b, NEW m, NEW n, NEW done, SameClocks(b, m, n),
         "lcd::init, nrf::init" \in done =>
           /\ Value(b, m, "RTC", "PRLH") = Value(b, n, "RTC", "PRLH")
           /\ Value(b, m, "RTC", "PRLL") = Value(b, n, "RTC", "PRLL"),
         ClocksRight(b, n, done)
  PROVE  ClocksRight(b, m, done)
<1>1. Hclk(b, m) = Hclk(b, n) /\ \A f : Pclk(b, m, f) = Pclk(b, n, f)
  BY SameFrequencies
<1>2. \A f : /\ Number(b, m, "FLASH", "ACR", f) = Number(b, n, "FLASH", "ACR", f)
             /\ Number(b, m, "SCB", "STRVR", f) = Number(b, n, "SCB", "STRVR", f)
             /\ Number(b, m, "USART2", "BRR", f) = Number(b, n, "USART2", "BRR", f)
  BY DEF SameClocks, Number
<1>3. FlashKeepsUp(b, m)
  BY <1>1, <1>2, SameFlash DEF ClocksRight
<1>4. BusesInRange(b, m)
  BY <1>1, SameBuses DEF ClocksRight
<1>5. ASSUME "configured" \in done PROVE RatesAsDeclared(b, m)
  BY <1>1, <1>2, <1>5, SameRates DEF ClocksRight
<1>6. ASSUME "lcd::init, nrf::init" \in done PROVE SecondAsDeclared(b, m)
  <2>1. /\ Number(b, m, "RTC", "PRLH", "bits") = Number(b, n, "RTC", "PRLH", "bits")
        /\ Number(b, m, "RTC", "PRLL", "bits") = Number(b, n, "RTC", "PRLL", "bits")
    BY <1>6 DEF Number
  <2>2. QED
    BY <1>6, <2>1, SameSecond DEF ClocksRight
<1>7. QED
  BY <1>3, <1>4, <1>5, <1>6 DEF ClocksRight

\* The device's clocks are configured as the plan has them, with the switch where
\* it is.
LEMMA ClocksFollow ==
  ASSUME NEW b, NEW k, NEW m, WellPlaced(b), Follows(b, k, m), DOMAIN Plan(b)[k] = DOMAIN b.registerAt
  PROVE  SameClocks(b, m, Switched(b, Plan(b)[k], SwitchOf(b, m)))
<1> DEFINE n == Plan(b)[k]
           cfgr == b.deviceAt[<<"RCC", "CFGR">>]
           sw == Switched(b, n, SwitchOf(b, m))
<1>1. /\ <<"RCC", "CFGR">> \in DOMAIN b.deviceAt
      /\ cfgr \in DOMAIN b.registerAt /\ b.registerAt[cfgr] = <<"RCC", "CFGR">>
  BY Placed DEF WellPlaced
<1>2. ASSUME NEW p, NEW r, <<p, r>> \in DOMAIN b.deviceAt, <<p, r>> # <<"RCC", "CFGR">>
      PROVE  Value(b, sw, p, r) = Value(b, n, p, r)
  <2>1. b.deviceAt[<<p, r>>] \in DOMAIN n /\ b.deviceAt[<<p, r>>] # cfgr
    BY <1>1, <1>2 DEF WellPlaced
  <2>2. QED
    BY <2>1 DEF Switched, Value
<1>3. Value(b, m, "RCC", "CFGR") = Value(b, sw, "RCC", "CFGR")
  <2>1. Volatile(b, <<"RCC", "CFGR">>) = SWS(b)
    BY DEF Volatile, ReadOnly, ClearOnly, Toggles, SWS
  <2>2. Known(b, k, <<"RCC", "CFGR">>)
    BY NotBackup
  <2>3. Value(b, m, "RCC", "CFGR") \ SWS(b) = Value(b, n, "RCC", "CFGR") \ SWS(b)
    BY <1>1, <2>1, <2>2, FollowsValue
  <2>4. Value(b, sw, "RCC", "CFGR") = (Value(b, n, "RCC", "CFGR") \ SWS(b)) \cup SwitchOf(b, m)
    BY <1>1 DEF Switched, Value
  <2>5. QED
    BY <2>3, <2>4 DEF SwitchOf
<1>4. /\ Value(b, m, "FLASH", "ACR") = Value(b, n, "FLASH", "ACR")
      /\ Value(b, m, "SCB", "STRVR") = Value(b, n, "SCB", "STRVR")
      /\ Value(b, m, "USART2", "BRR") = Value(b, n, "USART2", "BRR")
  <2>1. /\ <<"FLASH", "ACR">> \in DOMAIN b.deviceAt /\ <<"SCB", "STRVR">> \in DOMAIN b.deviceAt
        /\ <<"USART2", "BRR">> \in DOMAIN b.deviceAt
    BY Placed
  <2>2. QED
    BY <2>1, QuietValue
<1>5. ASSUME IsF4(b) PROVE Value(b, m, "RCC", "PLLCFGR") = Value(b, n, "RCC", "PLLCFGR")
  <2>1. <<"RCC", "PLLCFGR">> \in DOMAIN b.deviceAt
    BY <1>5, Placed
  <2>2. QED
    BY <2>1, QuietValue
<1>6. QED
  <2> HIDE DEF sw, n
  <2>1. /\ Value(b, sw, "FLASH", "ACR") = Value(b, n, "FLASH", "ACR")
        /\ Value(b, sw, "SCB", "STRVR") = Value(b, n, "SCB", "STRVR")
        /\ Value(b, sw, "USART2", "BRR") = Value(b, n, "USART2", "BRR")
    BY <1>2, Placed
  <2>2. ASSUME IsF4(b) PROVE Value(b, sw, "RCC", "PLLCFGR") = Value(b, n, "RCC", "PLLCFGR")
    BY <1>2, <2>2, Placed
  <2>3. SameClocks(b, m, sw)
    BY <1>3, <1>4, <1>5, <2>1, <2>2 DEF SameClocks
  <2>4. QED
    BY <2>3 DEF sw, n

\* The second is as planned once the backup registers are reset.
LEMMA SecondFollows ==
  ASSUME NEW b, NEW k, NEW m, NEW s, NEW r \in {"PRLH", "PRLL"}, WellPlaced(b), Follows(b, k, m),
         DOMAIN Plan(b)[k] = DOMAIN b.registerAt, ~IsF4(b), Wiped(b, k)
  PROVE  Value(b, m, "RTC", r) = Value(b, Switched(b, Plan(b)[k], s), "RTC", r)
<1>1. <<"RTC", r>> \in DOMAIN b.deviceAt /\ <<"RCC", "CFGR">> \in DOMAIN b.deviceAt
  BY Placed
<1>2. Known(b, k, <<"RTC", r>>) /\ Volatile(b, <<"RTC", r>>) = {}
  BY QuietRegisters DEF Known
<1>3. Value(b, m, "RTC", r) = Value(b, Plan(b)[k], "RTC", r)
  BY <1>1, <1>2, FollowsQuiet
<1>4. b.deviceAt[<<"RTC", r>>] \in DOMAIN Plan(b)[k] /\ b.deviceAt[<<"RTC", r>>] # b.deviceAt[<<"RCC", "CFGR">>]
  BY <1>1 DEF WellPlaced
<1>5. QED
  BY <1>3, <1>4 DEF Switched, Value

\* At every moment of the start of a sound program, also after a reset, the flash
\* memory keeps up with the processor and the buses are within their limits; once
\* configured, the frequencies are those the program declares.
THEOREM ClocksStayRight == ProgramsAreSound => (Spec => []ClocksAreRight)
<1> SUFFICES ASSUME ProgramsAreSound
             PROVE  Spec => []ClocksAreRight
  OBVIOUS
<1>1. Init => Inv
  BY InitInv
<1>2. Inv /\ [Next]_vars => Inv'
  BY NextInv
<1>3. Inv => ClocksAreRight
  <2> SUFFICES ASSUME Inv PROVE ClocksRight(build, mem, reached)
    BY DEF ClocksAreRight
  <2> DEFINE n == Plan(build)[pc]
             s == SwitchOf(build, mem)
             sw == Switched(build, n, s)
  <2>1. /\ ClocksPlanned(build) /\ WellPlaced(build) /\ DOMAIN n = DOMAIN build.registerAt
        /\ pc \in DOMAIN build.code /\ Follows(build, pc, mem) /\ reached \in Done(build, pc)
    BY InvIsSound DEF StartSound, IsPlan
  <2>2. s \in Switches(build, n)
    <3>1. s \in {{}, OnPll(build)} /\ (s # {} => AsksForPll(build, n))
      BY InvIsSound DEF SwitchInv
    <3>2. SwitchOf(build, n) \subseteq s
      <4>1. <<"RCC", "CFGR">> \in DOMAIN build.deviceAt /\ Known(build, pc, <<"RCC", "CFGR">>)
        BY <2>1, Placed, NotBackup
      <4>2. Value(build, n, "RCC", "CFGR") \cap ReadOnly(build, <<"RCC", "CFGR">>) \subseteq Value(build, mem, "RCC", "CFGR")
        BY <2>1, <4>1, FollowsValue
      <4>3. ReadOnly(build, <<"RCC", "CFGR">>) = SWS(build)
        BY DEF ReadOnly, SWS
      <4>4. QED
        BY <4>2, <4>3 DEF SwitchOf
    <3>3. QED
      BY <3>1, <3>2 DEF Switches
  <2>3. /\ ClocksRight(build, sw, reached)
        /\ "lcd::init, nrf::init" \in reached => ~IsF4(build) /\ Wiped(build, pc)
    BY <2>1, <2>2 DEF ClocksPlanned
  <2>4. SameClocks(build, mem, sw)
    BY <2>1, ClocksFollow
  <2>5. "lcd::init, nrf::init" \in reached =>
          /\ Value(build, mem, "RTC", "PRLH") = Value(build, sw, "RTC", "PRLH")
          /\ Value(build, mem, "RTC", "PRLL") = Value(build, sw, "RTC", "PRLL")
    BY <2>1, <2>3, SecondFollows
  <2>6. QED
    BY <2>3, <2>4, <2>5, SameClocksRight
<1>4. QED
  BY <1>1, <1>2, <1>3, PTL DEF Spec

-----------------------------------------------------------------------------
(* The divisor of the baud rate. *)

Driver == INSTANCE Resources

\* A product is no less than that of a smaller factor.
LEMMA TimesGrows ==
  ASSUME NEW x \in Int, NEW y \in Int, NEW v \in Nat, x <= y
  PROVE  x * v <= y * v
<1>1. (y - x) * v >= 0
  <2>1. y - x \in Nat
    OBVIOUS
  <2>2. \A n \in Nat : n * v >= 0
    OBVIOUS
  <2>3. QED
    BY <2>1, <2>2
<1>2. (y - x) * v = y * v - x * v
  OBVIOUS
<1>3. QED
  BY <1>1, <1>2

\* The divisor usart::baud_rate<> computes in two roundings, the first in
\* hundredths and the second to sixteenths, is for every clock and every rate
\* within two thirds of a sixteenth of the exact one, and no more than half of one
\* above.  A fraction of 16 is a carry the register's field has no bit for.
THEOREM DivisorIsNear ==
  ASSUME NEW p, NEW pclk \in Nat, NEW value \in Nat \ {0}
  PROVE  LET masks == Driver!baud_rate(p, pclk, value)
             mant == masks[1].value
             fraq == masks[2].value
             brr == mant * 16 + fraq
         IN /\ mant \in Nat /\ fraq \in 0 .. 16
            /\ 100 * pclk - 66 * value <= (100 * brr) * value
            /\ (100 * brr) * value <= 100 * pclk + 50 * value
<1> DEFINE div == (pclk * 25) \div (4 * value)
           mant == div \div 100
           rest == div - mant * 100
           fraq == (rest * 16 + 50) \div 100
           brr == mant * 16 + fraq
<1>1. /\ Driver!baud_rate(p, pclk, value)[1].value = mant
      /\ Driver!baud_rate(p, pclk, value)[2].value = fraq
  BY DEF Driver!baud_rate, Driver!regval
<1>2. /\ div \in Nat
      /\ (4 * value) * div <= pclk * 25 /\ pclk * 25 < (4 * value) * div + 4 * value
  <2> DEFINE x == pclk * 25
             y == 4 * value
  <2>1. x \in Nat /\ y \in Nat /\ y > 0
    OBVIOUS
  <2> HIDE DEF x, y
  <2>2. /\ x \div y \in Nat
        /\ y * (x \div y) <= x /\ x < y * (x \div y) + y
    BY <2>1
  <2>3. QED
    BY <2>2 DEF x, y
<1> HIDE DEF div
<1>3. mant \in Nat /\ rest \in 0 .. 99
  BY <1>2
<1> HIDE DEF mant
<1>4. rest * 16 + 50 \in 50 .. 1634 /\ div = mant * 100 + rest
  BY <1>2, <1>3
<1> HIDE DEF rest
<1>5. /\ fraq \in 0 .. 16
      /\ 100 * fraq <= rest * 16 + 50 /\ rest * 16 + 50 < 100 * fraq + 100
  BY <1>3, <1>4
<1> HIDE DEF fraq
<1>6. /\ 16 * div - 50 <= 100 * brr /\ 100 * brr <= 16 * div + 50 /\ brr \in Nat
  BY <1>2, <1>3, <1>4, <1>5
<1> HIDE DEF brr
<1>7. /\ (16 * div - 50) * value <= (100 * brr) * value
      /\ (100 * brr) * value <= (16 * div + 50) * value
  BY <1>2, <1>6, TimesGrows
<1>8. /\ (16 * div - 50) * value = 4 * ((4 * value) * div) - 50 * value
      /\ (16 * div + 50) * value = 4 * ((4 * value) * div) + 50 * value
  BY <1>2
<1>9. /\ 100 * pclk - 66 * value <= (100 * brr) * value
      /\ (100 * brr) * value <= 100 * pclk + 50 * value
  <2> DEFINE whole == (4 * value) * div
             scaled == (100 * brr) * value
  <2>1. whole \in Nat /\ scaled \in Nat
    BY <1>2, <1>6
  <2>2. 4 * whole - 50 * value <= scaled /\ scaled <= 4 * whole + 50 * value
    BY <1>7, <1>8
  <2>3. whole <= pclk * 25 /\ pclk * 25 < whole + 4 * value
    BY <1>2
  <2> HIDE DEF whole, scaled
  <2>4. 100 * pclk - 66 * value <= scaled /\ scaled <= 100 * pclk + 50 * value
    BY <2>1, <2>2, <2>3
  <2>5. QED
    BY <2>4 DEF scaled
<1>10. QED
  BY <1>1, <1>3, <1>5, <1>9 DEF brr

-----------------------------------------------------------------------------
(* The vector table. *)

Irq == INSTANCE Interrupts

\* In the vector table of every device, made of whatever handlers have no number
\* twice, the handler of a number is in the entry the core takes for it, 16 further
\* on with the stack pointer before the table; where nobody handles a number, or it
\* is reserved, is the default handler.
THEOREM HandlersInPlace ==
  ASSUME NEW d \in DOMAIN Irq!Devices, NEW handlers, NEW default, Irq!unique_irq_handlers(handlers),
         NEW n \in -15 .. Irq!Devices[d].numof - 1
  PROVE  LET entry == Irq!make_vector_table(d, handlers, default)[n + 16]
         IN /\ \A h \in handlers : h.irqn = n /\ ~Irq!reserved_irqn(n) => entry = h.isr
            /\ (\A h \in handlers : h.irqn # n) \/ Irq!reserved_irqn(n) => entry = default
<1> DEFINE numof == Irq!Devices[d].numof
           entry == Irq!make_vector_table(d, handlers, default)[n + 16]
           there == Irq!irqn_list(handlers, n)
<1>1. numof \in Nat
  BY DEF Irq!Devices
<1> HIDE DEF numof
<1>2. n \in Int /\ n + 16 \in 1 .. numof - (-15) /\ ((n + 16) - 1) + (-15) = n
  BY <1>1 DEF numof
<1>3. entry = Irq!irq_handler_type(handlers, n, default)
  <2>1. Irq!core_exception.reset = -15
    BY DEF Irq!core_exception
  <2>2. entry = Irq!irq_handler_type(handlers, ((n + 16) - 1) + (-15), default)
    BY <1>2, <2>1 DEF Irq!make_vector_table, numof
  <2>3. QED
    BY <1>2, <2>2
<1>4. ASSUME NEW h \in handlers, h.irqn = n, ~Irq!reserved_irqn(n)
      PROVE  entry = h.isr
  <2>1. there = {h}
    BY <1>4 DEF Irq!unique_irq_handlers
  <2>2. (CHOOSE x \in there : TRUE) = h
    BY <2>1
  <2>3. QED
    BY <1>3, <1>4, <2>1, <2>2 DEF Irq!irq_handler_type
<1>5. ASSUME (\A h \in handlers : h.irqn # n) \/ Irq!reserved_irqn(n)
      PROVE  entry = default
  <2>1. Irq!reserved_irqn(n) \/ there = {}
    BY <1>5 DEF Irq!irqn_list
  <2>2. QED
    BY <1>3, <2>1 DEF Irq!irq_handler_type
<1>6. QED
  BY <1>4, <1>5
=============================================================================
