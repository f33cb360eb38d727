-------------------------------- MODULE Demo --------------------------------
(***************************************************************************)
(* The main program of stm32f103stk-demo (projects/stm32f103stk-demo/src): *)
(* joystick, debouncer, screen, terminal and display, one after the other, *)
(* forever.  What it does on the bus is in SpiBus.                         *)
(*                                                                         *)
(* The clock and the stick move only where the program may look at them:   *)
(* anywhere else they commute with its steps.                              *)
(***************************************************************************)
EXTENDS SpiBus, Integers

CONSTANTS Rows,          \* rows of the item list (8)
          JoyRow,        \* the row that shows the position (2, from 0)
          WaitTicks,     \* wait_time_ticks of the debouncer (1)
          Word,          \* the clock is an unsigned integer below Word
          Voltages,      \* what the converter may read
          HeapEnd        \* stack pointer, in blocks above the heap's start

ASSUME DemoAssumption ==
  /\ Rows \in Nat \ {0} /\ JoyRow \in 0..Rows - 1
  /\ WaitTicks \in Nat /\ Word \in Nat /\ WaitTicks < Word
  /\ Voltages \subseteq 0..4095 /\ HeapEnd \in Nat

VARIABLES pc,          \* where the main program is
          stick,       \* voltage the stick gives
          adc,         \* converter: on, converting, EOC, data register
          systick,     \* systick_count
          ticked,      \* the clock has ticked since the last poll
          deb,         \* debouncer: value, current, hold_time
          item_top,    \* index of the row on top, Rows is end()
          joypos_text, \* position written into the text row
          heap_ptr,    \* blocks allocated
          polled,      \* history: position of the last poll
          steady,      \* history: ticks since polls agree, up to WaitTicks
          wrapped,     \* history: the clock is near its wrap since then
          moves        \* history: rows moved, modulo Rows

demoVars == <<pc, stick, adc, systick, ticked, deb, item_top, joypos_text,
              heap_ptr, polled, steady, wrapped, moves>>
vars == <<busVars, demoVars>>

-----------------------------------------------------------------------------
(* joystick.hpp: a position is a window of voltages. *)

threshold == 30
Windows == [up |-> 960, down |-> 190, left |-> 1990, right |-> 470]
Positions == DOMAIN Windows \cup {"center"}

position(v) ==
  LET hit == {p \in DOMAIN Windows : Windows[p] - threshold < v
                                      /\ v < Windows[p] + threshold}
  IN  IF hit = {} THEN "center" ELSE CHOOSE p \in hit : TRUE

-----------------------------------------------------------------------------
(* screen.cpp: the rows from item_top on, as many as fit. *)

NoText == ""
Blank == <<Rows, NoText>>
RowContent(r, text) == <<r, IF r = JoyRow THEN text ELSE NoText>>

\* A row of the buffer is one byte; rows behind the list's end stay clear.
Video(top, text) ==
  [i \in 1..VideoBytes |->
     IF top + i - 1 < Rows THEN RowContent(top + i - 1, text) ELSE Blank]

\* Mutant: does not leave the end of the list.
Up_End(top) == IF top = 0 THEN Rows ELSE top - 1
Up(top) == (IF top = 0 THEN Rows ELSE top) - 1
Down(top) == IF top + 1 = Rows THEN 0 ELSE top + 1

react(top, event) ==
  CASE event = "up" -> Up(top) [] event = "down" -> Down(top) [] OTHER -> top

-----------------------------------------------------------------------------
(* debouncer::poll() *)

\* Mutant: the hold time is wider than the clock and does not wrap with it.
poll_Wide(d, new, now) ==
  LET hold == IF d.current # new THEN now + WaitTicks ELSE d.hold
  IN  [value   |-> IF hold > now THEN d.value ELSE new,
       current |-> new,
       hold    |-> hold]

\* Mutant: the time starts only when the accepted value is left.
poll_NoRestart(d, new, now) ==
  LET hold == IF d.current # new /\ d.current = d.value
              THEN (now + WaitTicks) % Word ELSE d.hold
  IN  [value   |-> IF hold > now THEN d.value ELSE new,
       current |-> new,
       hold    |-> hold]

poll(d, new, now) ==
  LET hold == IF d.current # new THEN (now + WaitTicks) % Word ELSE d.hold
  IN  [value   |-> IF hold > now THEN d.value ELSE new,
       current |-> new,
       hold    |-> hold]

-----------------------------------------------------------------------------
Init ==
  /\ BusInit
  /\ ops = LcdInit
  /\ pc = "lcd_init"
  /\ stick \in Voltages
  /\ adc = [on |-> FALSE, converting |-> FALSE, eoc |-> FALSE, data |-> 0]
  /\ systick \in {0, Word - 1}
  /\ ticked = FALSE
  /\ deb = [value |-> "center", current |-> "center", hold |-> 0]
  /\ item_top = 0
  /\ joypos_text = "center"
  /\ heap_ptr = 0
  /\ polled = "center" /\ steady = WaitTicks /\ wrapped = FALSE /\ moves = 0

Returned(name) == pc = name /\ ops = <<>>

KeepBus == UNCHANGED <<cr1, dr, shift, received, pin, answer, panel>>

\* Kernel::init(): the display before the radio, then the converter.
InitRadio ==
  /\ Returned("lcd_init")
  /\ ops' = NrfInit
  /\ pc' = "nrf_init"
  /\ KeepBus
  /\ UNCHANGED <<stick, adc, systick, ticked, deb, item_top, joypos_text,
                 heap_ptr, polled, steady, wrapped, moves>>

InitJoystick ==
  /\ Returned("nrf_init")
  /\ adc' = [adc EXCEPT !.on = TRUE]
  /\ pc' = "poll"
  /\ KeepBus
  /\ UNCHANGED <<ops, stick, systick, ticked, deb, item_top, joypos_text,
                 heap_ptr, polled, steady, wrapped, moves>>

\* get_position_blocking(): starts a conversion and waits for its end.
StartConversion ==
  /\ Returned("poll")
  /\ adc' = [adc EXCEPT !.converting = TRUE]
  /\ pc' = "convert"
  /\ KeepBus
  /\ UNCHANGED <<ops, stick, systick, ticked, deb, item_top, joypos_text,
                 heap_ptr, polled, steady, wrapped, moves>>

\* The rest of poll(), and the events that follow a change of the value.
\* Loading the data register clears EOC.
Poll ==
  /\ Returned("convert")
  /\ adc.eoc
  /\ adc' = [adc EXCEPT !.eoc = FALSE]
  /\ LET new == position(adc.data)
         d == poll(deb, new, systick)
     IN  /\ deb' = d
         /\ IF d.value # deb.value
            THEN /\ item_top' = react(item_top, d.value)
                 /\ joypos_text' = d.value
                 /\ moves' = (moves + (CASE d.value = "up" -> Rows - 1
                                         [] d.value = "down" -> 1
                                         [] OTHER -> 0)) % Rows
            ELSE UNCHANGED <<item_top, joypos_text, moves>>
         /\ polled' = new
         /\ steady' = IF new = polled THEN steady ELSE 0
         /\ wrapped' = IF new = polled THEN wrapped ELSE systick + WaitTicks >= Word
  /\ ticked' = FALSE
  /\ pc' = "terminal"
  /\ KeepBus
  /\ UNCHANGED <<ops, stick, systick, heap_ptr>>

\* terminal.process_input() runs the commands waiting in rx_fifo one after the
\* other, until it finds rx_fifo empty.
NoCommand ==
  /\ Returned("terminal")
  /\ pc' = "enable"
  /\ KeepBus
  /\ UNCHANGED <<ops, stick, adc, systick, ticked, deb, item_top, joypos_text,
                 heap_ptr, polled, steady, wrapped, moves>>

\* The command "nrf".
NrfTest ==
  /\ Returned("terminal")
  /\ ops' = NrfEnable \o read_register("status") \o write_register("config")
              \o read_register("config") \o write_address_register("rx_addr_p0")
              \o read_address_register("rx_addr_p0")
  /\ KeepBus
  /\ UNCHANGED <<pc, stick, adc, systick, ticked, deb, item_top, joypos_text,
                 heap_ptr, polled, steady, wrapped, moves>>

Message == [i \in 1..VideoBytes |-> <<Rows, "oops">>]

\* Mutant: _exit() relies on the configuration of the main loop.
ShowMessage_NoEnable == LcdUpdate(Message)

\* _exit(): the radio may have used the bus in this turn.
ShowMessage == LcdEnable \o LcdUpdate(Message)

\* The command "heap": _sbrk() gives a block or there is none, and _exit()
\* shows a message and stops.
HeapEater ==
  /\ Returned("terminal")
  /\ IF heap_ptr + 1 > HeapEnd
     THEN /\ ops' = ShowMessage
          /\ pc' = "exit"
          /\ UNCHANGED heap_ptr
     ELSE /\ heap_ptr' = heap_ptr + 1
          /\ UNCHANGED <<ops, pc>>
  /\ KeepBus
  /\ UNCHANGED <<stick, adc, systick, ticked, deb, item_top, joypos_text,
                 polled, steady, wrapped, moves>>

\* lcd::enable(), every turn: the radio may have used the bus.
EnableLcd ==
  /\ Returned("enable")
  /\ ops' = LcdEnable
  /\ pc' = "update"
  /\ KeepBus
  /\ UNCHANGED <<stick, adc, systick, ticked, deb, item_top, joypos_text,
                 heap_ptr, polled, steady, wrapped, moves>>

\* Screen::update()
UpdateScreen ==
  /\ Returned("update")
  /\ ops' = LcdUpdate(Video(item_top, joypos_text))
  /\ pc' = "poll"
  /\ KeepBus
  /\ UNCHANGED <<stick, adc, systick, ticked, deb, item_top, joypos_text,
                 heap_ptr, polled, steady, wrapped, moves>>

OnBus == DriverStep /\ UNCHANGED demoVars

Main ==
  \/ OnBus \/ InitRadio \/ InitJoystick \/ StartConversion \/ Poll
  \/ NoCommand \/ NrfTest \/ HeapEater \/ EnableLcd \/ UpdateScreen

-----------------------------------------------------------------------------
(* Around the program. *)

ConversionEnds ==
  /\ adc.on /\ adc.converting
  /\ adc' = [adc EXCEPT !.converting = FALSE, !.eoc = TRUE, !.data = stick]
  /\ UNCHANGED <<busVars, pc, stick, systick, ticked, deb, item_top, joypos_text,
                 heap_ptr, polled, steady, wrapped, moves>>

MoveStick ==
  /\ pc = "convert" /\ adc.converting
  /\ stick' \in Voltages \ {stick}
  /\ UNCHANGED <<busVars, pc, adc, systick, ticked, deb, item_top, joypos_text,
                 heap_ptr, polled, steady, wrapped, moves>>

\* systick_isr().  A turn of the loop takes about 2 ms, a period 10 ms: at most
\* one tick from a poll to the next.
Tick ==
  /\ pc = "convert" /\ adc.eoc
  /\ ~ticked
  /\ ticked' = TRUE
  /\ systick' = (systick + 1) % Word
  /\ steady' = IF steady < WaitTicks THEN steady + 1 ELSE steady
  /\ UNCHANGED <<busVars, pc, stick, adc, deb, item_top, joypos_text,
                 heap_ptr, polled, wrapped, moves>>

OnWire == SpiHardware /\ UNCHANGED demoVars

Next == Main \/ ConversionEnds \/ MoveStick \/ Tick \/ OnWire

\* The program runs, the bus shifts, the converter converts; the clock ticks
\* again and again at the place where the program looks at it.  Commands run
\* faster than they can be typed, four characters of 87 us at least: a turn
\* finds rx_fifo empty in the end.
Fairness ==
  /\ WF_vars(Main) /\ WF_vars(OnWire) /\ WF_vars(ConversionEnds)
  /\ SF_vars(Tick) /\ SF_vars(NoCommand)

Spec == Init /\ [][Next]_vars /\ Fairness

-----------------------------------------------------------------------------
(* Properties. *)

\* Every byte reaches the device it is for, with that device's configuration and
\* lines in place until its last bit is out (spi.hpp:130: no communication while
\* it is configured), and after Kernel::init() no other device hears it.
BytesReachTheirDevice ==
  TransferIsRight /\ (pc # "lcd_init" => HeardByOneDevice)

\* Once the display's first picture is out, whenever the program polls the
\* joystick again the display shows this: from the row that the accepted ups and
\* downs lead to, going round, the rows there are and nothing below, the
\* position row with the position accepted last.  After _exit() it shows the
\* message, though the command before may have given the bus to the radio.
\* Nothing of the radio's transfers or of older pictures is left.
PanelIsCurrent ==
  /\ (Returned("poll") \/ pc = "convert") /\ panel.ram[1] # Unset =>
       \A i \in 1..VideoBytes :
         panel.ram[i] = LET r == moves + i - 1
                        IN  IF r >= Rows THEN Blank
                            ELSE IF r = JoyRow THEN <<r, deb.value>> ELSE <<r, NoText>>
  /\ Returned("exit") => \A i \in 1..VideoBytes : panel.ram[i] = <<Rows, "oops">>

\* debouncer.hpp: a new position is accepted only if all polls since the clock
\* stood WaitTicks earlier gave it, whatever the stick did before, except where
\* the clock wraps (debouncer.hpp:27 wants one that grows).
AcceptedWasHeld ==
  [][deb'.value # deb.value =>
       /\ deb'.value = polled'
       /\ steady' >= WaitTicks \/ wrapped']_vars

\* A position the stick is held in is accepted in the end, also across the wrap
\* of the clock, unless the program has stopped for lack of memory.
HeldIsAccepted ==
  \A v \in Voltages :
    <>[](stick = v /\ pc # "exit") => <>[](deb.value = position(v))
=============================================================================
