------------------------------- MODULE SpiBus -------------------------------
(***************************************************************************)
(* One SPI, in common/spi.hpp, with two devices on it: the display         *)
(* (nokia3310) and the radio (nrf24l01).  A driver function is the         *)
(* sequence of what it does to registers and pins, run by the main program *)
(* one at a time against a peripheral that shifts on its own.              *)
(*                                                                         *)
(* BSY is taken to be set from the store to the data register until the    *)
(* byte is out: the drivers look at BSY alone.                             *)
(***************************************************************************)
EXTENDS Naturals, SequencesExt

CONSTANTS VideoBytes,    \* bytes of the display's buffer (504)
          AddressBytes   \* bytes of a radio address (5)

ASSUME BusAssumption == VideoBytes \in Nat \ {0} /\ AddressBytes \in Nat \ {0}

VARIABLES cr1,        \* control register: SPE and the configuration stored
          dr,         \* transmit data register, NoByte if TXE
          shift,      \* byte on the wire
          received,   \* receive data register, NoByte if not RXNE
          pin,        \* level of the output pins
          ops,        \* what is left to do of the driver function entered
          answer,     \* last byte read: what was sent for it, what it answers
          panel       \* what the display holds

busVars == <<cr1, dr, shift, received, pin, ops, answer, panel>>

NoByte == [to |-> "none"]
Low == 0
High == 1
Pins == {"lcd_ds", "lcd_reset", "lcd_e", "nrf_ce", "nrf_csn"}
Devices == {"lcd", "nrf"}

-----------------------------------------------------------------------------
(* Configuration: a reglist stored into CR1 as a whole. *)

clk_freq == 72000        \* pclk2 in kHz

\* The clock divisor is 2^(BR + 1): the largest clock not above the value.
Fits(value) == {i \in 0..6 : value >= clk_freq \div 2^(i + 1)}

max_frequency(value) ==
  IF value = 0 THEN 0
  ELSE IF Fits(value) = {} THEN 7
       ELSE CHOOSE i \in Fits(value) : \A j \in Fits(value) : i =< j

MaxFrequency == [lcd |-> 4000, nrf |-> 8000]

spi_cfg ==
  [lcd |-> [BR |-> max_frequency(MaxFrequency.lcd), CPOL |-> 1, CPHA |-> 1,
            BIDIMODE |-> 1, BIDIOE |-> 1],
   nrf |-> [BR |-> max_frequency(MaxFrequency.nrf), CPOL |-> 0, CPHA |-> 0,
            BIDIMODE |-> 0, BIDIOE |-> 0]]

ResetCfg == [BR |-> 0, CPOL |-> 0, CPHA |-> 0, BIDIMODE |-> 0, BIDIOE |-> 0]

SpiClock == clk_freq \div 2^(cr1.cfg.BR + 1)

-----------------------------------------------------------------------------
(* What a driver function is made of. *)

Set(p)     == <<[op |-> "pin", pin |-> p, level |-> High]>>
Reset(p)   == <<[op |-> "pin", pin |-> p, level |-> Low]>>
wait_not_busy == <<[op |-> "not_busy"]>>
send_blocking(b) == <<[op |-> "send", byte |-> b]>>
writeread_blocking(b) == send_blocking(b) \o <<[op |-> "receive", byte |-> b]>>
reconfigure(cfg) == <<[op |-> "disable"], [op |-> "configure", cfg |-> cfg]>>

(* nokia3310: ds low is a command, high is data. *)

\* A byte of the video buffer stands for a row: its number and its text.
Unset == <<0, "unset">>
Garbled == <<0, "garbled">>
Command(cmd) == [to |-> "lcd", ds |-> Low, cmd |-> cmd, row |-> Garbled]
Data(row) == [to |-> "lcd", ds |-> High, cmd |-> "data", row |-> row]

LcdSelect == Reset("lcd_e")
LcdDeselect == wait_not_busy \o Set("lcd_e")
\* Mutant: changes the data line without waiting for the command to be out.
select_data_NoWait == Set("lcd_ds")
select_data == wait_not_busy \o Set("lcd_ds")
select_command == wait_not_busy \o Reset("lcd_ds")
LcdSend(bytes) == [i \in DOMAIN bytes |-> [op |-> "send", byte |-> bytes[i]]]

LcdEnable == reconfigure(spi_cfg.lcd)

InitCommands == [i \in 1..7 |-> Command("init")]

LcdInit ==
  Set("lcd_ds") \o Set("lcd_e") \o Set("lcd_reset")
    \o Reset("lcd_reset") \o Set("lcd_reset")
    \o LcdEnable
    \o LcdSelect \o select_command \o LcdSend(InitCommands) \o LcdDeselect

LcdUpdate(video) ==
  LcdSelect \o select_command \o LcdSend(<<Command("x"), Command("y")>>)
    \o select_data \o LcdSend([i \in 1..VideoBytes |-> Data(video[i])])
    \o LcdDeselect

(* nrf24l01: every byte sent answers with one received. *)

NrfByte(cmd, reg, n) == [to |-> "nrf", cmd |-> cmd, reg |-> reg, n |-> n]
NrfSelect == Reset("nrf_csn")
NrfDeselect == Set("nrf_csn")

NrfInit == Set("nrf_csn") \o Reset("nrf_ce")
NrfEnable == reconfigure(spi_cfg.nrf)

read_register(reg) ==
  NrfSelect \o writeread_blocking(NrfByte("read", reg, 0))
    \o writeread_blocking(NrfByte("nop", reg, 1)) \o NrfDeselect

write_register(reg) ==
  NrfSelect \o writeread_blocking(NrfByte("write", reg, 0))
    \o writeread_blocking(NrfByte("data", reg, 1)) \o NrfDeselect

\* The bytes of an address, each a transfer.
AddressTransfer(what, reg) ==
  FlattenSeq([i \in 1..AddressBytes |-> writeread_blocking(NrfByte(what, reg, i))])

read_address_register(reg) ==
  NrfSelect \o writeread_blocking(NrfByte("read", reg, 0))
    \o AddressTransfer("nop", reg) \o NrfDeselect

write_address_register(reg) ==
  NrfSelect \o writeread_blocking(NrfByte("write", reg, 0))
    \o AddressTransfer("addr", reg) \o NrfDeselect

-----------------------------------------------------------------------------
(* The main program, inside a driver function. *)

Busy == dr # NoByte \/ shift # NoByte

Step(name) == ops # <<>> /\ Head(ops).op = name /\ ops' = Tail(ops)

DrivePin ==
  /\ Step("pin")
  /\ pin' = [pin EXCEPT ![Head(ops).pin] = Head(ops).level]
  /\ UNCHANGED <<cr1, dr, shift, received, answer, panel>>

WaitNotBusy ==
  /\ Step("not_busy")
  /\ ~Busy
  /\ UNCHANGED <<cr1, dr, shift, received, pin, answer, panel>>

\* send_blocking(): waits for TXE, then stores.
Send ==
  /\ Step("send")
  /\ dr = NoByte
  /\ dr' = Head(ops).byte
  /\ UNCHANGED <<cr1, shift, received, pin, answer, panel>>

\* Mutant: returns what is in the data register without waiting for RXNE.
Receive_NoWait ==
  /\ Step("receive")
  /\ answer' = [sent |-> Head(ops).byte, got |-> received]
  /\ received' = NoByte
  /\ UNCHANGED <<cr1, dr, shift, pin, panel>>

\* receive_blocking(): waits for RXNE; the load clears it.
Receive ==
  /\ Step("receive")
  /\ received # NoByte
  /\ answer' = [sent |-> Head(ops).byte, got |-> received]
  /\ received' = NoByte
  /\ UNCHANGED <<cr1, dr, shift, pin, panel>>

Disable ==
  /\ Step("disable")
  /\ cr1' = [cr1 EXCEPT !.SPE = FALSE]
  /\ UNCHANGED <<dr, shift, received, pin, answer, panel>>

\* configure<SPE, ...>(): configuration and SPE in one store.
Configure ==
  /\ Step("configure")
  /\ cr1' = [SPE |-> TRUE, cfg |-> Head(ops).cfg]
  /\ UNCHANGED <<dr, shift, received, pin, answer, panel>>

DriverStep ==
  DrivePin \/ WaitNotBusy \/ Send \/ Receive \/ Disable \/ Configure

-----------------------------------------------------------------------------
(* The peripheral and what hangs on it. *)

Listening ==
  {d \in Devices : IF d = "lcd" THEN pin.lcd_e = Low /\ pin.lcd_reset = High
                               ELSE pin.nrf_csn = Low}

FullDuplex == cr1.cfg.BIDIMODE = 0

ShiftStarts ==
  /\ cr1.SPE /\ dr # NoByte /\ shift = NoByte
  /\ shift' = dr
  /\ dr' = NoByte
  /\ UNCHANGED <<cr1, received, pin, ops, answer, panel>>

\* The display makes out bytes sent for it in its own mode and at its own clock;
\* what else it hears is data to it that means nothing, or no command.
Understood == shift.to = "lcd" /\ cr1.cfg = spi_cfg.lcd

\* The byte is out.  With two lines a byte came in for it; the display keeps
\* data where its address stands and goes on to the next.
ShiftEnds ==
  /\ cr1.SPE /\ shift # NoByte
  /\ shift' = NoByte
  /\ received' = IF FullDuplex THEN shift ELSE received
  /\ panel' =
       IF "lcd" \notin Listening THEN panel
       ELSE IF pin.lcd_ds = High
            THEN [at  |-> (panel.at % VideoBytes) + 1,
                  ram |-> [panel.ram EXCEPT ![panel.at] =
                             IF Understood THEN shift.row ELSE Garbled]]
            ELSE IF Understood /\ shift.cmd \in {"x", "y"}
                 THEN [panel EXCEPT !.at = 1] ELSE panel
  /\ UNCHANGED <<cr1, dr, pin, ops, answer>>

SpiHardware == ShiftStarts \/ ShiftEnds

\* After the register lists are applied: pins are outputs, at their reset
\* level.
BusInit ==
  /\ cr1 = [SPE |-> FALSE, cfg |-> ResetCfg]
  /\ dr = NoByte /\ shift = NoByte /\ received = NoByte
  /\ pin = [p \in Pins |-> Low]
  /\ answer = [sent |-> NoByte, got |-> NoByte]
  /\ panel = [at |-> 1, ram |-> [i \in 1..VideoBytes |-> Unset]]

BusNext == DriverStep \/ SpiHardware

BusFairness == WF_busVars(DriverStep) /\ WF_busVars(SpiHardware)

-----------------------------------------------------------------------------
(* Properties. *)

InTransit == {dr, shift} \ {NoByte}

\* As long as a byte is in the data register or on the wire, the device it is
\* for is selected, the SPI is enabled and has that device's configuration and a
\* clock it can follow, and the display's data line tells what the byte is.
TransferIsRight ==
  \A b \in InTransit :
    /\ b.to \in Listening
    /\ cr1.SPE /\ cr1.cfg = spi_cfg[b.to] /\ SpiClock =< MaxFrequency[b.to]
    /\ b.to = "lcd" => pin.lcd_ds = b.ds

\* A byte is heard by the device it is for and by no other: nrf_csn and lcd_e are
\* never low together while one is on its way.
HeardByOneDevice == \A b \in InTransit : Listening = {b.to}

\* What writeread_blocking() returns is what the device answered to the byte
\* it sent, not something left from an earlier transfer.
AnswerIsToThisByte == answer.got = answer.sent
=============================================================================
