------------------------------ MODULE Terminal ------------------------------
(***************************************************************************)
(* mptl::terminal (lib/include/terminal.hpp) on a usart_irq_stream, driven *)
(* by the main loop of projects/stm32f4discovery: open, print a welcome,   *)
(* then call process_input() for ever.  Hooks run inside process_input();  *)
(* the baudrate hook closes and reopens the stream under it.               *)
(*                                                                         *)
(* The main program of UsartStream, which may call anything, is replaced   *)
(* by this one; interrupt and peripheral are those of UsartStream.         *)
(***************************************************************************)
EXTENDS UsartStream

CONSTANTS CmdBufSize,   \* cmd_buf_size
          WelcomeLength,
          HookLimit     \* bound: hooks write no more once this much was accepted

ASSUME CmdBufAssumption == CmdBufSize \in Nat \ {0} /\ WelcomeLength \in Nat /\ HookLimit \in Nat

\* The bounds of UsartStream leave room for what the main loop writes: the
\* welcome, what hooks may, and four characters for each key.
ASSUME RoomAssumption ==
  /\ WelcomeLength \in 1 .. MaxBlock /\ MaxBlock >= 2
  /\ MaxTx >= WelcomeLength + HookLimit + 4 * MaxRx + 2

VARIABLES tpc,          \* where the main loop is
          c,            \* process_input(): the character popped
          flush_tx,     \* process_input(): something is to be flushed
          cmd_buf, cmd_index,
          typed,        \* what was typed: the class of every character that arrived
          line          \* history: the printable characters read since the last prompt

tvars == <<tpc, c, flush_tx, cmd_buf, cmd_index, typed, line>>
local == <<c, flush_tx, cmd_buf, cmd_index, typed, line>>
allvars == <<vars, tvars>>

NewlineLength == 2   \* "\r\n"
PromptLength == 2    \* "# "

TInit ==
  /\ Init
  /\ tpc = "boot" /\ c = 0 /\ flush_tx = FALSE
  /\ cmd_buf = [k \in 0 .. CmdBufSize - 1 |-> 0] /\ cmd_index = 0
  /\ typed = <<>> /\ line = <<>>

-----------------------------------------------------------------------------
At(pc) == MainAt("idle") /\ tpc = pc
Stay == UNCHANGED <<mpc>>

\* Kernel::run(): open the terminal, write and flush the welcome.
Boot == At("boot") /\ OpenReset /\ tpc' = "welcome" /\ UNCHANGED local

Welcome == /\ At("welcome")
           /\ Write(WelcomeLength) /\ Stay
           /\ tpc' = "flush" /\ UNCHANGED local

\* Mutant: nothing marks the echo for flushing.
PopUnmarked == /\ At("loop") /\ Read /\ Stay
               /\ c' = Head(rx_fifo)
               /\ tpc' = "char"
               /\ UNCHANGED <<flush_tx, cmd_buf, cmd_index, typed, line>>

\* process_input(): pop a character.
Pop == /\ At("loop") /\ Read /\ Stay
       /\ c' = Head(rx_fifo) /\ flush_tx' = TRUE
       /\ tpc' = "char"
       /\ UNCHANGED <<cmd_buf, cmd_index, typed, line>>

\* Nothing left: flush if something was read; then it is called again.
PopNothing == /\ At("loop") /\ rx_fifo = <<>> /\ flush_tx
              /\ tpc' = "flush"
              /\ UNCHANGED <<vars, local>>

FlushTx == /\ At("flush") /\ Flush /\ Stay
           /\ flush_tx' = FALSE /\ tpc' = "loop"
           /\ UNCHANGED <<c, cmd_buf, cmd_index, typed, line>>

\* A printable character is echoed and stored while there is room for it.
Printable == /\ At("char") /\ typed[c] = "printable" /\ cmd_index < CmdBufSize
             /\ Write(1) /\ Stay
             /\ cmd_buf' = [cmd_buf EXCEPT ![cmd_index] = c]
             /\ cmd_index' = cmd_index + 1
             /\ line' = Append(line, c)
             /\ tpc' = "loop" /\ UNCHANGED <<c, flush_tx, typed>>

\* Any other character, and one there is no room for, is dropped.
Ignored == /\ At("char")
           /\ \/ typed[c] = "control" /\ UNCHANGED line
              \/ /\ typed[c] = "printable" /\ cmd_index >= CmdBufSize
                 /\ line' = Append(line, c)
           /\ tpc' = "loop"
           /\ UNCHANGED <<vars, c, flush_tx, cmd_buf, cmd_index, typed>>

\* Carriage return: echo a newline, terminate the string, run the command.
\* Terminating a full buffer writes one place past it, into cmd_index, which
\* follows cmd_buf: undefined, and done by what is built either as a store to
\* cmd_index or after it was last looked at.
Terminated(k) == IF k < CmdBufSize THEN {k} ELSE {0, k}

CarriageReturn ==
  /\ At("char") /\ typed[c] = "CR"
  /\ Write(NewlineLength) /\ Stay
  /\ cmd_index' \in Terminated(cmd_index)
  /\ tpc' = IF cmd_index' > 0 THEN "hook" ELSE "prompt"
  /\ UNCHANGED <<c, flush_tx, cmd_buf, typed, line>>

\* A hook writes as often as it likes; what it ends with, endl, flushes.
HookWrite == /\ At("hook") /\ accepted < HookLimit
             /\ Write(1) /\ Stay /\ UNCHANGED tvars
HookEnd == /\ At("hook") /\ Flush /\ Stay
           /\ tpc' = "prompt" /\ UNCHANGED local

\* Mutant: the baud rate is set without closing the stream.
BaudrateNoClose == /\ At("hook") /\ sessions < MaxSessions
                   /\ tpc' = "closing" /\ UNCHANGED <<vars, local>>

\* The baudrate hook: terminal.close(), set_baudrate(), terminal.open().
BaudrateClose == /\ At("hook") /\ sessions < MaxSessions
                 /\ CloseLoad /\ tpc' = "closing" /\ UNCHANGED local

SetBaudrate ==
  /\ At("closing")
  /\ cmd_index' = 0 /\ tpc' = "reopen"
  /\ UNCHANGED <<vars, c, flush_tx, cmd_buf, typed, line>>

BaudrateOpen == At("reopen") /\ OpenReset /\ tpc' = "reopening" /\ UNCHANGED local

BaudrateEnd == /\ At("reopening")
               /\ tpc' = "prompt" /\ UNCHANGED <<vars, local>>

\* Mutant: the prompt does not start a new line.
PromptOnly == /\ At("prompt") /\ Write(PromptLength) /\ Stay
              /\ line' = <<>>
              /\ tpc' = "loop" /\ UNCHANGED <<c, flush_tx, cmd_buf, cmd_index, typed>>

Prompt == /\ At("prompt") /\ Write(PromptLength) /\ Stay
          /\ cmd_index' = 0 /\ line' = <<>>
          /\ tpc' = "loop" /\ UNCHANGED <<c, flush_tx, cmd_buf, typed>>

\* A key is pressed: its character arrives on the wire.
Key == \E k \in {"printable", "control", "CR"} :
         /\ HwReceive /\ typed' = Append(typed, k)
         /\ UNCHANGED <<tpc, c, flush_tx, cmd_buf, cmd_index, line>>

StreamCall == (Open \/ Close) /\ UNCHANGED tvars

Program == \/ Boot \/ Welcome \/ Pop \/ PopNothing \/ FlushTx
           \/ Printable \/ Ignored \/ CarriageReturn \/ HookWrite \/ HookEnd
           \/ BaudrateClose \/ SetBaudrate \/ BaudrateOpen \/ BaudrateEnd \/ Prompt
           \/ StreamCall

TIsr == Isr /\ UNCHANGED tvars
THwTransmit == HwTransmit /\ UNCHANGED tvars

TNext == Program \/ Key \/ TIsr \/ THwTransmit

\* The main loop never stops, interrupts are taken and the transmitter shifts.
TSpec == /\ TInit /\ [][TNext]_allvars
         /\ WF_allvars(Program) /\ WF_allvars(TIsr) /\ WF_allvars(THwTransmit)

-----------------------------------------------------------------------------
(* Properties. *)

\* The command line is what was typed since the last prompt, cut to the size
\* of the buffer: a hook that closes the stream while process_input() is in the
\* middle of a line leaves neither the old line nor part of it behind.
LineIsWhatWasTyped ==
  /\ tpc \in {"flush", "loop", "char"} =>
       /\ cmd_index = IF Len(line) < CmdBufSize THEN Len(line) ELSE CmdBufSize
       /\ \A k \in 1 .. cmd_index : cmd_buf[k - 1] = line[k]
  /\ tpc = "hook" =>
       /\ line # <<>> /\ cmd_index <= Len(line)
       /\ \A k \in 1 .. cmd_index : cmd_buf[k - 1] = line[k]

\* What process_input() and the hooks write is sent without anybody typing on,
\* unless the stream is closed.
EchoIsSent == accepted > sent ~> (accepted = sent \/ session # "open")

\* The terminal uses the stream by its calls only, and calls open() on a closed
\* stream and close() on an open one: what holds of the stream holds here.
UsesStream == [][Next]_vars

\* cmd_buf holds cmd_buf_size characters; none is written past its end.
CommandBufferHolds == [][CarriageReturn => cmd_index < CmdBufSize]_allvars
=============================================================================
