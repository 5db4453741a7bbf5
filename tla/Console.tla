------------------------------ MODULE Console ------------------------------
(***************************************************************************)
(* The shell's line editor and main loop (sw/examples/shell.c) with the    *)
(* UART under them and the user's terminal behind it.  The shell puts one  *)
(* character at a time: it polls TX_FULL, then writes, while the UART goes *)
(* on.  What a command prints is any of Outputs; `go' ends the shell.      *)
(***************************************************************************)
EXTENDS Uart, SequencesExt

CONSTANTS SIZE,     \* CMD_BUF_SIZE
          MAX_ARGS,
          PROMPT, Outputs,
          Keys      \* what the user types

Controls == {"CR", "LF", "BS", "DEL", "ETX", "ESC"}
Printable == Chars \ Controls
Sent == Printable \cup {"CR", "LF", "BS"}   \* what the shell prints
NUL == "NUL"
newline == <<"CR", "LF">>
\* Every command ends what it prints with a new line, if it prints anything.
EndsLine(out) == out = <<>> \/ \E n \in 0..Len(out) : SubSeq(out, n + 1, Len(out)) = newline

ASSUME ConsoleAssumption ==
  /\ {SIZE, MAX_ARGS} \subseteq Nat \ {0}
  /\ PROMPT \in Seq(Printable) /\ Keys \subseteq Chars
  /\ Outputs \subseteq Seq(Sent) /\ \A out \in Outputs : EndsLine(out)
  /\ Controls \cup {" ", "^", "C"} \subseteq Chars /\ NUL \notin Chars

VARIABLES buf, pos,  \* of shell_readline
          todo,      \* characters still to be put by the call under way
          ready,     \* shell_putchar has seen ~TX_FULL and not written yet
          stage,     \* where the program is once todo is empty
          screen     \* the line of the terminal with its cursor
vars == <<uartVars, buf, pos, todo, ready, stage, screen>>

Stages == {"edit", "enter", "entered", "cancel", "cancelled", "busy", "drain", "jumped"}
Cleared == [i \in 0..(SIZE - 1) |-> NUL]

\* What the terminal does with a character.
Display(scr, c) ==
  CASE c = "CR" -> [scr EXCEPT !.col = 0]
    [] c = "LF" -> [scr EXCEPT !.row = [i \in 1..scr.col |-> " "]]
    [] c = "BS" -> [scr EXCEPT !.col = IF scr.col > 0 THEN scr.col - 1 ELSE 0]
    [] OTHER -> [row |-> [i \in 1..(IF scr.col < Len(scr.row) THEN Len(scr.row) ELSE scr.col + 1) |->
                            IF i = scr.col + 1 THEN c ELSE scr.row[i]],
                 col |-> scr.col + 1]

Init ==
  /\ UartInit
  /\ buf = Cleared /\ pos = 0 /\ todo = PROMPT /\ ready = FALSE
  /\ stage = "busy" /\ screen = [row |-> <<>>, col |-> 0]

\* The program runs on: nothing left to put.
At(s) == stage = s /\ todo = <<>> /\ UNCHANGED <<uartVars, ready, screen>>

\* Faulty: the wrong polarity.
PollTxInverted == /\ todo # <<>> /\ ~ready /\ TX_FULL
                  /\ ready' = TRUE /\ UNCHANGED <<uartVars, buf, pos, todo, stage, screen>>

\* shell_putchar: spin until the FIFO has space, then write.
PollTx == /\ todo # <<>> /\ ~ready /\ ~TX_FULL
          /\ ready' = TRUE
          /\ UNCHANGED <<uartVars, buf, pos, todo, stage, screen>>
PutChar == /\ ready
           /\ WriteTxData(Head(todo)) /\ todo' = Tail(todo) /\ ready' = FALSE
           /\ UNCHANGED <<tx_shift, rx_fifo, buf, pos, stage, screen>>

\* The loop of shell_readline, by the character that was read.
Read(c) == /\ stage = "edit" /\ todo = <<>>
           /\ ~RX_EMPTY /\ c = Head(rx_fifo) /\ ReadRxData
           /\ UNCHANGED <<tx_fifo, tx_shift, ready, screen>>

ReadEnd == /\ \E c \in {"CR", "LF"} : Read(c)
           /\ stage' = "enter" /\ todo' = newline
           /\ UNCHANGED <<buf, pos>>
ReadCtrlC == /\ Read("ETX")
             /\ stage' = "cancel" /\ todo' = <<"^", "C">> \o newline
             /\ UNCHANGED <<buf, pos>>
\* Faulty: the character stays on the screen.
ReadEraseNoBlank == /\ \E c \in {"BS", "DEL"} : Read(c)
                    /\ pos > 0
                    /\ pos' = pos - 1 /\ buf' = [buf EXCEPT ![pos - 1] = NUL]
                    /\ todo' = <<"BS">> /\ UNCHANGED stage
ReadErase == /\ \E c \in {"BS", "DEL"} : Read(c)
             /\ pos > 0
             /\ pos' = pos - 1 /\ buf' = [buf EXCEPT ![pos - 1] = NUL]
             /\ todo' = <<"BS", " ", "BS">> /\ UNCHANGED stage
\* Faulty: no room left for the NUL.
ReadStoreFull == /\ \E c \in Printable : Read(c) /\ buf' = [buf EXCEPT ![pos] = c] /\ todo' = <<c>>
                 /\ pos < SIZE
                 /\ pos' = pos + 1 /\ UNCHANGED stage
ReadStore == /\ \E c \in Printable : Read(c) /\ buf' = [buf EXCEPT ![pos] = c] /\ todo' = <<c>>
             /\ pos < SIZE - 1
             /\ pos' = pos + 1 /\ UNCHANGED stage
\* Nothing to erase, no room, or not printable.
ReadIgnore == /\ \E c \in Chars : /\ Read(c)
                                  /\ \/ c \in {"BS", "DEL"} /\ pos = 0
                                     \/ c \in Printable /\ pos >= SIZE - 1
                                     \/ c \in Controls \ {"CR", "LF", "ETX", "BS", "DEL"}
              /\ UNCHANGED <<buf, pos, todo, stage>>

ReadKey == ReadEnd \/ ReadCtrlC \/ ReadErase \/ ReadStore \/ ReadIgnore

\* shell_readline returns pos, or -1.
Return == \/ /\ At("enter") /\ stage' = "entered"
             /\ buf' = [buf EXCEPT ![pos] = NUL] /\ UNCHANGED <<pos, todo>>
          \/ /\ At("cancel") /\ stage' = "cancelled"
             /\ buf' = [buf EXCEPT ![0] = NUL] /\ UNCHANGED <<pos, todo>>

\* main: an empty or cancelled line prompts again ...
Reprompt == /\ At("cancelled") \/ (At("entered") /\ pos = 0)
            /\ stage' = "busy" /\ todo' = PROMPT /\ UNCHANGED <<buf, pos>>
\* ... any other one is cut by parse_args, which ends each of the first MAX_ARGS + 1
\* tokens where the space behind it was, and dispatched.
TokenEnds == {i \in 1..(pos - 1) : buf[i] = " " /\ buf[i - 1] # " "}
Cuts == {i \in TokenEnds : Cardinality({j \in TokenEnds : j < i}) <= MAX_ARGS}
Dispatch == /\ At("entered") /\ pos > 0
            /\ buf' = [i \in DOMAIN buf |-> IF i \in Cuts THEN NUL ELSE buf[i]]
            /\ \/ \E out \in Outputs : todo' = out \o PROMPT /\ stage' = "busy"
               \/ todo' = newline /\ stage' = "drain"
            /\ UNCHANGED pos
\* Faulty: the buffer is not cleared.
BeginUncleared == At("busy") /\ stage' = "edit" /\ pos' = 0 /\ UNCHANGED <<buf, todo>>
\* The next call of shell_readline.
Begin == At("busy") /\ stage' = "edit" /\ buf' = Cleared /\ pos' = 0 /\ UNCHANGED todo
\* Faulty: no wait for the transmitter.
JumpAtOnce == At("drain") /\ stage' = "jumped" /\ UNCHANGED <<buf, pos, todo>>
\* cmd_go, after its message.
Jump == /\ At("drain") /\ TX_EMPTY
        /\ stage' = "jumped" /\ UNCHANGED <<buf, pos, todo>>

Cpu == PollTx \/ PutChar \/ ReadKey \/ Return \/ Reprompt \/ Dispatch \/ Begin \/ Jump

softVars == <<buf, pos, todo, ready, stage>>
Transmit == \/ TxPop /\ UNCHANGED <<softVars, screen>>
            \/ TxStop /\ screen' = Display(screen, Head(tx_shift)) /\ UNCHANGED softVars
Receive == \E c \in Keys : RxDone(c) /\ UNCHANGED <<softVars, screen>>

Next == Cpu \/ Transmit \/ Receive

\* The processor and the transmitter go on; nobody has to type.
Spec == Init /\ [][Next]_vars /\ WF_vars(Cpu) /\ WF_vars(Transmit)
-----------------------------------------------------------------------------
\* The type of the state; pos stays inside buf with room for the NUL.
ConsoleTypeOK ==
  /\ UartTypeOK
  /\ buf \in [0..(SIZE - 1) -> Printable \cup {NUL}] /\ pos \in 0..(SIZE - 1)
  /\ todo \in Seq(Chars) /\ ready \in BOOLEAN /\ stage \in Stages
  /\ screen.row \in Seq(Printable) /\ screen.col \in 0..Len(screen.row)

\* The string in buf.
Text == LET end == CHOOSE n \in 0..SIZE : /\ n < SIZE => buf[n] = NUL
                                          /\ \A i \in 0..(n - 1) : buf[i] # NUL
        IN [i \in 1..end |-> buf[i - 1]]

\* Everything on its way to the terminal.
InFlight == tx_shift \o tx_fifo \o todo

\* The terminal shows the prompt and the line as it is in buf, with the cursor
\* behind it, as soon as what is in flight has arrived: echo, erasing and
\* cancelling never let screen and buffer drift apart, and no character is lost
\* to a full FIFO (shell_readline, shell_putchar).
Shown == FoldLeft(Display, screen, InFlight)
ScreenShowsBuffer ==
  stage = "edit" =>
    /\ IsPrefix(PROMPT \o Text, Shown.row)
    /\ Shown.col = Len(PROMPT \o Text)
    /\ \A i \in (Shown.col + 1)..Len(Shown.row) : Shown.row[i] = " "

\* When `go' jumps, at most the character in the shift register has not left: the
\* loop of cmd_go waits for TX_EMPTY, which speaks of the FIFO alone.  (Its comment,
\* shell.c:553, says that all output has been transmitted.)
JumpKeepsOutput ==
  stage = "jumped" => Len(InFlight) <= 1 /\ Shown = [row |-> <<>>, col |-> 0]

\* shell_readline implements the line editor: the string in buf is what was typed
\* and not erased, whatever a former line left there.
Editor == INSTANCE LineEditor WITH
  LIMIT <- SIZE - 1,
  text <- IF stage \in {"busy", "drain", "jumped"} THEN <<>> ELSE Text,
  result <- CASE stage = "entered" -> "entered" [] stage = "cancelled" -> "cancelled" [] OTHER -> "editing"
ImplementsEditor == Editor!Spec

\* The shell always comes back to the user, whose keys never stop it for good,
\* unless it has jumped (the polls of shell_putchar against the transmitter).
ComesBack == []<>(stage = "jumped" \/ (stage = "edit" /\ todo = <<>>))
=============================================================================
