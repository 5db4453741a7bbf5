---------------------------- MODULE ConsoleProofs ----------------------------
(***************************************************************************)
(* The line editor of sw/examples/shell.c, for every size of its buffer,   *)
(* every depth of the FIFOs, every prompt, output and key.                 *)
(***************************************************************************)
EXTENDS Console, SequenceTheorems, WellFoundedInduction, TLAPS

\* The type invariant with what makes it inductive: only characters the shell
\* prints are on their way to the terminal.
FlowTypeOK ==
  /\ tx_fifo \in Seq(Sent) /\ Len(tx_fifo) <= FIFO_DEPTH
  /\ rx_fifo \in Seq(Chars) /\ Len(rx_fifo) <= FIFO_DEPTH
  /\ tx_shift \in Seq(Sent) /\ Len(tx_shift) <= 1
  /\ todo \in Seq(Sent) /\ ready \in BOOLEAN /\ (ready => todo # <<>>)
Screens == {scr \in [row : Seq(Printable), col : Nat] : scr.col <= Len(scr.row)}
ScreenTypeOK == screen \in Screens
LineTypeOK ==
  /\ buf \in [0..(SIZE - 1) -> Printable \cup {NUL}] /\ pos \in 0..(SIZE - 1) /\ stage \in Stages

\* While a line is edited the buffer holds pos characters and NUL from there on.
HoldsLine(b, n) ==
  \A i \in 0..(SIZE - 1) : IF i < n THEN b[i] \in Printable ELSE b[i] = NUL
BufferInv ==
  /\ stage \in {"edit", "enter", "entered", "cancel"} => HoldsLine(buf, pos)
  /\ stage = "cancelled" => buf[0] = NUL

\* What the shell prints: printable characters and three controls.
LEMMA SentFacts ==
  /\ Printable \subseteq Sent /\ Sent \subseteq Chars /\ NUL \notin Chars
  /\ {"CR", "LF", "BS", " ", "^", "C"} \subseteq Sent
  /\ {" ", "^", "C"} \subseteq Printable
BY ConsoleAssumption DEF Sent, Printable, Controls

\* The prompt is made of characters the shell prints.
LEMMA PromptIsSent == PROMPT \in Seq(Sent)
<1>1. PROMPT \in Seq(Printable)
  BY Zenon, ConsoleAssumption
<1>2. QED
  BY <1>1, SentFacts, SeqMonotonic

\* The buffer: its first and last place, and the writes of the editor.
LEMMA SizeFacts == SIZE \in Nat /\ SIZE > 0 /\ 0 \in 0..(SIZE - 1)
<1>1. SIZE \in Nat \ {0}
  BY Zenon, ConsoleAssumption
<1>2. QED
  BY <1>1

\* Storing a character where the line ends makes it one longer (shell_readline).
LEMMA LineGrows ==
  ASSUME HoldsLine(buf, pos), LineTypeOK, NEW c \in Printable, pos < SIZE - 1
  PROVE  /\ [buf EXCEPT ![pos] = c] \in [0..(SIZE - 1) -> Printable \cup {NUL}]
         /\ pos + 1 \in 0..(SIZE - 1) /\ HoldsLine([buf EXCEPT ![pos] = c], pos + 1)
<1>1. buf \in [0..(SIZE - 1) -> Printable \cup {NUL}] /\ pos \in 0..(SIZE - 1)
  BY DEF LineTypeOK
<1>2. [buf EXCEPT ![pos] = c] \in [0..(SIZE - 1) -> Printable \cup {NUL}]
  BY <1>1
<1>3. pos + 1 \in 0..(SIZE - 1)
  BY <1>1, SizeFacts
<1>4. ASSUME NEW i \in 0..(SIZE - 1)
      PROVE  IF i < pos + 1 THEN [buf EXCEPT ![pos] = c][i] \in Printable ELSE [buf EXCEPT ![pos] = c][i] = NUL
  <2>1. CASE i = pos
    BY <1>1, <2>1, SizeFacts
  <2>2. CASE i # pos
    <3>1. [buf EXCEPT ![pos] = c][i] = buf[i] /\ (i < pos + 1 <=> i < pos)
      BY <1>1, <2>2, SizeFacts
    <3>2. QED
      BY <3>1 DEF HoldsLine
  <2>3. QED
    BY <2>1, <2>2
<1>5. QED
  BY <1>2, <1>3, <1>4 DEF HoldsLine

\* Erasing the last character makes it one shorter (shell_readline).
LEMMA LineShrinks ==
  ASSUME HoldsLine(buf, pos), LineTypeOK, pos > 0
  PROVE  /\ [buf EXCEPT ![pos - 1] = NUL] \in [0..(SIZE - 1) -> Printable \cup {NUL}]
         /\ pos - 1 \in 0..(SIZE - 1) /\ HoldsLine([buf EXCEPT ![pos - 1] = NUL], pos - 1)
<1>1. buf \in [0..(SIZE - 1) -> Printable \cup {NUL}] /\ pos \in 0..(SIZE - 1)
  BY DEF LineTypeOK
<1>2. pos - 1 \in 0..(SIZE - 1)
  BY <1>1, SizeFacts
<1>3. [buf EXCEPT ![pos - 1] = NUL] \in [0..(SIZE - 1) -> Printable \cup {NUL}]
  BY <1>1, <1>2
<1>4. ASSUME NEW i \in 0..(SIZE - 1)
      PROVE  IF i < pos - 1 THEN [buf EXCEPT ![pos - 1] = NUL][i] \in Printable
             ELSE [buf EXCEPT ![pos - 1] = NUL][i] = NUL
  <2>1. CASE i = pos - 1
    BY <1>1, <1>2, <2>1, SizeFacts
  <2>2. CASE i # pos - 1
    <3>1. [buf EXCEPT ![pos - 1] = NUL][i] = buf[i] /\ (i < pos - 1 <=> i < pos)
      BY <1>1, <2>2, SizeFacts
    <3>2. QED
      BY <3>1 DEF HoldsLine
  <2>3. QED
    BY <2>1, <2>2
<1>5. QED
  BY <1>2, <1>3, <1>4 DEF HoldsLine

\* A cleared buffer holds an empty line.
LEMMA ClearedIsEmpty ==
  /\ Cleared \in [0..(SIZE - 1) -> Printable \cup {NUL}]
  /\ HoldsLine(Cleared, 0)
BY DEF Cleared, HoldsLine

\* Functions on 1..n and tuples are sequences.
LEMMA FunctionIsSeq ==
  ASSUME NEW S, NEW n \in Nat, NEW f \in [1..n -> S]
  PROVE  f \in Seq(S) /\ Len(f) = n
<1>1. f \in Seq(S)
  BY SeqDef
<1>2. DOMAIN f = 1..Len(f) /\ Len(f) \in Nat /\ DOMAIN f = 1..n
  BY <1>1, LenProperties
<1>3. QED
  BY <1>1, <1>2

\* Three characters, or none, are a text.
LEMMA TripleIsSeq ==
  ASSUME NEW S, NEW a \in S, NEW b \in S, NEW c \in S
  PROVE  <<a, b, c>> \in Seq(S) /\ <<>> \in Seq(S)
OBVIOUS

\* A FIFO takes a character or drops it.
LEMMA PushedType ==
  ASSUME NEW S, NEW fifo \in Seq(S), Len(fifo) <= FIFO_DEPTH, NEW c \in S
  PROVE  Pushed(fifo, c) \in Seq(S) /\ Len(Pushed(fifo, c)) <= FIFO_DEPTH
<1>1. CASE Len(fifo) = FIFO_DEPTH
  BY <1>1 DEF Pushed
<1>2. CASE Len(fifo) # FIFO_DEPTH
  <2>1. Append(fifo, c) \in Seq(S) /\ Len(Append(fifo, c)) = Len(fifo) + 1 /\ Len(fifo) \in Nat
    BY AppendProperties, LenProperties
  <2>2. Len(fifo) + 1 <= FIFO_DEPTH
    BY <1>2, <2>1, UartAssumption
  <2>3. QED
    BY <1>2, <2>1, <2>2 DEF Pushed
<1>3. QED
  BY <1>1, <1>2

\* What is left of a text when its first character is taken.
LEMMA TailType ==
  ASSUME NEW S, NEW s \in Seq(S), s # <<>>
  PROVE  Head(s) \in S /\ Tail(s) \in Seq(S) /\ Len(Tail(s)) = Len(s) - 1 /\ Len(s) \in Nat
BY HeadTailProperties, LenProperties

\* What the terminal does with a character the shell prints.
LEMMA DisplayType ==
  ASSUME NEW scr \in Screens, NEW c \in Sent
  PROVE  Display(scr, c) \in Screens
<1>1. /\ scr \in [row : Seq(Printable), col : Nat]
      /\ scr.row \in Seq(Printable) /\ scr.col \in Nat /\ scr.col <= Len(scr.row)
      /\ Len(scr.row) \in Nat
  BY LenProperties DEF Screens
<1>2. CASE c = "CR"
  <2>1. Display(scr, c) = [scr EXCEPT !.col = 0]
    BY <1>2 DEF Display
  <2>2. QED
    BY <1>1, <2>1 DEF Screens
<1>3. CASE c = "LF"
  <2> DEFINE row == [i \in 1..scr.col |-> " "]
  <2>1. Display(scr, c) = [scr EXCEPT !.row = row]
    BY <1>3 DEF Display
  <2>2. row \in [1..scr.col -> Printable]
    BY SentFacts
  <2>3. row \in Seq(Printable) /\ Len(row) = scr.col
    <3> HIDE DEF row
    <3>1. QED
      BY <1>1, <2>2, FunctionIsSeq
  <2> HIDE DEF row
  <2>4. QED
    BY <1>1, <2>1, <2>3 DEF Screens
<1>4. CASE c = "BS"
  <2>1. Display(scr, c) = [scr EXCEPT !.col = IF scr.col > 0 THEN scr.col - 1 ELSE 0]
    BY <1>4 DEF Display
  <2>2. QED
    BY <1>1, <2>1 DEF Screens
<1>5. CASE c \notin {"CR", "LF", "BS"}
  <2> DEFINE n == IF scr.col < Len(scr.row) THEN Len(scr.row) ELSE scr.col + 1
             row == [i \in 1..n |-> IF i = scr.col + 1 THEN c ELSE scr.row[i]]
  <2>1. Display(scr, c) = [row |-> row, col |-> scr.col + 1]
    BY <1>5 DEF Display
  <2>2. n \in Nat /\ scr.col + 1 <= n
    BY <1>1
  <2>3. c \in Printable
    BY <1>5 DEF Sent
  <2>4. \A i \in 1..n : i # scr.col + 1 => i \in 1..Len(scr.row)
    BY <1>1
  <2>5. \A i \in 1..Len(scr.row) : scr.row[i] \in Printable
    BY <1>1, ElementOfSeq
  <2> HIDE DEF n
  <2>6. row \in [1..n -> Printable]
    BY <2>3, <2>4, <2>5
  <2>7. row \in Seq(Printable) /\ Len(row) = n
    BY <2>2, <2>6, LenProperties
  <2> HIDE DEF row
  <2>8. QED
    BY <1>1, <2>1, <2>2, <2>7 DEF Screens
<1>6. QED
  BY <1>2, <1>3, <1>4, <1>5

ConsoleInv == FlowTypeOK /\ ScreenTypeOK /\ LineTypeOK /\ BufferInv

\* The shell starts with the invariant.
LEMMA ConsoleInitInv == Init => ConsoleInv
<1> SUFFICES ASSUME Init PROVE ConsoleInv
  OBVIOUS
<1>1. FlowTypeOK
  <2>1. <<>> \in Seq(Sent) /\ <<>> \in Seq(Chars) /\ Len(<<>>) = 0
    OBVIOUS
  <2>2. PROMPT \in Seq(Sent)
    BY PromptIsSent
  <2>3. 0 <= FIFO_DEPTH /\ 0 <= 1
    BY UartAssumption
  <2>4. /\ tx_fifo = <<>> /\ rx_fifo = <<>> /\ tx_shift = <<>> /\ todo = PROMPT /\ ready = FALSE
    BY DEF Init, UartInit
  <2>5. QED
    BY Zenon, <2>1, <2>2, <2>3, <2>4 DEF FlowTypeOK
<1>2. ScreenTypeOK
  <2>1. <<>> \in Seq(Printable) /\ Len(<<>>) = 0
    OBVIOUS
  <2>2. QED
    BY <2>1 DEF Init, ScreenTypeOK, Screens
<1>3. LineTypeOK /\ BufferInv
  BY ClearedIsEmpty, SizeFacts DEF Init, LineTypeOK, BufferInv, Stages
<1>4. QED
  BY <1>1, <1>2, <1>3 DEF ConsoleInv

\* What a character read leaves of the line and of the flow.
LEMMA ReadFlow ==
  ASSUME ConsoleInv, NEW c, Read(c), NEW out \in Seq(Sent), todo' = out
  PROVE  FlowTypeOK' /\ ScreenTypeOK' /\ c \in Chars
<1>1. /\ rx_fifo \in Seq(Chars) /\ rx_fifo # <<>> /\ c = Head(rx_fifo) /\ rx_fifo' = Tail(rx_fifo)
      /\ UNCHANGED <<tx_fifo, tx_shift, ready, screen>> /\ todo = <<>>
  BY DEF Read, ReadRxData, RX_EMPTY, ConsoleInv, FlowTypeOK
<1>2. c \in Chars /\ rx_fifo' \in Seq(Chars) /\ Len(rx_fifo') <= FIFO_DEPTH
  <2>1. Len(rx_fifo) <= FIFO_DEPTH
    BY DEF ConsoleInv, FlowTypeOK
  <2>2. QED
    BY <1>1, <2>1, TailType, UartAssumption
<1>3. ~ready
  BY <1>1 DEF ConsoleInv, FlowTypeOK
<1>4. FlowTypeOK'
  BY <1>1, <1>2, <1>3 DEF ConsoleInv, FlowTypeOK
<1>5. QED
  BY <1>1, <1>2, <1>4 DEF ConsoleInv, ScreenTypeOK

\* The program runs on, with something new to put.
LEMMA AtFlow ==
  ASSUME ConsoleInv, NEW s, At(s), NEW out \in Seq(Sent), todo' = out
  PROVE  FlowTypeOK' /\ ScreenTypeOK'
<1>1. UNCHANGED <<uartVars, ready, screen>> /\ todo = <<>>
  BY DEF At
<1>2. UNCHANGED <<tx_fifo, tx_shift, rx_fifo, ready, screen>>
  BY <1>1 DEF uartVars
<1>3. QED
  BY <1>1, <1>2 DEF ConsoleInv, FlowTypeOK, ScreenTypeOK

\* What is put by the steps of the editor.
LEMMA EchoIsSent ==
  /\ newline \in Seq(Sent) /\ <<"^", "C">> \o newline \in Seq(Sent)
  /\ <<"BS", " ", "BS">> \in Seq(Sent) /\ <<>> \in Seq(Sent)
  /\ \A c \in Printable : <<c>> \in Seq(Sent)
<1>1. newline \in Seq(Sent) /\ <<"^", "C">> \in Seq(Sent)
  <2>1. "CR" \in Sent /\ "LF" \in Sent /\ "^" \in Sent /\ "C" \in Sent
    BY SentFacts
  <2>2. QED
    BY <2>1 DEF newline
<1>2. <<"^", "C">> \o newline \in Seq(Sent)
  BY <1>1, ConcatProperties
<1>3. <<"BS", " ", "BS">> \in Seq(Sent) /\ <<>> \in Seq(Sent)
  <2>1. "BS" \in Sent /\ " " \in Sent
    BY SentFacts
  <2>2. QED
    BY <2>1, TripleIsSeq
<1>4. ASSUME NEW c \in Printable PROVE <<c>> \in Seq(Sent)
  <2>1. c \in Sent
    BY SentFacts
  <2>2. QED
    BY <2>1
<1>5. QED
  BY <1>1, <1>2, <1>3, <1>4

\* Every step keeps the invariant.
LEMMA ConsoleNextInv == ConsoleInv /\ [Next]_vars => ConsoleInv'
<1> SUFFICES ASSUME ConsoleInv, [Next]_vars PROVE ConsoleInv'
  OBVIOUS
<1>1. /\ FlowTypeOK /\ ScreenTypeOK /\ LineTypeOK /\ BufferInv
      /\ tx_fifo \in Seq(Sent) /\ Len(tx_fifo) <= FIFO_DEPTH /\ rx_fifo \in Seq(Chars) /\ Len(rx_fifo) <= FIFO_DEPTH
      /\ tx_shift \in Seq(Sent) /\ todo \in Seq(Sent)
  BY DEF ConsoleInv, FlowTypeOK
<1>2. CASE UNCHANGED vars
  BY <1>1, <1>2 DEF vars, uartVars, ConsoleInv, FlowTypeOK, ScreenTypeOK, LineTypeOK, BufferInv, HoldsLine
<1>3. CASE PollTx
  <2>1. /\ UNCHANGED <<tx_fifo, tx_shift, rx_fifo, buf, pos, todo, stage, screen>>
        /\ ready' = TRUE /\ todo # <<>>
    BY <1>3 DEF PollTx, uartVars
  <2>2. QED
    BY <1>1, <2>1 DEF ConsoleInv, FlowTypeOK, ScreenTypeOK, LineTypeOK, BufferInv, HoldsLine
<1>4. CASE PutChar
  <2>1. /\ UNCHANGED <<tx_shift, rx_fifo, buf, pos, stage, screen>>
        /\ ready' = FALSE /\ todo # <<>> /\ todo' = Tail(todo) /\ tx_fifo' = Pushed(tx_fifo, Head(todo))
    BY <1>1, <1>4 DEF PutChar, WriteTxData, FlowTypeOK
  <2>2. Head(todo) \in Sent /\ Tail(todo) \in Seq(Sent)
    BY <1>1, <2>1, TailType
  <2>3. tx_fifo' \in Seq(Sent) /\ Len(tx_fifo') <= FIFO_DEPTH
    BY <1>1, <2>1, <2>2, PushedType
  <2>4. FlowTypeOK'
    BY <1>1, <2>1, <2>2, <2>3 DEF FlowTypeOK
  <2>5. QED
    BY <1>1, <2>1, <2>4 DEF ConsoleInv, ScreenTypeOK, LineTypeOK, BufferInv, HoldsLine
<1>5. CASE ReadEnd \/ ReadCtrlC
  <2>1. PICK c : /\ Read(c)
                 /\ \/ stage' = "enter" /\ todo' = newline
                    \/ stage' = "cancel" /\ todo' = <<"^", "C">> \o newline
                 /\ UNCHANGED <<buf, pos>>
    BY <1>5 DEF ReadEnd, ReadCtrlC
  <2>2. FlowTypeOK' /\ ScreenTypeOK'
    BY <2>1, ReadFlow, EchoIsSent
  <2>3. stage = "edit"
    BY <2>1 DEF Read
  <2>4. QED
    BY <1>1, <2>1, <2>2, <2>3 DEF ConsoleInv, LineTypeOK, BufferInv, HoldsLine, Stages
<1>6. CASE ReadErase
  <2>1. PICK c : /\ Read(c) /\ pos > 0 /\ pos' = pos - 1 /\ buf' = [buf EXCEPT ![pos - 1] = NUL]
                 /\ todo' = <<"BS", " ", "BS">> /\ stage' = stage
    BY <1>6 DEF ReadErase
  <2>2. FlowTypeOK' /\ ScreenTypeOK'
    BY <2>1, ReadFlow, EchoIsSent
  <2>3. stage = "edit" /\ HoldsLine(buf, pos)
    BY <1>1, <2>1 DEF Read, BufferInv
  <2>4. LineTypeOK' /\ HoldsLine(buf', pos')
    <3>1. stage' \in Stages
      BY <1>1, <2>1 DEF LineTypeOK
    <3>2. QED
      BY <1>1, <2>1, <2>3, <3>1, LineShrinks DEF LineTypeOK
  <2>5. QED
    BY <2>1, <2>2, <2>3, <2>4 DEF ConsoleInv, BufferInv
<1>7. CASE ReadStore
  <2>1. PICK c \in Printable : Read(c) /\ buf' = [buf EXCEPT ![pos] = c] /\ todo' = <<c>>
    BY <1>7 DEF ReadStore
  <2>2. pos < SIZE - 1 /\ pos' = pos + 1 /\ stage' = stage
    BY <1>7 DEF ReadStore
  <2>3. FlowTypeOK' /\ ScreenTypeOK'
    BY <2>1, ReadFlow, EchoIsSent
  <2>4. stage = "edit" /\ HoldsLine(buf, pos)
    BY <1>1, <2>1 DEF Read, BufferInv
  <2>5. LineTypeOK' /\ HoldsLine(buf', pos')
    <3>1. stage' \in Stages
      BY <1>1, <2>2 DEF LineTypeOK
    <3>2. QED
      BY <1>1, <2>1, <2>2, <2>4, <3>1, LineGrows DEF LineTypeOK
  <2>6. QED
    BY <2>2, <2>3, <2>4, <2>5 DEF ConsoleInv, BufferInv
<1>8. CASE ReadIgnore
  <2>1. PICK c : Read(c) /\ UNCHANGED <<buf, pos, todo, stage>>
    BY <1>8 DEF ReadIgnore
  <2>2. FlowTypeOK' /\ ScreenTypeOK'
    BY <1>1, <2>1, ReadFlow
  <2>3. QED
    BY <1>1, <2>1, <2>2 DEF ConsoleInv, LineTypeOK, BufferInv, HoldsLine
<1>9. CASE Return
  <2>1. CASE At("enter") /\ stage' = "entered" /\ buf' = [buf EXCEPT ![pos] = NUL] /\ UNCHANGED <<pos, todo>>
    <3>1. FlowTypeOK' /\ ScreenTypeOK'
      BY <1>1, <2>1, AtFlow
    <3>2. HoldsLine(buf, pos)
      BY <1>1, <2>1 DEF At, BufferInv
    <3>3. LineTypeOK' /\ HoldsLine(buf', pos')
      BY <1>1, <2>1, <3>2 DEF LineTypeOK, HoldsLine, Stages
    <3>4. QED
      BY <2>1, <3>1, <3>3 DEF ConsoleInv, BufferInv
  <2>2. CASE At("cancel") /\ stage' = "cancelled" /\ buf' = [buf EXCEPT ![0] = NUL] /\ UNCHANGED <<pos, todo>>
    <3>1. FlowTypeOK' /\ ScreenTypeOK'
      BY <1>1, <2>2, AtFlow
    <3>2. LineTypeOK' /\ buf'[0] = NUL
      BY <1>1, <2>2, SizeFacts DEF LineTypeOK, Stages
    <3>3. QED
      BY <2>2, <3>1, <3>2 DEF ConsoleInv, BufferInv
  <2>3. QED
    BY <1>9, <2>1, <2>2 DEF Return
<1>10. CASE Reprompt
  <2>1. \E s : At(s)
    BY <1>10 DEF Reprompt
  <2>2. stage' = "busy" /\ todo' = PROMPT /\ UNCHANGED <<buf, pos>>
    BY <1>10 DEF Reprompt
  <2>3. FlowTypeOK' /\ ScreenTypeOK'
    BY <2>1, <2>2, AtFlow, PromptIsSent
  <2>4. QED
    BY <1>1, <2>2, <2>3 DEF ConsoleInv, LineTypeOK, BufferInv, Stages
<1>11. CASE Dispatch
  <2>1. /\ At("entered") /\ pos' = pos /\ stage' \in {"busy", "drain"}
        /\ buf' = [i \in DOMAIN buf |-> IF i \in Cuts THEN NUL ELSE buf[i]]
        /\ todo' \in {out \o PROMPT : out \in Outputs} \cup {newline}
    BY <1>11 DEF Dispatch
  <2>2. \A out \in Outputs : out \o PROMPT \in Seq(Sent)
    BY ConsoleAssumption, PromptIsSent, ConcatProperties
  <2>3. FlowTypeOK' /\ ScreenTypeOK'
    BY <2>1, <2>2, AtFlow, EchoIsSent
  <2>4. LineTypeOK'
    BY <1>1, <2>1 DEF LineTypeOK, Stages
  <2>5. QED
    BY <2>1, <2>3, <2>4 DEF ConsoleInv, BufferInv
<1>12. CASE Begin
  <2>1. At("busy") /\ stage' = "edit" /\ buf' = Cleared /\ pos' = 0 /\ todo' = todo
    BY <1>12 DEF Begin
  <2>2. FlowTypeOK' /\ ScreenTypeOK'
    BY <1>1, <2>1, AtFlow
  <2>3. QED
    BY <2>1, <2>2, ClearedIsEmpty, SizeFacts DEF ConsoleInv, LineTypeOK, BufferInv, Stages
<1>13. CASE Jump
  <2>1. At("drain") /\ stage' = "jumped" /\ UNCHANGED <<buf, pos, todo>>
    BY <1>13 DEF Jump
  <2>2. FlowTypeOK' /\ ScreenTypeOK'
    BY <1>1, <2>1, AtFlow
  <2>3. QED
    BY <1>1, <2>1, <2>2 DEF ConsoleInv, LineTypeOK, BufferInv, Stages
<1>14. CASE Transmit
  <2>1. UNCHANGED <<buf, pos, todo, ready, stage, rx_fifo>>
    BY <1>14 DEF Transmit, softVars, TxPop, TxStop
  <2>2. CASE TxPop /\ UNCHANGED screen
    <3>1. tx_fifo # <<>> /\ tx_shift' = <<Head(tx_fifo)>> /\ tx_fifo' = Tail(tx_fifo)
      BY <2>2 DEF TxPop, TX_EMPTY
    <3>2. /\ Head(tx_fifo) \in Sent /\ Tail(tx_fifo) \in Seq(Sent)
          /\ Len(Tail(tx_fifo)) <= FIFO_DEPTH
      BY <1>1, <3>1, TailType, UartAssumption
    <3>3. <<Head(tx_fifo)>> \in Seq(Sent) /\ Len(<<Head(tx_fifo)>>) = 1
      BY <3>2
    <3>4. FlowTypeOK'
      BY <1>1, <2>1, <3>1, <3>2, <3>3 DEF FlowTypeOK
    <3>5. QED
      BY <1>1, <2>1, <2>2, <3>4 DEF ConsoleInv, ScreenTypeOK, LineTypeOK, BufferInv, HoldsLine
  <2>3. CASE TxStop /\ screen' = Display(screen, Head(tx_shift))
    <3>1. tx_shift # <<>> /\ tx_shift' = <<>> /\ tx_fifo' = tx_fifo
      BY <2>3 DEF TxStop, TX_BUSY
    <3>2. Head(tx_shift) \in Sent
      BY <1>1, <3>1, TailType
    <3>3. ScreenTypeOK'
      <4>1. PICK scr \in Screens : scr = screen
        BY <1>1 DEF ScreenTypeOK
      <4>2. PICK c \in Sent : c = Head(tx_shift)
        BY <3>2
      <4>3. QED
        BY <2>3, <4>1, <4>2, DisplayType DEF ScreenTypeOK
    <3>4. <<>> \in Seq(Sent) /\ Len(<<>>) = 0
      OBVIOUS
    <3>5. FlowTypeOK'
      BY <1>1, <2>1, <3>1, <3>4 DEF FlowTypeOK
    <3>6. QED
      BY <1>1, <2>1, <3>3, <3>5 DEF ConsoleInv, LineTypeOK, BufferInv, HoldsLine
  <2>4. QED
    BY <1>14, <2>2, <2>3 DEF Transmit
<1>15. CASE Receive
  <2>1. PICK c \in Keys : rx_fifo' = Pushed(rx_fifo, c)
    BY <1>15 DEF Receive, RxDone
  <2>2. UNCHANGED <<tx_fifo, tx_shift, buf, pos, todo, ready, stage, screen>>
    BY <1>15 DEF Receive, RxDone, softVars
  <2>3. rx_fifo' \in Seq(Chars) /\ Len(rx_fifo') <= FIFO_DEPTH
    BY <1>1, <2>1, PushedType, ConsoleAssumption
  <2>4. FlowTypeOK'
    BY <1>1, <2>2, <2>3 DEF FlowTypeOK
  <2>5. QED
    BY <1>1, <2>2, <2>4 DEF ConsoleInv, ScreenTypeOK, LineTypeOK, BufferInv, HoldsLine
<1>16. QED
  BY <1>2, <1>3, <1>4, <1>5, <1>6, <1>7, <1>8, <1>9, <1>10, <1>11, <1>12, <1>13, <1>14, <1>15
  DEF Next, Cpu, ReadKey

\* The invariant holds always.
LEMMA ConsoleInvariant == Spec => []ConsoleInv
<1>1. QED
  BY ConsoleInitInv, ConsoleNextInv, PTL DEF Spec

\* Buffer, FIFOs and screen keep their types; the buffer keeps room for its NUL
\* whatever is typed (shell_readline).
THEOREM ConsoleTypeCorrect == Spec => []ConsoleTypeOK
<1>1. ConsoleInv => ConsoleTypeOK
  <2> SUFFICES ASSUME ConsoleInv PROVE ConsoleTypeOK
    OBVIOUS
  <2>1. ASSUME NEW s \in Seq(Sent) PROVE s \in Seq(Chars)
    <3>1. Sent \subseteq Chars
      BY SentFacts
    <3>2. QED
      BY <3>1, SeqMonotonic
  <2>2. UartTypeOK /\ todo \in Seq(Chars) /\ ready \in BOOLEAN
    BY <2>1 DEF ConsoleInv, FlowTypeOK, UartTypeOK
  <2>3. screen.row \in Seq(Printable) /\ screen.col \in 0..Len(screen.row)
    BY LenProperties DEF ConsoleInv, ScreenTypeOK, Screens
  <2>4. QED
    BY <2>2, <2>3 DEF ConsoleInv, LineTypeOK, ConsoleTypeOK
<1>2. QED
  BY <1>1, ConsoleInvariant, PTL
-----------------------------------------------------------------------------
\* The string in a buffer that holds a line of n characters is that line.
Line(b, n) == [i \in 1..n |-> b[i - 1]]
TextOf(b) == LET end == CHOOSE m \in 0..SIZE : /\ m < SIZE => b[m] = NUL
                                               /\ \A i \in 0..(m - 1) : b[i] # NUL
             IN [i \in 1..end |-> b[i - 1]]

\* The string in a buffer is the line it holds, whatever CHOOSE looks for.
LEMMA TextIsLine ==
  ASSUME NEW b, NEW n \in 0..(SIZE - 1), HoldsLine(b, n)
  PROVE  TextOf(b) = Line(b, n)
<1> DEFINE Ends(m) == /\ m < SIZE => b[m] = NUL
                      /\ \A i \in 0..(m - 1) : b[i] # NUL
<1>1. NUL \notin Printable
  BY SentFacts DEF Printable
<1>2. n \in 0..SIZE /\ Ends(n)
  BY <1>1, SizeFacts DEF HoldsLine
<1>3. ASSUME NEW m \in 0..SIZE, Ends(m) PROVE m = n
  <2>1. CASE m < n
    <3>1. m \in 0..(SIZE - 1) /\ b[m] = NUL
      BY <1>3, <2>1, SizeFacts
    <3>2. QED
      BY <1>1, <2>1, <3>1 DEF HoldsLine
  <2>2. CASE n < m
    <3>1. n \in 0..(m - 1)
      BY <2>2, SizeFacts
    <3>2. b[n] = NUL
      BY DEF HoldsLine
    <3>3. QED
      BY <1>3, <3>1, <3>2
  <2>3. QED
    BY <2>1, <2>2, SizeFacts
<1> DEFINE end == CHOOSE m \in 0..SIZE : Ends(m)
<1>4. end = n
  <2>1. end \in 0..SIZE /\ Ends(end)
    <3> HIDE DEF Ends
    <3>1. QED
      BY <1>2
  <2> HIDE DEF Ends, end
  <2>2. QED
    BY <1>3, <2>1
<1>5. TextOf(b) = [i \in 1..end |-> b[i - 1]]
  BY DEF TextOf
<1> HIDE DEF end
<1>6. QED
  BY <1>4, <1>5 DEF Line

\* A line is a text of its length.
LEMMA LineIsSeq ==
  ASSUME NEW b, NEW n \in 0..(SIZE - 1), HoldsLine(b, n)
  PROVE  Line(b, n) \in Seq(Printable) /\ Len(Line(b, n)) = n
<1>1. n \in Nat /\ \A i \in 1..n : i - 1 \in 0..(SIZE - 1) /\ i - 1 < n
  BY SizeFacts
<1>2. Line(b, n) \in [1..n -> Printable]
  BY <1>1 DEF Line, HoldsLine
<1>3. QED
  BY <1>1, <1>2, FunctionIsSeq

\* The line of an empty buffer, and of one in which the editor has written.
LEMMA LineOfNone == ASSUME NEW b PROVE Line(b, 0) = <<>>
BY DEF Line

\* Storing appends to the line (shell_readline).
LEMMA StoreAppends ==
  ASSUME HoldsLine(buf, pos), LineTypeOK, NEW c \in Printable, pos < SIZE - 1
  PROVE  Line([buf EXCEPT ![pos] = c], pos + 1) = Append(Line(buf, pos), c)
<1> DEFINE new == [buf EXCEPT ![pos] = c]
<1>1. pos \in 0..(SIZE - 1) /\ pos + 1 \in 0..(SIZE - 1) /\ HoldsLine(new, pos + 1) /\ pos \in Nat
  <2>1. pos \in 0..(SIZE - 1)
    BY DEF LineTypeOK
  <2>2. pos + 1 \in 0..(SIZE - 1) /\ HoldsLine(new, pos + 1)
    BY LineGrows
  <2> HIDE DEF new
  <2>3. QED
    BY <2>1, <2>2, SizeFacts
<1>2. /\ Line(buf, pos) \in Seq(Printable) /\ Len(Line(buf, pos)) = pos
      /\ Line(new, pos + 1) \in Seq(Printable) /\ Len(Line(new, pos + 1)) = pos + 1
  <2> HIDE DEF new
  <2>1. QED
    BY <1>1, LineIsSeq
<1>3. /\ Append(Line(buf, pos), c) \in Seq(Printable) /\ Len(Append(Line(buf, pos), c)) = pos + 1
      /\ \A i \in 1..pos : Append(Line(buf, pos), c)[i] = Line(buf, pos)[i]
      /\ Append(Line(buf, pos), c)[pos + 1] = c
  BY <1>2, AppendProperties
<1>4. ASSUME NEW i \in 1..(pos + 1) PROVE Line(new, pos + 1)[i] = Append(Line(buf, pos), c)[i]
  <2>1. i - 1 \in 0..(SIZE - 1) /\ Line(new, pos + 1)[i] = new[i - 1]
    BY <1>1, SizeFacts DEF Line
  <2>2. CASE i = pos + 1
    <3>1. i - 1 = pos
      BY <1>1, <2>2
    <3>2. new[i - 1] = c
      BY <1>1, <3>1 DEF LineTypeOK
    <3>3. QED
      BY <1>3, <2>1, <2>2, <3>2
  <2>3. CASE i # pos + 1
    <3>1. i \in 1..pos /\ i - 1 # pos
      BY <1>1, <2>3
    <3>2. new[i - 1] = buf[i - 1]
      BY <2>1, <3>1 DEF LineTypeOK
    <3>3. Line(buf, pos)[i] = buf[i - 1]
      BY <3>1 DEF Line
    <3>4. QED
      BY <1>3, <2>1, <3>1, <3>2, <3>3
  <2>4. QED
    BY <2>2, <2>3
<1> HIDE DEF new
<1>5. Line(new, pos + 1) = Append(Line(buf, pos), c)
  BY <1>2, <1>3, <1>4, SeqEqual
<1>6. QED
  BY <1>5 DEF new

\* Erasing cuts the last character off (shell_readline).
LEMMA EraseCuts ==
  ASSUME HoldsLine(buf, pos), LineTypeOK, pos > 0
  PROVE  /\ Line([buf EXCEPT ![pos - 1] = NUL], pos - 1) = SubSeq(Line(buf, pos), 1, Len(Line(buf, pos)) - 1)
         /\ Line(buf, pos) # <<>>
<1> DEFINE new == [buf EXCEPT ![pos - 1] = NUL]
           cut == SubSeq(Line(buf, pos), 1, pos - 1)
<1>1. pos \in 0..(SIZE - 1) /\ pos - 1 \in 0..(SIZE - 1) /\ HoldsLine(new, pos - 1) /\ pos \in Nat
  <2>1. pos \in 0..(SIZE - 1)
    BY DEF LineTypeOK
  <2>2. pos - 1 \in 0..(SIZE - 1) /\ HoldsLine(new, pos - 1)
    BY LineShrinks
  <2> HIDE DEF new
  <2>3. QED
    BY <2>1, <2>2, SizeFacts
<1>2. /\ Line(buf, pos) \in Seq(Printable) /\ Len(Line(buf, pos)) = pos
      /\ Line(new, pos - 1) \in Seq(Printable) /\ Len(Line(new, pos - 1)) = pos - 1
  <2> HIDE DEF new
  <2>1. QED
    BY <1>1, LineIsSeq
<1>3. \A i \in 1..(pos - 1) : Line(buf, pos)[i] \in Printable
  BY <1>1, <1>2, ElementOfSeq
<1>4. cut \in Seq(Printable) /\ Len(cut) = pos - 1 /\ \A i \in 1..(pos - 1) : cut[i] = Line(buf, pos)[i]
  <2>1. 1 \in Int /\ pos - 1 \in Int /\ (pos - 1) - 1 + 1 = pos - 1
    BY <1>1
  <2>2. /\ cut \in Seq(Printable)
        /\ Len(cut) = IF 1 <= pos - 1 THEN (pos - 1) - 1 + 1 ELSE 0
        /\ \A i \in 1..((pos - 1) - 1 + 1) : cut[i] = Line(buf, pos)[1 + i - 1]
    BY <1>3, <2>1, SubSeqProperties
  <2> HIDE DEF cut
  <2>3. Len(cut) = pos - 1
    BY <1>1, <2>2
  <2>4. ASSUME NEW i \in 1..(pos - 1) PROVE cut[i] = Line(buf, pos)[i]
    <3>1. 1 + i - 1 = i /\ i \in 1..((pos - 1) - 1 + 1)
      BY <1>1
    <3>2. QED
      BY <2>2, <3>1
  <2>5. QED
    BY <2>2, <2>3, <2>4
<1>5. ASSUME NEW i \in 1..(pos - 1) PROVE Line(new, pos - 1)[i] = cut[i]
  <2>1. i - 1 \in 0..(SIZE - 1) /\ i - 1 # pos - 1 /\ i \in 1..pos
    <3> HIDE DEF new, cut
    <3>1. i \in Nat /\ 1 <= i /\ i <= pos - 1 /\ pos <= SIZE - 1 /\ pos \in Nat
      BY <1>1, SizeFacts
    <3>2. QED
      BY <3>1, SizeFacts
  <2>2. Line(new, pos - 1)[i] = new[i - 1] /\ Line(buf, pos)[i] = buf[i - 1]
    BY <2>1 DEF Line
  <2>3. new[i - 1] = buf[i - 1]
    BY <2>1 DEF LineTypeOK
  <2>4. QED
    BY <1>4, <2>2, <2>3
<1> HIDE DEF new, cut
<1>6. Line(new, pos - 1) = cut
  BY <1>2, <1>4, <1>5, SeqEqual
<1>7. Line(buf, pos) # <<>>
  BY <1>1, <1>2
<1>8. QED
  BY <1>2, <1>6, <1>7 DEF new, cut
-----------------------------------------------------------------------------
\* What the line editor sees.
Seen == IF stage \in {"busy", "drain", "jumped"} THEN <<>> ELSE Text
Returned == CASE stage = "entered" -> "entered" [] stage = "cancelled" -> "cancelled" [] OTHER -> "editing"

Held == {"edit", "enter", "entered", "cancel"}
SeenInv == Seen = IF stage \in Held THEN Line(buf, pos) ELSE <<>>

\* At each place of the program, what the editor sees of the buffer.
LEMMA SeenLine == ConsoleInv => SeenInv
<1> SUFFICES ASSUME ConsoleInv PROVE SeenInv
  OBVIOUS
<1>1. Text = TextOf(buf)
  BY DEF Text, TextOf
<1>2. CASE stage \in Held
  <2>1. HoldsLine(buf, pos) /\ pos \in 0..(SIZE - 1)
    BY <1>2 DEF ConsoleInv, BufferInv, LineTypeOK, Held
  <2>2. TextOf(buf) = Line(buf, pos)
    BY <2>1, TextIsLine
  <2>3. QED
    BY <1>1, <1>2, <2>2 DEF Seen, SeenInv, Held
<1>3. CASE stage = "cancelled"
  <2>1. buf[0] = NUL
    BY <1>3 DEF ConsoleInv, BufferInv
  <2> DEFINE Ends(m) == /\ m < SIZE => buf[m] = NUL
                        /\ \A i \in 0..(m - 1) : buf[i] # NUL
             end == CHOOSE m \in 0..SIZE : Ends(m)
  <2>2. 0 \in 0..SIZE /\ Ends(0)
    BY <2>1, SizeFacts
  <2>3. end \in 0..SIZE /\ Ends(end)
    <3> HIDE DEF Ends
    <3>1. QED
      BY <2>2
  <2>4. TextOf(buf) = [i \in 1..end |-> buf[i - 1]]
    BY DEF TextOf
  <2> HIDE DEF end
  <2>5. end = 0
    <3>1. end # 0 => 0 \in 0..(end - 1)
      BY <2>3, SizeFacts
    <3>2. QED
      BY <2>1, <2>3, <3>1
  <2>6. TextOf(buf) = Line(buf, 0)
    BY <2>4, <2>5 DEF Line
  <2>7. QED
    BY <1>1, <1>3, <2>6, LineOfNone DEF Seen, SeenInv, Held
<1>4. CASE stage \in {"busy", "drain", "jumped"}
  BY <1>4 DEF Seen, SeenInv, Held
<1>5. stage \in Stages
  BY DEF ConsoleInv, LineTypeOK
<1>6. QED
  BY <1>2, <1>3, <1>4, <1>5 DEF Stages, Held

\* A step of the shell maps to a step of the line editor, or to none.
EditorStep ==
  \/ /\ Returned = "editing" /\ Len(Seen) < SIZE - 1
     /\ \E c \in Printable : Seen' = Append(Seen, c)
     /\ Returned' = Returned
  \/ /\ Returned = "editing" /\ Seen # <<>>
     /\ Seen' = SubSeq(Seen, 1, Len(Seen) - 1)
     /\ Returned' = Returned
  \/ Returned = "editing" /\ Returned' = "entered" /\ Seen' = Seen
  \/ Returned = "editing" /\ Returned' = "cancelled" /\ Seen' = <<>>
  \/ Returned # "editing" /\ Returned' = "editing" /\ Seen' = <<>>
  \/ Seen' = Seen /\ Returned' = Returned

\* A step in this form is one of the line editor.
LEMMA EditorStepMaps == EditorStep => [Editor!Next]_(Editor!editorVars)
BY DEF EditorStep, Seen, Returned, Editor!Next, Editor!Type, Editor!Erase, Editor!Enter, Editor!Cancel,
       Editor!Again, Editor!editorVars, Editor!Editing, Editor!Entered, Editor!Cancelled

\* Every step of the shell has that form.
LEMMA ShellStep == ConsoleInv /\ SeenInv /\ SeenInv' /\ [Next]_vars => EditorStep
<1> SUFFICES ASSUME ConsoleInv, SeenInv, SeenInv', [Next]_vars PROVE EditorStep
  OBVIOUS
<1>1. /\ stage \in Held => Seen = Line(buf, pos)
      /\ stage \notin Held => Seen = <<>>
      /\ stage' \in Held => Seen' = Line(buf, pos)'
      /\ stage' \notin Held => Seen' = <<>>
  BY DEF SeenInv
<1>2. /\ stage \in Stages /\ LineTypeOK
      /\ stage \in Held => HoldsLine(buf, pos) /\ pos \in 0..(SIZE - 1)
  BY DEF ConsoleInv, LineTypeOK, BufferInv, Held
<1>3. CASE UNCHANGED <<buf, pos, stage>>
  BY <1>3 DEF EditorStep, Seen, Returned, Text
<1>4. CASE ReadEnd \/ ReadCtrlC
  <2>1. stage = "edit" /\ stage' \in {"enter", "cancel"} /\ UNCHANGED <<buf, pos>>
    BY <1>4 DEF ReadEnd, ReadCtrlC, Read
  <2>2. Seen' = Seen
    BY <1>1, <2>1 DEF Line, Held
  <2>3. Returned' = Returned
    BY <2>1 DEF Returned
  <2>4. QED
    BY <2>2, <2>3 DEF EditorStep
<1>5. CASE ReadErase
  <2>1. stage = "edit" /\ stage' = "edit" /\ pos > 0 /\ pos' = pos - 1 /\ buf' = [buf EXCEPT ![pos - 1] = NUL]
    BY <1>5 DEF ReadErase, Read
  <2>2. Seen = Line(buf, pos) /\ Seen' = Line(buf', pos')
    BY <1>1, <2>1 DEF Line, Held
  <2>3. Seen # <<>> /\ Seen' = SubSeq(Seen, 1, Len(Seen) - 1)
    BY <1>2, <2>1, <2>2, EraseCuts DEF Held
  <2>4. Returned = "editing" /\ Returned' = "editing"
    BY <2>1 DEF Returned
  <2>5. QED
    BY <2>3, <2>4 DEF EditorStep
<1>6. CASE ReadStore
  <2>1. /\ stage = "edit" /\ stage' = "edit" /\ pos < SIZE - 1 /\ pos' = pos + 1
        /\ \E c \in Printable : buf' = [buf EXCEPT ![pos] = c]
    BY <1>6 DEF ReadStore, Read
  <2>2. Seen = Line(buf, pos) /\ Seen' = Line(buf', pos')
    BY <1>1, <2>1 DEF Line, Held
  <2>3. \E c \in Printable : Seen' = Append(Seen, c)
    BY <1>2, <2>1, <2>2, StoreAppends DEF Held
  <2>4. Len(Seen) < SIZE - 1
    BY <1>2, <2>1, <2>2, LineIsSeq DEF Held
  <2>5. Returned = "editing" /\ Returned' = "editing"
    BY <2>1 DEF Returned
  <2>6. QED
    BY <2>3, <2>4, <2>5 DEF EditorStep
<1>7. CASE Return
  <2>1. CASE At("enter") /\ stage' = "entered" /\ buf' = [buf EXCEPT ![pos] = NUL] /\ UNCHANGED <<pos, todo>>
    <3>1. stage = "enter" /\ HoldsLine(buf, pos)
      BY <1>2, <2>1 DEF At, Held
    <3>2. buf' = buf
      BY <1>2, <2>1, <3>1 DEF HoldsLine, LineTypeOK
    <3>3. Seen' = Seen
      BY <1>1, <2>1, <3>1, <3>2 DEF Line, Held
    <3>4. Returned = "editing" /\ Returned' = "entered"
      BY <2>1, <3>1 DEF Returned
    <3>5. QED
      BY <3>3, <3>4 DEF EditorStep
  <2>2. CASE At("cancel") /\ stage' = "cancelled" /\ buf' = [buf EXCEPT ![0] = NUL] /\ UNCHANGED <<pos, todo>>
    <3>1. stage = "cancel"
      BY <2>2 DEF At
    <3>2. Seen' = <<>>
      BY <1>1, <2>2 DEF Held
    <3>3. Returned = "editing" /\ Returned' = "cancelled"
      BY <2>2, <3>1 DEF Returned
    <3>4. QED
      BY <3>2, <3>3 DEF EditorStep
  <2>3. QED
    BY <1>7, <2>1, <2>2 DEF Return
<1>8. CASE Reprompt \/ Dispatch
  <2>1. stage \in {"entered", "cancelled"} /\ stage' \in {"busy", "drain"}
    BY <1>8 DEF Reprompt, Dispatch, At
  <2>2. Seen' = <<>>
    BY <1>1, <2>1 DEF Held
  <2>3. Returned # "editing" /\ Returned' = "editing"
    BY <2>1 DEF Returned
  <2>4. QED
    BY <2>2, <2>3 DEF EditorStep
<1>9. CASE Begin
  <2>1. stage = "busy" /\ stage' = "edit" /\ pos' = 0
    BY <1>9 DEF Begin, At
  <2>2. Seen = <<>> /\ Seen' = Line(buf', 0)
    BY <1>1, <2>1 DEF Line, Held
  <2>3. Seen' = Seen
    BY <2>2, LineOfNone
  <2>4. Returned' = Returned
    BY <2>1 DEF Returned
  <2>5. QED
    BY <2>3, <2>4 DEF EditorStep
<1>10. CASE Jump
  <2>1. stage = "drain" /\ stage' = "jumped"
    BY <1>10 DEF Jump, At
  <2>2. Seen = <<>> /\ Seen' = <<>>
    BY <1>1, <2>1 DEF Held
  <2>3. Returned' = Returned
    BY <2>1 DEF Returned
  <2>4. QED
    BY <2>2, <2>3 DEF EditorStep
<1>11. CASE PollTx \/ PutChar \/ ReadIgnore \/ Transmit \/ Receive \/ UNCHANGED vars
  <2>1. UNCHANGED <<buf, pos, stage>>
    BY <1>11 DEF PollTx, PutChar, ReadIgnore, Transmit, Receive, vars, softVars
  <2>2. QED
    BY <1>3, <2>1
<1>12. QED
  BY <1>4, <1>5, <1>6, <1>7, <1>8, <1>9, <1>10, <1>11 DEF Next, Cpu, ReadKey

\* The shell implements the line editor: what shell_readline hands over is what
\* was typed and not erased, or a cancelled line, for every size of its buffer.
THEOREM ShellImplementsEditor == Spec => ImplementsEditor
<1>1. Init => Editor!Init
  BY DEF Init, Editor!Init, Editor!Editing
<1>2. ConsoleInv /\ SeenInv /\ SeenInv' /\ [Next]_vars => [Editor!Next]_(Editor!editorVars)
  BY ShellStep, EditorStepMaps
<1>3. QED
  BY <1>1, <1>2, SeenLine, ConsoleInvariant, PTL DEF Spec, ImplementsEditor, Editor!Spec
-----------------------------------------------------------------------------
\* Induction on the naturals, as a fact about sets.
LEMMA LeastNat ==
  ASSUME NEW S \in SUBSET Nat, S # {}
  PROVE  \E n \in S : \A m \in S : n <= m
<1>1. PICK n \in S : \A m \in S : ~ (<<m, n>> \in OpToRel(<, Nat))
  BY WFMin, NatLessThanWellFounded, Zenon
<1>2. \A m \in S : ~ (m < n)
  BY <1>1 DEF OpToRel
<1>3. \A m \in S : n <= m
  BY <1>2
<1>4. QED
  BY <1>3

\* A set with 0 and with the successor of each of its naturals has them all.
LEMMA SetOfAllNat ==
  ASSUME NEW T, 0 \in T, \A n \in Nat : n \in T => n + 1 \in T
  PROVE  Nat \subseteq T
<1> SUFFICES ASSUME ~ (Nat \subseteq T) PROVE FALSE
  OBVIOUS
<1>1. PICK S \in SUBSET Nat : S = Nat \ T
  OBVIOUS
<1>2. PICK n \in S : \A m \in S : n <= m
  BY <1>1, LeastNat
<1>3. n \in Nat /\ n \notin T /\ n # 0 /\ n - 1 \in Nat
  BY <1>1, <1>2
<1>4. n - 1 \in T
  BY <1>1, <1>2, <1>3
<1>5. n - 1 + 1 = n
  BY <1>3
<1>6. QED
  BY <1>3, <1>4, <1>5

\* The largest element of an interval, as FoldLeft looks for it.
LEMMA MaxOfSubset ==
  ASSUME NEW n \in Nat, NEW s \in SUBSET (1..(n + 1)), n + 1 \in s
  PROVE  Max(s) = n + 1
<1>1. \A y \in s : n + 1 >= y
  OBVIOUS
<1>2. \A x \in s : (\A y \in s : x >= y) => x = n + 1
  OBVIOUS
<1>3. QED
  BY <1>1, <1>2 DEF Max

\* The recursion of FoldLeft over n things has a solution, for every step.
FoldOf(S, b, h, n, g) ==
  \A s \in SUBSET (1..n) :
    g[s] \in S /\ g[s] = IF s = {} THEN b ELSE h[Max(s)][g[s \ {Max(s)}]]

\* A function that satisfies the equation up to n can be continued to n + 1.
LEMMA FoldGrows ==
  ASSUME NEW S, NEW b, NEW n \in Nat, NEW h, h[n + 1] \in [S -> S], NEW g, FoldOf(S, b, h, n, g)
  PROVE  \E f : f = [s \in SUBSET (1..(n + 1)) |-> f[s]] /\ FoldOf(S, b, h, n + 1, f)
<1> DEFINE f == [s \in SUBSET (1..(n + 1)) |->
                   IF n + 1 \in s THEN h[n + 1][g[s \ {n + 1}]] ELSE g[s]]
<1>1. ASSUME NEW s \in SUBSET (1..(n + 1))
      PROVE  f[s] \in S /\ f[s] = IF s = {} THEN b ELSE h[Max(s)][f[s \ {Max(s)}]]
  <2>1. f[s] = IF n + 1 \in s THEN h[n + 1][g[s \ {n + 1}]] ELSE g[s]
    OBVIOUS
  <2>2. \A r \in SUBSET (1..(n + 1)) : n + 1 \notin r => r \in SUBSET (1..n) /\ f[r] = g[r]
    <3>1. \A i \in 1..(n + 1) : i # n + 1 => i \in 1..n
      OBVIOUS
    <3>2. QED
      BY <3>1
  <2> HIDE DEF f
  <2>3. CASE n + 1 \in s
    <3>1. Max(s) = n + 1 /\ s # {}
      BY <2>3, MaxOfSubset
    <3>2. s \ {n + 1} \in SUBSET (1..(n + 1)) /\ n + 1 \notin s \ {n + 1}
      OBVIOUS
    <3>3. f[s \ {n + 1}] = g[s \ {n + 1}]
      BY <2>2, <3>2
    <3>4. s \ {n + 1} \in SUBSET (1..n)
      BY <2>2, <3>2
    <3>5. g[s \ {n + 1}] \in S
      BY <3>4 DEF FoldOf
    <3>6. QED
      BY <2>1, <2>3, <3>1, <3>3, <3>5
  <2>4. CASE n + 1 \notin s
    <3>1. s \in SUBSET (1..n) /\ f[s] = g[s]
      BY <2>2, <2>4
    <3>2. g[s] \in S /\ g[s] = IF s = {} THEN b ELSE h[Max(s)][g[s \ {Max(s)}]]
      BY <3>1 DEF FoldOf
    <3>3. s \ {Max(s)} \in SUBSET (1..(n + 1)) /\ n + 1 \notin s \ {Max(s)}
      BY <2>4
    <3>4. f[s \ {Max(s)}] = g[s \ {Max(s)}]
      BY <2>2, <3>3
    <3>5. QED
      BY <3>1, <3>2, <3>4
  <2>5. QED
    BY <2>3, <2>4
<1>2. FoldOf(S, b, h, n + 1, f)
  <2> HIDE DEF f
  <2>1. QED
    BY <1>1 DEF FoldOf
<1>3. f = [s \in SUBSET (1..(n + 1)) |-> f[s]]
  OBVIOUS
<1> HIDE DEF f
<1>4. QED
  BY <1>2, <1>3

\* There is such a function for every n.
LEMMA FoldExists ==
  ASSUME NEW S, NEW b \in S, NEW N \in Nat, NEW h \in [1..N -> [S -> S]]
  PROVE  \E g : g = [s \in SUBSET (1..N) |-> g[s]] /\ FoldOf(S, b, h, N, g)
<1> DEFINE Solved(n) == \E g : g = [s \in SUBSET (1..n) |-> g[s]] /\ FoldOf(S, b, h, n, g)
           T == {n \in Nat : n <= N => Solved(n)}
<1>1. Solved(0)
  <2> DEFINE g == [s \in SUBSET (1..0) |-> b]
  <2>1. \A s \in SUBSET (1..0) : s = {}
    OBVIOUS
  <2>2. \A s \in SUBSET (1..0) : g[s] = b
    OBVIOUS
  <2>3. g = [s \in SUBSET (1..0) |-> g[s]]
    OBVIOUS
  <2> HIDE DEF g
  <2>4. FoldOf(S, b, h, 0, g)
    BY <2>1, <2>2 DEF FoldOf
  <2>5. QED
    BY <2>3, <2>4
<1>2. ASSUME NEW n \in Nat, n + 1 <= N, Solved(n) PROVE Solved(n + 1)
  <2>1. PICK g : FoldOf(S, b, h, n, g)
    BY <1>2
  <2>2. h[n + 1] \in [S -> S]
    BY <1>2
  <2>3. \E f : f = [s \in SUBSET (1..(n + 1)) |-> f[s]] /\ FoldOf(S, b, h, n + 1, f)
    BY <2>1, <2>2, FoldGrows, Zenon
  <2>4. QED
    BY <2>3, Zenon
<1> HIDE DEF Solved
<1>3. 0 \in T
  BY <1>1
<1>4. ASSUME NEW n \in Nat, n \in T PROVE n + 1 \in T
  BY <1>2, <1>4
<1>5. N \in T
  <2> HIDE DEF T
  <2>1. QED
    BY <1>3, <1>4, SetOfAllNat
<1>6. Solved(N)
  BY <1>5
<1>7. QED
  BY <1>6, Zenon DEF Solved

\* A set of positions has a largest one.
LEMMA MaxIsElement ==
  ASSUME NEW N \in Nat, NEW s \in SUBSET (1..N), s # {}
  PROVE  Max(s) \in s
<1> DEFINE Bounded(n) == \A r \in SUBSET (1..n) : r # {} => \E x \in r : \A y \in r : x >= y
           T == {n \in Nat : Bounded(n)}
<1>1. Bounded(0)
  <2>1. 1..0 = {}
    OBVIOUS
  <2>2. QED
    BY <2>1
<1>2. ASSUME NEW n \in Nat, Bounded(n) PROVE Bounded(n + 1)
  <2> SUFFICES ASSUME NEW r \in SUBSET (1..(n + 1)), r # {} PROVE \E x \in r : \A y \in r : x >= y
    OBVIOUS
  <2>1. CASE n + 1 \in r
    BY <2>1
  <2>2. CASE n + 1 \notin r
    <3>1. r \in SUBSET (1..n)
      BY <2>2
    <3>2. QED
      BY <1>2, <3>1
  <2>3. QED
    BY <2>1, <2>2
<1> HIDE DEF Bounded
<1>3. N \in T
  <2>1. 0 \in T /\ \A n \in Nat : n \in T => n + 1 \in T
    BY <1>1, <1>2
  <2> HIDE DEF T
  <2>2. QED
    BY <2>1, SetOfAllNat
<1>4. \E x \in s : \A y \in s : x >= y
  BY <1>3 DEF Bounded
<1>5. QED
  BY <1>4 DEF Max
-----------------------------------------------------------------------------
\* What the terminal shows once the characters of q have arrived.
Final(scr, q) == FoldLeft(Display, scr, q)

\* The screens on the way there.
Passes(scr, q, r) ==
  r[0] = scr /\ \A n \in 1..Len(q) : r[n - 1] \in Screens /\ r[n] = Display(r[n - 1], q[n])

\* The terminal takes the characters one after the other.
LEMMA FinalRuns ==
  ASSUME NEW scr \in Screens, NEW q \in Seq(Sent)
  PROVE  \E r : Passes(scr, q, r) /\ Final(scr, q) = r[Len(q)] /\ r[Len(q)] \in Screens
<1> DEFINE N == Len(q)
           Solves(g) == g = [s \in SUBSET (DOMAIN q) |-> IF s = {} THEN scr
                                                         ELSE Display(g[s \ {Max(s)}], q[Max(s)])]
           iter == CHOOSE g : Solves(g)
           h == [m \in 1..N |-> [x \in Screens |-> Display(x, q[m])]]
<1>1. N \in Nat /\ DOMAIN q = 1..N /\ \A m \in 1..N : q[m] \in Sent
  BY LenProperties, ElementOfSeq
<1>2. Final(scr, q) = iter[1..N]
  BY <1>1 DEF Final, FoldLeft, MapThenFoldSet
<1>3. h \in [1..N -> [Screens -> Screens]]
  BY <1>1, DisplayType
<1>4. PICK g : g = [s \in SUBSET (1..N) |-> g[s]] /\ FoldOf(Screens, scr, h, N, g)
  <2> HIDE DEF h, N
  <2>1. QED
    BY <1>1, <1>3, FoldExists
<1>5. \A s \in SUBSET (1..N) : s # {} =>
        /\ Max(s) \in 1..N /\ g[s \ {Max(s)}] \in Screens
        /\ g[s] = Display(g[s \ {Max(s)}], q[Max(s)])
  <2> SUFFICES ASSUME NEW s \in SUBSET (1..N), s # {}
               PROVE  /\ Max(s) \in 1..N /\ g[s \ {Max(s)}] \in Screens
                      /\ g[s] = Display(g[s \ {Max(s)}], q[Max(s)])
    OBVIOUS
  <2> HIDE DEF N
  <2>1. Max(s) \in 1..N /\ s \ {Max(s)} \in SUBSET (1..N)
    BY <1>1, MaxIsElement
  <2>2. g[s \ {Max(s)}] \in Screens /\ g[s] = h[Max(s)][g[s \ {Max(s)}]]
    BY <1>4, <2>1 DEF FoldOf
  <2>3. \A m \in 1..N, x \in Screens : h[m][x] = Display(x, q[m])
    OBVIOUS
  <2> HIDE DEF h
  <2>4. QED
    BY <2>1, <2>2, <2>3
<1>6. Solves(g)
  <2> HIDE DEF N, h
  <2>1. g[{}] = scr
    BY <1>4 DEF FoldOf
  <2>2. QED
    BY <1>1, <1>4, <1>5, <2>1
<1>7. Solves(iter)
  <2> HIDE DEF Solves
  <2>1. QED
    BY <1>6
<1> DEFINE r == [n \in 0..N |-> iter[1..n]]
<1>8. r[0] = scr
  <2> HIDE DEF iter
  <2>1. iter[{}] = scr /\ 1..0 = {}
    BY <1>7
  <2>2. QED
    BY <1>1, <2>1
<1>9. \A n \in 1..N : r[n] = Display(r[n - 1], q[n])
  <2> SUFFICES ASSUME NEW n \in 1..N PROVE r[n] = Display(r[n - 1], q[n])
    OBVIOUS
  <2> HIDE DEF iter, N
  <2>1. 1..n \in SUBSET (1..N) /\ 1..n # {} /\ n - 1 \in Nat
    <3>1. n - 1 \in Nat /\ n \in 1..n /\ \A i \in 1..n : i \in 1..N
      BY <1>1
    <3>2. QED
      BY <3>1
  <2>2. Max(1..n) = n
    <3>1. n - 1 + 1 = n /\ n \in 1..n
      BY <2>1
    <3>2. QED
      BY <2>1, <3>1, MaxOfSubset
  <2>3. (1..n) \ {n} = 1..(n - 1)
    BY <2>1
  <2>4. iter[1..n] = Display(iter[1..(n - 1)], q[n])
    BY <1>1, <1>7, <2>1, <2>2, <2>3
  <2>5. n \in 0..N /\ n - 1 \in 0..N
    BY <1>1
  <2>6. QED
    BY <2>4, <2>5
<1>10. \A n \in 0..N : r[n] \in Screens
  <2> DEFINE T == {n \in Nat : n <= N => r[n] \in Screens}
  <2> HIDE DEF N, r
  <2>1. 0 \in T
    BY <1>8
  <2>2. ASSUME NEW n \in Nat, n \in T PROVE n + 1 \in T
    <3>1. CASE n + 1 <= N
      <4>1. n + 1 \in 1..N /\ n + 1 - 1 = n /\ r[n] \in Screens
        BY <1>1, <2>2, <3>1
      <4>2. r[n + 1] = Display(r[n], q[n + 1]) /\ q[n + 1] \in Sent
        BY <1>1, <1>9, <4>1
      <4>3. QED
        BY <4>1, <4>2, DisplayType
    <3>2. QED
      BY <3>1
  <2>3. \A n \in Nat : n \in T
    <3> HIDE DEF T
    <3>1. QED
      BY <2>1, <2>2, SetOfAllNat
  <2>4. QED
    BY <2>3
<1>11. Final(scr, q) = r[N]
  <2> HIDE DEF iter, N
  <2>1. QED
    BY <1>1, <1>2
<1>12. \A n \in 1..N : n - 1 \in 0..N
  <2> HIDE DEF N
  <2>1. QED
    BY <1>1
<1>13. QED
  <2> HIDE DEF r
  <2>1. Passes(scr, q, r) /\ r[N] \in Screens
    BY <1>1, <1>8, <1>9, <1>10, <1>12 DEF Passes
  <2>2. QED
    BY <1>11, <2>1

\* Two ways through the same characters pass the same screens.
LEMMA PassesAgree ==
  ASSUME NEW q, Len(q) \in Nat, NEW r, NEW p, r[0] = p[0],
         \A n \in 1..Len(q) : r[n] = Display(r[n - 1], q[n]) /\ p[n] = Display(p[n - 1], q[n])
  PROVE  r[Len(q)] = p[Len(q)]
<1> DEFINE N == Len(q)
           T == {n \in Nat : n <= N => r[n] = p[n]}
<1>1. 0 \in T
  OBVIOUS
<1>2. ASSUME NEW n \in Nat, n \in T PROVE n + 1 \in T
  <2>1. CASE n + 1 <= N
    <3>1. n + 1 \in 1..N /\ n + 1 - 1 = n /\ r[n] = p[n]
      BY <1>2, <2>1
    <3>2. r[n + 1] = Display(r[n], q[n + 1]) /\ p[n + 1] = Display(p[n], q[n + 1])
      BY <3>1
    <3>3. QED
      BY <3>1, <3>2
  <2>2. QED
    BY <2>1
<1>3. N \in T
  <2> HIDE DEF T
  <2>1. QED
    BY <1>1, <1>2, SetOfAllNat
<1>4. QED
  BY <1>3

\* Nothing more to come, one character, and one text after the other.
LEMMA FinalNone ==
  ASSUME NEW scr \in Screens
  PROVE  Final(scr, <<>>) = scr
<1>1. <<>> \in Seq(Sent) /\ Len(<<>>) = 0
  OBVIOUS
<1>2. PICK r : Passes(scr, <<>>, r) /\ Final(scr, <<>>) = r[Len(<<>>)]
  BY <1>1, FinalRuns
<1>3. QED
  BY <1>1, <1>2 DEF Passes

\* One character.
LEMMA FinalOne ==
  ASSUME NEW scr \in Screens, NEW c \in Sent
  PROVE  Final(scr, <<c>>) = Display(scr, c) /\ Final(scr, <<c>>) \in Screens
<1>1. PICK q \in Seq(Sent) : q = <<c>>
  <2>1. <<c>> \in Seq(Sent)
    OBVIOUS
  <2>2. QED
    BY <2>1
<1>2. Len(q) = 1 /\ q[1] = c
  BY <1>1
<1>3. PICK r : Passes(scr, q, r) /\ Final(scr, q) = r[Len(q)]
  BY FinalRuns
<1>4. r[0] = scr /\ r[1] = Display(r[1 - 1], q[1]) /\ 1 - 1 = 0
  BY <1>2, <1>3 DEF Passes
<1>5. QED
  BY <1>1, <1>2, <1>3, <1>4, DisplayType

\* What is shown in the end is a screen.
LEMMA FinalTyped ==
  ASSUME NEW scr \in Screens, NEW q \in Seq(Sent)
  PROVE  Final(scr, q) \in Screens
BY FinalRuns

\* First one text, then the next.
LEMMA FinalConcat ==
  ASSUME NEW scr \in Screens, NEW u \in Seq(Sent), NEW v \in Seq(Sent)
  PROVE  Final(scr, u \o v) = Final(Final(scr, u), v)
<1>1. PICK q \in Seq(Sent) : q = u \o v
  BY ConcatProperties
<1>2. /\ Len(u) \in Nat /\ Len(v) \in Nat /\ Len(q) = Len(u) + Len(v)
      /\ \A n \in 1..Len(u) : q[n] = u[n]
      /\ \A n \in 1..Len(v) : q[Len(u) + n] = v[n]
  BY <1>1, ConcatProperties, LenProperties
<1>3. PICK r : Passes(scr, q, r) /\ Final(scr, q) = r[Len(q)]
  BY FinalRuns
<1>4. PICK ru : Passes(scr, u, ru) /\ Final(scr, u) = ru[Len(u)]
  BY FinalRuns
<1>5. PICK mid \in Screens : mid = Final(scr, u)
  BY FinalTyped
<1>6. PICK rv : Passes(mid, v, rv) /\ Final(mid, v) = rv[Len(v)]
  BY FinalRuns
<1>7. r[Len(u)] = ru[Len(u)]
  <2>1. r[0] = ru[0] /\ \A n \in 1..Len(u) : n \in 1..Len(q)
    BY <1>2, <1>3, <1>4 DEF Passes
  <2>2. \A n \in 1..Len(u) : r[n] = Display(r[n - 1], u[n]) /\ ru[n] = Display(ru[n - 1], u[n])
    BY <1>2, <1>3, <1>4, <2>1 DEF Passes
  <2>3. QED
    BY <1>2, <2>1, <2>2, PassesAgree, Zenon
<1> DEFINE rest == [n \in 0..Len(v) |-> r[Len(u) + n]]
<1>8. rest[Len(v)] = rv[Len(v)]
  <2>1. rest[0] = rv[0]
    BY <1>2, <1>4, <1>5, <1>6, <1>7 DEF Passes
  <2>2. ASSUME NEW n \in 1..Len(v)
        PROVE  rest[n] = Display(rest[n - 1], v[n]) /\ rv[n] = Display(rv[n - 1], v[n])
    <3>1. /\ Len(u) + n \in 1..Len(q) /\ Len(u) + n - 1 = Len(u) + (n - 1)
          /\ n \in 0..Len(v) /\ n - 1 \in 0..Len(v)
      BY <1>2
    <3>2. r[Len(u) + n] = Display(r[Len(u) + n - 1], v[n])
      BY <1>2, <1>3, <3>1 DEF Passes
    <3>3. rest[n] = r[Len(u) + n] /\ rest[n - 1] = r[Len(u) + (n - 1)]
      BY <3>1
    <3> HIDE DEF rest
    <3>4. rest[n] = Display(rest[n - 1], v[n])
      BY <3>1, <3>2, <3>3
    <3>5. QED
      BY <1>6, <3>4 DEF Passes
  <2> HIDE DEF rest
  <2>3. QED
    BY <1>2, <2>1, <2>2, PassesAgree, Zenon
<1>9. rest[Len(v)] = r[Len(q)]
  BY <1>2
<1>10. QED
  <2> HIDE DEF rest
  <2>1. QED
    BY <1>1, <1>3, <1>5, <1>6, <1>8, <1>9

-----------------------------------------------------------------------------
\* The terminal shows the line w, the cursor behind it and nothing but spaces after it.
ShowsLine(scr, w) ==
  /\ scr \in Screens /\ scr.col = Len(w)
  /\ \A i \in 1..Len(scr.row) : scr.row[i] = IF i <= Len(w) THEN w[i] ELSE " "
EmptyLine == [row |-> <<>>, col |-> 0]

\* An empty line shows nothing.
LEMMA EmptyShows == ShowsLine(EmptyLine, <<>>)
<1>1. <<>> \in Seq(Printable) /\ Len(<<>>) = 0
  OBVIOUS
<1>2. QED
  BY <1>1 DEF ShowsLine, EmptyLine, Screens

\* What a character that is no control does.
LEMMA DisplayPrintable ==
  ASSUME NEW scr \in Screens, NEW c \in Printable
  PROVE  /\ Display(scr, c) \in Screens /\ Display(scr, c).col = scr.col + 1
         /\ Len(Display(scr, c).row) = IF scr.col < Len(scr.row) THEN Len(scr.row) ELSE scr.col + 1
         /\ \A i \in 1..Len(Display(scr, c).row) :
              Display(scr, c).row[i] = IF i = scr.col + 1 THEN c ELSE scr.row[i]
<1> DEFINE n == IF scr.col < Len(scr.row) THEN Len(scr.row) ELSE scr.col + 1
           row == [i \in 1..n |-> IF i = scr.col + 1 THEN c ELSE scr.row[i]]
<1>1. c \notin {"CR", "LF", "BS"} /\ c \in Sent
  BY SentFacts DEF Printable, Controls
<1>2. Display(scr, c) = [row |-> row, col |-> scr.col + 1]
  BY <1>1 DEF Display
<1>3. Display(scr, c) \in Screens
  BY <1>1, DisplayType
<1>4. scr.col \in Nat /\ Len(scr.row) \in Nat /\ n \in Nat
  BY LenProperties DEF Screens
<1>5. Display(scr, c).row = row /\ Display(scr, c).col = scr.col + 1
  BY <1>2
<1>6. Len(row) = n
  <2>1. row \in Seq(Printable)
    BY <1>3, <1>5 DEF Screens
  <2>2. DOMAIN row = 1..n /\ row = [i \in 1..n |-> row[i]]
    OBVIOUS
  <2> HIDE DEF row, n
  <2>3. \A i \in 1..n : row[i] \in Printable
    BY <2>1, <2>2, ElementOfSeq, LenProperties
  <2>4. row \in [1..n -> Printable]
    BY <2>2, <2>3
  <2>5. QED
    BY <1>4, <2>4, FunctionIsSeq
<1>7. \A i \in 1..n : row[i] = IF i = scr.col + 1 THEN c ELSE scr.row[i]
  OBVIOUS
<1>8. QED
  <2> HIDE DEF row
  <2>1. QED
    BY <1>3, <1>5, <1>6, <1>7

\* Echo of a character stored.
LEMMA EchoShows ==
  ASSUME NEW scr, NEW w \in Seq(Printable), ShowsLine(scr, w), NEW c \in Printable
  PROVE  ShowsLine(Display(scr, c), Append(w, c))
<1>1. scr \in Screens /\ scr.col = Len(w) /\ Len(w) \in Nat /\ Len(scr.row) \in Nat /\ scr.col <= Len(scr.row)
  BY LenProperties DEF ShowsLine, Screens
<1>2. /\ Len(Append(w, c)) = Len(w) + 1 /\ Append(w, c)[Len(w) + 1] = c
      /\ \A i \in 1..Len(w) : Append(w, c)[i] = w[i]
  BY AppendProperties
<1>3. PICK to : to = Display(scr, c)
  OBVIOUS
<1>4. /\ to \in Screens /\ to.col = scr.col + 1
      /\ Len(to.row) = IF scr.col < Len(scr.row) THEN Len(scr.row) ELSE scr.col + 1
      /\ \A i \in 1..Len(to.row) : to.row[i] = IF i = scr.col + 1 THEN c ELSE scr.row[i]
  BY <1>1, <1>3, DisplayPrintable
<1>5. ASSUME NEW i \in 1..Len(to.row)
      PROVE  to.row[i] = IF i <= Len(w) + 1 THEN Append(w, c)[i] ELSE " "
  <2>1. CASE i = Len(w) + 1
    BY <1>1, <1>2, <1>4, <2>1
  <2>2. CASE i # Len(w) + 1
    <3>1. to.row[i] = scr.row[i]
      BY <1>1, <1>4, <2>2
    <3>2. i \in 1..Len(scr.row) /\ i \in Nat
      BY <1>1, <1>4, <2>2
    <3>3. scr.row[i] = IF i <= Len(w) THEN w[i] ELSE " "
      BY <3>2 DEF ShowsLine
    <3>4. i <= Len(w) <=> i <= Len(w) + 1
      BY <1>1, <2>2, <3>2
    <3>5. i <= Len(w) => Append(w, c)[i] = w[i]
      BY <1>2, <3>2
    <3>6. QED
      BY <3>1, <3>3, <3>4, <3>5
  <2>3. QED
    BY <2>1, <2>2
<1>6. QED
  BY <1>1, <1>2, <1>3, <1>4, <1>5 DEF ShowsLine

\* Back, a space over the character, and back.
LEMMA BlankShows ==
  ASSUME NEW scr, NEW w \in Seq(Printable), NEW c \in Printable, ShowsLine(scr, Append(w, c))
  PROVE  ShowsLine(Display(Display(Display(scr, "BS"), " "), "BS"), w)
<1>1. /\ Len(Append(w, c)) = Len(w) + 1 /\ Len(w) \in Nat
      /\ \A i \in 1..Len(w) : Append(w, c)[i] = w[i]
  BY AppendProperties, LenProperties
<1>2. scr \in Screens /\ scr.col = Len(w) + 1 /\ Len(scr.row) \in Nat /\ scr.col <= Len(scr.row)
  BY <1>1, LenProperties DEF ShowsLine, Screens
<1>3. PICK back : back = Display(scr, "BS")
  OBVIOUS
<1>4. back \in Screens /\ back.col = Len(w) /\ back.row = scr.row
  <2>1. back \in Screens
    BY <1>2, <1>3, DisplayType, SentFacts
  <2>2. back = [scr EXCEPT !.col = IF scr.col > 0 THEN scr.col - 1 ELSE 0]
    BY <1>3 DEF Display
  <2>3. QED
    BY <1>1, <1>2, <2>1, <2>2 DEF Screens
<1>5. PICK over : over = Display(back, " ")
  OBVIOUS
<1>6. /\ over \in Screens /\ over.col = Len(w) + 1 /\ Len(over.row) = Len(scr.row)
      /\ \A i \in 1..Len(over.row) : over.row[i] = IF i = Len(w) + 1 THEN " " ELSE scr.row[i]
  <2>1. /\ over \in Screens /\ over.col = back.col + 1
        /\ Len(over.row) = IF back.col < Len(back.row) THEN Len(back.row) ELSE back.col + 1
        /\ \A i \in 1..Len(over.row) : over.row[i] = IF i = back.col + 1 THEN " " ELSE back.row[i]
    BY <1>4, <1>5, DisplayPrintable, SentFacts
  <2>2. back.col < Len(back.row) /\ back.col + 1 = Len(w) + 1 /\ back.row = scr.row
    BY <1>1, <1>2, <1>4
  <2>3. QED
    BY <2>1, <2>2
<1>7. PICK to : to = Display(over, "BS")
  OBVIOUS
<1>8. to \in Screens /\ to.col = Len(w) /\ to.row = over.row
  <2>1. to \in Screens
    BY <1>6, <1>7, DisplayType, SentFacts
  <2>2. to = [over EXCEPT !.col = IF over.col > 0 THEN over.col - 1 ELSE 0]
    BY <1>7 DEF Display
  <2>3. over.col > 0 /\ over.col - 1 = Len(w)
    <3>1. over.col = Len(w) + 1 /\ Len(w) \in Nat
      BY <1>1, <1>6
    <3>2. QED
      BY <3>1
  <2>4. over \in [row : Seq(Printable), col : Nat]
    BY <1>6 DEF Screens
  <2>5. to = [over EXCEPT !.col = over.col - 1]
    BY <2>2, <2>3
  <2>6. to.col = over.col - 1 /\ to.row = over.row
    BY <2>4, <2>5
  <2>7. QED
    BY <2>1, <2>3, <2>6
<1>9. ASSUME NEW i \in 1..Len(to.row) PROVE to.row[i] = IF i <= Len(w) THEN w[i] ELSE " "
  <2>1. i \in 1..Len(scr.row) /\ to.row[i] = IF i = Len(w) + 1 THEN " " ELSE scr.row[i]
    BY <1>6, <1>8
  <2>2. scr.row[i] = IF i <= Len(w) + 1 THEN Append(w, c)[i] ELSE " "
    BY <1>1, <2>1 DEF ShowsLine
  <2>6. i \in Nat /\ i > 0
    <3>1. \A k \in 1..Len(scr.row) : k \in Nat /\ k > 0
      BY <1>2
    <3>2. QED
      BY <2>1, <3>1, Zenon
  <2>3. CASE i <= Len(w)
    <3>1. i # Len(w) + 1 /\ i <= Len(w) + 1 /\ i \in 1..Len(w)
      BY <1>1, <2>3, <2>6
    <3>2. Append(w, c)[i] = w[i]
      BY <1>1, <3>1
    <3>3. QED
      BY <2>1, <2>2, <2>3, <3>1, <3>2
  <2>4. CASE ~(i <= Len(w))
    <3>1. i # Len(w) + 1 => ~(i <= Len(w) + 1)
      BY <1>1, <2>4, <2>6
    <3>2. QED
      BY <2>1, <2>2, <2>4, <3>1
  <2>5. QED
    BY <2>3, <2>4
<1>10. QED
  BY <1>3, <1>5, <1>7, <1>8, <1>9 DEF ShowsLine

\* Whatever was shown, a new line is empty.
LEMMA NewLineShows ==
  ASSUME NEW scr \in Screens
  PROVE  Final(scr, newline) = EmptyLine
<1>1. {"CR", "LF"} \subseteq Sent
  BY SentFacts
<1>2. <<"CR">> \in Seq(Sent) /\ <<"LF">> \in Seq(Sent) /\ newline = <<"CR">> \o <<"LF">>
  BY <1>1 DEF newline
<1>3. PICK at : at = Display(scr, "CR") /\ at \in Screens
  BY <1>1, DisplayType
<1>4. at.col = 0
  BY <1>3 DEF Display, Screens
<1>5. Final(scr, newline) = Display(at, "LF")
  <2>1. Final(scr, newline) = Final(Final(scr, <<"CR">>), <<"LF">>)
    BY <1>2, FinalConcat
  <2>2. Final(scr, <<"CR">>) = at
    BY <1>1, <1>3, FinalOne
  <2>3. Final(at, <<"LF">>) = Display(at, "LF")
    BY <1>1, <1>3, FinalOne
  <2>4. QED
    BY <2>1, <2>2, <2>3
<1>6. Display(at, "LF") = [at EXCEPT !.row = [i \in 1..at.col |-> " "]]
  BY DEF Display
<1>7. [i \in 1..0 |-> " "] = <<>>
  OBVIOUS
<1>8. QED
  BY <1>3, <1>4, <1>5, <1>6, <1>7 DEF Screens, EmptyLine

\* A line put on an empty one is shown.
LEMMA TextShows ==
  ASSUME NEW w \in Seq(Printable)
  PROVE  w \in Seq(Sent) /\ ShowsLine(Final(EmptyLine, w), w)
<1> DEFINE Good(n) == \A u \in Seq(Printable) : Len(u) = n => ShowsLine(Final(EmptyLine, u), u)
           T == {n \in Nat : Good(n)}
<1>1. \A u \in Seq(Printable) : u \in Seq(Sent)
  BY SentFacts, SeqMonotonic
<1>2. EmptyLine \in Screens
  BY EmptyShows DEF ShowsLine
<1>3. Good(0)
  <2>1. \A u \in Seq(Printable) : Len(u) = 0 => u = <<>>
    OBVIOUS
  <2>2. ShowsLine(Final(EmptyLine, <<>>), <<>>)
    BY <1>2, FinalNone, EmptyShows
  <2>3. QED
    BY <2>1, <2>2
<1>4. ASSUME NEW n \in Nat, Good(n) PROVE Good(n + 1)
  <2> SUFFICES ASSUME NEW u \in Seq(Printable), Len(u) = n + 1
               PROVE  ShowsLine(Final(EmptyLine, u), u)
    OBVIOUS
  <2>1. u # <<>>
    OBVIOUS
  <2>2. PICK front \in Seq(Printable), c \in Printable : u = Append(front, c)
    BY <2>1, SequenceEmptyOrAppend
  <2>3. Len(front) = n
    <3>1. Len(u) = Len(front) + 1 /\ Len(front) \in Nat
      BY <2>2, AppendProperties, LenProperties
    <3>2. QED
      BY <3>1
  <2>4. ShowsLine(Final(EmptyLine, front), front)
    BY <1>4, <2>3
  <2>5. PICK at : at = Final(EmptyLine, front) /\ at \in Screens
    BY <2>4 DEF ShowsLine
  <2>6. ShowsLine(Display(at, c), u)
    BY <2>2, <2>4, <2>5, EchoShows
  <2>7. Final(EmptyLine, u) = Display(at, c)
    <3>1. c \in Sent /\ <<c>> \in Seq(Sent) /\ front \in Seq(Sent)
      BY <1>1, SentFacts, EchoIsSent
    <3>2. u = front \o <<c>>
      BY <2>2, AppendIsConcat
    <3>3. Final(EmptyLine, u) = Final(at, <<c>>)
      BY <1>2, <2>5, <3>1, <3>2, FinalConcat
    <3>4. QED
      BY <2>5, <3>1, <3>3, FinalOne
  <2>8. QED
    BY <2>6, <2>7
<1>5. Len(w) \in T
  <2>1. 0 \in T /\ \A n \in Nat : n \in T => n + 1 \in T
    <3> HIDE DEF Good
    <3>1. QED
      BY <1>3, <1>4
  <2>2. Len(w) \in Nat
    BY LenProperties
  <2> HIDE DEF T
  <2>3. QED
    BY <2>1, <2>2, SetOfAllNat
<1>6. QED
  BY <1>1, <1>5

\* What a command prints leaves an empty line.
LEMMA OutputShows ==
  ASSUME NEW out \in Outputs
  PROVE  out \in Seq(Sent) /\ Final(EmptyLine, out) = EmptyLine
<1>1. out \in Seq(Sent) /\ EndsLine(out)
  BY Zenon, ConsoleAssumption
<1>2. EmptyLine \in Screens
  BY EmptyShows DEF ShowsLine
<1>3. CASE out = <<>>
  BY <1>1, <1>2, <1>3, FinalNone
<1>4. CASE \E n \in 0..Len(out) : SubSeq(out, n + 1, Len(out)) = newline
  <2>1. PICK n \in 0..Len(out) : SubSeq(out, n + 1, Len(out)) = newline
    BY <1>4
  <2>2. Len(out) \in Nat
    BY <1>1, LenProperties
  <2>3. PICK text : text = SubSeq(out, 1, n)
    OBVIOUS
  <2>4. out = text \o newline
    <3>1. 1 \in 1..(Len(out) + 1) /\ n \in (1 - 1)..Len(out) /\ Len(out) \in n..Len(out)
      BY <2>2
    <3>2. SubSeq(out, 1, n) \o SubSeq(out, n + 1, Len(out)) = SubSeq(out, 1, Len(out))
      BY <1>1, <3>1, ConcatAdjacentSubSeq
    <3>3. SubSeq(out, 1, Len(out)) = out
      BY <1>1, SubSeqFull
    <3>4. QED
      BY <2>1, <2>3, <3>2, <3>3
  <2>5. text \in Seq(Sent)
    <3>1. 1 \in Int /\ n \in Int /\ \A i \in 1..n : i \in 1..Len(out)
      BY <2>2
    <3>2. \A i \in 1..n : out[i] \in Sent
      BY <1>1, <3>1, ElementOfSeq
    <3>3. QED
      BY <2>3, <3>1, <3>2, SubSeqProperties
  <2>6. Final(EmptyLine, text) \in Screens
    BY <1>2, <2>5, FinalTyped
  <2>7. Final(EmptyLine, out) = Final(Final(EmptyLine, text), newline)
    BY <1>2, <2>4, <2>5, EchoIsSent, FinalConcat
  <2>8. QED
    BY <1>1, <2>6, <2>7, NewLineShows
<1>5. QED
  BY <1>1, <1>3, <1>4 DEF EndsLine

-----------------------------------------------------------------------------
\* What the terminal will show, for each place of the program: the prompt, the prompt
\* with the line of the buffer, or an empty line.  The poll of shell_putchar still holds
\* when the character is written, and after `go' there is nothing left to send.
EchoInv ==
  /\ ready => Len(tx_fifo) < FIFO_DEPTH
  /\ stage = "edit" => ShowsLine(Shown, PROMPT \o Line(buf, pos))
  /\ stage = "busy" => ShowsLine(Shown, PROMPT)
  /\ stage \notin {"edit", "busy"} => Shown = EmptyLine
  /\ stage = "jumped" => todo = <<>> /\ tx_fifo = <<>>

\* What is in flight is text, and will have been shown.
LEMMA ShownTyped ==
  ASSUME ConsoleInv
  PROVE  InFlight \in Seq(Sent) /\ Shown = Final(screen, InFlight) /\ Shown \in Screens
<1>1. tx_shift \in Seq(Sent) /\ tx_fifo \in Seq(Sent) /\ todo \in Seq(Sent) /\ screen \in Screens
  BY DEF ConsoleInv, FlowTypeOK, ScreenTypeOK
<1>2. tx_shift \o tx_fifo \in Seq(Sent)
  BY <1>1, ConcatProperties
<1>3. InFlight \in Seq(Sent)
  BY <1>1, <1>2, ConcatProperties DEF InFlight
<1>4. Shown = Final(screen, InFlight)
  BY DEF Shown, Final
<1>5. PICK scr \in Screens, q \in Seq(Sent) : scr = screen /\ q = InFlight
  BY <1>1, <1>3
<1>6. Final(scr, q) \in Screens
  BY FinalTyped
<1>7. QED
  BY <1>3, <1>4, <1>5, <1>6

\* The program puts something more.
LEMMA ShownGrows ==
  ASSUME ConsoleInv, UNCHANGED <<tx_fifo, tx_shift, screen>>, todo = <<>>, NEW out \in Seq(Sent), todo' = out
  PROVE  Shown' = Final(Shown, out)
<1>1. tx_shift \in Seq(Sent) /\ tx_fifo \in Seq(Sent)
  BY DEF ConsoleInv, FlowTypeOK
<1>2. PICK sent \in Seq(Sent) : sent = tx_shift \o tx_fifo
  BY <1>1, ConcatProperties
<1>3. PICK scr \in Screens : scr = screen
  BY DEF ConsoleInv, ScreenTypeOK
<1>4. Shown = Final(scr, sent)
  BY <1>2, <1>3, ConcatEmptySeq DEF Shown, InFlight, Final
<1>5. Shown' = Final(scr, sent \o out)
  BY <1>2, <1>3 DEF Shown, InFlight, Final
<1>6. QED
  BY <1>4, <1>5, FinalConcat

\* shell_putchar, and the UART taking the next character, move a character along.
LEMMA MovesOn ==
  ASSUME NEW sent \in Seq(Sent), NEW fifo \in Seq(Sent), NEW rest \in Seq(Sent), rest # <<>>
  PROVE  (sent \o Append(fifo, Head(rest))) \o Tail(rest) = (sent \o fifo) \o rest
<1>1. Head(rest) \in Sent /\ Tail(rest) \in Seq(Sent)
  BY HeadTailProperties
<1>2. PICK c \in Sent, tail \in Seq(Sent) : c = Head(rest) /\ tail = Tail(rest)
  BY <1>1
<1>3. <<c>> \in Seq(Sent)
  OBVIOUS
<1>4. PICK one \in Seq(Sent) : one = <<c>>
  BY <1>3
<1>5. rest = one \o tail
  <2>1. rest = <<Head(rest)>> \o Tail(rest)
    <3>1. Len(rest) \in Nat /\ Len(rest) # 0
      BY EmptySeq
    <3>2. 1 \in 1..Len(rest) /\ Len(rest) \in 1..Len(rest)
      BY <3>1
    <3>3. SubSeq(rest, 1, Len(rest)) = <<rest[1]>> \o SubSeq(rest, 1 + 1, Len(rest))
      BY <3>2, SubSeqRecursiveFirst
    <3>4. Head(rest) = rest[1] /\ 1 + 1 = 2
      OBVIOUS
    <3>5. QED
      BY <3>3, <3>4, SubSeqFull, TailIsSubSeq
  <2>2. QED
    BY <1>2, <1>4, <2>1
<1>6. Append(fifo, c) = fifo \o one
  BY <1>4, AppendIsConcat
<1>7. PICK before \in Seq(Sent) : before = sent \o fifo
  BY ConcatProperties
<1>8. sent \o (fifo \o one) = before \o one
  BY <1>7, ConcatAssociative
<1>9. (before \o one) \o tail = before \o (one \o tail)
  BY <1>2, <1>4, <1>7, ConcatAssociative
<1>10. sent \o Append(fifo, Head(rest)) = before \o one
  <2>1. Append(fifo, Head(rest)) = fifo \o one
    BY <1>2, <1>6, Zenon
  <2>2. QED
    BY <1>8, <2>1, Zenon
<1>11. (before \o one) \o Tail(rest) = before \o rest
  BY <1>2, <1>5, <1>9, Zenon
<1>12. QED
  BY <1>7, <1>10, <1>11, Zenon

\* shell_putchar writes a character: what will be shown is the same.
LEMMA PutKeepsShown ==
  ASSUME ConsoleInv, EchoInv, PutChar
  PROVE  Shown' = Shown /\ EchoInv'
<1>1. /\ tx_shift \in Seq(Sent) /\ tx_fifo \in Seq(Sent) /\ todo \in Seq(Sent) /\ todo # <<>>
      /\ Len(tx_fifo) < FIFO_DEPTH
  BY DEF ConsoleInv, FlowTypeOK, EchoInv, PutChar
<1>2. Len(tx_fifo) # FIFO_DEPTH
  BY <1>1, UartAssumption, LenProperties
<1>3. /\ tx_fifo' = Append(tx_fifo, Head(todo)) /\ todo' = Tail(todo) /\ ready' = FALSE
      /\ UNCHANGED <<tx_shift, screen, buf, pos, stage>>
  BY <1>2 DEF PutChar, WriteTxData, Pushed
<1>4. InFlight' = InFlight
  <2>1. PICK sent \in Seq(Sent), fifo \in Seq(Sent), rest \in Seq(Sent) :
          sent = tx_shift /\ fifo = tx_fifo /\ rest = todo
    BY <1>1
  <2>2. (sent \o Append(fifo, Head(rest))) \o Tail(rest) = (sent \o fifo) \o rest
    BY <1>1, <2>1, MovesOn
  <2>3. QED
    BY <1>3, <2>1, <2>2 DEF InFlight
<1>5. Shown' = Shown
  BY <1>3, <1>4 DEF Shown
<1>6. stage # "jumped"
  BY <1>1 DEF EchoInv
<1>7. Line(buf, pos)' = Line(buf, pos)
  BY <1>3 DEF Line
<1>8. ShowsLine(Shown, PROMPT \o Line(buf, pos))' <=> ShowsLine(Shown, PROMPT \o Line(buf, pos))
  BY <1>5, <1>7 DEF ShowsLine
<1>9. ShowsLine(Shown, PROMPT)' <=> ShowsLine(Shown, PROMPT)
  BY <1>5 DEF ShowsLine
<1>10. QED
  BY <1>3, <1>5, <1>6, <1>8, <1>9 DEF EchoInv

\* EchoInv says the same of two states that agree on what it speaks of.
LEMMA EchoSame ==
  ASSUME EchoInv, Shown' = Shown, UNCHANGED <<buf, pos, stage>>,
         ready' => Len(tx_fifo') < FIFO_DEPTH, stage = "jumped" => todo' = <<>> /\ tx_fifo' = <<>>
  PROVE  EchoInv'
<1>1. Line(buf, pos)' = Line(buf, pos)
  BY DEF Line
<1>2. /\ ShowsLine(Shown, PROMPT \o Line(buf, pos))' <=> ShowsLine(Shown, PROMPT \o Line(buf, pos))
      /\ ShowsLine(Shown, PROMPT)' <=> ShowsLine(Shown, PROMPT)
  BY <1>1 DEF ShowsLine
<1>3. QED
  BY <1>2 DEF EchoInv

\* The UART takes the next character, or the terminal gets it.
LEMMA TransmitKeepsEcho ==
  ASSUME ConsoleInv, EchoInv, Transmit
  PROVE  EchoInv'
<1>1. /\ tx_shift \in Seq(Sent) /\ tx_fifo \in Seq(Sent) /\ todo \in Seq(Sent) /\ screen \in Screens
      /\ Len(tx_shift) <= 1
  BY DEF ConsoleInv, FlowTypeOK, ScreenTypeOK
<1>2. UNCHANGED <<buf, pos, todo, ready, stage>>
  BY DEF Transmit, softVars
<1>3. CASE TxPop /\ UNCHANGED <<softVars, screen>>
  <2>1. /\ tx_shift = <<>> /\ tx_fifo # <<>> /\ tx_shift' = <<Head(tx_fifo)>>
        /\ tx_fifo' = Tail(tx_fifo) /\ screen' = screen
    BY <1>3 DEF TxPop, TX_BUSY, TX_EMPTY
  <2>2. InFlight' = InFlight
    <3>1. PICK none \in Seq(Sent), fifo \in Seq(Sent), rest \in Seq(Sent) :
            none = <<>> /\ fifo = tx_fifo /\ rest = todo
      BY <1>1, EchoIsSent
    <3>2. (none \o Append(none, Head(fifo))) \o Tail(fifo) = (none \o none) \o fifo
      BY <2>1, <3>1, MovesOn
    <3>3. Head(fifo) \in Sent /\ Tail(fifo) \in Seq(Sent)
      BY <2>1, <3>1, HeadTailProperties
    <3>4. PICK one \in Seq(Sent) : one = <<Head(fifo)>>
      <4>1. <<Head(fifo)>> \in Seq(Sent)
        BY <3>3
      <4>2. QED
        BY <4>1
    <3>5. none \o Append(none, Head(fifo)) = one
      <4>1. Append(none, Head(fifo)) = none \o one
        BY <3>1, <3>3, <3>4, AppendIsConcat
      <4>2. none \o one = one
        BY <3>1, <3>4, ConcatEmptySeq
      <4>3. QED
        BY <4>1, <4>2
    <3>6. (none \o none) \o fifo = none \o fifo
      BY <3>1, ConcatEmptySeq
    <3>7. one \o Tail(fifo) = none \o fifo
      BY <3>2, <3>5, <3>6, Zenon
    <3>8. InFlight = (none \o fifo) \o rest /\ InFlight' = (one \o Tail(fifo)) \o rest
      BY <1>2, <2>1, <3>1, <3>4 DEF InFlight
    <3>9. QED
      BY <3>7, <3>8, Zenon
  <2>3. Shown' = Shown
    BY <2>1, <2>2 DEF Shown
  <2>4. Len(tx_fifo) < FIFO_DEPTH => Len(tx_fifo') < FIFO_DEPTH
    <3>1. Len(Tail(tx_fifo)) = Len(tx_fifo) - 1 /\ Len(tx_fifo) \in Nat
      BY <1>1, <2>1, TailType
    <3>2. QED
      BY <2>1, <3>1, UartAssumption
  <2>5. stage # "jumped"
    BY <2>1 DEF EchoInv
  <2>6. QED
    BY <1>2, <2>3, <2>4, <2>5, EchoSame DEF EchoInv
<1>4. CASE TxStop /\ screen' = Display(screen, Head(tx_shift)) /\ UNCHANGED softVars
  <2>1. tx_shift # <<>> /\ tx_shift' = <<>> /\ tx_fifo' = tx_fifo
    BY <1>4 DEF TxStop, TX_BUSY
  <2>2. PICK c \in Sent : tx_shift = <<c>>
    <3>1. PICK shift \in Seq(Sent) : shift = tx_shift
      BY <1>1
    <3>2. Len(shift) = 1
      <4>1. PICK n \in Nat : n = Len(shift)
        BY <3>1, LenProperties
      <4>2. n # 0 /\ n <= 1
        BY <1>1, <2>1, <3>1, <4>1, EmptySeq
      <4>3. n = 1
        BY <4>1, <4>2
      <4>4. QED
        BY <4>1, <4>3, Zenon
    <3>3. shift[1] \in Sent
      BY <3>2
    <3>4. shift = <<shift[1]>>
      BY <3>2
    <3>5. QED
      BY <3>1, <3>3, <3>4
  <2>3. PICK one \in Seq(Sent), fifo \in Seq(Sent), rest \in Seq(Sent), scr \in Screens :
          one = tx_shift /\ fifo = tx_fifo /\ rest = todo /\ scr = screen
    BY <1>1
  <2>4. PICK later \in Seq(Sent) : later = fifo \o rest
    BY <2>3, ConcatProperties
  <2>5. InFlight = one \o later
    <3>1. (one \o fifo) \o rest = one \o (fifo \o rest)
      BY <2>3, ConcatAssociative
    <3>2. QED
      BY <2>3, <2>4, <3>1 DEF InFlight
  <2>6. InFlight' = later
    <3>1. <<>> \o fifo = fifo
      BY <2>3, ConcatEmptySeq
    <3>2. QED
      BY <1>2, <2>1, <2>3, <2>4, <3>1 DEF InFlight
  <2>7. Head(tx_shift) = c
    BY <2>2
  <2>8. PICK next \in Screens : next = Display(scr, c) /\ Final(scr, one) = next
    BY <2>2, <2>3, FinalOne
  <2>9. Final(scr, one \o later) = Final(next, later)
    <3>1. Final(scr, one \o later) = Final(Final(scr, one), later)
      BY FinalConcat, <2>3, <2>4
    <3>2. QED
      BY <2>8, <3>1, Zenon
  <2>10. Shown' = Shown
    <3>1. screen' = next
      BY <1>4, <2>3, <2>7, <2>8, Zenon
    <3>2. Shown = Final(scr, one \o later)
      <4>1. Shown = Final(screen, InFlight)
        BY Zenon DEF Shown, Final
      <4>2. QED
        BY <2>3, <2>5, <4>1, Zenon
    <3>3. Shown' = Final(next, later)
      <4>1. Shown' = Final(screen', InFlight')
        BY Zenon DEF Shown, Final
      <4>2. QED
        BY <2>6, <3>1, <4>1, Zenon
    <3>4. QED
      BY <2>9, <3>2, <3>3, Zenon
  <2>11. QED
    BY <1>2, <2>1, <2>10, EchoSame DEF EchoInv
<1>5. QED
  BY <1>3, <1>4 DEF Transmit

\* A new line after anything.
LEMMA TextNewLine ==
  ASSUME NEW scr \in Screens, NEW text \in Seq(Sent)
  PROVE  Final(scr, text \o newline) = EmptyLine
<1>1. Final(scr, text \o newline) = Final(Final(scr, text), newline)
  BY EchoIsSent, FinalConcat
<1>2. Final(scr, text) \in Screens
  BY FinalTyped
<1>3. QED
  BY <1>1, <1>2, NewLineShows

\* The prompt in front of a line that grows.
LEMMA PromptAppend ==
  ASSUME NEW front \in Seq(Printable), NEW c \in Printable
  PROVE  /\ PROMPT \o front \in Seq(Printable)
         /\ PROMPT \o Append(front, c) = Append(PROMPT \o front, c)
<1>1. PROMPT \in Seq(Printable)
  BY Zenon, ConsoleAssumption
<1>2. PICK before \in Seq(Printable) : before = PROMPT \o front
  BY <1>1, ConcatProperties
<1>3. PICK one \in Seq(Printable) : one = <<c>>
  <2>1. <<c>> \in Seq(Printable)
    OBVIOUS
  <2>2. QED
    BY <2>1
<1>4. Append(front, c) = front \o one
  BY <1>3, AppendIsConcat
<1>5. Append(before, c) = before \o one
  BY <1>3, AppendIsConcat
<1>6. PROMPT \o (front \o one) = (PROMPT \o front) \o one
  BY <1>1, <1>3, ConcatAssociative
<1>7. before \o one = (PROMPT \o front) \o one
  BY <1>2, Zenon
<1>8. PROMPT \o Append(front, c) = Append(before, c)
  BY <1>4, <1>5, <1>6, <1>7, Zenon
<1>9. QED
  BY <1>2, <1>8

\* A tuple put together.
LEMMA TripleSplits ==
  ASSUME NEW a \in Sent, NEW b \in Sent, NEW c \in Sent
  PROVE  /\ <<a>> \in Seq(Sent) /\ <<b>> \in Seq(Sent) /\ <<c>> \in Seq(Sent) /\ <<a, b>> \in Seq(Sent)
         /\ <<a, b>> = <<a>> \o <<b>> /\ <<a, b, c>> = <<a, b>> \o <<c>>
<1>1. <<a>> \in Seq(Sent) /\ <<b>> \in Seq(Sent) /\ <<c>> \in Seq(Sent) /\ <<a, b>> \in Seq(Sent)
  OBVIOUS
<1>2. <<a, b>> = <<a>> \o <<b>>
  <2>1. <<a, b>> = Append(<<a>>, b)
    OBVIOUS
  <2>2. QED
    BY <1>1, <2>1, AppendIsConcat
<1>3. <<a, b, c>> = <<a, b>> \o <<c>>
  OBVIOUS
<1>4. QED
  BY <1>1, <1>2, <1>3

\* Erasing shows the line without its last character.
LEMMA EraseShows ==
  ASSUME NEW scr, NEW w \in Seq(Printable), NEW c \in Printable, ShowsLine(scr, Append(w, c))
  PROVE  ShowsLine(Final(scr, <<"BS", " ", "BS">>), w)
<1>1. scr \in Screens /\ {"BS", " "} \subseteq Sent
  BY SentFacts DEF ShowsLine
<1>2. PICK back \in Screens : back = Display(scr, "BS") /\ Final(scr, <<"BS">>) = back
  BY <1>1, FinalOne
<1>3. PICK over \in Screens : over = Display(back, " ") /\ Final(back, <<" ">>) = over
  BY <1>1, FinalOne
<1>4. PICK to \in Screens : to = Display(over, "BS") /\ Final(over, <<"BS">>) = to
  BY <1>1, FinalOne
<1>5. /\ <<"BS">> \in Seq(Sent) /\ <<" ">> \in Seq(Sent) /\ <<"BS", " ">> \in Seq(Sent)
      /\ <<"BS", " ">> = <<"BS">> \o <<" ">> /\ <<"BS", " ", "BS">> = <<"BS", " ">> \o <<"BS">>
  <2>1. "BS" \in Sent /\ " " \in Sent
    BY <1>1
  <2>2. PICK b \in Sent, s \in Sent : b = "BS" /\ s = " "
    BY <2>1
  <2>3. /\ <<b>> \in Seq(Sent) /\ <<s>> \in Seq(Sent) /\ <<b, s>> \in Seq(Sent)
        /\ <<b, s>> = <<b>> \o <<s>> /\ <<b, s, b>> = <<b, s>> \o <<b>>
    BY TripleSplits
  <2>4. QED
    BY <2>2, <2>3, Zenon
<1>6. Final(scr, <<"BS", " ">>) = over
  <2>1. Final(scr, <<"BS">> \o <<" ">>) = Final(Final(scr, <<"BS">>), <<" ">>)
    BY <1>1, <1>5, FinalConcat
  <2>2. QED
    BY <1>2, <1>3, <1>5, <2>1, Zenon
<1>7. Final(scr, <<"BS", " ", "BS">>) = to
  <2>1. Final(scr, <<"BS", " ">> \o <<"BS">>) = Final(Final(scr, <<"BS", " ">>), <<"BS">>)
    BY <1>1, <1>5, FinalConcat
  <2>2. QED
    BY <1>4, <1>5, <1>6, <2>1, Zenon
<1>8. ShowsLine(Display(Display(Display(scr, "BS"), " "), "BS"), w)
  BY BlankShows
<1>9. QED
  BY <1>2, <1>3, <1>4, <1>7, <1>8, Zenon

\* The program has something more to put, or nothing.
LEMMA ReadGrows ==
  ASSUME ConsoleInv, NEW c, Read(c), NEW out \in Seq(Sent), todo' = out
  PROVE  /\ ready' = FALSE /\ stage = "edit"
         /\ \E scr \in Screens : Shown = scr /\ Shown' = Final(scr, out)
<1>1. UNCHANGED <<tx_fifo, tx_shift, screen>> /\ todo = <<>> /\ ready' = ready /\ stage = "edit"
  BY DEF Read, ReadRxData
<1>2. ready = FALSE
  BY <1>1 DEF ConsoleInv, FlowTypeOK
<1>3. Shown' = Final(Shown, out)
  BY <1>1, ShownGrows
<1>4. PICK scr \in Screens : Shown = scr
  BY ShownTyped
<1>5. QED
  BY <1>1, <1>2, <1>3, <1>4

\* The same between two calls.
LEMMA AtGrows ==
  ASSUME ConsoleInv, NEW s, At(s), NEW out \in Seq(Sent), todo' = out
  PROVE  /\ ready' = FALSE /\ stage = s
         /\ \E scr \in Screens : Shown = scr /\ Shown' = Final(scr, out)
<1>1. UNCHANGED <<tx_fifo, tx_shift, screen>> /\ todo = <<>> /\ ready' = ready /\ stage = s
  BY DEF At, uartVars
<1>2. ready = FALSE
  BY <1>1 DEF ConsoleInv, FlowTypeOK
<1>3. Shown' = Final(Shown, out)
  BY <1>1, ShownGrows
<1>4. PICK scr \in Screens : Shown = scr
  BY ShownTyped
<1>5. QED
  BY <1>1, <1>2, <1>3, <1>4

\* A character is read.
LEMMA ReadKeepsEcho ==
  ASSUME ConsoleInv, EchoInv, ReadKey
  PROVE  EchoInv'
<1>1. LineTypeOK /\ BufferInv
  BY DEF ConsoleInv
<1>2. CASE ReadEnd \/ ReadCtrlC
  <2>1. PICK c : /\ Read(c)
                 /\ \/ stage' = "enter" /\ todo' = newline
                    \/ stage' = "cancel" /\ todo' = <<"^", "C">> \o newline
    BY <1>2 DEF ReadEnd, ReadCtrlC
  <2>2. ready' = FALSE /\ Shown' = EmptyLine
    <3>1. CASE todo' = newline
      <4>1. PICK scr \in Screens : ready' = FALSE /\ Shown' = Final(scr, newline)
        BY <2>1, <3>1, EchoIsSent, ReadGrows
      <4>2. QED
        BY <4>1, NewLineShows
    <3>2. CASE todo' = <<"^", "C">> \o newline
      <4>1. PICK scr \in Screens : ready' = FALSE /\ Shown' = Final(scr, <<"^", "C">> \o newline)
        BY <2>1, <3>2, EchoIsSent, ReadGrows
      <4>2. <<"^", "C">> \in Seq(Sent)
        <5>1. "^" \in Sent /\ "C" \in Sent
          BY SentFacts
        <5>2. QED
          BY <5>1
      <4>3. QED
        BY <4>1, <4>2, TextNewLine
    <3>3. QED
      BY <2>1, <3>1, <3>2
  <2>3. stage' \notin {"edit", "busy", "jumped"}
    BY <2>1
  <2>4. QED
    BY <2>2, <2>3 DEF EchoInv
<1>3. CASE ReadErase
  <2>1. PICK c : Read(c) /\ pos > 0 /\ pos' = pos - 1 /\ buf' = [buf EXCEPT ![pos - 1] = NUL]
                 /\ todo' = <<"BS", " ", "BS">> /\ stage' = stage
    BY <1>3 DEF ReadErase
  <2>2. PICK scr \in Screens : /\ ready' = FALSE /\ stage = "edit"
                               /\ Shown = scr /\ Shown' = Final(scr, <<"BS", " ", "BS">>)
    BY <2>1, EchoIsSent, ReadGrows
  <2>3. HoldsLine(buf, pos) /\ pos \in 0..(SIZE - 1)
    BY <1>1, <2>2 DEF BufferInv, LineTypeOK
  <2>4. PICK line \in Seq(Printable) : line = Line(buf, pos) /\ line # <<>>
    BY <1>1, <2>1, <2>3, LineIsSeq, EraseCuts
  <2>5. PICK front \in Seq(Printable), last \in Printable : line = Append(front, last)
    BY <2>4, SequenceEmptyOrAppend
  <2>6. Line(buf, pos)' = front
    <3>1. Line([buf EXCEPT ![pos - 1] = NUL], pos - 1) = SubSeq(Line(buf, pos), 1, Len(Line(buf, pos)) - 1)
      BY <1>1, <2>1, <2>3, EraseCuts
    <3>2. SubSeq(Append(front, last), 1, Len(Append(front, last)) - 1) = front
      <4>1. Len(Append(front, last)) - 1 = Len(front)
        <5>1. Len(Append(front, last)) = Len(front) + 1 /\ Len(front) \in Nat
          BY AppendProperties, LenProperties
        <5>2. QED
          BY <5>1
      <4>2. Append(front, last) = front \o <<last>> /\ <<last>> \in Seq(Printable)
        BY AppendIsConcat
      <4>3. SubSeq(front \o <<last>>, 1, Len(front)) = front
        <5>1. 1 \in 1..(Len(front) + 1) /\ Len(front) \in (1 - 1)..Len(front)
          BY LenProperties
        <5>2. QED
          BY <4>2, <5>1, SubSeqOfConcat1, SubSeqFull
      <4>4. QED
        BY <4>1, <4>2, <4>3, Zenon
    <3>3. QED
      BY <2>1, <2>4, <2>5, <3>1, <3>2 DEF Line
  <2>7. ShowsLine(scr, Append(PROMPT \o front, last))
    <3>1. ShowsLine(Shown, PROMPT \o Line(buf, pos))
      BY <2>2 DEF EchoInv
    <3>2. PROMPT \o Append(front, last) = Append(PROMPT \o front, last)
      BY PromptAppend
    <3>3. QED
      BY <2>2, <2>4, <2>5, <3>1, <3>2, Zenon
  <2>8. ShowsLine(Shown', PROMPT \o front)
    <3>1. PROMPT \o front \in Seq(Printable)
      BY PromptAppend
    <3>2. ShowsLine(Final(scr, <<"BS", " ", "BS">>), PROMPT \o front)
      BY <2>7, <3>1, EraseShows
    <3>3. QED
      BY <2>2, <3>2, Zenon
  <2>9. ShowsLine(Shown, PROMPT \o Line(buf, pos))'
    BY <2>6, <2>8 DEF ShowsLine
  <2>10. QED
    BY <2>1, <2>2, <2>9 DEF EchoInv
<1>4. CASE ReadStore
  <2>1. PICK c \in Printable : Read(c) /\ buf' = [buf EXCEPT ![pos] = c] /\ todo' = <<c>>
    BY <1>4 DEF ReadStore
  <2>2. pos < SIZE - 1 /\ pos' = pos + 1 /\ stage' = stage
    BY <1>4 DEF ReadStore
  <2>3. c \in Sent /\ <<c>> \in Seq(Sent)
    BY SentFacts, EchoIsSent
  <2>4. PICK scr \in Screens : ready' = FALSE /\ stage = "edit" /\ Shown = scr /\ Shown' = Final(scr, <<c>>)
    BY <2>1, <2>3, ReadGrows
  <2>5. HoldsLine(buf, pos) /\ pos \in 0..(SIZE - 1)
    BY <1>1, <2>4 DEF BufferInv, LineTypeOK
  <2>6. PICK line \in Seq(Printable) : line = Line(buf, pos)
    BY <2>5, LineIsSeq
  <2>7. Line(buf, pos)' = Append(line, c)
    <3>1. Line([buf EXCEPT ![pos] = c], pos + 1) = Append(Line(buf, pos), c)
      BY <1>1, <2>2, <2>5, StoreAppends
    <3>2. QED
      BY <2>1, <2>2, <2>6, <3>1 DEF Line
  <2>8. ShowsLine(Shown', PROMPT \o Append(line, c))
    <3>1. ShowsLine(scr, PROMPT \o line)
      BY <2>4, <2>6 DEF EchoInv
    <3>2. PROMPT \o line \in Seq(Printable) /\ PROMPT \o Append(line, c) = Append(PROMPT \o line, c)
      BY PromptAppend
    <3>3. ShowsLine(Display(scr, c), Append(PROMPT \o line, c))
      BY <3>1, <3>2, EchoShows
    <3>4. Final(scr, <<c>>) = Display(scr, c)
      BY <2>3, FinalOne
    <3>5. QED
      BY <2>4, <3>2, <3>3, <3>4, Zenon
  <2>9. ShowsLine(Shown, PROMPT \o Line(buf, pos))'
    BY <2>7, <2>8 DEF ShowsLine
  <2>10. QED
    BY <2>2, <2>4, <2>9 DEF EchoInv
<1>5. CASE ReadIgnore
  <2>1. PICK c : Read(c) /\ UNCHANGED <<buf, pos, todo, stage>>
    BY <1>5 DEF ReadIgnore
  <2>2. UNCHANGED <<tx_fifo, tx_shift, screen, todo, ready>> /\ stage = "edit" /\ todo = <<>>
    BY <2>1 DEF Read, ReadRxData
  <2>3. Shown' = Shown
    BY <2>2 DEF Shown, InFlight
  <2>4. ready = FALSE
    BY <2>2 DEF ConsoleInv, FlowTypeOK
  <2>5. QED
    BY <2>1, <2>2, <2>3, <2>4, EchoSame
<1>6. QED
  BY <1>2, <1>3, <1>4, <1>5 DEF ReadKey

\* The prompt on an empty line.
LEMMA PromptShows ==
  PROMPT \in Seq(Printable) /\ EmptyLine \in Screens /\ ShowsLine(Final(EmptyLine, PROMPT), PROMPT)
<1>1. PROMPT \in Seq(Printable)
  BY Zenon, ConsoleAssumption
<1>2. QED
  BY <1>1, TextShows, EmptyShows DEF ShowsLine

\* The program runs on.
LEMMA RunKeepsEcho ==
  ASSUME ConsoleInv, EchoInv, Return \/ Reprompt \/ Dispatch \/ Begin \/ Jump
  PROVE  EchoInv'
<1>1. ASSUME NEW s, At(s), todo' = todo
      PROVE  Shown' = Shown /\ ready' = FALSE /\ todo' = <<>> /\ stage = s
  <2>1. UNCHANGED <<tx_fifo, tx_shift, screen, todo, ready>> /\ todo = <<>> /\ stage = s
    BY <1>1 DEF At, uartVars
  <2>2. QED
    BY <2>1 DEF Shown, InFlight, ConsoleInv, FlowTypeOK
<1>2. CASE Return
  <2>1. PICK s \in {"enter", "cancel"} : At(s) /\ todo' = todo /\ stage' \in {"entered", "cancelled"}
    BY <1>2 DEF Return
  <2>2. Shown' = Shown /\ ready' = FALSE /\ stage = s
    BY <1>1, <2>1
  <2>3. QED
    BY <2>1, <2>2 DEF EchoInv
<1>3. CASE Reprompt
  <2>1. PICK s \in {"cancelled", "entered"} : At(s) /\ stage' = "busy" /\ todo' = PROMPT
    BY <1>3 DEF Reprompt
  <2>2. PICK scr \in Screens : ready' = FALSE /\ stage = s /\ Shown = scr /\ Shown' = Final(scr, PROMPT)
    BY <2>1, PromptIsSent, AtGrows
  <2>3. scr = EmptyLine
    BY <2>1, <2>2 DEF EchoInv
  <2>4. ShowsLine(Shown', PROMPT)
    BY <2>2, <2>3, PromptShows
  <2>5. ShowsLine(Shown, PROMPT)'
    BY <2>4 DEF ShowsLine
  <2>6. QED
    BY <2>1, <2>2, <2>5 DEF EchoInv
<1>4. CASE Dispatch
  <2>1. At("entered") /\ \/ \E out \in Outputs : todo' = out \o PROMPT /\ stage' = "busy"
                         \/ todo' = newline /\ stage' = "drain"
    BY <1>4 DEF Dispatch
  <2>2. CASE \E out \in Outputs : todo' = out \o PROMPT /\ stage' = "busy"
    <3>1. PICK out \in Outputs : todo' = out \o PROMPT /\ stage' = "busy"
      BY <2>2
    <3>2. out \in Seq(Sent) /\ Final(EmptyLine, out) = EmptyLine
      BY OutputShows
    <3>3. out \o PROMPT \in Seq(Sent)
      BY <3>2, PromptIsSent, ConcatProperties
    <3>4. PICK scr \in Screens : /\ ready' = FALSE /\ stage = "entered"
                                 /\ Shown = scr /\ Shown' = Final(scr, out \o PROMPT)
      BY <2>1, <3>1, <3>3, AtGrows
    <3>5. scr = EmptyLine
      BY <3>4 DEF EchoInv
    <3>6. Final(EmptyLine, out \o PROMPT) = Final(EmptyLine, PROMPT)
      <4>1. Final(EmptyLine, out \o PROMPT) = Final(Final(EmptyLine, out), PROMPT)
        BY <3>2, PromptIsSent, PromptShows, FinalConcat
      <4>2. QED
        BY <3>2, <4>1, Zenon
    <3>7. ShowsLine(Shown', PROMPT)
      BY <3>4, <3>5, <3>6, PromptShows, Zenon
    <3>8. ShowsLine(Shown, PROMPT)'
      BY <3>7 DEF ShowsLine
    <3>9. QED
      BY <3>1, <3>4, <3>8 DEF EchoInv
  <2>3. CASE todo' = newline /\ stage' = "drain"
    <3>1. PICK scr \in Screens : ready' = FALSE /\ Shown' = Final(scr, newline)
      BY <2>1, <2>3, EchoIsSent, AtGrows
    <3>2. Shown' = EmptyLine
      BY <3>1, NewLineShows
    <3>3. QED
      BY <2>3, <3>1, <3>2 DEF EchoInv
  <2>4. QED
    BY <2>1, <2>2, <2>3
<1>5. CASE Begin
  <2>1. At("busy") /\ stage' = "edit" /\ buf' = Cleared /\ pos' = 0 /\ todo' = todo
    BY <1>5 DEF Begin
  <2>2. Shown' = Shown /\ ready' = FALSE /\ stage = "busy"
    BY <1>1, <2>1
  <2>3. Line(buf, pos)' = <<>>
    <3>1. Line(Cleared, 0) = <<>>
      BY LineOfNone
    <3>2. QED
      BY <2>1, <3>1 DEF Line
  <2>4. PROMPT \o <<>> = PROMPT
    BY PromptIsSent, ConcatEmptySeq
  <2>5. ShowsLine(Shown', PROMPT)
    BY <2>2 DEF EchoInv
  <2>6. ShowsLine(Shown, PROMPT \o Line(buf, pos))'
    BY <2>3, <2>4, <2>5 DEF ShowsLine
  <2>7. QED
    BY <2>1, <2>2, <2>6 DEF EchoInv
<1>6. CASE Jump
  <2>1. At("drain") /\ tx_fifo = <<>> /\ stage' = "jumped" /\ todo' = todo
    BY <1>6 DEF Jump, TX_EMPTY
  <2>2. Shown' = Shown /\ ready' = FALSE /\ todo' = <<>> /\ stage = "drain"
    BY <1>1, <2>1
  <2>3. tx_fifo' = <<>>
    BY <2>1 DEF At, uartVars
  <2>4. QED
    BY <2>1, <2>2, <2>3 DEF EchoInv
<1>7. QED
  BY <1>2, <1>3, <1>4, <1>5, <1>6

\* The prompt is on its way when the shell starts.
LEMMA EchoInitInv == Init => EchoInv
<1> SUFFICES ASSUME Init PROVE EchoInv
  OBVIOUS
<1>1. /\ tx_shift = <<>> /\ tx_fifo = <<>> /\ todo = PROMPT /\ ready = FALSE
      /\ stage = "busy" /\ screen = EmptyLine
  BY DEF Init, UartInit, EmptyLine
<1>2. (<<>> \o <<>>) \o PROMPT = PROMPT
  <2>1. <<>> \o <<>> = <<>>
    OBVIOUS
  <2>2. <<>> \o PROMPT = PROMPT
    BY PromptIsSent, ConcatEmptySeq
  <2>3. QED
    BY <2>1, <2>2, Zenon
<1>3. InFlight = PROMPT
  BY <1>1, <1>2, Zenon DEF InFlight
<1>4. Shown = Final(EmptyLine, PROMPT)
  BY <1>1, <1>3, Zenon DEF Shown, Final
<1>5. ShowsLine(Shown, PROMPT)
  BY <1>4, PromptShows, Zenon
<1>6. QED
  BY <1>1, <1>5 DEF EchoInv

\* Every step keeps it.
LEMMA EchoNextInv == ConsoleInv /\ EchoInv /\ [Next]_vars => EchoInv'
<1> SUFFICES ASSUME ConsoleInv, EchoInv, [Next]_vars PROVE EchoInv'
  OBVIOUS
<1>1. CASE UNCHANGED <<tx_fifo, tx_shift, buf, pos, todo, ready, stage, screen>>
  <2>1. Shown' = Shown
    BY <1>1 DEF Shown, InFlight
  <2>2. QED
    BY <1>1, <2>1, EchoSame DEF EchoInv
<1>2. CASE PollTx
  <2>1. /\ UNCHANGED <<tx_fifo, tx_shift, buf, pos, todo, stage, screen>>
        /\ todo # <<>> /\ Len(tx_fifo) # FIFO_DEPTH
    BY <1>2 DEF PollTx, TX_FULL, uartVars
  <2>2. Shown' = Shown
    BY <2>1 DEF Shown, InFlight
  <2>3. Len(tx_fifo) < FIFO_DEPTH
    <3>1. Len(tx_fifo) \in Nat /\ Len(tx_fifo) <= FIFO_DEPTH
      BY LenProperties DEF ConsoleInv, FlowTypeOK
    <3>2. QED
      BY <2>1, <3>1, UartAssumption
  <2>4. stage # "jumped"
    BY <2>1 DEF EchoInv
  <2>5. QED
    BY <2>1, <2>2, <2>3, <2>4, EchoSame
<1>3. CASE Receive
  BY <1>1, <1>3 DEF Receive, RxDone, softVars
<1>4. CASE UNCHANGED vars
  BY <1>1, <1>4 DEF vars, uartVars
<1>5. QED
  BY <1>2, <1>3, <1>4, PutKeepsShown, ReadKeepsEcho, RunKeepsEcho, TransmitKeepsEcho DEF Next, Cpu

\* What will be shown is right always.
LEMMA EchoInvariant == Spec => [](ConsoleInv /\ EchoInv)
<1>1. Init => ConsoleInv /\ EchoInv
  BY ConsoleInitInv, EchoInitInv
<1>2. ConsoleInv /\ EchoInv /\ [Next]_vars => (ConsoleInv /\ EchoInv)'
  BY ConsoleNextInv, EchoNextInv
<1>3. QED
  BY <1>1, <1>2, PTL DEF Spec

\* What ShowsLine says of the row.
LEMMA ShownIsPrefix ==
  ASSUME NEW scr, NEW w \in Seq(Printable), ShowsLine(scr, w)
  PROVE  /\ scr.col = Len(w) /\ IsPrefix(w, scr.row)
         /\ \A i \in (scr.col + 1)..Len(scr.row) : scr.row[i] = " "
<1>1. scr.col = Len(w) /\ scr.row \in Seq(Printable) /\ scr.col <= Len(scr.row)
  BY DEF ShowsLine, Screens
<1>2. PICK n \in Nat, m \in Nat : n = Len(w) /\ m = Len(scr.row)
  BY <1>1, LenProperties
<1>3. n <= m
  BY <1>1, <1>2
<1>4. \A i \in 1..m : scr.row[i] = IF i <= n THEN w[i] ELSE " "
  BY <1>2 DEF ShowsLine
<1>5. \A i \in 1..n : scr.row[i] = w[i] /\ w[i] \in Printable
  <2>1. \A i \in 1..n : i \in 1..m /\ i <= n
    BY <1>3
  <2>2. QED
    BY <1>2, <1>4, <2>1, ElementOfSeq
<1>6. \A i \in (n + 1)..m : scr.row[i] = " "
  <2>1. \A i \in (n + 1)..m : i \in 1..m /\ ~(i <= n)
    BY <1>3
  <2>2. QED
    BY <1>4, <2>1
<1>7. SubSeq(scr.row, 1, n) = w
  <2>1. PICK row \in Seq(Printable) : row = scr.row
    BY <1>1
  <2>2. PICK cut : cut = SubSeq(row, 1, n)
    OBVIOUS
  <2>3. \A i \in 1..n : row[i] \in Printable
    BY <1>5, <2>1
  <2>4. /\ cut \in Seq(Printable)
        /\ Len(cut) = IF 1 <= n THEN n - 1 + 1 ELSE 0
        /\ \A i \in 1..(n - 1 + 1) : cut[i] = row[1 + i - 1]
    <3>1. 1 \in Int /\ n \in Int
      OBVIOUS
    <3>2. QED
      BY <2>2, <2>3, <3>1, SubSeqProperties
  <2>5. Len(cut) = n
    BY <2>4
  <2>6. ASSUME NEW i \in 1..n PROVE cut[i] = w[i]
    <3>1. 1 + i - 1 = i /\ i \in 1..(n - 1 + 1)
      OBVIOUS
    <3>2. QED
      BY <1>5, <2>1, <2>4, <3>1
  <2>7. cut = w
    BY <1>2, <2>4, <2>5, <2>6, SeqEqual
  <2>8. QED
    BY <2>1, <2>2, <2>7
<1>8. IsPrefix(w, scr.row)
  <2>1. SubSeq(w, 1, n) = w
    BY <1>2, SubSeqFull
  <2>2. QED
    BY <1>2, <1>3, <1>7, <2>1 DEF IsPrefix
<1>9. QED
  BY <1>1, <1>2, <1>6, <1>8

\* While a line is edited the terminal shows the prompt and the line of the buffer as
\* soon as what is in flight has arrived: echo, erasing and cancelling never let screen
\* and buffer drift apart, and no character is lost to a full FIFO (shell_readline,
\* shell_putchar).
THEOREM ScreenIsRight == Spec => []ScreenShowsBuffer
<1>1. ConsoleInv /\ EchoInv => ScreenShowsBuffer
  <2> SUFFICES ASSUME ConsoleInv, EchoInv, stage = "edit"
               PROVE  /\ IsPrefix(PROMPT \o Text, Shown.row)
                      /\ Shown.col = Len(PROMPT \o Text)
                      /\ \A i \in (Shown.col + 1)..Len(Shown.row) : Shown.row[i] = " "
    BY DEF ScreenShowsBuffer
  <2>1. Text = Line(buf, pos)
    BY SeenLine DEF SeenInv, Seen, Held
  <2>2. PICK line \in Seq(Printable) : line = Line(buf, pos)
    <3>1. HoldsLine(buf, pos) /\ pos \in 0..(SIZE - 1)
      BY DEF ConsoleInv, BufferInv, LineTypeOK
    <3>2. QED
      BY <3>1, LineIsSeq
  <2>3. PICK w \in Seq(Printable) : w = PROMPT \o Text
    <3>1. PROMPT \o line \in Seq(Printable)
      BY <2>2, PromptShows, ConcatProperties
    <3>2. QED
      BY <2>1, <2>2, <3>1
  <2>4. PICK scr \in Screens : Shown = scr
    BY ShownTyped
  <2>5. ShowsLine(scr, w)
    BY <2>1, <2>3, <2>4 DEF EchoInv
  <2>6. /\ scr.col = Len(w) /\ IsPrefix(w, scr.row)
        /\ \A i \in (scr.col + 1)..Len(scr.row) : scr.row[i] = " "
    BY <2>5, ShownIsPrefix
  <2>7. QED
    BY <2>3, <2>4, <2>6, Zenon
<1>2. QED
  BY <1>1, EchoInvariant, PTL

\* `go' jumps with all output at the terminal but at most the character in the shift
\* register, and the terminal on a new line (cmd_go, its loop on TX_EMPTY).
THEOREM JumpLosesNothing == Spec => []JumpKeepsOutput
<1>1. ConsoleInv /\ EchoInv => JumpKeepsOutput
  <2> SUFFICES ASSUME ConsoleInv, EchoInv, stage = "jumped"
               PROVE  Len(InFlight) <= 1 /\ Shown = [row |-> <<>>, col |-> 0]
    BY DEF JumpKeepsOutput
  <2>1. todo = <<>> /\ tx_fifo = <<>> /\ Shown = EmptyLine
    BY DEF EchoInv
  <2>2. tx_shift \in Seq(Sent) /\ Len(tx_shift) <= 1
    BY DEF ConsoleInv, FlowTypeOK
  <2>3. (tx_shift \o <<>>) \o <<>> = tx_shift
    <3>1. tx_shift \o <<>> = tx_shift
      BY <2>2, ConcatEmptySeq
    <3>2. QED
      BY <3>1
  <2>4. InFlight = tx_shift
    BY <2>1, <2>3, Zenon DEF InFlight
  <2>5. QED
    BY <2>1, <2>2, <2>4 DEF EmptyLine
<1>2. QED
  BY <1>1, EchoInvariant, PTL
=============================================================================
