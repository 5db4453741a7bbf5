----------------------------- MODULE LineEditor -----------------------------
(***************************************************************************)
(* What shell_readline promises its caller (its comment in                 *)
(* sw/examples/shell.c): a line of at most LIMIT characters that are       *)
(* typed and erased at its end, handed over as a whole or cancelled.       *)
(***************************************************************************)
EXTENDS Naturals, Sequences

CONSTANTS LIMIT, Printable
VARIABLES text,    \* the line so far
          result   \* what the call has returned, Editing before it does
editorVars == <<text, result>>
Editing   == "editing"
Entered   == "entered"
Cancelled == "cancelled"

Init == text = <<>> /\ result = Editing

Type == /\ result = Editing /\ Len(text) < LIMIT
        /\ \E c \in Printable : text' = Append(text, c)
        /\ UNCHANGED result
Erase  == /\ result = Editing /\ text # <<>>
          /\ text' = SubSeq(text, 1, Len(text) - 1)
          /\ UNCHANGED result
Enter  == result = Editing /\ result' = Entered /\ UNCHANGED text
Cancel == result = Editing /\ result' = Cancelled /\ text' = <<>>
\* The next call begins with an empty line.
Again  == result # Editing /\ result' = Editing /\ text' = <<>>

Next == Type \/ Erase \/ Enter \/ Cancel \/ Again
Spec == Init /\ [][Next]_editorVars
=============================================================================
