----------------------------- MODULE MCConsole -----------------------------
\* The console with a one-character prompt and a command that prints a line.
EXTENDS Console

MCPrompt  == <<">">>
MCOutputs == {<<>>, <<"b", "CR", "LF">>}
=============================================================================
