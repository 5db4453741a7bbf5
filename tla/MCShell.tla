------------------------------ MODULE MCShell ------------------------------
\* The shell with an address space of 64 words and lines for every case of every
\* command.
EXTENDS Shell

MCSpell ==
  [t \in {"4", "6", "F8", "FE", "0x1F", "4G", "0", "9", "600"} |->
     CASE t = "4" -> <<"4">> [] t = "6" -> <<"6">> [] t = "F8" -> <<"F", "8">>
       [] t = "FE" -> <<"F", "E">> [] t = "0x1F" -> <<"0", "x", "1", "F">>
       [] t = "4G" -> <<"4", "G">> [] t = "0" -> <<"0">> [] t = "9" -> <<"9">>
       [] t = "600" -> <<"6", "0", "0">>]

MCLines ==
  {<<>>, <<"help">>, <<"info">>, <<"what">>,
   <<"peek">>, <<"peek", "F8", "9">>, <<"peek", "6">>, <<"peek", "4", "F8">>, <<"peek", "4", "0">>,
   <<"peek", "4G">>, <<"peek", "4", "4G">>, <<"peek", "4", "600">>,
   <<"poke">>, <<"poke", "6", "0x1F">>, <<"poke", "4", "4G">>, <<"poke", "600", "4">>,
   <<"load">>, <<"load", "FE">>, <<"load", "4G">>, <<"go">>, <<"go", "4G">>, <<"rtos">>, <<"uart">>, <<"uptime">>,
   <<"gpio">>, <<"gpio", "read">>, <<"gpio", "write">>, <<"gpio", "write", "4">>, <<"gpio", "write", "4G">>,
   <<"gpio", "dir", "9", "0">>, <<"gpio", "dir", "4G">>}

\* A numeral with a space after it and a line of one space are among them.
MCLoadLines == {<<>>, <<".">>, <<"6">>, <<"0", "x", "1", "F">>, <<"4", " ">>, <<" ">>, <<"#", "4">>}
=============================================================================
