------------------------------- MODULE Shell -------------------------------
(***************************************************************************)
(* The commands of the shell (sw/examples/shell.c) on the memory map of    *)
(* sw/lib/vsync_hw.h.  A line at the prompt is the sequence of its tokens, *)
(* as parse_args of ShellText finds them, a line of a load its characters, *)
(* as Console delivers them.  One step is one line taken, one word written *)
(* or one register read.  Offsets are the header's, bases are constants so *)
(* that a small WIDTH has room for all of them.                            *)
(***************************************************************************)
EXTENDS ShellText, Uptime

CONSTANTS Lines, LoadLines, \* what the user enters at the prompt, and to cmd_load
          Spell,            \* the characters of the tokens that are not names
          PEEK_MAX_WORDS,
          IMEM_BASE, UART_BASE, GPIO_BASE, RTOS_BASE, CLINT_MTIME,
          DeviceValues,     \* what a register that changes by itself may hold
          MAX_LOAD          \* bound of the model: lines of one load

Cancel == <<"^C">>          \* shell_readline returned -1
ASSUME ShellAssumption ==
  /\ Cancel \notin Lines \cup LoadLines /\ DeviceValues \subseteq Words /\ HALF <= 2^WIDTH /\ MAX_HI \in Words
  /\ {IMEM_BASE, UART_BASE, GPIO_BASE, RTOS_BASE, CLINT_MTIME} \subseteq Words
  /\ PEEK_MAX_WORDS \in Nat \ {0} /\ MAX_LOAD \in Nat /\ LoadLines \subseteq Seq(STRING)
  /\ \A token \in DOMAIN Spell : Spell[token] \in Seq(STRING) \ {<<>>}

VARIABLES mode,    \* whose turn it is: main's readline, the loader's, a command
          line,    \* the arguments of the command under way
          said,    \* the last message
          mem,     \* the words written since reset; the others are 0
          loader,  \* addr, cur_addr and count of the last cmd_load
          todo, shown,   \* registers still to read, registers displayed
          typed, before  \* history: the lines of the last load, mem before it
shellVars == <<mode, line, said, mem, loader, todo, shown, typed, before>>
vars == <<shellVars, uptimeVars>>

GPIO_OUT == GPIO_BASE
GPIO_IN  == GPIO_BASE + 4
GPIO_DIR == GPIO_BASE + 8
GPIO_INT_STATUS == GPIO_BASE + 16
Block(base, n) == [i \in 1..n |-> base + 4 * (i - 1)]
GpioRegisters == Block(GPIO_BASE, 7)   \* OUT IN DIR INT_EN INT_STATUS INT_TYPE INT_POL
UartRegisters == Block(UART_BASE, 5)   \* TX_DATA RX_DATA STATUS CTRL BAUD_DIV
RtosRegisters == Block(RTOS_BASE, 10)  \* SCHED_EN .. SCHED_TRIGGER
Volatile == ToSet(UartRegisters) \cup ToSet(RtosRegisters) \cup {GPIO_IN, GPIO_INT_STATUS}
Counter == {CLINT_MTIME, CLINT_MTIME + 4}

\* REG32: what a read may give, and a write.  (A write to a register that
\* changes by itself leaves nothing to read back.  One to the counter sets it,
\* clint.sv:59-63; that is left out, the counter only runs on here.)
Stored(m, a) == IF a \in DOMAIN m THEN m[a] ELSE 0
REG32(a) == CASE a \in Volatile -> DeviceValues
              [] a \in Counter \ Volatile -> {IF a = CLINT_MTIME THEN mtime.lo ELSE mtime.hi}
              [] OTHER -> {Stored(mem, a)}
Written(m, a, val) == IF a \in Volatile \cup Counter THEN m
                      ELSE [b \in DOMAIN m \cup {a} |-> IF b = a THEN val ELSE m[b]]

HexValue == [token \in DOMAIN Spell |-> hex_to_uint32(Spell[token])]
DecValue == [token \in DOMAIN Spell |-> dec_to_uint32(Spell[token])]
Hex(token) == IF token \in DOMAIN Spell THEN HexValue[token] ELSE Invalid
Dec(token) == IF token \in DOMAIN Spell THEN DecValue[token] ELSE Invalid
Align(a) == a - (a % 4)

NoLoad == [addr |-> 0, cur |-> 0, count |-> 0]
Init ==
  /\ UptimeInit
  /\ mode = "prompt" /\ line = <<>> /\ said = "banner" /\ mem = <<>>
  /\ loader = NoLoad /\ typed = <<>> /\ before = <<>>
  /\ todo = <<>> /\ shown = <<>>

\* How a command goes on: a message and the prompt, or registers to show first.
Says(message) ==
  mode' = "prompt" /\ said' = message /\ todo' = <<>> /\ shown' = <<>> /\ line' = <<>>
Shows(registers, message, argv) ==
  mode' = "show" /\ said' = message /\ todo' = registers /\ shown' = <<>> /\ line' = argv
Writes(a, val) == mem' = Written(mem, a, val)

cmd_help(argv) == argv[1] \in {"help", "info"} /\ Says("text") /\ UNCHANGED mem

\* The count is decimal or, failing that, hexadecimal.
PeekCount(argv) == CASE Len(argv) < 3 -> 1
                     [] Len(argv) >= 3 /\ Dec(argv[3]) # Invalid -> Dec(argv[3])
                     [] OTHER -> Hex(argv[3])
ClampedLow(n) == IF n = 0 THEN 1 ELSE n   \* faulty: no upper limit
Clamped(n) == IF n = 0 THEN 1 ELSE IF n > PEEK_MAX_WORDS THEN PEEK_MAX_WORDS ELSE n
Window(a, n) == [i \in 1..n |-> Wrap(a + 4 * (i - 1))]

cmd_peek(argv) ==
  /\ argv[1] = "peek" /\ UNCHANGED mem
  /\ \/ Len(argv) < 2 /\ Says("usage")
     \/ Len(argv) >= 2 /\ Invalid \in {Hex(argv[2]), PeekCount(argv)} /\ Says("error")
     \/ /\ Len(argv) >= 2 /\ Invalid \notin {Hex(argv[2]), PeekCount(argv)}
        /\ Shows(Window(Align(Hex(argv[2])), Clamped(PeekCount(argv))), "peek", argv)

\* Written, then read back.
cmd_poke(argv) ==
  /\ argv[1] = "poke"
  /\ \/ Len(argv) < 3 /\ Says("usage") /\ UNCHANGED mem
     \/ Len(argv) >= 3 /\ Invalid \in {Hex(argv[2]), Hex(argv[3])} /\ Says("error") /\ UNCHANGED mem
     \/ /\ Len(argv) >= 3 /\ Invalid \notin {Hex(argv[2]), Hex(argv[3])}
        /\ Writes(Align(Hex(argv[2])), Hex(argv[3])) /\ Shows(<<Align(Hex(argv[2]))>>, "poke", argv)

\* The variables of cmd_load are gone with it, and their history.
NotLoading == loader' = NoLoad /\ typed' = <<>> /\ before' = <<>>

\* The optional address of load and go.
Target(argv) == IF Len(argv) >= 2 THEN Hex(argv[2]) ELSE IMEM_BASE

cmd_load(argv) ==
  /\ argv[1] = "load" /\ UNCHANGED mem
  /\ \/ Target(argv) = Invalid /\ Says("error") /\ NotLoading
     \/ /\ Target(argv) # Invalid
        /\ mode' = "load" /\ said' = "loading" /\ UNCHANGED <<line, todo, shown>>
        /\ loader' = [addr |-> Align(Target(argv)), cur |-> Align(Target(argv)), count |-> 0]
        /\ typed' = <<>> /\ before' = mem

cmd_go(argv) ==
  /\ argv[1] = "go" /\ UNCHANGED mem
  /\ \/ Target(argv) = Invalid /\ Says("error")
     \/ /\ Target(argv) # Invalid
        /\ mode' = "jumped" /\ said' = "jump" /\ UNCHANGED <<line, todo, shown>>

cmd_rtos(argv) == argv[1] = "rtos" /\ Shows(RtosRegisters, "rtos", argv) /\ UNCHANGED mem
cmd_uart(argv) == argv[1] = "uart" /\ Shows(SubSeq(UartRegisters, 3, 5), "uart", argv) /\ UNCHANGED mem

\* Faulty: the value is written before it is known to be one.
GpioSetEarly(argv, name, register) ==
  /\ Len(argv) >= 3 /\ argv[2] = name /\ Writes(register, 0)
  /\ Says(IF Hex(argv[3]) = Invalid THEN "error" ELSE "gpio")
GpioSet(argv, name, register) ==
  /\ Len(argv) >= 3 /\ argv[2] = name
  /\ \/ Hex(argv[3]) = Invalid /\ Says("error") /\ UNCHANGED mem
     \/ Hex(argv[3]) # Invalid /\ Writes(register, Hex(argv[3])) /\ Says("gpio")
cmd_gpio(argv) ==
  /\ argv[1] = "gpio"
  /\ \/ Len(argv) >= 2 /\ argv[2] = "read" /\ Shows(<<GPIO_IN>>, "gpio", argv) /\ UNCHANGED mem
     \/ GpioSet(argv, "write", GPIO_OUT)
     \/ GpioSet(argv, "dir", GPIO_DIR)
     \/ /\ ~(Len(argv) >= 2 /\ argv[2] = "read") /\ ~(Len(argv) >= 3 /\ argv[2] \in {"write", "dir"})
        /\ Shows(GpioRegisters, "gpio", argv) /\ UNCHANGED mem

cmd_table == {"help", "info", "peek", "poke", "load", "go", "rtos", "gpio", "uart", "uptime"}

dispatch_command(argv) ==
  \/ /\ UNCHANGED uptimeVars
     /\ \/ cmd_load(argv)
        \/ /\ \/ cmd_help(argv) \/ cmd_peek(argv) \/ cmd_poke(argv) \/ cmd_go(argv)
              \/ cmd_rtos(argv) \/ cmd_uart(argv) \/ cmd_gpio(argv)
              \/ argv[1] \notin cmd_table /\ Says("unknown") /\ UNCHANGED mem
           /\ NotLoading
  \/ /\ argv[1] = "uptime" /\ BeginUptime
     /\ mode' = "uptime" /\ said' = "uptime" /\ UNCHANGED <<line, mem, todo, shown>> /\ NotLoading

\* A line at main's prompt, of which parse_args keeps MAX_ARGS + 1 tokens; an empty
\* or cancelled one only prompts again.
Command(l) ==
  /\ mode = "prompt"
  /\ \/ l \in {<<>>, Cancel} /\ Says("prompt") /\ NotLoading /\ UNCHANGED <<mem, uptimeVars>>
     \/ l \notin {<<>>, Cancel} /\ dispatch_command(l)

\* A line of cmd_load, by what it starts with; the whole of it must be a numeral to
\* be a word, a space before or after is an error.
Starts(l, chars) == l # <<>> /\ l[1] \in chars
LoadValue == [l \in LoadLines |-> hex_to_uint32(l)]
LoadHex(l) == LoadValue[l]

LoadEnds(l) == /\ \/ l = Cancel /\ Says("aborted")
                  \/ l # Cancel /\ (l = <<>> \/ Starts(l, {"."})) /\ Says("loaded")
               /\ UNCHANGED <<mem, loader, typed, before>>
LoadTakes(l) == /\ l \notin {Cancel, <<>>} /\ ~Starts(l, {"."}) /\ Len(typed) < MAX_LOAD
                /\ typed' = Append(typed, l) /\ UNCHANGED <<mode, line, todo, shown, before>>
LoadSkips(l) == LoadTakes(l) /\ Starts(l, {"#", "@"}) /\ UNCHANGED <<said, mem, loader>>
\* Faulty: a line that is no numeral takes up a word.
LoadErrorAdvances(l) ==
  /\ LoadTakes(l) /\ ~Starts(l, {"#", "@"}) /\ LoadHex(l) = Invalid
  /\ said' = "error" /\ loader' = [loader EXCEPT !.cur = Wrap(loader.cur + 4)] /\ UNCHANGED mem
LoadError(l) == /\ LoadTakes(l) /\ ~Starts(l, {"#", "@"}) /\ LoadHex(l) = Invalid
                /\ said' = "error" /\ UNCHANGED <<mem, loader>>
LoadWord(l) == /\ LoadTakes(l) /\ ~Starts(l, {"#", "@"}) /\ LoadHex(l) # Invalid
               /\ Writes(loader.cur, LoadHex(l)) /\ UNCHANGED said
               /\ loader' = [loader EXCEPT !.cur = Wrap(loader.cur + 4), !.count = loader.count + 1]

LoadLine(l) == /\ mode = "load"
               /\ LoadEnds(l) \/ LoadSkips(l) \/ LoadError(l) \/ LoadWord(l)
               /\ UNCHANGED uptimeVars

\* A register read and printed; the command ends after the last one.
ShowOne == /\ mode = "show" /\ todo # <<>>
           /\ \E val \in REG32(Head(todo)) : shown' = Append(shown, [a |-> Head(todo), v |-> val])
           /\ todo' = Tail(todo)
           /\ UNCHANGED <<mode, line, said, mem, loader, typed, before, uptimeVars>>
ShowEnd == /\ mode = "show" /\ todo = <<>> /\ Says(said)
           /\ UNCHANGED <<mem, loader, typed, before, uptimeVars>>

cmd_uptime == /\ mode = "uptime"
              /\ \/ ReadLoop /\ UNCHANGED shellVars
                 \/ EndUptime /\ Says(said) /\ UNCHANGED <<mem, loader, typed, before>>

Next == \/ \E l \in Lines \cup {Cancel} : Command(l)
        \/ \E l \in LoadLines \cup {Cancel} : LoadLine(l)
        \/ ShowOne \/ ShowEnd \/ cmd_uptime
        \/ Tick /\ UNCHANGED shellVars

Spec == Init /\ [][Next]_vars
-----------------------------------------------------------------------------
\* The numerals among the lines of a load, where each goes, and those that are
\* neither lost on a device nor overwritten by a later one.
Numerals == {k \in DOMAIN typed : LoadHex(typed[k]) # Invalid}
Place(n) == Wrap(loader.addr + 4 * n)
PlaceOf(k) == Place(Cardinality({j \in Numerals : j < k}))
Kept == {k \in Numerals : /\ PlaceOf(k) \notin Volatile \cup Counter
                          /\ \A j \in Numerals : j > k => PlaceOf(j) # PlaceOf(k)}

\* During a load and after it, aborted or not, memory is what it was, overlaid
\* with the numerals entered so far, in order, at consecutive words from the
\* address asked for: no comment, error or wrap of the address shifts or loses
\* one (cmd_load).
LoadedImage ==
  mode = "load" \/ said \in {"loaded", "aborted"} =>
    /\ loader.count = Cardinality(Numerals) /\ loader.cur = Place(loader.count)
    /\ DOMAIN mem = DOMAIN before \cup {PlaceOf(k) : k \in Kept}
    /\ \A k \in Kept : mem[PlaceOf(k)] = LoadHex(typed[k])
    /\ \A a \in DOMAIN before \ {PlaceOf(k) : k \in Kept} : mem[a] = before[a]

\* Numerals, arguments and the division are what their references say, for every
\* short input; no state is needed, so this is looked at where the program starts
\* (hex_to_uint32, dec_to_uint32, parse_args, div64by32).
TextMeetsItsReferences ==
  said = "banner" => HexAcceptsNumerals /\ DecReadsWhatItPrints /\ ArgsAreWords /\ DivisionIsExact

\* What is displayed is a window of at most PEEK_MAX_WORDS consecutive words
\* around the address asked for, past the end of the address space too, each with
\* its content; a poke shows what it wrote (cmd_peek, cmd_poke).
Window0 == [i \in 1..Len(shown) |-> shown[i].a] \o todo
ShowsWhatIsStored ==
  mode = "show" =>
    /\ \A i \in 1..Len(shown) : shown[i].a \notin Volatile \cup Counter => shown[i].v = Stored(mem, shown[i].a)
    /\ said \in {"peek", "poke"} =>
         /\ Len(Window0) \in 1..PEEK_MAX_WORDS /\ Hex(line[2]) - Window0[1] \in 0..3
         /\ \A i \in 1..(Len(Window0) - 1) : Window0[i + 1] = Wrap(Window0[i] + 4)
    /\ said = "poke" /\ Window0[1] \notin Volatile \cup Counter => Stored(mem, Window0[1]) = Hex(line[3])

\* A step changes at most one word and then only for a well-formed request: no
\* command that fails, shows or ends a load writes (all handlers).
AskedWrite ==
  mem' # mem => /\ mode = "prompt" => said' \in {"poke", "gpio"}
                /\ mode # "prompt" => mode = "load" /\ LoadHex(Last(typed')) # Invalid
                /\ \E a \in DOMAIN mem' : /\ DOMAIN mem' = DOMAIN mem \cup {a}
                                          /\ \A b \in DOMAIN mem \ {a} : mem'[b] = mem[b]
WritesAreAsked == [][AskedWrite]_vars
=============================================================================
