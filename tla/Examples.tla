------------------------------ MODULE Examples ------------------------------
(***************************************************************************)
(* The programs of sw/examples over the C library: hello_uart.c,           *)
(* gpio_blink.c and main() of multitask.c.  A program is a sequence of     *)
(* statements; "f" is the descriptor its open returned.  Beside them stand *)
(* free programs, which make the calls of a set in any order.              *)
(***************************************************************************)
EXTENDS VsyncPosix, RtosTasks

CONSTANTS PROGRAMS,  \* the programs an instance runs, by name
          FREE       \* free programs: the calls each one makes

ASSUME ProgramsAssumption ==
  \A p \in PROGRAMS \ {"hello_uart", "gpio_blink", "multitask"} : FREE[p] \subseteq Calls

\* A statement makes one of its calls or writes its text; if the result "fails",
\* it goes to "catch", else to "next".  Label 0 is the end of the program.
Statement(calls, text, fails, catch, next) ==
  [calls |-> calls, text |-> text, fails |-> fails, catch |-> catch, next |-> next]
Simply(c, next) == Statement({c}, <<>>, "never", 0, next)
Puts(text, next) == Statement({}, text, "never", 0, next)
OpenOr(c, catch, next) == Statement({c}, <<>>, "negative", catch, next)

Fails(statement, ret) == \/ statement.fails = "negative" /\ ret < 0
                         \/ statement.fails = "nonzero" /\ ret # 0
After(statement, ret) == IF Fails(statement, ret) THEN statement.catch ELSE statement.next

\* hello_uart.c: 14 characters, which the transmit FIFO of 16 holds.
Greeting == <<1, 2>>
hello_uart(f) ==
  << OpenOr(open(FD_TYPE_UART, 0), 0, 2), Puts(Greeting, 3), Simply(close(f), 0) >>

\* gpio_blink.c, with its two values of led_state.
LED_BIT == 1
gpio_blink(f) ==
  << OpenOr(open(FD_TYPE_GPIO, 0), 0, 2),
     Simply(ioctl(f, GPIO_SET_DIR, LED_BIT), 3),
     Simply(ioctl(f, GPIO_SET_OUTPUT, LED_BIT), 4), Simply(nanosleep(NULL, NULL), 5),
     Simply(ioctl(f, GPIO_SET_OUTPUT, 0), 6), Simply(nanosleep(NULL, NULL), 3) >>

\* multitask.c, main().  Its messages are longer than the FIFO.  task1 and task2
\* are joined with whatever they held: no call stores to them.
Message == <<1, 1, 1>>
sync_sem == 0
Joins(next) == Statement({pthread_join(t, NULL) : t \in Tasks}, <<>>, "never", 0, next)
Creates(catch, next) ==
  Statement({pthread_create(NULL, NULL, start) : start \in Prios}, <<>>, "nonzero", catch, next)
multitask(f) ==
  << OpenOr(open(FD_TYPE_UART, 0), 0, 2), Puts(Message, 3),
     Simply(sem_init(sync_sem, 0, 0), 4),
     Creates(12, 5), Creates(12, 6), Puts(Message, 7),
     Joins(8), Joins(9), Puts(Message, 10),
     Simply(sem_destroy(sync_sem), 11), Simply(close(f), 0),
     Puts(Message, 0) >>

Text(p, f) ==
  CASE p = "hello_uart" -> hello_uart(f)
    [] p = "gpio_blink" -> gpio_blink(f)
    [] p = "multitask"  -> multitask(f)
    [] OTHER -> << Statement(FREE[p], <<>>, "never", 0, 1) >>
=============================================================================
