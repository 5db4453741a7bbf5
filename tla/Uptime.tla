------------------------------- MODULE Uptime -------------------------------
(***************************************************************************)
(* The 64-bit counter mtime (rtl/interrupt/clint.sv), read by halves while *)
(* it runs: the loop of cmd_uptime (sw/examples/shell.c).                  *)
(***************************************************************************)
EXTENDS Naturals

CONSTANTS HALF,    \* values of half of the counter; 2^32 in the code
          MAX_HI   \* bound of the model: the highest value of the upper half

ASSUME UptimeAssumption == HALF \in Nat \ {0} /\ MAX_HI \in Nat

VARIABLES mtime,         \* the counter
          at,            \* the next read of the loop
          hi1, lo, hi2,  \* of cmd_uptime
          began          \* history: mtime when the command began
uptimeVars == <<mtime, at, hi1, lo, hi2, began>>
readerVars == <<at, hi1, lo, hi2, began>>

Halves == 0..(HALF - 1)
Times == [hi : 0..MAX_HI, lo : Halves]
Positions == {"rest", "hi1", "lo", "hi2", "check", "done"}

\* s is not after t.
Leq(s, t) == s.hi < t.hi \/ (s.hi = t.hi /\ s.lo <= t.lo)

UptimeInit ==
  /\ mtime = [hi |-> 0, lo |-> 0] /\ at = "rest"
  /\ hi1 = 0 /\ lo = 0 /\ hi2 = 0 /\ began = mtime

\* An edge of the clock; the low half carries into the high one.
Tick == /\ mtime.lo < HALF - 1 \/ mtime.hi < MAX_HI
        /\ mtime' = IF mtime.lo < HALF - 1 THEN [hi |-> mtime.hi, lo |-> mtime.lo + 1]
                    ELSE [hi |-> mtime.hi + 1, lo |-> 0]
        /\ UNCHANGED readerVars

BeginUptime == at = "rest" /\ at' = "hi1" /\ began' = mtime /\ UNCHANGED <<mtime, hi1, lo, hi2>>
ReadHi1 == at = "hi1" /\ at' = "lo" /\ hi1' = mtime.hi /\ UNCHANGED <<mtime, lo, hi2, began>>
ReadLo  == at = "lo" /\ at' = "hi2" /\ lo' = mtime.lo /\ UNCHANGED <<mtime, hi1, hi2, began>>
ReadHi2 == at = "hi2" /\ at' = "check" /\ hi2' = mtime.hi /\ UNCHANGED <<mtime, hi1, lo, began>>

\* Faulty: one read of each half.
CheckNever == at = "check" /\ at' = "done" /\ UNCHANGED <<mtime, hi1, lo, hi2, began>>
\* while (hi1 != hi2)
Check == /\ at = "check"
         /\ at' = IF hi1 = hi2 THEN "done" ELSE "hi1"
         /\ UNCHANGED <<mtime, hi1, lo, hi2, began>>

EndUptime == /\ at = "done" /\ at' = "rest"
             /\ hi1' = 0 /\ lo' = 0 /\ hi2' = 0 /\ began' = [hi |-> 0, lo |-> 0]
             /\ UNCHANGED mtime

ReadLoop == ReadHi1 \/ ReadLo \/ ReadHi2 \/ Check
UptimeNext == Tick \/ BeginUptime \/ ReadLoop \/ EndUptime
UptimeSpec == UptimeInit /\ [][UptimeNext]_uptimeVars
-----------------------------------------------------------------------------
\* The type of the counter and of the command's variables.
UptimeTypeOK ==
  /\ mtime \in Times /\ began \in Times /\ at \in Positions
  /\ hi1 \in 0..MAX_HI /\ hi2 \in 0..MAX_HI /\ lo \in Halves

\* What the loop ends with was the time at some moment while the command ran,
\* whatever carries went through the halves between the reads (the do-while loop
\* of cmd_uptime).
UptimeIsATime ==
  at = "done" => Leq(began, [hi |-> hi1, lo |-> lo]) /\ Leq([hi |-> hi1, lo |-> lo], mtime)
=============================================================================
