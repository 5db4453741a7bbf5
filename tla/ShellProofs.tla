---------------------------- MODULE ShellProofs ----------------------------
(***************************************************************************)
(* The commands of the shell, for every set of lines, memory map and width *)
(* of a word.  First the time cmd_uptime reads: its invariant speaks of    *)
(* the upper half alone, which has not passed hi1 yet, or what was read of *)
(* the lower half need not be a time any more and the loop will notice.    *)
(* Then what the parsers return, the types of the memory and the loader,   *)
(* and from these that writes are asked for, that what is displayed is     *)
(* stored, and that a load leaves the image entered.  Last the text, for   *)
(* every input: a loop's values are those of a run, one turn after         *)
(* another, and an invariant of its turns gives what the parsers read, the *)
(* words parse_args finds and the quotient of the long division.           *)
(***************************************************************************)
EXTENDS Shell, SequenceTheorems, FiniteSetTheorems, WellFoundedInduction, TLAPS

\* The pair (hi1, lo) lies between the beginning of the command and now.
LoIsFresh == Leq(began, [hi |-> hi1, lo |-> lo]) /\ Leq([hi |-> hi1, lo |-> lo], mtime)

ReadInv ==
  /\ at # "rest" => Leq(began, mtime)
  /\ at \in {"lo", "hi2"} => hi1 <= mtime.hi
  /\ at = "lo" => began.hi <= hi1
  /\ at = "hi2" /\ hi1 = mtime.hi => LoIsFresh
  /\ at = "check" => hi2 <= mtime.hi /\ (hi1 = hi2 => LoIsFresh)
  /\ at = "done" => LoIsFresh

\* The order on times is what one expects of it.
LEMMA LeqTransitive ==
  ASSUME NEW r \in Times, NEW s \in Times, NEW t \in Times, Leq(r, s), Leq(s, t)
  PROVE  Leq(r, t)
BY UptimeAssumption DEF Leq, Times, Halves

\* The counter only goes forward.
LEMMA TickGoesForward ==
  ASSUME UptimeTypeOK, Tick
  PROVE  /\ mtime' \in Times /\ Leq(mtime, mtime')
         /\ mtime.hi <= mtime'.hi /\ UNCHANGED readerVars
BY UptimeAssumption DEF UptimeTypeOK, Tick, Times, Halves, Leq

\* The registers keep their ranges.
LEMMA TypePreserved ==
  ASSUME UptimeTypeOK, [UptimeNext]_uptimeVars
  PROVE  UptimeTypeOK'
<1>1. CASE Tick
  BY <1>1, TickGoesForward DEF UptimeTypeOK, readerVars
<1>2. CASE BeginUptime \/ ReadLoop \/ EndUptime \/ UNCHANGED uptimeVars
  BY <1>2, UptimeAssumption DEF UptimeTypeOK, BeginUptime, ReadLoop, ReadHi1, ReadLo, ReadHi2, Check,
     EndUptime, Times, Halves, Positions, uptimeVars
<1> QED
  BY <1>1, <1>2 DEF UptimeNext

\* The type of the counter and of the command's variables holds throughout.
THEOREM UptimeTypeCorrect == UptimeSpec => []UptimeTypeOK
<1>1. UptimeInit => UptimeTypeOK
  BY UptimeAssumption DEF UptimeInit, UptimeTypeOK, Times, Halves, Positions
<1> QED
  BY <1>1, TypePreserved, PTL DEF UptimeSpec

\* An edge of the clock keeps the invariant: when the upper half moves on, hi1
\* is left behind for good.
LEMMA TickKeeps ==
  ASSUME UptimeTypeOK, ReadInv, Tick
  PROVE  ReadInv'
<1>1. UptimeTypeOK' BY TypePreserved DEF UptimeNext
<1>2. mtime' \in Times /\ Leq(mtime, mtime') /\ mtime.hi <= mtime'.hi /\ UNCHANGED readerVars
  BY TickGoesForward
<1>3. Leq(began, mtime) => Leq(began, mtime')
  BY <1>2, LeqTransitive DEF UptimeTypeOK
<1>4. [hi |-> hi1, lo |-> lo] \in Times
  BY DEF UptimeTypeOK, Times
<1>5. LoIsFresh => LoIsFresh'
  BY <1>2, <1>4, LeqTransitive DEF UptimeTypeOK, LoIsFresh, readerVars
<1>6. hi1 <= mtime.hi /\ hi1 = mtime'.hi => hi1 = mtime.hi
  BY <1>2, <1>1 DEF UptimeTypeOK, Times
<1>7. \A n \in 0..MAX_HI : n <= mtime.hi => n <= mtime'.hi
  BY <1>2, <1>1 DEF UptimeTypeOK, Times
<1> QED
  BY <1>2, <1>3, <1>5, <1>6, <1>7 DEF ReadInv, readerVars, UptimeTypeOK

\* So does every step of the command.
LEMMA ReaderKeeps ==
  ASSUME UptimeTypeOK, ReadInv, BeginUptime \/ ReadLoop \/ EndUptime \/ UNCHANGED uptimeVars
  PROVE  ReadInv'
<1> USE UptimeAssumption DEF UptimeTypeOK, ReadInv, LoIsFresh, Leq, Times, Halves
<1>1. CASE BeginUptime BY <1>1 DEF BeginUptime
<1>2. CASE ReadHi1 BY <1>2 DEF ReadHi1
<1>3. CASE ReadLo BY <1>3 DEF ReadLo
<1>4. CASE ReadHi2 BY <1>4 DEF ReadHi2
<1>5. CASE Check BY <1>5 DEF Check
<1>6. CASE EndUptime BY <1>6 DEF EndUptime
<1>7. CASE UNCHANGED uptimeVars BY <1>7 DEF uptimeVars
<1> QED BY <1>1, <1>2, <1>3, <1>4, <1>5, <1>6, <1>7 DEF ReadLoop

\* What the loop of cmd_uptime ends with was the time at some moment of the
\* command, for every width of the counter and however slow the reads are.
THEOREM UptimeWasATime == UptimeSpec => []UptimeIsATime
<1>1. UptimeInit => ReadInv
  BY DEF UptimeInit, ReadInv
<1>2. UptimeTypeOK /\ ReadInv /\ [UptimeNext]_uptimeVars => ReadInv'
  BY TickKeeps, ReaderKeeps DEF UptimeNext
<1>3. ReadInv => UptimeIsATime
  BY DEF ReadInv, UptimeIsATime, LoIsFresh
<1> QED
  BY <1>1, <1>2, <1>3, UptimeTypeCorrect, PTL DEF UptimeSpec
-----------------------------------------------------------------------------
\* The shell runs the loop of cmd_uptime and the clock, and nothing else touches them.
LEMMA ShellRunsUptime ==
  ASSUME [Next]_vars
  PROVE  [UptimeNext]_uptimeVars
<1>1. CASE \E l \in Lines \cup {Cancel} : Command(l)
  <2>1. UNCHANGED uptimeVars \/ BeginUptime
    BY <1>1 DEF Command, dispatch_command, uptimeVars
  <2>2. QED
    BY <2>1 DEF UptimeNext
<1>2. CASE \E l \in LoadLines \cup {Cancel} : LoadLine(l)
  BY <1>2 DEF LoadLine
<1>3. CASE ShowOne \/ ShowEnd
  BY <1>3 DEF ShowOne, ShowEnd, uptimeVars
<1>4. CASE cmd_uptime
  BY <1>4 DEF cmd_uptime, UptimeNext
<1>5. CASE Tick /\ UNCHANGED shellVars
  BY <1>5 DEF UptimeNext
<1>6. CASE UNCHANGED vars
  BY <1>6 DEF vars
<1>7. QED
  BY <1>1, <1>2, <1>3, <1>4, <1>5, <1>6 DEF Next

\* In the whole shell, too, the time that `uptime' prints was the time at some moment
\* of the command (cmd_uptime).
THEOREM UptimeInTheShell == Spec => []UptimeTypeOK /\ []UptimeIsATime
<1>1. Init => UptimeInit
  BY DEF Init
<1>2. Spec => UptimeSpec
  BY <1>1, ShellRunsUptime, PTL DEF Spec, UptimeSpec
<1>3. QED
  BY <1>2, UptimeTypeCorrect, UptimeWasATime
-----------------------------------------------------------------------------
\* Induction on the naturals, as a fact about sets.
LEMMA LeastNat ==
  ASSUME NEW S \in SUBSET Nat, S # {}
  PROVE  \E n \in S : \A m \in S : n <= m
<1>1. PICK n \in S : \A m \in S : ~ (<<m, n>> \in OpToRel(<, Nat))
  BY WFMin, NatLessThanWellFounded, Zenon
<1>2. \A m \in S : ~ (m < n)
  BY <1>1 DEF OpToRel
<1>3. \A m \in S : n <= m
  BY <1>2
<1>4. QED
  BY <1>3

\* A set with 0 and with the successor of each of its naturals has them all.
LEMMA SetOfAllNat ==
  ASSUME NEW T, 0 \in T, \A n \in Nat : n \in T => n + 1 \in T
  PROVE  Nat \subseteq T
<1> SUFFICES ASSUME ~ (Nat \subseteq T) PROVE FALSE
  OBVIOUS
<1>1. PICK S \in SUBSET Nat : S = Nat \ T
  OBVIOUS
<1>2. PICK n \in S : \A m \in S : n <= m
  BY <1>1, LeastNat
<1>3. n \in Nat /\ n \notin T /\ n # 0 /\ n - 1 \in Nat
  BY <1>1, <1>2
<1>4. n - 1 \in T
  BY <1>1, <1>2, <1>3
<1>5. n - 1 + 1 = n
  BY <1>3
<1>6. QED
  BY <1>3, <1>4, <1>5

\* The powers of two and of sixteen that fit a word.
LEMMA PowerFacts ==
  /\ HexLen \in Nat \ {0} /\ WIDTH = 4 * HexLen
  /\ \A n \in 0..WIDTH : 2^n \in Nat \ {0}
  /\ \A n \in 0..HexLen : 16^n \in Nat \ {0} /\ 16^n = 2^(4 * n)
<1>1. HexLen \in Nat \ {0} /\ WIDTH = 4 * HexLen
  BY TextAssumption DEF HexLen
<1>2. \A n \in 0..WIDTH : 2^n \in Nat \ {0}
  <2> DEFINE T == {n \in Nat : n <= WIDTH => 2^n \in Nat \ {0}}
  <2>1. 0 \in T
    BY PowerAssumption
  <2>2. ASSUME NEW n \in Nat, n \in T PROVE n + 1 \in T
    <3>1. CASE n + 1 <= WIDTH
      <4>1. n \in 0..(WIDTH - 1) /\ 2^n \in Nat \ {0}
        BY <2>2, <3>1, TextAssumption
      <4>2. PICK k \in Nat \ {0} : k = 2^n
        BY <4>1
      <4>3. 2^(n + 1) = 2 * k /\ 2 * k \in Nat \ {0}
        BY <4>1, <4>2, PowerAssumption
      <4>4. QED
        BY <4>3
    <3>2. QED
      BY <3>1
  <2>3. Nat \subseteq T
    <3> HIDE DEF T
    <3>1. QED
      BY <2>1, <2>2, SetOfAllNat
  <2>4. QED
    BY <2>3
<1>3. \A n \in 0..HexLen : 16^n = 2^(4 * n)
  <2> DEFINE T == {n \in Nat : n <= HexLen => 16^n = 2^(4 * n)}
  <2>1. 0 \in T
    <3>1. 4 * 0 = 0
      OBVIOUS
    <3>2. QED
      BY <3>1, PowerAssumption
  <2>2. ASSUME NEW n \in Nat, n \in T, n + 1 <= HexLen PROVE 16^(n + 1) = 2^(4 * (n + 1))
    <3>1. n \in 0..(HexLen - 1) /\ 16^n = 2^(4 * n)
      BY <1>1, <2>2
    <3>2. PICK m \in Nat : m = 4 * n /\ m + 4 = 4 * (n + 1)
      OBVIOUS
    <3>3. {m, m + 1, m + 2, m + 3} \subseteq 0..(WIDTH - 1)
      BY <1>1, <2>2, <3>2
    <3>4. PICK k \in Nat : k = 2^m
      <4>1. m \in 0..WIDTH
        BY <1>1, <2>2, <3>2
      <4>2. QED
        BY <1>2, <4>1
    <3>5. /\ 2^(m + 1) = 2 * 2^m /\ 2^((m + 1) + 1) = 2 * 2^(m + 1)
          /\ 2^((m + 2) + 1) = 2 * 2^(m + 2) /\ 2^((m + 3) + 1) = 2 * 2^(m + 3)
      BY <3>3, PowerAssumption
    <3>6. (m + 1) + 1 = m + 2 /\ (m + 2) + 1 = m + 3 /\ (m + 3) + 1 = m + 4
      BY <3>2
    <3>7. 2^(m + 4) = 2 * (2 * (2 * (2 * k)))
      BY <3>4, <3>5, <3>6, Zenon
    <3>8. 16^(n + 1) = 16 * k
      BY <3>1, <3>2, <3>4, PowerAssumption
    <3>9. 2 * (2 * (2 * (2 * k))) = 16 * k
      BY <3>4
    <3>10. QED
      BY <3>2, <3>7, <3>8, <3>9
  <2>3. ASSUME NEW n \in Nat, n \in T PROVE n + 1 \in T
    BY <2>2, <2>3
  <2>4. Nat \subseteq T
    <3> HIDE DEF T
    <3>1. QED
      BY <2>1, <2>3, SetOfAllNat
  <2>5. QED
    BY <1>1, <2>4
<1>4. \A n \in 0..HexLen : 4 * n \in 0..WIDTH
  BY <1>1
<1>5. QED
  BY <1>1, <1>2, <1>3, <1>4

\* A word has one value more than it can hold, which the hexadecimal digits divide.
LEMMA WordSize == 2^WIDTH \in Nat \ {0} /\ (2^WIDTH) % 16 = 0
<1>1. /\ HexLen \in 0..HexLen /\ HexLen - 1 \in 0..(HexLen - 1)
      /\ HexLen - 1 \in 0..HexLen /\ (HexLen - 1) + 1 = HexLen
  BY PowerFacts
<1>2. PICK k \in Nat \ {0} : k = 16^(HexLen - 1)
  BY <1>1, PowerFacts
<1>3. 16^HexLen = 16 * k
  BY <1>1, <1>2, PowerAssumption
<1>4. 16^HexLen = 2^WIDTH
  BY <1>1, PowerFacts
<1>5. 16 * k \in Nat \ {0} /\ (16 * k) % 16 = 0
  OBVIOUS
<1>6. QED
  BY <1>3, <1>4, <1>5

\* The largest element of an interval, as FoldLeft looks for it.
LEMMA MaxOfSubset ==
  ASSUME NEW n \in Nat, NEW s \in SUBSET (1..(n + 1)), n + 1 \in s
  PROVE  Max(s) = n + 1
<1>1. \A y \in s : n + 1 >= y
  OBVIOUS
<1>2. \A x \in s : (\A y \in s : x >= y) => x = n + 1
  OBVIOUS
<1>3. QED
  BY <1>1, <1>2 DEF Max

\* The recursion of FoldLeft over n things has a solution, for every step.
FoldOf(S, b, h, n, g) ==
  \A s \in SUBSET (1..n) :
    g[s] \in S /\ g[s] = IF s = {} THEN b ELSE h[Max(s)][g[s \ {Max(s)}]]

\* A function that satisfies the equation up to n can be continued to n + 1.
LEMMA FoldGrows ==
  ASSUME NEW S, NEW b, NEW n \in Nat, NEW h, h[n + 1] \in [S -> S], NEW g, FoldOf(S, b, h, n, g)
  PROVE  \E f : f = [s \in SUBSET (1..(n + 1)) |-> f[s]] /\ FoldOf(S, b, h, n + 1, f)
<1> DEFINE f == [s \in SUBSET (1..(n + 1)) |->
                   IF n + 1 \in s THEN h[n + 1][g[s \ {n + 1}]] ELSE g[s]]
<1>1. ASSUME NEW s \in SUBSET (1..(n + 1))
      PROVE  f[s] \in S /\ f[s] = IF s = {} THEN b ELSE h[Max(s)][f[s \ {Max(s)}]]
  <2>1. f[s] = IF n + 1 \in s THEN h[n + 1][g[s \ {n + 1}]] ELSE g[s]
    OBVIOUS
  <2>2. \A r \in SUBSET (1..(n + 1)) : n + 1 \notin r => r \in SUBSET (1..n) /\ f[r] = g[r]
    <3>1. \A i \in 1..(n + 1) : i # n + 1 => i \in 1..n
      OBVIOUS
    <3>2. QED
      BY <3>1
  <2> HIDE DEF f
  <2>3. CASE n + 1 \in s
    <3>1. Max(s) = n + 1 /\ s # {}
      BY <2>3, MaxOfSubset
    <3>2. s \ {n + 1} \in SUBSET (1..(n + 1)) /\ n + 1 \notin s \ {n + 1}
      OBVIOUS
    <3>3. f[s \ {n + 1}] = g[s \ {n + 1}]
      BY <2>2, <3>2
    <3>4. s \ {n + 1} \in SUBSET (1..n)
      BY <2>2, <3>2
    <3>5. g[s \ {n + 1}] \in S
      BY <3>4 DEF FoldOf
    <3>6. QED
      BY <2>1, <2>3, <3>1, <3>3, <3>5
  <2>4. CASE n + 1 \notin s
    <3>1. s \in SUBSET (1..n) /\ f[s] = g[s]
      BY <2>2, <2>4
    <3>2. g[s] \in S /\ g[s] = IF s = {} THEN b ELSE h[Max(s)][g[s \ {Max(s)}]]
      BY <3>1 DEF FoldOf
    <3>3. s \ {Max(s)} \in SUBSET (1..(n + 1)) /\ n + 1 \notin s \ {Max(s)}
      BY <2>4
    <3>4. f[s \ {Max(s)}] = g[s \ {Max(s)}]
      BY <2>2, <3>3
    <3>5. QED
      BY <3>1, <3>2, <3>4
  <2>5. QED
    BY <2>3, <2>4
<1>2. FoldOf(S, b, h, n + 1, f)
  <2> HIDE DEF f
  <2>1. QED
    BY <1>1 DEF FoldOf
<1>3. f = [s \in SUBSET (1..(n + 1)) |-> f[s]]
  OBVIOUS
<1> HIDE DEF f
<1>4. QED
  BY <1>2, <1>3

\* There is such a function for every n.
LEMMA FoldExists ==
  ASSUME NEW S, NEW b \in S, NEW N \in Nat, NEW h \in [1..N -> [S -> S]]
  PROVE  \E g : g = [s \in SUBSET (1..N) |-> g[s]] /\ FoldOf(S, b, h, N, g)
<1> DEFINE Solved(n) == \E g : g = [s \in SUBSET (1..n) |-> g[s]] /\ FoldOf(S, b, h, n, g)
           T == {n \in Nat : n <= N => Solved(n)}
<1>1. Solved(0)
  <2> DEFINE g == [s \in SUBSET (1..0) |-> b]
  <2>1. \A s \in SUBSET (1..0) : s = {}
    OBVIOUS
  <2>2. \A s \in SUBSET (1..0) : g[s] = b
    OBVIOUS
  <2>3. g = [s \in SUBSET (1..0) |-> g[s]]
    OBVIOUS
  <2> HIDE DEF g
  <2>4. FoldOf(S, b, h, 0, g)
    BY <2>1, <2>2 DEF FoldOf
  <2>5. QED
    BY <2>3, <2>4
<1>2. ASSUME NEW n \in Nat, n + 1 <= N, Solved(n) PROVE Solved(n + 1)
  <2>1. PICK g : FoldOf(S, b, h, n, g)
    BY <1>2
  <2>2. h[n + 1] \in [S -> S]
    BY <1>2
  <2>3. \E f : f = [s \in SUBSET (1..(n + 1)) |-> f[s]] /\ FoldOf(S, b, h, n + 1, f)
    BY <2>1, <2>2, FoldGrows, Zenon
  <2>4. QED
    BY <2>3, Zenon
<1> HIDE DEF Solved
<1>3. 0 \in T
  BY <1>1
<1>4. ASSUME NEW n \in Nat, n \in T PROVE n + 1 \in T
  BY <1>2, <1>4
<1>5. N \in T
  <2> HIDE DEF T
  <2>1. QED
    BY <1>3, <1>4, SetOfAllNat
<1>6. Solved(N)
  BY <1>5
<1>7. QED
  BY <1>6, Zenon DEF Solved

\* A set of positions has a largest one.
LEMMA MaxIsElement ==
  ASSUME NEW N \in Nat, NEW s \in SUBSET (1..N), s # {}
  PROVE  Max(s) \in s
<1> DEFINE Bounded(n) == \A r \in SUBSET (1..n) : r # {} => \E x \in r : \A y \in r : x >= y
           T == {n \in Nat : Bounded(n)}
<1>1. Bounded(0)
  <2>1. 1..0 = {}
    OBVIOUS
  <2>2. QED
    BY <2>1
<1>2. ASSUME NEW n \in Nat, Bounded(n) PROVE Bounded(n + 1)
  <2> SUFFICES ASSUME NEW r \in SUBSET (1..(n + 1)), r # {} PROVE \E x \in r : \A y \in r : x >= y
    OBVIOUS
  <2>1. CASE n + 1 \in r
    BY <2>1
  <2>2. CASE n + 1 \notin r
    <3>1. r \in SUBSET (1..n)
      BY <2>2
    <3>2. QED
      BY <1>2, <3>1
  <2>3. QED
    BY <2>1, <2>2
<1> HIDE DEF Bounded
<1>3. N \in T
  <2>1. 0 \in T /\ \A n \in Nat : n \in T => n + 1 \in T
    BY <1>1, <1>2
  <2> HIDE DEF T
  <2>2. QED
    BY <2>1, SetOfAllNat
<1>4. \E x \in s : \A y \in s : x >= y
  BY <1>3 DEF Bounded
<1>5. QED
  BY <1>4 DEF Max

\* A run of a loop of N turns over values of S.
RunOf(S, b, N, h, f) == f \in [0..N -> S] /\ f[0] = b /\ \A n \in 1..N : f[n] = h[n][f[n - 1]]

\* Every loop has one.
LEMMA LoopExists ==
  ASSUME NEW S, NEW b \in S, NEW N \in Nat, NEW h \in [1..N -> [S -> S]]
  PROVE  \E f : RunOf(S, b, N, h, f)
<1>1. PICK g : FoldOf(S, b, h, N, g)
  BY FoldExists, Zenon
<1>2. \A n \in 0..N : 1..n \in SUBSET (1..N)
  OBVIOUS
<1> DEFINE f == [n \in 0..N |-> g[1..n]]
<1>3. f \in [0..N -> S]
  BY <1>1, <1>2 DEF FoldOf
<1>4. f[0] = b
  <2>1. 1..0 = {} /\ f[0] = g[1..0]
    OBVIOUS
  <2>2. g[{}] = b
    BY <1>1 DEF FoldOf
  <2>3. QED
    BY <2>1, <2>2
<1>5. ASSUME NEW n \in 1..N PROVE f[n] = h[n][f[n - 1]]
  <2>1. PICK k \in Nat : n = k + 1 /\ n - 1 = k
    <3>1. n - 1 \in Nat /\ n = (n - 1) + 1
      OBVIOUS
    <3>2. QED
      BY <3>1
  <2>2. PICK w \in SUBSET (1..N) : w = 1..(k + 1) /\ w \in SUBSET (1..(k + 1)) /\ k + 1 \in w
    BY <1>2, <2>1
  <2>3. Max(w) = k + 1
    BY <2>2, MaxOfSubset
  <2>4. w # {} /\ w \ {k + 1} = 1..k
    BY <2>2
  <2>5. g[w] = h[Max(w)][g[w \ {Max(w)}]]
    BY <1>1, <2>4 DEF FoldOf
  <2>6. g[w] = h[k + 1][g[1..k]]
    BY <2>3, <2>4, <2>5
  <2>7. f[n] = g[w] /\ f[k] = g[1..k]
    BY <2>1, <2>2
  <2> HIDE DEF f
  <2>8. QED
    BY <2>1, <2>6, <2>7
<1> HIDE DEF f
<1>6. QED
  BY <1>3, <1>4, <1>5 DEF RunOf

\* The largest of the first n positions is the last, and leaves the others.
LEMMA PrefixMax ==
  ASSUME NEW N \in Nat, NEW n \in 1..N
  PROVE  \E w \in SUBSET (1..N) : w = 1..n /\ w # {} /\ Max(w) = n /\ w \ {n} = 1..(n - 1)
<1>1. PICK k \in Nat : n = k + 1 /\ n - 1 = k
  <2>1. n - 1 \in Nat /\ n = (n - 1) + 1
    OBVIOUS
  <2>2. QED
    BY <2>1
<1>2. PICK w \in SUBSET (1..(k + 1)) : w = 1..(k + 1) /\ k + 1 \in w
  BY <1>1
<1>3. Max(w) = k + 1
  BY <1>2, MaxOfSubset
<1>4. w # {} /\ w \ {k + 1} = 1..k /\ w \in SUBSET (1..N)
  BY <1>1, <1>2
<1>5. QED
  BY <1>1, <1>2, <1>3, <1>4

\* The equations of a fold over N things, where the fold before has kept to S.
FoldsFrom(S, b, N, h, g) ==
  /\ g[{}] = b
  /\ \A d \in SUBSET (1..N) : d # {} /\ g[d \ {Max(d)}] \in S => g[d] = h[Max(d)][g[d \ {Max(d)}]]

\* The values a fold takes one after another, all of one set.
LEMMA FoldRuns ==
  ASSUME NEW S, NEW b \in S, NEW N \in Nat, NEW h \in [1..N -> [S -> S]],
         NEW iter, FoldsFrom(S, b, N, h, iter)
  PROVE  \E v : RunOf(S, b, N, h, v) /\ v[N] = iter[1..N]
<1> DEFINE T == {n \in Nat : n <= N => iter[1..n] \in S}
<1>1. ASSUME NEW n \in 1..N, iter[1..(n - 1)] \in S
      PROVE  iter[1..n] = h[n][iter[1..(n - 1)]] /\ iter[1..n] \in S
  <2>1. PICK w \in SUBSET (1..N) : w = 1..n /\ w # {} /\ Max(w) = n /\ w \ {n} = 1..(n - 1)
    BY PrefixMax
  <2>2. iter[1..n] = h[n][iter[1..(n - 1)]]
    BY <1>1, <2>1 DEF FoldsFrom
  <2>3. QED
    BY <1>1, <2>2
<1>2. 0 \in T
  <2>1. 1..0 = {}
    OBVIOUS
  <2>2. QED
    BY <2>1 DEF FoldsFrom
<1>3. ASSUME NEW n \in Nat, n \in T PROVE n + 1 \in T
  <2>1. CASE n + 1 <= N
    <3>1. PICK k \in 1..N : k = n + 1 /\ k - 1 = n
      BY <2>1
    <3>2. iter[1..n] \in S
      BY <1>3, <2>1
    <3>3. iter[1..k] \in S
      BY <1>1, <3>1, <3>2
    <3>4. QED
      BY <3>1, <3>3
  <2>2. QED
    BY <2>1
<1>4. \A n \in 0..N : iter[1..n] \in S
  <2>1. Nat \subseteq T
    <3> HIDE DEF T
    <3>1. QED
      BY <1>2, <1>3, SetOfAllNat
  <2>2. QED
    BY <2>1
<1> DEFINE v == [n \in 0..N |-> iter[1..n]]
<1>5. v \in [0..N -> S]
  BY <1>4
<1>6. v[0] = b /\ v[N] = iter[1..N]
  <2>1. 1..0 = {} /\ 0 \in 0..N /\ N \in 0..N
    OBVIOUS
  <2>2. QED
    BY <2>1 DEF FoldsFrom
<1>7. \A n \in 1..N : n \in 0..N /\ n - 1 \in 0..N
  OBVIOUS
<1>8. \A n \in 1..N : v[n] = h[n][v[n - 1]]
  BY <1>1, <1>4, <1>7
<1> HIDE DEF v
<1>9. QED
  BY <1>5, <1>6, <1>8 DEF RunOf
-----------------------------------------------------------------------------
\* Words are the remainders of 2^WIDTH.
LEMMA WordFacts ==
  /\ 2^WIDTH \in Nat \ {0} /\ Words \subseteq Nat /\ 0 \in Words
  /\ \A n \in Nat : Wrap(n) \in Words
  /\ \A n \in Words : Wrap(n) = n
<1>1. PICK M \in Nat \ {0} : M = 2^WIDTH
  BY WordSize
<1>2. 0..(M - 1) \subseteq Nat /\ 0 \in 0..(M - 1) /\ \A n \in Nat : n % M \in 0..(M - 1)
  OBVIOUS
<1>3. \A n \in 0..(M - 1) : n % M = n
  OBVIOUS
<1>4. QED
  BY <1>1, <1>2, <1>3 DEF Words, Wrap

\* The arithmetic that addresses need.
LEMMA Distributes ==
  ASSUME NEW a \in Int, NEW b \in Int, NEW c \in Int
  PROVE  a * (b + c) = a * b + a * c
OBVIOUS

\* One word further, wherever the address wraps.
LEMMA WrapAdds ==
  ASSUME NEW n \in Nat, NEW k \in Nat
  PROVE  Wrap(Wrap(n) + k) = Wrap(n + k)
<1>1. PICK M \in Nat \ {0} : M = 2^WIDTH
  BY WordSize
<1>2. PICK q \in Nat, r \in 0..(M - 1) : q = n \div M /\ r = n % M
  <2>1. n \div M \in Nat /\ n % M \in 0..(M - 1)
    OBVIOUS
  <2>2. QED
    BY <2>1
<1>3. n = M * q + r
  BY <1>2
<1>4. PICK p \in Nat, t \in 0..(M - 1) : p = (r + k) \div M /\ t = (r + k) % M
  <2>1. r + k \in Nat
    BY <1>2
  <2>2. (r + k) \div M \in Nat /\ (r + k) % M \in 0..(M - 1)
    BY <2>1
  <2>3. QED
    BY <2>2
<1>5. r + k = M * p + t
  BY <1>2, <1>4
<1>6. n + k = M * (q + p) + t
  <2>1. PICK a \in Nat, b \in Nat : a = M * q /\ b = M * p
    BY <1>2, <1>4
  <2>2. M * (q + p) = M * q + M * p
    <3>1. M \in Int /\ q \in Int /\ p \in Int
      BY <1>2, <1>4
    <3>2. QED
      BY <3>1, Distributes
  <2>3. n + k = (a + b) + t
    <3>1. n = a + r /\ r + k = b + t /\ r \in Nat /\ t \in Nat
      BY <1>2, <1>3, <1>4, <1>5, <2>1
    <3>2. QED
      BY <3>1
  <2>4. QED
    BY <2>1, <2>2, <2>3
<1>7. (M * (q + p) + t) % M = t
  <2>1. PICK s \in Int : s = q + p
    BY <1>2, <1>4
  <2>2. (M * s + t) % M = t
    OBVIOUS
  <2>3. QED
    BY <2>1, <2>2
<1>8. QED
  BY <1>1, <1>2, <1>4, <1>6, <1>7 DEF Wrap

\* Room for one hexadecimal digit more.
LEMMA NibbleFits ==
  ASSUME NEW val \in Words, NEW c \in HexChars
  PROVE  Nibble[c] \in 0..15 /\ Wrap(16 * val) + Nibble[c] \in Words
<1>1. Nibble[c] \in 0..15
  <2>1. CASE c \in ToSet(lower)
    <3>1. \E i \in 1..6 : lower[i] = c
      BY <2>1 DEF ToSet, lower
    <3>2. PICK i \in 1..6 : i = CHOOSE k \in 1..6 : lower[k] = c
      BY <3>1
    <3>3. Nibble[c] = 9 + i
      BY <2>1, <3>2 DEF Nibble
    <3>4. QED
      BY <3>3
  <2>2. CASE c \notin ToSet(lower)
    <3>1. \E i \in 1..16 : hextab[i] = c
      BY <2>2 DEF HexChars, ToSet, hextab
    <3>2. PICK i \in 1..16 : i = CHOOSE k \in 1..16 : hextab[k] = c
      BY <3>1
    <3>3. Nibble[c] = i - 1
      BY <2>2, <3>2 DEF Nibble
    <3>4. QED
      BY <3>3
  <2>3. QED
    BY <2>1, <2>2
<1>2. PICK M \in Nat \ {0} : M = 2^WIDTH /\ M % 16 = 0
  BY WordSize
<1>3. PICK m \in Nat \ {0} : M = 16 * m
  <2>1. M \div 16 \in Nat /\ M = 16 * (M \div 16)
    BY <1>2
  <2>2. QED
    BY <2>1
<1>4. val \in Nat
  BY WordFacts
<1>5. PICK q \in Nat, r \in 0..(m - 1) : val = m * q + r
  <2>1. val \div m \in Nat /\ val % m \in 0..(m - 1) /\ val = m * (val \div m) + (val % m)
    BY <1>3, <1>4
  <2>2. QED
    BY <2>1
<1>6. 16 * val = M * q + 16 * r
  BY <1>3, <1>5
<1>7. 16 * r \in 0..(M - 16)
  BY <1>3
<1>8. (16 * val) % M = 16 * r
  <2>1. PICK t \in 0..(M - 1) : t = 16 * r
    BY <1>7
  <2>2. (M * q + t) % M = t
    OBVIOUS
  <2>3. QED
    BY <1>6, <2>1, <2>2
<1>9. Wrap(16 * val) = 16 * r
  BY <1>2, <1>8 DEF Wrap
<1>10. 16 * r + Nibble[c] \in 0..(M - 1)
  BY <1>1, <1>7
<1>11. QED
  BY <1>1, <1>2, <1>9, <1>10 DEF Words

\* What a parser returns.
Parsed == Words \cup {Invalid}

\* One step of dec_to_uint32.
LEMMA DecDigitParsed ==
  ASSUME NEW val \in Parsed, NEW c
  PROVE  DecDigit(val, c) \in Parsed
<1>1. CASE val # Invalid /\ c \in Decimals
  <2>1. val \in Words
    BY <1>1 DEF Parsed
  <2>2. c \in HexChars
    <3>1. PICK i \in 1..10 : c = hextab[i]
      BY <1>1 DEF Decimals
    <3>2. i \in 1..16 /\ DOMAIN hextab = 1..16
      BY DEF hextab
    <3>3. QED
      BY <3>1, <3>2 DEF HexChars, ToSet
  <2>3. 10 * val + Nibble[c] \in Nat
    <3>1. val \in Nat /\ Nibble[c] \in Nat
      BY <2>1, <2>2, NibbleFits, WordFacts
    <3>2. QED
      BY <3>1
  <2>4. Wrap(10 * val + Nibble[c]) \in Words
    BY <2>3, WordFacts
  <2>5. QED
    BY <2>4 DEF DecDigit, Parsed
<1>2. CASE val = Invalid \/ c \notin Decimals
  BY <1>2 DEF DecDigit, Parsed
<1>3. QED
  BY <1>1, <1>2

\* The fold of hex_to_uint32, one value after another.
HexOf(s) == FoldLeft(LAMBDA val, c : Wrap(16 * val) + Nibble[c], 0, s)

\* Its values.
LEMMA HexFold ==
  ASSUME NEW C, NEW s \in Seq(C), ToSet(s) \subseteq HexChars
  PROVE  \E v \in [0..Len(s) -> Words] :
           /\ v[0] = 0 /\ \A n \in 1..Len(s) : v[n] = Wrap(16 * v[n - 1]) + Nibble[s[n]]
           /\ HexOf(s) = v[Len(s)]
<1> DEFINE N == Len(s)
           Solves(g) == g = [d \in SUBSET (DOMAIN s) |-> IF d = {} THEN 0
                              ELSE Wrap(16 * g[d \ {Max(d)}]) + Nibble[s[Max(d)]]]
           iter == CHOOSE g : Solves(g)
           h == [m \in 1..N |-> [x \in Words |-> Wrap(16 * x) + Nibble[s[m]]]]
<1>1. N \in Nat /\ DOMAIN s = 1..N /\ \A m \in 1..N : s[m] \in HexChars
  BY LenProperties DEF ToSet
<1>2. HexOf(s) = iter[1..N]
  BY <1>1 DEF HexOf, FoldLeft, MapThenFoldSet
<1>3. h \in [1..N -> [Words -> Words]] /\ 0 \in Words
  BY <1>1, NibbleFits, WordFacts
<1>4. PICK g : g = [d \in SUBSET (1..N) |-> g[d]] /\ FoldOf(Words, 0, h, N, g)
  <2> HIDE DEF h, N
  <2>1. QED
    BY <1>1, <1>3, FoldExists
<1>5. \A d \in SUBSET (1..N) : d # {} => g[d] = Wrap(16 * g[d \ {Max(d)}]) + Nibble[s[Max(d)]]
  <2> SUFFICES ASSUME NEW d \in SUBSET (1..N), d # {}
               PROVE  g[d] = Wrap(16 * g[d \ {Max(d)}]) + Nibble[s[Max(d)]]
    OBVIOUS
  <2> HIDE DEF N
  <2>1. Max(d) \in 1..N /\ d \ {Max(d)} \in SUBSET (1..N)
    BY <1>1, MaxIsElement
  <2>2. g[d \ {Max(d)}] \in Words /\ g[d] = h[Max(d)][g[d \ {Max(d)}]]
    BY <1>4, <2>1 DEF FoldOf
  <2>3. \A m \in 1..N, x \in Words : h[m][x] = Wrap(16 * x) + Nibble[s[m]]
    OBVIOUS
  <2> HIDE DEF h
  <2>4. QED
    BY <2>1, <2>2, <2>3
<1>6. Solves(g)
  <2> HIDE DEF N, h
  <2>1. g[{}] = 0
    BY <1>4 DEF FoldOf
  <2>2. QED
    BY <1>1, <1>4, <1>5, <2>1
<1>7. Solves(iter)
  <2> HIDE DEF Solves
  <2>1. QED
    BY <1>6
<1>8. FoldsFrom(Words, 0, N, h, iter)
  <2> HIDE DEF N, iter
  <2>1. /\ iter[{}] = 0
        /\ \A d \in SUBSET (1..N) : d # {} => iter[d] = Wrap(16 * iter[d \ {Max(d)}]) + Nibble[s[Max(d)]]
    BY <1>1, <1>7
  <2>2. \A m \in 1..N, x \in Words : h[m][x] = Wrap(16 * x) + Nibble[s[m]]
    OBVIOUS
  <2> HIDE DEF h
  <2>3. ASSUME NEW d \in SUBSET (1..N), d # {}, iter[d \ {Max(d)}] \in Words
        PROVE  iter[d] = h[Max(d)][iter[d \ {Max(d)}]]
    <3>1. Max(d) \in 1..N
      BY <1>1, <2>3, MaxIsElement
    <3>2. QED
      BY <2>1, <2>2, <2>3, <3>1
  <2>4. QED
    BY <2>1, <2>3 DEF FoldsFrom
<1>9. \A m \in 1..N, x \in Words : h[m][x] = Wrap(16 * x) + Nibble[s[m]]
  OBVIOUS
<1> HIDE DEF iter, h, Solves, N
<1>10. PICK v : RunOf(Words, 0, N, h, v) /\ v[N] = iter[1..N]
  BY <1>1, <1>3, <1>8, FoldRuns
<1>11. \A n \in 1..N : v[n - 1] \in Words
  BY <1>1, <1>10 DEF RunOf
<1>12. QED
  BY <1>2, <1>9, <1>10, <1>11 DEF N, RunOf

\* The fold of dec_to_uint32, one value after another.
DecOf(s) == FoldLeft(DecDigit, 0, s)

\* Its values.
LEMMA DecFold ==
  ASSUME NEW C, NEW s \in Seq(C)
  PROVE  \E v \in [0..Len(s) -> Parsed] :
           /\ v[0] = 0 /\ \A n \in 1..Len(s) : v[n] = DecDigit(v[n - 1], s[n])
           /\ DecOf(s) = v[Len(s)]
<1> DEFINE N == Len(s)
           Solves(g) == g = [d \in SUBSET (DOMAIN s) |-> IF d = {} THEN 0
                              ELSE DecDigit(g[d \ {Max(d)}], s[Max(d)])]
           iter == CHOOSE g : Solves(g)
           h == [m \in 1..N |-> [x \in Parsed |-> DecDigit(x, s[m])]]
<1>1. N \in Nat /\ DOMAIN s = 1..N
  BY LenProperties
<1>2. DecOf(s) = iter[1..N]
  BY <1>1 DEF DecOf, FoldLeft, MapThenFoldSet
<1>3. h \in [1..N -> [Parsed -> Parsed]] /\ 0 \in Parsed
  BY DecDigitParsed, WordFacts DEF Parsed
<1>4. PICK g : g = [d \in SUBSET (1..N) |-> g[d]] /\ FoldOf(Parsed, 0, h, N, g)
  <2> HIDE DEF h, N
  <2>1. QED
    BY <1>1, <1>3, FoldExists
<1>5. \A d \in SUBSET (1..N) : d # {} => g[d] = DecDigit(g[d \ {Max(d)}], s[Max(d)])
  <2> SUFFICES ASSUME NEW d \in SUBSET (1..N), d # {}
               PROVE  g[d] = DecDigit(g[d \ {Max(d)}], s[Max(d)])
    OBVIOUS
  <2> HIDE DEF N
  <2>1. Max(d) \in 1..N /\ d \ {Max(d)} \in SUBSET (1..N)
    BY <1>1, MaxIsElement
  <2>2. g[d \ {Max(d)}] \in Parsed /\ g[d] = h[Max(d)][g[d \ {Max(d)}]]
    BY <1>4, <2>1 DEF FoldOf
  <2>3. \A m \in 1..N, x \in Parsed : h[m][x] = DecDigit(x, s[m])
    OBVIOUS
  <2> HIDE DEF h
  <2>4. QED
    BY <2>1, <2>2, <2>3
<1>6. Solves(g)
  <2> HIDE DEF N, h
  <2>1. g[{}] = 0
    BY <1>4 DEF FoldOf
  <2>2. QED
    BY <1>1, <1>4, <1>5, <2>1
<1>7. Solves(iter)
  <2> HIDE DEF Solves
  <2>1. QED
    BY <1>6
<1>8. FoldsFrom(Parsed, 0, N, h, iter)
  <2> HIDE DEF N, iter
  <2>1. /\ iter[{}] = 0
        /\ \A d \in SUBSET (1..N) : d # {} => iter[d] = DecDigit(iter[d \ {Max(d)}], s[Max(d)])
    BY <1>1, <1>7
  <2>2. \A m \in 1..N, x \in Parsed : h[m][x] = DecDigit(x, s[m])
    OBVIOUS
  <2> HIDE DEF h
  <2>3. ASSUME NEW d \in SUBSET (1..N), d # {}, iter[d \ {Max(d)}] \in Parsed
        PROVE  iter[d] = h[Max(d)][iter[d \ {Max(d)}]]
    <3>1. Max(d) \in 1..N
      BY <1>1, <2>3, MaxIsElement
    <3>2. QED
      BY <2>1, <2>2, <2>3, <3>1
  <2>4. QED
    BY <2>1, <2>3 DEF FoldsFrom
<1>9. \A m \in 1..N, x \in Parsed : h[m][x] = DecDigit(x, s[m])
  OBVIOUS
<1> HIDE DEF iter, h, Solves, N
<1>10. PICK v : RunOf(Parsed, 0, N, h, v) /\ v[N] = iter[1..N]
  BY <1>1, <1>3, <1>8, FoldRuns
<1>11. \A n \in 1..N : v[n - 1] \in Parsed
  BY <1>1, <1>10 DEF RunOf
<1>12. QED
  BY <1>2, <1>9, <1>10, <1>11 DEF N, RunOf

\* hex_to_uint32 gives a word or fails, whatever the text.
LEMMA HexIsParsed ==
  ASSUME NEW s \in Seq(STRING)
  PROVE  hex_to_uint32(s) \in Parsed
<1> DEFINE prefixed == Len(s) >= 2 /\ s[1] = "0" /\ s[2] \in {"x", "X"}
           body == IF prefixed THEN SubSeq(s, 3, Len(s)) ELSE s
<1>1. body \in Seq(STRING)
  <2>1. Len(s) \in Nat /\ \A i \in 3..Len(s) : s[i] \in STRING
    BY LenProperties, ElementOfSeq
  <2>2. SubSeq(s, 3, Len(s)) \in Seq(STRING)
    BY <2>1, SubSeqProperties
  <2>3. QED
    BY <2>2
<1>2. hex_to_uint32(s) = IF Len(body) \in 1..HexLen /\ ToSet(body) \subseteq HexChars
                         THEN HexOf(body) ELSE Invalid
  BY DEF hex_to_uint32, HexOf
<1> HIDE DEF body
<1>3. CASE ToSet(body) \subseteq HexChars
  <2>1. PICK N \in Nat : N = Len(body) /\ N \in 0..Len(body)
    BY <1>1, LenProperties
  <2>2. HexOf(body) \in Words
    BY <1>1, <1>3, <2>1, HexFold
  <2>3. QED
    BY <1>2, <2>2 DEF Parsed
<1>4. QED
  BY <1>2, <1>3 DEF Parsed

\* dec_to_uint32 gives a word or fails, whatever the text.
LEMMA DecIsParsed ==
  ASSUME NEW s \in Seq(STRING)
  PROVE  dec_to_uint32(s) \in Parsed
<1>1. PICK N \in Nat : N = Len(s) /\ N \in 0..Len(s)
  BY LenProperties
<1>2. DecOf(s) \in Parsed
  BY <1>1, DecFold
<1>3. dec_to_uint32(s) = IF s = <<>> THEN Invalid ELSE DecOf(s)
  BY DEF dec_to_uint32, DecOf
<1>4. QED
  BY <1>2, <1>3 DEF Parsed

\* The numbers of a command line.
LEMMA TokensAreParsed ==
  ASSUME NEW token
  PROVE  Hex(token) \in Parsed /\ Dec(token) \in Parsed
<1>1. CASE token \in DOMAIN Spell
  <2>1. Spell[token] \in Seq(STRING)
    BY <1>1, ShellAssumption
  <2>2. PICK s \in Seq(STRING) : s = Spell[token]
    BY <2>1
  <2>3. hex_to_uint32(s) \in Parsed /\ dec_to_uint32(s) \in Parsed
    BY HexIsParsed, DecIsParsed
  <2>4. Hex(token) = hex_to_uint32(s) /\ Dec(token) = dec_to_uint32(s)
    BY <1>1, <2>2 DEF Hex, Dec, HexValue, DecValue
  <2>5. QED
    BY <2>3, <2>4
<1>2. CASE token \notin DOMAIN Spell
  BY <1>2 DEF Hex, Dec, Parsed
<1>3. QED
  BY <1>1, <1>2
-----------------------------------------------------------------------------
\* The types of the memory, of what is shown and of the loader; a command that runs on
\* has not the message of a load that has ended.
Ended == {"loaded", "aborted"}
ShellInv ==
  /\ DOMAIN mem \subseteq Nat /\ mem \in [DOMAIN mem -> Words]
  /\ todo \in Seq(Nat) /\ shown \in Seq([a : Nat, v : Words])
  /\ typed \in Seq(LoadLines)
  /\ loader \in [addr : Words, cur : Words, count : Nat]
  /\ mode \in {"show", "uptime", "jumped"} => said \notin Ended
  /\ UptimeTypeOK

\* What a line at the prompt leads to: a message, registers or words to show, a
\* word written and shown, a register written, a load, the jump or the time.
Answers == \E message \in {"text", "usage", "error", "prompt", "unknown"} : Says(message) /\ mem' = mem
ShowsRegisters(l) ==
  /\ mem' = mem
  /\ \E registers \in {RtosRegisters, SubSeq(UartRegisters, 3, 5), <<GPIO_IN>>, GpioRegisters},
        message \in {"rtos", "uart", "gpio"} : Shows(registers, message, l)
ShowsWindow(l) ==
  \E a \in Words, n \in Words :
    /\ a = Hex(l[2]) /\ mem' = mem /\ Shows(Window(Align(a), Clamped(n)), "peek", l)
Pokes(l) ==
  \E a \in Words, val \in Words :
    a = Hex(l[2]) /\ val = Hex(l[3]) /\ Writes(Align(a), val) /\ Shows(<<Align(a)>>, "poke", l)
SetsGpio == \E a \in {GPIO_OUT, GPIO_DIR}, val \in Words : Writes(a, val) /\ Says("gpio")
Leaves == /\ UNCHANGED <<mem, line, todo, shown>>
          /\ mode' \in {"jumped", "uptime"} /\ said' \in {"jump", "uptime"}
StartsLoad ==
  /\ UNCHANGED <<mem, line, todo, shown>> /\ mode' = "load" /\ said' = "loading"
  /\ \E a \in Words : loader' = [addr |-> Align(a), cur |-> Align(a), count |-> 0]
  /\ typed' = <<>> /\ before' = mem

\* Addresses are aligned downwards.
LEMMA AlignFacts ==
  ASSUME NEW a \in Words
  PROVE  Align(a) \in Words /\ Align(a) \in Nat /\ a - Align(a) \in 0..3 /\ Wrap(Align(a)) = Align(a)
<1>1. PICK M \in Nat \ {0} : M = 2^WIDTH
  BY WordSize
<1>2. PICK n \in 0..(M - 1) : n = a
  BY <1>1 DEF Words
<1>3. PICK r \in 0..3 : r = n % 4 /\ r <= n
  <2>1. n \in Nat
    OBVIOUS
  <2>2. n % 4 \in 0..3 /\ n % 4 <= n
    BY <2>1
  <2>3. QED
    BY <2>2
<1>4. n - r \in 0..(M - 1) /\ n - (n - r) \in 0..3
  BY <1>3
<1>5. Align(a) \in Words /\ a - Align(a) \in 0..3
  BY <1>1, <1>2, <1>3, <1>4 DEF Align, Words
<1>6. QED
  BY <1>5, WordFacts

\* The cases of dispatch_command.
LEMMA CommandCases ==
  ASSUME NEW l, Command(l)
  PROVE  /\ mode = "prompt"
         /\ \/ NotLoading /\ (Answers \/ ShowsRegisters(l) \/ ShowsWindow(l) \/ Pokes(l) \/ SetsGpio \/ Leaves)
            \/ StartsLoad
<1> USE DEF Parsed
<1>1. mode = "prompt"
  BY DEF Command
<1>2. CASE l \in {<<>>, Cancel}
  BY <1>1, <1>2 DEF Command, Answers
<1>3. CASE dispatch_command(l)
  <2>1. CASE cmd_load(l)
    <3>1. CASE Target(l) = Invalid
      BY <1>1, <2>1, <3>1 DEF cmd_load, Answers
    <3>2. CASE Target(l) # Invalid
      <4>1. Target(l) \in Words
        <5>1. IMEM_BASE \in Words
          BY ShellAssumption
        <5>2. Hex(l[2]) \in Parsed
          BY TokensAreParsed
        <5>3. QED
          BY <3>2, <5>1, <5>2 DEF Target
      <4>2. QED
        BY <1>1, <2>1, <3>2, <4>1 DEF cmd_load, StartsLoad
    <3>3. QED
      BY <3>1, <3>2
  <2>2. CASE cmd_help(l) /\ NotLoading
    BY <1>1, <2>2 DEF cmd_help, Answers
  <2>3. CASE cmd_peek(l) /\ NotLoading
    <3>1. CASE Invalid \in {Hex(l[2]), PeekCount(l)} \/ Len(l) < 2
      BY <1>1, <2>3, <3>1 DEF cmd_peek, Answers
    <3>2. CASE Invalid \notin {Hex(l[2]), PeekCount(l)} /\ ~(Len(l) < 2)
      <4>1. Hex(l[2]) \in Words
        BY <3>2, TokensAreParsed
      <4>2. PeekCount(l) \in Words
        <5>1. Dec(l[3]) \in Parsed /\ Hex(l[3]) \in Parsed
          BY TokensAreParsed
        <5>2. 1 \in Words
          <6>1. PICK M \in Nat \ {0} : M = 2^WIDTH /\ M % 16 = 0
            BY WordSize
          <6>2. 1 \in 0..(M - 1)
            BY <6>1
          <6>3. QED
            BY <6>1, <6>2 DEF Words
        <5>3. PeekCount(l) \in Parsed
          BY <5>1, <5>2 DEF PeekCount
        <5>4. QED
          BY <3>2, <5>3
      <4>3. ShowsWindow(l)
        BY <2>3, <3>2, <4>1, <4>2 DEF cmd_peek, ShowsWindow
      <4>4. QED
        BY <1>1, <2>3, <4>3
    <3>3. QED
      BY <3>1, <3>2
  <2>4. CASE cmd_poke(l) /\ NotLoading
    <3>1. CASE Invalid \in {Hex(l[2]), Hex(l[3])} \/ Len(l) < 3
      BY <1>1, <2>4, <3>1 DEF cmd_poke, Answers
    <3>2. CASE Invalid \notin {Hex(l[2]), Hex(l[3])} /\ ~(Len(l) < 3)
      <4>1. Hex(l[2]) \in Words /\ Hex(l[3]) \in Words
        BY <3>2, TokensAreParsed
      <4>2. Pokes(l)
        BY <2>4, <3>2, <4>1 DEF cmd_poke, Pokes
      <4>3. QED
        BY <1>1, <2>4, <4>2
    <3>3. QED
      BY <3>1, <3>2
  <2>5. CASE cmd_go(l) /\ NotLoading
    BY <1>1, <2>5 DEF cmd_go, Answers, Leaves
  <2>6. CASE cmd_rtos(l) /\ NotLoading
    BY <1>1, <2>6 DEF cmd_rtos, ShowsRegisters
  <2>7. CASE cmd_uart(l) /\ NotLoading
    BY <1>1, <2>7 DEF cmd_uart, ShowsRegisters
  <2>8. CASE cmd_gpio(l) /\ NotLoading
    <3>1. ASSUME NEW name, NEW register \in {GPIO_OUT, GPIO_DIR}, GpioSet(l, name, register)
          PROVE  Answers \/ SetsGpio
      <4>1. CASE Hex(l[3]) = Invalid
        BY <3>1, <4>1 DEF GpioSet, Answers
      <4>2. CASE Hex(l[3]) # Invalid
        <5>1. Hex(l[3]) \in Words
          BY <4>2, TokensAreParsed
        <5>2. QED
          BY <3>1, <4>2, <5>1 DEF GpioSet, SetsGpio
      <4>3. QED
        BY <4>1, <4>2
    <3>2. \/ Shows(<<GPIO_IN>>, "gpio", l) /\ mem' = mem
          \/ Shows(GpioRegisters, "gpio", l) /\ mem' = mem
          \/ GpioSet(l, "write", GPIO_OUT) \/ GpioSet(l, "dir", GPIO_DIR)
      BY <2>8 DEF cmd_gpio
    <3>3. (Shows(<<GPIO_IN>>, "gpio", l) \/ Shows(GpioRegisters, "gpio", l)) /\ mem' = mem => ShowsRegisters(l)
      BY DEF ShowsRegisters
    <3>4. QED
      BY <1>1, <2>8, <3>1, <3>2, <3>3
  <2>9. CASE Says("unknown") /\ mem' = mem /\ NotLoading
    BY <1>1, <2>9 DEF Answers
  <2>10. CASE mode' = "uptime" /\ said' = "uptime" /\ UNCHANGED <<line, mem, todo, shown>> /\ NotLoading
    BY <1>1, <2>10 DEF Leaves
  <2>11. QED
    BY <1>3, <2>1, <2>2, <2>3, <2>4, <2>5, <2>6, <2>7, <2>8, <2>9, <2>10 DEF dispatch_command
<1>4. QED
  BY <1>2, <1>3 DEF Command

\* A write keeps the memory one of words.
LEMMA WrittenType ==
  ASSUME NEW m, DOMAIN m \subseteq Nat, m \in [DOMAIN m -> Words], NEW a \in Nat, NEW val \in Words
  PROVE  /\ DOMAIN Written(m, a, val) \subseteq Nat
         /\ Written(m, a, val) \in [DOMAIN Written(m, a, val) -> Words]
<1>1. CASE a \in Volatile \cup Counter
  BY <1>1 DEF Written
<1>2. CASE a \notin Volatile \cup Counter
  <2> DEFINE new == [b \in DOMAIN m \cup {a} |-> IF b = a THEN val ELSE m[b]]
  <2>1. Written(m, a, val) = new
    BY <1>2 DEF Written
  <2>2. DOMAIN new \subseteq Nat /\ new \in [DOMAIN new -> Words]
    OBVIOUS
  <2>3. QED
    BY <2>1, <2>2
<1>3. QED
  BY <1>1, <1>2

\* A function on 1..n is a sequence.
LEMMA FunctionIsSeq ==
  ASSUME NEW S, NEW n \in Nat, NEW f \in [1..n -> S]
  PROVE  f \in Seq(S) /\ Len(f) = n
<1>1. f \in Seq(S)
  BY SeqDef
<1>2. DOMAIN f = 1..Len(f) /\ Len(f) \in Nat /\ DOMAIN f = 1..n
  BY <1>1, LenProperties
<1>3. QED
  BY <1>1, <1>2

\* The bases and registers are addresses, and so is what is shown.
LEMMA RegistersAreAddresses ==
  /\ GPIO_OUT \in Nat /\ GPIO_DIR \in Nat /\ GPIO_IN \in Nat
  /\ RtosRegisters \in Seq(Nat) /\ SubSeq(UartRegisters, 3, 5) \in Seq(Nat)
  /\ <<GPIO_IN>> \in Seq(Nat) /\ GpioRegisters \in Seq(Nat)
<1>1. UART_BASE \in Nat /\ GPIO_BASE \in Nat /\ RTOS_BASE \in Nat
  BY ShellAssumption, WordFacts
<1>2. GPIO_OUT \in Nat /\ GPIO_DIR \in Nat /\ GPIO_IN \in Nat
  BY <1>1 DEF GPIO_OUT, GPIO_DIR, GPIO_IN
<1>3. ASSUME NEW base \in Nat, NEW n \in Nat
      PROVE  Block(base, n) \in Seq(Nat) /\ Len(Block(base, n)) = n
  <2>1. Block(base, n) \in [1..n -> Nat]
    BY DEF Block
  <2>2. QED
    BY <2>1, FunctionIsSeq
<1>4. /\ UartRegisters \in Seq(Nat) /\ Len(UartRegisters) = 5 /\ RtosRegisters \in Seq(Nat)
      /\ GpioRegisters \in Seq(Nat)
  BY <1>1, <1>3 DEF UartRegisters, RtosRegisters, GpioRegisters
<1>5. SubSeq(UartRegisters, 3, 5) \in Seq(Nat)
  <2>1. PICK registers \in Seq(Nat) : registers = UartRegisters /\ Len(registers) = 5
    BY <1>4
  <2>2. \A i \in 3..5 : i \in 1..Len(registers)
    BY <2>1
  <2>3. \A i \in 3..5 : registers[i] \in Nat
    BY <2>2, ElementOfSeq
  <2>4. SubSeq(registers, 3, 5) \in Seq(Nat)
    BY <2>3, SubSeqProperties
  <2>5. QED
    BY <2>1, <2>4
<1>6. QED
  BY <1>2, <1>4, <1>5

\* A peek shows one word at least and PEEK_MAX_WORDS at most.
LEMMA ClampedFacts ==
  ASSUME NEW n \in Words
  PROVE  Clamped(n) \in 1..PEEK_MAX_WORDS
<1>1. n \in Nat /\ PEEK_MAX_WORDS \in Nat \ {0}
  BY ShellAssumption, WordFacts
<1>2. QED
  BY <1>1 DEF Clamped

\* A window is its words in order, from its address on.
LEMMA WindowFacts ==
  ASSUME NEW a \in Words, NEW n \in Nat \ {0}
  PROVE  /\ Window(a, n) \in Seq(Nat) /\ Len(Window(a, n)) = n /\ Window(a, n)[1] = a
         /\ \A i \in 1..(n - 1) : Window(a, n)[i + 1] = Wrap(Window(a, n)[i] + 4)
<1>1. a \in Nat /\ Wrap(a) = a
  BY WordFacts
<1>2. \A i \in 1..n : a + 4 * (i - 1) \in Nat
  BY <1>1
<1>3. \A i \in 1..n : Wrap(a + 4 * (i - 1)) \in Nat
  BY <1>2, WordFacts
<1>4. Window(a, n) \in [1..n -> Nat]
  BY <1>3 DEF Window
<1>5. Window(a, n) \in Seq(Nat) /\ Len(Window(a, n)) = n
  BY <1>4, FunctionIsSeq
<1>7. Window(a, n)[1] = a
  <2>1. 1 \in 1..n /\ a + 4 * (1 - 1) = a
    BY <1>1
  <2>2. QED
    BY <1>1, <2>1 DEF Window
<1>8. ASSUME NEW i \in 1..(n - 1) PROVE Window(a, n)[i + 1] = Wrap(Window(a, n)[i] + 4)
  <2>1. i \in 1..n /\ i + 1 \in 1..n /\ i + 1 - 1 = i /\ i \in Nat
    OBVIOUS
  <2>2. PICK b \in Nat : b = a + 4 * (i - 1) /\ a + 4 * i = b + 4
    BY <1>1, <2>1
  <2>3. Window(a, n)[i] = Wrap(b) /\ Window(a, n)[i + 1] = Wrap(b + 4)
    BY <2>1, <2>2 DEF Window
  <2>4. QED
    BY <2>3, WrapAdds
<1>9. QED
  BY <1>5, <1>7, <1>8

\* What a register read gives is a word.
LEMMA ReadsAreWords ==
  ASSUME ShellInv, NEW a, NEW val \in REG32(a)
  PROVE  val \in Words
<1>1. CASE a \in Volatile
  <2>1. REG32(a) = DeviceValues
    BY <1>1 DEF REG32
  <2>2. DeviceValues \subseteq Words
    BY Zenon, ShellAssumption
  <2>3. QED
    BY <2>1, <2>2
<1>2. CASE a \notin Volatile /\ a \in Counter
  <2>1. val = mtime.lo \/ val = mtime.hi
    BY <1>2 DEF REG32
  <2>2. mtime.lo \in 0..(HALF - 1) /\ mtime.hi \in 0..MAX_HI
    BY DEF ShellInv, UptimeTypeOK, Times, Halves
  <2>3. PICK M \in Nat \ {0} : M = 2^WIDTH
    BY WordSize
  <2>4. HALF \in Nat /\ HALF <= M /\ MAX_HI \in 0..(M - 1)
    BY <2>3, ShellAssumption, UptimeAssumption DEF Words
  <2>5. val \in 0..(M - 1)
    BY <2>1, <2>2, <2>4
  <2>6. QED
    BY <2>3, <2>5 DEF Words
<1>3. CASE a \notin Volatile \cup Counter
  <2>1. val = Stored(mem, a)
    BY <1>3 DEF REG32
  <2>2. QED
    BY <2>1, WordFacts DEF Stored, ShellInv
<1>4. QED
  BY <1>1, <1>2, <1>3

\* The program starts with nothing written, loaded or shown.
LEMMA ShellInitInv == Init => ShellInv
<1> SUFFICES ASSUME Init PROVE ShellInv
  OBVIOUS
<1>1. mem = <<>> /\ typed = <<>> /\ todo = <<>> /\ shown = <<>> /\ loader = NoLoad /\ mode = "prompt" /\ UptimeInit
  BY DEF Init
<1>2. DOMAIN mem = {} /\ mem \in [DOMAIN mem -> Words]
  BY <1>1
<1>3. UptimeTypeOK
  BY <1>1, UptimeAssumption DEF UptimeInit, UptimeTypeOK, Times, Halves, Positions
<1>4. loader \in [addr : Words, cur : Words, count : Nat]
  BY <1>1, WordFacts DEF NoLoad
<1>5. todo \in Seq(Nat) /\ shown \in Seq([a : Nat, v : Words]) /\ typed \in Seq(LoadLines)
  BY <1>1
<1>6. QED
  BY <1>1, <1>2, <1>3, <1>4, <1>5 DEF ShellInv

\* The numbers of a load.
LEMMA LoadIsParsed ==
  ASSUME NEW l \in LoadLines
  PROVE  LoadHex(l) \in Parsed
<1>1. PICK s \in Seq(STRING) : s = l
  BY ShellAssumption
<1>2. hex_to_uint32(s) \in Parsed
  BY HexIsParsed
<1>3. QED
  BY <1>1, <1>2 DEF LoadHex, LoadValue

\* A comment of a load is no numeral.
LEMMA CommentIsNoNumeral ==
  ASSUME NEW l \in LoadLines, Starts(l, {"#", "@"})
  PROVE  LoadHex(l) = Invalid
<1>1. l # <<>> /\ l[1] \in {"#", "@"}
  BY DEF Starts
<1>2. PICK s \in Seq(STRING) : s = l /\ s # <<>>
  BY <1>1, ShellAssumption
<1>3. s[1] \in ToSet(s) /\ s[1] \in {"#", "@"}
  <2>1. Len(s) \in Nat /\ Len(s) # 0
    BY <1>2, EmptySeq, LenProperties
  <2>2. 1 \in 1..Len(s)
    BY <2>1
  <2>3. 1 \in DOMAIN s
    BY <2>2, LenProperties
  <2>4. QED
    BY <1>1, <1>2, <2>3 DEF ToSet
<1>4. s[1] \notin HexChars
  <2>1. \A i \in 1..16 : hextab[i] # "#" /\ hextab[i] # "@"
    BY DEF hextab
  <2>2. \A i \in 1..6 : lower[i] # "#" /\ lower[i] # "@"
    BY DEF lower
  <2>3. DOMAIN hextab = 1..16 /\ DOMAIN lower = 1..6
    BY DEF hextab, lower
  <2>4. QED
    BY <1>3, <2>1, <2>2, <2>3 DEF HexChars, ToSet
<1>5. hex_to_uint32(s) = Invalid
  <2>1. s[1] # "0"
    BY <1>3
  <2>2. ~(ToSet(s) \subseteq HexChars)
    BY <1>3, <1>4
  <2>3. QED
    BY <2>1, <2>2 DEF hex_to_uint32
<1>6. QED
  BY <1>2, <1>5 DEF LoadHex, LoadValue

\* What a line of a load leads to: its end, a line passed over, or a word.
EndsLoad == /\ mode' = "prompt" /\ said' \in Ended /\ todo' = <<>> /\ shown' = <<>>
            /\ UNCHANGED <<mem, loader, typed, before>>
Passes(l) == /\ LoadHex(l) = Invalid /\ typed' = Append(typed, l)
             /\ UNCHANGED <<mode, line, todo, shown, before, mem, loader>>
Loads(l) == /\ LoadHex(l) \in Words /\ typed' = Append(typed, l)
            /\ UNCHANGED <<mode, line, todo, shown, before, said>> /\ Writes(loader.cur, LoadHex(l))
            /\ loader' = [loader EXCEPT !.cur = Wrap(loader.cur + 4), !.count = loader.count + 1]

\* The cases of the loop of cmd_load.
LEMMA LoadCases ==
  ASSUME NEW l \in LoadLines \cup {Cancel}, LoadLine(l)
  PROVE  /\ mode = "load"
         /\ EndsLoad \/ (l \in LoadLines /\ (Passes(l) \/ Loads(l)))
<1>1. mode = "load"
  BY DEF LoadLine
<1>2. CASE LoadEnds(l)
  BY <1>1, <1>2 DEF LoadEnds, EndsLoad, Ended, Says
<1>3. CASE LoadSkips(l)
  <2>1. LoadHex(l) = Invalid
    BY <1>3, CommentIsNoNumeral DEF LoadSkips, LoadTakes
  <2>2. l \in LoadLines /\ Passes(l)
    BY <1>3, <2>1 DEF LoadSkips, LoadTakes, Passes
  <2>3. QED
    BY <1>1, <2>2
<1>4. CASE LoadError(l)
  <2>1. l \in LoadLines /\ Passes(l)
    BY <1>4 DEF LoadError, LoadTakes, Passes
  <2>2. QED
    BY <1>1, <2>1
<1>5. CASE LoadWord(l)
  <2>1. LoadHex(l) \in Words
    BY <1>5, LoadIsParsed DEF LoadWord, LoadTakes, Parsed
  <2>2. l \in LoadLines /\ Loads(l)
    BY <1>5, <2>1 DEF LoadWord, LoadTakes, Loads
  <2>3. QED
    BY <1>1, <2>2
<1>6. QED
  BY <1>2, <1>3, <1>4, <1>5 DEF LoadLine

\* Every step keeps the types.
LEMMA ShellNextInv ==
  ASSUME ShellInv, [Next]_vars
  PROVE  ShellInv'
<1>1. UptimeTypeOK'
  BY ShellRunsUptime, TypePreserved DEF ShellInv
<1>2. /\ DOMAIN mem \subseteq Nat /\ mem \in [DOMAIN mem -> Words]
      /\ loader \in [addr : Words, cur : Words, count : Nat] /\ typed \in Seq(LoadLines)
      /\ todo \in Seq(Nat) /\ shown \in Seq([a : Nat, v : Words])
      /\ (mode \in {"show", "uptime", "jumped"} => said \notin Ended)
  BY DEF ShellInv
<1>3. ASSUME NEW a \in Nat, NEW val \in Words, Writes(a, val)
      PROVE  DOMAIN mem' \subseteq Nat /\ mem' \in [DOMAIN mem' -> Words]
  <2>1. PICK m : m = mem
    OBVIOUS
  <2>2. DOMAIN Written(m, a, val) \subseteq Nat /\ Written(m, a, val) \in [DOMAIN Written(m, a, val) -> Words]
    BY <1>2, <2>1, WrittenType
  <2>3. QED
    BY <1>3, <2>1, <2>2 DEF Writes
<1>4. <<>> \in Seq(Nat) /\ <<>> \in Seq([a : Nat, v : Words]) /\ <<>> \in Seq(LoadLines)
  OBVIOUS
<1>5. CASE \E l \in Lines \cup {Cancel} : Command(l)
  <2>1. PICK l : Command(l)
    BY <1>5
  <2>2. CASE NotLoading /\ (Answers \/ ShowsRegisters(l) \/ ShowsWindow(l) \/ Pokes(l) \/ SetsGpio \/ Leaves)
    <3>1. loader' \in [addr : Words, cur : Words, count : Nat] /\ typed' \in Seq(LoadLines)
      BY <1>4, <2>2, WordFacts DEF NotLoading, NoLoad
    <3>2. CASE Answers
      BY <1>1, <1>2, <1>4, <3>1, <3>2 DEF Answers, Says, ShellInv
    <3>3. CASE ShowsRegisters(l)
      <4>1. todo' \in Seq(Nat)
        BY <3>3, RegistersAreAddresses DEF ShowsRegisters, Shows
      <4>2. mem' = mem /\ shown' = <<>> /\ said' \in {"rtos", "uart", "gpio"}
        BY <3>3 DEF ShowsRegisters, Shows
      <4>3. QED
        BY <1>1, <1>2, <1>4, <3>1, <4>1, <4>2 DEF ShellInv, Ended
    <3>4. CASE ShowsWindow(l)
      <4>1. PICK a \in Words, n \in Words : mem' = mem /\ Shows(Window(Align(a), Clamped(n)), "peek", l)
        BY <3>4 DEF ShowsWindow
      <4>2. Align(a) \in Words /\ Clamped(n) \in Nat \ {0}
        <5>1. Clamped(n) \in 1..PEEK_MAX_WORDS
          BY ClampedFacts
        <5>2. QED
          BY <5>1, AlignFacts
      <4>3. Window(Align(a), Clamped(n)) \in Seq(Nat)
        BY <4>2, WindowFacts
      <4>4. mem' = mem /\ shown' = <<>> /\ said' = "peek" /\ todo' \in Seq(Nat)
        BY <4>1, <4>3 DEF Shows
      <4>5. QED
        BY <1>1, <1>2, <1>4, <3>1, <4>4 DEF ShellInv, Ended
    <3>5. CASE Pokes(l)
      <4>1. PICK a \in Words, val \in Words : Writes(Align(a), val) /\ Shows(<<Align(a)>>, "poke", l)
        BY <3>5 DEF Pokes
      <4>2. Align(a) \in Nat
        BY AlignFacts
      <4>3. <<Align(a)>> \in Seq(Nat)
        BY <4>2
      <4>4. DOMAIN mem' \subseteq Nat /\ mem' \in [DOMAIN mem' -> Words]
        BY <1>3, <4>1, <4>2
      <4>5. shown' = <<>> /\ said' = "poke" /\ todo' \in Seq(Nat)
        BY <4>1, <4>3 DEF Shows
      <4>6. QED
        BY <1>1, <1>4, <3>1, <4>4, <4>5 DEF ShellInv, Ended
    <3>6. CASE SetsGpio
      <4>1. DOMAIN mem' \subseteq Nat /\ mem' \in [DOMAIN mem' -> Words]
        BY <1>3, <3>6, RegistersAreAddresses DEF SetsGpio
      <4>2. Says("gpio")
        BY <3>6 DEF SetsGpio
      <4>3. QED
        BY <1>1, <1>4, <3>1, <4>1, <4>2 DEF ShellInv, Says
    <3>7. CASE Leaves
      BY <1>1, <1>2, <3>1, <3>7 DEF Leaves, ShellInv, Ended
    <3>8. QED
      BY <2>2, <3>2, <3>3, <3>4, <3>5, <3>6, <3>7
  <2>3. CASE StartsLoad
    <3>1. loader' \in [addr : Words, cur : Words, count : Nat]
      <4>1. PICK a \in Words : loader' = [addr |-> Align(a), cur |-> Align(a), count |-> 0]
        BY <2>3 DEF StartsLoad
      <4>2. Align(a) \in Words
        BY AlignFacts
      <4>3. QED
        BY <4>1, <4>2
    <3>2. UNCHANGED <<mem, todo, shown>> /\ typed' = <<>> /\ mode' = "load"
      BY <2>3 DEF StartsLoad
    <3>3. QED
      BY <1>1, <1>2, <1>4, <3>1, <3>2 DEF ShellInv
  <2>4. QED
    BY <2>1, <2>2, <2>3, CommandCases
<1>6. CASE \E l \in LoadLines \cup {Cancel} : LoadLine(l)
  <2>1. PICK l \in LoadLines \cup {Cancel} : LoadLine(l)
    BY <1>6
  <2>2. mode = "load" /\ (EndsLoad \/ (l \in LoadLines /\ (Passes(l) \/ Loads(l))))
    BY <2>1, LoadCases
  <2>3. CASE EndsLoad
    BY <1>1, <1>2, <1>4, <2>3 DEF EndsLoad, ShellInv
  <2>4. CASE l \in LoadLines /\ Passes(l)
    <3>1. Append(typed, l) \in Seq(LoadLines)
      BY <1>2, <2>4, AppendProperties
    <3>2. UNCHANGED <<mode, todo, shown, mem, loader>> /\ typed' = Append(typed, l)
      BY <2>4 DEF Passes
    <3>3. QED
      BY <1>1, <1>2, <2>2, <3>1, <3>2 DEF ShellInv
  <2>5. CASE l \in LoadLines /\ Loads(l)
    <3>1. Append(typed, l) \in Seq(LoadLines)
      BY <1>2, <2>5, AppendProperties
    <3>2. /\ UNCHANGED <<mode, todo, shown>> /\ typed' = Append(typed, l) /\ LoadHex(l) \in Words
          /\ Writes(loader.cur, LoadHex(l))
          /\ loader' = [loader EXCEPT !.cur = Wrap(loader.cur + 4), !.count = loader.count + 1]
      BY <2>5 DEF Loads
    <3>3. loader.cur \in Nat /\ loader.count \in Nat /\ loader.cur + 4 \in Nat
      BY <1>2, WordFacts
    <3>4. Wrap(loader.cur + 4) \in Words
      BY <3>3, WordFacts
    <3>5. loader' \in [addr : Words, cur : Words, count : Nat]
      <4>1. PICK c \in Words, n \in Nat : c = Wrap(loader.cur + 4) /\ n = loader.count + 1
        BY <3>3, <3>4
      <4>2. loader' = [loader EXCEPT !.cur = c, !.count = n]
        BY <3>2, <4>1
      <4>3. QED
        BY <1>2, <4>1, <4>2
    <3>6. DOMAIN mem' \subseteq Nat /\ mem' \in [DOMAIN mem' -> Words]
      <4>1. PICK a \in Nat, val \in Words : a = loader.cur /\ val = LoadHex(l)
        BY <3>2, <3>3
      <4>2. QED
        BY <1>3, <3>2, <4>1
    <3>7. QED
      BY <1>1, <1>2, <2>2, <3>1, <3>2, <3>5, <3>6 DEF ShellInv
  <2>6. QED
    BY <2>2, <2>3, <2>4, <2>5
<1>7. CASE ShowOne
  <2>1. PICK val \in REG32(Head(todo)) : shown' = Append(shown, [a |-> Head(todo), v |-> val])
    BY <1>7 DEF ShowOne
  <2>2. /\ todo # <<>> /\ todo' = Tail(todo) /\ UNCHANGED <<mode, line, said, mem, loader, typed>>
    BY <1>7 DEF ShowOne
  <2>3. Head(todo) \in Nat /\ Tail(todo) \in Seq(Nat)
    BY <1>2, <2>2, HeadTailProperties
  <2>4. val \in Words
    BY ReadsAreWords
  <2>5. [a |-> Head(todo), v |-> val] \in [a : Nat, v : Words]
    BY <2>3, <2>4
  <2>6. shown' \in Seq([a : Nat, v : Words])
    BY <1>2, <2>1, <2>5, AppendProperties
  <2>7. QED
    BY <1>1, <1>2, <2>2, <2>3, <2>6 DEF ShellInv
<1>8. CASE ShowEnd
  BY <1>1, <1>2, <1>4, <1>8 DEF ShowEnd, Says, ShellInv
<1>9. CASE cmd_uptime
  <2>1. CASE UNCHANGED shellVars
    BY <1>1, <1>2, <2>1 DEF shellVars, ShellInv
  <2>2. CASE Says(said) /\ UNCHANGED <<mem, loader, typed, before>>
    BY <1>1, <1>2, <1>4, <2>2 DEF Says, ShellInv
  <2>3. QED
    BY <1>9, <2>1, <2>2 DEF cmd_uptime
<1>10. CASE UNCHANGED shellVars
  BY <1>1, <1>2, <1>10 DEF shellVars, ShellInv
<1>11. QED
  BY <1>5, <1>6, <1>7, <1>8, <1>9, <1>10 DEF Next, vars

\* The types hold throughout.
LEMMA ShellInvariant == Spec => []ShellInv
<1>1. ShellInv /\ [Next]_vars => ShellInv'
  BY ShellNextInv
<1>2. QED
  BY <1>1, ShellInitInv, PTL DEF Spec
-----------------------------------------------------------------------------
\* A write changes one word.
LEMMA OneWord ==
  ASSUME NEW m, NEW a, NEW val, Written(m, a, val) # m
  PROVE  /\ DOMAIN Written(m, a, val) = DOMAIN m \cup {a}
         /\ \A b \in DOMAIN m \ {a} : Written(m, a, val)[b] = m[b]
<1>1. Written(m, a, val) = [b \in DOMAIN m \cup {a} |-> IF b = a THEN val ELSE m[b]]
  BY DEF Written
<1>2. QED
  BY <1>1

\* The last line entered is the one appended.
LEMMA LastAppended ==
  ASSUME NEW S, NEW s \in Seq(S), NEW e \in S
  PROVE  Last(Append(s, e)) = e
<1>1. Len(Append(s, e)) = Len(s) + 1 /\ Append(s, e)[Len(s) + 1] = e
  BY AppendProperties
<1>2. QED
  BY <1>1 DEF Last

\* A step changes at most one word and then only for a well-formed request: no
\* command that fails, shows or ends a load writes (all handlers).
THEOREM WritesAsked == Spec => WritesAreAsked
<1>1. ShellInv /\ [Next]_vars => AskedWrite
  <2> SUFFICES ASSUME ShellInv, [Next]_vars, mem' # mem PROVE AskedWrite
    BY DEF AskedWrite
  <2>1. ASSUME NEW a, NEW val, Writes(a, val)
        PROVE  \E b \in DOMAIN mem' : /\ DOMAIN mem' = DOMAIN mem \cup {b}
                                      /\ \A c \in DOMAIN mem \ {b} : mem'[c] = mem[c]
    <3>1. PICK m : m = mem
      OBVIOUS
    <3>2. mem' = Written(m, a, val) /\ mem' # m
      BY <2>1, <3>1 DEF Writes
    <3>3. /\ DOMAIN Written(m, a, val) = DOMAIN m \cup {a}
          /\ \A b \in DOMAIN m \ {a} : Written(m, a, val)[b] = m[b]
      BY <3>2, OneWord
    <3>4. a \in DOMAIN mem'
      BY <3>2, <3>3
    <3>5. QED
      BY <3>1, <3>2, <3>3, <3>4
  <2>2. CASE \E l \in Lines \cup {Cancel} : Command(l)
    <3>1. PICK l : Command(l)
      BY <2>2
    <3>2. mode = "prompt" /\ (Pokes(l) \/ SetsGpio)
      BY <3>1, CommandCases DEF Answers, ShowsRegisters, ShowsWindow, Leaves, StartsLoad
    <3>3. CASE Pokes(l)
      <4>1. PICK a \in Words, val \in Words : Writes(Align(a), val) /\ Shows(<<Align(a)>>, "poke", l)
        BY <3>3 DEF Pokes
      <4>2. said' = "poke"
        BY <4>1 DEF Shows
      <4>3. PICK b : b = Align(a)
        OBVIOUS
      <4>4. Writes(b, val)
        BY <4>1, <4>3
      <4>5. QED
        BY <2>1, <3>2, <4>2, <4>4 DEF AskedWrite
    <3>4. CASE SetsGpio
      <4>1. PICK a \in {GPIO_OUT, GPIO_DIR}, val \in Words : Writes(a, val) /\ Says("gpio")
        BY <3>4 DEF SetsGpio
      <4>2. said' = "gpio"
        BY <4>1 DEF Says
      <4>3. QED
        BY <2>1, <3>2, <4>1, <4>2 DEF AskedWrite
    <3>5. QED
      BY <3>2, <3>3, <3>4
  <2>3. CASE \E l \in LoadLines \cup {Cancel} : LoadLine(l)
    <3>1. PICK l \in LoadLines \cup {Cancel} : LoadLine(l)
      BY <2>3
    <3>2. mode = "load" /\ l \in LoadLines /\ Loads(l)
      BY <3>1, LoadCases DEF EndsLoad, Passes
    <3>3. typed \in Seq(LoadLines) /\ typed' = Append(typed, l) /\ LoadHex(l) \in Words
      BY <3>2 DEF ShellInv, Loads
    <3>4. Last(typed') = l
      <4>1. PICK s \in Seq(LoadLines) : s = typed
        BY <3>3
      <4>2. Last(Append(s, l)) = l
        BY <3>2, LastAppended
      <4>3. QED
        BY <3>3, <4>1, <4>2
    <3>5. LoadHex(Last(typed')) # Invalid
      BY <3>3, <3>4, WordFacts DEF Invalid
    <3>6. PICK a, val : a = loader.cur /\ val = LoadHex(l)
      OBVIOUS
    <3>7. Writes(a, val)
      BY <3>2, <3>6 DEF Loads
    <3>8. QED
      BY <2>1, <3>2, <3>5, <3>7 DEF AskedWrite
  <2>4. CASE ShowOne \/ ShowEnd \/ cmd_uptime \/ UNCHANGED shellVars
    BY <2>4 DEF ShowOne, ShowEnd, cmd_uptime, shellVars
  <2>5. QED
    BY <2>2, <2>3, <2>4 DEF Next, vars, shellVars
<1>2. QED
  BY <1>1, ShellInvariant, PTL DEF Spec, WritesAreAsked
-----------------------------------------------------------------------------
\* An element moved from the front of one sequence to the end of the other.
LEMMA ElementMoves ==
  ASSUME NEW p \in Seq(Nat), NEW s \in Seq(Nat), s # <<>>
  PROVE  Append(p, Head(s)) \o Tail(s) = p \o s
<1>1. Head(s) \in Nat /\ Tail(s) \in Seq(Nat)
  BY HeadTailProperties
<1>2. PICK e \in Nat, tail \in Seq(Nat) : e = Head(s) /\ tail = Tail(s)
  BY <1>1
<1>3. PICK one \in Seq(Nat) : one = <<e>>
  <2>1. <<e>> \in Seq(Nat)
    OBVIOUS
  <2>2. QED
    BY <2>1
<1>4. s = one \o tail
  <2>1. s = <<Head(s)>> \o Tail(s)
    <3>1. Len(s) \in Nat /\ Len(s) # 0
      BY EmptySeq
    <3>2. 1 \in 1..Len(s) /\ Len(s) \in 1..Len(s)
      BY <3>1
    <3>3. SubSeq(s, 1, Len(s)) = <<s[1]>> \o SubSeq(s, 1 + 1, Len(s))
      BY <3>2, SubSeqRecursiveFirst
    <3>4. Head(s) = s[1] /\ 1 + 1 = 2
      OBVIOUS
    <3>5. QED
      BY <3>3, <3>4, SubSeqFull, TailIsSubSeq
  <2>2. QED
    BY <1>2, <1>3, <2>1
<1>5. Append(p, e) = p \o one
  BY <1>3, AppendIsConcat
<1>6. (p \o one) \o tail = p \o (one \o tail)
  BY <1>2, <1>3, ConcatAssociative
<1>7. QED
  BY <1>2, <1>4, <1>5, <1>6, Zenon

\* The addresses of what is shown.
Shown == Seq([a : Nat, v : Words])
Addresses(s) == [i \in 1..Len(s) |-> s[i].a]

\* As many addresses as registers were read.
LEMMA AddressesAreNat ==
  ASSUME NEW s \in Shown
  PROVE  Addresses(s) \in Seq(Nat) /\ Len(Addresses(s)) = Len(s)
<1>1. PICK n \in Nat : n = Len(s)
  BY LenProperties DEF Shown
<1>2. \A i \in 1..n : s[i] \in [a : Nat, v : Words]
  BY <1>1, ElementOfSeq DEF Shown
<1>3. Addresses(s) \in [1..n -> Nat]
  BY <1>1, <1>2 DEF Addresses
<1>4. QED
  BY <1>1, <1>3, FunctionIsSeq

\* A register read moves from what is left to what is shown.
LEMMA ReadMoves ==
  ASSUME NEW s \in Shown, NEW left \in Seq(Nat), left # <<>>, NEW val \in Words
  PROVE  Addresses(Append(s, [a |-> Head(left), v |-> val])) \o Tail(left) = Addresses(s) \o left
<1>1. Head(left) \in Nat /\ Head(left) = left[1] /\ Tail(left) \in Seq(Nat)
  BY HeadTailProperties
<1>2. PICK r \in [a : Nat, v : Words] : r = [a |-> Head(left), v |-> val]
  BY <1>1
<1>3. PICK more \in Shown : more = Append(s, r)
  BY AppendProperties DEF Shown
<1>4. PICK n \in Nat : n = Len(s)
  BY LenProperties DEF Shown
<1>5. Len(more) = n + 1 /\ more[n + 1] = r /\ \A i \in 1..n : more[i] = s[i]
  BY <1>3, <1>4, AppendProperties DEF Shown
<1>6. PICK p \in Seq(Nat), q \in Seq(Nat) : p = Addresses(s) /\ q = Addresses(more)
  BY AddressesAreNat
<1>7. Len(p) = n /\ Len(q) = n + 1
  BY <1>4, <1>5, <1>6, AddressesAreNat
<1>8. q[n + 1] = Head(left)
  <2>1. n + 1 \in 1..(n + 1)
    OBVIOUS
  <2>2. q[n + 1] = r.a
    BY <1>5, <1>6, <2>1 DEF Addresses
  <2>3. QED
    BY <1>2, <2>2
<1>9. \A i \in 1..n : q[i] = p[i]
  BY <1>4, <1>5, <1>6 DEF Addresses
<1>10. q = Append(p, Head(left))
  <2>1. PICK e \in Nat, longer \in Seq(Nat) : e = Head(left) /\ longer = Append(p, e)
    BY <1>1, AppendProperties
  <2>2. Len(longer) = n + 1 /\ longer[n + 1] = e /\ \A i \in 1..n : longer[i] = p[i]
    BY <1>7, <2>1, AppendProperties
  <2>3. ASSUME NEW i \in 1..(n + 1) PROVE q[i] = longer[i]
    <3>1. CASE i = n + 1
      BY <1>8, <2>1, <2>2, <3>1
    <3>2. CASE i \in 1..n
      BY <1>9, <2>2, <3>2
    <3>3. QED
      BY <3>1, <3>2
  <2>4. q = longer
    BY <1>7, <2>2, <2>3, SeqEqual
  <2>5. QED
    BY <2>1, <2>4
<1>11. Append(p, Head(left)) \o Tail(left) = p \o left
  BY ElementMoves
<1>12. QED
  BY <1>2, <1>3, <1>6, <1>10, <1>11, Zenon

\* Before the first read the window is what there is to show.
LEMMA WindowStarts ==
  ASSUME NEW left \in Seq(Nat)
  PROVE  Addresses(<<>>) \o left = left
<1>1. Addresses(<<>>) = <<>>
  BY DEF Addresses
<1>2. QED
  BY <1>1, ConcatEmptySeq

\* What the property says of a window and the address asked for.
RightWindow(w, asked) ==
  /\ Len(w) \in 1..PEEK_MAX_WORDS /\ asked - w[1] \in 0..3
  /\ \A i \in 1..(Len(w) - 1) : w[i + 1] = Wrap(w[i] + 4)
RightReads(s, m) == \A i \in 1..Len(s) : s[i].a \notin Volatile \cup Counter => s[i].v = Stored(m, s[i].a)
RightPoke(w, m, asked) == w[1] \notin Volatile \cup Counter => Stored(m, w[1]) = asked
ShowInv ==
  mode = "show" => /\ RightReads(shown, mem)
                   /\ said \in {"peek", "poke"} => RightWindow(Window0, Hex(line[2]))
                   /\ said = "poke" => RightPoke(Window0, mem, Hex(line[3]))

\* It is ShowsWhatIsStored, by parts.
LEMMA ShowInvIsProperty == ShowInv <=> ShowsWhatIsStored
BY DEF ShowInv, ShowsWhatIsStored, RightReads, RightWindow, RightPoke

\* The window of a peek.
LEMMA PeekIsRight ==
  ASSUME NEW a \in Words, NEW n \in Words
  PROVE  LET w == Window(Align(a), Clamped(n)) IN w \in Seq(Nat) /\ RightWindow(w, a)
<1>1. PICK al \in Words : al = Align(a) /\ a - al \in 0..3
  BY AlignFacts
<1>2. PICK k \in Nat \ {0} : k = Clamped(n) /\ k \in 1..PEEK_MAX_WORDS
  BY ClampedFacts
<1>3. PICK w : w = Window(al, k)
  OBVIOUS
<1>4. /\ w \in Seq(Nat) /\ Len(w) = k /\ w[1] = al
      /\ \A i \in 1..(k - 1) : w[i + 1] = Wrap(w[i] + 4)
  BY <1>3, WindowFacts
<1>5. RightWindow(w, a)
  BY <1>1, <1>2, <1>4 DEF RightWindow
<1>6. QED
  BY <1>1, <1>2, <1>3, <1>4, <1>5

\* The word of a poke.
LEMMA PokeIsRight ==
  ASSUME NEW a \in Words, NEW val \in Words, NEW m
  PROVE  LET w == <<Align(a)>>
         IN w \in Seq(Nat) /\ RightWindow(w, a) /\ RightPoke(w, Written(m, Align(a), val), val)
<1>1. PICK al \in Words : al = Align(a) /\ al \in Nat /\ a - al \in 0..3
  BY AlignFacts
<1>2. PICK w : w = <<al>>
  OBVIOUS
<1>3. w \in Seq(Nat) /\ Len(w) = 1 /\ w[1] = al
  BY <1>1, <1>2
<1>4. RightWindow(w, a)
  <2>1. 1 \in 1..PEEK_MAX_WORDS
    BY ShellAssumption
  <2>2. QED
    BY <1>1, <1>3, <2>1 DEF RightWindow
<1>5. RightPoke(w, Written(m, al, val), val)
  <2>1. CASE al \notin Volatile \cup Counter
    <3>1. Written(m, al, val) = [b \in DOMAIN m \cup {al} |-> IF b = al THEN val ELSE m[b]]
      BY <2>1 DEF Written
    <3>2. QED
      BY <1>3, <3>1 DEF RightPoke, Stored
  <2>2. CASE al \in Volatile \cup Counter
    BY <1>3, <2>2 DEF RightPoke
  <2>3. QED
    BY <2>1, <2>2
<1>6. QED
  BY <1>1, <1>2, <1>3, <1>4, <1>5

\* Nothing shown yet.
LEMMA NothingShown == \A m : RightReads(<<>>, m)
BY DEF RightReads

\* The read of one register keeps it.
LEMMA ReadKeepsShow ==
  ASSUME ShellInv, ShowInv, ShowOne
  PROVE  ShowInv'
<1>1. PICK val \in REG32(Head(todo)) : shown' = Append(shown, [a |-> Head(todo), v |-> val])
  BY DEF ShowOne
<1>2. todo # <<>> /\ todo' = Tail(todo) /\ UNCHANGED <<mode, line, said, mem>> /\ mode = "show"
  BY DEF ShowOne
<1>3. val \in Words /\ (Head(todo) \notin Volatile \cup Counter => val = Stored(mem, Head(todo)))
  BY ReadsAreWords DEF REG32
<1>4. PICK s \in Seq([a : Nat, v : Words]), left \in Seq(Nat) : s = shown /\ left = todo
  BY DEF ShellInv
<1>5. PICK m : m = mem
  OBVIOUS
<1>6. PICK r \in [a : Nat, v : Words] : r = [a |-> Head(left), v |-> val]
  BY <1>2, <1>3, <1>4, HeadTailProperties
<1>7. Window0' = Window0
  <2>1. Addresses(Append(s, r)) \o Tail(left) = Addresses(s) \o left
    BY <1>2, <1>3, <1>4, <1>6, ReadMoves DEF Shown
  <2>2. Window0 = Addresses(s) \o left /\ Window0' = Addresses(Append(s, r)) \o Tail(left)
    BY <1>1, <1>2, <1>4, <1>6 DEF Window0, Addresses
  <2>3. QED
    BY <2>1, <2>2, Zenon
<1>8. RightReads(Append(s, r), m)
  <2>1. RightReads(s, m)
    BY <1>2, <1>4, <1>5 DEF ShowInv
  <2>2. PICK n \in Nat : n = Len(s)
    BY LenProperties
  <2>3. Len(Append(s, r)) = n + 1 /\ Append(s, r)[n + 1] = r /\ \A i \in 1..n : Append(s, r)[i] = s[i]
    BY <2>2, AppendProperties
  <2>4. r.a \notin Volatile \cup Counter => r.v = Stored(m, r.a)
    BY <1>3, <1>4, <1>6, <1>5
  <2>5. ASSUME NEW i \in 1..(n + 1), Append(s, r)[i].a \notin Volatile \cup Counter
        PROVE  Append(s, r)[i].v = Stored(m, Append(s, r)[i].a)
    <3>1. CASE i = n + 1
      BY <2>3, <2>4, <2>5, <3>1
    <3>2. CASE i \in 1..n
      BY <2>1, <2>2, <2>3, <2>5, <3>2 DEF RightReads
    <3>3. QED
      BY <2>2, <3>1, <3>2
  <2>6. QED
    BY <2>3, <2>5 DEF RightReads
<1>9. RightReads(shown', mem')
  BY <1>1, <1>2, <1>4, <1>6, <1>8, <1>5
<1>10. QED
  BY <1>2, <1>7, <1>9 DEF ShowInv, RightReads, RightWindow, RightPoke

\* So does every step.
LEMMA ShowNextInv ==
  ASSUME ShellInv, ShowInv, [Next]_vars
  PROVE  ShowInv'
<1>1. CASE mode' # "show"
  BY <1>1 DEF ShowInv
<1>2. CASE UNCHANGED <<mode, line, said, mem, todo, shown>>
  <2>1. Window0' = Window0
    BY <1>2 DEF Window0
  <2>2. QED
    BY <1>2, <2>1 DEF ShowInv, RightReads, RightWindow, RightPoke
<1>3. CASE \E l \in Lines \cup {Cancel} : Command(l)
  <2>1. PICK l : Command(l)
    BY <1>3
  <2>2. \/ Answers \/ ShowsRegisters(l) \/ ShowsWindow(l) \/ Pokes(l) \/ SetsGpio \/ mode' # "show"
    BY <2>1, CommandCases DEF Leaves, StartsLoad
  <2>3. CASE Answers \/ SetsGpio
    BY <1>1, <2>3 DEF Answers, SetsGpio, Says
  <2>4. CASE ShowsRegisters(l)
    <3>1. shown' = <<>> /\ said' \in {"rtos", "uart", "gpio"}
      BY <2>4 DEF ShowsRegisters, Shows
    <3>2. RightReads(shown', mem')
      BY <3>1, NothingShown
    <3>3. QED
      BY <3>1, <3>2 DEF ShowInv, RightReads
  <2>5. CASE ShowsWindow(l)
    <3>1. PICK a \in Words, n \in Words : a = Hex(l[2]) /\ Shows(Window(Align(a), Clamped(n)), "peek", l)
      BY <2>5 DEF ShowsWindow
    <3>2. PICK w \in Seq(Nat) : w = Window(Align(a), Clamped(n)) /\ RightWindow(w, a)
      BY PeekIsRight
    <3>3. shown' = <<>> /\ todo' = w /\ said' = "peek" /\ line' = l
      BY <3>1, <3>2 DEF Shows
    <3>4. Window0' = w
      <4>1. Addresses(<<>>) \o w = w
        BY WindowStarts
      <4>2. QED
        BY <3>3, <4>1 DEF Window0, Addresses
    <3>5. RightReads(shown', mem')
      BY <3>3, NothingShown
    <3>6. QED
      BY <3>1, <3>2, <3>3, <3>4, <3>5 DEF ShowInv, RightReads, RightWindow
  <2>6. CASE Pokes(l)
    <3>1. PICK a \in Words, val \in Words :
            a = Hex(l[2]) /\ val = Hex(l[3]) /\ Writes(Align(a), val) /\ Shows(<<Align(a)>>, "poke", l)
      BY <2>6 DEF Pokes
    <3>2. PICK m, w : m = mem /\ w = <<Align(a)>>
      OBVIOUS
    <3>3. w \in Seq(Nat) /\ RightWindow(w, a) /\ RightPoke(w, Written(m, Align(a), val), val)
      BY <3>2, PokeIsRight
    <3>4. shown' = <<>> /\ todo' = w /\ said' = "poke" /\ line' = l /\ mem' = Written(m, Align(a), val)
      BY <3>1, <3>2 DEF Shows, Writes
    <3>5. Window0' = w
      <4>1. Addresses(<<>>) \o w = w
        BY <3>3, WindowStarts
      <4>2. QED
        BY <3>4, <4>1 DEF Window0, Addresses
    <3>6. RightReads(shown', mem')
      BY <3>4, NothingShown
    <3>7. RightPoke(Window0', mem', Hex(l[3])) /\ RightWindow(Window0', Hex(l[2]))
      BY <3>1, <3>3, <3>4, <3>5
    <3>8. QED
      BY <3>4, <3>6, <3>7 DEF ShowInv, RightReads, RightWindow, RightPoke
  <2>7. QED
    BY <1>1, <2>2, <2>3, <2>4, <2>5, <2>6
<1>4. CASE \E l \in LoadLines \cup {Cancel} : LoadLine(l)
  BY <1>1, <1>4, LoadCases DEF EndsLoad, Passes, Loads
<1>5. CASE ShowEnd \/ cmd_uptime
  BY <1>1, <1>5 DEF ShowEnd, cmd_uptime, Says, shellVars
<1>6. QED
  BY <1>2, <1>3, <1>4, <1>5, ReadKeepsShow DEF Next, vars, shellVars

\* What is displayed is a window of at most PEEK_MAX_WORDS consecutive words
\* around the address asked for, past the end of the address space too, each with
\* its content; a poke shows what it wrote (cmd_peek, cmd_poke).
THEOREM DisplayIsRight == Spec => []ShowsWhatIsStored
<1>1. Init => ShowInv
  BY DEF Init, ShowInv
<1>2. ShellInv /\ ShowInv /\ [Next]_vars => ShowInv'
  BY ShowNextInv
<1>3. QED
  BY <1>1, <1>2, ShellInvariant, ShowInvIsProperty, PTL DEF Spec
-----------------------------------------------------------------------------
\* The same image over plain values: the numerals of the lines, their ranks and
\* places, and what is kept of them.
Devices == Volatile \cup Counter
Nums(lines) == {k \in DOMAIN lines : LoadHex(lines[k]) # Invalid}
Vals(lines) == [k \in Nums(lines) |-> LoadHex(lines[k])]
Rank(N, k) == Cardinality({j \in N : j < k})
Places(addr, N) == [k \in N |-> Wrap(addr + 4 * Rank(N, k))]
KeptOf(N, p) == {k \in N : p[k] \notin Devices /\ \A j \in N : j > k => p[j] # p[k]}
Overlaid(N, p, v, m, b) ==
  /\ DOMAIN m = DOMAIN b \cup {p[k] : k \in KeptOf(N, p)}
  /\ \A k \in KeptOf(N, p) : m[p[k]] = v[k]
  /\ \A a \in DOMAIN b \ {p[k] : k \in KeptOf(N, p)} : m[a] = b[a]
Loaded(lines, addr, cur, count, m, b) ==
  /\ count = Cardinality(Nums(lines)) /\ cur = Wrap(addr + 4 * count)
  /\ Overlaid(Nums(lines), Places(addr, Nums(lines)), Vals(lines), m, b)
LoadInv ==
  mode = "load" \/ said \in Ended => Loaded(typed, loader.addr, loader.cur, loader.count, mem, before)

\* It is LoadedImage.
LEMMA LoadInvIsProperty == LoadInv <=> LoadedImage
<1> DEFINE N == Nums(typed)
           p == Places(loader.addr, N)
<1>1. Numerals = N
  BY DEF Numerals, Nums
<1>2. \A k \in N : PlaceOf(k) = p[k]
  BY <1>1 DEF PlaceOf, Place, Places, Rank
<1>3. \A k \in N : LoadHex(typed[k]) = Vals(typed)[k]
  BY DEF Vals
<1>4. KeptOf(N, p) \subseteq N
  BY DEF KeptOf
<1>5. Kept = KeptOf(N, p)
  BY <1>1, <1>2 DEF Kept, KeptOf, Devices
<1>6. {PlaceOf(k) : k \in Kept} = {p[k] : k \in KeptOf(N, p)}
  BY <1>2, <1>4, <1>5
<1>7. Place(loader.count) = Wrap(loader.addr + 4 * loader.count)
  BY DEF Place
<1>8. (\A k \in Kept : mem[PlaceOf(k)] = LoadHex(typed[k])) <=> \A k \in KeptOf(N, p) : mem[p[k]] = Vals(typed)[k]
  BY <1>2, <1>3, <1>4, <1>5
<1> HIDE DEF p
<1>9. QED
  BY <1>1, <1>6, <1>7, <1>8 DEF LoadInv, LoadedImage, Ended, Loaded, Overlaid, p

\* A place written again, or for the first time: the last numeral for it is kept.
LEMMA OverlayGrows ==
  ASSUME NEW N \in SUBSET Nat, NEW n \in Nat, \A j \in N : j < n,
         NEW p, NEW q, NEW v, NEW w, NEW m, NEW b, NEW place, NEW val, q[n] = place, w[n] = val,
         \A k \in N : q[k] = p[k], \A k \in N : w[k] = v[k],
         NEW N1, N1 = N \cup {n}, NEW new, new = Written(m, place, val),
         Overlaid(N, p, v, m, b)
  PROVE  Overlaid(N1, q, w, new, b)
<1> DEFINE K == KeptOf(N, p)
           L == KeptOf(N1, q)
<1>1. K \subseteq N /\ n \notin N /\ \A j \in N : ~(j > n)
  BY DEF KeptOf
<1>2. \A k \in N : k \in L <=> (k \in K /\ p[k] # place)
  BY <1>1 DEF KeptOf
<1>3. n \in L <=> place \notin Devices
  <2>1. \A j \in N \cup {n} : ~(j > n)
    BY <1>1
  <2>2. QED
    BY <2>1 DEF KeptOf
<1>4. L \subseteq N \cup {n}
  BY DEF KeptOf
<1>5. /\ DOMAIN m = DOMAIN b \cup {p[k] : k \in K} /\ \A k \in K : m[p[k]] = v[k]
      /\ \A a \in DOMAIN b \ {p[k] : k \in K} : m[a] = b[a]
  BY DEF Overlaid
<1>6. \A k \in K : p[k] \notin Devices
  BY DEF KeptOf
<1> HIDE DEF K, L
<1>7. CASE place \in Devices
  <2>1. new = m
    BY <1>7 DEF Written, Devices
  <2>2. L = K
    BY <1>1, <1>2, <1>3, <1>4, <1>6, <1>7
  <2>3. {q[k] : k \in L} = {p[k] : k \in K}
    BY <1>1, <2>2
  <2>4. \A k \in L : new[q[k]] = w[k]
    BY <1>1, <1>5, <2>1, <2>2
  <2>5. QED
    BY <1>5, <2>1, <2>3, <2>4 DEF Overlaid, L
<1>8. CASE place \notin Devices
  <2>1. new = [a \in DOMAIN m \cup {place} |-> IF a = place THEN val ELSE m[a]]
    BY <1>8 DEF Written, Devices
  <2>2. \A k \in L : k = n \/ (k \in K /\ p[k] # place /\ q[k] = p[k] /\ w[k] = v[k])
    BY <1>1, <1>2, <1>4
  <2>3. {q[k] : k \in L} = {p[k] : k \in K} \cup {place}
    <3>1. \A k \in L : q[k] \in {p[j] : j \in K} \cup {place}
      BY <2>2
    <3>2. \A k \in K : p[k] = place \/ (k \in L /\ q[k] = p[k])
      BY <1>1, <1>2
    <3>3. n \in L
      BY <1>3, <1>8
    <3>4. QED
      BY <3>1, <3>2, <3>3
  <2>4. DOMAIN new = DOMAIN b \cup {q[k] : k \in L}
    BY <1>5, <2>1, <2>3
  <2>5. \A k \in L : new[q[k]] = w[k]
    BY <1>5, <2>1, <2>2
  <2>6. \A a \in DOMAIN b \ {q[k] : k \in L} : new[a] = b[a]
    BY <1>5, <2>1, <2>3
  <2>7. QED
    BY <2>4, <2>5, <2>6 DEF Overlaid, L
<1>9. QED
  BY <1>7, <1>8

\* Another numeral leaves the ranks of those before it, and comes after them all.
LEMMA RankGrows ==
  ASSUME NEW N, N \subseteq Nat, NEW n \in Nat, \A j \in N : j < n
  PROVE  Rank(N \cup {n}, n) = Cardinality(N) /\ \A k \in N : Rank(N \cup {n}, k) = Rank(N, k)
<1>1. {j \in N \cup {n} : j < n} = N
  <2>1. \A j \in N \cup {n} : j < n <=> j \in N
    OBVIOUS
  <2>2. QED
    BY <2>1
<1>2. ASSUME NEW k \in N PROVE {j \in N \cup {n} : j < k} = {j \in N : j < k}
  OBVIOUS
<1>3. QED
  BY <1>1, <1>2 DEF Rank

\* The numerals of the lines with one more.
LEMMA NumsAppend ==
  ASSUME NEW lines \in Seq(LoadLines), NEW l \in LoadLines, NEW n \in Nat, n = Len(lines) + 1
  PROVE  /\ Nums(lines) \subseteq Nat /\ IsFiniteSet(Nums(lines)) /\ \A j \in Nums(lines) : j < n
         /\ LoadHex(l) = Invalid => Nums(Append(lines, l)) = Nums(lines)
         /\ LoadHex(l) # Invalid => Nums(Append(lines, l)) = Nums(lines) \cup {n}
         /\ \A k \in Nums(lines) : Append(lines, l)[k] = lines[k]
         /\ Append(lines, l)[n] = l
<1>1. PICK m \in Nat : m = Len(lines) /\ n = m + 1
  BY LenProperties
<1>2. DOMAIN lines = 1..m
  BY <1>1, LenProperties
<1>3. PICK longer \in Seq(LoadLines) : longer = Append(lines, l)
  BY AppendProperties
<1>4. Len(longer) = n /\ longer[n] = l /\ \A k \in 1..m : longer[k] = lines[k]
  BY <1>1, <1>3, AppendProperties
<1>5. DOMAIN longer = 1..n
  BY <1>4, LenProperties
<1>6. Nums(lines) \subseteq 1..m
  BY <1>2 DEF Nums
<1>7. IsFiniteSet(Nums(lines))
  <2>1. IsFiniteSet(1..m)
    BY FS_Interval
  <2>2. QED
    BY <1>6, <2>1, FS_Subset
<1>8. 1..n = 1..m \cup {n}
  BY <1>1
<1>9. \A k \in 1..n : k \in Nums(longer) <=> (k \in Nums(lines) \/ (k = n /\ LoadHex(l) # Invalid))
  BY <1>1, <1>2, <1>4, <1>5, <1>8 DEF Nums
<1>10. Nums(longer) \subseteq 1..n
  BY <1>5 DEF Nums
<1>11. LoadHex(l) = Invalid => Nums(longer) = Nums(lines)
  BY <1>6, <1>8, <1>9, <1>10
<1>12. LoadHex(l) # Invalid => Nums(longer) = Nums(lines) \cup {n}
  BY <1>6, <1>8, <1>9, <1>10
<1>13. Nums(lines) \subseteq Nat /\ \A j \in Nums(lines) : j < n
  BY <1>1, <1>6
<1>14. QED
  BY <1>3, <1>4, <1>6, <1>7, <1>11, <1>12, <1>13

\* A line that is no numeral changes nothing of the image.
LEMMA PassKeepsImage ==
  ASSUME NEW lines \in Seq(LoadLines), NEW l \in LoadLines, LoadHex(l) = Invalid,
         NEW addr, NEW cur, NEW count, NEW m, NEW b, Loaded(lines, addr, cur, count, m, b)
  PROVE  Loaded(Append(lines, l), addr, cur, count, m, b)
<1>1. PICK n \in Nat : n = Len(lines) + 1
  BY LenProperties
<1>2. PICK longer : longer = Append(lines, l)
  OBVIOUS
<1>3. Nums(longer) = Nums(lines) /\ \A k \in Nums(lines) : longer[k] = lines[k]
  <2>1. Nums(Append(lines, l)) = Nums(lines) /\ \A k \in Nums(lines) : Append(lines, l)[k] = lines[k]
    BY <1>1, NumsAppend
  <2>2. QED
    BY <1>2, <2>1
<1>4. Vals(longer) = Vals(lines)
  BY <1>3 DEF Vals
<1>5. QED
  BY <1>2, <1>3, <1>4 DEF Loaded

\* A numeral is one more word of it.
LEMMA WordExtendsImage ==
  ASSUME NEW lines \in Seq(LoadLines), NEW l \in LoadLines, LoadHex(l) # Invalid,
         NEW addr \in Words, NEW cur, NEW count, NEW m, NEW b, Loaded(lines, addr, cur, count, m, b)
  PROVE  Loaded(Append(lines, l), addr, Wrap(cur + 4), count + 1, Written(m, cur, LoadHex(l)), b)
<1>1. PICK n \in Nat : n = Len(lines) + 1
  BY LenProperties
<1>2. PICK longer : longer = Append(lines, l)
  OBVIOUS
<1>3. PICK N \in SUBSET Nat : N = Nums(lines)
  <2>1. Nums(lines) \in SUBSET Nat
    BY <1>1, NumsAppend
  <2>2. QED
    BY <2>1
<1>4. /\ N \subseteq Nat /\ IsFiniteSet(N) /\ \A j \in N : j < n
      /\ Nums(longer) = N \cup {n} /\ longer[n] = l /\ \A k \in N : longer[k] = lines[k]
  <2>1. Nums(lines) \subseteq Nat /\ IsFiniteSet(Nums(lines)) /\ \A j \in Nums(lines) : j < n
    BY <1>1, NumsAppend, Zenon
  <2>2. Nums(Append(lines, l)) = Nums(lines) \cup {n}
    BY <1>1, NumsAppend, Zenon
  <2>3. Append(lines, l)[n] = l
    BY <1>1, NumsAppend
  <2>4. \A k \in Nums(lines) : Append(lines, l)[k] = lines[k]
    BY <1>1, NumsAppend
  <2>5. QED
    BY <1>2, <1>3, <2>1, <2>2, <2>3, <2>4
<1>5. Cardinality(N \cup {n}) = count + 1 /\ count = Cardinality(N) /\ count \in Nat
  <2>1. n \notin N
    BY <1>4
  <2>2. Cardinality(N) \in Nat /\ Cardinality(N \cup {n}) = Cardinality(N) + 1
    BY <1>4, <2>1, FS_AddElement, FS_CardinalityType
  <2>3. count = Cardinality(N)
    BY <1>3 DEF Loaded
  <2>4. QED
    BY <2>2, <2>3
<1>6. cur = Wrap(addr + 4 * count)
  BY DEF Loaded
<1>7. Wrap(cur + 4) = Wrap(addr + 4 * (count + 1))
  <2>1. addr \in Nat
    BY WordFacts
  <2>2. PICK a \in Nat : a = addr + 4 * count /\ a + 4 = addr + 4 * (count + 1)
    <3>1. addr + 4 * count \in Nat /\ addr + 4 * count + 4 = addr + 4 * (count + 1)
      BY <1>5, <2>1
    <3>2. QED
      BY <3>1
  <2>3. Wrap(Wrap(a) + 4) = Wrap(a + 4)
    BY WrapAdds
  <2>4. QED
    BY <1>6, <2>2, <2>3
<1>8. PICK p, q, v, w : /\ p = Places(addr, N) /\ q = Places(addr, N \cup {n})
                        /\ v = Vals(lines) /\ w = Vals(longer)
  OBVIOUS
<1>9. q[n] = cur /\ \A k \in N : q[k] = p[k]
  <2>1. Rank(N \cup {n}, n) = Cardinality(N) /\ \A k \in N : Rank(N \cup {n}, k) = Rank(N, k)
    BY <1>4, RankGrows
  <2>2. QED
    BY <1>5, <1>6, <1>8, <2>1 DEF Places
<1>10. w[n] = LoadHex(l) /\ \A k \in N : w[k] = v[k]
  BY <1>3, <1>4, <1>8 DEF Vals
<1>11. Overlaid(N, p, v, m, b)
  BY <1>3, <1>8 DEF Loaded
<1>12. PICK val : val = LoadHex(l)
  OBVIOUS
<1>13. PICK N1, new : N1 = N \cup {n} /\ new = Written(m, cur, val)
  OBVIOUS
<1>14. Overlaid(N1, q, w, new, b)
  <2>1. \A j \in N : j < n
    BY <1>4
  <2>2. \A k \in N : q[k] = p[k]
    BY <1>9
  <2>3. \A k \in N : w[k] = v[k]
    BY <1>10
  <2>4. q[n] = cur /\ w[n] = val
    BY <1>9, <1>10, <1>12
  <2>5. QED
    BY <1>1, <1>3, <1>11, <1>13, <2>1, <2>2, <2>3, <2>4, OverlayGrows
<1>15. QED
  BY <1>2, <1>4, <1>5, <1>7, <1>8, <1>12, <1>13, <1>14 DEF Loaded

\* An empty load has written nothing.
LEMMA EmptyImage ==
  ASSUME NEW addr \in Words, Wrap(addr) = addr, NEW m
  PROVE  Loaded(<<>>, addr, addr, 0, m, m)
<1>1. Nums(<<>>) = {}
  BY DEF Nums
<1>2. Cardinality({}) = 0
  BY FS_EmptySet
<1>3. KeptOf({}, Places(addr, {})) = {}
  BY DEF KeptOf
<1>4. addr + 4 * 0 = addr
  BY WordFacts
<1>5. Overlaid({}, Places(addr, {}), Vals(<<>>), m, m)
  BY <1>3 DEF Overlaid
<1>6. QED
  BY <1>1, <1>2, <1>4, <1>5 DEF Loaded

\* Every step keeps the image of the load, until the next command.
LEMMA LoadNextInv ==
  ASSUME ShellInv, LoadInv, [Next]_vars
  PROVE  LoadInv'
<1>1. CASE mode' # "load" /\ said' \notin Ended
  BY <1>1 DEF LoadInv
<1>2. CASE UNCHANGED <<mode, said, mem, loader, typed, before>>
  BY <1>2 DEF LoadInv
<1>3. CASE \E l \in Lines \cup {Cancel} : Command(l)
  <2>1. PICK l : Command(l)
    BY <1>3
  <2>2. CASE StartsLoad
    <3>1. PICK a \in Words : loader' = [addr |-> Align(a), cur |-> Align(a), count |-> 0]
      BY <2>2 DEF StartsLoad
    <3>2. PICK al \in Words : al = Align(a) /\ Wrap(al) = al
      BY AlignFacts
    <3>3. PICK m : m = mem
      OBVIOUS
    <3>4. Loaded(<<>>, al, al, 0, m, m)
      BY <3>2, EmptyImage
    <3>5. /\ typed' = <<>> /\ loader'.addr = al /\ loader'.cur = al /\ loader'.count = 0
          /\ mem' = m /\ before' = m
      BY <2>2, <3>1, <3>2, <3>3 DEF StartsLoad
    <3>6. QED
      BY <3>4, <3>5 DEF LoadInv
  <2>3. CASE ~StartsLoad
    <3>1. Answers \/ ShowsRegisters(l) \/ ShowsWindow(l) \/ Pokes(l) \/ SetsGpio \/ Leaves
      BY <2>1, <2>3, CommandCases
    <3>2. mode' # "load" /\ said' \notin Ended
      BY <3>1 DEF Answers, ShowsRegisters, ShowsWindow, Pokes, SetsGpio, Leaves, Says, Shows, Ended
    <3>3. QED
      BY <1>1, <3>2
  <2>4. QED
    BY <2>2, <2>3
<1>4. CASE \E l \in LoadLines \cup {Cancel} : LoadLine(l)
  <2>1. PICK l \in LoadLines \cup {Cancel} : LoadLine(l)
    BY <1>4
  <2>2. mode = "load" /\ (EndsLoad \/ (l \in LoadLines /\ (Passes(l) \/ Loads(l))))
    BY <2>1, LoadCases
  <2>3. PICK lines \in Seq(LoadLines), addr \in Words : lines = typed /\ addr = loader.addr
    BY DEF ShellInv
  <2>4. PICK cur, count, m, b : cur = loader.cur /\ count = loader.count /\ m = mem /\ b = before
    OBVIOUS
  <2>5. Loaded(lines, addr, cur, count, m, b)
    BY <2>2, <2>3, <2>4 DEF LoadInv
  <2>6. CASE EndsLoad
    BY <2>3, <2>4, <2>5, <2>6 DEF EndsLoad, LoadInv
  <2>7. CASE l \in LoadLines /\ Passes(l)
    <3>1. Loaded(Append(lines, l), addr, cur, count, m, b)
      BY <2>5, <2>7, PassKeepsImage DEF Passes
    <3>2. typed' = Append(lines, l) /\ loader' = loader /\ mem' = m /\ before' = b
      BY <2>3, <2>4, <2>7 DEF Passes
    <3>3. QED
      BY <2>3, <2>4, <3>1, <3>2 DEF LoadInv
  <2>8. CASE l \in LoadLines /\ Loads(l)
    <3>1. LoadHex(l) # Invalid
      BY <2>8, WordFacts DEF Loads, Invalid
    <3>2. Loaded(Append(lines, l), addr, Wrap(cur + 4), count + 1, Written(m, cur, LoadHex(l)), b)
      BY <2>5, <2>8, <3>1, WordExtendsImage
    <3>3. /\ typed' = Append(lines, l) /\ before' = b /\ mem' = Written(m, cur, LoadHex(l))
          /\ loader'.addr = addr /\ loader'.cur = Wrap(cur + 4) /\ loader'.count = count + 1
      <4>1. loader \in [addr : Words, cur : Words, count : Nat]
        BY DEF ShellInv
      <4>2. QED
        BY <2>3, <2>4, <2>8, <4>1 DEF Loads, Writes
    <3>4. QED
      BY <3>2, <3>3 DEF LoadInv
  <2>9. QED
    BY <2>2, <2>6, <2>7, <2>8
<1>5. CASE ShowOne
  BY <1>2, <1>5 DEF ShowOne
<1>6. CASE ShowEnd \/ cmd_uptime
  <2>1. mode \in {"show", "uptime"} /\ said \notin Ended
    BY <1>6 DEF ShowEnd, cmd_uptime, ShellInv
  <2>2. UNCHANGED shellVars \/ Says(said)
    BY <1>6 DEF ShowEnd, cmd_uptime
  <2>3. QED
    BY <1>1, <1>2, <2>1, <2>2 DEF Says, shellVars
<1>7. QED
  BY <1>2, <1>3, <1>4, <1>5, <1>6 DEF Next, vars, shellVars

\* During a load and after it, aborted or not, memory is what it was, overlaid
\* with the numerals entered so far, in order, at consecutive words from the
\* address asked for: no comment, error or wrap of the address shifts or loses
\* one (cmd_load).
THEOREM LoadIsRight == Spec => []LoadedImage
<1>1. Init => LoadInv
  BY DEF Init, LoadInv, Ended
<1>2. ShellInv /\ LoadInv /\ [Next]_vars => LoadInv'
  BY LoadNextInv
<1>3. QED
  BY <1>1, <1>2, ShellInvariant, LoadInvIsProperty, PTL DEF Spec
-----------------------------------------------------------------------------
\* Dividing by p and then by m is dividing by their product.
LEMMA DivTwice ==
  ASSUME NEW w \in Nat, NEW p \in Nat \ {0}, NEW m \in Nat \ {0}
  PROVE  p * m \in Nat \ {0} /\ w \div (p * m) = (w \div p) \div m
<1>1. PICK a \in Nat, r \in 0..(p - 1) : a = w \div p /\ w = p * a + r
  <2>1. w \div p \in Nat /\ w % p \in 0..(p - 1) /\ w = p * (w \div p) + (w % p)
    OBVIOUS
  <2>2. QED
    BY <2>1
<1>2. PICK b \in Nat, c \in 0..(m - 1) : b = a \div m /\ a = m * b + c
  <2>1. a \div m \in Nat /\ a % m \in 0..(m - 1) /\ a = m * (a \div m) + (a % m)
    OBVIOUS
  <2>2. QED
    BY <2>1
<1>3. PICK pm \in Nat \ {0} : pm = p * m
  OBVIOUS
<1>4. p * a = pm * b + p * c
  <2>1. p * (m * b + c) = p * (m * b) + p * c
    OBVIOUS
  <2>2. p * (m * b) = (p * m) * b
    OBVIOUS
  <2>3. QED
    BY <1>2, <1>3, <2>1, <2>2
<1>5. p * c \in 0..(pm - p)
  <2>1. 0 <= p * c /\ p * c <= p * (m - 1)
    BY <1>2
  <2>2. p * (m - 1) = p * m - p
    OBVIOUS
  <2>3. QED
    BY <1>3, <2>1, <2>2
<1>6. PICK t \in 0..(pm - 1) : t = p * c + r
  BY <1>1, <1>5
<1>7. w = pm * b + t
  <2>1. PICK x \in Nat, y \in Nat : x = pm * b /\ y = p * c
    BY <1>5
  <2>2. QED
    BY <1>1, <1>4, <1>6, <2>1
<1>8. (pm * b + t) \div pm = b
  OBVIOUS
<1>9. QED
  BY <1>1, <1>2, <1>3, <1>7, <1>8

\* Remainders of a divisor that leaves the top bit free, with quotients.
Division(d) == [rem : 0..(d - 1), q : Nat]

\* One bit of the long division, whose remainder does not outgrow its register.
LEMMA DivideBitFacts ==
  ASSUME NEW d \in 1..2^(WIDTH - 1), NEW acc \in Division(d), NEW bit \in {0, 1}, NEW weight \in Nat
  PROVE  /\ DivideBit(acc, bit, weight, d) \in Division(d)
         /\ \E more \in {0, 1} :
              /\ DivideBit(acc, bit, weight, d).q = acc.q + more * weight
              /\ DivideBit(acc, bit, weight, d).rem = 2 * acc.rem + bit - more * d
<1>1. WIDTH - 1 \in 0..WIDTH /\ WIDTH - 1 \in 0..(WIDTH - 1) /\ (WIDTH - 1) + 1 = WIDTH
  BY TextAssumption
<1>2. PICK k \in Nat \ {0} : k = 2^(WIDTH - 1) /\ 2 * k = 2^WIDTH
  <2>1. 2^(WIDTH - 1) \in Nat \ {0} /\ 2^WIDTH = 2 * 2^(WIDTH - 1)
    BY <1>1, PowerFacts, PowerAssumption
  <2>2. QED
    BY <2>1
<1>3. PICK r \in Nat, q \in Nat : r = acc.rem /\ q = acc.q /\ acc = [rem |-> r, q |-> q] /\ r < d
  <2>1. acc.rem \in 0..(d - 1) /\ acc.q \in Nat /\ acc = [rem |-> acc.rem, q |-> acc.q] /\ d \in Nat
    BY <1>2 DEF Division
  <2>2. QED
    BY <2>1
<1>4. d \in Nat /\ d <= k
  BY <1>2
<1>5. Wrap(2 * r) = 2 * r
  <2>1. 2 * r \in 0..(2 * k - 1)
    BY <1>3, <1>4
  <2>2. 2 * r \in Words
    BY <1>2, <2>1 DEF Words
  <2>3. QED
    BY <2>2, WordFacts
<1>6. CASE 2 * r + bit >= d
  <2>1. DivideBit(acc, bit, weight, d) = [rem |-> 2 * r + bit - d, q |-> q + weight]
    BY <1>3, <1>5, <1>6 DEF DivideBit
  <2>2. 2 * r + bit - d \in 0..(d - 1) /\ q + weight \in Nat
    BY <1>3, <1>4, <1>6
  <2>3. q + weight = q + 1 * weight /\ 2 * r + bit - d = 2 * r + bit - 1 * d
    BY <1>4
  <2>4. QED
    BY <1>3, <2>1, <2>2, <2>3 DEF Division
<1>7. CASE ~(2 * r + bit >= d)
  <2>1. DivideBit(acc, bit, weight, d) = [rem |-> 2 * r + bit, q |-> q]
    BY <1>3, <1>5, <1>7 DEF DivideBit
  <2>2. 2 * r + bit \in 0..(d - 1)
    BY <1>3, <1>4, <1>7
  <2>3. q = q + 0 * weight /\ 2 * r + bit = 2 * r + bit - 0 * d
    BY <1>4
  <2>4. QED
    BY <1>3, <2>1, <2>2, <2>3 DEF Division
<1>8. QED
  BY <1>6, <1>7

\* What one more bit does to the equation of a division, with two the weight of a bit
\* and p that of the next.
LEMMA DivisionStep ==
  ASSUME NEW rem \in Nat, NEW x \in Nat, NEW v \in Nat, NEW quo \in Nat, NEW d \in Nat, NEW r \in Nat,
         NEW bit \in {0, 1}, NEW more \in {0, 1}, rem * x + v = quo * d + r
  PROVE  rem * (2 * x) + (2 * v + bit) = (2 * quo + more) * d + (2 * r + bit - more * d)
<1>1. rem * (2 * x) = 2 * (rem * x)
  OBVIOUS
<1>2. (2 * quo + more) * d = 2 * (quo * d) + more * d
  OBVIOUS
<1>3. PICK a \in Nat, b \in Nat, m \in Nat : a = rem * x /\ b = quo * d /\ m = more * d
  OBVIOUS
<1>4. a + v = b + r
  BY <1>3
<1>5. 2 * a + (2 * v + bit) = (2 * b + m) + (2 * r + bit - m)
  BY <1>4
<1>6. QED
  BY <1>1, <1>2, <1>3, <1>5

\* The bit of a word that is next, and the word up to it.
LEMMA NextBit ==
  ASSUME NEW word \in Nat, NEW p \in Nat \ {0}
  PROVE  /\ (word \div p) % 2 \in {0, 1} /\ word \div (2 * p) \in Nat
         /\ word \div p = 2 * (word \div (2 * p)) + ((word \div p) % 2)
<1>1. PICK a \in Nat : a = word \div p
  OBVIOUS
<1>2. word \div (2 * p) = a \div 2
  <2>1. word \div (p * 2) = (word \div p) \div 2
    BY DivTwice
  <2>2. p * 2 = 2 * p
    OBVIOUS
  <2>3. QED
    BY <1>1, <2>1, <2>2
<1>3. a % 2 \in {0, 1} /\ a \div 2 \in Nat /\ a = 2 * (a \div 2) + (a % 2)
  OBVIOUS
<1>4. QED
  BY <1>1, <1>2, <1>3

\* The powers that weigh the bits of a word, from the top down.
LEMMA Weights ==
  ASSUME NEW n \in 1..WIDTH
  PROVE  /\ n - 1 \in Nat /\ n \in Nat
         /\ 2^(WIDTH - n) \in Nat \ {0} /\ 2^(WIDTH - (n - 1)) = 2 * 2^(WIDTH - n)
         /\ 2^(n - 1) \in Nat \ {0} /\ 2^n = 2 * 2^(n - 1)
<1>1. /\ WIDTH - n \in 0..(WIDTH - 1) /\ WIDTH - n \in 0..WIDTH /\ WIDTH - (n - 1) = (WIDTH - n) + 1
      /\ n - 1 \in 0..(WIDTH - 1) /\ n - 1 \in 0..WIDTH /\ n = (n - 1) + 1 /\ n - 1 \in Nat /\ n \in Nat
  BY TextAssumption
<1>2. 2^((WIDTH - n) + 1) = 2 * 2^(WIDTH - n) /\ 2^((n - 1) + 1) = 2 * 2^(n - 1)
  BY <1>1, PowerAssumption
<1>3. 2^(WIDTH - n) \in Nat \ {0} /\ 2^(n - 1) \in Nat \ {0}
  BY <1>1, PowerFacts
<1>4. QED
  BY <1>1, <1>2, <1>3

\* One word of the long division, with a remainder from the word above.
LEMMA DivideWordFacts ==
  ASSUME NEW rem \in Nat, NEW word \in Words, NEW d \in 1..2^(WIDTH - 1), rem < d
  PROVE  \E quo \in Nat, r \in 0..(d - 1) :
           DivideWord(rem, word, d) = [rem |-> r, q |-> quo] /\ rem * 2^WIDTH + word = quo * d + r
<1> DEFINE S == Division(d)
           base == [rem |-> rem, q |-> 0]
           bit(n) == (word \div 2^(WIDTH - n)) % 2
           Solves(f) == f = [n \in 0..WIDTH |-> IF n = 0 THEN [rem |-> rem, q |-> 0]
                               ELSE DivideBit(f[n - 1], (word \div 2^(WIDTH - n)) % 2, 2^(WIDTH - n), d)]
           step == CHOOSE f : Solves(f)
           h == [n \in 1..WIDTH |-> [acc \in S |-> DivideBit(acc, bit(n), 2^(WIDTH - n), d)]]
<1>1. DivideWord(rem, word, d) = step[WIDTH]
  BY DEF DivideWord
<1>2. WIDTH \in Nat \ {0} /\ word \in Nat
  BY TextAssumption, WordFacts
<1>3. d \in Nat \ {0}
  <2>1. WIDTH - 1 \in 0..WIDTH
    BY <1>2
  <2>2. 2^(WIDTH - 1) \in Nat
    BY <2>1, PowerFacts
  <2>3. QED
    BY <2>2
<1>4. \A n \in 1..WIDTH : bit(n) \in {0, 1} /\ 2^(WIDTH - n) \in Nat
  <2> SUFFICES ASSUME NEW n \in 1..WIDTH PROVE bit(n) \in {0, 1} /\ 2^(WIDTH - n) \in Nat
    OBVIOUS
  <2>1. PICK p \in Nat \ {0} : p = 2^(WIDTH - n)
    BY Weights
  <2>2. (word \div p) % 2 \in {0, 1}
    BY <1>2, NextBit
  <2>3. QED
    BY <2>1, <2>2
<1>5. base \in S
  BY <1>3 DEF Division
<1>6. \A n \in 1..WIDTH, acc \in S : DivideBit(acc, bit(n), 2^(WIDTH - n), d) \in S
  <2> HIDE DEF bit
  <2>1. QED
    BY <1>4, DivideBitFacts
<1>7. h \in [1..WIDTH -> [S -> S]]
  <2> HIDE DEF S, bit
  <2>1. QED
    BY <1>6
<1>8. PICK f : RunOf(S, base, WIDTH, h, f)
  <2> HIDE DEF S, h, base, bit
  <2>1. WIDTH \in Nat
    BY <1>2
  <2>2. QED
    BY <2>1, <1>5, <1>7, LoopExists, Zenon
<1>9. \A n \in 1..WIDTH : n - 1 \in 0..WIDTH /\ f[n] = DivideBit(f[n - 1], bit(n), 2^(WIDTH - n), d)
  <2> HIDE DEF S, bit, base
  <2>1. \A n \in 1..WIDTH : n - 1 \in 0..WIDTH
    BY <1>2
  <2>2. \A n \in 1..WIDTH : f[n - 1] \in S
    BY <1>8, <2>1 DEF RunOf
  <2>3. QED
    BY <1>8, <2>1, <2>2 DEF RunOf
<1>10. Solves(f)
  <2> HIDE DEF S, h
  <2>1. \A n \in 0..WIDTH : n # 0 => n \in 1..WIDTH
    BY <1>2
  <2>2. \A n \in 0..WIDTH : f[n] = IF n = 0 THEN [rem |-> rem, q |-> 0]
                               ELSE DivideBit(f[n - 1], (word \div 2^(WIDTH - n)) % 2, 2^(WIDTH - n), d)
    BY <1>8, <1>9, <2>1 DEF RunOf
  <2>3. f = [n \in 0..WIDTH |-> f[n]]
    BY <1>8 DEF RunOf
  <2>4. QED
    BY <2>2, <2>3
<1>11. Solves(step)
  <2> HIDE DEF Solves
  <2>1. QED
    BY <1>10
<1>12. step[0] = base /\ \A n \in 1..WIDTH : step[n] = DivideBit(step[n - 1], bit(n), 2^(WIDTH - n), d)
  <2> HIDE DEF step
  <2>1. 0 \in 0..WIDTH /\ \A n \in 1..WIDTH : n \in 0..WIDTH /\ n # 0
    BY <1>2
  <2>2. QED
    BY <1>11, <2>1
<1> HIDE DEF step, h, Solves
<1> DEFINE Exact(n) == /\ step[n] \in S
                         /\ \E quo \in Nat :
                              /\ step[n].q = quo * 2^(WIDTH - n)
                              /\ rem * 2^n + (word \div 2^(WIDTH - n)) = quo * d + step[n].rem
           T == {n \in Nat : n <= WIDTH => Exact(n)}
<1>13. Exact(0)
  <2>1. PICK M \in Nat \ {0} : M = 2^WIDTH /\ word < M
    <3>1. PICK M \in Nat \ {0} : M = 2^WIDTH
      BY WordFacts
    <3>2. QED
      BY <3>1 DEF Words
  <2>2. WIDTH - 0 = WIDTH /\ 2^0 = 1
    BY <1>2, PowerAssumption
  <2>3. word \div M = 0
    BY <1>2, <2>1
  <2>4. step[0].q = 0 * M /\ rem * 1 + 0 = 0 * d + step[0].rem
    BY <1>3, <1>12, <2>1
  <2>5. QED
    BY <1>5, <1>12, <2>1, <2>2, <2>3, <2>4
<1>14. ASSUME NEW n \in 1..WIDTH, Exact(n - 1) PROVE Exact(n)
  <2>1. PICK p \in Nat \ {0}, x \in Nat :
          p = 2^(WIDTH - n) /\ 2^(WIDTH - (n - 1)) = 2 * p /\ x = 2^(n - 1) /\ 2^n = 2 * x
    <3>1. 2^(WIDTH - n) \in Nat \ {0} /\ 2^(n - 1) \in Nat
      BY Weights
    <3>2. 2^(WIDTH - (n - 1)) = 2 * 2^(WIDTH - n) /\ 2^n = 2 * 2^(n - 1)
      BY Weights
    <3>3. QED
      BY <3>1, <3>2
  <2>2. PICK acc \in S : acc = step[n - 1]
    BY <1>14
  <2>3. PICK quo \in Nat : acc.q = quo * (2 * p) /\ rem * x + (word \div (2 * p)) = quo * d + acc.rem
    BY <1>14, <2>1, <2>2
  <2>4. PICK b \in {0, 1}, v \in Nat : b = bit(n) /\ v = word \div (2 * p) /\ word \div p = 2 * v + b
    <3>1. (word \div p) % 2 \in {0, 1} /\ word \div (2 * p) \in Nat
      BY <1>2, NextBit
    <3>2. word \div p = 2 * (word \div (2 * p)) + ((word \div p) % 2)
      BY <1>2, NextBit
    <3>3. QED
      BY <2>1, <3>1, <3>2
  <2>5. step[n] = DivideBit(acc, b, p, d)
    BY <1>12, <2>1, <2>2, <2>4
  <2>6. DivideBit(acc, b, p, d) \in S
    BY DivideBitFacts
  <2>7. PICK more \in {0, 1} : /\ DivideBit(acc, b, p, d).q = acc.q + more * p
                               /\ DivideBit(acc, b, p, d).rem = 2 * acc.rem + b - more * d
    BY DivideBitFacts
  <2>8. PICK r \in Nat : r = acc.rem
    BY <1>3, <2>2 DEF Division
  <2>9. rem * (2 * x) + (2 * v + b) = (2 * quo + more) * d + (2 * r + b - more * d)
    <3>1. rem * x + v = quo * d + r
      BY <2>3, <2>4, <2>8
    <3>2. d \in Nat
      BY <1>3
    <3> HIDE DEF S, bit, Exact
    <3>3. QED
      BY <3>1, <3>2, DivisionStep
  <2>10. quo * (2 * p) + more * p = (2 * quo + more) * p
    OBVIOUS
  <2>11. step[n].q = (2 * quo + more) * p
    BY <2>3, <2>5, <2>7, <2>10
  <2>12. rem * 2^n + (word \div p) = (2 * quo + more) * d + step[n].rem
    BY <2>1, <2>4, <2>5, <2>7, <2>8, <2>9
  <2>13. PICK next \in Nat : next = 2 * quo + more
    OBVIOUS
  <2>14. QED
    BY <2>1, <2>5, <2>6, <2>11, <2>12, <2>13
<1> HIDE DEF Exact
<1>15. 0 \in T
  BY <1>13
<1>16. ASSUME NEW n \in Nat, n \in T PROVE n + 1 \in T
  <2>1. CASE n + 1 <= WIDTH
    <3>1. n + 1 \in 1..WIDTH /\ (n + 1) - 1 = n /\ Exact(n)
      BY <1>2, <1>16, <2>1
    <3>2. PICK k \in 1..WIDTH : k = n + 1 /\ k - 1 = n
      BY <3>1
    <3>3. Exact(k)
      BY <1>14, <3>1, <3>2
    <3>4. QED
      BY <3>2, <3>3
  <2>2. QED
    BY <2>1
<1>17. WIDTH \in T
  <2> HIDE DEF T
  <2>1. QED
    BY <1>2, <1>15, <1>16, SetOfAllNat
<1>18. Exact(WIDTH)
  BY <1>2, <1>17
<1>19. PICK quo \in Nat : /\ step[WIDTH] \in S /\ step[WIDTH].q = quo * 2^(WIDTH - WIDTH)
                          /\ rem * 2^WIDTH + (word \div 2^(WIDTH - WIDTH)) = quo * d + step[WIDTH].rem
  BY <1>18 DEF Exact
<1>20. WIDTH - WIDTH = 0 /\ 2^0 = 1 /\ word \div 1 = word /\ quo * 1 = quo
  BY <1>2, PowerAssumption
<1>21. PICK r \in 0..(d - 1) : step[WIDTH] = [rem |-> r, q |-> quo]
  <2>1. step[WIDTH].q = quo
    BY <1>19, <1>20
  <2>2. PICK acc \in S : acc = step[WIDTH] /\ acc.q = quo
    BY <1>19, <2>1
  <2>3. acc = [rem |-> acc.rem, q |-> quo] /\ acc.rem \in 0..(d - 1)
    BY <2>2 DEF Division
  <2>4. QED
    BY <2>2, <2>3
<1>22. rem * 2^WIDTH + word = quo * d + r
  <2>1. 2^(WIDTH - WIDTH) = 1
    BY <1>20
  <2>2. word \div 2^(WIDTH - WIDTH) = word /\ step[WIDTH].rem = r
    BY <1>20, <1>21, <2>1
  <2>3. QED
    BY <1>19, <2>2
<1>23. QED
  BY <1>1, <1>21, <1>22

\* A quotient whose remainder is in range is the quotient.
LEMMA QuotientIs ==
  ASSUME NEW n \in Nat, NEW d \in Nat \ {0}, NEW q \in Nat, NEW r \in 0..(d - 1), n = q * d + r
  PROVE  n \div d = q /\ n - q * d = r
<1>1. (d * q + r) \div d = q
  OBVIOUS
<1>2. d * q = q * d
  OBVIOUS
<1>3. QED
  BY <1>1, <1>2

\* The quotient of a word fits a word when the word above it is less than the divisor.
LEMMA QuotientFits ==
  ASSUME NEW M \in Nat \ {0}, NEW d \in Nat \ {0}, NEW r1 \in 0..(d - 1), NEW lo1 \in 0..(M - 1),
         NEW q \in Nat, NEW r \in Nat, r1 * M + lo1 = q * d + r
  PROVE  q < M
<1> SUFFICES ASSUME q >= M PROVE FALSE
  OBVIOUS
<1>1. r1 * M <= (d - 1) * M
  OBVIOUS
<1>2. (d - 1) * M = d * M - M
  OBVIOUS
<1>3. q * d >= M * d
  OBVIOUS
<1>4. M * d = d * M
  OBVIOUS
<1>5. PICK a \in Nat, b \in Nat, c \in Nat : a = r1 * M /\ b = q * d /\ c = d * M
  OBVIOUS
<1>6. a <= c - M /\ b >= c /\ a + lo1 = b + r
  BY <1>1, <1>2, <1>3, <1>4, <1>5
<1>7. QED
  BY <1>5, <1>6

\* The two words of a dividend, divided one after the other.
LEMMA TwoWords ==
  ASSUME NEW M \in Nat, NEW h \in Nat, NEW l \in Nat, NEW d \in Nat, NEW q1 \in Nat, NEW r1 \in Nat,
         NEW q2 \in Nat, NEW r2 \in Nat, h = q1 * d + r1, r1 * M + l = q2 * d + r2
  PROVE  h * M + l = (q1 * M + q2) * d + r2
<1>1. (q1 * d + r1) * M = (q1 * d) * M + r1 * M
  OBVIOUS
<1>2. (q1 * d) * M = (q1 * M) * d
  OBVIOUS
<1>3. (q1 * M + q2) * d = (q1 * M) * d + q2 * d
  OBVIOUS
<1>4. PICK a \in Nat, b \in Nat, c \in Nat : a = (q1 * M) * d /\ b = r1 * M /\ c = q2 * d
  OBVIOUS
<1>5. (a + b) + l = (a + c) + r2
  BY <1>4
<1>6. QED
  BY <1>1, <1>2, <1>3, <1>4, <1>5

\* div64by32 divides, every pair of words by every divisor that leaves the top bit
\* free: the quotient's low word and the remainder (div64by32).
THEOREM WordsAreDivided ==
  ASSUME NEW hi \in Words, NEW low \in Words, NEW d \in 1..2^(WIDTH - 1)
  PROVE  Divides(hi, low, d)
<1>1. PICK M \in Nat \ {0} : M = 2^WIDTH
  BY WordFacts
<1>2. hi \in Nat /\ low \in 0..(M - 1) /\ 0 \in Nat /\ low \in Nat
  BY <1>1, WordFacts DEF Words
<1>3. d \in Nat \ {0} /\ 0 < d
  <2>1. WIDTH - 1 \in 0..WIDTH
    BY TextAssumption
  <2>2. 2^(WIDTH - 1) \in Nat
    BY <2>1, PowerFacts
  <2>3. QED
    BY <2>2
<1>4. PICK q1 \in Nat, r1 \in 0..(d - 1) :
        DivideWord(0, hi, d) = [rem |-> r1, q |-> q1] /\ 0 * 2^WIDTH + hi = q1 * d + r1
  BY <1>3, DivideWordFacts
<1>5. r1 \in Nat /\ r1 < d
  BY <1>3
<1>6. PICK q2 \in Nat, r2 \in 0..(d - 1) :
        DivideWord(r1, low, d) = [rem |-> r2, q |-> q2] /\ r1 * 2^WIDTH + low = q2 * d + r2
  BY <1>5, DivideWordFacts
<1>7. r2 \in Nat
  BY <1>3
<1>8. hi = q1 * d + r1
  <2>1. 0 * M + hi = hi
    BY <1>2
  <2>2. QED
    BY <1>1, <1>4, <2>1
<1>9. r1 * M + low = q2 * d + r2
  BY <1>1, <1>6
<1>10. PICK n \in Nat : n = hi * M + low
  BY <1>2
<1>11. n = (q1 * M + q2) * d + r2
  BY <1>2, <1>3, <1>5, <1>7, <1>8, <1>9, <1>10, TwoWords
<1>12. PICK quo \in Nat : quo = q1 * M + q2
  OBVIOUS
<1>13. n \div d = quo /\ n - quo * d = r2
  BY <1>3, <1>11, <1>12, QuotientIs
<1>14. q2 < M
  BY <1>2, <1>3, <1>7, <1>9, QuotientFits
<1>15. quo % M = q2
  <2>1. PICK t \in 0..(M - 1) : t = q2
    BY <1>14
  <2>2. (M * q1 + t) % M = t
    OBVIOUS
  <2>3. M * q1 = q1 * M
    OBVIOUS
  <2>4. QED
    BY <1>12, <2>1, <2>2, <2>3
<1>16. div64by32(hi, low, d) = [q |-> q2, rem |-> r2]
  BY <1>4, <1>6 DEF div64by32
<1>17. QED
  BY <1>1, <1>10, <1>13, <1>15, <1>16 DEF Wrap, Divides

\* So it does on the samples of the reference.
LEMMA DivisionMeetsItsReference == DivisionIsExact
<1>1. PICK k \in Nat : 2^(WIDTH - 1) = 8 * k /\ 2^WIDTH = 16 * k /\ k >= 1
  <2>1. PICK m \in Nat \ {0} : m = 2^(WIDTH - 1) /\ 2^WIDTH = 2 * m
    <3>1. WIDTH - 1 \in 0..(WIDTH - 1) /\ WIDTH - 1 \in 0..WIDTH /\ (WIDTH - 1) + 1 = WIDTH
      BY TextAssumption
    <3>2. 2^(WIDTH - 1) \in Nat \ {0} /\ 2^WIDTH = 2 * 2^(WIDTH - 1)
      BY <3>1, PowerFacts, PowerAssumption
    <3>3. QED
      BY <3>2
  <2>2. (2 * m) % 16 = 0
    BY <2>1, WordSize
  <2>3. m % 8 = 0 /\ m \div 8 \in Nat /\ m = 8 * (m \div 8)
    BY <2>2
  <2>4. QED
    BY <2>1, <2>3
<1> DEFINE sample == (0..9) \cup {2^(WIDTH - 1) - 1, 2^(WIDTH - 1), 2^WIDTH - 2, 2^WIDTH - 1}
<1>2. sample \subseteq Words
  BY <1>1 DEF Words
<1>3. ASSUME NEW hi \in sample, NEW low \in sample, NEW d \in sample, d \in 1..2^(WIDTH - 1)
      PROVE  Divides(hi, low, d)
  <2> HIDE DEF sample
  <2>1. QED
    BY <1>2, <1>3, WordsAreDivided
<1>4. QED
  BY <1>3, Zenon DEF DivisionIsExact
-----------------------------------------------------------------------------
\* One character more is one digit more.
LEMMA DecFoldAppend ==
  ASSUME NEW s \in Seq(HexChars), NEW c \in HexChars
  PROVE  DecOf(Append(s, c)) = DecDigit(DecOf(s), c)
<1>1. PICK t \in Seq(HexChars) : t = Append(s, c)
  BY AppendProperties
<1>2. PICK N \in Nat : N = Len(s) /\ Len(t) = N + 1
  BY <1>1, LenProperties, AppendProperties
<1>3. t[N + 1] = c /\ \A n \in 1..N : t[n] = s[n]
  BY <1>1, <1>2, AppendProperties
<1>4. PICK v \in [0..N -> Parsed] :
        /\ v[0] = 0 /\ \A n \in 1..N : v[n] = DecDigit(v[n - 1], s[n])
        /\ DecOf(s) = v[N]
  BY <1>2, DecFold
<1>5. PICK w \in [0..(N + 1) -> Parsed] :
        /\ w[0] = 0 /\ \A n \in 1..(N + 1) : w[n] = DecDigit(w[n - 1], t[n])
        /\ DecOf(t) = w[N + 1]
  BY <1>2, DecFold
<1> DEFINE T == {n \in Nat : n <= N => w[n] = v[n]}
<1>6. 0 \in T
  BY <1>4, <1>5
<1>7. ASSUME NEW n \in Nat, n \in T PROVE n + 1 \in T
  <2>1. CASE n + 1 <= N
    <3>1. n + 1 \in 1..N /\ n + 1 \in 1..(N + 1) /\ (n + 1) - 1 = n
      BY <2>1
    <3>2. w[n] = v[n] /\ t[n + 1] = s[n + 1]
      BY <1>3, <1>7, <2>1, <3>1
    <3>3. v[n + 1] = DecDigit(v[n], s[n + 1]) /\ w[n + 1] = DecDigit(w[n], t[n + 1])
      BY <1>4, <1>5, <3>1
    <3>4. w[n + 1] = v[n + 1]
      BY <3>2, <3>3
    <3>5. QED
      BY <3>4
  <2>2. QED
    BY <2>1
<1>8. w[N] = v[N]
  <2>1. Nat \subseteq T
    <3> HIDE DEF T
    <3>1. QED
      BY <1>6, <1>7, SetOfAllNat
  <2>2. QED
    BY <2>1
<1>9. w[N + 1] = DecDigit(w[N], c)
  <2>1. N + 1 \in 1..(N + 1) /\ (N + 1) - 1 = N
    OBVIOUS
  <2>2. QED
    BY <1>3, <1>5, <2>1
<1>10. QED
  BY <1>1, <1>4, <1>5, <1>8, <1>9

\* The equation of DecDigits has a solution, one word after another.
Spells(f, n) == \A val \in 0..n :
  f[val] \in Seq(HexChars) /\ f[val] = IF val = 0 THEN <<>> ELSE Append(f[val \div 10], hextab[1 + (val % 10)])

\* The characters of the table differ.
LEMMA DigitsDiffer ==
  ASSUME NEW i \in 1..16, NEW j \in 1..16, i # j
  PROVE  hextab[i] # hextab[j]
BY DEF hextab

\* The digits are characters, each its own.
LEMMA DigitFacts ==
  ASSUME NEW k \in 0..15
  PROVE  hextab[1 + k] \in HexChars /\ Nibble[hextab[1 + k]] = k
         /\ (k \in 0..9 => hextab[1 + k] \in Decimals)
<1>1. PICK i \in 1..16 : i = 1 + k /\ i - 1 = k
  OBVIOUS
<1>2. DOMAIN hextab = 1..16 /\ DOMAIN lower = 1..6
  BY DEF hextab, lower
<1>4. \A j \in 1..16 : hextab[j] = hextab[i] => j = i
  BY DigitsDiffer
<1>5. hextab[i] \notin ToSet(lower)
  <2>1. \A j \in 1..6 : hextab[i] # lower[j]
    BY DEF hextab, lower
  <2>2. QED
    BY <1>2, <2>1 DEF ToSet
<1>6. hextab[i] \in HexChars
  BY <1>2 DEF HexChars, ToSet
<1>7. (CHOOSE j \in 1..16 : hextab[j] = hextab[i]) = i
  BY <1>4
<1>8. Nibble[hextab[i]] = i - 1
  BY <1>5, <1>6, <1>7 DEF Nibble
<1>9. k \in 0..9 => i \in 1..10
  BY <1>1
<1>10. QED
  BY <1>1, <1>6, <1>8, <1>9 DEF Decimals

\* So DecDigits satisfies its equation.
LEMMA DecDigitsDef ==
  /\ DecDigits[0] = <<>>
  /\ \A val \in Words :
       /\ DecDigits[val] \in Seq(HexChars)
       /\ val # 0 => DecDigits[val] = Append(DecDigits[val \div 10], hextab[1 + (val % 10)])
<1> DEFINE T == {n \in Nat : \E f : f = [val \in 0..n |-> f[val]] /\ Spells(f, n)}
<1>1. 0 \in T
  <2> DEFINE f == [val \in 0..0 |-> <<>>]
  <2>1. f = [val \in 0..0 |-> f[val]]
    OBVIOUS
  <2>2. Spells(f, 0)
    BY DEF Spells
  <2> HIDE DEF f
  <2>3. QED
    BY <2>1, <2>2
<1>2. ASSUME NEW n \in Nat, n \in T PROVE n + 1 \in T
  <2>1. PICK f : Spells(f, n)
    BY <1>2
  <2> DEFINE c(val) == hextab[1 + (val % 10)]
             g == [val \in 0..(n + 1) |-> IF val = n + 1 THEN Append(f[val \div 10], c(val)) ELSE f[val]]
  <2>2. ASSUME NEW val \in 1..(n + 1) PROVE val \div 10 \in 0..n /\ val \div 10 < val /\ c(val) \in HexChars
    <3>1. val % 10 \in 0..15 /\ val \div 10 \in 0..n /\ val \div 10 < val
      OBVIOUS
    <3>2. PICK k \in 0..15 : k = val % 10
      BY <3>1
    <3>3. QED
      BY <3>1, <3>2, DigitFacts
  <2>3. \A val \in 0..n : val \in 0..(n + 1) /\ g[val] = f[val] /\ f[val] \in Seq(HexChars)
    BY <2>1 DEF Spells
  <2>4. g[n + 1] = Append(f[(n + 1) \div 10], c(n + 1))
    OBVIOUS
  <2>5. g = [val \in 0..(n + 1) |-> g[val]]
    OBVIOUS
  <2> HIDE DEF g, c
  <2>6. ASSUME NEW val \in 0..(n + 1)
        PROVE  g[val] \in Seq(HexChars) /\ g[val] = IF val = 0 THEN <<>> ELSE Append(g[val \div 10], c(val))
    <3>1. CASE val = n + 1
      <4>1. val \in 1..(n + 1) /\ val # 0
        BY <3>1
      <4>2. val \div 10 \in 0..n /\ c(val) \in HexChars
        BY <2>2, <4>1
      <4>3. g[val] = Append(g[val \div 10], c(val))
        BY <2>3, <2>4, <3>1, <4>2
      <4>4. PICK s \in Seq(HexChars) : s = g[val \div 10]
        BY <2>3, <4>2
      <4>5. Append(s, c(val)) \in Seq(HexChars)
        BY <4>2, AppendProperties
      <4>6. QED
        BY <4>1, <4>3, <4>4, <4>5
    <3>2. CASE val # n + 1
      <4>1. val \in 0..n
        BY <3>2
      <4>2. g[val] \in Seq(HexChars) /\ g[val] = IF val = 0 THEN <<>> ELSE Append(f[val \div 10], c(val))
        BY <2>1, <2>3, <4>1 DEF Spells, c
      <4>3. CASE val # 0
        <5>1. val \div 10 \in 0..n
          BY <2>2, <4>3
        <5>2. QED
          BY <2>3, <4>2, <5>1
      <4>4. QED
        BY <4>2, <4>3
    <3>3. QED
      BY <3>1, <3>2
  <2>7. Spells(g, n + 1)
    BY <2>6 DEF Spells, c
  <2>8. QED
    BY <2>5, <2>7
<1>3. PICK M \in Nat : M + 1 = 2^WIDTH /\ Words = 0..M
  <2>1. PICK P \in Nat \ {0} : P = 2^WIDTH
    BY WordFacts
  <2>2. P - 1 \in Nat /\ (P - 1) + 1 = P
    BY <2>1
  <2>3. QED
    BY <2>1, <2>2 DEF Words
<1>4. PICK f : f = [val \in 0..M |-> f[val]] /\ Spells(f, M)
  <2>1. Nat \subseteq T
    <3> HIDE DEF T
    <3>1. QED
      BY <1>1, <1>2, SetOfAllNat
  <2>2. QED
    BY <2>1
<1> DEFINE Solves(g) == g = [val \in Words |-> IF val = 0 THEN <<>>
                                               ELSE Append(g[val \div 10], hextab[1 + (val % 10)])]
<1>5. Solves(f)
  BY <1>3, <1>4 DEF Spells
<1>6. DecDigits = CHOOSE g : Solves(g)
  BY DEF DecDigits
<1>7. Solves(DecDigits)
  <2> HIDE DEF Solves
  <2>1. QED
    BY <1>5, <1>6
<1>8. \A val \in Words : DecDigits[val] = IF val = 0 THEN <<>> ELSE Append(DecDigits[val \div 10], hextab[1 + (val % 10)])
  BY <1>7
<1>9. \A val \in 0..M : val # 0 => /\ val \div 10 \in 0..(val - 1) /\ val \div 10 \in 0..M
                                 /\ hextab[1 + (val % 10)] \in HexChars
  <2> SUFFICES ASSUME NEW val \in 0..M, val # 0
               PROVE  /\ val \div 10 \in 0..(val - 1) /\ val \div 10 \in 0..M
                      /\ hextab[1 + (val % 10)] \in HexChars
    OBVIOUS
  <2>1. val \div 10 \in 0..(val - 1) /\ val \div 10 \in 0..M /\ val % 10 \in 0..15
    OBVIOUS
  <2>2. PICK k \in 0..15 : k = val % 10
    BY <2>1
  <2>3. QED
    BY <2>1, <2>2, DigitFacts
<1> DEFINE U == {n \in Nat : \A val \in 0..n : val \in 0..M => DecDigits[val] \in Seq(HexChars)}
<1>10. 0 \in U
  <2>1. DecDigits[0] = <<>> /\ \A val \in 0..0 : val = 0
    BY <1>3, <1>8
  <2>2. <<>> \in Seq(HexChars)
    OBVIOUS
  <2>3. QED
    BY <2>1, <2>2
<1>11. ASSUME NEW n \in Nat, n \in U PROVE n + 1 \in U
  <2> SUFFICES ASSUME NEW val \in 0..(n + 1), val \in 0..M PROVE DecDigits[val] \in Seq(HexChars)
    OBVIOUS
  <2>1. CASE val \in 0..n
    BY <1>11, <2>1
  <2>2. CASE val = n + 1
    <3>1. val \div 10 \in 0..n /\ val \div 10 \in 0..M /\ hextab[1 + (val % 10)] \in HexChars /\ val # 0
      <4>1. val # 0 /\ val - 1 = n
        BY <2>2
      <4>2. QED
        BY <1>9, <4>1
    <3>2. PICK s \in Seq(HexChars) : s = DecDigits[val \div 10]
      BY <1>11, <3>1
    <3>3. DecDigits[val] = Append(s, hextab[1 + (val % 10)])
      BY <1>3, <1>8, <3>1, <3>2
    <3>4. QED
      BY <3>1, <3>3, AppendProperties
  <2>3. QED
    BY <2>1, <2>2
<1>12. \A val \in 0..M : DecDigits[val] \in Seq(HexChars)
  <2>1. Nat \subseteq U
    <3> HIDE DEF U
    <3>1. QED
      BY <1>10, <1>11, SetOfAllNat
  <2>2. M \in U
    BY <2>1
  <2>3. QED
    BY <2>2
<1>13. DecDigits[0] = <<>>
  BY <1>3, <1>8
<1>14. QED
  BY <1>3, <1>8, <1>12, <1>13

\* Appending to the end of a sequence.
LEMMA ConcatAppend ==
  ASSUME NEW C, NEW s \in Seq(C), NEW t \in Seq(C), NEW c \in C
  PROVE  s \o Append(t, c) = Append(s \o t, c) /\ s \o t \in Seq(C) /\ Append(t, c) \in Seq(C)
<1>1. Append(t, c) = t \o <<c>> /\ Append(t, c) \in Seq(C)
  BY AppendIsConcat, AppendProperties
<1>2. s \o t \in Seq(C)
  BY ConcatProperties
<1>3. PICK u \in Seq(C), e \in Seq(C) : u = s \o t /\ e = <<c>>
  <2>1. <<c>> \in Seq(C)
    OBVIOUS
  <2>2. QED
    BY <1>2, <2>1
<1>4. Append(u, c) = u \o e
  BY <1>3, AppendIsConcat
<1>5. (s \o t) \o e = s \o (t \o e)
  BY ConcatAssociative
<1>6. QED
  BY <1>1, <1>2, <1>3, <1>4, <1>5

\* Zeros before a numeral.
LEMMA LeadingZeros ==
  ASSUME NEW m \in Nat, NEW zeros \in [1..m -> {"0"}]
  PROVE  zeros \in Seq(HexChars) /\ DecOf(zeros) = 0
<1>1. hextab[1 + 0] = "0" /\ 0 \in 0..15 /\ 0 \in 0..9
  BY DEF hextab
<1>2. "0" \in HexChars /\ Nibble["0"] = 0 /\ "0" \in Decimals
  BY <1>1, DigitFacts
<1>3. DecDigit(0, "0") = 0
  <2>1. 10 * 0 + Nibble["0"] = 0 /\ Wrap(0) = 0
    BY <1>2, WordFacts
  <2>2. Wrap(10 * 0 + Nibble["0"]) = 0
    BY <2>1
  <2>3. QED
    BY <1>2, <2>2 DEF DecDigit, Invalid
<1>4. PICK s \in Seq(HexChars) : s = zeros /\ Len(s) = m /\ \A n \in 1..m : s[n] = "0"
  <2>1. zeros \in [1..m -> HexChars]
    BY <1>2
  <2>2. zeros \in Seq(HexChars) /\ Len(zeros) = m
    BY <2>1, FunctionIsSeq
  <2>3. QED
    BY <2>2
<1>5. PICK v \in [0..m -> Parsed] :
        v[0] = 0 /\ (\A n \in 1..m : v[n] = DecDigit(v[n - 1], s[n])) /\ DecOf(s) = v[m]
  BY <1>4, DecFold
<1> DEFINE T == {n \in Nat : n <= m => v[n] = 0}
<1>6. 0 \in T
  BY <1>5
<1>7. ASSUME NEW n \in Nat, n \in T PROVE n + 1 \in T
  <2>1. CASE n + 1 <= m
    <3>1. n + 1 \in 1..m /\ (n + 1) - 1 = n /\ v[n] = 0
      BY <1>7, <2>1
    <3>2. v[n + 1] = DecDigit(v[n], s[n + 1])
      BY <1>5, <3>1
    <3>3. v[n + 1] = 0
      BY <1>3, <1>4, <3>1, <3>2
    <3>4. QED
      BY <3>3
  <2>2. QED
    BY <2>1
<1>8. v[m] = 0
  <2>1. Nat \subseteq T
    <3> HIDE DEF T
    <3>1. QED
      BY <1>6, <1>7, SetOfAllNat
  <2>2. QED
    BY <2>1
<1>9. QED
  BY <1>4, <1>5, <1>8

\* The last digit of a word restores it from its tenth part.
LEMMA LastDigit ==
  ASSUME NEW val \in Words
  PROVE  DecDigit(val \div 10, hextab[1 + (val % 10)]) = val
<1>1. val \in Nat
  BY WordFacts
<1>2. PICK k \in 0..15, n \in Nat : k = val % 10 /\ n = val \div 10 /\ k \in 0..9 /\ val = 10 * n + k
  <2>1. val % 10 \in 0..9 /\ val \div 10 \in Nat /\ val = 10 * (val \div 10) + (val % 10)
    BY <1>1
  <2>2. QED
    BY <2>1
<1>3. PICK c \in HexChars : c = hextab[1 + k] /\ Nibble[c] = k /\ c \in Decimals
  BY <1>2, DigitFacts
<1>4. Wrap(10 * n + Nibble[c]) = val
  BY <1>2, <1>3, WordFacts
<1>5. ~(val < n) /\ n # Invalid
  BY <1>1, <1>2 DEF Invalid
<1>6. DecDigit(n, c) = val
  BY <1>3, <1>4, <1>5 DEF DecDigit
<1>7. QED
  BY <1>2, <1>3, <1>6

\* dec_to_uint32 reads what uint32_to_dec prints, every word after any number of
\* zeros: its test for overflow refuses none (dec_to_uint32 against uint32_to_dec).
THEOREM WordsAreReadAsDec ==
  ASSUME NEW m \in Nat, NEW zeros \in [1..m -> {"0"}], NEW val \in Words
  PROVE  ReadAsDec(zeros, val)
<1>1. PICK z \in Seq(HexChars) : z = zeros /\ DecOf(z) = 0
  BY LeadingZeros
<1> DEFINE T == {n \in Nat : \A w \in 0..n : w \in Words => DecOf(z \o DecDigits[w]) = w}
<1>2. 0 \in T
  <2>1. z \o <<>> = z
    BY ConcatEmptySeq
  <2>2. DecOf(z \o DecDigits[0]) = 0
    BY <1>1, <2>1, DecDigitsDef
  <2>3. \A w \in 0..0 : w = 0
    OBVIOUS
  <2>4. QED
    BY <2>2, <2>3
<1>3. ASSUME NEW n \in Nat, n \in T PROVE n + 1 \in T
  <2> SUFFICES ASSUME NEW w \in 0..(n + 1), w \in Words PROVE DecOf(z \o DecDigits[w]) = w
    OBVIOUS
  <2>1. CASE w \in 0..n
    BY <1>3, <2>1
  <2>2. CASE w = n + 1
    <3>1. w # 0 /\ w \div 10 \in 0..n /\ w \div 10 \in Words /\ w % 10 \in 0..15
      <4>1. w \in Nat
        OBVIOUS
      <4>2. w # 0 /\ w \div 10 \in 0..n /\ w % 10 \in 0..15
        BY <2>2, <4>1
      <4>3. PICK M \in Nat \ {0} : M = 2^WIDTH
        BY WordFacts
      <4>4. w \div 10 \in 0..(M - 1)
        BY <2>2, <4>2, <4>3 DEF Words
      <4>5. QED
        BY <4>2, <4>3, <4>4 DEF Words
    <3>2. PICK k \in 0..15, t \in Words : k = w % 10 /\ t = w \div 10 /\ t \in 0..n
      BY <3>1
    <3>3. PICK c \in HexChars : c = hextab[1 + k]
      BY DigitFacts
    <3>4. PICK s \in Seq(HexChars) : s = DecDigits[t]
      BY DecDigitsDef
    <3>5. DecDigits[w] = Append(s, c)
      BY <3>1, <3>2, <3>3, <3>4, DecDigitsDef
    <3>6. PICK u \in Seq(HexChars) : u = z \o s /\ z \o Append(s, c) = Append(u, c)
      <4>1. z \o s \in Seq(HexChars) /\ z \o Append(s, c) = Append(z \o s, c)
        BY ConcatAppend
      <4>2. QED
        BY <4>1
    <3>7. DecOf(u) = t
      BY <1>3, <3>2, <3>4, <3>6
    <3>8. DecOf(Append(u, c)) = DecDigit(DecOf(u), c)
      BY DecFoldAppend
    <3>9. DecDigit(t, c) = w
      BY <3>2, <3>3, LastDigit
    <3>10. QED
      BY <3>5, <3>6, <3>7, <3>8, <3>9
  <2>3. QED
    BY <2>1, <2>2
<1>4. DecOf(z \o DecDigits[val]) = val
  <2>1. Nat \subseteq T
    <3> HIDE DEF T
    <3>1. QED
      BY <1>2, <1>3, SetOfAllNat
  <2>2. val \in Nat /\ val \in 0..val
    BY WordFacts
  <2>3. QED
    BY <2>1, <2>2
<1>5. PICK digits \in Seq(HexChars) : digits = uint32_to_dec(val) /\ digits # <<>> /\ DecOf(z \o digits) = val
  <2>1. CASE val = 0
    <3>1. hextab[1 + 0] = "0" /\ 0 \in 0..15 /\ 1 + 0 = 1
      BY DEF hextab
    <3>2. PICK c \in HexChars : c = "0" /\ DecDigit(0, c) = 0
      <4>1. "0" \in HexChars
        BY <3>1, DigitFacts
      <4>2. 0 \div 10 = 0 /\ 0 % 10 = 0 /\ 0 \in Words
        BY WordFacts
      <4>3. DecDigit(0, "0") = 0
        BY <3>1, <4>2, LastDigit
      <4>4. QED
        BY <4>1, <4>3
    <3>3. PICK e \in Seq(HexChars) : e = <<>>
      <4>1. <<>> \in Seq(HexChars)
        OBVIOUS
      <4>2. QED
        BY <4>1
    <3>4. Append(e, c) = <<"0">> /\ Append(e, c) # <<>>
      BY <3>2, <3>3
    <3>5. z \o Append(e, c) = Append(z \o e, c) /\ z \o e = z
      BY <3>3, ConcatAppend, ConcatEmptySeq
    <3>6. DecOf(Append(z, c)) = DecDigit(DecOf(z), c)
      BY DecFoldAppend
    <3>7. DecOf(z \o Append(e, c)) = val
      BY <1>1, <2>1, <3>2, <3>5, <3>6
    <3>8. uint32_to_dec(val) = <<"0">>
      BY <2>1 DEF uint32_to_dec
    <3>9. Append(e, c) \in Seq(HexChars)
      BY AppendProperties
    <3>10. QED
      BY <3>4, <3>7, <3>8, <3>9
  <2>2. CASE val # 0
    <3>1. uint32_to_dec(val) = DecDigits[val] /\ DecDigits[val] \in Seq(HexChars)
      BY <2>2, DecDigitsDef DEF uint32_to_dec
    <3>2. DecDigits[val] # <<>>
      <4>1. PICK n \in Nat : n = val /\ n # 0
        BY <2>2, WordFacts
      <4>2. z \o <<>> = z
        BY ConcatEmptySeq
      <4>3. QED
        BY <1>1, <1>4, <2>2, <4>2
    <3>3. QED
      BY <1>4, <3>1, <3>2
  <2>3. QED
    BY <2>1, <2>2
<1>6. z \o digits # <<>>
  BY <1>5, ConcatEqualIffEmpty
<1>7. dec_to_uint32(z \o digits) = DecOf(z \o digits)
  BY <1>6 DEF dec_to_uint32, DecOf
<1>8. QED
  BY <1>1, <1>5, <1>7 DEF ReadAsDec

\* The digits of a word, from the last.
Digit(val, j) == (val \div 16^j) % 16

\* The powers of sixteen grow.
LEMMA PowersGrow ==
  ASSUME NEW n \in 0..HexLen
  PROVE  16^n \in Nat \ {0} /\ 16^n <= 2^WIDTH
<1> DEFINE T == {k \in Nat : n + k <= HexLen => 16^n <= 16^(n + k)}
<1>1. HexLen \in Nat /\ n \in Nat
  BY PowerFacts
<1>2. 0 \in T
  <2>1. n + 0 = n /\ 16^n \in Nat
    BY <1>1, PowerFacts
  <2>2. QED
    BY <2>1
<1>3. ASSUME NEW k \in Nat, k \in T PROVE k + 1 \in T
  <2>1. CASE n + (k + 1) <= HexLen
    <3>1. PICK m \in 0..(HexLen - 1) : m = n + k /\ m \in 0..HexLen /\ n + (k + 1) = m + 1
      BY <1>1, <2>1
    <3>2. 16^n <= 16^m
      BY <1>1, <1>3, <2>1, <3>1
    <3>3. PICK a \in Nat, b \in Nat : a = 16^n /\ b = 16^m
      BY <3>1, PowerFacts
    <3>4. 16^(m + 1) = 16 * b
      BY <3>1, <3>3, PowerAssumption
    <3>5. a <= 16 * b
      BY <3>2, <3>3
    <3>6. 16^n <= 16^(n + (k + 1))
      BY <3>1, <3>3, <3>4, <3>5
    <3>7. QED
      BY <3>6
  <2>2. QED
    BY <2>1
<1>4. HexLen - n \in Nat /\ n + (HexLen - n) = HexLen
  BY <1>1
<1>5. HexLen - n \in T
  <2> HIDE DEF T
  <2>1. QED
    BY <1>2, <1>3, <1>4, SetOfAllNat
<1>6. 16^n <= 16^HexLen
  BY <1>4, <1>5
<1>7. 16^HexLen = 2^WIDTH
  BY <1>1, PowerFacts
<1>8. QED
  BY <1>6, <1>7, PowerFacts

\* What a digit more does to the digits before it.
LEMMA DigitsMove ==
  ASSUME NEW val \in Nat, NEW c \in 0..15
  PROVE  Digit(16 * val + c, 0) = c /\ \A j \in 0..(HexLen - 1) : Digit(16 * val + c, j + 1) = Digit(val, j)
<1>1. (16 * val + c) \div 1 = 16 * val + c /\ (16 * val + c) % 16 = c /\ (16 * val + c) \div 16 = val
  OBVIOUS
<1>2. Digit(16 * val + c, 0) = c
  BY <1>1, PowerAssumption DEF Digit
<1>3. ASSUME NEW j \in 0..(HexLen - 1) PROVE Digit(16 * val + c, j + 1) = Digit(val, j)
  <2>1. PICK p \in Nat \ {0} : p = 16^j
    <3>1. j \in 0..HexLen
      BY PowerFacts
    <3>2. QED
      BY <3>1, PowerFacts
  <2>2. 16^(j + 1) = 16 * p
    BY <2>1, PowerAssumption
  <2>3. PICK w \in Nat : w = 16 * val + c
    OBVIOUS
  <2>4. w \div (16 * p) = (w \div 16) \div p
    BY DivTwice
  <2>5. QED
    BY <1>1, <2>1, <2>2, <2>3, <2>4 DEF Digit
<1>4. QED
  BY <1>2, <1>3

\* What is read has the digits of the text, the last last, and no others.
LEMMA HexDigits ==
  ASSUME NEW C, NEW s \in Seq(C), ToSet(s) \subseteq HexChars, NEW N \in 0..HexLen, N = Len(s)
  PROVE  /\ HexOf(s) \in Words
         /\ \A j \in 0..(HexLen - 1) : Digit(HexOf(s), j) = IF j < N THEN Nibble[s[N - j]] ELSE 0
<1>1. PICK v \in [0..N -> Words] :
        /\ v[0] = 0 /\ \A n \in 1..N : v[n] = Wrap(16 * v[n - 1]) + Nibble[s[n]]
        /\ HexOf(s) = v[N]
  BY HexFold
<1>2. HexLen \in Nat /\ N \in Nat /\ \A n \in 0..N : n \in 0..HexLen
  BY PowerFacts
<1>3. \A n \in 1..N : s[n] \in HexChars
  BY <1>2, LenProperties DEF ToSet
<1> DEFINE Has(n) == /\ v[n] < 16^n
                     /\ \A j \in 0..(HexLen - 1) : Digit(v[n], j) = IF j < n THEN Nibble[s[n - j]] ELSE 0
           T == {n \in Nat : n <= N => Has(n)}
<1>4. Has(0)
  <2>1. v[0] < 16^0
    BY <1>1, PowerAssumption
  <2>2. ASSUME NEW j \in 0..(HexLen - 1) PROVE Digit(v[0], j) = 0 /\ ~(j < 0)
    <3>1. PICK p \in Nat \ {0} : p = 16^j
      <4>1. j \in 0..HexLen
        BY <1>2
      <4>2. QED
        BY <4>1, PowerFacts
    <3>2. (0 \div p) % 16 = 0
      OBVIOUS
    <3>3. QED
      BY <1>1, <3>1, <3>2 DEF Digit
  <2>3. QED
    BY <2>1, <2>2
<1>5. ASSUME NEW n \in Nat, n + 1 <= N, Has(n) PROVE Has(n + 1)
  <2>1. n \in 0..N /\ n + 1 \in 1..N /\ (n + 1) - 1 = n /\ n \in 0..HexLen /\ n + 1 \in 0..HexLen /\ n \in 0..(HexLen - 1)
    BY <1>2, <1>5
  <2>2. PICK x \in Nat : x = v[n] /\ x \in Words
    BY <1>1, <2>1, WordFacts
  <2>3. PICK c \in 0..15 : c = Nibble[s[n + 1]]
    <3>1. s[n + 1] \in HexChars
      BY <1>3, <2>1
    <3>2. Nibble[s[n + 1]] \in 0..15
      BY <2>2, <3>1, NibbleFits
    <3>3. QED
      BY <3>2
  <2>4. PICK a \in Nat, M \in Nat : /\ a = 16^n /\ M = 2^WIDTH /\ 16^(n + 1) = 16 * a
                                    /\ x < a /\ 16 * a <= M
    <3>1. 16^n \in Nat /\ 16^(n + 1) = 16 * 16^n /\ 16^(n + 1) <= 2^WIDTH /\ 2^WIDTH \in Nat
      BY <2>1, PowersGrow, PowerAssumption, WordFacts
    <3>2. QED
      BY <1>5, <2>2, <3>1
  <2>5. Wrap(16 * x) = 16 * x
    <3>1. 16 * x \in 0..(M - 1)
      BY <2>4
    <3>2. QED
      BY <2>4, <3>1, WordFacts DEF Words
  <2>6. v[n + 1] = 16 * x + c
    BY <1>1, <2>1, <2>2, <2>3, <2>5
  <2>7. 16 * x + c < 16 * a
    BY <2>4
  <2>8. v[n + 1] < 16^(n + 1)
    BY <2>4, <2>6, <2>7
  <2>9. ASSUME NEW j \in 0..(HexLen - 1)
        PROVE  Digit(16 * x + c, j) = IF j < n + 1 THEN Nibble[s[(n + 1) - j]] ELSE 0
    <3>1. CASE j = 0
      <4>1. Digit(16 * x + c, 0) = c
        BY DigitsMove
      <4>2. (n + 1) - 0 = n + 1 /\ 0 < n + 1
        OBVIOUS
      <4>3. QED
        BY <2>3, <3>1, <4>1, <4>2
    <3>2. CASE j # 0
      <4>1. PICK i \in 0..(HexLen - 1) : j = i + 1
        <5>1. j - 1 \in 0..(HexLen - 1) /\ j = (j - 1) + 1
          BY <1>2, <3>2
        <5>2. QED
          BY <5>1
      <4>2. Digit(16 * x + c, i + 1) = Digit(x, i)
        BY DigitsMove
      <4>3. Digit(x, i) = IF i < n THEN Nibble[s[n - i]] ELSE 0
        BY <1>5, <2>2
      <4>4. (i < n <=> i + 1 < n + 1) /\ (n + 1) - (i + 1) = n - i
        OBVIOUS
      <4>5. QED
        BY <4>1, <4>2, <4>3, <4>4
    <3>3. QED
      BY <3>1, <3>2
  <2>10. QED
    BY <2>6, <2>8, <2>9
<1> HIDE DEF Has
<1>6. 0 \in T
  BY <1>4
<1>7. ASSUME NEW n \in Nat, n \in T PROVE n + 1 \in T
  <2>1. CASE n + 1 <= N
    <3>1. n <= N
      BY <1>2, <2>1
    <3>2. Has(n)
      BY <1>7, <3>1
    <3>3. Has(n + 1)
      BY <1>5, <2>1, <3>2
    <3>4. QED
      BY <3>3
  <2>2. QED
    BY <2>1
<1>8. Has(N)
  <2>1. Nat \subseteq T
    <3> HIDE DEF T
    <3>1. QED
      BY <1>6, <1>7, SetOfAllNat
  <2>2. QED
    BY <1>2, <2>1
<1>9. v[N] \in Words
  BY <1>1, <1>2
<1>10. QED
  BY <1>1, <1>8, <1>9 DEF Has

\* What is printed.
LEMMA HexPrinted ==
  ASSUME NEW val \in Words
  PROVE  /\ uint32_to_hex(val) \in Seq(HexChars) /\ Len(uint32_to_hex(val)) = HexLen
         /\ \A i \in 1..HexLen : uint32_to_hex(val)[i] = hextab[1 + Digit(val, HexLen - i)]
<1>1. HexLen \in Nat /\ val \in Nat
  BY PowerFacts, WordFacts
<1>2. \A i \in 1..HexLen : hextab[1 + Digit(val, HexLen - i)] \in HexChars
  <2> SUFFICES ASSUME NEW i \in 1..HexLen PROVE hextab[1 + Digit(val, HexLen - i)] \in HexChars
    OBVIOUS
  <2>1. HexLen - i \in 0..HexLen
    BY <1>1
  <2>2. PICK p \in Nat \ {0} : p = 16^(HexLen - i)
    BY <2>1, PowerFacts
  <2>3. (val \div p) % 16 \in 0..15
    BY <1>1
  <2>4. PICK k \in 0..15 : k = Digit(val, HexLen - i)
    BY <2>2, <2>3 DEF Digit
  <2>5. QED
    BY <2>4, DigitFacts
<1>3. uint32_to_hex(val) = [i \in 1..HexLen |-> hextab[1 + Digit(val, HexLen - i)]]
  BY DEF uint32_to_hex, Digit
<1>4. PICK f \in [1..HexLen -> HexChars] : f = uint32_to_hex(val)
  BY <1>2, <1>3
<1>5. f \in Seq(HexChars) /\ Len(f) = HexLen
  BY <1>1, FunctionIsSeq
<1>6. QED
  BY <1>3, <1>4, <1>5

\* A digit is printed as a capital, what is no digit stays what it is.
LEMMA CapitalFacts ==
  /\ \A c \in HexChars : hextab[1 + Nibble[c]] = Capital(c) /\ Capital(c) \in HexChars
  /\ \A c : c \notin HexChars => Capital(c) = c
  /\ "0" \in HexChars /\ "0" = hextab[1 + 0]
<1>1. DOMAIN hextab = 1..16 /\ DOMAIN lower = 1..6
  BY DEF hextab, lower
<1>2. ASSUME NEW c \in HexChars PROVE hextab[1 + Nibble[c]] = Capital(c) /\ Capital(c) \in HexChars
  <2>1. CASE c \in ToSet(lower)
    <3>1. \E k \in 1..6 : lower[k] = c
      BY <1>1, <2>1 DEF ToSet
    <3>2. PICK i \in 1..6 : i = CHOOSE k \in 1..6 : lower[k] = c
      BY <3>1
    <3>3. Nibble[c] = 9 + i /\ Capital(c) = hextab[10 + i]
      <4>1. Nibble[c] = 9 + i
        BY <2>1, <3>2 DEF Nibble
      <4>2. Capital(c) = hextab[10 + i]
        BY <2>1, <3>2 DEF Capital
      <4>3. QED
        BY <4>1, <4>2
    <3>4. 1 + (9 + i) = 10 + i /\ 9 + i \in 0..15
      <4>1. \A n \in 1..6 : 1 + (9 + n) = 10 + n /\ 9 + n \in 0..15
        OBVIOUS
      <4>2. QED
        BY <3>2, <4>1, Zenon
    <3>5. hextab[1 + (9 + i)] \in HexChars
      BY <3>4, DigitFacts
    <3>6. QED
      BY <3>3, <3>4, <3>5
  <2>2. CASE c \notin ToSet(lower)
    <3>1. \E k \in 1..16 : hextab[k] = c
      BY <1>1, <2>2 DEF HexChars, ToSet
    <3>2. PICK i \in 1..16 : i = (CHOOSE k \in 1..16 : hextab[k] = c) /\ hextab[i] = c
      BY <3>1
    <3>3. Nibble[c] = i - 1 /\ Capital(c) = c
      BY <2>2, <3>2 DEF Nibble, Capital
    <3>4. 1 + (i - 1) = i
      BY <3>2
    <3>5. QED
      BY <3>2, <3>3, <3>4
  <2>3. QED
    BY <2>1, <2>2
<1>3. ASSUME NEW c, c \notin HexChars PROVE Capital(c) = c
  BY <1>3 DEF HexChars, Capital
<1>4. 1 \in 1..16 /\ hextab[1] = "0" /\ 1 + 0 = 1
  BY DEF hextab
<1>5. QED
  BY <1>1, <1>2, <1>3, <1>4 DEF HexChars, ToSet

\* The reference's numeral of a text without its prefix.
Capitals(body) == [i \in 1..Len(body) |-> Capital(body[i])]
Padded(body) == [i \in 1..(HexLen - Len(body)) |-> "0"] \o Capitals(body)
NumeralsOf(body) == {val \in Words : body # <<>> /\ uint32_to_hex(val) = Padded(body)}

\* Its characters, p zeros first.
IsPadded(S, body, p, b) ==
  /\ Padded(body) \in Seq(S \cup HexChars) /\ Len(Padded(body)) = p + b
  /\ \A i \in 1..p : Padded(body)[i] = "0"
  /\ \A i \in 1..b : Padded(body)[p + i] = Capital(body[i])

\* So it has.
LEMMA PaddedFacts ==
  ASSUME NEW S, NEW body \in Seq(S), NEW b \in Nat, b = Len(body),
         NEW p \in Nat, p = IF b <= HexLen THEN HexLen - b ELSE 0
  PROVE  IsPadded(S, body, p, b)
<1> DEFINE C == S \cup HexChars
           zeros == [i \in 1..(HexLen - Len(body)) |-> "0"]
<1>1. 1..(HexLen - Len(body)) = 1..p
  <2>1. HexLen \in Nat
    BY PowerFacts
  <2>2. QED
    BY <2>1
<1>2. zeros \in Seq(C) /\ Len(zeros) = p /\ \A i \in 1..p : zeros[i] = "0"
  <2>1. zeros \in [1..p -> C] /\ \A i \in 1..p : zeros[i] = "0"
    BY <1>1, CapitalFacts
  <2> HIDE DEF zeros, C
  <2>2. QED
    BY <2>1, FunctionIsSeq
<1>3. /\ Capitals(body) \in Seq(C) /\ Len(Capitals(body)) = b
      /\ \A i \in 1..b : Capitals(body)[i] = Capital(body[i])
  <2>1. \A i \in 1..b : Capital(body[i]) \in C
    <3>1. \A i \in 1..b : body[i] \in S
      BY ElementOfSeq
    <3>2. \A c \in S : Capital(c) \in C
      BY CapitalFacts
    <3> HIDE DEF C
    <3>3. QED
      BY <3>1, <3>2
  <2>2. Capitals(body) \in [1..b -> C] /\ \A i \in 1..b : Capitals(body)[i] = Capital(body[i])
    BY <2>1 DEF Capitals
  <2> HIDE DEF C
  <2>3. QED
    BY <2>2, FunctionIsSeq
<1> HIDE DEF zeros, C
<1>4. PICK s \in Seq(C), t \in Seq(C) : s = zeros /\ t = Capitals(body) /\ Len(s) = p /\ Len(t) = b
  BY <1>2, <1>3
<1>5. s \o t \in Seq(C) /\ Len(s \o t) = p + b
  BY <1>4, ConcatProperties
<1>6. \A i \in 1..(p + b) : (s \o t)[i] = IF i <= p THEN s[i] ELSE t[i - p]
  BY <1>4, ConcatProperties
<1>7. \A i \in 1..p : (s \o t)[i] = "0"
  <2>1. \A i \in 1..p : i \in 1..(p + b) /\ i <= p
    OBVIOUS
  <2>2. QED
    BY <1>2, <1>4, <1>6, <2>1
<1>8. \A i \in 1..b : (s \o t)[p + i] = t[i]
  <2> SUFFICES ASSUME NEW i \in 1..b PROVE (s \o t)[p + i] = t[i]
    OBVIOUS
  <2>1. PICK k \in 1..(p + b) : k = p + i /\ ~(k <= p) /\ k - p = i
    <3>1. p + i \in 1..(p + b) /\ ~(p + i <= p) /\ (p + i) - p = i
      OBVIOUS
    <3>2. QED
      BY <3>1
  <2>2. QED
    BY <1>6, <2>1
<1>9. Padded(body) = s \o t
  <2>1. Padded(body) = zeros \o Capitals(body)
    BY DEF Padded, zeros
  <2>2. QED
    BY <1>4, <2>1
<1>10. QED
  BY <1>3, <1>4, <1>5, <1>7, <1>8, <1>9 DEF C, IsPadded

\* A text without its prefix, read as the reference says.
LEMMA BodyIsRead ==
  ASSUME NEW S, NEW body \in Seq(S), NEW val,
         val = IF Len(body) \in 1..HexLen /\ ToSet(body) \subseteq HexChars THEN HexOf(body) ELSE Invalid
  PROVE  IF NumeralsOf(body) = {} THEN val = Invalid ELSE val \in NumeralsOf(body)
<1>1. PICK b \in Nat : b = Len(body) /\ DOMAIN body = 1..b
  BY LenProperties
<1>2. HexLen \in Nat
  BY PowerFacts
<1>3. PICK p \in Nat : p = IF b <= HexLen THEN HexLen - b ELSE 0
  <2>1. (IF b <= HexLen THEN HexLen - b ELSE 0) \in Nat
    BY <1>2
  <2>2. QED
    BY <2>1
<1>4. /\ \A i \in 1..b : body[i] \in S
      /\ Padded(body) \in Seq(S \cup HexChars) /\ Len(Padded(body)) = p + b
      /\ \A i \in 1..p : Padded(body)[i] = "0"
      /\ \A i \in 1..b : Padded(body)[p + i] = Capital(body[i])
  <2>1. IsPadded(S, body, p, b)
    BY <1>1, <1>3, PaddedFacts
  <2>2. \A i \in 1..b : body[i] \in S
    BY <1>1, ElementOfSeq
  <2>3. QED
    BY <2>1, <2>2 DEF IsPadded
<1>5. CASE b = 0
  <2>1. body = <<>>
    BY <1>1, <1>5, EmptySeq
  <2>2. NumeralsOf(body) = {}
    BY <2>1 DEF NumeralsOf
  <2>3. val = Invalid
    BY <1>1, <1>5
  <2>4. QED
    BY <2>2, <2>3
<1>6. CASE b > HexLen
  <2>1. Len(Padded(body)) = b
    <3>1. p = 0 /\ p + b = b
      BY <1>2, <1>3, <1>6
    <3>2. QED
      BY <1>4, <3>1
  <2>2. NumeralsOf(body) = {}
    <3> SUFFICES ASSUME NEW w \in Words, uint32_to_hex(w) = Padded(body) PROVE FALSE
      BY DEF NumeralsOf
    <3>1. Len(uint32_to_hex(w)) = HexLen
      BY HexPrinted
    <3>2. QED
      BY <1>2, <1>6, <2>1, <3>1
  <2>3. val = Invalid
    BY <1>1, <1>2, <1>6
  <2>4. QED
    BY <2>2, <2>3
<1>7. CASE b \in 1..HexLen /\ ~(ToSet(body) \subseteq HexChars)
  <2>1. PICK i \in 1..b : body[i] \notin HexChars
    BY <1>1, <1>7 DEF ToSet
  <2>2. Padded(body)[p + i] = body[i]
    <3>1. Capital(body[i]) = body[i]
      BY <2>1, CapitalFacts
    <3>2. QED
      BY <1>4, <3>1
  <2>3. p + i \in 1..HexLen
    BY <1>2, <1>3, <1>7
  <2>4. NumeralsOf(body) = {}
    <3> SUFFICES ASSUME NEW w \in Words, uint32_to_hex(w) = Padded(body) PROVE FALSE
      BY DEF NumeralsOf
    <3>1. PICK t \in Seq(HexChars) : t = uint32_to_hex(w) /\ Len(t) = HexLen
      BY HexPrinted
    <3>2. t[p + i] \in HexChars
      BY <2>3, <3>1, ElementOfSeq
    <3>3. QED
      BY <2>1, <2>2, <3>1, <3>2
  <2>5. val = Invalid
    BY <1>7
  <2>6. QED
    BY <2>4, <2>5
<1>8. CASE b \in 1..HexLen /\ ToSet(body) \subseteq HexChars
  <2>1. b \in 0..HexLen /\ p = HexLen - b
    BY <1>3, <1>8
  <2>2. val = HexOf(body)
    BY <1>1, <1>8
  <2>3. /\ val \in Words
        /\ \A j \in 0..(HexLen - 1) : Digit(val, j) = IF j < b THEN Nibble[body[b - j]] ELSE 0
    BY <1>1, <1>8, <2>1, <2>2, HexDigits
  <2>4. PICK t \in Seq(HexChars) : t = uint32_to_hex(val) /\ Len(t) = HexLen
    BY <2>3, HexPrinted
  <2>5. PICK u \in Seq(S \cup HexChars) : u = Padded(body) /\ Len(u) = HexLen
    <3>1. p + b = HexLen
      BY <1>2, <2>1
    <3>2. QED
      BY <1>4, <3>1
  <2>6. ASSUME NEW i \in 1..HexLen PROVE t[i] = u[i]
    <3>1. PICK j \in 0..(HexLen - 1) : j = HexLen - i
      BY <1>2
    <3>2. t[i] = hextab[1 + Digit(val, j)]
      BY <2>3, <2>4, <3>1, HexPrinted
    <3>3. CASE i <= p
      <4>1. ~(j < b) /\ i \in 1..p
        BY <1>2, <2>1, <3>1, <3>3
      <4>2. t[i] = "0"
        BY <2>3, <3>2, <4>1, CapitalFacts
      <4>3. Padded(body)[i] = "0"
        BY <1>4, <4>1
      <4>4. QED
        BY <2>5, <4>2, <4>3
    <3>4. CASE ~(i <= p)
      <4>1. PICK k \in 1..b : k = i - p /\ p + k = i /\ b - j = k /\ j < b
        <5>1. i - p \in 1..b /\ p + (i - p) = i /\ b - j = i - p /\ j < b
          BY <1>2, <2>1, <3>1, <3>4
        <5>2. QED
          BY <5>1
      <4>2. PICK c \in HexChars : c = body[k]
        BY <1>1, <1>4, <1>8 DEF ToSet
      <4>3. Digit(val, j) = Nibble[c]
        BY <2>3, <4>1, <4>2
      <4>4. t[i] = Capital(c)
        BY <3>2, <4>3, CapitalFacts
      <4>5. Padded(body)[p + k] = Capital(c)
        <5>1. Padded(body)[p + k] = Capital(body[k])
          BY <1>4
        <5>2. QED
          BY <4>2, <5>1
      <4>6. QED
        BY <2>5, <4>1, <4>4, <4>5
    <3>5. QED
      BY <3>3, <3>4
  <2>7. t = u
    <3>1. DOMAIN t = 1..HexLen /\ t = [i \in DOMAIN t |-> t[i]]
      BY <2>4, LenProperties
    <3>2. DOMAIN u = 1..HexLen /\ u = [i \in DOMAIN u |-> u[i]]
      BY <2>5, LenProperties
    <3>3. QED
      BY <2>6, <3>1, <3>2
  <2>8. body # <<>>
    BY <1>1, <1>8, EmptySeq
  <2>9. val \in NumeralsOf(body)
    BY <2>3, <2>4, <2>5, <2>7, <2>8 DEF NumeralsOf
  <2>10. QED
    BY <2>9
<1>9. QED
  BY <1>2, <1>5, <1>6, <1>7, <1>8

\* hex_to_uint32 accepts exactly the numerals of words, of all texts whatever their length
\* and characters, and reads what uint32_to_hex prints (hex_to_uint32).
THEOREM TextsAreReadAsHex ==
  ASSUME NEW S, NEW t \in Seq(S)
  PROVE  ReadAsHex(t)
<1> DEFINE prefixed == Len(t) >= 2 /\ t[1] = "0" /\ t[2] \in {"x", "X"}
<1>1. PICK body \in Seq(S) : body = IF prefixed THEN SubSeq(t, 3, Len(t)) ELSE t
  <2>1. Len(t) \in Nat
    BY LenProperties
  <2>2. \A i \in 3..Len(t) : i \in 1..Len(t)
    BY <2>1
  <2>3. \A i \in 3..Len(t) : t[i] \in S
    BY <2>2, ElementOfSeq
  <2>4. SubSeq(t, 3, Len(t)) \in Seq(S)
    BY <2>1, <2>3, SubSeqProperties
  <2>5. QED
    BY <2>4
<1>2. PICK val : val = IF Len(body) \in 1..HexLen /\ ToSet(body) \subseteq HexChars THEN HexOf(body) ELSE Invalid
  OBVIOUS
<1>3. hex_to_uint32(t) = val
  BY <1>1, <1>2 DEF hex_to_uint32, HexOf
<1>4. IF NumeralsOf(body) = {} THEN val = Invalid ELSE val \in NumeralsOf(body)
  BY <1>2, BodyIsRead
<1>5. ReadAsHex(t) <=> IF NumeralsOf(body) = {} THEN hex_to_uint32(t) = Invalid ELSE hex_to_uint32(t) \in NumeralsOf(body)
  BY <1>1 DEF ReadAsHex, NumeralsOf, Padded, Capitals
<1>6. QED
  BY <1>3, <1>4, <1>5

\* The texts of the reference are among them.
LEMMA HexMeetsItsReference == HexAcceptsNumerals
<1>1. ASSUME NEW s \in Strings(Samples, HexLen + 3) PROVE ReadAsHex(s)
  <2>1. PICK k \in 0..(HexLen + 3) : s \in [1..k -> Samples]
    BY DEF Strings
  <2>2. k \in Nat
    BY PowerFacts
  <2>3. s \in Seq(Samples)
    BY <2>1, <2>2, FunctionIsSeq
  <2>4. QED
    BY <2>3, TextsAreReadAsHex
<1>2. QED
  BY <1>1 DEF HexAcceptsNumerals
\* The words and zeros of the reference are among those of every number of zeros.
LEMMA DecMeetsItsReference == DecReadsWhatItPrints
<1>1. ASSUME NEW zeros \in Strings({"0"}, 2), NEW val \in Words PROVE ReadAsDec(zeros, val)
  <2>1. PICK k \in 0..2 : zeros \in [1..k -> {"0"}]
    BY DEF Strings
  <2>2. QED
    BY <2>1, WordsAreReadAsDec
<1>2. QED
  BY <1>1 DEF DecReadsWhatItPrints
-----------------------------------------------------------------------------
\* The first position from p on of a character of a set, or past the end of the line.
FirstFrom(line0, p, chars, q) ==
  /\ q \in p..(Len(line0) + 1)
  /\ q <= Len(line0) => line0[q] \in chars
  /\ \A r \in p..(q - 1) : line0[r] \notin chars

\* The search finds it.
LEMMA NextInFacts ==
  ASSUME NEW line0, Len(line0) \in Nat, NEW p \in 1..(Len(line0) + 1), NEW chars
  PROVE  FirstFrom(line0, p, chars, NextIn(line0, p, chars))
<1>0. PICK N \in Nat : N = Len(line0)
  OBVIOUS
<1> DEFINE S == {q \in p..(N + 1) : q <= N => line0[q] \in chars}
<1>1. S \in SUBSET Nat /\ S # {}
  <2>1. N + 1 \in S
    BY <1>0
  <2>2. QED
    BY <1>0, <2>1
<1>2. PICK q \in S : \A m \in S : q <= m
  <2> HIDE DEF S
  <2>1. QED
    BY <1>1, LeastNat
<1>3. \A r \in p..(q - 1) : line0[r] \notin chars
  BY <1>2
<1> DEFINE Is(x) == (x <= Len(line0) => line0[x] \in chars) /\ \A r \in p..(x - 1) : line0[r] \notin chars
<1>4. q \in p..(Len(line0) + 1) /\ Is(q)
  BY <1>0, <1>3
<1>5. NextIn(line0, p, chars) = CHOOSE x \in p..(Len(line0) + 1) : Is(x)
  BY DEF NextIn
<1> HIDE DEF Is, S
<1>6. NextIn(line0, p, chars) \in p..(Len(line0) + 1) /\ Is(NextIn(line0, p, chars))
  BY <1>4, <1>5, Zenon
<1>7. QED
  BY <1>6 DEF Is, FirstFrom

\* The words of a line.
LEMMA WordsOfFacts ==
  ASSUME NEW line0, NEW N \in Nat, N = Len(line0)
  PROVE  /\ IsFiniteSet(WordsOf(line0))
         /\ \A w \in WordsOf(line0) :
              /\ w = <<w[1], w[2]>> /\ w[1] \in 1..N /\ w[2] \in w[1]..N
              /\ \A i \in w[1]..w[2] : line0[i] # Space
              /\ w[1] > 1 => line0[w[1] - 1] = Space
              /\ w[2] < N => line0[w[2] + 1] = Space
<1>1. IsFiniteSet((1..N) \X (1..N))
  <2>1. PICK T : T = 1..N /\ IsFiniteSet(T)
    BY FS_Interval
  <2>2. IsFiniteSet(T \X T)
    BY <2>1, FS_Product
  <2>3. QED
    BY <2>1, <2>2
<1>2. WordsOf(line0) \subseteq (1..N) \X (1..N)
  BY DEF WordsOf
<1>3. IsFiniteSet(WordsOf(line0))
  BY <1>1, <1>2, FS_Subset
<1>4. ASSUME NEW w \in WordsOf(line0)
      PROVE  /\ w = <<w[1], w[2]>> /\ w[1] \in 1..N /\ w[2] \in w[1]..N
             /\ \A i \in w[1]..w[2] : line0[i] # Space
             /\ w[1] > 1 => line0[w[1] - 1] = Space
             /\ w[2] < N => line0[w[2] + 1] = Space
  <2>1. w \in (1..N) \X (1..N) /\ w[1] <= w[2]
    BY DEF WordsOf
  <2>2. w = <<w[1], w[2]>> /\ w[1] \in 1..N /\ w[2] \in 1..N
    BY <2>1
  <2>3. w[2] \in w[1]..N
    BY <2>1, <2>2
  <2>4. QED
    BY <2>2, <2>3 DEF WordsOf
<1>5. QED
  BY <1>3, <1>4

\* Behind the last word only spaces are left.
LEMMA NoWordLeft ==
  ASSUME NEW C, NEW line0 \in Seq(C), NEW N \in Nat, N = Len(line0), NEW p \in 1..(N + 1),
         NextIn(line0, p, ToSet(line0) \ {Space}) > N
  PROVE  \A w \in WordsOf(line0) : w[1] < p
<1> SUFFICES ASSUME NEW w \in WordsOf(line0), ~(w[1] < p) PROVE FALSE
  OBVIOUS
<1>1. PICK i \in 1..N : i = w[1] /\ i >= p /\ line0[i] # Space
  <2>1. w[1] \in 1..N /\ w[2] \in w[1]..N /\ \A k \in w[1]..w[2] : line0[k] # Space
    BY WordsOfFacts
  <2>2. w[1] \in w[1]..w[2]
    BY <2>1
  <2>3. QED
    BY <2>1, <2>2
<1>2. PICK q \in p..(N + 1) : q > N /\ \A r \in p..(q - 1) : line0[r] \notin ToSet(line0) \ {Space}
  <2>1. FirstFrom(line0, p, ToSet(line0) \ {Space}, NextIn(line0, p, ToSet(line0) \ {Space}))
    BY NextInFacts
  <2>2. QED
    BY <2>1 DEF FirstFrom
<1>3. i \in p..(q - 1)
  BY <1>1, <1>2
<1>4. line0[i] \in ToSet(line0)
  BY <1>1, LenProperties DEF ToSet
<1>5. QED
  BY <1>1, <1>2, <1>3, <1>4

\* The word from token to before end is the next one from p on.
NextIs(line0, N, p, token, end) ==
  /\ p <= token /\ end \in (token + 1)..(N + 1) /\ (end <= N => line0[end] = Space)
  /\ <<token, end - 1>> \in WordsOf(line0)
  /\ \A w \in WordsOf(line0) : w[1] < end + 1 <=> (w[1] < p \/ w = <<token, end - 1>>)

\* From a position that begins the line or follows a space, the next word is the one between
\* the first character that is no space and the first space after it.
LEMMA NextWord ==
  ASSUME NEW C, NEW line0 \in Seq(C), NEW N \in Nat, N = Len(line0), NEW p \in 1..N,
         p > 1 => line0[p - 1] = Space,
         NEW token \in 1..N, token = NextIn(line0, p, ToSet(line0) \ {Space}),
         NEW end, end = NextIn(line0, token, {Space})
  PROVE  NextIs(line0, N, p, token, end)
<1>1. \A i \in 1..N : line0[i] \in ToSet(line0)
  BY LenProperties DEF ToSet
<1>2. /\ p <= token /\ line0[token] # Space
      /\ \A r \in p..(token - 1) : line0[r] = Space
  <2>1. FirstFrom(line0, p, ToSet(line0) \ {Space}, token)
    BY NextInFacts
  <2>2. p <= token /\ line0[token] \in ToSet(line0) \ {Space}
    BY <2>1 DEF FirstFrom
  <2>3. ASSUME NEW r \in p..(token - 1) PROVE line0[r] = Space
    <3>1. line0[r] \notin ToSet(line0) \ {Space}
      BY <2>1 DEF FirstFrom
    <3>2. r \in 1..N
      OBVIOUS
    <3>3. QED
      BY <1>1, <3>1, <3>2
  <2>4. QED
    BY <2>2, <2>3
<1>3. /\ end \in token..(N + 1) /\ (end <= N => line0[end] = Space)
      /\ \A r \in token..(end - 1) : line0[r] # Space
  <2>1. FirstFrom(line0, token, {Space}, end)
    BY NextInFacts
  <2>2. QED
    BY <2>1 DEF FirstFrom
<1>4. end # token /\ end \in (token + 1)..(N + 1)
  BY <1>2, <1>3
<1>5. token > 1 => line0[token - 1] = Space
  <2>1. CASE token = p
    BY <2>1
  <2>2. CASE token # p
    <3>1. token - 1 \in p..(token - 1)
      BY <1>2, <2>2
    <3>2. QED
      BY <1>2, <3>1
  <2>3. QED
    BY <2>1, <2>2
<1>6. PICK last \in token..N : last = end - 1 /\ end = last + 1
  <2>1. end - 1 \in token..N /\ end = (end - 1) + 1
    BY <1>4
  <2>2. QED
    BY <2>1
<1>7. <<token, last>> \in WordsOf(line0)
  <2>1. last \in 1..N /\ token <= last
    BY <1>6
  <2>2. \A i \in token..last : line0[i] # Space
    BY <1>3, <1>6
  <2>3. last < N => line0[last + 1] = Space
    BY <1>3, <1>6
  <2>4. PICK w \in (1..N) \X (1..N) : w = <<token, last>> /\ w[1] = token /\ w[2] = last
    <3>1. <<token, last>> \in (1..N) \X (1..N)
      BY <2>1
    <3>2. <<token, last>>[1] = token /\ <<token, last>>[2] = last
      OBVIOUS
    <3>3. QED
      BY <3>1, <3>2
  <2>5. /\ w[1] <= w[2] /\ \A i \in w[1]..w[2] : line0[i] # Space
        /\ w[1] > 1 => line0[w[1] - 1] = Space
        /\ w[2] < Len(line0) => line0[w[2] + 1] = Space
    BY <1>5, <2>1, <2>2, <2>3, <2>4
  <2>6. w \in WordsOf(line0)
    BY <2>4, <2>5 DEF WordsOf
  <2>7. QED
    BY <2>4, <2>6
<1>8. ASSUME NEW w \in WordsOf(line0), w[1] < end + 1, ~(w[1] < p) PROVE w = <<token, last>>
  <2>1. PICK a \in 1..N, b \in 1..N :
          /\ a = w[1] /\ b = w[2] /\ w = <<a, b>> /\ a <= b /\ \A i \in a..b : line0[i] # Space
          /\ (a > 1 => line0[a - 1] = Space) /\ (b < N => line0[b + 1] = Space)
    <3>1. /\ w = <<w[1], w[2]>> /\ w[1] \in 1..N /\ w[2] \in w[1]..N
          /\ \A i \in w[1]..w[2] : line0[i] # Space
          /\ (w[1] > 1 => line0[w[1] - 1] = Space)
          /\ (w[2] < N => line0[w[2] + 1] = Space)
      BY WordsOfFacts
    <3>2. w[2] \in 1..N /\ w[1] <= w[2]
      BY <3>1
    <3>3. QED
      BY <3>1, <3>2
  <2>2. a >= p /\ a <= last + 1
    BY <1>6, <1>8, <2>1
  <2>3. a >= token
    <3> SUFFICES ASSUME a < token PROVE FALSE
      BY <2>1
    <3>1. a \in p..(token - 1) /\ a \in a..b
      BY <2>1, <2>2
    <3>2. QED
      BY <1>2, <2>1, <3>1
  <2>4. a # last + 1
    <3> SUFFICES ASSUME a = last + 1 PROVE FALSE
      OBVIOUS
    <3>1. a = end /\ end <= N /\ a \in a..b
      BY <1>6, <2>1
    <3>2. QED
      BY <1>3, <2>1, <3>1
  <2>5. a = token
    <3> SUFFICES ASSUME a > token PROVE FALSE
      BY <2>3
    <3>1. a - 1 \in token..(end - 1) /\ a > 1
      BY <1>6, <2>2, <2>4
    <3>2. QED
      BY <1>3, <2>1, <3>1
  <2>6. b >= last
    <3> SUFFICES ASSUME b < last PROVE FALSE
      BY <1>6
    <3>1. b + 1 \in token..(end - 1) /\ b < N
      BY <1>6, <2>1, <2>5
    <3>2. QED
      BY <1>3, <2>1, <3>1
  <2>7. b <= last
    <3> SUFFICES ASSUME b > last PROVE FALSE
      BY <1>6
    <3>1. end \in a..b /\ end <= N
      BY <1>6, <2>1, <2>5
    <3>2. QED
      BY <1>3, <2>1, <3>1
  <2>8. b = last
    BY <1>6, <2>1, <2>6, <2>7
  <2>9. QED
    BY <2>1, <2>5, <2>8
<1>9. ASSUME NEW w \in WordsOf(line0), w[1] < p \/ w = <<token, last>> PROVE w[1] < end + 1
  <2>1. w[1] \in 1..N
    BY WordsOfFacts
  <2>2. CASE w[1] < p
    BY <1>2, <1>4, <2>1, <2>2
  <2>3. CASE w = <<token, last>>
    <3>1. w[1] = token
      BY <2>3
    <3>2. QED
      BY <1>4, <3>1
  <2>4. QED
    BY <1>9, <2>2, <2>3
<1>10. <<token, last>> = <<token, end - 1>>
  BY <1>6
<1>11. QED
  BY <1>2, <1>3, <1>4, <1>7, <1>8, <1>9, <1>10 DEF NextIs

\* One turn of the loop of parse_args.
OneTurn(line0, acc) ==
  LET token == NextIn(line0, acc.p, ToSet(line0) \ {Space})
      end   == NextIn(line0, token, {Space})
  IN IF acc.p > Len(line0) \/ token > Len(line0) THEN acc
     ELSE [p |-> end + 1, argv |-> Append(acc.argv, SubSeq(line0, token, end - 1))]

Turns(C, N) == [p : 1..(N + 2), argv : Seq(Seq(C))]

\* It keeps the types.
LEMMA TurnTyped ==
  ASSUME NEW C, NEW line0 \in Seq(C), NEW N \in Nat, N = Len(line0), NEW acc \in Turns(C, N)
  PROVE  OneTurn(line0, acc) \in Turns(C, N)
<1>1. PICK p \in 1..(N + 2), argv \in Seq(Seq(C)) : p = acc.p /\ argv = acc.argv
  BY DEF Turns
<1>2. PICK token : token = NextIn(line0, p, ToSet(line0) \ {Space})
  OBVIOUS
<1>3. PICK end : end = NextIn(line0, token, {Space})
  OBVIOUS
<1>4. OneTurn(line0, acc) = IF p > N \/ token > N THEN acc
                            ELSE [p |-> end + 1, argv |-> Append(argv, SubSeq(line0, token, end - 1))]
  BY <1>1, <1>2, <1>3 DEF OneTurn
<1>5. CASE p > N \/ token > N
  BY <1>4, <1>5
<1>6. CASE ~(p > N \/ token > N)
  <2>1. token \in p..(N + 1)
    <3>1. p \in 1..(Len(line0) + 1)
      BY <1>6
    <3>2. FirstFrom(line0, p, ToSet(line0) \ {Space}, token)
      BY <1>2, <3>1, NextInFacts
    <3>3. QED
      BY <3>2 DEF FirstFrom
  <2>2. token \in 1..N /\ token \in 1..(Len(line0) + 1)
    BY <1>6, <2>1
  <2>3. end \in token..(N + 1)
    <3>1. FirstFrom(line0, token, {Space}, end)
      BY <1>3, <2>2, NextInFacts
    <3>2. QED
      BY <3>1 DEF FirstFrom
  <2>4. SubSeq(line0, token, end - 1) \in Seq(C)
    <3>1. PICK last \in Int : last = end - 1 /\ last <= N
      BY <2>3
    <3>2. \A i \in token..last : i \in 1..Len(line0)
      BY <2>2, <3>1
    <3>3. \A i \in token..last : line0[i] \in C
      BY <3>2, ElementOfSeq
    <3>4. SubSeq(line0, token, last) \in Seq(C)
      BY <2>2, <3>1, <3>3, SubSeqProperties
    <3>5. QED
      BY <3>1, <3>4
  <2>5. PICK word \in Seq(C) : word = SubSeq(line0, token, end - 1)
    BY <2>4
  <2>6. Append(argv, word) \in Seq(Seq(C))
    BY AppendProperties
  <2>7. end + 1 \in 1..(N + 2)
    BY <2>2, <2>3
  <2>8. QED
    BY <1>4, <1>6, <2>5, <2>6, <2>7 DEF Turns
<1>7. QED
  BY <1>5, <1>6

\* The words that begin before a position.
Before(words, p) == {v \in words : v[1] < p}

\* After n turns the words before p have been found, in their order, and those are n of
\* them or all.
Found(line0, acc, n) ==
  /\ acc.p > 1 /\ acc.p <= Len(line0) + 1 => line0[acc.p - 1] = Space
  /\ Len(acc.argv) <= n
  /\ Cardinality(Before(WordsOf(line0), acc.p)) = Len(acc.argv)
  /\ \A w \in Before(WordsOf(line0), acc.p) :
       /\ Number(WordsOf(line0), w) \in 1..Len(acc.argv)
       /\ acc.argv[Number(WordsOf(line0), w)] = SubSeq(line0, w[1], w[2])
  /\ Len(acc.argv) = n \/ Before(WordsOf(line0), acc.p) = WordsOf(line0)

\* A turn that finds nothing leaves every word found.
LEMMA LastTurn ==
  ASSUME NEW C, NEW line0 \in Seq(C), NEW N \in Nat, N = Len(line0), NEW acc \in Turns(C, N),
         NEW n \in Nat, Found(line0, acc, n),
         acc.p > N \/ NextIn(line0, acc.p, ToSet(line0) \ {Space}) > N
  PROVE  Found(line0, acc, n + 1)
<1>1. PICK p \in 1..(N + 2) : p = acc.p
  BY DEF Turns
<1>2. PICK k \in Nat : k = Len(acc.argv) /\ k <= n
  <2>1. acc.argv \in Seq(Seq(C))
    BY DEF Turns
  <2>2. Len(acc.argv) \in Nat
    BY <2>1, LenProperties
  <2>3. QED
    BY <2>2 DEF Found
<1>3. \A w \in WordsOf(line0) : w[1] < p
  <2>1. CASE p > N
    <3>1. \A w \in WordsOf(line0) : w[1] \in 1..N
      BY WordsOfFacts
    <3>2. QED
      BY <2>1, <3>1
  <2>2. CASE ~(p > N)
    <3>1. p \in 1..(N + 1) /\ NextIn(line0, p, ToSet(line0) \ {Space}) > N
      BY <1>1, <2>2
    <3>2. QED
      BY <3>1, NoWordLeft
  <2>3. QED
    BY <2>1, <2>2
<1>4. Before(WordsOf(line0), acc.p) = WordsOf(line0)
  BY <1>1, <1>3 DEF Before
<1>5. k <= n + 1
  BY <1>2
<1>6. QED
  BY <1>2, <1>4, <1>5 DEF Found

OneWordMore(words, p, e, new) ==
  /\ Before(words, e) = Before(words, p) \cup {new}
  /\ Cardinality(Before(words, e)) = Cardinality(Before(words, p)) + 1
  /\ Number(words, new) = Cardinality(Before(words, p)) + 1

\* One word more is before e than before p: its number is how many they are.
LEMMA OneMore ==
  ASSUME NEW words, IsFiniteSet(words), \A w \in words : w[1] \in Nat,
         NEW p \in Nat, NEW e \in Nat, NEW new \in words, p <= new[1], new[1] < e,
         \A w \in words : w[1] < e <=> (w[1] < p \/ w = new)
  PROVE  OneWordMore(words, p, e, new)
<1>1. Before(words, e) = Before(words, p) \cup {new}
  BY DEF Before
<1>2. IsFiniteSet(Before(words, p))
  <2>1. Before(words, p) \subseteq words
    BY DEF Before
  <2>2. QED
    BY <2>1, FS_Subset
<1>3. new \notin Before(words, p)
  BY DEF Before
<1>4. Cardinality(Before(words, p)) \in Nat
  BY <1>2, FS_CardinalityType
<1>5. Cardinality(Before(words, e)) = Cardinality(Before(words, p)) + 1
  BY <1>1, <1>2, <1>3, FS_AddElement
<1>6. {v \in words : v[1] <= new[1]} = Before(words, e)
  <2>1. \A v \in words : v[1] <= new[1] <=> v[1] < e
    OBVIOUS
  <2>2. QED
    BY <2>1 DEF Before
<1>7. Number(words, new) = Cardinality(Before(words, e))
  BY <1>6 DEF Number
<1>8. QED
  BY <1>1, <1>5, <1>7 DEF OneWordMore

\* A turn that finds a word appends it.
LEMMA TurnFinds ==
  ASSUME NEW C, NEW line0 \in Seq(C), NEW N \in Nat, N = Len(line0), NEW acc \in Turns(C, N),
         NEW n \in Nat, Found(line0, acc, n),
         acc.p <= N, NextIn(line0, acc.p, ToSet(line0) \ {Space}) <= N
  PROVE  Found(line0, OneTurn(line0, acc), n + 1)
<1> DEFINE words == WordsOf(line0)
<1>1. PICK p \in 1..N, argv \in Seq(Seq(C)) : p = acc.p /\ argv = acc.argv
  BY DEF Turns
<1>2. PICK token \in 1..N : token = NextIn(line0, p, ToSet(line0) \ {Space})
  <2>1. p \in 1..(Len(line0) + 1)
    OBVIOUS
  <2>2. FirstFrom(line0, p, ToSet(line0) \ {Space}, NextIn(line0, p, ToSet(line0) \ {Space}))
    BY <2>1, NextInFacts
  <2>3. NextIn(line0, p, ToSet(line0) \ {Space}) \in p..(N + 1)
    BY <2>2 DEF FirstFrom
  <2>4. NextIn(line0, p, ToSet(line0) \ {Space}) <= N
    BY <1>1
  <2>5. PICK q : q = NextIn(line0, p, ToSet(line0) \ {Space})
    OBVIOUS
  <2>6. q \in 1..N
    <3>1. q \in p..(N + 1) /\ q <= N
      BY <2>3, <2>4, <2>5
    <3>2. QED
      BY <3>1
  <2>7. QED
    BY <2>5, <2>6
<1>3. p > 1 => line0[p - 1] = Space
  BY <1>1 DEF Found
<1>4. PICK end : end = NextIn(line0, token, {Space})
  OBVIOUS
<1>5. /\ p <= token /\ end \in (token + 1)..(N + 1) /\ (end <= N => line0[end] = Space)
      /\ <<token, end - 1>> \in words
      /\ \A w \in words : w[1] < end + 1 <=> (w[1] < p \/ w = <<token, end - 1>>)
  <2>1. NextIs(line0, N, p, token, end)
    BY <1>2, <1>3, <1>4, NextWord
  <2>2. QED
    BY <2>1 DEF NextIs
<1>6. PICK last \in 1..N, e \in 1..(N + 2) : last = end - 1 /\ e = end + 1 /\ e - 1 = end
  <2>1. end - 1 \in 1..N /\ end + 1 \in 1..(N + 2) /\ (end + 1) - 1 = end
    BY <1>5
  <2>2. QED
    BY <2>1
<1>7. PICK new \in words : new = <<token, last>> /\ new[1] = token /\ new[2] = last
  <2>1. <<token, last>> \in words
    BY <1>5, <1>6
  <2>2. QED
    BY <2>1
<1>8. OneTurn(line0, acc) = [p |-> e, argv |-> Append(argv, SubSeq(line0, token, last))]
  <2>1. ~(p > Len(line0) \/ token > Len(line0))
    OBVIOUS
  <2>2. OneTurn(line0, acc) = IF p > Len(line0) \/ token > Len(line0) THEN acc
                              ELSE [p |-> end + 1, argv |-> Append(argv, SubSeq(line0, token, end - 1))]
    BY <1>1, <1>2, <1>4, Zenon DEF OneTurn
  <2>3. QED
    BY <1>6, <2>1, <2>2, Zenon
<1>9. PICK word \in Seq(C) : word = SubSeq(line0, token, last)
  <2>1. \A i \in token..last : i \in 1..Len(line0)
    OBVIOUS
  <2>2. \A i \in token..last : line0[i] \in C
    BY <2>1, ElementOfSeq
  <2>3. SubSeq(line0, token, last) \in Seq(C)
    BY <2>2, SubSeqProperties
  <2>4. QED
    BY <2>3
<1>10. PICK k \in Nat : k = Len(argv)
  BY LenProperties
<1>11. PICK after : after = Append(argv, word)
  OBVIOUS
<1>12. /\ Len(after) = k + 1 /\ after[k + 1] = word
       /\ \A i \in 1..k : after[i] = argv[i]
  BY <1>10, <1>11, AppendProperties
<1>13. /\ k <= n /\ Cardinality(Before(words, p)) = k
       /\ k = n \/ Before(words, p) = words
       /\ \A w \in Before(words, p) :
            Number(words, w) \in 1..k /\ argv[Number(words, w)] = SubSeq(line0, w[1], w[2])
  BY <1>1, <1>10 DEF Found
<1>14. /\ Before(words, e) = Before(words, p) \cup {new}
       /\ Cardinality(Before(words, e)) = k + 1
       /\ Number(words, new) = k + 1
  <2>1. IsFiniteSet(words) /\ \A w \in words : w[1] \in 1..N
    BY WordsOfFacts
  <2>2. \A w \in words : w[1] \in Nat
    BY <2>1
  <2>3. p <= new[1] /\ new[1] < e /\ p \in Nat /\ e \in Nat
    BY <1>5, <1>6, <1>7
  <2>4. \A w \in words : w[1] < e <=> (w[1] < p \/ w = new)
    BY <1>5, <1>6, <1>7
  <2> HIDE DEF words
  <2>5. /\ Before(words, e) = Before(words, p) \cup {new}
        /\ Cardinality(Before(words, e)) = Cardinality(Before(words, p)) + 1
        /\ Number(words, new) = Cardinality(Before(words, p)) + 1
    <3>1. OneWordMore(words, p, e, new)
      BY <2>1, <2>2, <2>3, <2>4, OneMore
    <3>2. QED
      BY <3>1 DEF OneWordMore
  <2>6. QED
    BY <1>13, <2>5
<1>15. k = n
  <2> SUFFICES ASSUME Before(words, p) = words PROVE FALSE
    BY <1>13
  <2>1. new[1] < p
    BY DEF Before
  <2>2. QED
    BY <1>5, <1>7, <2>1
<1>16. PICK res : res = OneTurn(line0, acc) /\ res.p = e /\ res.argv = after
  <2>1. OneTurn(line0, acc) = [p |-> e, argv |-> after]
    BY <1>8, <1>9, <1>11, Zenon
  <2>2. [p |-> e, argv |-> after].p = e /\ [p |-> e, argv |-> after].argv = after
    OBVIOUS
  <2>3. QED
    BY <2>1, <2>2
<1>17. e > 1 /\ e <= Len(line0) + 1 => line0[e - 1] = Space
  BY <1>5, <1>6
<1>18. ASSUME NEW w \in Before(words, e)
       PROVE Number(words, w) \in 1..(k + 1) /\ after[Number(words, w)] = SubSeq(line0, w[1], w[2])
  <2>1. CASE w = new
    <3>1. k + 1 \in 1..(k + 1) /\ Number(words, w) = k + 1
      BY <1>14, <2>1
    <3>2. after[k + 1] = SubSeq(line0, new[1], new[2])
      BY <1>7, <1>9, <1>12
    <3>3. QED
      BY <2>1, <3>1, <3>2
  <2>2. CASE w \in Before(words, p)
    <3>1. PICK m \in 1..k : m = Number(words, w) /\ argv[m] = SubSeq(line0, w[1], w[2])
      BY <1>13, <2>2
    <3>2. m \in 1..(k + 1) /\ after[m] = argv[m]
      BY <1>12
    <3>3. QED
      BY <3>1, <3>2
  <2>3. QED
    BY <1>14, <1>18, <2>1, <2>2
<1>19. /\ Len(after) <= n + 1 /\ Len(after) = n + 1
       /\ Cardinality(Before(words, e)) = Len(after)
       /\ \A w \in Before(words, e) :
            Number(words, w) \in 1..Len(after) /\ after[Number(words, w)] = SubSeq(line0, w[1], w[2])
  BY <1>12, <1>14, <1>15, <1>18
<1>20. QED
  BY <1>16, <1>17, <1>19 DEF Found

\* After MAX_ARGS + 1 turns, what parse_args has found.
LEMMA AllTurns ==
  ASSUME NEW C, NEW line0 \in Seq(C), NEW N \in Nat, N = Len(line0)
  PROVE  \E acc \in Turns(C, N) : Found(line0, acc, MAX_ARGS + 1) /\ parse_args(line0) = acc.argv
<1> DEFINE S == Turns(C, N)
           base == [p |-> 1, argv |-> <<>>]
           Solves(f) == f = [n \in 0..(MAX_ARGS + 1) |->
                               IF n = 0 THEN [p |-> 1, argv |-> <<>>]
                               ELSE LET prev == f[n - 1]
                                        token == NextIn(line0, prev.p, ToSet(line0) \ {Space})
                                        end == NextIn(line0, token, {Space})
                                    IN IF prev.p > Len(line0) \/ token > Len(line0) THEN prev
                                       ELSE [p |-> end + 1,
                                             argv |-> Append(prev.argv, SubSeq(line0, token, end - 1))]]
           turn == CHOOSE f : Solves(f)
           h == [n \in 1..(MAX_ARGS + 1) |-> [acc \in S |-> OneTurn(line0, acc)]]
<1>1. parse_args(line0) = turn[MAX_ARGS + 1].argv
  BY DEF parse_args
<1>2. PICK M \in Nat : M = MAX_ARGS + 1
  <2>1. MAX_ARGS + 1 \in Nat
    BY TextAssumption
  <2>2. QED
    BY <2>1
<1>3. base \in S
  <2>1. 1 \in 1..(N + 2) /\ <<>> \in Seq(Seq(C))
    BY EmptySeq
  <2>2. QED
    BY <2>1 DEF Turns
<1>4. \A acc \in S : OneTurn(line0, acc) \in S
  BY TurnTyped
<1>5. h \in [1..M -> [S -> S]]
  <2> HIDE DEF S
  <2>1. QED
    BY <1>2, <1>4
<1>6. PICK f : RunOf(S, base, M, h, f)
  <2> HIDE DEF S, h, base
  <2>1. QED
    BY <1>3, <1>5, LoopExists, Zenon
<1>7. f \in [0..M -> S] /\ f[0] = base /\ \A n \in 1..M : f[n] = OneTurn(line0, f[n - 1])
  <2> HIDE DEF S, base
  <2>1. \A n \in 1..M : n - 1 \in 0..M
    OBVIOUS
  <2>2. \A n \in 1..M : f[n - 1] \in S
    BY <1>6, <2>1 DEF RunOf
  <2>3. QED
    BY <1>2, <1>6, <2>1, <2>2 DEF RunOf
<1>8. Solves(f)
  <2> HIDE DEF S, h
  <2>1. \A n \in 0..M : n # 0 => n \in 1..M
    OBVIOUS
  <2>2. \A n \in 0..M :
          f[n] = IF n = 0 THEN [p |-> 1, argv |-> <<>>]
                 ELSE LET prev == f[n - 1]
                          token == NextIn(line0, prev.p, ToSet(line0) \ {Space})
                          end == NextIn(line0, token, {Space})
                      IN IF prev.p > Len(line0) \/ token > Len(line0) THEN prev
                         ELSE [p |-> end + 1,
                               argv |-> Append(prev.argv, SubSeq(line0, token, end - 1))]
    BY <1>7, <2>1 DEF OneTurn
  <2>3. f = [n \in 0..M |-> f[n]]
    BY <1>7
  <2>4. QED
    BY <1>2, <2>2, <2>3
<1>9. Solves(turn)
  <2> HIDE DEF Solves
  <2>1. QED
    BY <1>8
<1>10. turn[0] = base /\ \A n \in 1..M : turn[n] = OneTurn(line0, turn[n - 1])
  <2> HIDE DEF turn
  <2>1. 0 \in 0..M /\ \A n \in 1..M : n \in 0..M /\ n # 0
    OBVIOUS
  <2>2. QED
    BY <1>2, <1>9, <2>1 DEF OneTurn
<1> HIDE DEF turn, h, Solves
<1> DEFINE Good(n) == turn[n] \in S /\ Found(line0, turn[n], n)
           T == {n \in Nat : n <= M => Good(n)}
<1>11. Good(0)
  <2>1. Before(WordsOf(line0), 1) = {}
    <3>1. \A w \in WordsOf(line0) : w[1] \in 1..N
      BY WordsOfFacts
    <3>2. \A w \in WordsOf(line0) : ~(w[1] < 1)
      BY <3>1
    <3>3. QED
      BY <3>2 DEF Before
  <2>2. Cardinality({}) = 0 /\ Len(<<>>) = 0
    BY FS_EmptySet
  <2>3. PICK acc \in S : acc = turn[0] /\ acc.p = 1 /\ acc.argv = <<>>
    <3>1. turn[0] = base /\ base.p = 1 /\ base.argv = <<>>
      BY <1>10
    <3> HIDE DEF base, S
    <3>2. QED
      BY <1>3, <3>1
  <2> HIDE DEF S
  <2>4. Found(line0, acc, 0)
    <3>1. Before(WordsOf(line0), acc.p) = {} /\ Len(acc.argv) = 0 /\ ~(acc.p > 1) /\ 0 <= 0
      BY <2>1, <2>2, <2>3
    <3>2. QED
      BY <2>2, <3>1, Zenon DEF Found
  <2>5. QED
    BY <2>3, <2>4
<1>12. ASSUME NEW n \in Nat, n + 1 <= M, Good(n) PROVE Good(n + 1)
  <2>1. PICK acc \in Turns(C, N) : acc = turn[n] /\ Found(line0, acc, n)
    BY <1>12
  <2>2. turn[n + 1] = OneTurn(line0, acc)
    <3>1. PICK m \in 1..M : m = n + 1 /\ m - 1 = n
      <4>1. n + 1 \in 1..M /\ (n + 1) - 1 = n
        BY <1>12
      <4>2. QED
        BY <4>1
    <3>2. QED
      BY <1>10, <2>1, <3>1
  <2>3. OneTurn(line0, acc) \in Turns(C, N)
    BY TurnTyped
  <2>4. Found(line0, OneTurn(line0, acc), n + 1)
    <3>1. CASE acc.p > N \/ NextIn(line0, acc.p, ToSet(line0) \ {Space}) > N
      <4>1. OneTurn(line0, acc) = acc
        BY <3>1, Zenon DEF OneTurn
      <4>2. Found(line0, acc, n + 1)
        BY <2>1, <3>1, LastTurn
      <4>3. QED
        BY <4>1, <4>2
    <3>2. CASE ~(acc.p > N \/ NextIn(line0, acc.p, ToSet(line0) \ {Space}) > N)
      <4>1. acc.p \in 1..N
        BY <3>2 DEF Turns
      <4>2. NextIn(line0, acc.p, ToSet(line0) \ {Space}) <= N
        <5>1. PICK p \in 1..N : p = acc.p
          BY <4>1
        <5>2. p \in 1..(Len(line0) + 1)
          OBVIOUS
        <5>3. FirstFrom(line0, p, ToSet(line0) \ {Space}, NextIn(line0, p, ToSet(line0) \ {Space}))
          BY <5>2, NextInFacts
        <5>4. NextIn(line0, p, ToSet(line0) \ {Space}) \in p..(N + 1)
          BY <5>3 DEF FirstFrom
        <5>5. QED
          BY <3>2, <5>1, <5>4
      <4>3. acc.p <= N
        BY <4>1
      <4>4. QED
        BY <2>1, <4>2, <4>3, TurnFinds
    <3>3. QED
      BY <3>1, <3>2
  <2>5. QED
    BY <2>2, <2>3, <2>4
<1> HIDE DEF Good
<1>13. 0 \in T
  BY <1>11
<1>14. ASSUME NEW n \in Nat, n \in T PROVE n + 1 \in T
  <2>1. CASE n + 1 <= M
    <3>1. Good(n)
      BY <1>14, <2>1
    <3>2. QED
      BY <1>12, <2>1, <3>1
  <2>2. QED
    BY <2>1
<1>15. Good(M)
  <2>1. M \in T
    <3> HIDE DEF T
    <3>1. QED
      BY <1>13, <1>14, SetOfAllNat
  <2>2. QED
    BY <2>1
<1>16. QED
  BY <1>1, <1>2, <1>15 DEF Good

\* The arguments of any line are its words, in their order and up to the limit, wherever
\* the spaces are (parse_args).
THEOREM LineWordsAreArguments ==
  ASSUME NEW C, NEW line0 \in Seq(C)
  PROVE  FindsWords(line0)
<1> DEFINE words == WordsOf(line0)
           args == parse_args(line0)
<1>1. PICK N \in Nat : N = Len(line0)
  BY LenProperties
<1>2. PICK acc \in Turns(C, N) : Found(line0, acc, MAX_ARGS + 1) /\ args = acc.argv
  BY <1>1, AllTurns
<1>3. PICK p \in 1..(N + 2), k \in Nat : p = acc.p /\ k = Len(args)
  <2>1. acc.p \in 1..(N + 2) /\ Len(acc.argv) \in Nat
    <3>1. acc.p \in 1..(N + 2) /\ acc.argv \in Seq(Seq(C))
      BY DEF Turns
    <3>2. QED
      BY <3>1, LenProperties
  <2>2. QED
    BY <1>2, <2>1
<1>4. /\ k <= MAX_ARGS + 1 /\ Cardinality(Before(words, p)) = k
      /\ \A w \in Before(words, p) :
           Number(words, w) \in 1..k /\ args[Number(words, w)] = SubSeq(line0, w[1], w[2])
      /\ k = MAX_ARGS + 1 \/ Before(words, p) = words
  BY <1>2, <1>3 DEF Found
<1>5. IsFiniteSet(words) /\ Before(words, p) \subseteq words
  BY <1>1, WordsOfFacts DEF Before
<1>6. PICK c \in Nat : c = Cardinality(words) /\ k <= c
  <2> HIDE DEF words
  <2>1. Cardinality(words) \in Nat /\ Cardinality(Before(words, p)) <= Cardinality(words)
    BY <1>5, FS_CardinalityType, FS_Subset
  <2>2. QED
    BY <1>4, <2>1
<1>7. k = IF c > MAX_ARGS THEN MAX_ARGS + 1 ELSE c
  <2>1. MAX_ARGS \in Nat
    BY TextAssumption
  <2>2. Before(words, p) = words => k = c
    BY <1>4, <1>6
  <2>3. QED
    BY <1>4, <1>6, <2>1, <2>2
<1>8. ASSUME NEW w \in words, Number(words, w) <= k, w \notin Before(words, p) PROVE FALSE
  <2>1. \A v \in words : v[1] \in 1..N
    BY <1>1, WordsOfFacts
  <2>2. w \in words /\ w[1] \in 1..N /\ w[1] >= p
    BY <1>8, <2>1 DEF Before
  <2> HIDE DEF words
  <2>3. Before(words, p) \cup {w} \subseteq {v \in words : v[1] <= w[1]}
    <3>1. \A v \in words : v[1] < p => v[1] <= w[1]
      BY <2>1, <2>2
    <3>2. QED
      BY <2>2, <3>1 DEF Before
  <2>4. IsFiniteSet({v \in words : v[1] <= w[1]}) /\ IsFiniteSet(Before(words, p))
    <3>1. {v \in words : v[1] <= w[1]} \subseteq words
      OBVIOUS
    <3>2. QED
      BY <1>5, <3>1, FS_Subset
  <2>5. Cardinality(Before(words, p) \cup {w}) = k + 1
    BY <1>4, <1>8, <2>4, FS_AddElement
  <2>6. Cardinality(Before(words, p) \cup {w}) <= Number(words, w)
    BY <2>3, <2>4, FS_Subset DEF Number
  <2>7. Number(words, w) \in Nat
    BY <2>4, FS_CardinalityType DEF Number
  <2>8. QED
    BY <1>8, <2>5, <2>6, <2>7
<1>9. \A w \in words : Number(words, w) <= k => args[Number(words, w)] = SubSeq(line0, w[1], w[2])
  BY <1>4, <1>8
<1>10. QED
  BY <1>3, <1>6, <1>7, <1>9 DEF FindsWords

\* The lines of the run are among them.
LEMMA ArgsMeetTheirReference == ArgsAreWords
<1> DEFINE C == {"a", Space}
<1>1. ASSUME NEW line0 \in Strings(C, 2 * MAX_ARGS + 3) PROVE FindsWords(line0)
  <2>1. PICK k \in 0..(2 * MAX_ARGS + 3) : line0 \in [1..k -> C]
    BY DEF Strings
  <2>2. k \in Nat
    BY TextAssumption
  <2> HIDE DEF C
  <2>3. line0 \in Seq(C)
    BY <2>1, <2>2, FunctionIsSeq
  <2>4. QED
    BY <2>3, LineWordsAreArguments
<1>2. QED
  BY <1>1 DEF ArgsAreWords

\* TextMeetsItsReferences (Shell): numerals, arguments and the division are what their
\* references say (hex_to_uint32, dec_to_uint32, parse_args, div64by32).
THEOREM TextIsRight == Spec => []TextMeetsItsReferences
<1>1. TextMeetsItsReferences
  BY HexMeetsItsReference, DecMeetsItsReference, ArgsMeetTheirReference, DivisionMeetsItsReference
     DEF TextMeetsItsReferences
<1>2. QED
  BY <1>1, PTL
=============================================================================
