----------------------------- MODULE ShellText -----------------------------
(***************************************************************************)
(* The text the shell reads and prints (sw/examples/shell.c): numbers,     *)
(* arguments, and the 64-bit division of cmd_uptime.  A C string is the    *)
(* sequence of its characters before the NUL, a character a string of      *)
(* length one.  WIDTH is the width of uint32_t and MAX_ARGS the code's     *)
(* macro; the code has 32 and 4.                                           *)
(***************************************************************************)
EXTENDS Integers, SequencesExt

CONSTANTS WIDTH, MAX_ARGS

ASSUME TextAssumption == /\ WIDTH \in Nat \ {0} /\ WIDTH % 4 = 0
                         /\ MAX_ARGS \in Nat \ {0}
HexLen == WIDTH \div 4
\* How powers grow, of which the prover knows nothing.
ASSUME PowerAssumption == /\ 2^0 = 1 /\ \A n \in 0..(WIDTH - 1) : 2^(n + 1) = 2 * 2^n
                          /\ 16^0 = 1 /\ \A n \in 0..(HexLen - 1) : 16^(n + 1) = 16 * 16^n

Words == 0..(2^WIDTH - 1)
Wrap(n) == n % 2^WIDTH
Invalid == -1   \* the result of a parser that fails; *out is then not used

hextab == <<"0", "1", "2", "3", "4", "5", "6", "7",
            "8", "9", "A", "B", "C", "D", "E", "F">>
lower == <<"a", "b", "c", "d", "e", "f">>
Decimals == {hextab[i] : i \in 1..10}
HexChars == ToSet(hextab) \cup ToSet(lower)
Nibble == [c \in HexChars |-> IF c \in ToSet(lower) THEN 9 + CHOOSE i \in 1..6 : lower[i] = c
                              ELSE (CHOOSE i \in 1..16 : hextab[i] = c) - 1]

\* Faulty: no limit on the digits.
hex_to_uint32_unlimited(s) ==
  IF s # <<>> /\ ToSet(s) \subseteq HexChars
  THEN FoldLeft(LAMBDA val, c : Wrap(16 * val) + Nibble[c], 0, s) ELSE Invalid

hex_to_uint32(s) ==
  LET prefixed == Len(s) >= 2 /\ s[1] = "0" /\ s[2] \in {"x", "X"}
      body == IF prefixed THEN SubSeq(s, 3, Len(s)) ELSE s
  IN IF Len(body) \in 1..HexLen /\ ToSet(body) \subseteq HexChars
     THEN FoldLeft(LAMBDA val, c : Wrap(16 * val) + Nibble[c], 0, body)
     ELSE Invalid

\* One digit more; the test for overflow is the code's.
DecDigit(val, c) ==
  LET next == Wrap(10 * val + Nibble[c])
  IN IF val = Invalid \/ c \notin Decimals \/ next < val THEN Invalid ELSE next

dec_to_uint32(s) == IF s = <<>> THEN Invalid ELSE FoldLeft(DecDigit, 0, s)

uint32_to_hex(val) == [i \in 1..HexLen |-> hextab[1 + ((val \div 16^(HexLen - i)) % 16)]]

DecDigits[val \in Words] ==
  IF val = 0 THEN <<>> ELSE Append(DecDigits[val \div 10], hextab[1 + (val % 10)])
uint32_to_dec(val) == IF val = 0 THEN <<"0">> ELSE DecDigits[val]

Space == " "
\* The first position from p on whose character is in (not in) a set, or one past the end.
NextIn(line, p, chars) ==
  CHOOSE q \in p..(Len(line) + 1) :
    /\ q <= Len(line) => line[q] \in chars
    /\ \A r \in p..(q - 1) : line[r] \notin chars

\* parse_args, one turn of its loop after another: p is where the next turn looks.  At
\* most MAX_ARGS + 1 tokens; what follows them is dropped.
parse_args(line) ==
  LET turn[n \in 0..(MAX_ARGS + 1)] ==
        IF n = 0 THEN [p |-> 1, argv |-> <<>>]
        ELSE LET before == turn[n - 1]
                 token  == NextIn(line, before.p, ToSet(line) \ {Space})
                 end    == NextIn(line, token, {Space})
             IN IF before.p > Len(line) \/ token > Len(line) THEN before
                ELSE [p |-> end + 1, argv |-> Append(before.argv, SubSeq(line, token, end - 1))]
  IN turn[MAX_ARGS + 1].argv

\* One bit of the long division: the remainder is WIDTH bits wide.
DivideBit(acc, bit, weight, divisor) ==
  LET rem == Wrap(2 * acc.rem) + bit
  IN IF rem >= divisor THEN [rem |-> rem - divisor, q |-> acc.q + weight] ELSE [acc EXCEPT !.rem = rem]

\* One word of the dividend, from the top bit down.
DivideWord(rem, word, divisor) ==
  LET step[n \in 0..WIDTH] ==
        IF n = 0 THEN [rem |-> rem, q |-> 0]
        ELSE DivideBit(step[n - 1], (word \div 2^(WIDTH - n)) % 2, 2^(WIDTH - n), divisor)
  IN step[WIDTH]

\* The quotient's low word and the remainder; the high word is dropped.
div64by32(hi, lo, divisor) == DivideWord(DivideWord(0, hi, divisor).rem, lo, divisor)
-----------------------------------------------------------------------------
\* What the properties quantify over.
Strings(chars, n) == UNION {[1..k -> chars] : k \in 0..n}

\* hex_to_uint32 accepts exactly the numerals of words, in either case, with or
\* without 0x, and reads what uint32_to_hex prints: no digit too many wraps, no
\* bare prefix passes for a zero.
Capital(c) == IF c \in ToSet(lower) THEN hextab[10 + CHOOSE i \in 1..6 : lower[i] = c] ELSE c
ReadAsHex(s) ==
  LET body == IF Len(s) >= 2 /\ s[1] = "0" /\ s[2] \in {"x", "X"} THEN SubSeq(s, 3, Len(s)) ELSE s
      capitals == [i \in 1..Len(body) |-> Capital(body[i])]
      padded == [i \in 1..(HexLen - Len(body)) |-> "0"] \o capitals
      numerals == {val \in Words : body # <<>> /\ uint32_to_hex(val) = padded}
  IN IF numerals = {} THEN hex_to_uint32(s) = Invalid ELSE hex_to_uint32(s) \in numerals
Samples == {"0", "7", "A", "b", "f", "x", "X", "g"}
HexAcceptsNumerals == \A s \in Strings(Samples, HexLen + 3) : ReadAsHex(s)

\* dec_to_uint32 reads what uint32_to_dec prints, leading zeros or not: its test
\* for overflow refuses no word (dec_to_uint32 against uint32_to_dec).
ReadAsDec(zeros, val) == dec_to_uint32(zeros \o uint32_to_dec(val)) = val
DecReadsWhatItPrints == \A zeros \in Strings({"0"}, 2), val \in Words : ReadAsDec(zeros, val)

\* parse_args finds the words of the line, the maximal runs without a space, in
\* order and up to its limit, wherever the spaces are: the k-th word is argument k.
WordsOf(line) == {w \in (1..Len(line)) \X (1..Len(line)) :
                    /\ w[1] <= w[2] /\ \A i \in w[1]..w[2] : line[i] # Space
                    /\ w[1] > 1 => line[w[1] - 1] = Space
                    /\ w[2] < Len(line) => line[w[2] + 1] = Space}
Number(words, w) == Cardinality({v \in words : v[1] <= w[1]})
FindsWords(line) ==
  LET words == WordsOf(line)
      args == parse_args(line)
  IN /\ Len(args) = IF Cardinality(words) > MAX_ARGS THEN MAX_ARGS + 1 ELSE Cardinality(words)
     /\ \A w \in words : Number(words, w) <= Len(args) =>
                           args[Number(words, w)] = SubSeq(line, w[1], w[2])
ArgsAreWords == \A line \in Strings({"a", Space}, 2 * MAX_ARGS + 3) : FindsWords(line)

\* div64by32 divides: the remainder goes from the high word into the low one and
\* never outgrows its register, for divisors that leave the top bit free.
Divides(hi, lo, divisor) ==
  LET dividend == hi * 2^WIDTH + lo
      quotient == dividend \div divisor
  IN div64by32(hi, lo, divisor) = [q |-> Wrap(quotient), rem |-> dividend - quotient * divisor]
DivisionIsExact ==
  LET sample == (0..9) \cup {2^(WIDTH - 1) - 1, 2^(WIDTH - 1), 2^WIDTH - 2, 2^WIDTH - 1}
  IN \A hi \in sample, lo \in sample, divisor \in {d \in sample : d \in 1..2^(WIDTH - 1)} :
       Divides(hi, lo, divisor)
=============================================================================
