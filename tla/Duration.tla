------------------------------ MODULE Duration ------------------------------
(***************************************************************************)
(* The durations of the configuration (src/serde/duration.rs): how one is  *)
(* read from a text and how it is written.                                 *)
(*                                                                         *)
(* A text is a sequence of characters.  The unit ratios and the widths of  *)
(* the integers and of the mantissa of a float are constants, so that      *)
(* small texts reach the limits; the arithmetic is that of the release     *)
(* build, in which `+` wraps.                                              *)
(***************************************************************************)
EXTENDS Integers, Sequences, FiniteSets, SequencesExt, FiniteSetsExt

CONSTANTS
  PREC,       \* decimal digits between ns, us, ms and s (3)
  SIXTY, HOURS, DAYS,   \* seconds to a minute, hours to a day, days to a week
  MAX,        \* u64::MAX
  MANTISSA    \* bits of the mantissa of an f64 (53)

ASSUME UnitsAssumption ==
  /\ PREC \in Nat \ {0}
  /\ SIXTY \in Nat \ {0} /\ HOURS \in Nat \ {0} /\ DAYS \in Nat \ {0}
  /\ MAX \in Nat /\ MANTISSA \in Nat \ {0}

NANOSECOND == 1
MICROSECOND == 10 ^ PREC
MILLISECOND == 10 ^ (2 * PREC)
SECOND == 10 ^ (3 * PREC)
MINUTE == SIXTY * SECOND
HOUR == SIXTY * MINUTE
DAY == HOURS * HOUR
WEEK == DAYS * DAY

Digits == <<"0", "1", "2", "3", "4", "5", "6", "7", "8", "9">>
IsDigit(c) == Contains(Digits, c)
DigitValue(c) == SelectInSeq(Digits, LAMBDA d : d = c) - 1

BadDuration == -1

-----------------------------------------------------------------------------
(* parse_duration.                                                         *)

\* The position after the run of characters in `chars` from p on.
RunEnd(s, p, chars) ==
  LET stop == SelectInSubSeq(s, p, Len(s), LAMBDA c : c \notin chars)
  IN IF stop = 0 THEN Len(s) + 1 ELSE stop

\* leading_int: one that has no room for another digit is bad; the last digit
\* is added without a check.
LeadingInt(digits) ==
  FoldLeft(LAMBDA x, c : IF x = BadDuration \/ x > MAX \div 10 THEN BadDuration
                         ELSE (10 * x + DigitValue(c)) % (MAX + 1),
           0, digits)

\* leading_fraction: digits beyond the range of i64 are passed over.
LeadingFraction(digits) ==
  LET imax == MAX \div 2
      Add(a, c) ==
        LET y == 10 * a.x + DigitValue(c)
        IN IF a.overflow \/ a.x > imax \div 10 \/ y > imax
           THEN [a EXCEPT !.overflow = TRUE]
           ELSE [a EXCEPT !.x = y, !.scale = 10 * @]
  IN FoldLeft(Add, [x |-> 0, scale |-> 1, overflow |-> FALSE], digits)

UnitOf(u) ==
  CASE u = <<"n", "s">> -> NANOSECOND
    [] u \in {<<"u", "s">>, <<"U+00B5", "s">>, <<"U+03BC", "s">>} -> MICROSECOND
    [] u = <<"m", "s">> -> MILLISECOND
    [] u = <<"s">> -> SECOND
    [] u = <<"m">> -> MINUTE
    [] u = <<"h">> -> HOUR
    [] u = <<"d">> -> DAY
    [] u = <<"w">> -> WEEK
    [] OTHER -> 0

Shift(n, e) == IF e > 0 THEN n * 2 ^ e ELSE n

\* The float next to n / d > 0, of two that are as near the even one; it is
\* m * 2^-e.
Float(n, d) ==
  LET e == CHOOSE k \in (-MANTISSA)..(3 * MANTISSA) :
             Shift(n, k) \div Shift(d, -k) \in (2 ^ (MANTISSA - 1))..(2 ^ MANTISSA - 1)
      m == Shift(n, e) \div Shift(d, -e)
      rest == Shift(n, e) % Shift(d, -e)
      other == Shift(d, -e) - rest
  IN [m |-> IF rest > other \/ (rest = other /\ m % 2 = 1) THEN m + 1 ELSE m, e |-> e]

\* (f as f64 * (unit as f64 / scale)) as u64: unit and scale are floats, the
\* fraction, the quotient (here of what is left of both without their common
\* zeros) and the product are rounded, the result is cut off.
FractionOf(f, scale, unit) ==
  LET zeros == Max({z \in {10 ^ k : k \in 0..(4 * PREC)} : unit % z = 0 /\ scale % z = 0})
      a == Float(f, 1)
      b == Float(unit \div zeros, scale \div zeros)
      c == Float(a.m * b.m, 1)
      e == a.e + b.e + c.e
  IN Shift(c.m, -e) \div Shift(1, e)

\* Mutant of TermValue: the fraction is counted in seconds.
TermValueSeconds(int, frac, unit) ==
  int * unit + (IF frac.x > 0 THEN FractionOf(frac.x, frac.scale, SECOND) ELSE 0)

\* int and frac of a unit, in nanoseconds.
TermValue(int, frac, unit) ==
  int * unit + (IF frac.x > 0 THEN FractionOf(frac.x, frac.scale, unit) ELSE 0)

\* One turn of the loop, from position p on: the value of the number and its
\* unit, bad if they are, and the position after them.
Term(s, p) ==
  LET dot == RunEnd(s, p, Range(Digits))
      hasDot == dot <= Len(s) /\ s[dot] = "."
      unitAt == IF hasDot THEN RunEnd(s, dot + 1, Range(Digits)) ELSE dot
      next == RunEnd(s, unitAt, Range(s) \ (Range(Digits) \cup {"."}))
      int == LeadingInt(SubSeq(s, p, dot - 1))
      frac == LeadingFraction(IF hasDot THEN SubSeq(s, dot + 1, unitAt - 1) ELSE <<>>)
      unit == UnitOf(SubSeq(s, unitAt, next - 1))
      bad == \/ ~IsDigit(s[p]) /\ s[p] # "."
             \/ int = BadDuration
             \/ dot = p /\ unitAt = dot + 1                \* no digits
             \/ unit = 0                                   \* missing or unknown
             \/ int > MAX \div unit
             \/ frac.x > 0 /\ TermValue(int, frac, unit) > MAX
  IN [value |-> IF bad THEN BadDuration ELSE TermValue(int, frac, unit), next |-> next]

\* The loop, from position p on; d is a u64 that wraps.
Terms(s) ==
  LET rest[p \in 1..(Len(s) + 1)] ==
        IF p > Len(s) THEN 0
        ELSE LET term == Term(s, p)
             IN IF term.value = BadDuration \/ rest[term.next] = BadDuration THEN BadDuration
                ELSE (term.value + rest[term.next]) % (MAX + 1)
  IN rest[1]

ParseDuration(text) ==
  LET s == IF text # <<>> /\ Head(text) \in {"+", "-"} THEN Tail(text) ELSE text
  IN IF text # <<>> /\ Head(text) = "-" THEN BadDuration
     ELSE IF s = <<"0">> THEN 0
     ELSE IF s = <<>> THEN BadDuration
     ELSE Terms(s)

-----------------------------------------------------------------------------
(* duration, the other way round.                                          *)

\* The last n decimal digits of v.
LastDigits(v, n) == [k \in 1..n |-> Digits[((v \div 10 ^ (n - k)) % 10) + 1]]

\* fmt_int.
FmtInt(v) ==
  LET n == CHOOSE k \in 1..12 : v < 10 ^ k /\ (k > 1 => v >= 10 ^ (k - 1))
  IN LastDigits(v, n)

\* Mutant of FmtFrac: the zeros behind the point are dropped.
FmtFracBare(v, prec) ==
  LET solid == SelectSeq(LastDigits(v, prec), LAMBDA c : c # "0")
  IN IF solid = <<>> THEN <<>> ELSE <<".">> \o solid

\* fmt_frac: the fraction of v / 10^prec without its trailing zeros.
FmtFrac(v, prec) ==
  LET digits == LastDigits(v, prec)
      last == SelectLastInSeq(digits, LAMBDA c : c # "0")
  IN IF last = 0 THEN <<>> ELSE <<".">> \o SubSeq(digits, 1, last)

\* v / 10^prec with its fraction and a unit.
Decimal(v, prec, unit) == FmtInt(v \div 10 ^ prec) \o FmtFrac(v, prec) \o unit

FormatDuration(u) ==
  IF u = 0 THEN <<"0", "s">>
  ELSE IF u < MICROSECOND THEN Decimal(u, 0, <<"n", "s">>)
  ELSE IF u < MILLISECOND THEN Decimal(u, PREC, <<"u", "s">>)
  ELSE IF u < SECOND THEN Decimal(u, 2 * PREC, <<"m", "s">>)
  ELSE (IF u < HOUR THEN <<>> ELSE FmtInt(u \div HOUR) \o <<"h">>)
    \o (IF u < MINUTE THEN <<>> ELSE FmtInt((u \div MINUTE) % SIXTY) \o <<"m">>)
    \o Decimal(u % MINUTE, 3 * PREC, <<"s">>)

-----------------------------------------------------------------------------
(* What a text means, stated without the scanner.                          *)

Numeric(c) == IsDigit(c) \/ c = "."

\* A term starts where a number follows something that is none.
Starts(s) == {p \in 1..Len(s) : p = 1 \/ (Numeric(s[p]) /\ ~Numeric(s[p - 1]))}

\* The terms of s, each with its position: its number and its unit.
TermsOf(s) ==
  {[at |-> p, number |-> SelectSeq(SubSeq(s, p, q - 1), Numeric),
    unit |-> SelectSeq(SubSeq(s, p, q - 1), LAMBDA c : ~Numeric(c))] :
      <<p, q>> \in {<<p, q>> \in Starts(s) \X (Starts(s) \cup {Len(s) + 1}) :
                      p < q /\ \A r \in Starts(s) : r <= p \/ r >= q}}

Points(n) == {i \in 1..Len(n) : n[i] = "."}

IsTerm(t) ==
  /\ Cardinality(Points(t.number)) <= 1
  /\ Len(t.number) > Cardinality(Points(t.number))
  /\ UnitOf(t.unit) # 0

\* The digits before and behind the point of a number.
Whole(n) == SubSeq(n, 1, Min(Points(n) \cup {Len(n) + 1}) - 1)
Decimals(n) == SubSeq(n, Len(Whole(n)) + 2, Len(n))

\* The fraction of a unit that the digits stand for, rounded down.
Part(decimals, unit) ==
  FoldRight(LAMBDA c, x : (DigitValue(c) * unit + x) \div 10, decimals, 0)

\* A number, modulo MAX + 1 and up to MAX + 1: TLC's integers are small.
Modulo(digits) == FoldLeft(LAMBDA x, c : (10 * x + DigitValue(c)) % (MAX + 1), 0, digits)
UpToMax(digits) ==
  FoldLeft(LAMBDA x, c : Min({10 * x + DigitValue(c), MAX + 1}), 0, digits)

\* What a term stands for, modulo MAX + 1, and whether it stands for more than
\* MAX or so little less that the rounding of its fraction matters.
Value(t) ==
  (Modulo(Whole(t.number)) * UnitOf(t.unit) + Part(Decimals(t.number), UnitOf(t.unit))) % (MAX + 1)
TooLong(t) ==
  UpToMax(Whole(t.number)) * UnitOf(t.unit) + Part(Decimals(t.number), UnitOf(t.unit)) >= MAX

\* Has a term digits for less than a nanosecond?
Finer(t) == Len(Decimals(t.number)) \notin {k \in 0..(4 * PREC) : UnitOf(t.unit) % 10 ^ k = 0}

Unsigned(text) == IF text # <<>> /\ Head(text) = "+" THEN Tail(text) ELSE text

\* A text that is no sum of terms is refused; one that is, only if a term is
\* too long.  What is read is the sum of the terms modulo 2^64 (an integer that
\* is one digit too long and the sum of the terms are not checked), exactly, or
\* off by at most a nanosecond for each term with digits for less than that
\* (leading_int, leading_fraction, parse_duration).
ReadsWhatIsWritten(text) ==
  \E terms \in {TermsOf(Unsigned(text))}, d \in {ParseDuration(text)} :
    IF Unsigned(text) = <<"0">> THEN d = 0
    ELSE IF terms = {} \/ \E t \in terms : ~IsTerm(t) THEN d = BadDuration
    ELSE IF d = BadDuration THEN \E t \in terms : TooLong(t)
    ELSE LET slack == Cardinality({t \in terms : Finer(t)})
         IN \E off \in (-slack)..slack :
              d = (MapThenSumSet(Value, terms) + off) % (MAX + 1)

\* A duration that is written is read again as it was, whatever its unit and
\* its fraction (serialize and deserialize).
WritesWhatIsRead(u) == ParseDuration(FormatDuration(u)) = u
=============================================================================
