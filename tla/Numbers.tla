------------------------------- MODULE Numbers -------------------------------
(***************************************************************************)
(* Numbers to and from text: from_int, from_float_round and to_uint of     *)
(* helpers.h, to_int of string_view, and the classification of digits. A   *)
(* function whose arithmetic may leave int, which is undefined, is an      *)
(* operator whose value is the set of its results, empty when it is        *)
(* undefined. A float is the fraction mantissa / 2^exponent.               *)
(***************************************************************************)
EXTENDS CodeUnits

CONSTANTS
  INT_MAX,      \* the largest int
  FLT_MANT_DIG  \* the bits of a float's mantissa

ASSUME IntMaxAssumption     == INT_MAX \in Nat \ {0} /\ 99 <= INT_MAX /\ INT_MAX <= SIZE_MAX
ASSUME FltMantDigAssumption == FLT_MANT_DIG \in Nat /\ FLT_MANT_DIG >= 11

INT_MIN == -INT_MAX - 1
int     == INT_MIN .. INT_MAX
char    == -128 .. 127

\* Powers, as functions that can be reasoned about.
Two[n \in Nat] == IF n = 0 THEN 1 ELSE 2 * Two[n - 1]
Ten[n \in Nat] == IF n = 0 THEN 1 ELSE 10 * Ten[n - 1]

ZERO  == 48
MINUS == 45
POINT == 46

is_number(c) == ZERO <= c /\ c <= ZERO + 9

\* CHAR_MAX for what is no digit.
to_number(c) == IF is_number(c) THEN c - ZERO ELSE 127

\* The digits at the front of s, in size_t.
to_uint(s) ==
  LET digits == Min({k \in 1 .. Len(s) : ~ is_number(s[k])} \cup {Len(s) + 1}) - 1
      ans[k \in 0 .. digits] == IF k = 0 THEN 0 ELSE Wrap(10 * ans[k - 1] + to_number(s[k]))
  IN  ans[digits]

\* Mutant: log10 is rounded up instead.
digit_count_rounded_up(i) == CHOOSE n \in 1 .. i : i <= Ten[n] /\ (n > 1 => Ten[n - 1] < i)

\* floor(log10(i)) + 1
digit_count(i) == CHOOSE n \in 1 .. i : Ten[n - 1] <= i /\ i < Ten[n]

\* The absolute value of INT_MIN is no int. The digits are written from the
\* last to the first, a minus behind them, and the whole is reversed.
from_int(arg) ==
  LET i      == IF arg < 0 THEN -arg ELSE arg
      size   == digit_count(i)
      digits == [p \in 1 .. size |-> ZERO + ((i \div Ten[size - p]) % 10)]
  IN  IF arg = INT_MIN THEN {}
      ELSE IF arg = 0 THEN {<<ZERO>>}
      ELSE {IF arg < 0 THEN <<MINUS>> \o digits ELSE digits}

Floats == [mantissa : Nat, exponent : Nat]

\* modff, of floats below 2^FLT_MANT_DIG that are not negative.
Integral(f) == f.mantissa \div Two[f.exponent]
Fraction(f) == [f EXCEPT !.mantissa = @ % Two[f.exponent]]

\* A float, rounded to the nearest integer, and to the even one of two.
nearest[f \in Floats] ==
  LET half == 2 * Fraction(f).mantissa
      unit == Two[f.exponent]
  IN  IF half > unit \/ (half = unit /\ Integral(f) % 2 = 1) THEN Integral(f) + 1 ELSE Integral(f)

\* f * 10, of whose mantissa so many bits are dropped that the rest fits.
times_ten[f \in Floats] ==
  LET m    == 10 * f.mantissa
      bits == CHOOSE k \in 0 .. 4 : /\ m < Two[FLT_MANT_DIG + k]
                                    /\ k = 0 \/ Two[FLT_MANT_DIG + k - 1] <= m
  IN  [mantissa |-> nearest[[mantissa |-> m, exponent |-> bits]], exponent |-> f.exponent - bits]

\* What a digit leaves of a fraction, and, for every k, what k digits leave.
after_digit[f \in Floats] == Fraction(times_ten[f])

rests(f) ==
  LET rest[k \in Nat] == IF k = 0 THEN f ELSE after_digit[rest[k - 1]]
  IN  rest

\* Mutant: a digit is taken from what it leaves.
digit_late(rest, k) == Integral(times_ten[rest[k]])

digit(rest, k) == Integral(times_ten[rest[k - 1]])

\* Digits are written until the rest is no more than 0.01, however many have been
\* written. A fraction has no more decimal digits than binary ones.
fraction_digits(f) ==
  LET rest == rests(f)
      Small(k) == 100 * rest[k].mantissa <= Two[rest[k].exponent]
      size == CHOOSE k \in 0 .. f.exponent : Small(k) /\ \A j \in 0 .. (k - 1) : ~ Small(j)
  IN  [k \in 1 .. size |-> digit(rest, k) + ZERO]

\* Of a float only the absolute value counts, which arg is.
from_float_round(arg) ==
  IF Integral(arg) \notin int THEN {}
  ELSE {s \o <<POINT>> \o fraction_digits(Fraction(arg)) : s \in from_int(Integral(arg))}

\* The loop of to_int over the units that trim has left: whatever they are, and
\* a minus like a digit. value * 10 + c - u'0' is three operations in int.
to_int(s) ==
  LET value[k \in 0 .. Len(s)] == IF k = 0 THEN 0 ELSE value[k - 1] * 10 + s[k] - ZERO
      Defined(k) == /\ value[k - 1] * 10 \in int
                    /\ value[k - 1] * 10 + s[k] \in int
                    /\ value[k] \in int
  IN  IF \A k \in 1 .. Len(s) : Defined(k) THEN {value[Len(s)]} ELSE {}
=============================================================================
