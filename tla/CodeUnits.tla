------------------------------ MODULE CodeUnits ------------------------------
(***************************************************************************)
(* UTF-16 code units and the helpers of ostring/include/ostring/helpers.h  *)
(* that scan a run of them (namespaces helper::codepoint, helper::string   *)
(* and helper::character).                                                 *)
(*                                                                         *)
(* A string of the program is a sequence of code units. The program counts *)
(* offsets from 0 and TLA+ sequences from 1: the unit at offset i of s is  *)
(* s[i + 1], and an iterator is modelled by its offset.                    *)
(***************************************************************************)
EXTENDS Integers, Sequences, FiniteSets, FiniteSetsExt

CONSTANT SIZE_MAX  \* the largest size_t; size_t arithmetic is modulo SIZE_MAX + 1

ASSUME SizeMaxAssumption == SIZE_MAX \in Nat \ {0}

size_t == 0 .. SIZE_MAX

\* What a size_t holds after an assignment of the integer x.
Wrap(x) == x % (SIZE_MAX + 1)

Least(x, y) == IF x <= y THEN x ELSE y  \* std::min

-----------------------------------------------------------------------------
(* Classes of code units.                                                  *)

char16_t == 0 .. 65535

LEAD_SURROGATE_MIN  == 55296  \* 0xd800
LEAD_SURROGATE_MAX  == 56319  \* 0xdbff
TRAIL_SURROGATE_MIN == 56320  \* 0xdc00
TRAIL_SURROGATE_MAX == 57343  \* 0xdfff

is_lead_surrogate(c)  == LEAD_SURROGATE_MIN <= c /\ c <= LEAD_SURROGATE_MAX
is_trail_surrogate(c) == TRAIL_SURROGATE_MIN <= c /\ c <= TRAIL_SURROGATE_MAX

NUL   == 0
SPACE == 32

char_lowercase(c) == IF 65 <= c /\ c <= 90 THEN c + 32 ELSE c

-----------------------------------------------------------------------------
(* count_surrogate_pair. The loop steps over one unit, or over two when    *)
(* the first is a lead surrogate, whatever the second is. So its head      *)
(* stands at index i exactly when the run of lead surrogates that ends     *)
(* just before i has even length, and it counts the pairs that begin at    *)
(* such an index. Scans models the loop itself and ScansProofs proves that *)
(* it returns this value.                                                  *)

\* Index i is where the loop's head stands at some iteration.
AtScanHead(s, i) ==
  \E j \in 1 .. i :
    /\ j > 1 => ~ is_lead_surrogate(s[j - 1])
    /\ \E h \in 0 .. i : i = j + 2 * h
    /\ \A k \in j .. (i - 1) : is_lead_surrogate(s[k])

\* s ends in an odd run of lead surrogates: the head steps over the end, or
\* skips the first unit of what is appended to s.
EndsInSkip(s) == ~ AtScanHead(s, Len(s) + 1)

PairAt(s, i) ==
  /\ i \in 1 .. (Len(s) - 1)
  /\ is_lead_surrogate(s[i])
  /\ is_trail_surrogate(s[i + 1])

CountedPairs(s) == {i \in 1 .. (Len(s) - 1) : PairAt(s, i) /\ AtScanHead(s, i)}

count_surrogate_pair(s) == Cardinality(CountedPairs(s))

-----------------------------------------------------------------------------
(* codepoint_count_to_iterator(begin, n, end): the offset reached by       *)
(* walking n code points. Its head stands where that of the count stands,  *)
(* and a pair costs one of n, any other unit one, so that reaching offset  *)
(* p costs p less the pairs before p. An unpaired lead surrogate costs two *)
(* with the unit it skips: when only one was left, the size_t wraps, and   *)
(* the walk goes on to the end. It steps past the end when the last unit   *)
(* is a lead surrogate, and if n is not used up by then it reads on. The   *)
(* callers do not tell these offsets apart: PastEnd stands for all.        *)
(* Scans models the loop itself.                                           *)

PastEnd(s) == Len(s) + 1

codepoint_count_to_iterator(s, n) ==
  LET counted == CountedPairs(s)
      cost(p) == p - Cardinality({i \in counted : i <= p})
      exact   == {p \in 0 .. Len(s) : cost(p) = n /\ AtScanHead(s, p + 1)}
  IN  IF exact # {} THEN CHOOSE p \in exact : TRUE
      ELSE IF AtScanHead(s, Len(s) + 1) THEN Len(s)
      ELSE PastEnd(s)

\* Mutant: units are taken for code points.
backward_in_units(s, n) == Least(n, Len(s))

\* The walk from the end: how many units the last n code points take, which is
\* where the reverse iterator rfrom stands after n turns. This walk takes an
\* unpaired lead surrogate for one code point, and never leaves the string.
codepoint_count_to_iterator_backward(s, n) ==
  LET rfrom[turns \in Nat] ==
        IF turns = 0 THEN 0
        ELSE LET r == rfrom[turns - 1]
             IN  IF r = Len(s) THEN r
                 ELSE IF PairAt(s, Len(s) - r - 1) THEN r + 2
                 ELSE r + 1
  IN  rfrom[n]

-----------------------------------------------------------------------------
(* What the scanning helpers are meant to agree with: Unicode's own notion *)
(* of a code point of a well-formed UTF-16 string.                         *)

Pairs(s) == {i \in 1 .. (Len(s) - 1) : PairAt(s, i)}

\* Every surrogate is half of a pair.
WellFormed(s) ==
  \A i \in 1 .. Len(s) :
    /\ is_lead_surrogate(s[i])  => PairAt(s, i)
    /\ is_trail_surrogate(s[i]) => i > 1 /\ PairAt(s, i - 1)

\* The indices at which a code point of a well-formed string begins.
CodePointStarts(s) == {i \in 1 .. Len(s) : ~ (i > 1 /\ PairAt(s, i - 1))}

\* The number of the code point that the unit at index i belongs to, from 0.
CodePointOf(s, i) == Cardinality({j \in CodePointStarts(s) : j <= i}) - 1

\* The code points numbered from, from + 1, ..., up to but not including to.
CodePoints(s, from, to) ==
  LET within == {i \in 1 .. Len(s) : from <= CodePointOf(s, i) /\ CodePointOf(s, i) < to}
  IN  IF within = {} THEN <<>> ELSE SubSeq(s, Min(within), Max(within))

\* How many code points there are.
CodePointCount(s) == Cardinality(CodePointStarts(s))
=============================================================================
