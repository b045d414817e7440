-------------------------------- MODULE Scans --------------------------------
(***************************************************************************)
(* The two loops of helper::string that scan forward, one iteration a      *)
(* step; a behaviour is one call. Every length() of the library is         *)
(* computed from what count_surrogate_pair returns, and                    *)
(* string::_surrogate_pair_count caches it. Every position that a caller   *)
(* counts in code points becomes an offset into the units through          *)
(* codepoint_count_to_iterator.                                            *)
(***************************************************************************)
EXTENDS CodeUnits

CONSTANTS
  Strings,  \* the strings the functions are called on
  Counts    \* the numbers of code points to walk

ASSUME ScansAssumption ==
  /\ Strings \subseteq Seq(char16_t)
  /\ \A s \in Strings : 2 * Len(s) < SIZE_MAX
  /\ Counts \subseteq size_t

VARIABLES
  str,                   \* the units between the iterators the caller passed
  from,                  \* offset of the iterator `from`
  surrogate_pair_count,
  n,                     \* the value of `count` the caller passed
  count,                 \* code points left to walk
  pc                     \* at the head of a loop, "count" or "walk"; behind it,
                         \* "counted" or "walked"; or "overrun": memory beyond
                         \* the end is read

vars == <<str, from, surrogate_pair_count, n, count, pc>>

Init ==
  /\ str \in Strings
  /\ from = 0
  /\ surrogate_pair_count = 0
  /\ \/ pc = "count" /\ n = 0
     \/ pc = "walk" /\ n \in Counts
  /\ count = n

-----------------------------------------------------------------------------
(* count_surrogate_pair.                                                   *)

InCount == pc = "count" /\ from < Len(str)

Scan(units, pairs) ==
  /\ from' = from + units
  /\ surrogate_pair_count' = surrogate_pair_count + pairs
  /\ UNCHANGED <<str, n, count, pc>>

\* Mutant of ScanPair: `from` is moved over the unit after the pair as well.
ScanPairTooFar == InCount /\ PairAt(str, from + 1) /\ Scan(3, 1)

\* A lead surrogate, and the trail surrogate that follows it.
ScanPair ==
  /\ InCount /\ is_lead_surrogate(str[from + 1])
  /\ from + 1 < Len(str) /\ is_trail_surrogate(str[from + 2])
  /\ Scan(2, 1)

\* Mutant: the unit after an unpaired lead surrogate is looked at again.
ScanLeadAlone ==
  InCount /\ is_lead_surrogate(str[from + 1]) /\ ~ PairAt(str, from + 1) /\ Scan(1, 0)

\* A lead surrogate that no trail surrogate follows: the unit after it is
\* skipped, and at the end of the string `from` moves past the end.
ScanUnpairedLead ==
  /\ InCount /\ is_lead_surrogate(str[from + 1])
  /\ ~ (from + 1 < Len(str) /\ is_trail_surrogate(str[from + 2]))
  /\ Scan(2, 0)

ScanOther == InCount /\ ~ is_lead_surrogate(str[from + 1]) /\ Scan(1, 0)

CountReturn ==
  /\ pc = "count" /\ from >= Len(str)
  /\ pc' = "counted"
  /\ UNCHANGED <<str, from, surrogate_pair_count, n, count>>

-----------------------------------------------------------------------------
(* codepoint_count_to_iterator.                                            *)

\* The loop compares with the end for inequality: an iterator past the end
\* does not stop it.
InWalk == pc = "walk" /\ count > 0 /\ from # Len(str)

Step(units, codepoints) ==
  /\ from' = from + units
  /\ count' = Wrap(count - codepoints)
  /\ UNCHANGED <<str, surrogate_pair_count, n, pc>>

AtLead == InWalk /\ from < Len(str) /\ is_lead_surrogate(str[from + 1])

\* Mutant: the trail surrogate is not walked over.
WalkPairHalf == AtLead /\ PairAt(str, from + 1) /\ Step(1, 1)

WalkPair == AtLead /\ from + 1 < Len(str) /\ is_trail_surrogate(str[from + 2]) /\ Step(2, 1)

\* Mutant: an unpaired lead surrogate costs what a pair costs.
WalkUnpairedAsPair ==
  AtLead /\ from + 1 < Len(str) /\ ~ is_trail_surrogate(str[from + 2]) /\ Step(2, 1)

\* The unit that follows an unpaired lead surrogate is walked with it.
WalkUnpairedLead ==
  AtLead /\ from + 1 < Len(str) /\ ~ is_trail_surrogate(str[from + 2]) /\ Step(2, 2)

\* Mutant: whatever lies behind the end is taken for a unit, and is paid for.
WalkLastLeadAsTwo == AtLead /\ from + 1 = Len(str) /\ Step(2, 2)

\* At the end of the string the walk steps past it.
WalkLastLead == AtLead /\ from + 1 = Len(str) /\ Step(2, 1)

WalkOther ==
  InWalk /\ from < Len(str) /\ ~ is_lead_surrogate(str[from + 1]) /\ Step(1, 1)

Overrun ==
  /\ InWalk /\ from > Len(str)
  /\ pc' = "overrun"
  /\ UNCHANGED <<str, from, surrogate_pair_count, n, count>>

WalkReturn ==
  /\ pc = "walk" /\ ~ InWalk
  /\ pc' = "walked"
  /\ UNCHANGED <<str, from, surrogate_pair_count, n, count>>

-----------------------------------------------------------------------------

CountLoop == ScanPair \/ ScanUnpairedLead \/ ScanOther \/ CountReturn
WalkLoop ==
  WalkPair \/ WalkUnpairedLead \/ WalkLastLead \/ WalkOther \/ Overrun \/ WalkReturn

Next == CountLoop \/ WalkLoop

Spec == Init /\ [][Next]_vars

\* The loops run on the caller's thread and wait for nothing.
FairSpec == Spec /\ WF_vars(Next)

-----------------------------------------------------------------------------

TypeOK ==
  /\ str \in Strings
  /\ from \in Nat
  /\ surrogate_pair_count \in Nat
  /\ n \in size_t /\ count \in size_t
  /\ pc \in {"count", "counted", "walk", "walked", "overrun"}

\* The closed form of the count, on which the models of the string classes
\* are built, is what the loop of helpers.h returns for every string.
ReturnsCount == pc = "counted" => surrogate_pair_count = count_surrogate_pair(str)

\* On well-formed UTF-16 the loop counts every pair of the string, so that
\* size minus count is the number of code points (string::length).
CountsEveryPair ==
  pc = "counted" /\ WellFormed(str) =>
    /\ surrogate_pair_count = Cardinality(Pairs(str))
    /\ Len(str) - surrogate_pair_count = Cardinality(CodePointStarts(str))

\* The counts that run out while the walk is in s, or with a lead surrogate at
\* the end of s: what an offset costs at which the head stands, and what all of
\* s costs.
UsedUp(s) ==
  {p - Cardinality({i \in CountedPairs(s) : i <= p}) :
     p \in {q \in 0 .. Len(s) : AtScanHead(s, q + 1)} \cup {Len(s)}}

\* A walk of k code points steps over the end of s and does not stop there.
WalksOff(s, k) == EndsInSkip(s) /\ k \notin UsedUp(s)

\* The closed form of the position, likewise, is what the walk returns for
\* every string and every count; and the walk returns, having read s only,
\* just when it does not walk off.
ReturnsPosition ==
  /\ pc \in {"walked", "overrun"} => from = codepoint_count_to_iterator(str, n)
  /\ pc = "walked" => ~ WalksOff(str, n)
  /\ pc = "overrun" => WalksOff(str, n)

\* On well-formed UTF-16 the walk ends where the n-th code point begins, or at
\* the end, and reads nothing beyond it.
PositionExact ==
  WellFormed(str) =>
    /\ pc # "overrun"
    /\ pc = "walked" => SubSeq(str, 1, from) = CodePoints(str, 0, n)

\* The count returns, however ill-formed the string; the walk returns, however
\* large its count and even if that wraps, from every string but those it walks
\* off. On those it reads on in what lies behind them.
ScansReturn ==
  /\ pc = "count" ~> pc = "counted"
  /\ pc = "walk" /\ ~ WalksOff(str, n) ~> pc = "walked"
=============================================================================
