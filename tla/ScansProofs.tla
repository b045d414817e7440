----------------------------- MODULE ScansProofs -----------------------------
(***************************************************************************)
(* The loop of count_surrogate_pair returns count_surrogate_pair(str), and *)
(* the loop of codepoint_count_to_iterator the position that the closed    *)
(* form of module CodeUnits says, for every string and every count. Each   *)
(* loop has an inductive invariant of its own, ScanInv and WalkInv.        *)
(***************************************************************************)
EXTENDS Scans, CodeUnitsLemmas

\* No string is so long that what its units cost reaches the top of size_t.
LEMMA StrType ==
  ASSUME TypeOK
  PROVE  /\ str \in Seq(char16_t) /\ Len(str) \in Nat /\ 2 * Len(str) < SIZE_MAX
         /\ n \in size_t /\ size_t \subseteq Nat /\ SIZE_MAX \in Nat
         /\ PastEnd(str) = Len(str) + 1
<1>1. str \in Seq(char16_t) /\ 2 * Len(str) < SIZE_MAX /\ n \in size_t
  BY ScansAssumption DEF TypeOK
<1> QED BY <1>1, SizeMaxAssumption DEF size_t, PastEnd

LEMMA InitType == Init => TypeOK
<1> SUFFICES ASSUME Init PROVE TypeOK
  OBVIOUS
<1>1. 0 \in size_t /\ Counts \subseteq size_t
  BY SizeMaxAssumption, ScansAssumption DEF size_t
<1> QED BY <1>1 DEF Init, TypeOK

LEMMA StepType == TypeOK /\ [Next]_vars => TypeOK'
<1> SUFFICES ASSUME TypeOK, [Next]_vars PROVE TypeOK'
  OBVIOUS
<1>1. CASE CountLoop
  BY <1>1 DEF CountLoop, TypeOK, ScanPair, ScanUnpairedLead, ScanOther, CountReturn, InCount, Scan
<1>2. CASE WalkLoop
  <2>1. \A x \in {1, 2} : Wrap(count - x) \in size_t
    <3> SUFFICES ASSUME NEW x \in {1, 2} PROVE Wrap(count - x) \in size_t
      OBVIOUS
    <3>1. count - x \in Int
      BY SizeMaxAssumption DEF TypeOK, size_t
    <3> QED BY <3>1, WrapType
  <2> QED BY <1>2, <2>1 DEF WalkLoop, TypeOK, WalkPair, WalkUnpairedLead, WalkLastLead, WalkOther,
        Overrun, WalkReturn, AtLead, InWalk, Step
<1>3. CASE UNCHANGED vars
  BY <1>3 DEF vars, TypeOK
<1> QED BY <1>1, <1>2, <1>3 DEF Next

\* The state variables keep their types: the counters and the iterator never
\* turn negative, and the count left to walk stays a size_t.
THEOREM TypeCorrect == Spec => []TypeOK
BY InitType, StepType, PTL DEF Spec

-----------------------------------------------------------------------------
(* The loop of count_surrogate_pair.                                       *)

\* The pairs counted so far are those CountedPairs selects before `from`,
\* and `from` is an index at which it lets the loop's head stand. The end of
\* the string is overrun by one unit at most.
ScanInv ==
  /\ TypeOK
  /\ pc \in {"count", "counted"} =>
       /\ from <= Len(str) + 1
       /\ from = Len(str) + 1 \/ AtScanHead(str, from + 1)
       /\ surrogate_pair_count = Cardinality(CountedUpTo(str, from))
       /\ pc = "counted" => from >= Len(str)

LEMMA InitScanInv == Init => ScanInv
<1> SUFFICES ASSUME Init PROVE ScanInv
  OBVIOUS
<1>1. TypeOK
  BY InitType
<1>2. str \in Seq(char16_t) /\ Len(str) \in Nat
  BY <1>1, StrType
<1>3. AtScanHead(str, from + 1)
  BY HeadAtStart DEF Init
<1>4. Cardinality(CountedUpTo(str, from)) = 0
  BY <1>2, CountedNone DEF Init
<1> QED BY <1>1, <1>2, <1>3, <1>4 DEF ScanInv, Init

LEMMA StepScanInv == ScanInv /\ [Next]_vars => ScanInv'
<1> SUFFICES ASSUME ScanInv, [Next]_vars PROVE ScanInv'
  OBVIOUS
<1> USE DEF ScanInv
<1>1. /\ TypeOK' /\ str \in Seq(char16_t) /\ Len(str) \in Nat /\ from \in Nat
      /\ surrogate_pair_count \in Nat
  BY StrType, StepType DEF TypeOK
<1>2. pc = "count" /\ from < Len(str) => AtScanHead(str, from + 1)
  BY <1>1
<1>3. CASE ScanPair
  <2>1. /\ AtScanHead(str, from + 1) /\ PairAt(str, from + 1)
        /\ is_lead_surrogate(str[from + 1])
        /\ from' = from + 2 /\ str' = str /\ pc' = pc /\ pc = "count"
        /\ surrogate_pair_count' = surrogate_pair_count + 1
        /\ from + 2 <= Len(str)
    BY <1>1, <1>2, <1>3 DEF ScanPair, InCount, Scan, PairAt
  <2>2. AtScanHead(str, from' + 1)
    BY <1>1, <2>1, HeadAfterLead
  <2>3. surrogate_pair_count' = Cardinality(CountedUpTo(str, from'))
    BY <1>1, <1>2, <2>1, CountedAfterPair
  <2> QED BY <1>1, <2>1, <2>2, <2>3
<1>4. CASE ScanUnpairedLead
  <2>1. /\ AtScanHead(str, from + 1) /\ ~ PairAt(str, from + 1)
        /\ is_lead_surrogate(str[from + 1])
        /\ from' = from + 2 /\ str' = str /\ pc' = pc /\ pc = "count"
        /\ surrogate_pair_count' = surrogate_pair_count
        /\ from < Len(str)
    BY <1>1, <1>2, <1>4 DEF ScanUnpairedLead, InCount, Scan, PairAt
  <2>2. AtScanHead(str, from' + 1)
    BY <1>1, <2>1, HeadAfterLead
  <2>3. surrogate_pair_count' = Cardinality(CountedUpTo(str, from'))
    BY <1>1, <1>2, <2>1, CountedAfterUnpairedLead
  <2> QED BY <1>1, <2>1, <2>2, <2>3
<1>5. CASE ScanOther
  <2>1. /\ ~ is_lead_surrogate(str[from + 1])
        /\ from' = from + 1 /\ str' = str /\ pc' = pc /\ pc = "count"
        /\ surrogate_pair_count' = surrogate_pair_count
        /\ from < Len(str)
    BY <1>1, <1>5 DEF ScanOther, InCount, Scan
  <2>2. AtScanHead(str, from' + 1)
    BY <1>1, <2>1, HeadAfterOther
  <2>3. surrogate_pair_count' = Cardinality(CountedUpTo(str, from'))
    BY <1>1, <1>2, <2>1, CountedAfterOther
  <2> QED BY <1>1, <2>1, <2>2, <2>3
<1>6. CASE CountReturn
  BY <1>1, <1>6 DEF CountReturn
<1>7. CASE WalkLoop
  <2>1. pc' \notin {"count", "counted"}
    BY <1>7 DEF WalkLoop, WalkPair, WalkUnpairedLead, WalkLastLead, WalkOther, Overrun, WalkReturn,
      AtLead, InWalk, Step
  <2> QED BY <1>1, <2>1
<1>8. CASE UNCHANGED vars
  BY <1>1, <1>8 DEF vars
<1> QED BY <1>3, <1>4, <1>5, <1>6, <1>7, <1>8 DEF Next, CountLoop

\* The scan's invariant: the loop's head stands where AtScanHead says, and
\* the counter holds the number of the pairs selected so far.
THEOREM ScanCorrect == Spec => []ScanInv
  BY InitScanInv, StepScanInv, PTL DEF Spec

\* count_surrogate_pair (helpers.h:317-331) returns, for every string, the
\* number that the closed form of module CodeUnits says.
THEOREM CountCorrect == Spec => []ReturnsCount
<1>1. ScanInv => ReturnsCount
  <2> SUFFICES ASSUME ScanInv, pc = "counted"
               PROVE  surrogate_pair_count = count_surrogate_pair(str)
    BY DEF ReturnsCount
  <2>1. from \in Nat /\ from >= Len(str) /\ Len(str) \in Nat
    BY StrType DEF ScanInv, TypeOK
  <2>2. CountedUpTo(str, from) = CountedPairs(str)
    BY <2>1 DEF CountedUpTo, CountedPairs
  <2> QED BY <2>2 DEF ScanInv, count_surrogate_pair
<1> QED BY <1>1, ScanCorrect, PTL

\* On well-formed UTF-16 no pair is missed, so that size() less the count is
\* the number of code points, which is what length() returns.
THEOREM EveryPairCorrect == Spec => []CountsEveryPair
<1>1. ScanInv /\ ReturnsCount => CountsEveryPair
  <2> SUFFICES ASSUME ScanInv, ReturnsCount, pc = "counted", WellFormed(str)
               PROVE  /\ surrogate_pair_count = Cardinality(Pairs(str))
                      /\ Len(str) - surrogate_pair_count = Cardinality(CodePointStarts(str))
    BY DEF CountsEveryPair
  <2>1. str \in Seq(char16_t) /\ Len(str) \in 0 .. Len(str) /\ Len(str) \in Nat
    BY StrType DEF ScanInv
  <2>2. surrogate_pair_count = Cardinality(CountedPairs(str))
    BY DEF ReturnsCount, count_surrogate_pair
  <2>3. AtScanHead(str, Len(str) + 1)
    <3>1. ~ PairAt(str, Len(str) + 1 - 1) /\ Len(str) + 1 \in 1 .. (Len(str) + 1)
      BY <2>1 DEF PairAt
    <3> QED BY <2>1, <3>1, HeadIffStart
  <2>4. /\ StartsUpTo(str, Len(str)) = CodePointStarts(str)
        /\ CountedUpTo(str, Len(str)) = CountedPairs(str)
    BY <2>1 DEF StartsUpTo, CodePointStarts, CountedUpTo, CountedPairs
  <2>5. Cardinality(CodePointStarts(str)) = Len(str) - Cardinality(CountedPairs(str))
    BY <2>1, <2>3, <2>4, StartsOfUnits DEF Cost
  <2>6. Cardinality(CountedPairs(str)) \in Nat
    BY <2>1, CountType DEF count_surrogate_pair
  <2> QED BY <2>1, <2>2, <2>5, <2>6, EveryPairCounted
<1> QED BY <1>1, ScanCorrect, CountCorrect, PTL

-----------------------------------------------------------------------------
(* The loop of codepoint_count_to_iterator.                               *)

\* The offsets of s that cost k.
Exact(s, k) == {p \in 0 .. Len(s) : Cost(s, p) = k /\ AtScanHead(s, p + 1)}

\* Within the string the iterator stands where the count's head may stand.
\* What the position costs and what is left make up what was asked for, unless
\* an unpaired lead surrogate cost two when one was left: then count has
\* wrapped, and no offset costs exactly n.
Inside ==
  /\ AtScanHead(str, from + 1)
  /\ \/ Cost(str, from) + count = n
     \/ Cost(str, from) + count = n + SIZE_MAX + 1 /\ Exact(str, n) = {}

\* The iterator has stepped past the end: the last unit is a lead surrogate
\* the head stood at, and all of the string has been paid for.
Outside ==
  /\ from = PastEnd(str)
  /\ Exact(str, n) = {}
  /\ EndsInSkip(str)
  /\ \/ Cost(str, Len(str)) + count = n
     \/ Cost(str, Len(str)) + count = n + SIZE_MAX + 1

WalkInv ==
  /\ TypeOK
  /\ pc \notin {"count", "counted"} =>
       /\ (from <= Len(str) /\ Inside) \/ Outside
       /\ WellFormed(str) => from <= Len(str) /\ Cost(str, from) + count = n
       /\ pc = "walked" => count = 0 \/ from = Len(str)
       /\ pc = "overrun" => from = PastEnd(str) /\ count > 0

-----------------------------------------------------------------------------

\* An offset that is stepped over costs neither less nor more than the one
\* before it and the one behind it: if k lies between what these cost, no
\* offset costs k.
LEMMA NoneBetween ==
  ASSUME NEW s \in Seq(char16_t), NEW p \in Nat, NEW k \in Int,
         AtScanHead(s, p + 1), ~ AtScanHead(s, p + 1 + 1),
         Cost(s, p) < k,
         \/ p + 2 > Len(s)
         \/ AtScanHead(s, p + 2 + 1) /\ k < Cost(s, p + 2)
  PROVE  Exact(s, k) = {}
<1> SUFFICES ASSUME NEW q \in 0 .. Len(s), Cost(s, q) = k, AtScanHead(s, q + 1)
             PROVE  FALSE
  BY DEF Exact
<1>1. q \in Nat /\ Len(s) \in Nat /\ p + 2 \in Nat
  OBVIOUS
<1>2. CASE q <= p
  <2>1. Cost(s, q) <= Cost(s, p)
    <3>1. CASE q = p
      BY <3>1, CostType, <1>1
    <3>2. CASE q < p
      <4>1. Cost(s, q) < Cost(s, p)
        BY <1>1, <3>2, CostGrows
      <4> QED BY <4>1, <1>1, CostType
    <3> QED BY <1>1, <1>2, <3>1, <3>2
  <2>2. Cost(s, p) \in Int /\ Cost(s, q) \in Int
    BY <1>1, CostType
  <2> QED BY <2>1, <2>2
<1>3. CASE q = p + 1
  BY <1>3
<1>4. CASE q >= p + 2
  <2>1. AtScanHead(s, p + 2 + 1) /\ k < Cost(s, p + 2)
    BY <1>1, <1>4
  <2>2. Cost(s, p + 2) <= Cost(s, q)
    <3>1. CASE q = p + 2
      BY <3>1, CostType, <1>1
    <3>2. CASE p + 2 < q
      <4>1. Cost(s, p + 2) < Cost(s, q)
        BY <1>1, <3>2, CostGrows
      <4> QED BY <4>1, <1>1, CostType
    <3> QED BY <1>1, <1>4, <3>1, <3>2
  <2>3. Cost(s, p + 2) \in Int /\ Cost(s, q) \in Int
    BY <1>1, CostType
  <2> QED BY <2>1, <2>2, <2>3
<1> QED BY <1>1, <1>2, <1>3, <1>4

-----------------------------------------------------------------------------
(* The loop.                                                               *)

LEMMA InitWalk == Init => WalkInv
<1> SUFFICES ASSUME Init PROVE WalkInv
  OBVIOUS
<1>1. TypeOK
  BY InitType
<1>2. str \in Seq(char16_t) /\ Len(str) \in Nat /\ n \in Nat /\ from = 0 /\ count = n /\ pc \in {"count", "walk"}
  BY <1>1, StrType DEF Init
<1>3. AtScanHead(str, from + 1)
  BY <1>2, HeadAtStart
<1>4. Cost(str, from) = 0
  BY <1>2, CountedNone DEF Cost
<1> QED BY <1>1, <1>2, <1>3, <1>4 DEF WalkInv, Inside

\* The positions and what they cost, after each kind of step.
LEMMA StepWalk == WalkInv /\ [Next]_vars => WalkInv'
<1> SUFFICES ASSUME WalkInv, [Next]_vars PROVE WalkInv'
  OBVIOUS
<1>1. /\ str \in Seq(char16_t) /\ Len(str) \in Nat /\ 2 * Len(str) < SIZE_MAX
      /\ n \in size_t /\ n \in Nat /\ size_t \subseteq Nat /\ SIZE_MAX \in Nat
      /\ PastEnd(str) = Len(str) + 1
      /\ from \in Nat /\ count \in size_t /\ count \in Nat /\ TypeOK'
  BY StrType, StepType DEF WalkInv, TypeOK
<1>2. pc = "walk" /\ from < Len(str) => Inside /\ AtScanHead(str, from + 1)
  BY <1>1 DEF WalkInv, Outside, Inside
<1>3. Cost(str, from) \in Int /\ Cost(str, from) <= from
  BY <1>1, CostType
<1>4. \A x \in 1 .. count : Wrap(count - x) = count - x /\ count - x \in size_t
  <2> SUFFICES ASSUME NEW x \in 1 .. count
               PROVE  Wrap(count - x) = count - x /\ count - x \in size_t
    OBVIOUS
  <2>1. count - x \in size_t
    BY <1>1 DEF size_t
  <2> QED BY <2>1, WrapFits
<1>5. Wrap(-1) = SIZE_MAX /\ SIZE_MAX \in size_t
  BY SizeMaxAssumption, WrapBelow DEF size_t
<1>6. CASE WalkPair
  <2>1. /\ PairAt(str, from + 1) /\ from + 2 <= Len(str) /\ from < Len(str) /\ count > 0
        /\ from' = from + 2 /\ count' = Wrap(count - 1)
        /\ str' = str /\ n' = n /\ pc' = pc /\ pc = "walk"
    BY <1>1, <1>6 DEF WalkPair, AtLead, InWalk, Step, PairAt
  <2>2. count' = count - 1 /\ count' \in size_t
    <3>1. 1 \in 1 .. count
      BY <1>1, <2>1
    <3> QED BY <1>4, <2>1, <3>1
  <2>3. AtScanHead(str, from' + 1) /\ Cost(str, from') = Cost(str, from) + 1
    BY <1>1, <1>2, <2>1, StepCosts
  <2>4. Inside'
    BY <1>1, <1>2, <1>3, <2>1, <2>2, <2>3 DEF Inside
  <2> QED BY <1>1, <1>3, <2>1, <2>2, <2>3, <2>4 DEF WalkInv
<1>7. CASE WalkUnpairedLead
  <2>1. /\ is_lead_surrogate(str[from + 1]) /\ ~ PairAt(str, from + 1)
        /\ from + 2 <= Len(str) /\ from < Len(str) /\ count > 0
        /\ from' = from + 2 /\ count' = Wrap(count - 2)
        /\ str' = str /\ n' = n /\ pc' = pc /\ pc = "walk"
    BY <1>1, <1>7 DEF WalkUnpairedLead, AtLead, InWalk, Step, PairAt
  <2>2. /\ AtScanHead(str, from + 2 + 1) /\ ~ AtScanHead(str, from + 1 + 1)
        /\ Cost(str, from + 2) = Cost(str, from) + 2
    BY <1>1, <1>2, <2>1, StepCosts
  <2>3. ~ WellFormed(str)
    <3>1. from + 1 \in 1 .. Len(str)
      BY <1>1, <2>1
    <3> QED BY <2>1, <3>1 DEF WellFormed
  <2>4. CASE count = 1
    <3>1. count' = SIZE_MAX
      BY <1>5, <2>1, <2>4
    <3>2. Cost(str, from) + count = n
      BY <1>1, <1>2, <1>3, <2>1, <2>4 DEF Inside
    <3>3. Cost(str, from) < n /\ n < Cost(str, from + 2)
      BY <1>1, <1>3, <2>2, <2>4, <3>2
    <3>4. Exact(str, n) = {}
      BY <1>1, <1>2, <2>1, <2>2, <3>3, NoneBetween
    <3>5. Inside'
      BY <1>1, <1>3, <2>1, <2>2, <2>4, <3>1, <3>2, <3>4 DEF Inside
    <3> QED BY <1>1, <2>1, <2>3, <3>5 DEF WalkInv
  <2>5. CASE count > 1
    <3>1. count' = count - 2 /\ count' \in size_t
      <4>1. 2 \in 1 .. count
        BY <1>1, <2>5
      <4> QED BY <1>4, <2>1, <4>1
    <3>2. Inside'
      <4>1. /\ AtScanHead(str', from' + 1) /\ Cost(str', from') = Cost(str, from) + 2
            /\ Exact(str', n') = Exact(str, n)
        BY <2>1, <2>2
      <4>2. \/ Cost(str, from) + count = n
            \/ Cost(str, from) + count = n + SIZE_MAX + 1 /\ Exact(str, n) = {}
        BY <1>2, <2>1 DEF Inside
      <4> DEFINE c == Cost(str, from)
      <4> HIDE DEF c
      <4>3. c \in Int /\ Cost(str', from') + count' = c + count /\ n' = n
        BY <1>1, <1>3, <2>1, <3>1, <4>1 DEF c
      <4> QED BY <4>1, <4>2, <4>3 DEF c, Inside
    <3> QED BY <1>1, <2>1, <2>3, <3>2 DEF WalkInv
  <2> QED BY <1>1, <2>1, <2>4, <2>5
<1>8. CASE WalkLastLead
  <2>1. /\ is_lead_surrogate(str[from + 1]) /\ ~ PairAt(str, from + 1)
        /\ from + 1 = Len(str) /\ from < Len(str) /\ count > 0
        /\ from' = from + 2 /\ count' = Wrap(count - 1)
        /\ str' = str /\ n' = n /\ pc' = pc /\ pc = "walk"
    BY <1>1, <1>8 DEF WalkLastLead, AtLead, InWalk, Step, PairAt
  <2>2. count' = count - 1 /\ count' \in size_t
    <3>1. 1 \in 1 .. count
      BY <1>1, <2>1
    <3> QED BY <1>4, <2>1, <3>1
  <2>3. ~ AtScanHead(str, from + 1 + 1)
    BY <1>1, <1>2, <2>1, StepCosts
  <2>4. ~ WellFormed(str)
    <3>1. from + 1 \in 1 .. Len(str)
      BY <1>1, <2>1
    <3> QED BY <2>1, <3>1 DEF WellFormed
  <2>5. Exact(str, n) = {}
    <3>1. CASE Cost(str, from) + count = n
      <4>1. Cost(str, from) < n /\ from + 2 > Len(str)
        BY <1>1, <1>3, <2>1, <3>1
      <4> QED BY <1>1, <1>2, <2>1, <2>3, <4>1, NoneBetween
    <3> QED BY <1>2, <2>1, <3>1 DEF Inside
  <2>6. Cost(str, Len(str)) = Cost(str, from) + 1
    <3>1. \A k \in CountedPairs(str) : k <= Len(str) <=> k <= from
      BY <1>1, <2>1 DEF CountedPairs
    <3>2. CountedUpTo(str, Len(str)) = CountedUpTo(str, from)
      BY <3>1 DEF CountedUpTo
    <3>3. Cardinality(CountedUpTo(str, from)) \in Nat
      BY <1>1, CountedFinite
    <3> QED BY <1>1, <2>1, <3>2, <3>3 DEF Cost
  <2>7. EndsInSkip(str)
    BY <2>1, <2>3 DEF EndsInSkip
  <2>8. \/ Cost(str, Len(str)) + count' = n
        \/ Cost(str, Len(str)) + count' = n + SIZE_MAX + 1
    BY <1>1, <1>2, <1>3, <2>1, <2>2, <2>6 DEF Inside
  <2>9. Outside'
    BY <1>1, <2>1, <2>5, <2>7, <2>8 DEF Outside, PastEnd
  <2> QED BY <1>1, <2>1, <2>4, <2>9 DEF WalkInv
<1>9. CASE WalkOther
  <2>1. /\ ~ is_lead_surrogate(str[from + 1]) /\ from < Len(str) /\ count > 0
        /\ from' = from + 1 /\ count' = Wrap(count - 1)
        /\ str' = str /\ n' = n /\ pc' = pc /\ pc = "walk"
    BY <1>1, <1>9 DEF WalkOther, InWalk, Step
  <2>2. count' = count - 1 /\ count' \in size_t
    <3>1. 1 \in 1 .. count
      BY <1>1, <2>1
    <3> QED BY <1>4, <2>1, <3>1
  <2>3. AtScanHead(str, from' + 1) /\ Cost(str, from') = Cost(str, from) + 1
    BY <1>1, <1>2, <2>1, StepCosts
  <2>4. Inside'
    BY <1>1, <1>2, <1>3, <2>1, <2>2, <2>3 DEF Inside
  <2> QED BY <1>1, <1>3, <2>1, <2>2, <2>3, <2>4 DEF WalkInv
<1>10. CASE Overrun
  <2>1. /\ from > Len(str) /\ count > 0 /\ pc = "walk" /\ pc' = "overrun"
        /\ str' = str /\ n' = n /\ from' = from /\ count' = count
    BY <1>10 DEF Overrun, InWalk
  <2>2. Outside
    BY <1>1, <2>1 DEF WalkInv
  <2> QED BY <1>1, <2>1, <2>2 DEF WalkInv, Outside, Inside
<1>11. CASE WalkReturn
  <2>1. /\ pc = "walk" /\ pc' = "walked" /\ (count = 0 \/ from = Len(str))
        /\ str' = str /\ n' = n /\ from' = from /\ count' = count
    BY <1>1, <1>11 DEF WalkReturn, InWalk
  <2> QED BY <1>1, <2>1 DEF WalkInv, Outside, Inside
<1>12. CASE CountLoop
  <2>1. pc' \in {"count", "counted"}
    BY <1>12 DEF CountLoop, ScanPair, ScanUnpairedLead, ScanOther, CountReturn, InCount, Scan
  <2> QED BY <1>1, <2>1 DEF WalkInv
<1>13. CASE UNCHANGED vars
  BY <1>1, <1>13 DEF vars, WalkInv, Outside, Inside
<1> QED BY <1>6, <1>7, <1>8, <1>9, <1>10, <1>11, <1>12, <1>13 DEF Next, WalkLoop

\* What the position costs and what is left of the count make up the count
\* that was asked for, at every step of the loop.
THEOREM WalkCorrect == Spec => []WalkInv
BY InitWalk, StepWalk, PTL DEF Spec

-----------------------------------------------------------------------------

\* The closed form, in terms of Cost and Exact.
LEMMA ClosedForm ==
  ASSUME NEW s, NEW k
  PROVE  codepoint_count_to_iterator(s, k) =
           IF Exact(s, k) # {} THEN CHOOSE p \in Exact(s, k) : TRUE
           ELSE IF AtScanHead(s, Len(s) + 1) THEN Len(s) ELSE PastEnd(s)
BY DEF codepoint_count_to_iterator, Exact, Cost, CountedUpTo

\* When the count runs out, in terms of Cost and Exact.
LEMMA UsedUpIs ==
  ASSUME NEW s, NEW k
  PROVE  k \in UsedUp(s) <=> Exact(s, k) # {} \/ k = Cost(s, Len(s))
<1>1. UsedUp(s) = {Cost(s, p) : p \in {q \in 0 .. Len(s) : AtScanHead(s, q + 1)} \cup {Len(s)}}
  BY DEF UsedUp, Cost, CountedUpTo
<1>2. k \in UsedUp(s) <=>
        \E p \in {q \in 0 .. Len(s) : AtScanHead(s, q + 1)} \cup {Len(s)} : k = Cost(s, p)
  BY <1>1
<1>3. Exact(s, k) # {} <=> \E p \in {q \in 0 .. Len(s) : AtScanHead(s, q + 1)} : k = Cost(s, p)
  BY DEF Exact
<1> QED BY <1>2, <1>3

\* The walk returns where the string ends or the count is used up, and reads
\* what lies behind the string only if it walks off.
LEMMA LeavesIs == WalkInv => /\ pc = "walked" => ~ WalksOff(str, n)
                             /\ pc = "overrun" => WalksOff(str, n)
<1> SUFFICES ASSUME WalkInv, pc \in {"walked", "overrun"}
             PROVE  WalksOff(str, n) <=> pc = "overrun"
  OBVIOUS
<1>1. /\ str \in Seq(char16_t) /\ Len(str) \in Nat /\ 2 * Len(str) < SIZE_MAX
      /\ n \in Nat /\ SIZE_MAX \in Nat /\ PastEnd(str) = Len(str) + 1
      /\ from \in Nat /\ count \in 0 .. SIZE_MAX
  BY StrType DEF WalkInv, TypeOK, size_t
<1>2. /\ Cost(str, from) \in Int /\ Cost(str, from) <= from
      /\ Cost(str, Len(str)) \in Int /\ Cost(str, Len(str)) <= Len(str)
  BY <1>1, CostType
<1>3. CASE Outside
  <2>1. WalksOff(str, n) <=> n # Cost(str, Len(str))
    BY <1>3, UsedUpIs DEF WalksOff, Outside
  <2>2. n # Cost(str, Len(str)) <=> count > 0
    BY <1>1, <1>2, <1>3 DEF Outside
  <2>3. pc = "overrun" <=> count > 0
    BY <1>1, <1>3 DEF Outside, WalkInv
  <2> QED BY <2>1, <2>2, <2>3
<1>4. CASE from <= Len(str) /\ Inside
  <2>1. pc = "walked" /\ (count = 0 \/ from = Len(str))
    BY <1>1, <1>4 DEF WalkInv
  <2>2. AtScanHead(str, from + 1)
    BY <1>4 DEF Inside
  <2>3. CASE count = 0
    <3>1. Cost(str, from) = n
      BY <1>1, <1>2, <1>4, <2>3 DEF Inside
    <3>2. from \in Exact(str, n)
      BY <1>1, <1>4, <2>2, <3>1 DEF Exact
    <3> QED BY <2>1, <3>2, UsedUpIs DEF WalksOff
  <2>4. CASE from = Len(str)
    BY <2>1, <2>2, <2>4 DEF WalksOff, EndsInSkip
  <2> QED BY <2>1, <2>3, <2>4
<1> QED BY <1>3, <1>4 DEF WalkInv

\* codepoint_count_to_iterator (helpers.h:333-351) returns, for every string
\* and every count, the position that the closed form of CodeUnits says, unless
\* it walks off the string, which it does for the counts that WalksOff says.
THEOREM PositionCorrect == Spec => []ReturnsPosition
<1>1. WalkInv => ReturnsPosition
  <2> SUFFICES ASSUME WalkInv, pc \in {"walked", "overrun"}
               PROVE  from = codepoint_count_to_iterator(str, n)
    BY LeavesIs DEF ReturnsPosition
  <2>1. /\ str \in Seq(char16_t) /\ Len(str) \in Nat /\ 2 * Len(str) < SIZE_MAX
        /\ n \in Nat /\ SIZE_MAX \in Nat /\ PastEnd(str) = Len(str) + 1
        /\ from \in Nat /\ count \in Nat
    BY StrType DEF WalkInv, TypeOK
  <2>2. Cost(str, from) \in Int /\ Cost(str, from) <= from
    BY <2>1, CostType
  <2>3. CASE Outside
    BY <2>3, ClosedForm DEF Outside, EndsInSkip
  <2>4. CASE from <= Len(str) /\ Inside
    <3>1. pc = "walked" /\ (count = 0 \/ from = Len(str))
      BY <2>1, <2>4 DEF WalkInv, TypeOK
    <3>2. AtScanHead(str, from + 1)
      BY <2>4 DEF Inside
    <3>3. CASE count = 0
      <4>1. Cost(str, from) = n
        BY <2>1, <2>2, <2>4, <3>3 DEF Inside
      <4>2. from \in Exact(str, n)
        BY <2>1, <2>4, <3>2, <4>1 DEF Exact
      <4>3. ASSUME NEW p \in Exact(str, n) PROVE p = from
        <5>1. p \in Nat /\ Cost(str, p) = n /\ AtScanHead(str, p + 1)
          BY <2>1 DEF Exact
        <5>2. ~ (p < from)
          BY <2>1, <3>2, <4>1, <5>1, CostGrows
        <5>3. ~ (from < p)
          BY <2>1, <4>1, <5>1, CostGrows
        <5> QED BY <2>1, <5>1, <5>2, <5>3
      <4>4. (CHOOSE p \in Exact(str, n) : TRUE) = from
        BY <4>2, <4>3
      <4>5. Exact(str, n) # {}
        BY <4>2
      <4>6. codepoint_count_to_iterator(str, n) =
              IF Exact(str, n) # {} THEN CHOOSE p \in Exact(str, n) : TRUE
              ELSE IF AtScanHead(str, Len(str) + 1) THEN Len(str) ELSE PastEnd(str)
        BY ClosedForm
      <4>7. codepoint_count_to_iterator(str, n) = CHOOSE p \in Exact(str, n) : TRUE
        BY <4>5, <4>6
      <4> QED BY <4>4, <4>7
    <3>4. CASE count > 0 /\ from = Len(str)
      <4>1. Exact(str, n) = {}
        <5>1. CASE Cost(str, from) + count = n
          <6> SUFFICES ASSUME NEW p \in 0 .. Len(str), Cost(str, p) = n PROVE FALSE
            BY DEF Exact
          <6>1. p \in Nat
            OBVIOUS
          <6>2. CASE p = from
            BY <6>2, <5>1, <2>1, <2>2, <3>4
          <6>3. CASE p < from
            <7>1. Cost(str, p) < Cost(str, from)
              BY <2>1, <3>2, <6>1, <6>3, CostGrows
            <7> QED BY <7>1, <5>1, <2>1, <2>2, <3>4
          <6> QED BY <3>4, <6>1, <6>2, <6>3
        <5> QED BY <2>4, <5>1 DEF Inside
      <4> QED BY <3>2, <3>4, <4>1, ClosedForm
    <3> QED BY <2>1, <3>1, <3>3, <3>4
  <2> QED BY <2>3, <2>4 DEF WalkInv
<1> QED BY <1>1, WalkCorrect, PTL

\* On well-formed UTF-16 the walk stops exactly where the n-th code point
\* begins, or at the end of a string of fewer, and reads nothing beyond.
THEOREM PositionOfCodePoint == Spec => []PositionExact
<1>1. WalkInv => PositionExact
  <2> SUFFICES ASSUME WalkInv, WellFormed(str), pc \in {"walked", "overrun"}
               PROVE  /\ pc # "overrun"
                      /\ pc = "walked" => SubSeq(str, 1, from) = CodePoints(str, 0, n)
    BY DEF PositionExact
  <2>1. /\ str \in Seq(char16_t) /\ Len(str) \in Nat /\ n \in Nat
        /\ PastEnd(str) = Len(str) + 1 /\ from \in Nat /\ count \in Nat
    BY StrType DEF WalkInv, TypeOK
  <2>2. /\ from <= Len(str) /\ Cost(str, from) + count = n /\ AtScanHead(str, from + 1)
    BY <2>1 DEF WalkInv, Inside, Outside
  <2>3. pc # "overrun"
    BY <2>1, <2>2 DEF WalkInv
  <2>4. ASSUME pc = "walked" PROVE SubSeq(str, 1, from) = CodePoints(str, 0, n)
    <3>1. count = 0 \/ from = Len(str)
      BY <2>4 DEF WalkInv
    <3>2. from \in 0 .. Len(str) /\ 0 \in 0 .. Len(str)
      BY <2>1, <2>2
    <3>3. Cost(str, from) = Cardinality(StartsUpTo(str, from))
      BY <2>1, <2>2, <3>2, StartsOfUnits
    <3>4. Cardinality(StartsUpTo(str, 0)) = 0
      <4>1. StartsUpTo(str, 0) = {}
        BY DEF StartsUpTo, CodePointStarts
      <4> QED BY <4>1, FS_EmptySet
    <3>5. Cost(str, from) \in Int
      BY <2>1, CostType
    <3>6. \/ n = Cardinality(StartsUpTo(str, from))
          \/ from = Len(str) /\ n >= Cardinality(StartsUpTo(str, from))
      BY <2>1, <2>2, <3>1, <3>3, <3>5
    <3>7. AtScanHead(str, 0 + 1) /\ 0 + 1 = 1
      BY HeadAtStart
    <3>8. CodePoints(str, Cardinality(StartsUpTo(str, 0)), n) = SubSeq(str, 0 + 1, from)
      BY <2>1, <2>2, <3>2, <3>6, <3>7, CodePointsBetween
    <3> QED BY <3>4, <3>7, <3>8
  <2> QED BY <2>3, <2>4
<1> QED BY <1>1, WalkCorrect, PTL
=============================================================================
