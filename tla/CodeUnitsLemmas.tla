--------------------------- MODULE CodeUnitsLemmas ---------------------------
(***************************************************************************)
(* What the scan for surrogate pairs (helpers.h:317-331) selects, in a     *)
(* string, in the two strings it is cut into or joined from, and in a      *)
(* string without its leading or trailing units; and how its positions     *)
(* correspond to the code points of a well-formed string.                  *)
(***************************************************************************)
EXTENDS StringViewMethods, CodePointCodec, FiniteSetTheorems, SequenceTheorems, WellFoundedInduction, TLAPS

-----------------------------------------------------------------------------
(* Code units.                                                             *)

\* A code unit is a number of 16 bits.
LEMMA UnitNumbers == char16_t \subseteq Nat /\ \A c \in char16_t : c <= 65535
<1> DEFINE max == 65535
<1>1. max \in Nat /\ char16_t = 0 .. max
  BY DEF char16_t
<1> HIDE DEF max
<1>2. char16_t \subseteq Nat /\ \A c \in char16_t : c <= max
  BY <1>1
<1> QED BY <1>2 DEF max

\* No code unit is both kinds of surrogate.
LEMMA ClassesDisjoint ==
  \A c \in char16_t : ~ (is_lead_surrogate(c) /\ is_trail_surrogate(c))
  BY UnitNumbers DEF is_lead_surrogate, is_trail_surrogate,
         LEAD_SURROGATE_MAX, TRAIL_SURROGATE_MIN

LEMMA LeadIsNoTrail ==
  ASSUME NEW s \in Seq(char16_t), NEW i \in 1 .. Len(s), is_lead_surrogate(s[i])
  PROVE  ~ is_trail_surrogate(s[i])
<1>1. s[i] \in char16_t
  OBVIOUS
<1> QED BY <1>1, ClassesDisjoint

-----------------------------------------------------------------------------
(* size_t.                                                                 *)

LEMMA WrapType == \A x \in Int : Wrap(x) \in size_t /\ Wrap(x) \in Nat
  BY SizeMaxAssumption DEF Wrap, size_t

LEMMA WrapFits == \A x \in size_t : Wrap(x) = x
  BY SizeMaxAssumption DEF Wrap, size_t

\* Below zero it goes on from the top.
LEMMA WrapBelow == \A x \in (-SIZE_MAX) .. (-1) : Wrap(x) = x + SIZE_MAX + 1
  BY SizeMaxAssumption DEF Wrap

-----------------------------------------------------------------------------
(* Where the head of the loop stands.                                      *)

\* AtScanHead from its witnesses: where the run of lead surrogates before i
\* begins, and half its length.
LEMMA HeadByWitness ==
  ASSUME NEW s, NEW i \in Nat, NEW j \in 1 .. i, NEW h \in 0 .. i,
         i = j + 2 * h,
         \A k \in j .. (i - 1) : is_lead_surrogate(s[k]),
         j > 1 => ~ is_lead_surrogate(s[j - 1])
  PROVE  AtScanHead(s, i)
<1>1. \E g \in 0 .. i : i = j + 2 * g
  OBVIOUS
<1> QED BY <1>1, Zenon DEF AtScanHead

LEMMA HeadWitness ==
  ASSUME NEW s, NEW i, AtScanHead(s, i)
  PROVE  \E j \in 1 .. i :
           /\ j > 1 => ~ is_lead_surrogate(s[j - 1])
           /\ \E h \in 0 .. i : i = j + 2 * h
           /\ \A k \in j .. (i - 1) : is_lead_surrogate(s[k])
  BY Zenon DEF AtScanHead

\* The loop starts with its head at the first unit (helpers.h:317).
LEMMA HeadAtStart ==
  ASSUME NEW s PROVE AtScanHead(s, 1)
<1>1. 1 \in Nat /\ 1 \in 1 .. 1 /\ 0 \in 0 .. 1 /\ 1 = 1 + 2 * 0 /\ ~ (1 > 1)
  OBVIOUS
<1>2. 1 .. (1 - 1) = {}
  OBVIOUS
<1> QED BY <1>1, <1>2, HeadByWitness

\* A unit that is no lead surrogate is stepped over alone (helpers.h:328).
LEMMA HeadAfterOther ==
  ASSUME NEW s, NEW i \in Nat \ {0}, ~ is_lead_surrogate(s[i])
  PROVE  AtScanHead(s, i + 1)
<1> DEFINE j == i + 1
<1>1. /\ j \in Nat /\ j \in 1 .. j /\ 0 \in 0 .. j
      /\ j = j + 2 * 0
      /\ j - 1 = i
  OBVIOUS
<1>2. j .. (j - 1) = {}
  OBVIOUS
<1>3. j > 1 => ~ is_lead_surrogate(s[j - 1])
  BY <1>1, Zenon
<1> HIDE DEF j
<1>4. AtScanHead(s, j)
  BY <1>1, <1>2, <1>3, HeadByWitness, Zenon
<1> QED BY <1>4 DEF j

\* A lead surrogate is stepped over with the unit after it, whatever that is
\* (helpers.h:322-328).
LEMMA HeadAfterLead ==
  ASSUME NEW s, NEW i \in Nat \ {0}, AtScanHead(s, i), is_lead_surrogate(s[i])
  PROVE  AtScanHead(s, i + 2)
<1>1. CASE is_lead_surrogate(s[i + 1])
  <2>1. PICK j \in 1 .. i : 
          /\ \E h \in 0 .. i : i = j + 2 * h
          /\ \A k \in j .. (i - 1) : is_lead_surrogate(s[k])
          /\ j > 1 => ~ is_lead_surrogate(s[j - 1])
    BY DEF AtScanHead
  <2>2. PICK h \in 0 .. i : i = j + 2 * h
    BY <2>1
  <2> DEFINE n == i + 2
  <2>3. \A k \in j .. (n - 1) : is_lead_surrogate(s[k])
    <3> SUFFICES ASSUME NEW k \in j .. (n - 1) PROVE is_lead_surrogate(s[k])
      OBVIOUS
    <3>1. k \in j .. (i - 1) \/ k = i \/ k = i + 1
      OBVIOUS
    <3> QED BY <3>1, <2>1, <1>1
  <2>4. n \in Nat /\ j \in 1 .. n /\ h + 1 \in 0 .. n /\ n = j + 2 * (h + 1)
    BY <2>2
  <2> HIDE DEF n
  <2>5. AtScanHead(s, n)
    BY <2>1, <2>3, <2>4, HeadByWitness, Zenon
  <2> QED BY <2>5 DEF n
<1>2. CASE ~ is_lead_surrogate(s[i + 1])
  <2>1. i + 1 \in Nat \ {0} /\ (i + 1) + 1 = i + 2
    OBVIOUS
  <2> QED BY <1>2, <2>1, HeadAfterOther
<1> QED BY <1>1, <1>2

\* The unit after a lead surrogate at the head is never a head itself: the
\* run of lead surrogates that ends before it has odd length.
LEMMA NoHeadAfterLead ==
  ASSUME NEW s, NEW i \in Nat \ {0}, AtScanHead(s, i), is_lead_surrogate(s[i])
  PROVE  ~ AtScanHead(s, i + 1)
<1> SUFFICES ASSUME AtScanHead(s, i + 1) PROVE FALSE
  OBVIOUS
<1>1. PICK j \in 1 .. i :
        /\ \E h \in 0 .. i : i = j + 2 * h
        /\ \A k \in j .. (i - 1) : is_lead_surrogate(s[k])
        /\ j > 1 => ~ is_lead_surrogate(s[j - 1])
  BY DEF AtScanHead
<1>2. PICK m \in 1 .. (i + 1) :
        /\ \E h \in 0 .. (i + 1) : i + 1 = m + 2 * h
        /\ \A k \in m .. (i + 1 - 1) : is_lead_surrogate(s[k])
        /\ m > 1 => ~ is_lead_surrogate(s[m - 1])
  BY DEF AtScanHead
<1>3. m # i + 1
  <2> SUFFICES ASSUME m = i + 1 PROVE FALSE
    OBVIOUS
  <2>1. m > 1 /\ m - 1 = i
    OBVIOUS
  <2> QED BY <2>1, <1>2
<1>4. ~ (m < j)
  <2> SUFFICES ASSUME m < j PROVE FALSE
    OBVIOUS
  <2>1. j > 1 /\ j - 1 \in m .. (i + 1 - 1)
    OBVIOUS
  <2> QED BY <2>1, <1>1, <1>2
<1>5. ~ (j < m)
  <2> SUFFICES ASSUME j < m PROVE FALSE
    OBVIOUS
  <2>1. m > 1 /\ m - 1 \in j .. (i - 1)
    BY <1>3
  <2> QED BY <2>1, <1>1, <1>2
<1>6. j = m
  BY <1>4, <1>5
<1>7. PICK h \in 0 .. i : i = j + 2 * h
  BY <1>1
<1>8. PICK g \in 0 .. (i + 1) : i + 1 = j + 2 * g
  BY <1>2, <1>6
<1> QED BY <1>7, <1>8

-----------------------------------------------------------------------------
(* The set of counted pairs.                                               *)

\* The pairs the loop counts in its first steps.
CountedUpTo(s, n) == {i \in CountedPairs(s) : i <= n}

LEMMA CountedFinite ==
  ASSUME NEW s \in Seq(char16_t), NEW n \in Nat
  PROVE  /\ IsFiniteSet(CountedUpTo(s, n))
         /\ Cardinality(CountedUpTo(s, n)) \in Nat
<1>1. IsFiniteSet(1 .. (Len(s) - 1))
  BY FS_Interval
<1>2. CountedUpTo(s, n) \subseteq 1 .. (Len(s) - 1)
  BY DEF CountedUpTo, CountedPairs
<1>3. IsFiniteSet(CountedUpTo(s, n))
  BY <1>1, <1>2, FS_Subset
<1> QED BY <1>3, FS_CardinalityType

LEMMA CountedNone ==
  ASSUME NEW s \in Seq(char16_t)
  PROVE  Cardinality(CountedUpTo(s, 0)) = 0
<1>1. CountedUpTo(s, 0) = {}
  BY DEF CountedUpTo, CountedPairs
<1> QED BY <1>1, FS_EmptySet

\* A pair at the head is counted, and its second half is not.
LEMMA CountedAfterPair ==
  ASSUME NEW s \in Seq(char16_t), NEW n \in Nat,
         AtScanHead(s, n + 1), PairAt(s, n + 1)
  PROVE  Cardinality(CountedUpTo(s, n + 2)) = Cardinality(CountedUpTo(s, n)) + 1
<1>1. ~ PairAt(s, n + 2)
  <2> SUFFICES ASSUME PairAt(s, n + 2) PROVE FALSE
    OBVIOUS
  <2>1. n + 2 \in 1 .. Len(s) /\ (n + 1) + 1 = n + 2
    BY DEF PairAt
  <2>2. is_trail_surrogate(s[n + 2]) /\ is_lead_surrogate(s[n + 2])
    BY <2>1 DEF PairAt
  <2> QED BY <2>1, <2>2, LeadIsNoTrail
<1>2. n + 1 \in CountedPairs(s) /\ n + 2 \notin CountedPairs(s)
  BY <1>1 DEF CountedPairs, PairAt
<1>3. CountedPairs(s) \subseteq Nat
  BY DEF CountedPairs
<1>4. CountedUpTo(s, n + 2) = CountedUpTo(s, n) \cup {n + 1}
  <2>1. ASSUME NEW i \in CountedUpTo(s, n + 2)
        PROVE  i \in CountedUpTo(s, n) \cup {n + 1}
    <3>1. i \in CountedPairs(s) /\ i <= n + 2 /\ i \in Nat
      BY <1>3 DEF CountedUpTo
    <3>2. i <= n \/ i = n + 1
      BY <3>1, <1>2
    <3> QED BY <3>1, <3>2 DEF CountedUpTo
  <2>2. ASSUME NEW i \in CountedUpTo(s, n) \cup {n + 1}
        PROVE  i \in CountedUpTo(s, n + 2)
    <3>1. i \in CountedPairs(s) /\ i \in Nat /\ i <= n + 2
      BY <1>2, <1>3 DEF CountedUpTo
    <3> QED BY <3>1 DEF CountedUpTo
  <2> QED BY <2>1, <2>2
<1>5. n + 1 \notin CountedUpTo(s, n)
  BY DEF CountedUpTo
<1> QED BY <1>4, <1>5, CountedFinite, FS_AddElement

\* An unpaired lead surrogate at the head adds nothing to the count.
LEMMA CountedAfterUnpairedLead ==
  ASSUME NEW s \in Seq(char16_t), NEW n \in Nat, AtScanHead(s, n + 1),
         is_lead_surrogate(s[n + 1]), ~ PairAt(s, n + 1)
  PROVE  CountedUpTo(s, n + 2) = CountedUpTo(s, n)
<1>1. ~ AtScanHead(s, n + 2)
  <2>1. n + 1 \in Nat \ {0} /\ (n + 1) + 1 = n + 2
    OBVIOUS
  <2> QED BY <2>1, NoHeadAfterLead
<1>2. n + 1 \notin CountedPairs(s) /\ n + 2 \notin CountedPairs(s)
  BY <1>1 DEF CountedPairs
<1>3. \A i \in CountedPairs(s) : i <= n + 2 <=> i <= n
  <2> SUFFICES ASSUME NEW i \in CountedPairs(s) PROVE i <= n + 2 <=> i <= n
    OBVIOUS
  <2>1. i \in Nat /\ i # n + 1 /\ i # n + 2
    BY <1>2 DEF CountedPairs
  <2> QED BY <2>1
<1> QED BY <1>3 DEF CountedUpTo

LEMMA CountedAfterOther ==
  ASSUME NEW s \in Seq(char16_t), NEW n \in Nat, ~ is_lead_surrogate(s[n + 1])
  PROVE  CountedUpTo(s, n + 1) = CountedUpTo(s, n)
<1>1. n + 1 \notin CountedPairs(s)
  BY DEF CountedPairs, PairAt
<1>2. \A i \in CountedPairs(s) : i <= n + 1 <=> i <= n
  <2> SUFFICES ASSUME NEW i \in CountedPairs(s) PROVE i <= n + 1 <=> i <= n
    OBVIOUS
  <2>1. i \in Nat /\ i # n + 1
    BY <1>1 DEF CountedPairs
  <2> QED BY <2>1
<1> QED BY <1>2 DEF CountedUpTo

-----------------------------------------------------------------------------
(* Strings that agree on some of their units.                              *)

\* Whether the head stands at i depends on the units before i only.
LEMMA HeadSamePrefix ==
  ASSUME NEW s, NEW t, NEW i \in Nat,
         \A k \in 1 .. (i - 1) : s[k] = t[k],
         AtScanHead(s, i)
  PROVE  AtScanHead(t, i)
<1>1. PICK j \in 1 .. i :
        /\ j > 1 => ~ is_lead_surrogate(s[j - 1])
        /\ \E h \in 0 .. i : i = j + 2 * h
        /\ \A k \in j .. (i - 1) : is_lead_surrogate(s[k])
  BY HeadWitness
<1>2. PICK h \in 0 .. i : i = j + 2 * h
  BY <1>1
<1>3. \A k \in j .. (i - 1) : is_lead_surrogate(t[k])
  <2> SUFFICES ASSUME NEW k \in j .. (i - 1) PROVE is_lead_surrogate(t[k])
    OBVIOUS
  <2>1. k \in 1 .. (i - 1)
    OBVIOUS
  <2> QED BY <2>1, <1>1
<1>4. j > 1 => ~ is_lead_surrogate(t[j - 1])
  <2> SUFFICES ASSUME j > 1 PROVE ~ is_lead_surrogate(t[j - 1])
    OBVIOUS
  <2>1. j - 1 \in 1 .. (i - 1)
    OBVIOUS
  <2> QED BY <2>1, <1>1
<1> QED BY <1>2, <1>3, <1>4, HeadByWitness, Zenon

\* Where the scan of s stands at the unit after the first n, it goes on as if
\* it had started there.
LEMMA HeadShiftUp ==
  ASSUME NEW s, NEW t, NEW n \in Nat, AtScanHead(s, n + 1),
         NEW i \in Nat \ {0}, \A k \in 1 .. (i - 1) : t[k] = s[n + k],
         AtScanHead(t, i)
  PROVE  AtScanHead(s, n + i)
<1> DEFINE m == n + i
<1>0. m \in Nat
  OBVIOUS
<1>1. PICK j \in 1 .. i :
        /\ j > 1 => ~ is_lead_surrogate(t[j - 1])
        /\ \E h \in 0 .. i : i = j + 2 * h
        /\ \A k \in j .. (i - 1) : is_lead_surrogate(t[k])
  BY HeadWitness
<1>2. PICK h \in 0 .. i : i = j + 2 * h
  BY <1>1
<1>3. \A k \in (n + j) .. (m - 1) : is_lead_surrogate(s[k])
  <2> SUFFICES ASSUME NEW k \in (n + j) .. (m - 1) PROVE is_lead_surrogate(s[k])
    OBVIOUS
  <2>1. k - n \in j .. (i - 1) /\ k - n \in 1 .. (i - 1) /\ n + (k - n) = k
    OBVIOUS
  <2> QED BY <2>1, <1>1
<1>4. CASE j > 1
  <2> DEFINE a == n + j
  <2>1. j - 1 \in 1 .. (i - 1) /\ n + (j - 1) = a - 1
    BY <1>4
  <2>2. ~ is_lead_surrogate(s[a - 1])
    BY <2>1, <1>1, <1>4
  <2>3. a \in 1 .. m /\ h \in 0 .. m /\ m = a + 2 * h
    BY <1>2
  <2>4. \A k \in a .. (m - 1) : is_lead_surrogate(s[k])
    BY <1>3
  <2> HIDE DEF a, m
  <2>5. AtScanHead(s, m)
    BY <1>0, <2>2, <2>3, <2>4, HeadByWitness, Zenon
  <2> QED BY <2>5 DEF m
<1>5. CASE j = 1
  <2>1. PICK a \in 1 .. (n + 1) :
          /\ a > 1 => ~ is_lead_surrogate(s[a - 1])
          /\ \E g \in 0 .. (n + 1) : n + 1 = a + 2 * g
          /\ \A k \in a .. (n + 1 - 1) : is_lead_surrogate(s[k])
    BY HeadWitness
  <2>2. PICK g \in 0 .. (n + 1) : n + 1 = a + 2 * g
    BY <2>1
  <2>3. \A k \in a .. (m - 1) : is_lead_surrogate(s[k])
    <3> SUFFICES ASSUME NEW k \in a .. (m - 1) PROVE is_lead_surrogate(s[k])
      OBVIOUS
    <3>1. k \in a .. (n + 1 - 1) \/ k \in (n + j) .. (m - 1)
      BY <1>5
    <3> QED BY <3>1, <2>1, <1>3
  <2>4. a \in 1 .. m /\ g + h \in 0 .. m /\ m = a + 2 * (g + h)
    BY <2>2, <1>2, <1>5
  <2> HIDE DEF m
  <2>5. AtScanHead(s, m)
    BY <1>0, <2>1, <2>3, <2>4, HeadByWitness, Zenon
  <2> QED BY <2>5 DEF m
<1>6. j > 1 \/ j = 1
  OBVIOUS
<1> QED BY <1>4, <1>5, <1>6

LEMMA HeadShiftDown ==
  ASSUME NEW s, NEW t, NEW n \in Nat, AtScanHead(s, n + 1),
         NEW i \in Nat \ {0}, \A k \in 1 .. (i - 1) : t[k] = s[n + k],
         AtScanHead(s, n + i)
  PROVE  AtScanHead(t, i)
<1>1. PICK j \in 1 .. (n + i) :
        /\ j > 1 => ~ is_lead_surrogate(s[j - 1])
        /\ \E h \in 0 .. (n + i) : n + i = j + 2 * h
        /\ \A k \in j .. (n + i - 1) : is_lead_surrogate(s[k])
  BY HeadWitness
<1>2. PICK h \in 0 .. (n + i) : n + i = j + 2 * h
  BY <1>1
<1>3. CASE j > n
  <2> DEFINE a == j - n
  <2>1. a \in 1 .. i /\ h \in 0 .. i /\ i = a + 2 * h
    BY <1>2, <1>3
  <2>2. \A k \in a .. (i - 1) : is_lead_surrogate(t[k])
    <3> SUFFICES ASSUME NEW k \in a .. (i - 1) PROVE is_lead_surrogate(t[k])
      OBVIOUS
    <3>1. k \in 1 .. (i - 1) /\ n + k \in j .. (n + i - 1)
      BY <1>3
    <3> QED BY <3>1, <1>1
  <2>3. a > 1 => ~ is_lead_surrogate(t[a - 1])
    <3> SUFFICES ASSUME a > 1 PROVE ~ is_lead_surrogate(t[a - 1])
      OBVIOUS
    <3>1. a - 1 \in 1 .. (i - 1) /\ n + (a - 1) = j - 1 /\ j > 1
      BY <2>1
    <3> QED BY <3>1, <1>1
  <2>4. i \in Nat
    OBVIOUS
  <2> HIDE DEF a
  <2> QED BY <2>1, <2>2, <2>3, <2>4, HeadByWitness, Zenon
<1>4. CASE j <= n
  <2>1. PICK a \in 1 .. (n + 1) :
          /\ a > 1 => ~ is_lead_surrogate(s[a - 1])
          /\ \E g \in 0 .. (n + 1) : n + 1 = a + 2 * g
          /\ \A k \in a .. (n + 1 - 1) : is_lead_surrogate(s[k])
    BY HeadWitness
  <2>2. ~ (j < a)
    <3> SUFFICES ASSUME j < a PROVE FALSE
      OBVIOUS
    <3>1. a > 1 /\ a - 1 \in j .. (n + i - 1)
      OBVIOUS
    <3> QED BY <3>1, <2>1, <1>1
  <2>3. ~ (a < j)
    <3> SUFFICES ASSUME a < j PROVE FALSE
      OBVIOUS
    <3>1. j > 1 /\ j - 1 \in a .. (n + 1 - 1)
      BY <1>4
    <3> QED BY <3>1, <2>1, <1>1
  <2>4. a = j
    BY <2>2, <2>3
  <2>5. PICK g \in 0 .. (n + 1) : n + 1 = j + 2 * g
    BY <2>1, <2>4
  <2>6. /\ i \in Nat /\ 1 \in 1 .. i /\ h - g \in 0 .. i /\ i = 1 + 2 * (h - g)
        /\ ~ (1 > 1)
    BY <1>2, <2>5
  <2>7. \A k \in 1 .. (i - 1) : is_lead_surrogate(t[k])
    <3> SUFFICES ASSUME NEW k \in 1 .. (i - 1) PROVE is_lead_surrogate(t[k])
      OBVIOUS
    <3>1. n + k \in j .. (n + i - 1)
      BY <1>4
    <3> QED BY <3>1, <1>1
  <2> QED BY <2>6, <2>7, HeadByWitness, Zenon
<1> QED BY <1>3, <1>4

-----------------------------------------------------------------------------
(* The count of a string made from others.                                 *)

LEMMA CountType ==
  ASSUME NEW s \in Seq(char16_t)
  PROVE  /\ IsFiniteSet(CountedPairs(s))
         /\ count_surrogate_pair(s) \in Nat
         /\ count_surrogate_pair(s) <= Len(s)
<1>1. Len(s) \in Nat
  OBVIOUS
<1>2. /\ IsFiniteSet(1 .. Len(s))
      /\ Cardinality(1 .. Len(s)) = Len(s)
  BY <1>1, FS_Interval
<1>3. CountedPairs(s) \subseteq 1 .. Len(s)
  BY <1>1 DEF CountedPairs
<1>4. /\ IsFiniteSet(CountedPairs(s))
      /\ Cardinality(CountedPairs(s)) <= Cardinality(1 .. Len(s))
  BY <1>2, <1>3, FS_Subset
<1>5. Cardinality(CountedPairs(s)) \in Nat
  BY <1>4, FS_CardinalityType
<1> QED BY <1>2, <1>4, <1>5 DEF count_surrogate_pair

\* A set of numbers has as many elements as the set moved up by n.
LEMMA ShiftCardinality ==
  ASSUME NEW S \in SUBSET Nat, IsFiniteSet(S), NEW n \in Nat
  PROVE  /\ IsFiniteSet({n + i : i \in S})
         /\ Cardinality({n + i : i \in S}) = Cardinality(S)
<1> DEFINE T == {n + i : i \in S}
           f == [i \in S |-> n + i]
<1>1. f \in Injection(S, T)
  <2>1. f \in [S -> T]
    OBVIOUS
  <2>2. \A a, b \in S : f[a] = f[b] => a = b
    OBVIOUS
  <2> QED BY <2>1, <2>2 DEF Injection, IsInjective
<1>2. f \in Surjection(S, T)
  <2>1. f \in [S -> T]
    OBVIOUS
  <2>2. \A y \in T : \E x \in S : f[x] = y
    OBVIOUS
  <2> QED BY <2>1, <2>2 DEF Surjection
<1>3. ExistsBijection(S, T)
  BY <1>1, <1>2 DEF ExistsBijection, Bijection
<1> QED BY <1>3, FS_Bijection

\* Where the scan of s stands at the unit after the first n, the pairs it
\* counts from there on are those of the rest of s.
LEMMA CountedShift ==
  ASSUME NEW s \in Seq(char16_t), NEW t \in Seq(char16_t), NEW n \in Nat,
         Len(s) = n + Len(t), \A k \in 1 .. Len(t) : t[k] = s[n + k],
         AtScanHead(s, n + 1),
         NEW i \in Nat \ {0}
  PROVE  n + i \in CountedPairs(s) <=> i \in CountedPairs(t)
<1>1. Len(s) \in Nat /\ Len(t) \in Nat
  OBVIOUS
<1>2. PairAt(s, n + i) <=> PairAt(t, i)
  <2>1. n + i \in 1 .. (Len(s) - 1) <=> i \in 1 .. (Len(t) - 1)
    BY <1>1
  <2>2. i \in 1 .. (Len(t) - 1) => t[i] = s[n + i] /\ t[i + 1] = s[n + i + 1]
    <3> SUFFICES ASSUME i \in 1 .. (Len(t) - 1)
                 PROVE  t[i] = s[n + i] /\ t[i + 1] = s[n + i + 1]
      OBVIOUS
    <3>1. i \in 1 .. Len(t) /\ i + 1 \in 1 .. Len(t) /\ n + (i + 1) = n + i + 1
      BY <1>1
    <3> QED BY <3>1
  <2> QED BY <2>1, <2>2 DEF PairAt
<1>3. i \in 1 .. Len(t) => (AtScanHead(s, n + i) <=> AtScanHead(t, i))
  <2> SUFFICES ASSUME i \in 1 .. Len(t)
               PROVE  AtScanHead(s, n + i) <=> AtScanHead(t, i)
    OBVIOUS
  <2>1. \A k \in 1 .. (i - 1) : t[k] = s[n + k]
    <3> SUFFICES ASSUME NEW k \in 1 .. (i - 1) PROVE t[k] = s[n + k]
      OBVIOUS
    <3>1. k \in 1 .. Len(t)
      BY <1>1
    <3> QED BY <3>1
  <2> QED BY <2>1, HeadShiftUp, HeadShiftDown
<1>4. PairAt(t, i) => i \in 1 .. Len(t)
  BY <1>1 DEF PairAt
<1> QED BY <1>2, <1>3, <1>4 DEF CountedPairs, PairAt

\* A string that begins with the units of s counts the pairs of s.
LEMMA CountedPrefix ==
  ASSUME NEW s \in Seq(char16_t), NEW u \in Seq(char16_t), Len(s) <= Len(u),
         \A k \in 1 .. Len(s) : u[k] = s[k],
         NEW i \in 1 .. (Len(s) - 1)
  PROVE  i \in CountedPairs(u) <=> i \in CountedPairs(s)
<1>1. Len(s) \in Nat /\ Len(u) \in Nat /\ i \in Nat
  OBVIOUS
<1>2. /\ i \in 1 .. (Len(u) - 1) /\ u[i] = s[i] /\ u[i + 1] = s[i + 1]
  <2>1. i \in 1 .. Len(s) /\ i + 1 \in 1 .. Len(s) /\ i \in 1 .. (Len(u) - 1)
    BY <1>1
  <2> QED BY <2>1
<1>3. \A k \in 1 .. (i - 1) : u[k] = s[k] /\ s[k] = u[k]
  <2> SUFFICES ASSUME NEW k \in 1 .. (i - 1) PROVE u[k] = s[k]
    OBVIOUS
  <2>1. k \in 1 .. Len(s)
    BY <1>1
  <2> QED BY <2>1
<1>4. AtScanHead(u, i) <=> AtScanHead(s, i)
  BY <1>1, <1>3, HeadSamePrefix
<1> QED BY <1>2, <1>4 DEF CountedPairs, PairAt

\* Joining two strings joins their pairs, unless the first ends in an odd run
\* of lead surrogates (string::operator+=, ostr.cpp:12-17, adds the counts).
LEMMA ConcatCount ==
  ASSUME NEW s \in Seq(char16_t), NEW t \in Seq(char16_t), AtScanHead(s, Len(s) + 1)
  PROVE  count_surrogate_pair(s \o t) = count_surrogate_pair(s) + count_surrogate_pair(t)
<1> DEFINE u == s \o t
           n == Len(s)
           T == {n + i : i \in CountedPairs(t)}
<1>1. /\ u \in Seq(char16_t) /\ n \in Nat /\ Len(t) \in Nat /\ Len(u) = n + Len(t)
      /\ \A k \in 1 .. n : u[k] = s[k]
      /\ \A k \in 1 .. Len(t) : u[n + k] = t[k]
  OBVIOUS
<1> HIDE DEF u
<1>2. AtScanHead(u, n + 1)
  <2>1. \A k \in 1 .. (n + 1 - 1) : s[k] = u[k]
    BY <1>1
  <2>2. n + 1 \in Nat
    BY <1>1
  <2> QED BY <2>1, <2>2, HeadSamePrefix
<1>3. n \notin CountedPairs(u)
  <2> SUFFICES ASSUME n \in CountedPairs(u) PROVE FALSE
    OBVIOUS
  <2>1. AtScanHead(u, n) /\ is_lead_surrogate(u[n]) /\ n \in Nat \ {0}
    BY <1>1 DEF CountedPairs, PairAt
  <2> QED BY <2>1, <1>2, NoHeadAfterLead
<1>4. \A i \in 1 .. (n - 1) : i \in CountedPairs(u) <=> i \in CountedPairs(s)
  <2>1. n <= Len(u)
    BY <1>1
  <2> QED BY <1>1, <2>1, CountedPrefix
<1>5. \A i \in Nat \ {0} : n + i \in CountedPairs(u) <=> i \in CountedPairs(t)
  <2>1. \A k \in 1 .. Len(t) : t[k] = u[n + k]
    BY <1>1
  <2> QED BY <1>1, <1>2, <2>1, CountedShift
<1>6. /\ CountedPairs(s) \subseteq 1 .. (n - 1)
      /\ CountedPairs(t) \subseteq Nat \ {0}
      /\ CountedPairs(u) \subseteq Nat \ {0}
  BY <1>1 DEF CountedPairs
<1>7. CountedPairs(u) = CountedPairs(s) \cup T
  <2>1. ASSUME NEW i \in CountedPairs(u) PROVE i \in CountedPairs(s) \cup T
    <3>1. i \in Nat \ {0} /\ i # n
      BY <1>3, <1>6
    <3>2. CASE i < n
      BY <1>1, <1>4, <3>1, <3>2
    <3>3. CASE i > n
      <4>1. i - n \in Nat \ {0} /\ n + (i - n) = i
        BY <1>1, <3>1, <3>3
      <4> QED BY <4>1, <1>5
    <3> QED BY <1>1, <3>1, <3>2, <3>3
  <2>2. ASSUME NEW i \in CountedPairs(s) PROVE i \in CountedPairs(u)
    BY <1>4, <1>6
  <2>3. ASSUME NEW i \in T PROVE i \in CountedPairs(u)
    BY <1>5, <1>6
  <2> QED BY <2>1, <2>2, <2>3
<1>8. CountedPairs(s) \cap T = {}
  BY <1>1, <1>6
<1>9. /\ IsFiniteSet(CountedPairs(s)) /\ IsFiniteSet(CountedPairs(t))
      /\ Cardinality(CountedPairs(s)) \in Nat /\ Cardinality(CountedPairs(t)) \in Nat
  BY CountType DEF count_surrogate_pair
<1>10. IsFiniteSet(T) /\ Cardinality(T) = Cardinality(CountedPairs(t))
  BY <1>1, <1>6, <1>9, ShiftCardinality
<1>11. Cardinality(CountedPairs(s) \cup T)
         = Cardinality(CountedPairs(s)) + Cardinality(T) - Cardinality(CountedPairs(s) \cap T)
  BY <1>9, <1>10, FS_Union
<1>12. Cardinality(CountedPairs(s) \cap T) = 0
  BY <1>8, FS_EmptySet
<1> QED BY <1>7, <1>9, <1>10, <1>11, <1>12 DEF count_surrogate_pair, u

-----------------------------------------------------------------------------
(* Least and greatest elements.                                            *)

\* The least element of a set of numbers is the one that is least.
LEMMA MinIs ==
  ASSUME NEW S \in SUBSET Int, NEW m \in S, \A x \in S : m <= x
  PROVE  Min(S) = m
<1>1. \A x \in S : (\A y \in S : x <= y) => x = m
  OBVIOUS
<1>2. \E x \in S : \A y \in S : x <= y
  OBVIOUS
<1> QED BY <1>1, <1>2 DEF Min

LEMMA MaxIs ==
  ASSUME NEW S \in SUBSET Int, NEW m \in S, \A x \in S : x <= m
  PROVE  Max(S) = m
<1>1. \A x \in S : (\A y \in S : x >= y) => x = m
  OBVIOUS
<1>2. \E x \in S : \A y \in S : x >= y
  OBVIOUS
<1> QED BY <1>1, <1>2 DEF Max

-----------------------------------------------------------------------------
(* What a position costs.                                                  *)

\* What it costs to reach offset p of s.
Cost(s, p) == p - Cardinality(CountedUpTo(s, p))

\* A code point costs one, whether it is a pair or not, so that a later
\* position of the head costs more than an earlier one.
LEMMA CostGrows ==
  ASSUME NEW s \in Seq(char16_t), NEW p \in Nat, NEW q \in Nat, p < q,
         AtScanHead(s, q + 1)
  PROVE  Cost(s, p) < Cost(s, q)
<1> DEFINE S == CountedUpTo(s, p)
           T == CountedUpTo(s, q) \cap (p + 1) .. (q - 1)
<1>1. CountedPairs(s) \subseteq Nat \ {0}
  BY DEF CountedPairs
<1>2. q \notin CountedPairs(s)
  <2> SUFFICES ASSUME q \in CountedPairs(s) PROVE FALSE
    OBVIOUS
  <2>1. AtScanHead(s, q) /\ is_lead_surrogate(s[q]) /\ q \in Nat \ {0}
    BY <1>1 DEF CountedPairs, PairAt
  <2> QED BY <2>1, NoHeadAfterLead
<1>3. CountedUpTo(s, q) = S \cup T
  <2>1. ASSUME NEW i \in CountedUpTo(s, q) PROVE i \in S \cup T
    BY <1>1, <1>2 DEF CountedUpTo
  <2>2. S \cup T \subseteq CountedUpTo(s, q)
    BY <1>1 DEF CountedUpTo
  <2> QED BY <2>1, <2>2
<1>4. S \cap T = {}
  BY DEF CountedUpTo
<1>5. /\ IsFiniteSet((p + 1) .. (q - 1))
      /\ Cardinality((p + 1) .. (q - 1)) = q - 1 - p
  <2>1. p + 1 \in Int /\ q - 1 \in Int
    OBVIOUS
  <2>2. /\ IsFiniteSet((p + 1) .. (q - 1))
        /\ Cardinality((p + 1) .. (q - 1)) =
             IF p + 1 > q - 1 THEN 0 ELSE (q - 1) - (p + 1) + 1
    BY <2>1, FS_Interval
  <2> QED BY <2>2
<1>6. IsFiniteSet(T) /\ Cardinality(T) <= q - 1 - p
  BY <1>5, FS_Subset
<1>7. IsFiniteSet(S) /\ Cardinality(S) \in Nat /\ Cardinality(T) \in Nat
  BY <1>6, CountedFinite, FS_CardinalityType
<1>8. Cardinality(S \cup T) = Cardinality(S) + Cardinality(T) - Cardinality(S \cap T)
  BY <1>6, <1>7, FS_Union
<1>9. Cardinality(S \cap T) = 0
  BY <1>4, FS_EmptySet
<1>10. Cardinality(S \cup T) = Cardinality(CountedUpTo(s, q))
  BY <1>3
<1> HIDE DEF T
<1> QED BY <1>6, <1>7, <1>8, <1>9, <1>10 DEF Cost

LEMMA CostType ==
  ASSUME NEW s \in Seq(char16_t), NEW p \in Nat
  PROVE  Cost(s, p) \in Int /\ Cost(s, p) <= p
BY CountedFinite DEF Cost

\* What a step of the loop adds to the cost, and where it leads.
LEMMA StepCosts ==
  ASSUME NEW s \in Seq(char16_t), NEW p \in Nat, AtScanHead(s, p + 1)
  PROVE  /\ PairAt(s, p + 1) =>
              AtScanHead(s, p + 2 + 1) /\ Cost(s, p + 2) = Cost(s, p) + 1
         /\ is_lead_surrogate(s[p + 1]) =>
              AtScanHead(s, p + 2 + 1) /\ ~ AtScanHead(s, p + 1 + 1)
         /\ is_lead_surrogate(s[p + 1]) /\ ~ PairAt(s, p + 1) =>
              Cost(s, p + 2) = Cost(s, p) + 2
         /\ ~ is_lead_surrogate(s[p + 1]) =>
              AtScanHead(s, p + 1 + 1) /\ Cost(s, p + 1) = Cost(s, p) + 1
<1>1. /\ p + 1 \in Nat \ {0} /\ (p + 1) + 2 = p + 2 + 1 /\ (p + 1) + 1 = p + 1 + 1
      /\ p + 1 \in Nat /\ p + 2 \in Nat
  OBVIOUS
<1>2. Cardinality(CountedUpTo(s, p)) \in Nat
  BY CountedFinite
<1>3. ASSUME is_lead_surrogate(s[p + 1])
      PROVE  AtScanHead(s, p + 2 + 1) /\ ~ AtScanHead(s, p + 1 + 1)
  <2>1. AtScanHead(s, (p + 1) + 2) /\ ~ AtScanHead(s, (p + 1) + 1)
    BY <1>1, <1>3, HeadAfterLead, NoHeadAfterLead
  <2> QED BY <1>1, <2>1
<1>4. ASSUME PairAt(s, p + 1) PROVE Cost(s, p + 2) = Cost(s, p) + 1
  <2>1. Cardinality(CountedUpTo(s, p + 2)) = Cardinality(CountedUpTo(s, p)) + 1
    BY <1>4, CountedAfterPair
  <2> QED BY <1>2, <2>1 DEF Cost
<1>5. ASSUME is_lead_surrogate(s[p + 1]), ~ PairAt(s, p + 1)
      PROVE  Cost(s, p + 2) = Cost(s, p) + 2
  <2>1. CountedUpTo(s, p + 2) = CountedUpTo(s, p)
    BY <1>5, CountedAfterUnpairedLead
  <2> QED BY <1>2, <2>1 DEF Cost
<1>6. ASSUME ~ is_lead_surrogate(s[p + 1])
      PROVE  AtScanHead(s, p + 1 + 1) /\ Cost(s, p + 1) = Cost(s, p) + 1
  <2>1. CountedUpTo(s, p + 1) = CountedUpTo(s, p)
    BY <1>6, CountedAfterOther
  <2>2. AtScanHead(s, (p + 1) + 1)
    BY <1>1, <1>6, HeadAfterOther
  <2> QED BY <1>1, <1>2, <2>1, <2>2 DEF Cost
<1>7. PairAt(s, p + 1) => is_lead_surrogate(s[p + 1])
  BY DEF PairAt
<1> QED BY <1>3, <1>4, <1>5, <1>6, <1>7

-----------------------------------------------------------------------------
(* Short parts of a string.                                                *)

LEMMA OneUnit ==
  ASSUME NEW s \in Seq(char16_t), NEW i \in 1 .. Len(s)
  PROVE  SubSeq(s, i, i) = <<s[i]>>
<1>1. s[i] \in char16_t /\ i \in 1 .. Len(s) /\ i \in i .. Len(s)
  OBVIOUS
<1>2. SubSeq(s, i, i) = <<s[i]>> \o SubSeq(s, i + 1, i)
  BY <1>1, SubSeqRecursiveFirst
<1>3. SubSeq(s, i + 1, i) = <<>>
  BY SubSeqEmpty
<1>4. <<s[i]>> \in Seq(char16_t)
  BY <1>1
<1> QED BY <1>2, <1>3, <1>4, ConcatEmptySeq

LEMMA TwoUnits ==
  ASSUME NEW s \in Seq(char16_t), NEW i \in 1 .. (Len(s) - 1)
  PROVE  SubSeq(s, i, i + 1) = <<s[i], s[i + 1]>>
<1>1. /\ s[i] \in char16_t /\ s[i + 1] \in char16_t
      /\ i \in 1 .. Len(s) /\ i + 1 \in 1 .. Len(s) /\ i + 1 \in i .. Len(s)
  OBVIOUS
<1>2. SubSeq(s, i, i + 1) = <<s[i]>> \o SubSeq(s, i + 1, i + 1)
  BY <1>1, SubSeqRecursiveFirst
<1>3. SubSeq(s, i + 1, i + 1) = <<s[i + 1]>>
  BY <1>1, OneUnit
<1> DEFINE u == <<s[i]>> \o <<s[i + 1]>>
           w == <<s[i], s[i + 1]>>
<1>4. <<s[i]>> \in Seq(char16_t) /\ <<s[i + 1]>> \in Seq(char16_t) /\ w \in Seq(char16_t)
  BY <1>1
<1>5. u \in Seq(char16_t) /\ Len(u) = 2 /\ u[1] = s[i] /\ u[2] = s[i + 1]
  BY <1>4, ConcatProperties
<1>6. Len(w) = 2 /\ w[1] = s[i] /\ w[2] = s[i + 1]
  OBVIOUS
<1>7. \A k \in 1 .. 2 : k = 1 \/ k = 2
  OBVIOUS
<1> HIDE DEF u, w
<1>8. u = w
  BY <1>4, <1>5, <1>6, <1>7, SeqEqual
<1> QED BY <1>2, <1>3, <1>8 DEF u, w

-----------------------------------------------------------------------------
(* Well-formed strings.                                                    *)

\* The unit before a pair of a well-formed string is no lead surrogate.
LEMMA NoLeadBeforePair ==
  ASSUME NEW s \in Seq(char16_t), WellFormed(s), NEW i \in Nat \ {0}, PairAt(s, i), i > 1
  PROVE  ~ is_lead_surrogate(s[i - 1])
<1> SUFFICES ASSUME is_lead_surrogate(s[i - 1]) PROVE FALSE
  OBVIOUS
<1>1. i \in 1 .. Len(s) /\ i - 1 \in 1 .. Len(s) /\ (i - 1) + 1 = i /\ is_lead_surrogate(s[i])
  BY DEF PairAt
<1>2. is_trail_surrogate(s[i])
  BY <1>1 DEF WellFormed, PairAt
<1> QED BY <1>1, <1>2, LeadIsNoTrail

\* The scan's head stands at every pair of a well-formed string ...
LEMMA HeadAtPair ==
  ASSUME NEW s \in Seq(char16_t), WellFormed(s), NEW i \in Nat \ {0}, PairAt(s, i)
  PROVE  AtScanHead(s, i)
<1>1. CASE i = 1
  BY <1>1, HeadAtStart
<1>2. CASE i > 1
  <2>1. ~ is_lead_surrogate(s[i - 1]) /\ i - 1 \in Nat \ {0} /\ (i - 1) + 1 = i
    BY <1>2, NoLeadBeforePair
  <2> QED BY <2>1, HeadAfterOther
<1> QED BY <1>1, <1>2

\* ... and nowhere but where a code point begins, and at the end.
LEMMA HeadIffStart ==
  ASSUME NEW s \in Seq(char16_t), WellFormed(s), NEW i \in 1 .. (Len(s) + 1)
  PROVE  AtScanHead(s, i) <=> ~ (i > 1 /\ PairAt(s, i - 1))
<1>1. CASE i = 1
  BY <1>1, HeadAtStart
<1>2. CASE i > 1 /\ PairAt(s, i - 1)
  <2>1. i - 1 \in Nat \ {0} /\ (i - 1) + 1 = i /\ is_lead_surrogate(s[i - 1])
    BY <1>2 DEF PairAt
  <2>2. AtScanHead(s, i - 1)
    BY <1>2, <2>1, HeadAtPair
  <2> QED BY <1>2, <2>1, <2>2, NoHeadAfterLead
<1>3. CASE i > 1 /\ ~ PairAt(s, i - 1)
  <2>1. i - 1 \in 1 .. Len(s) /\ i - 1 \in Nat \ {0} /\ (i - 1) + 1 = i
    BY <1>3
  <2>2. ~ is_lead_surrogate(s[i - 1])
    BY <1>3, <2>1 DEF WellFormed
  <2> QED BY <1>3, <2>1, <2>2, HeadAfterOther
<1> QED BY <1>1, <1>2, <1>3

\* Every pair of a well-formed string is counted.
LEMMA EveryPairCounted ==
  ASSUME NEW s \in Seq(char16_t), WellFormed(s)
  PROVE  CountedPairs(s) = Pairs(s)
<1>1. \A i \in 1 .. (Len(s) - 1) : PairAt(s, i) => AtScanHead(s, i)
  BY HeadAtPair
<1> QED BY <1>1 DEF CountedPairs, Pairs

\* The code points of s that begin within the first n units.
StartsUpTo(s, n) == {j \in CodePointStarts(s) : j <= n}

\* The two counts by their definitions.
LEMMA CountsAre ==
  ASSUME NEW s
  PROVE  /\ count_surrogate_pair(s) = Cardinality(CountedPairs(s))
         /\ CodePointCount(s) = Cardinality(CodePointStarts(s))
BY DEF count_surrogate_pair, CodePointCount

LEMMA StartsFinite ==
  ASSUME NEW s \in Seq(char16_t), NEW n \in Nat
  PROVE  /\ IsFiniteSet(CodePointStarts(s)) /\ Cardinality(CodePointStarts(s)) \in Nat
         /\ IsFiniteSet(StartsUpTo(s, n)) /\ Cardinality(StartsUpTo(s, n)) \in Nat
<1>1. IsFiniteSet(1 .. Len(s))
  BY FS_Interval
<1>2. CodePointStarts(s) \subseteq 1 .. Len(s) /\ StartsUpTo(s, n) \subseteq 1 .. Len(s)
  BY DEF StartsUpTo, CodePointStarts
<1>3. IsFiniteSet(CodePointStarts(s)) /\ IsFiniteSet(StartsUpTo(s, n))
  BY <1>1, <1>2, FS_Subset
<1> QED BY <1>3, FS_CardinalityType

\* Of n units each is where a code point begins or the second half of a pair.
LEMMA StartsOfUnits ==
  ASSUME NEW s \in Seq(char16_t), WellFormed(s), NEW n \in 0 .. Len(s), AtScanHead(s, n + 1)
  PROVE  Cardinality(StartsUpTo(s, n)) = Cost(s, n)
<1> DEFINE S == StartsUpTo(s, n)
           C == CountedUpTo(s, n)
           T == {1 + i : i \in C}
<1>1. n \in Nat /\ Len(s) \in Nat
  OBVIOUS
<1>2. C = {i \in 1 .. (n - 1) : PairAt(s, i)}
  <2>1. n > 0 => ~ PairAt(s, n)
    <3> SUFFICES ASSUME n > 0 PROVE ~ PairAt(s, n)
      OBVIOUS
    <3>1. n + 1 \in 1 .. (Len(s) + 1) /\ (n + 1) - 1 = n /\ n + 1 > 1
      BY <1>1
    <3> QED BY <3>1, HeadIffStart
  <2>2. CountedPairs(s) = {i \in 1 .. (Len(s) - 1) : PairAt(s, i)}
    BY EveryPairCounted DEF Pairs
  <2>3. ASSUME NEW i \in C PROVE i \in 1 .. (n - 1) /\ PairAt(s, i)
    <3>1. i \in 1 .. (Len(s) - 1) /\ PairAt(s, i) /\ i <= n
      BY <2>2 DEF CountedUpTo
    <3>2. i # n
      BY <3>1, <2>1
    <3> QED BY <3>1, <3>2, <1>1
  <2>4. ASSUME NEW i \in 1 .. (n - 1), PairAt(s, i) PROVE i \in C
    <3>1. i \in 1 .. (Len(s) - 1) /\ i <= n
      BY <1>1
    <3> QED BY <3>1, <2>2, <2>4 DEF CountedUpTo
  <2> QED BY <2>3, <2>4
<1>3. S = {j \in 1 .. n : ~ (j > 1 /\ PairAt(s, j - 1))}
  BY <1>1 DEF StartsUpTo, CodePointStarts
<1>4. 1 .. n = S \cup T /\ S \cap T = {}
  <2>1. ASSUME NEW j \in 1 .. n PROVE j \in S <=> j \notin T
    <3>1. j \in T <=> j - 1 \in C
      BY <1>2
    <3>2. j - 1 \in C <=> j > 1 /\ PairAt(s, j - 1)
      BY <1>1, <1>2
    <3> QED BY <3>1, <3>2, <1>3
  <2>2. T \subseteq 1 .. n
    BY <1>1, <1>2
  <2>3. S \subseteq 1 .. n
    BY <1>3
  <2> QED BY <2>1, <2>2, <2>3
<1>5. C \in SUBSET Nat
  BY <1>2
<1>6. IsFiniteSet(C) /\ Cardinality(C) \in Nat
  BY <1>1, CountedFinite
<1>7. IsFiniteSet(T) /\ Cardinality(T) = Cardinality(C)
  BY <1>5, <1>6, ShiftCardinality
<1>8. IsFiniteSet(S) /\ Cardinality(S) \in Nat
  BY <1>1, StartsFinite
<1> HIDE DEF S, T, C
<1>9. Cardinality(S \cup T) = Cardinality(S) + Cardinality(T) - Cardinality(S \cap T)
  BY <1>7, <1>8, FS_Union
<1>10. Cardinality(S \cap T) = 0
  BY <1>4, FS_EmptySet
<1>11. Cardinality(S \cup T) = n
  <2>1. Cardinality(1 .. n) = n
    BY <1>1, FS_Interval
  <2> QED BY <2>1, <1>4
<1>12. Cardinality(S) = n - Cardinality(C)
  BY <1>1, <1>6, <1>7, <1>8, <1>9, <1>10, <1>11
<1> QED BY <1>12 DEF S, C, Cost

LEMMA StartsGrow ==
  ASSUME NEW s \in Seq(char16_t), NEW m \in Nat, NEW n \in Nat, m <= n
  PROVE  Cardinality(StartsUpTo(s, m)) <= Cardinality(StartsUpTo(s, n))
<1>1. IsFiniteSet(StartsUpTo(s, n))
  BY StartsFinite
<1>2. StartsUpTo(s, m) \subseteq StartsUpTo(s, n)
  BY DEF StartsUpTo, CodePointStarts
<1> QED BY <1>1, <1>2, FS_Subset

\* A code point begins where the head stands, and is one more.
LEMMA StartsAfterHead ==
  ASSUME NEW s \in Seq(char16_t), WellFormed(s), NEW m \in Nat, NEW n \in Nat, m < n,
         n <= Len(s), AtScanHead(s, m + 1)
  PROVE  Cardinality(StartsUpTo(s, m)) + 1 <= Cardinality(StartsUpTo(s, n))
<1>1. m + 1 \in 1 .. Len(s) /\ m + 1 \in 1 .. (Len(s) + 1)
  OBVIOUS
<1>2. m + 1 \in CodePointStarts(s)
  BY <1>1, HeadIffStart DEF CodePointStarts
<1>3. m + 1 \notin StartsUpTo(s, m) /\ m + 1 \in StartsUpTo(s, n)
  BY <1>2 DEF StartsUpTo
<1>4. StartsUpTo(s, m) \cup {m + 1} \subseteq StartsUpTo(s, n)
  BY <1>3 DEF StartsUpTo, CodePointStarts
<1>5. IsFiniteSet(StartsUpTo(s, m)) /\ IsFiniteSet(StartsUpTo(s, n))
  BY StartsFinite
<1>6. Cardinality(StartsUpTo(s, m) \cup {m + 1}) = Cardinality(StartsUpTo(s, m)) + 1
  BY <1>3, <1>5, FS_AddElement
<1> QED BY <1>4, <1>5, <1>6, FS_Subset

\* The code points from the one that begins behind the first a units up to
\* where b units are used up, or up to a number that there are none beyond,
\* are those units.
LEMMA CodePointsBetween ==
  ASSUME NEW s \in Seq(char16_t), WellFormed(s), NEW a \in 0 .. Len(s), NEW b \in a .. Len(s),
         AtScanHead(s, a + 1), AtScanHead(s, b + 1), NEW to \in Nat,
         to = Cardinality(StartsUpTo(s, b)) \/ (b = Len(s) /\ to >= Cardinality(StartsUpTo(s, b)))
  PROVE  CodePoints(s, Cardinality(StartsUpTo(s, a)), to) = SubSeq(s, a + 1, b)
<1> DEFINE lo == Cardinality(StartsUpTo(s, a))
           within == {i \in 1 .. Len(s) : lo <= CodePointOf(s, i) /\ CodePointOf(s, i) < to}
<1>1. a \in Nat /\ b \in Nat /\ Len(s) \in Nat /\ a <= b /\ b <= Len(s)
  OBVIOUS
<1>2. lo \in Nat /\ Cardinality(StartsUpTo(s, b)) \in Nat
  BY <1>1, StartsFinite
<1>3. \A i \in 1 .. Len(s) :
        /\ Cardinality(StartsUpTo(s, i)) \in Nat
        /\ CodePointOf(s, i) = Cardinality(StartsUpTo(s, i)) - 1
  <2> SUFFICES ASSUME NEW i \in 1 .. Len(s)
               PROVE  /\ Cardinality(StartsUpTo(s, i)) \in Nat
                      /\ CodePointOf(s, i) = Cardinality(StartsUpTo(s, i)) - 1
    OBVIOUS
  <2>1. i \in Nat
    OBVIOUS
  <2>2. Cardinality(StartsUpTo(s, i)) \in Nat
    BY <2>1, StartsFinite
  <2> QED BY <2>2 DEF CodePointOf, StartsUpTo
<1>4. within = (a + 1) .. b
  <2>1. ASSUME NEW i \in 1 .. Len(s), i <= a PROVE i \notin within
    <3>1. Cardinality(StartsUpTo(s, i)) <= lo
      BY <1>1, <2>1, StartsGrow
    <3> QED BY <3>1, <1>2, <1>3
  <2>2. ASSUME NEW i \in 1 .. Len(s), a < i, i <= b PROVE i \in within
    <3>1. lo + 1 <= Cardinality(StartsUpTo(s, i))
      BY <1>1, <2>2, StartsAfterHead
    <3>2. Cardinality(StartsUpTo(s, i)) <= Cardinality(StartsUpTo(s, b))
      BY <1>1, <2>2, StartsGrow
    <3> QED BY <3>1, <3>2, <1>2, <1>3
  <2>3. ASSUME NEW i \in 1 .. Len(s), b < i PROVE i \notin within
    <3>1. Cardinality(StartsUpTo(s, b)) + 1 <= Cardinality(StartsUpTo(s, i))
      BY <1>1, <2>3, StartsAfterHead
    <3>2. to = Cardinality(StartsUpTo(s, b))
      BY <1>1, <2>3
    <3> QED BY <3>1, <3>2, <1>2, <1>3
  <2> HIDE DEF within
  <2>4. \A i \in 1 .. Len(s) : i \in within <=> i \in (a + 1) .. b
    BY <2>1, <2>2, <2>3, <1>1
  <2>5. within \subseteq 1 .. Len(s) /\ (a + 1) .. b \subseteq 1 .. Len(s)
    BY <1>1 DEF within
  <2> QED BY <2>4, <2>5
<1>5. CodePoints(s, lo, to) = IF within = {} THEN <<>> ELSE SubSeq(s, Min(within), Max(within))
  BY DEF CodePoints
<1> HIDE DEF within
<1>6. CASE a = b
  <2>1. within = {}
    BY <1>1, <1>4, <1>6
  <2>2. SubSeq(s, a + 1, b) = <<>>
    BY <1>1, <1>6, SubSeqEmpty
  <2> QED BY <2>1, <2>2, <1>5
<1>7. CASE a < b
  <2>1. a + 1 \in within /\ b \in within /\ within \in SUBSET Int
    BY <1>1, <1>4, <1>7
  <2>2. \A i \in within : a + 1 <= i /\ i <= b
    BY <1>1, <1>4
  <2>3. Min(within) = a + 1
    BY <2>1, <2>2, MinIs
  <2>4. Max(within) = b
    BY <2>1, <2>2, MaxIs
  <2>5. within # {}
    BY <2>1
  <2> QED BY <2>3, <2>4, <2>5, <1>5
<1> QED BY <1>1, <1>6, <1>7

-----------------------------------------------------------------------------
(* Induction, as facts about sets of numbers.                              *)

\* A set of natural numbers has a least element, and a bounded one a greatest.
LEMMA LeastExists ==
  ASSUME NEW S \in SUBSET Nat, S # {}
  PROVE  \E m \in S : \A x \in S : m <= x
<1> DEFINE R == {p \in Nat \X Nat : p[1] < p[2]}
<1>1. R = OpToRel(<, Nat)
  BY DEF OpToRel
<1>2. IsWellFoundedOn(R, Nat)
  BY <1>1, NatLessThanWellFounded
<1>3. PICK m \in S : \A x \in S : <<x, m>> \notin R
  <2> HIDE DEF R
  <2> QED BY <1>2, WFMin
<1>4. \A x \in S : ~ (x < m)
  BY <1>3
<1> QED BY <1>4

LEMMA GreatestExists ==
  ASSUME NEW n \in Nat, NEW S \in SUBSET (0 .. n), S # {}
  PROVE  \E m \in S : \A x \in S : x <= m
<1> DEFINE T == {k \in Nat : n - k \in S}
<1>1. PICK y \in S : TRUE
  OBVIOUS
<1>2. n - y \in Nat /\ n - (n - y) = y
  OBVIOUS
<1>3. n - y \in T
  BY <1>1, <1>2
<1>4. T \in SUBSET Nat /\ T # {}
  BY <1>3
<1>5. PICK k \in T : \A x \in T : k <= x
  <2> HIDE DEF T
  <2> QED BY <1>4, LeastExists
<1>6. \A x \in S : n - x \in T
  OBVIOUS
<1>7. \A x \in S : k <= n - x
  BY <1>5, <1>6
<1>8. n - k \in S /\ k \in Nat
  BY <1>5
<1> HIDE DEF T
<1>9. \A x \in S : x <= n - k
  BY <1>7, <1>8
<1> QED BY <1>8, <1>9

LEMMA SetInduction ==
  ASSUME NEW S \in SUBSET Nat, 0 \in S, \A n \in S : n + 1 \in S
  PROVE  S = Nat
<1> SUFFICES ASSUME Nat \ S # {} PROVE FALSE
  OBVIOUS
<1>1. PICK m \in Nat \ S : \A x \in Nat \ S : m <= x
  BY LeastExists
<1>2. m # 0 /\ m - 1 \in Nat /\ m - 1 \in S
  BY <1>1
<1>3. (m - 1) + 1 \in S
  BY <1>2
<1> QED BY <1>1, <1>2, <1>3

-----------------------------------------------------------------------------
(* Walks by code points.                                                   *)

LEMMA HeadAtEnd ==
  ASSUME NEW s \in Seq(char16_t), WellFormed(s)
  PROVE  AtScanHead(s, Len(s) + 1)
<1>1. Len(s) \in Nat /\ Len(s) + 1 \in 1 .. (Len(s) + 1) /\ (Len(s) + 1) - 1 = Len(s)
  OBVIOUS
<1>2. ~ PairAt(s, Len(s))
  BY <1>1 DEF PairAt
<1> QED BY <1>1, <1>2, HeadIffStart

\* From where one code point begins the next one is one or two units away.
LEMMA NextHead ==
  ASSUME NEW s \in Seq(char16_t), WellFormed(s), NEW p \in Nat, p < Len(s), AtScanHead(s, p + 1)
  PROVE  \E q \in {p + 1, p + 2} :
           /\ q \in 0 .. Len(s) /\ AtScanHead(s, q + 1)
           /\ Cardinality(StartsUpTo(s, q)) = Cardinality(StartsUpTo(s, p)) + 1
           /\ q = IF PairAt(s, p + 1) THEN p + 2 ELSE p + 1
<1>1. p \in 0 .. Len(s) /\ p + 1 \in 1 .. Len(s) /\ p + 1 \in 0 .. Len(s)
  OBVIOUS
<1>2. Cardinality(StartsUpTo(s, p)) = Cost(s, p)
  BY <1>1, StartsOfUnits
<1>3. CASE PairAt(s, p + 1)
  <2>1. p + 2 \in 0 .. Len(s)
    BY <1>3 DEF PairAt
  <2>2. AtScanHead(s, p + 2 + 1) /\ Cost(s, p + 2) = Cost(s, p) + 1
    BY <1>3, StepCosts
  <2>3. Cardinality(StartsUpTo(s, p + 2)) = Cost(s, p + 2)
    BY <2>1, <2>2, StartsOfUnits
  <2> QED BY <1>2, <1>3, <2>1, <2>2, <2>3
<1>4. CASE ~ PairAt(s, p + 1)
  <2>1. ~ is_lead_surrogate(s[p + 1])
    BY <1>1, <1>4 DEF WellFormed
  <2>2. AtScanHead(s, p + 1 + 1) /\ Cost(s, p + 1) = Cost(s, p) + 1
    BY <2>1, StepCosts
  <2>3. Cardinality(StartsUpTo(s, p + 1)) = Cost(s, p + 1)
    BY <1>1, <2>2, StartsOfUnits
  <2> QED BY <1>1, <1>2, <1>4, <2>2, <2>3
<1> QED BY <1>3, <1>4

LEMMA StartsFromZero ==
  ASSUME NEW s \in Seq(char16_t)
  PROVE  /\ Cardinality(StartsUpTo(s, 0)) = 0
         /\ Cardinality(StartsUpTo(s, Len(s))) = CodePointCount(s)
<1>1. StartsUpTo(s, 0) = {}
  BY DEF StartsUpTo, CodePointStarts
<1>2. StartsUpTo(s, Len(s)) = CodePointStarts(s)
  BY DEF StartsUpTo, CodePointStarts
<1> QED BY <1>1, <1>2, FS_EmptySet, CountsAre

\* Two places where code points begin, or the end, with as many code points
\* before them are the same.
LEMMA StartsTell ==
  ASSUME NEW s \in Seq(char16_t), WellFormed(s), NEW p \in 0 .. Len(s), NEW q \in 0 .. Len(s),
         AtScanHead(s, p + 1), AtScanHead(s, q + 1)
  PROVE  p < q <=> Cardinality(StartsUpTo(s, p)) < Cardinality(StartsUpTo(s, q))
<1>1. p \in Nat /\ q \in Nat /\ q <= Len(s)
  OBVIOUS
<1>2. Cardinality(StartsUpTo(s, p)) \in Nat /\ Cardinality(StartsUpTo(s, q)) \in Nat
  <2>1. Cardinality(StartsUpTo(s, p)) \in Nat
    BY <1>1, StartsFinite
  <2>2. Cardinality(StartsUpTo(s, q)) \in Nat
    BY <1>1, StartsFinite
  <2> QED BY <2>1, <2>2
<1>3. CASE p < q
  <2>1. Cardinality(StartsUpTo(s, p)) + 1 <= Cardinality(StartsUpTo(s, q))
    BY <1>1, <1>3, StartsAfterHead
  <2> QED BY <1>2, <1>3, <2>1
<1>4. CASE q <= p
  <2>1. Cardinality(StartsUpTo(s, q)) <= Cardinality(StartsUpTo(s, p))
    BY <1>1, <1>4, StartsGrow
  <2> QED BY <1>1, <1>2, <1>4, <2>1
<1> QED BY <1>1, <1>3, <1>4

\* Every number of code points that there are is used up somewhere.
LEMMA StartsReach ==
  ASSUME NEW s \in Seq(char16_t), WellFormed(s), NEW n \in 0 .. CodePointCount(s)
  PROVE  \E p \in 0 .. Len(s) : AtScanHead(s, p + 1) /\ Cardinality(StartsUpTo(s, p)) = n
<1> DEFINE S == {p \in 0 .. Len(s) : AtScanHead(s, p + 1) /\ Cardinality(StartsUpTo(s, p)) <= n}
<1>1. Len(s) \in Nat /\ n \in Nat /\ 0 \in 0 .. Len(s) /\ 0 + 1 = 1
  <2>1. CodePointCount(s) \in Nat
    <3>1. 0 \in Nat
      OBVIOUS
    <3> QED BY <3>1, StartsFinite, CountsAre
  <2> QED BY <2>1
<1>2. 0 \in S
  BY <1>1, HeadAtStart, StartsFromZero
<1>3. S \in SUBSET (0 .. Len(s)) /\ S # {}
  BY <1>2
<1>4. PICK p \in S : \A q \in S : q <= p
  <2> HIDE DEF S
  <2> QED BY <1>1, <1>3, GreatestExists
<1>5. p \in 0 .. Len(s) /\ AtScanHead(s, p + 1) /\ Cardinality(StartsUpTo(s, p)) <= n
  BY <1>4
<1>6. Cardinality(StartsUpTo(s, p)) \in Nat
  BY <1>5, StartsFinite
<1>7. CASE Cardinality(StartsUpTo(s, p)) = n
  BY <1>5, <1>7
<1>8. CASE Cardinality(StartsUpTo(s, p)) < n
  <2>1. CASE p = Len(s)
    <3>1. Cardinality(StartsUpTo(s, p)) = CodePointCount(s)
      BY <2>1, StartsFromZero
    <3> QED BY <1>1, <1>6, <1>8, <3>1
  <2>2. CASE p # Len(s)
    <3>1. p \in Nat /\ p < Len(s)
      BY <1>1, <1>5, <2>2
    <3>2. PICK q \in {p + 1, p + 2} :
            /\ q \in 0 .. Len(s) /\ AtScanHead(s, q + 1)
            /\ Cardinality(StartsUpTo(s, q)) = Cardinality(StartsUpTo(s, p)) + 1
      BY <1>5, <3>1, NextHead
    <3>3. q \in S
      BY <1>1, <1>6, <1>8, <3>2
    <3> HIDE DEF S
    <3> QED BY <1>4, <3>1, <3>2, <3>3
  <2> QED BY <2>1, <2>2
<1> QED BY <1>1, <1>5, <1>6, <1>7, <1>8

\* codepoint_count_to_iterator stops behind n code points of a well-formed
\* string, or at its end if there are no more.
LEMMA WalkForward ==
  ASSUME NEW s \in Seq(char16_t), WellFormed(s), NEW n \in Nat
  PROVE  LET p == codepoint_count_to_iterator(s, n)
         IN  /\ p \in 0 .. Len(s) /\ AtScanHead(s, p + 1)
             /\ \/ n <= CodePointCount(s) /\ Cardinality(StartsUpTo(s, p)) = n
                \/ n > CodePointCount(s) /\ p = Len(s)
<1> DEFINE exact == {p \in 0 .. Len(s) : Cost(s, p) = n /\ AtScanHead(s, p + 1)}
<1>1. codepoint_count_to_iterator(s, n) =
        IF exact # {} THEN CHOOSE p \in exact : TRUE
        ELSE IF AtScanHead(s, Len(s) + 1) THEN Len(s) ELSE PastEnd(s)
  BY DEF codepoint_count_to_iterator, Cost, CountedUpTo
<1>2. \A p \in 0 .. Len(s) : AtScanHead(s, p + 1) => Cost(s, p) = Cardinality(StartsUpTo(s, p))
  BY StartsOfUnits
<1>3. CodePointCount(s) \in Nat /\ Len(s) \in Nat
  <2>1. 0 \in Nat
    OBVIOUS
  <2> QED BY <2>1, StartsFinite, CountsAre
<1>4. CASE n <= CodePointCount(s)
  <2>1. n \in 0 .. CodePointCount(s)
    BY <1>3, <1>4
  <2>2. PICK q \in 0 .. Len(s) : AtScanHead(s, q + 1) /\ Cardinality(StartsUpTo(s, q)) = n
    BY <2>1, StartsReach
  <2>3. q \in exact
    BY <1>2, <2>2
  <2>4. exact # {}
    BY <2>3
  <2>5. codepoint_count_to_iterator(s, n) \in exact
    <3> HIDE DEF exact
    <3> QED BY <1>1, <2>4
  <2> QED BY <1>2, <1>4, <2>5
<1>5. CASE n > CodePointCount(s)
  <2>1. exact = {}
    <3> SUFFICES ASSUME NEW p \in exact PROVE FALSE
      OBVIOUS
    <3>1. p \in 0 .. Len(s) /\ p \in Nat /\ p <= Len(s) /\ Cardinality(StartsUpTo(s, p)) = n
      BY <1>2
    <3>2. Cardinality(StartsUpTo(s, p)) <= Cardinality(StartsUpTo(s, Len(s)))
      BY <1>3, <3>1, StartsGrow
    <3>3. n <= CodePointCount(s)
      BY <3>1, <3>2, StartsFromZero
    <3> QED BY <1>3, <1>5, <3>3
  <2>2. codepoint_count_to_iterator(s, n) = Len(s)
    <3> HIDE DEF exact
    <3> QED BY <1>1, <2>1, HeadAtEnd
  <2> QED BY <1>3, <1>5, <2>2, HeadAtEnd
<1> QED BY <1>3, <1>4, <1>5

-----------------------------------------------------------------------------
(* The walk from the end.                                                  *)

\* f[n] is x with the function F applied to it n times.
IsIteration(f, x, F, S) == f \in [Nat -> S] /\ f[0] = x /\ \A n \in Nat : f[n + 1] = F[f[n]]

LEMMA Iterates ==
  ASSUME NEW S, NEW x \in S, NEW F \in [S -> S]
  PROVE  \E f : IsIteration(f, x, F, S)
<1> DEFINE Upto(n) == {h \in [0 .. n -> S] : h[0] = x /\ \A k \in 0 .. (n - 1) : h[k + 1] = F[h[k]]}
           T == {n \in Nat : Upto(n) # {}}
           U == {k \in Nat : \A m \in Nat, n \in Nat : \A g \in Upto(m), h \in Upto(n) :
                               k <= m /\ k <= n => g[k] = h[k]}
<1>1. T = Nat
  <2>1. 0 \in T
    <3>1. [k \in 0 .. 0 |-> x] \in Upto(0)
      OBVIOUS
    <3> QED BY <3>1
  <2>2. ASSUME NEW n \in T PROVE n + 1 \in T
    <3>1. PICK h \in Upto(n) : TRUE
      OBVIOUS
    <3> DEFINE g == [k \in 0 .. (n + 1) |-> IF k = n + 1 THEN F[h[n]] ELSE h[k]]
    <3>2. n \in Nat /\ n \in 0 .. n /\ (n + 1) - 1 = n
      OBVIOUS
    <3>3. F[h[n]] \in S
      BY <3>1, <3>2
    <3>4. g \in [0 .. (n + 1) -> S] /\ g[0] = x
      BY <3>1, <3>2, <3>3
    <3>5. \A k \in 0 .. n : g[k + 1] = F[g[k]]
      BY <3>1, <3>2
    <3>6. g \in Upto(n + 1)
      <4> HIDE DEF g
      <4> QED BY <3>2, <3>4, <3>5
    <3> QED BY <3>2, <3>6
  <2> HIDE DEF T
  <2>3. T \in SUBSET Nat
    BY DEF T
  <2> QED BY <2>1, <2>2, <2>3, SetInduction
<1>2. U = Nat
  <2>1. 0 \in U
    OBVIOUS
  <2>2. ASSUME NEW k \in U PROVE k + 1 \in U
    <3> SUFFICES ASSUME NEW m \in Nat, NEW n \in Nat, NEW g \in Upto(m), NEW h \in Upto(n),
                        k + 1 <= m, k + 1 <= n
                 PROVE  g[k + 1] = h[k + 1]
      OBVIOUS
    <3>1. k \in Nat /\ k <= m /\ k <= n /\ k \in 0 .. (m - 1) /\ k \in 0 .. (n - 1)
      OBVIOUS
    <3>2. g[k] = h[k]
      BY <3>1
    <3> QED BY <3>1, <3>2
  <2> HIDE DEF U
  <2>3. U \in SUBSET Nat
    BY DEF U
  <2> QED BY <2>1, <2>2, <2>3, SetInduction
<1> DEFINE c(n) == CHOOSE h \in Upto(n) : TRUE
           f == [n \in Nat |-> c(n)[n]]
<1>3. \A n \in Nat : c(n) \in Upto(n)
  <2> HIDE DEF Upto
  <2> QED BY <1>1 DEF T
<1>4. ASSUME NEW n \in Nat
      PROVE  f[n] \in S /\ f[n + 1] = F[f[n]]
  <2> HIDE DEF c
  <2>1. /\ n \in 0 .. n /\ n + 1 \in Nat /\ n \in 0 .. ((n + 1) - 1) /\ n <= n + 1 /\ n <= n
        /\ f[n] = c(n)[n] /\ f[n + 1] = c(n + 1)[n + 1]
    OBVIOUS
  <2>2. c(n) \in Upto(n) /\ c(n + 1) \in Upto(n + 1)
    BY <1>3, <2>1
  <2>3. c(n + 1)[n + 1] = F[c(n + 1)[n]] /\ c(n)[n] \in S
    BY <2>1, <2>2
  <2>4. c(n + 1)[n] = c(n)[n]
    BY <1>2, <2>1, <2>2 DEF U
  <2> QED BY <2>1, <2>3, <2>4
<1>5. f[0] = x
  <2>1. c(0) \in Upto(0) /\ f[0] = c(0)[0]
    BY <1>3
  <2> HIDE DEF c, f
  <2> QED BY <2>1
<1>6. f \in [Nat -> S]
  <2>1. \A n \in Nat : c(n)[n] \in S
    <3>1. \A n \in Nat : f[n] = c(n)[n]
      OBVIOUS
    <3> HIDE DEF f, c
    <3> QED BY <1>4, <3>1
  <2> HIDE DEF c
  <2> QED BY <2>1
<1> HIDE DEF f
<1>7. IsIteration(f, x, F, S)
  BY <1>4, <1>5, <1>6 DEF IsIteration
<1> QED BY <1>7

\* Where a turn of codepoint_count_to_iterator_backward leads, in units behind.
BackwardTurn(s) ==
  [r \in 0 .. Len(s) |->
     IF r = Len(s) THEN r ELSE IF PairAt(s, Len(s) - r - 1) THEN r + 2 ELSE r + 1]

LEMMA BackwardTurns ==
  ASSUME NEW s \in Seq(char16_t)
  PROVE  /\ codepoint_count_to_iterator_backward(s, 0) = 0
         /\ \A n \in Nat :
              /\ codepoint_count_to_iterator_backward(s, n) \in 0 .. Len(s)
              /\ codepoint_count_to_iterator_backward(s, n + 1) =
                   BackwardTurn(s)[codepoint_count_to_iterator_backward(s, n)]
<1> DEFINE F == BackwardTurn(s)
           rfrom[turns \in Nat] ==
             IF turns = 0 THEN 0
             ELSE LET r == rfrom[turns - 1]
                  IN  IF r = Len(s) THEN r
                      ELSE IF PairAt(s, Len(s) - r - 1) THEN r + 2
                      ELSE r + 1
           Turns(w) == [turns \in Nat |->
             IF turns = 0 THEN 0
             ELSE LET r == w[turns - 1]
                  IN  IF r = Len(s) THEN r
                      ELSE IF PairAt(s, Len(s) - r - 1) THEN r + 2
                      ELSE r + 1]
<1>1. \A n : codepoint_count_to_iterator_backward(s, n) = rfrom[n]
  BY Zenon DEF codepoint_count_to_iterator_backward
<1>2. F \in [0 .. Len(s) -> 0 .. Len(s)]
  <2>1. ASSUME NEW r \in 0 .. Len(s), r # Len(s) PROVE r + 1 \in 0 .. Len(s)
    BY <2>1
  <2>2. ASSUME NEW r \in 0 .. Len(s), PairAt(s, Len(s) - r - 1) PROVE r + 2 \in 0 .. Len(s)
    <3>1. Len(s) - r - 1 \in 1 .. (Len(s) - 1)
      BY <2>2 DEF PairAt
    <3> QED BY <3>1
  <2> QED BY <2>1, <2>2 DEF BackwardTurn
<1>3. PICK f \in [Nat -> 0 .. Len(s)] : f[0] = 0 /\ \A n \in Nat : f[n + 1] = F[f[n]]
  <2>1. 0 \in 0 .. Len(s)
    OBVIOUS
  <2> DEFINE P == 0 .. Len(s)
  <2>2. 0 \in P /\ F \in [P -> P]
    BY <1>2, <2>1
  <2> HIDE DEF F, P, rfrom, Turns
  <2>3. \E f : IsIteration(f, 0, F, P)
    BY <2>2, Iterates
  <2> QED BY <2>3 DEF P, IsIteration
<1>4. f = Turns(f)
  <2>1. ASSUME NEW n \in Nat PROVE f[n] = Turns(f)[n]
    <3>1. CASE n = 0
      BY <1>3, <3>1
    <3>2. CASE n # 0
      <4>1. n - 1 \in Nat /\ (n - 1) + 1 = n
        BY <3>2
      <4>2. f[n] = F[f[n - 1]] /\ f[n - 1] \in 0 .. Len(s)
        BY <1>3, <4>1
      <4> QED BY <3>2, <4>2 DEF BackwardTurn
    <3> QED BY <3>1, <3>2
  <2> QED BY <1>3, <2>1
<1>5. rfrom = Turns(rfrom)
  <2>1. rfrom = CHOOSE w : w = Turns(w)
    OBVIOUS
  <2> HIDE DEF Turns, rfrom
  <2> QED BY <1>4, <2>1
<1>6. rfrom[0] = 0
  <2>1. Turns(rfrom)[0] = 0
    OBVIOUS
  <2> HIDE DEF Turns, rfrom
  <2> QED BY <1>5, <2>1
<1>7. ASSUME NEW n \in Nat, rfrom[n] \in 0 .. Len(s) PROVE rfrom[n + 1] = F[rfrom[n]]
  <2>1. n + 1 \in Nat /\ n + 1 # 0 /\ (n + 1) - 1 = n
    OBVIOUS
  <2> DEFINE w == rfrom
  <2> HIDE DEF w
  <2>2. Turns(w)[n + 1] = IF w[n] = Len(s) THEN w[n]
                          ELSE IF PairAt(s, Len(s) - w[n] - 1) THEN w[n] + 2
                          ELSE w[n] + 1
    BY <2>1
  <2>3. w[n] \in 0 .. Len(s) /\ w = Turns(w)
    BY <1>5, <1>7 DEF w
  <2>4. F[w[n]] = IF w[n] = Len(s) THEN w[n]
                  ELSE IF PairAt(s, Len(s) - w[n] - 1) THEN w[n] + 2
                  ELSE w[n] + 1
    BY <2>3 DEF BackwardTurn
  <2> HIDE DEF Turns, F
  <2>5. w[n + 1] = F[w[n]]
    BY <2>2, <2>3, <2>4
  <2> QED BY <2>5 DEF w
<1> HIDE DEF rfrom, F, Turns
<1> DEFINE R == {n \in Nat : rfrom[n] \in 0 .. Len(s)}
<1>8. R = Nat
  <2>1. 0 \in R
    BY <1>6
  <2>2. ASSUME NEW n \in R PROVE n + 1 \in R
    <3>1. n \in Nat /\ n + 1 \in Nat /\ rfrom[n] \in 0 .. Len(s)
      OBVIOUS
    <3>2. rfrom[n + 1] = F[rfrom[n]]
      BY <1>7, <3>1
    <3>3. F[rfrom[n]] \in 0 .. Len(s)
      BY <1>2, <3>1
    <3> QED BY <3>1, <3>2, <3>3
  <2>3. R \in SUBSET Nat
    OBVIOUS
  <2> HIDE DEF R
  <2> QED BY <2>1, <2>2, <2>3, SetInduction
<1> QED BY <1>1, <1>6, <1>7, <1>8 DEF F

\* In a well-formed string every turn goes back to where the code point before
\* begins, until there is none.
LEMMA WalkBackward ==
  ASSUME NEW s \in Seq(char16_t), WellFormed(s), NEW n \in Nat
  PROVE  LET p == Len(s) - codepoint_count_to_iterator_backward(s, n)
         IN  /\ p \in 0 .. Len(s) /\ AtScanHead(s, p + 1)
             /\ Cardinality(StartsUpTo(s, p)) =
                  IF n <= CodePointCount(s) THEN CodePointCount(s) - n ELSE 0
<1> DEFINE P(k) == Len(s) - codepoint_count_to_iterator_backward(s, k)
           left_of(k) == IF k <= CodePointCount(s) THEN CodePointCount(s) - k ELSE 0
           R == {k \in Nat : /\ P(k) \in 0 .. Len(s) /\ AtScanHead(s, P(k) + 1)
                             /\ Cardinality(StartsUpTo(s, P(k))) = left_of(k)}
<1>1. Len(s) \in Nat /\ CodePointCount(s) \in Nat
  <2>1. 0 \in Nat
    OBVIOUS
  <2> QED BY <2>1, StartsFinite, CountsAre
<1>2. 0 \in R
  <2>1. P(0) = Len(s)
    <3>1. codepoint_count_to_iterator_backward(s, 0) = 0
      BY BackwardTurns
    <3> QED BY <1>1, <3>1
  <2>2. left_of(0) = CodePointCount(s)
    BY <1>1
  <2> HIDE DEF P, left_of
  <2> QED BY <1>1, <2>1, <2>2, HeadAtEnd, StartsFromZero
<1>3. ASSUME NEW k \in R PROVE k + 1 \in R
  <2> DEFINE r == codepoint_count_to_iterator_backward(s, k)
             p == P(k)
             q == P(k + 1)
  <2>1. /\ k \in Nat /\ k + 1 \in Nat /\ r \in 0 .. Len(s) /\ p = Len(s) - r
        /\ p \in 0 .. Len(s) /\ AtScanHead(s, p + 1)
        /\ Cardinality(StartsUpTo(s, p)) = left_of(k)
    <3>1. k \in Nat /\ k + 1 \in Nat
      OBVIOUS
    <3>2. r \in 0 .. Len(s)
      BY <3>1, BackwardTurns
    <3> QED BY <3>1, <3>2
  <2>2. q = Len(s) - BackwardTurn(s)[r]
    BY <2>1, BackwardTurns
  <2>3. BackwardTurn(s)[r] = IF r = Len(s) THEN r
                             ELSE IF PairAt(s, Len(s) - r - 1) THEN r + 2 ELSE r + 1
    BY <2>1 DEF BackwardTurn
  <2>4. q = IF p = 0 THEN 0 ELSE IF PairAt(s, p - 1) THEN p - 2 ELSE p - 1
    <3> HIDE DEF r, p, q, P
    <3>1. (r = Len(s) <=> p = 0) /\ Len(s) - r - 1 = p - 1
      BY <1>1, <2>1
    <3> QED BY <1>1, <2>1, <2>2, <2>3, <3>1
  <2>5. /\ k + 1 \in R <=> /\ q \in 0 .. Len(s) /\ AtScanHead(s, q + 1)
                           /\ Cardinality(StartsUpTo(s, q)) = left_of(k + 1)
    BY <2>1
  <2> HIDE DEF p, q, P, r, R
  <2>6. CASE p = 0
    <3>1. q = 0 /\ left_of(k) = 0
      BY <2>1, <2>4, <2>6, StartsFromZero
    <3>2. left_of(k + 1) = 0
      BY <1>1, <2>1, <3>1
    <3> QED BY <2>1, <2>5, <2>6, <3>1, <3>2, StartsFromZero
  <2>7. CASE p > 0
    <3>1. p \in Nat /\ p - 1 \in Nat /\ p <= Len(s) /\ p - 1 < Len(s) /\ (p - 1) + 1 = p
      BY <1>1, <2>1, <2>7
    <3>2. CASE PairAt(s, p - 1)
      <4>1. q = p - 2 /\ p - 1 \in 1 .. (Len(s) - 1)
        BY <2>4, <2>7, <3>2 DEF PairAt
      <4>2. q \in Nat /\ q < Len(s) /\ q + 1 = p - 1 /\ q + 2 = p /\ q \in 0 .. Len(s)
            /\ q + 1 \in 1 .. (Len(s) + 1) /\ (q + 1) - 1 = q
        BY <1>1, <2>1, <4>1
      <4>3. ~ PairAt(s, q)
        <5> SUFFICES ASSUME PairAt(s, q) PROVE FALSE
          OBVIOUS
        <5>1. is_trail_surrogate(s[q + 1]) /\ is_lead_surrogate(s[q + 1])
          BY <3>2, <4>2 DEF PairAt
        <5>2. q + 1 \in 1 .. Len(s)
          BY <4>2
        <5> QED BY <5>1, <5>2, LeadIsNoTrail
      <4>4. AtScanHead(s, q + 1)
        BY <4>2, <4>3, HeadIffStart
      <4>5. Cardinality(StartsUpTo(s, p)) = Cardinality(StartsUpTo(s, q)) + 1
        BY <3>2, <4>2, <4>4, NextHead
      <4>6. Cardinality(StartsUpTo(s, q)) \in Nat
        BY <4>2, StartsFinite
      <4>7. Cardinality(StartsUpTo(s, q)) = left_of(k + 1)
        BY <1>1, <2>1, <4>5, <4>6
      <4> QED BY <2>5, <4>2, <4>4, <4>7
    <3>3. CASE ~ PairAt(s, p - 1)
      <4>1. q = p - 1
        BY <2>4, <2>7, <3>3
      <4>2. q \in Nat /\ q < Len(s) /\ q + 1 = p /\ q \in 0 .. Len(s)
            /\ q + 1 \in 1 .. (Len(s) + 1) /\ (q + 1) - 1 = q
        BY <1>1, <3>1, <4>1
      <4>3. AtScanHead(s, q + 1)
        BY <3>3, <4>1, <4>2, HeadIffStart
      <4>4. ~ PairAt(s, p)
        <5>1. p + 1 \in 1 .. (Len(s) + 1) /\ (p + 1) - 1 = p /\ p + 1 > 1
          BY <1>1, <3>1, <2>7
        <5> QED BY <2>1, <5>1, HeadIffStart
      <4>5. Cardinality(StartsUpTo(s, p)) = Cardinality(StartsUpTo(s, q)) + 1
        BY <4>2, <4>3, <4>4, NextHead
      <4>6. Cardinality(StartsUpTo(s, q)) \in Nat
        BY <4>2, StartsFinite
      <4>7. Cardinality(StartsUpTo(s, q)) = left_of(k + 1)
        BY <1>1, <2>1, <4>5, <4>6
      <4> QED BY <2>5, <4>2, <4>3, <4>7
    <3> QED BY <3>2, <3>3
  <2> QED BY <1>1, <2>1, <2>6, <2>7
<1>4. R = Nat
  <2>1. R \in SUBSET Nat
    OBVIOUS
  <2> HIDE DEF R
  <2> QED BY <1>2, <1>3, <2>1, SetInduction
<1>5. n \in R
  BY <1>4
<1> QED BY <1>5

-----------------------------------------------------------------------------
(* What the methods of string_view cut out of a well-formed view.          *)

\* There are at most as many code points as units, and they are numbered from 0.
LEMMA CodePointNumbers ==
  ASSUME NEW s \in Seq(char16_t), WellFormed(s)
  PROVE  /\ CodePointCount(s) \in Nat /\ CodePointCount(s) <= Len(s)
         /\ \A i \in 1 .. Len(s) : CodePointOf(s, i) \in 0 .. (CodePointCount(s) - 1)
<1>1. Len(s) \in Nat /\ Len(s) \in 0 .. Len(s)
  OBVIOUS
<1>2. CodePointCount(s) \in Nat
  BY <1>1, StartsFinite, CountsAre
<1>3. CodePointCount(s) <= Len(s)
  <2>1. CodePointCount(s) = Cost(s, Len(s))
    BY <1>1, HeadAtEnd, StartsOfUnits, StartsFromZero
  <2> QED BY <1>1, <2>1, CostType
<1>4. ASSUME NEW i \in 1 .. Len(s)
      PROVE  CodePointOf(s, i) \in 0 .. (CodePointCount(s) - 1)
  <2>1. i \in Nat /\ 0 \in Nat /\ 0 < i /\ i <= Len(s) /\ 0 + 1 = 1
    OBVIOUS
  <2>2. CodePointOf(s, i) = Cardinality(StartsUpTo(s, i)) - 1
    BY DEF CodePointOf, StartsUpTo
  <2>3. Cardinality(StartsUpTo(s, i)) \in Nat
    BY <2>1, StartsFinite
  <2>4. Cardinality(StartsUpTo(s, i)) <= CodePointCount(s)
    BY <1>1, <2>1, StartsGrow, StartsFromZero
  <2>5. Cardinality(StartsUpTo(s, 0)) + 1 <= Cardinality(StartsUpTo(s, i))
    BY <2>1, HeadAtStart, StartsAfterHead
  <2>6. 1 <= Cardinality(StartsUpTo(s, i))
    BY <2>5, StartsFromZero
  <2> QED BY <1>2, <2>2, <2>3, <2>4, <2>6
<1> QED BY <1>2, <1>3, <1>4

\* There are no code points from one on that is not there, or up to the first.
LEMMA CodePointsNone ==
  ASSUME NEW s \in Seq(char16_t), WellFormed(s), NEW from \in Int, NEW to \in Int,
         from >= CodePointCount(s) \/ to <= 0 \/ to <= from
  PROVE  CodePoints(s, from, to) = <<>>
<1>1. CodePointCount(s) \in Nat
  BY CodePointNumbers
<1>2. \A i \in 1 .. Len(s) : ~ (from <= CodePointOf(s, i) /\ CodePointOf(s, i) < to)
  <2> SUFFICES ASSUME NEW i \in 1 .. Len(s), from <= CodePointOf(s, i), CodePointOf(s, i) < to
               PROVE  FALSE
    OBVIOUS
  <2>1. CodePointOf(s, i) \in 0 .. (CodePointCount(s) - 1)
    BY CodePointNumbers
  <2> QED BY <1>1, <2>1
<1> DEFINE within == {i \in 1 .. Len(s) : from <= CodePointOf(s, i) /\ CodePointOf(s, i) < to}
<1>3. within = {}
  BY <1>2
<1>4. CodePoints(s, from, to) = IF within = {} THEN <<>> ELSE SubSeq(s, Min(within), Max(within))
  BY DEF CodePoints
<1> HIDE DEF within
<1> QED BY <1>3, <1>4

\* Numbers below 0 stand for 0.
LEMMA CodePointsFromNegative ==
  ASSUME NEW s \in Seq(char16_t), WellFormed(s), NEW from \in Int, NEW to \in Int, from <= 0
  PROVE  CodePoints(s, from, to) = CodePoints(s, 0, to)
<1>1. CodePointCount(s) \in Nat
  BY CodePointNumbers
<1>2. \A i \in 1 .. Len(s) : from <= CodePointOf(s, i) /\ 0 <= CodePointOf(s, i)
  <2> SUFFICES ASSUME NEW i \in 1 .. Len(s)
               PROVE  from <= CodePointOf(s, i) /\ 0 <= CodePointOf(s, i)
    OBVIOUS
  <2>1. CodePointOf(s, i) \in 0 .. (CodePointCount(s) - 1)
    BY CodePointNumbers
  <2> QED BY <1>1, <2>1
<1>3. {i \in 1 .. Len(s) : from <= CodePointOf(s, i) /\ CodePointOf(s, i) < to} =
      {i \in 1 .. Len(s) : 0 <= CodePointOf(s, i) /\ CodePointOf(s, i) < to}
  BY <1>2
<1> QED BY <1>3, Zenon DEF CodePoints

\* The positions that a method computes from two counts of code points cut out
\* the code points between them.
LEMMA CutBetween ==
  ASSUME NEW s \in Seq(char16_t), WellFormed(s), NEW p \in 0 .. Len(s), NEW q \in p .. Len(s),
         AtScanHead(s, p + 1), AtScanHead(s, q + 1), NEW from \in Nat, NEW to \in Nat,
         \/ Cardinality(StartsUpTo(s, p)) = from
         \/ p = Len(s) /\ from >= CodePointCount(s),
         \/ Cardinality(StartsUpTo(s, q)) = to
         \/ q = Len(s) /\ to >= CodePointCount(s)
  PROVE  SubSeq(s, p + 1, q) = CodePoints(s, from, to)
<1>1. Len(s) \in Nat /\ p \in Nat /\ q \in Nat /\ p <= q /\ q <= Len(s)
  OBVIOUS
<1>2. CASE p = Len(s) /\ from >= CodePointCount(s)
  <2>1. SubSeq(s, p + 1, q) = <<>>
    BY <1>1, <1>2, SubSeqEmpty
  <2>2. from \in Int /\ to \in Int
    OBVIOUS
  <2>3. CodePoints(s, from, to) = <<>>
    BY <1>2, <2>2, CodePointsNone
  <2> QED BY <2>1, <2>3
<1>3. CASE Cardinality(StartsUpTo(s, p)) = from
  <2>1. \/ to = Cardinality(StartsUpTo(s, q))
        \/ q = Len(s) /\ to >= Cardinality(StartsUpTo(s, q))
    BY StartsFromZero
  <2>2. CodePoints(s, Cardinality(StartsUpTo(s, p)), to) = SubSeq(s, p + 1, q)
    BY <2>1, CodePointsBetween
  <2> QED BY <1>3, <2>2
<1> QED BY <1>2, <1>3

\* Wherever a walk stops, and also when it steps past the end.
LEMMA WalkType ==
  ASSUME NEW s \in Seq(char16_t), NEW n
  PROVE  codepoint_count_to_iterator(s, n) \in 0 .. (Len(s) + 1)
<1> DEFINE exact == {q \in 0 .. Len(s) : Cost(s, q) = n /\ AtScanHead(s, q + 1)}
<1>1. codepoint_count_to_iterator(s, n) =
        IF exact # {} THEN CHOOSE q \in exact : TRUE
        ELSE IF AtScanHead(s, Len(s) + 1) THEN Len(s) ELSE PastEnd(s)
  BY DEF codepoint_count_to_iterator, Cost, CountedUpTo
<1>2. exact \subseteq 0 .. Len(s)
  OBVIOUS
<1>3. exact # {} => (CHOOSE q \in exact : TRUE) \in exact
  OBVIOUS
<1>4. Len(s) \in Nat
  OBVIOUS
<1>5. PastEnd(s) = Len(s) + 1
  BY DEF PastEnd
<1> HIDE DEF exact
<1>6. \/ codepoint_count_to_iterator(s, n) \in exact
      \/ codepoint_count_to_iterator(s, n) \in {Len(s), Len(s) + 1}
  BY <1>1, <1>3, <1>5
<1>7. \A x \in 0 .. Len(s) : x \in 0 .. (Len(s) + 1)
  BY <1>4
<1>8. Len(s) \in 0 .. (Len(s) + 1) /\ Len(s) + 1 \in 0 .. (Len(s) + 1)
  BY <1>4
<1> QED BY <1>2, <1>6, <1>7, <1>8

\* Where a walk stops, in terms of CutBetween.
LEMMA WalkStops ==
  ASSUME NEW s \in Seq(char16_t), WellFormed(s), NEW n \in Nat
  PROVE  LET p == codepoint_count_to_iterator(s, n)
         IN  /\ p \in 0 .. Len(s) /\ AtScanHead(s, p + 1)
             /\ \/ Cardinality(StartsUpTo(s, p)) = n
                \/ p = Len(s) /\ n >= CodePointCount(s)
<1> DEFINE p == codepoint_count_to_iterator(s, n)
<1>1. /\ p \in 0 .. Len(s) /\ AtScanHead(s, p + 1)
      /\ \/ n <= CodePointCount(s) /\ Cardinality(StartsUpTo(s, p)) = n
         \/ n > CodePointCount(s) /\ p = Len(s)
  BY WalkForward
<1>2. CodePointCount(s) \in Nat
  BY CodePointNumbers
<1> HIDE DEF p
<1>3. \/ Cardinality(StartsUpTo(s, p)) = n
      \/ p = Len(s) /\ n >= CodePointCount(s)
  BY <1>1, <1>2
<1> QED BY <1>1, <1>3 DEF p

\* A walk of more code points does not stop earlier.
LEMMA WalkGrows ==
  ASSUME NEW s \in Seq(char16_t), WellFormed(s), NEW m \in Nat, NEW n \in Nat, m <= n
  PROVE  codepoint_count_to_iterator(s, m) <= codepoint_count_to_iterator(s, n)
<1> DEFINE p == codepoint_count_to_iterator(s, m)
           q == codepoint_count_to_iterator(s, n)
<1> SUFFICES p <= q
  OBVIOUS
<1>1. /\ p \in 0 .. Len(s) /\ AtScanHead(s, p + 1)
      /\ \/ m <= CodePointCount(s) /\ Cardinality(StartsUpTo(s, p)) = m
         \/ m > CodePointCount(s) /\ p = Len(s)
  BY WalkForward
<1>2. /\ q \in 0 .. Len(s) /\ AtScanHead(s, q + 1)
      /\ \/ n <= CodePointCount(s) /\ Cardinality(StartsUpTo(s, q)) = n
         \/ n > CodePointCount(s) /\ q = Len(s)
  BY WalkForward
<1>3. CodePointCount(s) \in Nat /\ Len(s) \in Nat
  BY CodePointNumbers
<1> HIDE DEF p, q
<1>4. CASE n > CodePointCount(s)
  BY <1>1, <1>2, <1>3, <1>4
<1>5. CASE n <= CodePointCount(s)
  <2>1. Cardinality(StartsUpTo(s, q)) = n /\ Cardinality(StartsUpTo(s, p)) = m
    BY <1>1, <1>2, <1>3, <1>5
  <2>2. q < p <=> Cardinality(StartsUpTo(s, q)) < Cardinality(StartsUpTo(s, p))
    BY <1>1, <1>2, StartsTell
  <2> QED BY <1>1, <1>2, <2>1, <2>2
<1> QED BY <1>3, <1>4, <1>5

\* u16string_view::substr throws only beyond the end.
LEMMA SubstrInside ==
  ASSUME NEW s \in Seq(char16_t), NEW pos \in 0 .. Len(s), NEW n \in Nat
  PROVE  substr(s, pos, n) = {SubSeq(s, pos + 1, pos + Least(n, Len(s) - pos))}
BY DEF substr

\* substring(offset, count) of a well-formed view is the code points asked for,
\* whatever the arguments.
LEMMA SubstringCuts ==
  ASSUME NEW s \in Seq(char16_t), WellFormed(s), Len(s) <= SIZE_MAX,
         NEW offset \in size_t, NEW count \in size_t
  PROVE  substring(s, offset, count) = {CodePoints(s, offset, offset + count)}
<1>1. /\ SIZE_MAX \in Nat /\ offset \in Nat /\ count \in Nat /\ Len(s) \in Nat
      /\ CodePointCount(s) \in Nat /\ CodePointCount(s) <= Len(s)
  BY SizeMaxAssumption, CodePointNumbers DEF size_t
<1> DEFINE p == codepoint_count_to_iterator(s, offset)
           b == Least(count, Wrap(Len(s) - offset))
           q == codepoint_count_to_iterator(s, Wrap(offset + b))
<1>2. substring(s, offset, count) = substr(s, p, Wrap(q - p))
  BY DEF substring, convert_codepoint_into_index
<1>3. /\ p \in 0 .. Len(s) /\ AtScanHead(s, p + 1)
      /\ \/ Cardinality(StartsUpTo(s, p)) = offset
         \/ p = Len(s) /\ offset >= CodePointCount(s)
  BY <1>1, WalkStops
<1>4. /\ \A x \in Int : Wrap(x) \in Nat
      /\ \A x \in 0 .. SIZE_MAX : Wrap(x) = x
  BY WrapType, WrapFits DEF size_t
<1>5. CASE offset <= Len(s)
  <2>1. Wrap(Len(s) - offset) = Len(s) - offset
    <3>1. Len(s) - offset \in 0 .. SIZE_MAX
      BY <1>1, <1>5
    <3> QED BY <1>4, <3>1
  <2>2. /\ b \in Nat /\ offset + b <= Len(s) /\ b <= count
        /\ b = count \/ offset + b = Len(s)
    BY <1>1, <1>5, <2>1 DEF Least
  <2> HIDE DEF b
  <2>3. Wrap(offset + b) = offset + b
    <3>1. offset + b \in 0 .. SIZE_MAX
      BY <1>1, <2>2
    <3> QED BY <1>4, <3>1
  <2>4. q = codepoint_count_to_iterator(s, offset + b) /\ offset + b \in Nat /\ offset <= offset + b
    BY <1>1, <2>2, <2>3
  <2>5. /\ q \in 0 .. Len(s) /\ AtScanHead(s, q + 1)
        /\ \/ Cardinality(StartsUpTo(s, q)) = offset + b
           \/ q = Len(s) /\ offset + b >= CodePointCount(s)
    BY <2>4, WalkStops
  <2>6. p <= q
    BY <1>1, <2>4, WalkGrows
  <2>7. \/ Cardinality(StartsUpTo(s, q)) = offset + count
        \/ q = Len(s) /\ offset + count >= CodePointCount(s)
    <3>1. CASE b = count
      BY <2>5, <3>1
    <3>2. CASE offset + b = Len(s)
      <4>1. offset + count >= CodePointCount(s)
        BY <1>1, <2>2, <3>2
      <4>2. q = Len(s)
        <5> SUFFICES ASSUME q # Len(s) PROVE FALSE
          BY <4>1
        <5>1. q \in 0 .. Len(s) /\ Len(s) \in 0 .. Len(s) /\ q < Len(s)
          BY <1>1, <2>5
        <5>2. Cardinality(StartsUpTo(s, q)) = Len(s)
          BY <2>5, <3>2, <5>1
        <5>3. Cardinality(StartsUpTo(s, q)) < CodePointCount(s)
          BY <2>5, <5>1, HeadAtEnd, StartsTell, StartsFromZero
        <5> QED BY <1>1, <5>2, <5>3
      <4> QED BY <4>1, <4>2
    <3> QED BY <2>2, <3>1, <3>2
  <2> HIDE DEF p, q
  <2>8. Wrap(q - p) = q - p
    <3>1. q - p \in 0 .. SIZE_MAX
      BY <1>1, <1>3, <2>5, <2>6
    <3> QED BY <1>4, <3>1
  <2>9. substr(s, p, Wrap(q - p)) = {SubSeq(s, p + 1, q)}
    <3>1. q - p \in Nat /\ p + Least(q - p, Len(s) - p) = q
      BY <1>1, <1>3, <2>5, <2>6 DEF Least
    <3> QED BY <1>3, <2>8, <3>1, SubstrInside
  <2>10. SubSeq(s, p + 1, q) = CodePoints(s, offset, offset + count)
    <3>1. q \in p .. Len(s) /\ offset + count \in Nat
      BY <1>1, <1>3, <2>5, <2>6
    <3> QED BY <1>1, <1>3, <2>5, <2>7, <3>1, CutBetween
  <2> QED BY <1>2, <2>9, <2>10 DEF p, q
<1>6. CASE offset > Len(s)
  <2>1. p = Len(s)
    <3>1. p \in 0 .. Len(s)
      BY <1>3
    <3>2. Cardinality(StartsUpTo(s, p)) # offset
      <4>1. p \in Nat /\ p <= Len(s)
        BY <3>1
      <4>2. Cardinality(StartsUpTo(s, p)) <= Cardinality(StartsUpTo(s, Len(s)))
        BY <1>1, <4>1, StartsGrow
      <4>3. Cardinality(StartsUpTo(s, p)) <= CodePointCount(s)
        BY <4>2, StartsFromZero
      <4> QED BY <1>1, <1>6, <4>3
    <3> QED BY <1>3, <3>2
  <2> HIDE DEF p
  <2>2. Wrap(q - p) \in Nat
    <3>1. Wrap(offset + b) \in Nat
      <4>1. b \in Nat
        <5> DEFINE x == Len(s) - offset
        <5>1. x \in Int
          BY <1>1
        <5> HIDE DEF x
        <5>2. Wrap(x) \in Nat
          BY <5>1, WrapType
        <5> QED BY <1>1, <5>2 DEF Least, x
      <4> HIDE DEF b
      <4> DEFINE x == offset + b
      <4>2. x \in Int
        BY <1>1, <4>1
      <4> HIDE DEF x
      <4>3. Wrap(x) \in Nat
        BY <4>2, WrapType
      <4> QED BY <4>3 DEF x
    <3> DEFINE n == Wrap(offset + b)
    <3>2. n \in Nat
      BY <3>1
    <3> HIDE DEF n
    <3>3. codepoint_count_to_iterator(s, n) \in 0 .. Len(s)
      BY <3>2, WalkStops
    <3>4. q = codepoint_count_to_iterator(s, n)
      BY DEF n
    <3> HIDE DEF q
    <3>5. q - p \in Int
      BY <1>1, <2>1, <3>3, <3>4
    <3> QED BY <1>4, <3>5
  <2> HIDE DEF q
  <2>3. substr(s, p, Wrap(q - p)) = {<<>>}
    <3> DEFINE n == Wrap(q - p)
    <3> HIDE DEF n
    <3>1. n \in Nat /\ p + Least(n, Len(s) - p) = Len(s)
      BY <1>1, <2>1, <2>2 DEF Least, n
    <3>2. substr(s, p, n) = {SubSeq(s, p + 1, p + Least(n, Len(s) - p))}
      BY <1>3, <3>1, SubstrInside
    <3>3. SubSeq(s, p + 1, Len(s)) = <<>>
      BY <1>1, <2>1, SubSeqEmpty
    <3> QED BY <3>1, <3>2, <3>3 DEF n
  <2>4. CodePoints(s, offset, offset + count) = <<>>
    <3>1. offset \in Int /\ offset + count \in Int /\ offset >= CodePointCount(s)
      BY <1>1, <1>6
    <3> QED BY <3>1, CodePointsNone
  <2> QED BY <1>2, <2>3, <2>4 DEF p, q
<1> QED BY <1>1, <1>5, <1>6

-----------------------------------------------------------------------------
(* Where one string stands in another.                                     *)

\* The units of s from offset i on are of the same classes as those of t.
SameClasses(s, i, t) ==
  \A k \in 1 .. Len(t) :
    /\ is_lead_surrogate(s[i + k])  <=> is_lead_surrogate(t[k])
    /\ is_trail_surrogate(s[i + k]) <=> is_trail_surrogate(t[k])

\* One string begins and ends in another where a code point begins.
LEMMA InfixHeads ==
  ASSUME NEW s \in Seq(char16_t), WellFormed(s), NEW t \in Seq(char16_t), WellFormed(t),
         t # <<>>, NEW i \in 0 .. (Len(s) - Len(t)), SameClasses(s, i, t)
  PROVE  AtScanHead(s, i + 1) /\ AtScanHead(s, i + Len(t) + 1)
<1> DEFINE m == Len(t)
<1>1. Len(s) \in Nat /\ m \in Nat \ {0} /\ i \in Nat /\ i + m <= Len(s)
  OBVIOUS
<1>2. ASSUME i + 1 > 1, PairAt(s, i) PROVE FALSE
  <2>1. is_trail_surrogate(s[i + 1])
    BY <1>2 DEF PairAt
  <2>2. is_trail_surrogate(t[1]) /\ 1 \in 1 .. Len(t)
    BY <1>1, <2>1 DEF SameClasses
  <2> QED BY <2>2 DEF WellFormed
<1>3. ASSUME PairAt(s, i + m) PROVE FALSE
  <2>1. is_lead_surrogate(s[i + m])
    BY <1>3 DEF PairAt
  <2>2. is_lead_surrogate(t[m]) /\ m \in 1 .. Len(t)
    BY <1>1, <2>1 DEF SameClasses
  <2>3. PairAt(t, m)
    BY <2>2 DEF WellFormed
  <2> QED BY <1>1, <2>3 DEF PairAt
<1> HIDE DEF m
<1>4. AtScanHead(s, i + 1)
  <2>1. i + 1 \in 1 .. (Len(s) + 1) /\ i + 1 - 1 = i
    BY <1>1
  <2> QED BY <1>2, <2>1, HeadIffStart
<1>5. AtScanHead(s, i + m + 1)
  <2> DEFINE e == i + m
  <2>1. e \in Nat /\ e + 1 \in 1 .. (Len(s) + 1) /\ e + 1 - 1 = e /\ ~ PairAt(s, e)
    BY <1>1, <1>3
  <2> HIDE DEF e
  <2>2. AtScanHead(s, e + 1) <=> ~ (e + 1 > 1 /\ PairAt(s, e + 1 - 1))
    BY <2>1, HeadIffStart
  <2>3. ~ PairAt(s, e + 1 - 1)
    BY <2>1
  <2>4. AtScanHead(s, e + 1)
    BY <2>2, <2>3
  <2> QED BY <2>4 DEF e
<1> QED BY <1>4, <1>5 DEF m

\* It takes as many code points of the other as it has.
LEMMA InfixStarts ==
  ASSUME NEW s \in Seq(char16_t), WellFormed(s), NEW t \in Seq(char16_t), WellFormed(t),
         NEW i \in 0 .. (Len(s) - Len(t)), SameClasses(s, i, t), AtScanHead(s, i + 1)
  PROVE  Cardinality(StartsUpTo(s, i + Len(t))) =
           Cardinality(StartsUpTo(s, i)) + CodePointCount(t)
<1> DEFINE m == Len(t)
           S == StartsUpTo(s, i)
           T == {i + j : j \in CodePointStarts(t)}
<1>1. Len(s) \in Nat /\ m \in Nat /\ i \in Nat /\ i + m <= Len(s)
  OBVIOUS
<1>2. ASSUME NEW j \in 1 .. m PROVE i + j \in CodePointStarts(s) <=> j \in CodePointStarts(t)
  <2>1. i + j \in 1 .. Len(s) /\ j \in 1 .. Len(t)
    BY <1>1
  <2>2. CASE j = 1
    <3>1. ~ (i + 1 > 1 /\ PairAt(s, i + 1 - 1))
      <4>1. i + 1 \in 1 .. (Len(s) + 1)
        BY <1>1
      <4> QED BY <4>1, HeadIffStart
    <3> QED BY <2>1, <2>2, <3>1 DEF CodePointStarts
  <2>3. CASE j # 1
    <3>1. /\ j - 1 \in 1 .. Len(t) /\ i + (j - 1) = i + j - 1 /\ j - 1 + 1 = j
          /\ i + j - 1 + 1 = i + j /\ j - 1 \in 1 .. (Len(t) - 1)
          /\ i + j - 1 \in 1 .. (Len(s) - 1) /\ i + j > 1 /\ j > 1
      BY <1>1, <2>3
    <3>2. PairAt(s, i + j - 1) <=> PairAt(t, j - 1)
      <4>1. is_lead_surrogate(s[i + j - 1]) <=> is_lead_surrogate(t[j - 1])
        BY <3>1 DEF SameClasses
      <4>2. is_trail_surrogate(s[i + j]) <=> is_trail_surrogate(t[j])
        BY <2>1 DEF SameClasses
      <4> QED BY <3>1, <4>1, <4>2 DEF PairAt
    <3> QED BY <2>1, <3>1, <3>2 DEF CodePointStarts
  <2> QED BY <2>2, <2>3
<1>3. CodePointStarts(s) \subseteq Nat \ {0} /\ CodePointStarts(t) \subseteq 1 .. m
  BY <1>1 DEF CodePointStarts
<1> HIDE DEF m
<1>4. StartsUpTo(s, i + m) = S \cup T
  <2>1. ASSUME NEW k \in StartsUpTo(s, i + m), k \notin S PROVE k \in T
    <3>1. k \in CodePointStarts(s) /\ k \in Nat /\ k <= i + m /\ k > i
      BY <1>1, <1>3, <2>1 DEF StartsUpTo
    <3>2. k - i \in 1 .. m /\ i + (k - i) = k
      BY <1>1, <3>1
    <3>3. k - i \in CodePointStarts(t)
      BY <1>2, <3>1, <3>2
    <3> QED BY <3>2, <3>3
  <2>2. ASSUME NEW k \in S PROVE k \in StartsUpTo(s, i + m)
    <3>1. k \in CodePointStarts(s) /\ k \in Nat /\ k <= i
      BY <1>3 DEF StartsUpTo
    <3>2. k <= i + m
      BY <1>1, <3>1
    <3> QED BY <3>1, <3>2 DEF StartsUpTo
  <2>3. ASSUME NEW j \in CodePointStarts(t) PROVE i + j \in StartsUpTo(s, i + m)
    <3>1. j \in 1 .. m
      BY <1>3
    <3>2. i + j \in CodePointStarts(s) /\ i + j <= i + m
      BY <1>1, <1>2, <3>1
    <3> QED BY <3>2 DEF StartsUpTo
  <2> QED BY <2>1, <2>2, <2>3
<1>5. S \cap T = {}
  <2>1. ASSUME NEW j \in CodePointStarts(t) PROVE ~ (i + j <= i)
    BY <1>1, <1>3
  <2> QED BY <2>1 DEF StartsUpTo
<1>6. IsFiniteSet(S) /\ Cardinality(S) \in Nat
  BY <1>1, StartsFinite
<1>7. IsFiniteSet(T) /\ Cardinality(T) = CodePointCount(t) /\ CodePointCount(t) \in Nat
  <2>1. IsFiniteSet(CodePointStarts(t)) /\ Cardinality(CodePointStarts(t)) \in Nat
    BY <1>1, StartsFinite
  <2>2. CodePointStarts(t) \in SUBSET Nat
    BY <1>1, <1>3
  <2>3. IsFiniteSet(T) /\ Cardinality(T) = Cardinality(CodePointStarts(t))
    BY <1>1, <2>1, <2>2, ShiftCardinality
  <2> QED BY <2>1, <2>3, CountsAre
<1> HIDE DEF S, T
<1>8. Cardinality(S \cup T) = Cardinality(S) + Cardinality(T) - Cardinality(S \cap T)
  BY <1>6, <1>7, FS_Union
<1>9. Cardinality(S \cap T) = 0
  BY <1>5, FS_EmptySet
<1>10. Cardinality(S \cup T) = Cardinality(S) + CodePointCount(t)
  BY <1>6, <1>7, <1>8, <1>9
<1>11. Cardinality(StartsUpTo(s, i + m)) = Cardinality(S) + CodePointCount(t)
  BY <1>4, <1>10
<1> QED BY <1>11 DEF S, m

\* length counts the code points.
LEMMA LengthIs ==
  ASSUME NEW s \in Seq(char16_t), WellFormed(s)
  PROVE  length(s) = CodePointCount(s)
<1>1. Len(s) \in 0 .. Len(s) /\ AtScanHead(s, Len(s) + 1)
  BY HeadAtEnd
<1>2. CodePointCount(s) = Cost(s, Len(s))
  BY <1>1, StartsOfUnits, StartsFromZero
<1>3. CountedUpTo(s, Len(s)) = CountedPairs(s)
  BY DEF CountedUpTo, CountedPairs
<1> QED BY <1>2, <1>3 DEF Cost, length, count_surrogate_pair

\* Code points are a part of the string that begins and ends where one does.
LEMMA CodePointsPart ==
  ASSUME NEW s \in Seq(char16_t), WellFormed(s), NEW from \in Nat, NEW to \in Nat, from <= to
  PROVE  \E p \in 0 .. Len(s) : \E q \in p .. Len(s) :
           /\ AtScanHead(s, p + 1) /\ AtScanHead(s, q + 1)
           /\ CodePoints(s, from, to) = SubSeq(s, p + 1, q)
           /\ Cardinality(StartsUpTo(s, p)) = from \/ (p = Len(s) /\ from >= CodePointCount(s))
           /\ Cardinality(StartsUpTo(s, q)) = to \/ (q = Len(s) /\ to >= CodePointCount(s))
<1> DEFINE p == codepoint_count_to_iterator(s, from)
           q == codepoint_count_to_iterator(s, to)
<1>1. /\ p \in 0 .. Len(s) /\ AtScanHead(s, p + 1)
      /\ Cardinality(StartsUpTo(s, p)) = from \/ (p = Len(s) /\ from >= CodePointCount(s))
  BY WalkStops
<1>2. /\ q \in 0 .. Len(s) /\ AtScanHead(s, q + 1)
      /\ Cardinality(StartsUpTo(s, q)) = to \/ (q = Len(s) /\ to >= CodePointCount(s))
  BY WalkStops
<1>3. p <= q
  BY WalkGrows
<1> HIDE DEF p, q
<1>4. q \in p .. Len(s)
  BY <1>1, <1>2, <1>3
<1>5. CodePoints(s, from, to) = SubSeq(s, p + 1, q)
  BY <1>1, <1>2, <1>4, CutBetween
<1> QED BY <1>1, <1>2, <1>4, <1>5

\* A string of code points stands at offset i of s exactly if those at this
\* place are its own.
LEMMA CodePointsInfix ==
  ASSUME NEW s \in Seq(char16_t), WellFormed(s), NEW t \in Seq(char16_t), WellFormed(t),
         NEW i \in 0 .. (Len(s) - Len(t)), SameClasses(s, i, t), AtScanHead(s, i + 1),
         AtScanHead(s, i + Len(t) + 1)
  PROVE  CodePoints(s, Cardinality(StartsUpTo(s, i)),
                    Cardinality(StartsUpTo(s, i)) + CodePointCount(t)) =
           SubSeq(s, i + 1, i + Len(t))
<1> DEFINE e == i + Len(t)
           from == Cardinality(StartsUpTo(s, i))
           to == from + CodePointCount(t)
<1>1. Len(s) \in Nat /\ Len(t) \in Nat
  OBVIOUS
<1>2. /\ i \in 0 .. Len(s) /\ i \in Nat /\ e \in i .. Len(s)
      /\ AtScanHead(s, e + 1)
  BY <1>1
<1>3. from \in Nat /\ CodePointCount(t) \in Nat
  BY <1>2, StartsFinite, CodePointNumbers
<1>4. Cardinality(StartsUpTo(s, e)) = to
  BY InfixStarts
<1>5. to \in Nat
  BY <1>3
<1>6. Cardinality(StartsUpTo(s, i)) = from
  OBVIOUS
<1> HIDE DEF e, from, to
<1>7. SubSeq(s, i + 1, e) = CodePoints(s, from, to)
  BY <1>2, <1>3, <1>4, <1>5, <1>6, CutBetween
<1> QED BY <1>7 DEF e, from, to

LEMMA SameUnitsSameClasses ==
  ASSUME NEW s, NEW t, NEW i, \A k \in 1 .. Len(t) : s[i + k] = t[k]
  PROVE  SameClasses(s, i, t)
BY DEF SameClasses

\* Between two places where code points begin well-formed UTF-16 is well-formed.
LEMMA CutWellFormed ==
  ASSUME NEW s \in Seq(char16_t), WellFormed(s), NEW p \in 0 .. Len(s), NEW q \in p .. Len(s),
         AtScanHead(s, p + 1), AtScanHead(s, q + 1)
  PROVE  LET t == SubSeq(s, p + 1, q)
         IN  /\ t \in Seq(char16_t) /\ Len(t) = q - p /\ \A k \in 1 .. Len(t) : t[k] = s[p + k]
             /\ WellFormed(t)
<1> DEFINE t == SubSeq(s, p + 1, q)
<1>1. /\ Len(s) \in Nat /\ p \in Nat /\ q \in Nat /\ p <= q /\ q <= Len(s)
      /\ p + 1 \in 1 .. (Len(s) + 1) /\ q + 1 \in 1 .. (Len(s) + 1)
      /\ p + 1 - 1 = p /\ q + 1 - 1 = q
  OBVIOUS
<1>2. t \in Seq(char16_t) /\ Len(t) = q - p /\ \A k \in 1 .. (q - p) : t[k] = s[p + k]
  BY <1>1
<1> HIDE DEF t
<1>3. p > 0 => ~ PairAt(s, p)
  <2>1. ~ (p + 1 > 1 /\ PairAt(s, p + 1 - 1))
    BY <1>1, HeadIffStart
  <2> QED BY <1>1, <2>1
<1>4. q > 0 => ~ PairAt(s, q)
  <2>1. ~ (q + 1 > 1 /\ PairAt(s, q + 1 - 1))
    BY <1>1, HeadIffStart
  <2> QED BY <1>1, <2>1
<1>5. ASSUME NEW k \in 1 .. Len(t), is_lead_surrogate(t[k]) PROVE PairAt(t, k)
  <2>1. p + k \in 1 .. Len(s) /\ p + k <= q /\ k \in Nat
    BY <1>1, <1>2
  <2>2. PairAt(s, p + k)
    BY <1>2, <1>5, <2>1 DEF WellFormed
  <2>3. p + k # q
    BY <1>1, <1>4, <2>1, <2>2
  <2>4. k \in 1 .. (Len(t) - 1) /\ k + 1 \in 1 .. (q - p) /\ p + (k + 1) = p + k + 1
    BY <1>1, <1>2, <2>1, <2>3
  <2>5. t[k + 1] = s[p + k + 1]
    BY <1>2, <2>4
  <2> QED BY <1>5, <2>2, <2>4, <2>5 DEF PairAt
<1>6. ASSUME NEW k \in 1 .. Len(t), is_trail_surrogate(t[k]) PROVE k > 1 /\ PairAt(t, k - 1)
  <2>1. p + k \in 1 .. Len(s) /\ p + k <= q /\ k \in Nat
    BY <1>1, <1>2
  <2>2. p + k > 1 /\ PairAt(s, p + k - 1)
    BY <1>2, <1>6, <2>1 DEF WellFormed
  <2>3. k # 1
    <3> SUFFICES ASSUME k = 1 PROVE FALSE
      OBVIOUS
    <3>1. p + k - 1 = p /\ p > 0
      BY <1>1, <2>2
    <3> QED BY <1>3, <2>2, <3>1
  <2>4. /\ k > 1 /\ k - 1 \in 1 .. (Len(t) - 1) /\ k - 1 \in 1 .. (q - p)
        /\ p + (k - 1) = p + k - 1 /\ k - 1 + 1 = k
    BY <1>1, <1>2, <2>1, <2>3
  <2>5. t[k - 1] = s[p + k - 1]
    BY <1>2, <2>4
  <2> QED BY <1>6, <2>2, <2>4, <2>5 DEF PairAt
<1>7. WellFormed(t)
  BY <1>5, <1>6 DEF WellFormed
<1> QED BY <1>2, <1>7 DEF t

\* So are the code points between two positions.
LEMMA CodePointsWellFormed ==
  ASSUME NEW s \in Seq(char16_t), WellFormed(s), NEW from \in Nat, NEW to \in Nat, from <= to
  PROVE  WellFormed(CodePoints(s, from, to))
<1> DEFINE p == codepoint_count_to_iterator(s, from)
           q == codepoint_count_to_iterator(s, to)
<1>1. /\ p \in 0 .. Len(s) /\ AtScanHead(s, p + 1)
      /\ Cardinality(StartsUpTo(s, p)) = from \/ (p = Len(s) /\ from >= CodePointCount(s))
  BY WalkStops
<1>2. /\ q \in 0 .. Len(s) /\ AtScanHead(s, q + 1)
      /\ Cardinality(StartsUpTo(s, q)) = to \/ (q = Len(s) /\ to >= CodePointCount(s))
  BY WalkStops
<1>3. p <= q
  BY WalkGrows
<1> HIDE DEF p, q
<1>4. q \in p .. Len(s)
  BY <1>1, <1>2, <1>3
<1>5. SubSeq(s, p + 1, q) = CodePoints(s, from, to)
  BY <1>1, <1>2, <1>4, CutBetween
<1>6. WellFormed(SubSeq(s, p + 1, q))
  BY <1>1, <1>2, <1>4, CutWellFormed
<1> QED BY <1>5, <1>6

\* Joining well-formed strings makes one.
LEMMA JoinWellFormed ==
  ASSUME NEW s \in Seq(char16_t), WellFormed(s), NEW t \in Seq(char16_t), WellFormed(t)
  PROVE  s \o t \in Seq(char16_t) /\ WellFormed(s \o t)
<1> DEFINE u == s \o t
           n == Len(s)
<1>1. /\ u \in Seq(char16_t) /\ n \in Nat /\ Len(t) \in Nat /\ Len(u) = n + Len(t)
      /\ \A k \in 1 .. n : u[k] = s[k]
      /\ \A k \in 1 .. Len(t) : u[n + k] = t[k]
  OBVIOUS
<1>2. n = Len(s)
  OBVIOUS
<1> HIDE DEF u, n
<1>3. ASSUME NEW i \in 1 .. n, PairAt(s, i) PROVE PairAt(u, i)
  <2>1. i \in 1 .. (n - 1) /\ i \in 1 .. (Len(u) - 1) /\ i + 1 \in 1 .. n
    BY <1>1, <1>2, <1>3 DEF PairAt
  <2> QED BY <1>1, <1>3, <2>1 DEF PairAt
<1>4. ASSUME NEW i \in 1 .. Len(t), PairAt(t, i) PROVE PairAt(u, n + i)
  <2>1. i \in 1 .. (Len(t) - 1)
    BY <1>4 DEF PairAt
  <2>2. n + i \in 1 .. (Len(u) - 1) /\ i + 1 \in 1 .. Len(t) /\ n + (i + 1) = n + i + 1
    BY <1>1, <2>1
  <2>3. u[n + i] = t[i] /\ u[n + i + 1] = t[i + 1]
    BY <1>1, <2>1, <2>2
  <2> QED BY <1>4, <2>2, <2>3 DEF PairAt
<1>5. ASSUME NEW i \in 1 .. Len(u)
      PROVE  /\ is_lead_surrogate(u[i])  => PairAt(u, i)
             /\ is_trail_surrogate(u[i]) => i > 1 /\ PairAt(u, i - 1)
  <2>1. CASE i <= n
    <3>1. i \in 1 .. Len(s) /\ i \in 1 .. n /\ u[i] = s[i]
      BY <1>1, <1>2, <2>1
    <3>2. is_lead_surrogate(u[i]) => PairAt(u, i)
      BY <1>3, <3>1 DEF WellFormed
    <3>3. ASSUME is_trail_surrogate(u[i]) PROVE i > 1 /\ PairAt(u, i - 1)
      <4>1. i > 1 /\ PairAt(s, i - 1)
        BY <3>1, <3>3 DEF WellFormed
      <4>2. i - 1 \in 1 .. n
        BY <1>1, <3>1, <4>1
      <4> QED BY <1>3, <4>1, <4>2
    <3> QED BY <3>2, <3>3
  <2>2. CASE i > n
    <3> DEFINE j == i - n
    <3>1. j \in 1 .. Len(t) /\ n + j = i /\ n + (j - 1) = i - 1
      BY <1>1, <2>2
    <3> HIDE DEF j
    <3>2. u[i] = t[j]
      BY <1>1, <3>1
    <3>3. ASSUME is_lead_surrogate(u[i]) PROVE PairAt(u, i)
      <4>1. PairAt(t, j)
        BY <3>1, <3>2, <3>3 DEF WellFormed
      <4> QED BY <1>4, <3>1, <4>1
    <3>4. ASSUME is_trail_surrogate(u[i]) PROVE i > 1 /\ PairAt(u, i - 1)
      <4>1. j > 1 /\ PairAt(t, j - 1)
        BY <3>1, <3>2, <3>4 DEF WellFormed
      <4>2. j - 1 \in 1 .. Len(t) /\ i > 1
        BY <1>1, <3>1, <4>1
      <4>3. PairAt(u, n + (j - 1))
        BY <1>4, <4>1, <4>2
      <4> QED BY <3>1, <4>2, <4>3
    <3> QED BY <3>3, <3>4
  <2> QED BY <1>1, <2>1, <2>2
<1> QED BY <1>1, <1>5 DEF WellFormed, u

\* The pairs between two places are the units there that are no code points.
LEMMA CountOfCut ==
  ASSUME NEW s \in Seq(char16_t), WellFormed(s), NEW p \in 0 .. Len(s), NEW q \in p .. Len(s),
         AtScanHead(s, p + 1), AtScanHead(s, q + 1)
  PROVE  count_surrogate_pair(SubSeq(s, p + 1, q)) =
           q - p - (Cardinality(StartsUpTo(s, q)) - Cardinality(StartsUpTo(s, p)))
<1> DEFINE t == SubSeq(s, p + 1, q)
<1>1. /\ t \in Seq(char16_t) /\ Len(t) = q - p /\ \A k \in 1 .. Len(t) : t[k] = s[p + k]
      /\ WellFormed(t)
  BY CutWellFormed
<1> HIDE DEF t
<1>2. /\ Len(s) \in Nat /\ p \in Nat /\ q \in Nat /\ p \in 0 .. (Len(s) - Len(t))
      /\ p + Len(t) = q
  BY <1>1
<1>3. SameClasses(s, p, t)
  BY <1>1 DEF SameClasses
<1>4. Cardinality(StartsUpTo(s, p + Len(t))) = Cardinality(StartsUpTo(s, p)) + CodePointCount(t)
  BY <1>1, <1>2, <1>3, InfixStarts
<1>5. Len(t) - count_surrogate_pair(t) = CodePointCount(t)
  BY <1>1, LengthIs DEF length
<1>6. count_surrogate_pair(t) \in Nat /\ CodePointCount(t) \in Nat
  BY <1>1, CountType, CodePointNumbers
<1>7. Cardinality(StartsUpTo(s, p)) \in Nat /\ Cardinality(StartsUpTo(s, q)) \in Nat
  BY <1>2, StartsFinite
<1>8. count_surrogate_pair(t) =
        q - p - (Cardinality(StartsUpTo(s, q)) - Cardinality(StartsUpTo(s, p)))
  BY <1>1, <1>2, <1>4, <1>5, <1>6, <1>7
<1> QED BY <1>8 DEF t

-----------------------------------------------------------------------------
(* Pieces joined.                                                          *)

\* f[k] is the first k pieces joined, for every k up to n.
JoinsUpto(f, seqs, n) ==
  /\ f \in [0 .. n -> Seq(Nat)]
  /\ f[0] = <<>>
  /\ \A k \in 1 .. n : f[k] = f[k - 1] \o seqs[k]

\* No piece joins to the empty sequence.
LEMMA JoinsNone ==
  ASSUME NEW seqs
  PROVE  JoinsUpto([k \in 0 .. 0 |-> <<>>], seqs, 0)
<1> DEFINE f == [k \in 0 .. 0 |-> <<>>]
<1>1. <<>> \in Seq(Nat) /\ 1 .. 0 = {} /\ 0 \in 0 .. 0
  OBVIOUS
<1>2. f \in [0 .. 0 -> Seq(Nat)]
  BY <1>1
<1>3. f[0] = <<>>
  BY <1>1
<1> QED BY <1>1, <1>2, <1>3 DEF JoinsUpto

\* One piece more.
LEMMA JoinsNext ==
  ASSUME NEW seqs \in Seq(Seq(Nat)), NEW n \in Nat, n + 1 <= Len(seqs), NEW f, JoinsUpto(f, seqs, n)
  PROVE  \E g : JoinsUpto(g, seqs, n + 1)
<1> DEFINE m == n + 1
           g == [k \in 0 .. m |-> IF k = m THEN f[n] \o seqs[m] ELSE f[k]]
<1>1. m \in Nat /\ m \in 1 .. Len(seqs) /\ n \in 0 .. n /\ m - 1 = n /\ n \in 0 .. m /\ n # m /\ m \in 0 .. m
  OBVIOUS
<1>2. \A k \in 0 .. m : k \in 0 .. n \/ k = m
  OBVIOUS
<1>3. \A k \in 0 .. n : k \in 0 .. m /\ k # m /\ f[k] \in Seq(Nat)
  BY DEF JoinsUpto
<1>4. seqs[m] \in Seq(Nat)
  BY <1>1
<1>5. f[n] \o seqs[m] \in Seq(Nat)
  BY <1>1, <1>3, <1>4
<1>6. \A k \in 0 .. n : g[k] = f[k]
  BY <1>3
<1>7. g[m] = f[n] \o seqs[m]
  BY <1>1
<1>8. g \in [0 .. m -> Seq(Nat)]
  BY <1>2, <1>3, <1>5
<1> HIDE DEF g
<1>9. g[0] = <<>>
  BY <1>6 DEF JoinsUpto
<1>10. \A k \in 1 .. m : g[k] = g[k - 1] \o seqs[k]
  <2> SUFFICES ASSUME NEW k \in 1 .. m PROVE g[k] = g[k - 1] \o seqs[k]
    OBVIOUS
  <2>1. CASE k = m
    BY <2>1, <1>1, <1>6, <1>7
  <2>2. CASE k # m
    <3>1. k \in 1 .. n /\ k \in 0 .. n /\ k - 1 \in 0 .. n
      BY <2>2
    <3>2. f[k] = f[k - 1] \o seqs[k]
      BY <3>1 DEF JoinsUpto
    <3> QED BY <3>1, <3>2, <1>6
  <2> QED BY <2>1, <2>2
<1> HIDE DEF m
<1>11. JoinsUpto(g, seqs, m)
  BY <1>8, <1>9, <1>10 DEF JoinsUpto
<1> QED BY <1>11 DEF m

\* Every sequence of pieces has such a function.
LEMMA JoinsExist ==
  ASSUME NEW seqs \in Seq(Seq(Nat))
  PROVE  \E f : JoinsUpto(f, seqs, Len(seqs))
<1> DEFINE S == {n \in Nat : n <= Len(seqs) => \E f : JoinsUpto(f, seqs, n)}
<1>1. 0 \in S
  BY JoinsNone
<1>2. ASSUME NEW n \in S PROVE n + 1 \in S
  BY JoinsNext
<1>3. S \in SUBSET Nat
  OBVIOUS
<1> HIDE DEF S
<1>4. S = Nat
  BY <1>1, <1>2, <1>3, SetInduction
<1>5. Len(seqs) \in Nat
  OBVIOUS
<1>6. Len(seqs) \in S
  BY <1>4, <1>5
<1> QED BY <1>6 DEF S

\* The library's function that joins pieces.
IsFlattening(w, t) ==
  w = [i \in 1 .. Len(t) |-> IF i = 1 THEN t[i] ELSE w[i - 1] \o t[i]]

\* What CHOOSE picks in FlattenSeq satisfies the equation it is chosen by.
LEMMA FlattenIs ==
  ASSUME NEW t, Len(t) # 0, \E w : IsFlattening(w, t)
  PROVE  \E w : IsFlattening(w, t) /\ FlattenSeq(t) = w[Len(t)]
<1> DEFINE w == CHOOSE w : IsFlattening(w, t)
<1>1. FlattenSeq(t) = w[Len(t)]
  BY DEF FlattenSeq, IsFlattening
<1>2. IsFlattening(w, t)
  OBVIOUS
<1> QED BY <1>1, <1>2

\* FlattenSeq joins all the pieces.
LEMMA FlattenJoins ==
  ASSUME NEW t \in Seq(Seq(Nat)), NEW f, JoinsUpto(f, t, Len(t))
  PROVE  FlattenSeq(t) = f[Len(t)]
<1> DEFINE n == Len(t)
<1>1. n \in Nat /\ \A k \in 1 .. n : t[k] \in Seq(Nat)
  OBVIOUS
<1>2. CASE n = 0
  <2>1. t = <<>>
    BY <1>2
  <2> QED BY <1>2, <2>1 DEF FlattenSeq, JoinsUpto
<1>3. CASE n # 0
  <2> DEFINE g == [i \in 1 .. n |-> f[i]]
  <2>1. \A i \in 1 .. n : f[i] = f[i - 1] \o t[i]
    BY DEF JoinsUpto
  <2>2. \A i \in 1 .. n : f[i] = IF i = 1 THEN t[i] ELSE g[i - 1] \o t[i]
    <3> SUFFICES ASSUME NEW i \in 1 .. n PROVE f[i] = IF i = 1 THEN t[i] ELSE g[i - 1] \o t[i]
      OBVIOUS
    <3>1. CASE i = 1
      <4>1. f[i - 1] = <<>>
        BY <3>1 DEF JoinsUpto
      <4>2. <<>> \o t[i] = t[i]
        BY <1>1
      <4> QED BY <2>1, <3>1, <4>1, <4>2
    <3>2. CASE i # 1
      <4>1. i - 1 \in 1 .. n
        BY <1>1, <3>2
      <4>2. g[i - 1] = f[i - 1]
        BY <4>1
      <4> QED BY <2>1, <3>2, <4>2
    <3> QED BY <3>1, <3>2
  <2>3. g = [i \in 1 .. n |-> IF i = 1 THEN t[i] ELSE g[i - 1] \o t[i]]
    BY <2>2
  <2>4. IsFlattening(g, t)
    BY <2>3 DEF IsFlattening
  <2>5. PICK w : IsFlattening(w, t) /\ FlattenSeq(t) = w[n]
    BY <1>3, <2>4, FlattenIs
  <2>6. \A i \in 1 .. n : w[i] = IF i = 1 THEN t[i] ELSE w[i - 1] \o t[i]
    BY <2>5 DEF IsFlattening
  <2> DEFINE S == {i \in Nat : i \in 1 .. n => w[i] = f[i]}
  <2>7. 0 \in S
    OBVIOUS
  <2>8. ASSUME NEW i \in S PROVE i + 1 \in S
    <3> SUFFICES ASSUME i + 1 \in 1 .. n PROVE w[i + 1] = f[i + 1]
      OBVIOUS
    <3>1. i \in Nat /\ (i + 1) - 1 = i
      OBVIOUS
    <3>2. f[i + 1] = f[i] \o t[i + 1]
      BY <2>1, <3>1
    <3>3. CASE i = 0
      <4>1. f[i] = <<>>
        BY <3>3 DEF JoinsUpto
      <4>2. <<>> \o t[i + 1] = t[i + 1]
        BY <1>1
      <4>3. w[i + 1] = t[i + 1]
        BY <2>6, <3>3
      <4> QED BY <3>2, <4>1, <4>2, <4>3
    <3>4. CASE i # 0
      <4>1. i \in 1 .. n /\ i + 1 # 1
        BY <3>1, <3>4
      <4>2. w[i + 1] = w[i] \o t[i + 1]
        BY <2>6, <3>1, <4>1
      <4>3. w[i] = f[i]
        BY <4>1
      <4> QED BY <3>2, <4>2, <4>3
    <3> QED BY <3>3, <3>4
  <2>9. S \in SUBSET Nat
    OBVIOUS
  <2> HIDE DEF S
  <2>10. S = Nat
    BY <2>7, <2>8, <2>9, SetInduction
  <2>11. n \in S /\ n \in 1 .. n
    BY <1>1, <1>3, <2>10
  <2>12. w[n] = f[n]
    BY <2>11 DEF S
  <2> QED BY <2>5, <2>12
<1> QED BY <1>2, <1>3

\* The first n pieces alone.
LEMMA FlattenFront ==
  ASSUME NEW seqs \in Seq(Seq(Nat)), NEW f, JoinsUpto(f, seqs, Len(seqs)), NEW n \in 0 .. Len(seqs)
  PROVE  FlattenSeq(SubSeq(seqs, 1, n)) = f[n]
<1> DEFINE t == SubSeq(seqs, 1, n)
           g == [k \in 0 .. n |-> f[k]]
<1>1. n \in Nat /\ n <= Len(seqs) /\ Len(seqs) \in Nat
  OBVIOUS
<1>2. t \in Seq(Seq(Nat)) /\ Len(t) = n /\ \A k \in 1 .. n : t[k] = seqs[k]
  BY <1>1
<1> HIDE DEF t
<1>3. \A k \in 0 .. n : k \in 0 .. Len(seqs) /\ f[k] \in Seq(Nat)
  BY <1>1 DEF JoinsUpto
<1>4. g \in [0 .. n -> Seq(Nat)] /\ \A k \in 0 .. n : g[k] = f[k]
  BY <1>3
<1> HIDE DEF g
<1>5. \A k \in 1 .. n : g[k] = g[k - 1] \o t[k]
  <2> SUFFICES ASSUME NEW k \in 1 .. n PROVE g[k] = g[k - 1] \o t[k]
    OBVIOUS
  <2>1. k \in 0 .. n /\ k - 1 \in 0 .. n /\ k \in 1 .. Len(seqs)
    BY <1>1
  <2>2. f[k] = f[k - 1] \o seqs[k]
    BY <2>1 DEF JoinsUpto
  <2> QED BY <2>1, <2>2, <1>2, <1>4
<1>6. g[0] = <<>> /\ g[n] = f[n]
  BY <1>1, <1>4 DEF JoinsUpto
<1>7. JoinsUpto(g, t, Len(t))
  BY <1>2, <1>4, <1>5, <1>6 DEF JoinsUpto
<1>8. FlattenSeq(t) = g[Len(t)]
  BY <1>2, <1>7, FlattenJoins
<1> QED BY <1>2, <1>6, <1>8 DEF t

\* Each of them begins with those before it, and is longer if no piece is empty.
BeginsWith(s, t) == Len(t) <= Len(s) /\ \A j \in 1 .. Len(t) : s[j] = t[j]

\* Two sequences joined, with their lengths and elements.
LEMMA JoinedTwo ==
  ASSUME NEW a \in Seq(Nat), NEW b \in Seq(Nat), NEW c, c = a \o b
  PROVE  /\ c \in Seq(Nat) /\ Len(c) = Len(a) + Len(b)
         /\ Len(a) \in Nat /\ Len(b) \in Nat
         /\ \A j \in 1 .. Len(a) : c[j] = a[j]
         /\ \A j \in 1 .. Len(b) : c[Len(a) + j] = b[j]
OBVIOUS

\* What begins the left of two sequences begins both joined.
LEMMA JoinedBegins ==
  ASSUME NEW a \in Seq(Nat), NEW b \in Seq(Nat), NEW c, c = a \o b, NEW t \in Seq(Nat), BeginsWith(a, t)
  PROVE  BeginsWith(c, t)
<1>1. /\ Len(c) = Len(a) + Len(b) /\ Len(a) \in Nat /\ Len(b) \in Nat
      /\ \A j \in 1 .. Len(a) : c[j] = a[j]
  BY JoinedTwo
<1>2. Len(t) \in Nat /\ Len(t) <= Len(a) /\ \A j \in 1 .. Len(t) : a[j] = t[j]
  BY DEF BeginsWith
<1> QED BY <1>1, <1>2 DEF BeginsWith

\* To join what is not empty makes a sequence longer.
LEMMA JoinedLonger ==
  ASSUME NEW a \in Seq(Nat), NEW b \in Seq(Nat), b # <<>>, NEW c, c = a \o b,
         NEW d \in Seq(Nat), BeginsWith(d, c)
  PROVE  Len(a) < Len(d)
<1>1. Len(c) = Len(a) + Len(b) /\ Len(a) \in Nat /\ Len(b) \in Nat /\ Len(b) # 0
  BY JoinedTwo
<1>2. Len(d) \in Nat /\ Len(c) <= Len(d)
  BY DEF BeginsWith
<1> QED BY <1>1, <1>2

\* The types of the pieces and of what they join to.
LEMMA JoinsType ==
  ASSUME NEW seqs \in Seq(Seq(Nat)), NEW f, JoinsUpto(f, seqs, Len(seqs))
  PROVE  /\ Len(seqs) \in Nat
         /\ \A k \in 0 .. Len(seqs) : f[k] \in Seq(Nat) /\ Len(f[k]) \in Nat
         /\ \A k \in 1 .. Len(seqs) : seqs[k] \in Seq(Nat) /\ Len(seqs[k]) \in Nat
<1>1. Len(seqs) \in Nat
  OBVIOUS
<1>2. \A k \in 0 .. Len(seqs) : f[k] \in Seq(Nat)
  BY <1>1 DEF JoinsUpto
<1>3. \A k \in 1 .. Len(seqs) : seqs[k] \in Seq(Nat)
  BY <1>1
<1>4. \A s \in Seq(Nat) : Len(s) \in Nat
  OBVIOUS
<1> QED BY <1>1, <1>2, <1>3, <1>4

LEMMA JoinsBegin ==
  ASSUME NEW seqs \in Seq(Seq(Nat)), NEW f, JoinsUpto(f, seqs, Len(seqs)),
         NEW m \in 0 .. Len(seqs), NEW n \in m .. Len(seqs)
  PROVE  BeginsWith(f[n], f[m])
<1> DEFINE S == {d \in Nat : m + d <= Len(seqs) => BeginsWith(f[m + d], f[m])}
<1>1. m \in Nat /\ Len(seqs) \in Nat /\ \A k \in 0 .. Len(seqs) : f[k] \in Seq(Nat) /\ Len(f[k]) \in Nat
  BY DEF JoinsUpto
<1>2. 0 \in S
  BY <1>1 DEF BeginsWith
<1>3. ASSUME NEW d \in S PROVE d + 1 \in S
  <2> SUFFICES ASSUME m + (d + 1) <= Len(seqs) PROVE BeginsWith(f[m + (d + 1)], f[m])
    OBVIOUS
  <2> DEFINE k == m + d
  <2>1. d \in Nat /\ k \in 0 .. Len(seqs) /\ k + 1 \in 1 .. Len(seqs) /\ m + (d + 1) = k + 1 /\ (k + 1) - 1 = k
    BY <1>1
  <2>2. BeginsWith(f[k], f[m])
    BY <2>1
  <2> HIDE DEF k
  <2>3. f[k + 1] = f[k] \o seqs[k + 1]
    BY <2>1 DEF JoinsUpto
  <2>4. f[k] \in Seq(Nat) /\ seqs[k + 1] \in Seq(Nat) /\ f[m] \in Seq(Nat)
    BY <1>1, <2>1, JoinsType
  <2>6. BeginsWith(f[k + 1], f[m])
    BY <2>2, <2>3, <2>4, JoinedBegins
  <2> QED BY <2>1, <2>6
<1>4. S \in SUBSET Nat
  OBVIOUS
<1> HIDE DEF S
<1>5. S = Nat
  BY <1>2, <1>3, <1>4, SetInduction
<1>6. n - m \in Nat /\ m + (n - m) = n /\ n <= Len(seqs)
  BY <1>1
<1>7. n - m \in S
  BY <1>5, <1>6
<1>8. BeginsWith(f[m + (n - m)], f[m])
  BY <1>6, <1>7 DEF S
<1> QED BY <1>6, <1>8

LEMMA JoinsGrow ==
  ASSUME NEW seqs \in Seq(Seq(Nat)), NEW f, JoinsUpto(f, seqs, Len(seqs)),
         \A k \in 1 .. Len(seqs) : seqs[k] # <<>>,
         NEW m \in 0 .. Len(seqs), NEW n \in 0 .. Len(seqs), m < n
  PROVE  Len(f[m]) < Len(f[n])
<1>1. m + 1 \in 1 .. Len(seqs) /\ m + 1 \in 0 .. Len(seqs) /\ n \in (m + 1) .. Len(seqs) /\ (m + 1) - 1 = m
  OBVIOUS
<1>2. f[m + 1] = f[m] \o seqs[m + 1]
  BY <1>1 DEF JoinsUpto
<1>3. f[m] \in Seq(Nat) /\ seqs[m + 1] \in Seq(Nat) /\ f[n] \in Seq(Nat)
  BY <1>1, JoinsType
<1>4. seqs[m + 1] # <<>>
  BY <1>1
<1>5. BeginsWith(f[n], f[m + 1])
  BY <1>1, JoinsBegin
<1> QED BY <1>2, <1>3, <1>4, <1>5, JoinedLonger

\* So that the number of the pieces can be told from what they join to.
LEMMA JoinsTell ==
  ASSUME NEW seqs \in Seq(Seq(Nat)), NEW f, JoinsUpto(f, seqs, Len(seqs)),
         \A k \in 1 .. Len(seqs) : seqs[k] # <<>>,
         NEW m \in 0 .. Len(seqs), NEW n \in 0 .. Len(seqs), f[m] = f[n]
  PROVE  m = n
<1>1. Len(f[m]) = Len(f[n]) /\ Len(f[m]) \in Nat
  BY DEF JoinsUpto
<1>2. ~ (m < n) /\ ~ (n < m)
  <2>1. m < n => Len(f[m]) < Len(f[n])
    BY JoinsGrow
  <2>2. n < m => Len(f[n]) < Len(f[m])
    BY JoinsGrow
  <2> QED BY <1>1, <2>1, <2>2
<1> QED BY <1>2

-----------------------------------------------------------------------------
(* One code point.                                                         *)

\* The powers that the conversions meet.
LEMMA PowersOfTwo ==
  /\ 2 ^ 4 = 16 /\ 2 ^ 5 = 32 /\ 2 ^ 6 = 64
  /\ 64 ^ 0 = 1 /\ 64 ^ 1 = 64 /\ 64 ^ 2 = 4096 /\ 64 ^ 3 = 262144
OBVIOUS

\* The number of bytes of UTF-8, by ranges as in helpers.h:102-127.
LEMMA UTF8SizeIs ==
  ASSUME NEW v \in Nat
  PROVE  UTF8Size(v) = IF v < 128 THEN 1 ELSE IF v < 2048 THEN 2 ELSE IF v < 65536 THEN 3 ELSE 4
<1> DEFINE S == {x \in {0, 128, 2048, 65536} : x <= v}
<1>1. IsFiniteSet({0}) /\ Cardinality({0}) = 1
  BY FS_Singleton
<1>2. IsFiniteSet({0, 128}) /\ Cardinality({0, 128}) = 2
  <2>1. {0, 128} = {0} \cup {128} /\ 128 \notin {0}
    OBVIOUS
  <2> QED BY <1>1, <2>1, FS_AddElement
<1>3. IsFiniteSet({0, 128, 2048}) /\ Cardinality({0, 128, 2048}) = 3
  <2>1. {0, 128, 2048} = {0, 128} \cup {2048} /\ 2048 \notin {0, 128}
    OBVIOUS
  <2> QED BY <1>2, <2>1, FS_AddElement
<1>4. Cardinality({0, 128, 2048, 65536}) = 4
  <2>1. {0, 128, 2048, 65536} = {0, 128, 2048} \cup {65536} /\ 65536 \notin {0, 128, 2048}
    OBVIOUS
  <2> QED BY <1>3, <2>1, FS_AddElement
<1>5. CASE v < 128
  <2>1. S = {0}
    BY <1>5
  <2> QED BY <1>1, <1>5, <2>1 DEF UTF8Size
<1>6. CASE 128 <= v /\ v < 2048
  <2>1. S = {0, 128}
    BY <1>6
  <2> QED BY <1>2, <1>6, <2>1 DEF UTF8Size
<1>7. CASE 2048 <= v /\ v < 65536
  <2>1. S = {0, 128, 2048}
    BY <1>7
  <2> QED BY <1>3, <1>7, <2>1 DEF UTF8Size
<1>8. CASE 65536 <= v
  <2>1. S = {0, 128, 2048, 65536}
    BY <1>8
  <2> QED BY <1>4, <1>8, <2>1 DEF UTF8Size
<1> QED BY <1>5, <1>6, <1>7, <1>8

\* utf32_to_utf8 writes UTF-8 (helpers.h:102-127).
LEMMA WritesUTF8 ==
  ASSUME NEW v \in Nat, v <= 1114111
  PROVE  utf32_to_utf8(v) = UTF8(v)
<1> DEFINE n == UTF8Size(v)
           byte(k) == IF k = 1 THEN 256 - 2 ^ (8 - n) + v \div 64 ^ (n - 1)
                               ELSE 128 + ((v \div 64 ^ (n - k)) % 64)
           last(k) == 128 + ((v \div 64 ^ k) % 64)
<1>1. CASE v < 128
  BY <1>1, UTF8SizeIs DEF utf32_to_utf8, UTF8
<1>2. CASE 128 <= v /\ v < 2048
  <2>1. n = 2
    BY <1>2, UTF8SizeIs
  <2>2. UTF8(v) = [k \in 1 .. 2 |-> byte(k)]
    BY <2>1 DEF UTF8
  <2>3. byte(1) = 192 + v \div 64 /\ byte(2) = last(0)
    BY <2>1, PowersOfTwo
  <2>4. utf32_to_utf8(v) = <<192 + v \div 64, last(0)>>
    BY <1>2 DEF utf32_to_utf8
  <2> HIDE DEF byte, last
  <2> QED BY <2>2, <2>3, <2>4
<1>3. CASE 2048 <= v /\ v < 65536
  <2>1. n = 3
    BY <1>3, UTF8SizeIs
  <2>2. UTF8(v) = [k \in 1 .. 3 |-> byte(k)]
    BY <2>1 DEF UTF8
  <2>3. byte(1) = 224 + v \div 4096 /\ byte(2) = last(1) /\ byte(3) = last(0)
    BY <2>1, PowersOfTwo
  <2>4. utf32_to_utf8(v) = <<224 + v \div 4096, last(1), last(0)>>
    BY <1>3 DEF utf32_to_utf8
  <2> HIDE DEF byte, last
  <2> QED BY <2>2, <2>3, <2>4
<1>4. CASE 65536 <= v
  <2>1. n = 4
    BY <1>4, UTF8SizeIs
  <2>2. UTF8(v) = [k \in 1 .. 4 |-> byte(k)]
    BY <2>1 DEF UTF8
  <2>3. (v \div 262144) % 16 = v \div 262144
    OBVIOUS
  <2>4. byte(1) = 240 + ((v \div 262144) % 16) /\ byte(2) = last(2) /\ byte(3) = last(1) /\ byte(4) = last(0)
    BY <2>1, <2>3, PowersOfTwo
  <2>5. utf32_to_utf8(v) = <<240 + ((v \div 262144) % 16), last(2), last(1), last(0)>>
    BY <1>4 DEF utf32_to_utf8
  <2> HIDE DEF byte, last
  <2> QED BY <2>2, <2>4, <2>5
<1> QED BY <1>1, <1>2, <1>3, <1>4

\* So of every scalar value.
LEMMA WritesScalarUTF8 ==
  ASSUME NEW v \in ScalarValue
  PROVE  utf32_to_utf8(v) = UTF8(v)
<1>1. v \in Nat /\ v <= 1114111
  BY DEF ScalarValue
<1> QED BY <1>1, WritesUTF8

\* A scalar value is one unit or a pair.
LEMMA UTF16Units ==
  ASSUME NEW v \in ScalarValue
  PROVE  IF v < 65536
         THEN UTF16(v) = <<v>> /\ v # NUL /\ ~ is_lead_surrogate(v)
         ELSE \E a \in Nat, b \in Nat :
                /\ UTF16(v) = <<a, b>> /\ is_lead_surrogate(a) /\ is_trail_surrogate(b)
                /\ (a - LEAD_SURROGATE_MIN) * 1024 + (b - TRAIL_SURROGATE_MIN) + SUPPLEMENTARY_DELTA = v
<1>1. v \in Nat /\ 0 < v /\ v <= 1114111 /\ ~ (LEAD_SURROGATE_MIN <= v /\ v <= TRAIL_SURROGATE_MAX)
  BY DEF ScalarValue
<1>2. CASE v < 65536
  <2>1. UTF16(v) = <<v>>
    BY <1>2 DEF UTF16
  <2>2. v # NUL /\ ~ is_lead_surrogate(v)
    BY <1>1 DEF NUL, is_lead_surrogate, LEAD_SURROGATE_MIN, LEAD_SURROGATE_MAX, TRAIL_SURROGATE_MAX
  <2> QED BY <1>2, <2>1, <2>2
<1>3. CASE ~ (v < 65536)
  <2> DEFINE w == v - 65536
             q == w \div 1024
             r == w % 1024
  <2>1. w \in Nat /\ w < 1048576
    BY <1>1, <1>3
  <2>2. q \in Nat /\ q < 1024 /\ r \in Nat /\ r < 1024 /\ w = 1024 * q + r
    BY <2>1
  <2>3. UTF16(v) = <<55296 + q, 56320 + r>>
    BY <1>3 DEF UTF16
  <2>4. v = w + 65536
    BY <1>1
  <2> HIDE DEF w, q, r
  <2>5. is_lead_surrogate(55296 + q)
    BY <2>2 DEF is_lead_surrogate, LEAD_SURROGATE_MIN, LEAD_SURROGATE_MAX
  <2>6. is_trail_surrogate(56320 + r)
    BY <2>2 DEF is_trail_surrogate, TRAIL_SURROGATE_MIN, TRAIL_SURROGATE_MAX
  <2>7. ((55296 + q) - LEAD_SURROGATE_MIN) * 1024 + ((56320 + r) - TRAIL_SURROGATE_MIN)
          + SUPPLEMENTARY_DELTA = v
    <3>1. (55296 + q) - LEAD_SURROGATE_MIN = q /\ (56320 + r) - TRAIL_SURROGATE_MIN = r
      BY <2>2 DEF LEAD_SURROGATE_MIN, TRAIL_SURROGATE_MIN
    <3>2. q * 1024 + r + 65536 = v
      BY <2>1, <2>2, <2>4
    <3> QED BY <3>1, <3>2 DEF SUPPLEMENTARY_DELTA
  <2>8. 55296 + q \in Nat /\ 56320 + r \in Nat
    BY <2>2
  <2> QED BY <1>3, <2>3, <2>5, <2>6, <2>7, <2>8
<1> QED BY <1>2, <1>3

\* Both encodings of a code point are sequences of numbers, and not empty.
LEMMA EncodingTypes ==
  ASSUME NEW v \in ScalarValue
  PROVE  /\ UTF16(v) \in Seq(Nat) /\ UTF16(v) # <<>>
         /\ UTF8(v) \in Seq(Nat) /\ UTF8(v) # <<>>
<1>1. v \in Nat /\ v <= 1114111
  BY DEF ScalarValue
<1>2. UTF16(v) \in Seq(Nat) /\ UTF16(v) # <<>>
  <2>1. CASE v < 65536
    <3>1. UTF16(v) = <<v>>
      BY <2>1, UTF16Units
    <3> QED BY <1>1, <3>1
  <2>2. CASE ~ (v < 65536)
    <3>1. PICK a \in Nat, b \in Nat : UTF16(v) = <<a, b>>
      BY <2>2, UTF16Units
    <3> QED BY <3>1
  <2> QED BY <2>1, <2>2
<1>3. utf32_to_utf8(v) \in Seq(Nat) /\ utf32_to_utf8(v) # <<>>
  <2> DEFINE last(n) == 128 + ((v \div 64 ^ n) % 64)
  <2>1. last(0) \in Nat /\ last(1) \in Nat /\ last(2) \in Nat
    BY <1>1, PowersOfTwo
  <2>2. 192 + v \div 64 \in Nat /\ 224 + v \div 4096 \in Nat /\ 240 + ((v \div 262144) % 16) \in Nat
    BY <1>1
  <2>3. utf32_to_utf8(v) =
          IF v < 128 THEN <<v>>
          ELSE IF v < 2048 THEN <<192 + v \div 64, last(0)>>
          ELSE IF v < 65536 THEN <<224 + v \div 4096, last(1), last(0)>>
          ELSE <<240 + ((v \div 262144) % 16), last(2), last(1), last(0)>>
    BY DEF utf32_to_utf8
  <2> HIDE DEF last
  <2> QED BY <1>1, <2>1, <2>2, <2>3
<1> QED BY <1>1, <1>2, <1>3, WritesUTF8

\* utf16_to_utf32 reads UTF-16 (helpers.h:129-160).
LEMMA ReadsUTF16 ==
  ASSUME NEW v \in ScalarValue, NEW s, NEW i \in Nat,
         \A j \in 1 .. Len(UTF16(v)) : s[i + j] = UTF16(v)[j]
  PROVE  utf16_to_utf32(s, i) = [length |-> Len(UTF16(v)), value |-> v]
<1>1. CASE v < 65536
  <2>1. UTF16(v) = <<v>> /\ v # NUL /\ ~ is_lead_surrogate(v)
    BY <1>1, UTF16Units
  <2>2. s[i + 1] = v /\ Len(UTF16(v)) = 1
    BY <2>1
  <2> QED BY <2>1, <2>2 DEF utf16_to_utf32
<1>2. CASE ~ (v < 65536)
  <2>1. PICK a \in Nat, b \in Nat :
          /\ UTF16(v) = <<a, b>> /\ is_lead_surrogate(a) /\ is_trail_surrogate(b)
          /\ (a - LEAD_SURROGATE_MIN) * 1024 + (b - TRAIL_SURROGATE_MIN) + SUPPLEMENTARY_DELTA = v
    BY <1>2, UTF16Units
  <2>2. s[i + 1] = a /\ s[i + 2] = b /\ Len(UTF16(v)) = 2
    BY <2>1
  <2> QED BY <2>1, <2>2 DEF utf16_to_utf32
<1> QED BY <1>1, <1>2

-----------------------------------------------------------------------------
(* A text and its two encodings.                                           *)

Units16(text) == [k \in 1 .. Len(text) |-> UTF16(text[k])]
Bytes8(text)  == [k \in 1 .. Len(text) |-> UTF8(text[k])]

InUTF16(text) == Encoded(text, UTF16)
InUTF8(text)  == Encoded(text, UTF8)

\* How many code points of the text have this encoding.
CountInUTF16(text, units)   == CodePointsEncoded(text, units, UTF16)
CountInUTF8(text, bytes) == CodePointsEncoded(text, bytes, UTF8)

\* f[n] and g[n] are the first n code points of the text in UTF-16 and in UTF-8.
AreEncodings(text, f, g) ==
  /\ JoinsUpto(f, Units16(text), Len(text))
  /\ JoinsUpto(g, Bytes8(text), Len(text))

\* The pieces of a text are sequences of numbers, and none is empty.
LEMMA PiecesType ==
  ASSUME NEW text \in Seq(ScalarValue)
  PROVE  /\ Len(text) \in Nat
         /\ \A k \in 1 .. Len(text) : text[k] \in ScalarValue
         /\ Units16(text) \in Seq(Seq(Nat)) /\ Len(Units16(text)) = Len(text)
         /\ Bytes8(text) \in Seq(Seq(Nat)) /\ Len(Bytes8(text)) = Len(text)
         /\ \A k \in 1 .. Len(text) : /\ Units16(text)[k] = UTF16(text[k]) /\ Units16(text)[k] # <<>>
                                      /\ Bytes8(text)[k] = UTF8(text[k]) /\ Bytes8(text)[k] # <<>>
<1>1. Len(text) \in Nat /\ \A k \in 1 .. Len(text) : text[k] \in ScalarValue
  OBVIOUS
<1>2. \A k \in 1 .. Len(text) : /\ UTF16(text[k]) \in Seq(Nat) /\ UTF16(text[k]) # <<>>
                                /\ UTF8(text[k]) \in Seq(Nat) /\ UTF8(text[k]) # <<>>
  BY <1>1, EncodingTypes
<1>3. Units16(text) \in [1 .. Len(text) -> Seq(Nat)] /\ Bytes8(text) \in [1 .. Len(text) -> Seq(Nat)]
  BY <1>2 DEF Units16, Bytes8
<1>4. \A S : \A n \in Nat : \A h \in [1 .. n -> S] : h \in Seq(S) /\ Len(h) = n
  OBVIOUS
<1>5. /\ Units16(text) \in Seq(Seq(Nat)) /\ Len(Units16(text)) = Len(text)
      /\ Bytes8(text) \in Seq(Seq(Nat)) /\ Len(Bytes8(text)) = Len(text)
  BY <1>1, <1>3, <1>4
<1>6. \A k \in 1 .. Len(text) : Units16(text)[k] = UTF16(text[k]) /\ Bytes8(text)[k] = UTF8(text[k])
  BY DEF Units16, Bytes8
<1> QED BY <1>1, <1>2, <1>5, <1>6

\* Every text has its two encodings.
LEMMA EncodingsExist ==
  ASSUME NEW text \in Seq(ScalarValue)
  PROVE  \E f, g : AreEncodings(text, f, g)
<1>1. /\ Units16(text) \in Seq(Seq(Nat)) /\ Len(Units16(text)) = Len(text)
      /\ Bytes8(text) \in Seq(Seq(Nat)) /\ Len(Bytes8(text)) = Len(text)
  BY PiecesType
<1>2. \E f : JoinsUpto(f, Units16(text), Len(text))
  BY <1>1, JoinsExist
<1>3. \E g : JoinsUpto(g, Bytes8(text), Len(text))
  BY <1>1, JoinsExist
<1> QED BY <1>2, <1>3 DEF AreEncodings

\* The pieces of the first n code points are the first n pieces.
LEMMA PiecesOfFront ==
  ASSUME NEW text \in Seq(ScalarValue), NEW n \in 0 .. Len(text)
  PROVE  LET t == SubSeq(text, 1, n)
         IN  /\ Len(t) = n
             /\ [i \in 1 .. Len(t) |-> UTF16(t[i])] = SubSeq(Units16(text), 1, n)
             /\ [i \in 1 .. Len(t) |-> UTF8(t[i])] = SubSeq(Bytes8(text), 1, n)
<1> DEFINE t == SubSeq(text, 1, n)
<1>1. /\ n \in Nat /\ n <= Len(text) /\ Len(text) \in Nat
      /\ Units16(text) \in Seq(Seq(Nat)) /\ Len(Units16(text)) = Len(text)
      /\ Bytes8(text) \in Seq(Seq(Nat)) /\ Len(Bytes8(text)) = Len(text)
      /\ \A k \in 1 .. Len(text) : Units16(text)[k] = UTF16(text[k]) /\ Bytes8(text)[k] = UTF8(text[k])
  BY PiecesType
<1>2. Len(t) = n /\ \A k \in 1 .. n : t[k] = text[k]
  BY <1>1
<1>3. SubSeq(Units16(text), 1, n) = [i \in 1 .. n |-> Units16(text)[i]]
  BY <1>1
<1>4. SubSeq(Bytes8(text), 1, n) = [i \in 1 .. n |-> Bytes8(text)[i]]
  BY <1>1
<1> HIDE DEF t
<1>5. \A k \in 1 .. n : Units16(text)[k] = UTF16(t[k]) /\ Bytes8(text)[k] = UTF8(t[k])
  BY <1>1, <1>2
<1>6. [i \in 1 .. n |-> UTF16(t[i])] = SubSeq(Units16(text), 1, n)
  BY <1>3, <1>5
<1>7. [i \in 1 .. n |-> UTF8(t[i])] = SubSeq(Bytes8(text), 1, n)
  BY <1>4, <1>5
<1> QED BY <1>2, <1>6, <1>7 DEF t

\* And they are what Encoded says of its fronts.
LEMMA FrontEncoded ==
  ASSUME NEW text \in Seq(ScalarValue), NEW f, NEW g, AreEncodings(text, f, g), NEW n \in 0 .. Len(text)
  PROVE  /\ InUTF16(SubSeq(text, 1, n)) = f[n]
         /\ InUTF8(SubSeq(text, 1, n)) = g[n]
<1>1. /\ Units16(text) \in Seq(Seq(Nat)) /\ Len(Units16(text)) = Len(text)
      /\ Bytes8(text) \in Seq(Seq(Nat)) /\ Len(Bytes8(text)) = Len(text)
  BY PiecesType
<1>2. FlattenSeq(SubSeq(Units16(text), 1, n)) = f[n]
  BY <1>1, FlattenFront DEF AreEncodings
<1>3. FlattenSeq(SubSeq(Bytes8(text), 1, n)) = g[n]
  BY <1>1, FlattenFront DEF AreEncodings
<1>4. InUTF16(SubSeq(text, 1, n)) = FlattenSeq(SubSeq(Units16(text), 1, n))
  BY PiecesOfFront DEF Encoded, InUTF16, InUTF8
<1>5. InUTF8(SubSeq(text, 1, n)) = FlattenSeq(SubSeq(Bytes8(text), 1, n))
  BY PiecesOfFront DEF Encoded, InUTF16, InUTF8
<1> QED BY <1>2, <1>3, <1>4, <1>5

\* How many code points there are can be told from either.
LEMMA FrontTold ==
  ASSUME NEW text \in Seq(ScalarValue), NEW f, NEW g, AreEncodings(text, f, g),
         NEW n \in 0 .. Len(text)
  PROVE  /\ \A m \in 0 .. Len(text) : f[m] = f[n] => m = n
         /\ \A m \in 0 .. Len(text) : g[m] = g[n] => m = n
<1>1. /\ Units16(text) \in Seq(Seq(Nat)) /\ Len(Units16(text)) = Len(text)
      /\ Bytes8(text) \in Seq(Seq(Nat)) /\ Len(Bytes8(text)) = Len(text)
      /\ \A k \in 1 .. Len(text) : Units16(text)[k] # <<>> /\ Bytes8(text)[k] # <<>>
  BY PiecesType
<1>2. \A m \in 0 .. Len(text) : f[m] = f[n] => m = n
  BY <1>1, JoinsTell DEF AreEncodings
<1>3. \A m \in 0 .. Len(text) : g[m] = g[n] => m = n
  BY <1>1, JoinsTell DEF AreEncodings
<1> QED BY <1>2, <1>3

\* And so the numbers that CodePointsEncoded gives.
LEMMA FrontCounted16 ==
  ASSUME NEW text \in Seq(ScalarValue), NEW f, NEW g, AreEncodings(text, f, g),
         NEW n \in 0 .. Len(text), NEW x, x = f[n]
  PROVE  CountInUTF16(text, x) = {n}
<1>1. \A m \in 0 .. Len(text) : f[m] = f[n] => m = n
  BY FrontTold
<1>2. \A m \in 0 .. Len(text) : InUTF16(SubSeq(text, 1, m)) = f[m]
  BY FrontEncoded
<1>3. CountInUTF16(text, x) = {m \in 0 .. Len(text) : f[m] = f[n]}
  BY <1>2 DEF CodePointsEncoded, CountInUTF16, InUTF16
<1> QED BY <1>1, <1>3

\* The same of the bytes.
LEMMA FrontCounted8 ==
  ASSUME NEW text \in Seq(ScalarValue), NEW f, NEW g, AreEncodings(text, f, g),
         NEW n \in 0 .. Len(text), NEW x, x = g[n]
  PROVE  CountInUTF8(text, x) = {n}
<1>1. \A m \in 0 .. Len(text) : g[m] = g[n] => m = n
  BY FrontTold
<1>2. \A m \in 0 .. Len(text) : InUTF8(SubSeq(text, 1, m)) = g[m]
  BY FrontEncoded
<1>3. CountInUTF8(text, x) = {m \in 0 .. Len(text) : g[m] = g[n]}
  BY <1>2 DEF CodePointsEncoded, CountInUTF8, InUTF8
<1> QED BY <1>1, <1>3

\* u follows the first i elements of s, and b are these and u.
Follows(s, i, u, b) ==
  /\ i + Len(u) \in 0 .. Len(s)
  /\ \A j \in 1 .. Len(u) : s[i + j] = u[j]
  /\ SubSeq(s, 1, i + Len(u)) = b

\* The next code point follows those before it in a sequence that begins with
\* the encoding of the whole text.
LEMMA PieceFollows ==
  ASSUME NEW S, NEW s \in Seq(S), NEW i \in 0 .. Len(s), NEW size \in 0 .. Len(s),
         NEW a \in Seq(Nat), NEW u \in Seq(Nat), NEW b, b = a \o u, NEW w \in Seq(Nat),
         BeginsWith(w, b), SubSeq(s, 1, i) = a, SubSeq(s, 1, size) = w
  PROVE  Follows(s, i, u, b)
<1>1. /\ i \in Nat /\ size \in Nat /\ Len(s) \in Nat /\ size <= Len(s)
      /\ Len(a) = i /\ Len(w) = size
  OBVIOUS
<1>2. \A j \in 1 .. size : s[j] = w[j]
  OBVIOUS
<1>3. /\ b \in Seq(Nat) /\ Len(b) = i + Len(u) /\ Len(u) \in Nat
      /\ \A j \in 1 .. Len(u) : b[i + j] = u[j]
  <2>1. /\ b \in Seq(Nat) /\ Len(b) = Len(a) + Len(u) /\ Len(u) \in Nat
        /\ \A j \in 1 .. Len(u) : b[Len(a) + j] = u[j]
    BY JoinedTwo
  <2> QED BY <1>1, <2>1
<1>4. Len(b) <= size /\ \A j \in 1 .. Len(b) : s[j] = b[j]
  BY <1>1, <1>2, <1>3 DEF BeginsWith
<1>5. \A j \in 1 .. Len(u) : i + j \in 1 .. Len(b)
  BY <1>1, <1>3
<1>6. \A j \in 1 .. Len(u) : s[i + j] = u[j]
  BY <1>3, <1>4, <1>5
<1>7. Len(b) \in 0 .. Len(s)
  BY <1>1, <1>3, <1>4
<1>8. SubSeq(s, 1, Len(b)) = [j \in 1 .. Len(b) |-> s[j]]
  BY <1>7
<1>9. b = [j \in 1 .. Len(b) |-> b[j]]
  <2>1. \A q \in Seq(Nat) : q = [j \in 1 .. Len(q) |-> q[j]]
    OBVIOUS
  <2> QED BY <1>3, <2>1
<1>10. SubSeq(s, 1, Len(b)) = b
  BY <1>4, <1>8, <1>9
<1> QED BY <1>3, <1>6, <1>7, <1>10 DEF Follows

\* One code point more.
LEMMA NextPiece ==
  ASSUME NEW text \in Seq(ScalarValue), NEW f, NEW g, AreEncodings(text, f, g),
         NEW n \in 0 .. Len(text), NEW k \in 1 .. Len(text), k = n + 1
  PROVE  /\ f[k] = f[n] \o UTF16(text[k]) /\ g[k] = g[n] \o UTF8(text[k])
         /\ f[n] \in Seq(Nat) /\ UTF16(text[k]) \in Seq(Nat) /\ f[Len(text)] \in Seq(Nat)
         /\ BeginsWith(f[Len(text)], f[k])
         /\ g[n] \in Seq(Nat) /\ UTF8(text[k]) \in Seq(Nat) /\ g[Len(text)] \in Seq(Nat)
         /\ BeginsWith(g[Len(text)], g[k])
<1>1. /\ Units16(text) \in Seq(Seq(Nat)) /\ Len(Units16(text)) = Len(text) /\ Len(text) \in Nat
      /\ Bytes8(text) \in Seq(Seq(Nat)) /\ Len(Bytes8(text)) = Len(text)
      /\ Units16(text)[k] = UTF16(text[k]) /\ Bytes8(text)[k] = UTF8(text[k])
  BY PiecesType
<1>2. k - 1 = n /\ k \in 0 .. Len(text) /\ Len(text) \in 0 .. Len(text) /\ Len(text) \in k .. Len(text)
  BY <1>1
<1>3. text[k] \in ScalarValue
  OBVIOUS
<1>4. f[k] = f[n] \o UTF16(text[k]) /\ g[k] = g[n] \o UTF8(text[k])
  BY <1>1, <1>2 DEF AreEncodings, JoinsUpto
<1>5. UTF16(text[k]) \in Seq(Nat) /\ UTF8(text[k]) \in Seq(Nat)
  BY <1>3, EncodingTypes
<1>6. \A m \in 0 .. Len(text) : f[m] \in Seq(Nat) /\ g[m] \in Seq(Nat)
  BY DEF AreEncodings, JoinsUpto
<1>7. BeginsWith(f[Len(text)], f[k])
  BY <1>1, <1>2, JoinsBegin DEF AreEncodings
<1>8. BeginsWith(g[Len(text)], g[k])
  BY <1>1, <1>2, JoinsBegin DEF AreEncodings
<1> QED BY <1>2, <1>4, <1>5, <1>6, <1>7, <1>8

\* Fronts of one sequence that are equal have one length.
LEMMA FrontSize ==
  ASSUME NEW S, NEW s \in Seq(S), NEW i \in 0 .. Len(s), NEW j \in 0 .. Len(s),
         SubSeq(s, 1, i) = SubSeq(s, 1, j)
  PROVE  i = j
<1>1. Len(SubSeq(s, 1, i)) = i /\ Len(SubSeq(s, 1, j)) = j
  OBVIOUS
<1> QED BY <1>1

\* Code points are handed over one by one, from the front of what is left.
LEMMA RestOfText ==
  ASSUME NEW text \in Seq(ScalarValue), NEW n \in 0 .. Len(text), NEW k \in 1 .. Len(text), k = n + 1
  PROVE  /\ SubSeq(text, n + 1, Len(text)) \in Seq(ScalarValue)
         /\ SubSeq(text, n + 1, Len(text)) # <<>>
         /\ SubSeq(text, 1, k) = Append(SubSeq(text, 1, n), Head(SubSeq(text, n + 1, Len(text))))
         /\ SubSeq(text, k + 1, Len(text)) = Tail(SubSeq(text, n + 1, Len(text)))
<1>1. n \in Nat /\ k \in Nat /\ Len(text) \in Nat /\ k <= Len(text) /\ Len(text) \in k .. Len(text)
  OBVIOUS
<1> DEFINE rest == SubSeq(text, k, Len(text))
<1>2. Head(rest) = text[k]
  BY <1>1, HeadTailOfSubSeq
<1>3. Tail(rest) = SubSeq(text, k + 1, Len(text))
  BY <1>1, HeadTailOfSubSeq
<1>4. rest \in Seq(ScalarValue) /\ Len(rest) # 0
  BY <1>1
<1>5. SubSeq(text, 1, k) = Append(SubSeq(text, 1, n), text[k])
  BY <1>1
<1> QED BY <1>2, <1>3, <1>4, <1>5
=============================================================================
