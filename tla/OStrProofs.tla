----------------------------- MODULE OStrProofs -----------------------------
(***************************************************************************)
(* The state of a program's strings keeps its type, and the cached count   *)
(* of surrogate pairs of ostr::string turns wrong only by the steps that   *)
(* StaleCause lists; well-formed strings stay so but for the steps that    *)
(* IllFormedCause lists; substring and replace_origin give what they       *)
(* promise: for every set of strings, texts and counts.                    *)
(***************************************************************************)
EXTENDS OStr, CodeUnitsLemmas

-----------------------------------------------------------------------------
(* The counts that the methods take over without scanning.                 *)

LEMMA SpaceIsNoSurrogate == ~ is_lead_surrogate(SPACE) /\ ~ is_trail_surrogate(SPACE)
  BY DEF is_lead_surrogate, is_trail_surrogate, SPACE, LEAD_SURROGATE_MIN, TRAIL_SURROGATE_MIN

LEMMA EmptyCount == count_surrogate_pair(<<>>) = 0
<1>1. CountedPairs(<<>>) = {}
  BY DEF CountedPairs
<1> QED BY <1>1, FS_EmptySet DEF count_surrogate_pair

\* One character repeated makes no pair (ostr.h:60-63 does not scan).
LEMMA FillCount ==
  ASSUME NEW c \in char16_t, NEW n \in Nat
  PROVE  /\ [i \in 1 .. n |-> c] \in Seq(char16_t)
         /\ count_surrogate_pair([i \in 1 .. n |-> c]) = 0
<1> DEFINE s == [i \in 1 .. n |-> c]
<1>1. s \in Seq(char16_t) /\ Len(s) = n /\ \A i \in 1 .. n : s[i] = c
  OBVIOUS
<1> HIDE DEF s
<1>2. CountedPairs(s) = {}
  <2> SUFFICES ASSUME NEW i \in CountedPairs(s) PROVE FALSE
    OBVIOUS
  <2>1. i \in 1 .. (n - 1) /\ is_lead_surrogate(s[i]) /\ is_trail_surrogate(s[i + 1])
    BY <1>1 DEF CountedPairs, PairAt
  <2>2. s[i] = c /\ s[i + 1] = c
    BY <1>1, <2>1
  <2> QED BY <2>1, <2>2, ClassesDisjoint
<1> QED BY <1>1, <1>2, FS_EmptySet DEF count_surrogate_pair, s

\* Units that are appended, or cut off at the end, are no part of a pair when
\* none of them is a trail surrogate.
LEMMA TailWithoutTrails ==
  ASSUME NEW s \in Seq(char16_t), NEW u \in Seq(char16_t), Len(s) <= Len(u),
         \A k \in 1 .. Len(s) : u[k] = s[k],
         \A k \in (Len(s) + 1) .. Len(u) : ~ is_trail_surrogate(u[k])
  PROVE  count_surrogate_pair(u) = count_surrogate_pair(s)
<1>1. Len(s) \in Nat /\ Len(u) \in Nat
  OBVIOUS
<1>2. ASSUME NEW i \in CountedPairs(u) PROVE i \in CountedPairs(s)
  <2>1. i \in 1 .. (Len(u) - 1) /\ is_trail_surrogate(u[i + 1])
    BY <1>2 DEF CountedPairs, PairAt
  <2>2. i \in 1 .. (Len(s) - 1)
    <3> SUFFICES ASSUME i >= Len(s) PROVE FALSE
      BY <1>1, <2>1
    <3>1. i + 1 \in (Len(s) + 1) .. Len(u)
      BY <1>1, <2>1
    <3> QED BY <2>1, <3>1
  <2> QED BY <1>2, <2>2, CountedPrefix
<1>3. ASSUME NEW i \in CountedPairs(s) PROVE i \in CountedPairs(u)
  <2>1. i \in 1 .. (Len(s) - 1)
    BY <1>3 DEF CountedPairs
  <2> QED BY <1>3, <2>1, CountedPrefix
<1>4. CountedPairs(u) = CountedPairs(s)
  BY <1>2, <1>3
<1> QED BY <1>4 DEF count_surrogate_pair

\* Decoding text of the basic plane appends no pair and completes none
\* (ostr.h:249-252 keeps the count).
LEMMA DecodeCount ==
  ASSUME NEW s \in Seq(char16_t), NEW text \in Seq(char16_t),
         \A i \in 1 .. Len(text) : ~ is_trail_surrogate(text[i])
  PROVE  count_surrogate_pair(s \o text) = count_surrogate_pair(s)
<1> DEFINE u == s \o text
<1>1. /\ u \in Seq(char16_t) /\ Len(s) \in Nat /\ Len(text) \in Nat
      /\ Len(u) = Len(s) + Len(text)
      /\ \A k \in 1 .. Len(s) : u[k] = s[k]
      /\ \A k \in (Len(s) + 1) .. Len(u) : u[k] = text[k - Len(s)]
  OBVIOUS
<1> HIDE DEF u
<1>2. \A k \in (Len(s) + 1) .. Len(u) : ~ is_trail_surrogate(u[k])
  <2> SUFFICES ASSUME NEW k \in (Len(s) + 1) .. Len(u) PROVE ~ is_trail_surrogate(u[k])
    OBVIOUS
  <2>1. k - Len(s) \in 1 .. Len(text)
    BY <1>1
  <2> QED BY <1>1, <2>1
<1>3. Len(s) <= Len(u)
  BY <1>1
<1>4. count_surrogate_pair(u) = count_surrogate_pair(s)
  BY <1>1, <1>2, <1>3, TailWithoutTrails
<1> QED BY <1>4 DEF u

\* Erasing spaces at the front erases no pair and splits none.
LEMMA TrimStartCount ==
  ASSUME NEW s \in Seq(char16_t), NEW t \in trim_start(s)
  PROVE  /\ t \in Seq(char16_t) /\ Len(t) <= Len(s)
         /\ count_surrogate_pair(t) = count_surrogate_pair(s)
<1>1. PICK n \in LeadingSpaces(s) : t = SubSeq(s, n + 1, Len(s))
  BY DEF trim_start
<1>2. n \in 0 .. Len(s) /\ \A i \in 1 .. n : s[i] = SPACE
  BY <1>1 DEF LeadingSpaces
<1>3. /\ t \in Seq(char16_t) /\ Len(s) \in Nat /\ Len(t) \in Nat /\ n \in Nat
      /\ Len(s) = n + Len(t)
      /\ \A k \in 1 .. Len(t) : t[k] = s[n + k]
  BY <1>1, <1>2
<1>4. AtScanHead(s, n + 1)
  <2>1. CASE n = 0
    BY <2>1, HeadAtStart
  <2>2. CASE n # 0
    <3>1. n \in Nat \ {0} /\ ~ is_lead_surrogate(s[n])
      BY <1>2, <1>3, <2>2, SpaceIsNoSurrogate
    <3> QED BY <3>1, HeadAfterOther
  <2> QED BY <2>1, <2>2
<1> DEFINE T == {n + i : i \in CountedPairs(t)}
<1>5. CountedPairs(s) = T
  <2>1. ASSUME NEW i \in CountedPairs(s) PROVE i \in T
    <3>1. i \in Nat \ {0} /\ is_lead_surrogate(s[i])
      BY <2>1 DEF CountedPairs, PairAt
    <3>2. i > n
      <4> SUFFICES ASSUME i <= n PROVE FALSE
        BY <1>3, <3>1
      <4>1. s[i] = SPACE
        BY <1>2, <1>3, <3>1
      <4> QED BY <3>1, <4>1, SpaceIsNoSurrogate
    <3>3. i - n \in Nat \ {0} /\ n + (i - n) = i
      BY <1>3, <3>1, <3>2
    <3>4. i - n \in CountedPairs(t)
      BY <1>3, <1>4, <2>1, <3>3, CountedShift
    <3> QED BY <3>3, <3>4
  <2>2. ASSUME NEW i \in CountedPairs(t) PROVE n + i \in CountedPairs(s)
    <3>1. i \in Nat \ {0}
      BY <2>2 DEF CountedPairs
    <3> QED BY <1>3, <1>4, <2>2, <3>1, CountedShift
  <2> QED BY <2>1, <2>2
<1>6. CountedPairs(t) \subseteq Nat /\ IsFiniteSet(CountedPairs(t))
  <2>1. IsFiniteSet(CountedPairs(t))
    BY <1>3, CountType
  <2> QED BY <2>1 DEF CountedPairs
<1>7. Cardinality(T) = Cardinality(CountedPairs(t))
  BY <1>3, <1>6, ShiftCardinality
<1> QED BY <1>3, <1>5, <1>7 DEF count_surrogate_pair

\* Nor does erasing spaces at the end.
LEMMA TrimEndCount ==
  ASSUME NEW s \in Seq(char16_t), NEW t \in trim_end(s)
  PROVE  /\ t \in Seq(char16_t) /\ Len(t) <= Len(s)
         /\ count_surrogate_pair(t) = count_surrogate_pair(s)
<1>1. PICK n \in TrailingSpaces(s) : t = SubSeq(s, 1, Len(s) - n)
  BY DEF trim_end
<1>2. n \in 0 .. Len(s) /\ \A i \in (Len(s) - n + 1) .. Len(s) : s[i] = SPACE
  BY <1>1 DEF TrailingSpaces
<1>3. /\ t \in Seq(char16_t) /\ Len(s) \in Nat /\ Len(t) \in Nat /\ n \in Nat
      /\ Len(t) = Len(s) - n
      /\ Len(t) <= Len(s)
      /\ \A k \in 1 .. Len(t) : s[k] = t[k]
  BY <1>1, <1>2
<1>4. \A k \in (Len(t) + 1) .. Len(s) : ~ is_trail_surrogate(s[k])
  BY <1>2, <1>3, SpaceIsNoSurrogate
<1> QED BY <1>3, <1>4, TailWithoutTrails

LEMMA TrimCount ==
  ASSUME NEW s \in Seq(char16_t), NEW t \in trim(s)
  PROVE  /\ t \in Seq(char16_t) /\ Len(t) <= Len(s)
         /\ count_surrogate_pair(t) = count_surrogate_pair(s)
<1>1. PICK r \in trim_start(s) : t \in trim_end(r)
  BY DEF trim
<1>2. /\ r \in Seq(char16_t) /\ Len(r) <= Len(s)
      /\ count_surrogate_pair(r) = count_surrogate_pair(s)
  BY TrimStartCount
<1>3. /\ t \in Seq(char16_t) /\ Len(t) <= Len(r)
      /\ count_surrogate_pair(t) = count_surrogate_pair(r)
  BY <1>1, <1>2, TrimEndCount
<1> QED BY <1>2, <1>3

-----------------------------------------------------------------------------
(* Types of the values.                                                    *)

LEMMA MinOfNat ==
  ASSUME NEW S \in SUBSET Nat, S # {}
  PROVE  Min(S) \in S /\ \A y \in S : Min(S) <= y
<1>1. PICK x \in S : \A y \in S : x <= y
  BY LeastExists
<1> QED BY <1>1, MinIs

\* A string that fits has a count that fits: nothing wraps.
LEMMA CountFits ==
  ASSUME NEW s \in Seq(char16_t), Len(s) <= MaxSize
  PROVE  count_surrogate_pair(s) \in size_t
<1>1. Len(s) \in Nat /\ count_surrogate_pair(s) \in Nat /\ count_surrogate_pair(s) <= Len(s)
  BY CountType
<1> QED BY <1>1, OStrAssumption, SizeMaxAssumption DEF size_t

LEMMA SizeIsNat == size_t \subseteq Nat /\ SIZE_MAX \in size_t /\ 0 \in size_t
  BY SizeMaxAssumption DEF size_t

LEMMA CStrType ==
  ASSUME NEW s \in Seq(char16_t)
  PROVE  CStr(s) \in Seq(char16_t) /\ Len(CStr(s)) <= Len(s)
<1> DEFINE ends == {i \in 1 .. Len(s) : s[i] = NUL} \cup {Len(s) + 1}
<1>1. ends \subseteq 1 .. (Len(s) + 1) /\ ends # {} /\ Len(s) \in Nat
  OBVIOUS
<1>2. Min(ends) \in 1 .. (Len(s) + 1)
  <2>1. ends \in SUBSET Nat
    BY <1>1
  <2> HIDE DEF ends
  <2> QED BY <1>1, <2>1, MinOfNat
<1> HIDE DEF ends
<1>3. Min(ends) - 1 \in 0 .. Len(s)
  BY <1>1, <1>2
<1>4. /\ SubSeq(s, 1, Min(ends) - 1) \in Seq(char16_t)
      /\ Len(SubSeq(s, 1, Min(ends) - 1)) <= Len(s)
  BY <1>1, <1>3
<1> QED BY <1>4 DEF CStr, ends

\* std::u16string::substr returns units of the string.
LEMMA SubstrType ==
  ASSUME NEW s \in Seq(char16_t), NEW pos, NEW n \in Nat
  PROVE  substr(s, pos, n) \subseteq {t \in Seq(char16_t) : Len(t) <= Len(s)}
<1> SUFFICES ASSUME NEW p \in 0 .. Len(s)
             PROVE  /\ SubSeq(s, p + 1, p + Least(n, Len(s) - p)) \in Seq(char16_t)
                    /\ Len(SubSeq(s, p + 1, p + Least(n, Len(s) - p))) <= Len(s)
  BY DEF substr
<1>1. Len(s) \in Nat /\ p + Least(n, Len(s) - p) \in p .. Len(s)
  BY DEF Least
<1> QED BY <1>1

LEMMA SpliceType ==
  ASSUME NEW s \in Seq(char16_t), NEW dest \in Seq(char16_t), NEW first, NEW last
  PROVE  Splice(s, first, last, dest) \subseteq Seq(char16_t)
<1> SUFFICES ASSUME NEW f \in 0 .. Len(s)
             PROVE  SubSeq(s, 1, f) \o dest \o
                      SubSeq(s, 1 + (IF last \in f .. Len(s) THEN last ELSE Len(s)), Len(s))
                      \in Seq(char16_t)
  BY DEF Splice
<1> DEFINE e == IF last \in f .. Len(s) THEN last ELSE Len(s)
<1>1. Len(s) \in Nat /\ e \in 0 .. Len(s)
  OBVIOUS
<1> HIDE DEF e
<1>2. SubSeq(s, 1, f) \in Seq(char16_t) /\ SubSeq(s, 1 + e, Len(s)) \in Seq(char16_t)
  BY <1>1
<1>3. SubSeq(s, 1, f) \o dest \o SubSeq(s, 1 + e, Len(s)) \in Seq(char16_t)
  BY <1>2
<1> QED BY <1>3 DEF e

LEMMA IndexType ==
  ASSUME NEW s \in Seq(char16_t), NEW pattern \in Seq(char16_t), NEW cs
  PROVE  index_of(s, pattern, cs) \in Int
<1> DEFINE found == Occurrences(s, pattern, cs)
<1>1. CASE found \in {{}, {Len(s)}}
  <2>1. SIZE_MAX \in Int
    BY SizeMaxAssumption
  <2> QED BY <1>1, <2>1 DEF index_of
<1>2. CASE found \notin {{}, {Len(s)}}
  <2>1. found \subseteq 0 .. Len(s) /\ found # {} /\ found \subseteq Nat
    <3>1. found # {}
      BY <1>2
    <3>2. Len(s) \in Nat /\ Len(pattern) \in Nat
      OBVIOUS
    <3> QED BY <3>1, <3>2 DEF Occurrences
  <2> HIDE DEF found
  <2>2. Min(found) \in 0 .. Len(s)
    BY <2>1, MinOfNat
  <2>3. SubSeq(s, 1, Min(found)) \in Seq(char16_t)
    BY <2>2
  <2>4. count_surrogate_pair(SubSeq(s, 1, Min(found))) \in Nat
    BY <2>3, CountType
  <2>5. Min(found) - count_surrogate_pair(SubSeq(s, 1, Min(found))) \in Int
    BY <2>2, <2>4
  <2> USE DEF found
  <2> QED BY <1>2, <2>5 DEF index_of, position_index_to_codepoint
<1> QED BY <1>1, <1>2

LEMMA StringIndexType ==
  ASSUME NEW s \in Seq(char16_t), NEW pattern \in Seq(char16_t),
         NEW from \in size_t, NEW count \in size_t, NEW cs
  PROVE  string_index_of(s, pattern, from, count, cs) \subseteq size_t
<1> DEFINE sv == to_sv(s)
           range == convert_codepoint_into_index(sv, from, count)
<1>1. sv \in Seq(char16_t)
  BY CStrType DEF to_sv
<1> HIDE DEF sv
<1>2. from \in Int /\ count \in Int /\ SIZE_MAX \in Int
  BY SizeIsNat, SizeMaxAssumption
<1>3. range[2] \in Nat
  <2> DEFINE p == codepoint_count_to_iterator(sv, from)
             b == Least(count, Wrap(Len(sv) - from))
             q == codepoint_count_to_iterator(sv, Wrap(from + b))
  <2>1. p \in Int /\ q \in Int
    BY <1>1, WalkType
  <2> HIDE DEF p, q
  <2>2. Wrap(q - p) \in size_t
    BY <2>1, WrapType
  <2>3. range[2] = Wrap(q - p)
    BY DEF convert_codepoint_into_index, p, q
  <2> QED BY <2>2, <2>3, SizeIsNat
<1>4. substring(sv, from, count) \subseteq Seq(char16_t)
  <2>1. substring(sv, from, count) = substr(sv, range[1], range[2])
    BY DEF substring
  <2> HIDE DEF range
  <2> QED BY <1>1, <1>3, <2>1, SubstrType
<1>5. ASSUME NEW t \in substring(sv, from, count)
      PROVE  (IF index_of(t, pattern, cs) = SIZE_MAX THEN SIZE_MAX
              ELSE Wrap(index_of(t, pattern, cs) + from)) \in size_t
  <2>1. index_of(t, pattern, cs) \in Int
    BY <1>4, <1>5, IndexType
  <2>2. index_of(t, pattern, cs) + from \in Int
    BY <1>2, <2>1
  <2> QED BY <2>2, WrapType, SizeIsNat
<1>6. UNION {substring(r, from, count) : r \in {to_sv(s)}} = substring(sv, from, count)
  BY Zenon DEF sv
<1> QED BY <1>5, <1>6 DEF string_index_of

-----------------------------------------------------------------------------
(* The methods that return in one step.                                    *)

\* The steps by which an object takes one value.
Assigns(o) == \E s \in Seq(char16_t), n \in size_t : Assign(o, s, n)

LEMMA StrTypes ==
  ASSUME TypeOK, NEW o \in Strings
  PROVE  /\ str[o] \in Seq(char16_t) /\ Len(str[o]) <= MaxSize
         /\ surrogate_pair_count[o] \in size_t
  BY DEF TypeOK

LEMMA AssignTypes ==
  ASSUME TypeOK, NEW o \in Strings, Assigns(o)
  PROVE  TypeOK'
<1>1. PICK s \in Seq(char16_t), n \in size_t : Assign(o, s, n)
  BY DEF Assigns
<1>2. /\ str' = [str EXCEPT ![o] = s]
      /\ surrogate_pair_count' = [surrogate_pair_count EXCEPT ![o] = n]
      /\ call' = call /\ call = NoCall /\ Len(s) <= MaxSize
  BY <1>1 DEF Assign
<1>3. str' \in [Strings -> Seq(char16_t)] /\ \A p \in Strings : Len(str'[p]) <= MaxSize
  BY <1>2 DEF TypeOK
<1>4. surrogate_pair_count' \in [Strings -> size_t]
  BY <1>2 DEF TypeOK
<1> QED BY <1>2, <1>3, <1>4 DEF TypeOK

\* Assigning a value with its own count leaves every count right.
LEMMA AssignExact ==
  ASSUME TypeOK, AllCachesExact, NEW o \in Strings, NEW s, NEW n,
         Assign(o, s, n), n = count_surrogate_pair(s)
  PROVE  AllCachesExact'
<1>1. /\ str' = [str EXCEPT ![o] = s]
      /\ surrogate_pair_count' = [surrogate_pair_count EXCEPT ![o] = n]
  BY DEF Assign
<1>2. ASSUME NEW p \in Strings
      PROVE  surrogate_pair_count'[p] = count_surrogate_pair(str'[p])
  <2>1. surrogate_pair_count[p] = count_surrogate_pair(str[p])
    BY DEF AllCachesExact, CacheExact
  <2>2. CASE p = o
    BY <1>1, <2>2 DEF TypeOK
  <2>3. CASE p # o
    BY <1>1, <2>1, <2>3 DEF TypeOK
  <2> QED BY <2>2, <2>3
<1> QED BY <1>2 DEF AllCachesExact, CacheExact

\* A value whose count was made by a scan.
LEMMA ScannedType ==
  ASSUME NEW o \in Strings, NEW s \in Seq(char16_t), Assign(o, s, count_surrogate_pair(s))
  PROVE  Assigns(o)
<1>1. Len(s) <= MaxSize
  BY DEF Assign
<1>2. count_surrogate_pair(s) \in size_t
  BY <1>1, CountFits
<1> QED BY <1>2 DEF Assigns

LEMMA FromBytesValue ==
  ASSUME NEW o \in Strings, NEW text \in Texts, NEW len \in Counts, FromBytes(o, text, len)
  PROVE  \E s \in Seq(char16_t) : Assign(o, s, count_surrogate_pair(s))
<1> DEFINE c == CStr(text)
           sv == SubSeq(c, 1, Least(len, Len(c)))
<1>1. c \in Seq(char16_t) /\ len \in Nat
  BY OStrAssumption, CStrType, SizeIsNat
<1> HIDE DEF c
<1>2. Least(len, Len(c)) \in 0 .. Len(c)
  BY <1>1 DEF Least
<1>3. sv \in Seq(char16_t)
  BY <1>1, <1>2
<1>4. Assign(o, sv, count_surrogate_pair(sv))
  BY DEF FromBytes, c
<1> HIDE DEF sv
<1> QED BY <1>3, <1>4

LEMMA ReplaceRangeValue ==
  ASSUME TypeOK, NEW o \in Strings, NEW text \in Texts, NEW from, NEW count,
         ReplaceRange(o, from, count, text)
  PROVE  \E s \in Seq(char16_t) : Assign(o, s, count_surrogate_pair(s))
<1>1. PICK t \in replace_range(str[o], from, count, text) :
         Assign(o, t, count_surrogate_pair(t))
  BY DEF ReplaceRange
<1>2. str[o] \in Seq(char16_t) /\ text \in Seq(char16_t)
  BY StrTypes, OStrAssumption
<1>3. t \in Seq(char16_t)
  BY <1>2, SpliceType DEF replace_range
<1> QED BY <1>1, <1>3

\* The calls whose result is scanned.
Scanned(o, text) ==
  \/ FromCStr(o, text) \/ FromUnits(o, text)
  \/ \E len \in Counts : FromBytes(o, text, len)
  \/ \E from \in Counts, count \in Counts : ReplaceRange(o, from, count, text)

LEMMA ScannedValue ==
  ASSUME TypeOK, NEW o \in Strings, NEW text \in Texts, Scanned(o, text)
  PROVE  \E s \in Seq(char16_t) : Assign(o, s, count_surrogate_pair(s))
<1>1. text \in Seq(char16_t) /\ CStr(text) \in Seq(char16_t)
  BY OStrAssumption, CStrType
<1>2. CASE FromCStr(o, text)
  BY <1>1, <1>2, Zenon DEF FromCStr
<1>3. CASE FromUnits(o, text)
  BY <1>1, <1>3, Zenon DEF FromUnits
<1>4. CASE \E len \in Counts : FromBytes(o, text, len)
  BY <1>4, FromBytesValue
<1>5. CASE \E from \in Counts, count \in Counts : ReplaceRange(o, from, count, text)
  BY <1>5, ReplaceRangeValue
<1> QED BY <1>2, <1>3, <1>4, <1>5 DEF Scanned

\* What a substring is, and its count.
LEMMA SubstringValue ==
  ASSUME NEW s \in Seq(char16_t), NEW n \in size_t, NEW from \in size_t, NEW size \in size_t,
         NEW t \in string_substring(s, n, from, size)
  PROVE  /\ t.str \in Seq(char16_t) /\ Len(t.str) <= Len(s)
         /\ n = 0 => t.count = count_surrogate_pair(t.str)
         /\ n # 0 => t.count \in size_t
<1>1. n \in Nat /\ from \in Nat /\ size \in Nat /\ Len(s) \in Nat
  BY SizeIsNat
<1>2. CASE n = 0
  <2>1. PICK r \in substr(s, from, size) :
          t = [str |-> r, count |-> count_surrogate_pair(r)]
    BY <1>2 DEF string_substring
  <2>2. r \in Seq(char16_t) /\ Len(r) <= Len(s)
    BY <1>1, SubstrType
  <2> QED BY <1>2, <2>1, <2>2
<1>3. CASE n # 0
  <2> DEFINE wanted == Least(size, Wrap(string_length(s, n) - from))
             from_it == codepoint_count_to_iterator(s, from)
             pairs   == Wrap(n - (from_it - from))
  <2>1. from_it \in Int
    BY WalkType
  <2> HIDE DEF from_it
  <2>2. pairs \in size_t
    BY <1>1, <2>1, WrapType
  <2>3. wanted \in Nat
    <3>1. Len(s) - n \in Int
      BY <1>1
    <3>2. string_length(s, n) \in Nat
      BY <3>1, WrapType DEF string_length
    <3>3. string_length(s, n) - from \in Int
      BY <1>1, <3>2
    <3>4. Wrap(string_length(s, n) - from) \in Nat
      BY <3>3, WrapType
    <3> QED BY <1>1, <3>4 DEF Least
  <2> HIDE DEF wanted, pairs
  <2>4. Wrap(wanted + pairs) \in Nat
    <3>1. wanted + pairs \in Int
      BY <2>2, <2>3, SizeIsNat
    <3> QED BY <3>1, WrapType
  <2> USE DEF wanted, pairs
  <2>5. PICK r \in substr(s, from_it, Wrap(wanted + pairs)) :
          t = [str |-> r, count |-> pairs]
    BY <1>3 DEF string_substring, from_it
  <2>6. r \in Seq(char16_t) /\ Len(r) <= Len(s)
    BY <2>4, <2>5, SubstrType
  <2> QED BY <1>3, <2>2, <2>5, <2>6
<1> QED BY <1>2, <1>3

-----------------------------------------------------------------------------
(* One step of CallNext.                                                   *)

\* The calls that take over, add or make up a count without a scan.
Unscanned(o, p) ==
  \/ Copy(o, p)
  \/ AppendString(o, p) \/ TrimStart(o, p) \/ TrimEnd(o, p) \/ Trim(o, p)
  \/ \E q \in Strings : Concat(o, p, q)
  \/ \E from \in Counts, size \in Counts : Substring(o, p, from, size)

LEMMA CallCases ==
  ASSUME CallNext
  PROVE  \/ \E o \in Strings, text \in Texts : Scanned(o, text) \/ DecodeFromUtf8(o, text)
         \/ \E o \in Strings, c \in Fills, count \in Counts : FromFill(o, c, count)
         \/ \E o, p \in Strings : Unscanned(o, p) \/ Move(o, p)
  BY Zenon DEF CallNext, Scanned, Unscanned

\* The sum of two counts, as the two ways to join strings compute it.
LEMMA SumType ==
  ASSUME TypeOK, NEW p \in Strings, NEW q \in Strings
  PROVE  /\ str[p] \o str[q] \in Seq(char16_t)
         /\ Wrap(surrogate_pair_count[p] + surrogate_pair_count[q]) \in size_t
<1>1. /\ str[p] \in Seq(char16_t) /\ str[q] \in Seq(char16_t)
      /\ surrogate_pair_count[p] \in Nat /\ surrogate_pair_count[q] \in Nat
  BY StrTypes, SizeIsNat
<1>2. surrogate_pair_count[p] + surrogate_pair_count[q] \in Int
  BY <1>1
<1> QED BY <1>1, <1>2, WrapType

LEMMA UnscannedTypes ==
  ASSUME TypeOK, NEW o \in Strings, NEW p \in Strings, Unscanned(o, p)
  PROVE  Assigns(o)
<1>1. /\ str[p] \in Seq(char16_t) /\ str[o] \in Seq(char16_t)
      /\ surrogate_pair_count[p] \in size_t
  BY StrTypes
<1>2. CASE Copy(o, p)
  BY <1>1, <1>2 DEF Copy, Assigns
<1>3. CASE AppendString(o, p)
  BY <1>3, SumType DEF AppendString, Assigns
<1>4. CASE TrimStart(o, p)
  BY <1>1, <1>4, TrimStartCount DEF TrimStart, Assigns
<1>5. CASE TrimEnd(o, p)
  BY <1>1, <1>5, TrimEndCount DEF TrimEnd, Assigns
<1>6. CASE Trim(o, p)
  BY <1>1, <1>6, TrimCount DEF Trim, Assigns
<1>7. CASE \E q \in Strings : Concat(o, p, q)
  BY <1>7, SumType DEF Concat, Assigns
<1>8. CASE \E from \in Counts, size \in Counts : Substring(o, p, from, size)
  <2>1. PICK from \in Counts, size \in Counts : Substring(o, p, from, size)
    BY <1>8
  <2>2. PICK t \in string_substring(str[p], surrogate_pair_count[p], from, size) :
          Assign(o, t.str, t.count)
    BY <2>1 DEF Substring
  <2>3. from \in size_t /\ size \in size_t
    BY OStrAssumption
  <2>4. /\ t.str \in Seq(char16_t)
        /\ surrogate_pair_count[p] = 0 => t.count = count_surrogate_pair(t.str)
        /\ surrogate_pair_count[p] # 0 => t.count \in size_t
    BY <1>1, <2>2, <2>3, SubstringValue
  <2>5. CASE surrogate_pair_count[p] = 0
    <3>1. Assign(o, t.str, count_surrogate_pair(t.str))
      BY <2>2, <2>4, <2>5
    <3> QED BY <2>4, <3>1, ScannedType
  <2>6. CASE surrogate_pair_count[p] # 0
    BY <2>2, <2>4, <2>6 DEF Assigns
  <2> QED BY <2>5, <2>6
<1> QED BY <1>2, <1>3, <1>4, <1>5, <1>6, <1>7, <1>8 DEF Unscanned

LEMMA FromFillValue ==
  ASSUME NEW o \in Strings, NEW c \in Fills, NEW count \in Counts, FromFill(o, c, count)
  PROVE  \E s \in Seq(char16_t) : Assign(o, s, count_surrogate_pair(s))
<1>1. c \in char16_t /\ count \in Nat
  BY OStrAssumption, SizeIsNat
<1> DEFINE s == [i \in 1 .. count |-> c]
<1>2. s \in Seq(char16_t) /\ count_surrogate_pair(s) = 0
  BY <1>1, FillCount
<1>3. Assign(o, s, 0)
  BY DEF FromFill
<1> HIDE DEF s
<1> QED BY <1>2, <1>3

LEMMA MoveTypes ==
  ASSUME TypeOK, NEW o \in Strings, NEW p \in Strings, Move(o, p)
  PROVE  TypeOK'
<1>1. /\ o # p /\ call' = call
      /\ str' = [str EXCEPT ![o] = str[p], ![p] = <<>>]
      /\ surrogate_pair_count' = [surrogate_pair_count EXCEPT ![o] = surrogate_pair_count[p]]
  BY DEF Move
<1>2. <<>> \in Seq(char16_t) /\ Len(<<>>) <= MaxSize
  BY OStrAssumption
<1>3. str' \in [Strings -> Seq(char16_t)] /\ \A r \in Strings : Len(str'[r]) <= MaxSize
  BY <1>1, <1>2 DEF TypeOK
<1>4. surrogate_pair_count' \in [Strings -> size_t]
  BY <1>1 DEF TypeOK
<1> QED BY <1>1, <1>3, <1>4 DEF TypeOK

LEMMA CallTypes == TypeOK /\ CallNext => TypeOK'
<1> SUFFICES ASSUME TypeOK, CallNext PROVE TypeOK'
  OBVIOUS
<1>1. CASE \E o \in Strings, text \in Texts : Scanned(o, text) \/ DecodeFromUtf8(o, text)
  <2>1. PICK o \in Strings, text \in Texts : Scanned(o, text) \/ DecodeFromUtf8(o, text)
    BY <1>1
  <2>2. CASE Scanned(o, text)
    BY <2>2, ScannedValue, ScannedType, AssignTypes
  <2>3. CASE DecodeFromUtf8(o, text)
    <3>1. str[o] \o text \in Seq(char16_t) /\ surrogate_pair_count[o] \in size_t
      BY StrTypes, OStrAssumption
    <3>2. Assigns(o)
      BY <2>3, <3>1 DEF DecodeFromUtf8, Assigns
    <3> QED BY <3>2, AssignTypes
  <2> QED BY <2>1, <2>2, <2>3
<1>2. CASE \E o \in Strings, c \in Fills, count \in Counts : FromFill(o, c, count)
  BY <1>2, FromFillValue, ScannedType, AssignTypes
<1>3. CASE \E o, p \in Strings : Unscanned(o, p) \/ Move(o, p)
  BY <1>3, UnscannedTypes, AssignTypes, MoveTypes
<1> QED BY <1>1, <1>2, <1>3, CallCases

-----------------------------------------------------------------------------
(* Type correctness.                                                       *)

\* The calls of replace_origin that can be in progress.
Calls == [status : {"replacing"}, on : Strings, src : Seq(char16_t),
          dest : Seq(char16_t), cs : case_sensitivity, text : Seq(char16_t),
          len : 0 .. MaxSize, index : size_t]

LEMMA CallType == TypeOK => call \in {NoCall, Terminated} \cup Calls
  BY DEF TypeOK, Calls

LEMMA ReplacingType == TypeOK /\ Replacing => call \in Calls
<1> SUFFICES ASSUME TypeOK, Replacing PROVE call \in Calls
  OBVIOUS
<1>1. call # NoCall /\ call # Terminated
  BY DEF Replacing, NoCall, Terminated
<1> QED BY <1>1, CallType

LEMMA NextIndexType ==
  ASSUME NEW c \in Calls, NEW s \in Seq(char16_t), NEW from \in size_t
  PROVE  NextIndex(c, s, from) \subseteq {Terminated} \cup Calls
<1> DEFINE found == string_index_of(s, c.src, from, SIZE_MAX, c.cs)
<1>1. found \subseteq size_t
  <2>1. c.src \in Seq(char16_t)
    BY DEF Calls
  <2> QED BY <2>1, SizeIsNat, StringIndexType
<1> HIDE DEF found
<1>2. ASSUME NEW i \in found PROVE [c EXCEPT !.index = i] \in Calls
  BY <1>1, <1>2 DEF Calls
<1>3. NextIndex(c, s, from) =
        IF found = {} THEN {Terminated} ELSE {[c EXCEPT !.index = i] : i \in found}
  BY Zenon DEF NextIndex, found
<1> QED BY <1>2, <1>3

LEMMA ReplaceCallsType ==
  ASSUME NEW o \in Strings, NEW s \in Seq(char16_t), Len(s) <= MaxSize,
         NEW src \in Patterns, NEW dest \in Patterns, NEW cs \in case_sensitivity
  PROVE  ReplaceCalls(o, s, src, dest, cs) \subseteq {Terminated} \cup Calls
<1> DEFINE c == [status |-> "replacing", on |-> o, src |-> src, dest |-> dest, cs |-> cs,
                 text |-> s, len |-> Len(s), index |-> 0]
<1>1. Len(s) \in 0 .. MaxSize /\ src \in Seq(char16_t) /\ dest \in Seq(char16_t)
  BY OStrAssumption
<1>2. c \in Calls
  BY <1>1, SizeIsNat DEF Calls
<1> HIDE DEF c
<1>3. NextIndex(c, s, 0) \subseteq {Terminated} \cup Calls
  BY <1>2, SizeIsNat, NextIndexType
<1> QED BY <1>3 DEF ReplaceCalls, c

\* An iteration of the loop changes the units of one string.
LEMMA IterationTypes == TypeOK /\ ReplaceIteration => TypeOK'
<1> SUFFICES ASSUME TypeOK, ReplaceIteration PROVE TypeOK'
  OBVIOUS
<1>1. call \in Calls
  BY ReplacingType DEF ReplaceIteration
<1> DEFINE o == call.on
<1>2. o \in Strings /\ call.dest \in Seq(char16_t) /\ call.index \in Nat
  BY <1>1, SizeIsNat DEF Calls
<1>3. PICK t \in Splice(str[o], call.index, call.index + Len(call.src), call.dest) :
         /\ Len(t) <= MaxSize
         /\ str' = [str EXCEPT ![o] = t]
         /\ call' \in NextIndex(call, t, Wrap(call.index + Len(call.dest)))
  BY DEF ReplaceIteration
<1>4. t \in Seq(char16_t)
  BY <1>2, StrTypes, SpliceType
<1>5. Wrap(call.index + Len(call.dest)) \in size_t
  <2>1. call.index + Len(call.dest) \in Int
    BY <1>2
  <2> QED BY <2>1, WrapType
<1>6. call' \in {NoCall, Terminated} \cup Calls
  BY <1>1, <1>3, <1>4, <1>5, NextIndexType
<1>7. str' \in [Strings -> Seq(char16_t)] /\ \A p \in Strings : Len(str'[p]) <= MaxSize
  BY <1>2, <1>3, <1>4 DEF TypeOK
<1>8. surrogate_pair_count' \in [Strings -> size_t]
  BY DEF ReplaceIteration, TypeOK
<1> QED BY <1>6, <1>7, <1>8 DEF TypeOK, Calls

LEMMA ReturnTypes == TypeOK /\ ReplaceReturn => TypeOK'
<1> SUFFICES ASSUME TypeOK, ReplaceReturn PROVE TypeOK'
  OBVIOUS
<1>1. call.on \in Strings
  BY ReplacingType DEF ReplaceReturn, Calls
<1>2. count_surrogate_pair(str[call.on]) \in size_t
  BY <1>1, StrTypes, CountFits
<1>3. surrogate_pair_count' \in [Strings -> size_t]
  BY <1>2 DEF ReplaceReturn, TypeOK
<1> QED BY <1>3 DEF ReplaceReturn, TypeOK

LEMMA StartTypes ==
  ASSUME TypeOK, NEW o \in Strings, NEW src \in Patterns, NEW dest \in Patterns,
         NEW cs \in case_sensitivity, ReplaceStart(o, src, dest, cs)
  PROVE  TypeOK'
<1>1. call' \in ReplaceCalls(o, str[o], src, dest, cs) /\ UNCHANGED <<str, surrogate_pair_count>>
  BY DEF ReplaceStart
<1>2. call' \in {Terminated} \cup Calls
  BY <1>1, StrTypes, ReplaceCallsType
<1> QED BY <1>1, <1>2 DEF TypeOK, Calls

LEMMA InitTypes == Init => TypeOK
<1>1. <<>> \in Seq(char16_t) /\ Len(<<>>) <= MaxSize
  BY OStrAssumption
<1> QED BY <1>1, SizeIsNat DEF Init, TypeOK

LEMMA StepTypes == TypeOK /\ [Next]_vars => TypeOK'
<1> SUFFICES ASSUME TypeOK, [Next]_vars PROVE TypeOK'
  OBVIOUS
<1>1. CASE CallNext
  BY <1>1, CallTypes
<1>2. CASE \E o \in Strings, src \in Patterns, dest \in Patterns, cs \in case_sensitivity :
             ReplaceStart(o, src, dest, cs)
  BY <1>2, StartTypes
<1>3. CASE ReplaceLoop
  <2>1. CASE ReplaceThrows
    BY <2>1 DEF ReplaceThrows, TypeOK
  <2> QED BY <1>3, <2>1, IterationTypes, ReturnTypes DEF ReplaceLoop
<1>4. CASE UNCHANGED vars
  BY <1>4 DEF vars, TypeOK
<1> QED BY <1>1, <1>2, <1>3, <1>4 DEF Next

\* Every string object holds code units, no more than max_size() of them; the
\* cached count and the index of the loop of replace_origin never leave size_t;
\* and a call in progress is a call of replace_origin.
THEOREM StringTypesCorrect == Spec => []TypeOK
  BY InitTypes, StepTypes, PTL DEF Spec

-----------------------------------------------------------------------------
(* substring(from, size).                                                  *)

\* What substring makes of a string whose count is right.
SubstringCut(s, from, size) ==
  LET t == CodePoints(s, from, from + size)
  IN  string_substring(s, count_surrogate_pair(s), from, size) =
        {[str |-> t, count |-> count_surrogate_pair(t)]}

\* How the units, the pairs and the code points before an offset make up for
\* each other.
LEMMA PairsUpTo ==
  ASSUME NEW s \in Seq(char16_t), WellFormed(s), NEW p \in 0 .. Len(s), AtScanHead(s, p + 1)
  PROVE  LET pairs == Cardinality(CountedUpTo(s, p))
         IN  /\ pairs \in 0 .. count_surrogate_pair(s)
             /\ Cardinality(StartsUpTo(s, p)) = p - pairs
<1>1. IsFiniteSet(CountedPairs(s)) /\ CountedUpTo(s, p) \subseteq CountedPairs(s)
      /\ Cardinality(CountedUpTo(s, p)) \in Nat
  <2>1. p \in Nat /\ Len(s) \in Nat
    OBVIOUS
  <2>2. CountedUpTo(s, Len(s)) = CountedPairs(s)
    BY DEF CountedUpTo, CountedPairs
  <2>3. CountedUpTo(s, p) \subseteq CountedPairs(s)
    BY DEF CountedUpTo
  <2> QED BY <2>1, <2>2, <2>3, CountedFinite
<1>2. Cardinality(CountedUpTo(s, p)) <= count_surrogate_pair(s)
  BY <1>1, FS_Subset, CountsAre
<1>3. count_surrogate_pair(s) \in Nat
  BY <1>1, FS_CardinalityType, CountsAre
<1>4. Cardinality(StartsUpTo(s, p)) = p - Cardinality(CountedUpTo(s, p))
  BY StartsOfUnits DEF Cost
<1> QED BY <1>1, <1>2, <1>3, <1>4

\* A string without pairs is cut by code units.
LEMMA SubstringOfUnits ==
  ASSUME NEW s \in Seq(char16_t), WellFormed(s), count_surrogate_pair(s) = 0,
         NEW from \in Nat, NEW size \in Nat, from <= CodePointCount(s)
  PROVE  SubstringCut(s, from, size)
<1> DEFINE p == codepoint_count_to_iterator(s, from)
           q == codepoint_count_to_iterator(s, from + size)
           to == from + size
           t == CodePoints(s, from, to)
<1>1. Len(s) \in Nat /\ to \in Nat /\ to >= from /\ CodePointCount(s) = Len(s)
  BY LengthIs, CodePointNumbers DEF length
<1>2. /\ p \in 0 .. Len(s) /\ AtScanHead(s, p + 1)
      /\ Cardinality(StartsUpTo(s, p)) = from \/ (p = Len(s) /\ from >= CodePointCount(s))
      /\ q \in 0 .. Len(s) /\ AtScanHead(s, q + 1)
      /\ Cardinality(StartsUpTo(s, q)) = to \/ (q = Len(s) /\ to >= CodePointCount(s))
  BY <1>1, WalkStops
<1> HIDE DEF p, q, to
<1>3. Cardinality(StartsUpTo(s, p)) = p /\ Cardinality(StartsUpTo(s, q)) = q
  <2>1. Cardinality(StartsUpTo(s, p)) = p
    BY <1>2, PairsUpTo
  <2>2. Cardinality(StartsUpTo(s, q)) = q
    BY <1>2, PairsUpTo
  <2> QED BY <2>1, <2>2
<1>4. p = from /\ q = IF to <= Len(s) THEN to ELSE Len(s)
  BY <1>1, <1>2, <1>3
<1>5. q = from + Least(size, Len(s) - from) /\ q \in p .. Len(s)
  BY <1>1, <1>2, <1>4 DEF Least, to
<1>6. SubSeq(s, p + 1, q) = t
  <2>1. p \in 0 .. Len(s) /\ q \in p .. Len(s) /\ to \in Nat
    BY <1>1, <1>2, <1>5
  <2> QED BY ZenonT(30), <1>1, <1>2, <2>1, CutBetween
<1>7. substr(s, from, size) = {SubSeq(s, from + 1, from + Least(size, Len(s) - from))}
  BY <1>2, <1>4, SubstrInside
<1>8. substr(s, from, size) = {t}
  BY <1>4, <1>5, <1>6, <1>7
<1> HIDE DEF t
<1>9. string_substring(s, count_surrogate_pair(s), from, size) =
        {[str |-> t, count |-> count_surrogate_pair(t)]}
  BY <1>8 DEF string_substring
<1> QED BY <1>9 DEF SubstringCut, t, to

\* One with pairs is cut at from_it, and the size is lengthened by the pairs
\* that begin from there on.
LEMMA SubstringOfPairs ==
  ASSUME NEW s \in Seq(char16_t), WellFormed(s), Len(s) <= SIZE_MAX,
         count_surrogate_pair(s) # 0,
         NEW from \in Nat, NEW size \in Nat, from <= CodePointCount(s),
         \A i \in Pairs(s) : CodePointOf(s, i) < from + size
  PROVE  SubstringCut(s, from, size)
<1> DEFINE n == count_surrogate_pair(s)
           from_it == codepoint_count_to_iterator(s, from)
           uint16_size == Least(size, Wrap(string_length(s, n) - from))
           pairs == Wrap(n - (from_it - from))
           to == from + size
           stop == codepoint_count_to_iterator(s, to)
           t == CodePoints(s, from, to)
           before == Cardinality(CountedUpTo(s, from_it))
           end == IF to < CodePointCount(s) THEN stop ELSE Len(s)
<1>1. /\ Len(s) \in Nat /\ to \in Nat /\ to >= from /\ n \in Nat /\ SIZE_MAX \in Nat
      /\ CodePointCount(s) = Len(s) - n /\ CodePointCount(s) \in Nat
  BY LengthIs, CodePointNumbers, CountType, SizeMaxAssumption DEF length
<1>2. /\ from_it \in 0 .. Len(s) /\ AtScanHead(s, from_it + 1)
      /\ Cardinality(StartsUpTo(s, from_it)) = from
  <2>1. /\ from_it \in 0 .. Len(s) /\ AtScanHead(s, from_it + 1)
        /\ \/ from <= CodePointCount(s) /\ Cardinality(StartsUpTo(s, from_it)) = from
           \/ from > CodePointCount(s) /\ from_it = Len(s)
    BY WalkForward
  <2> HIDE DEF from_it
  <2> QED BY <1>1, <2>1
<1>3. before \in 0 .. n /\ from = from_it - before
  BY <1>2, PairsUpTo
<1>4. pairs = n - before /\ pairs \in Nat
  <2>1. n - (from_it - from) = n - before
    BY <1>1, <1>2, <1>3
  <2>2. n - before \in size_t /\ n - before \in Nat
    BY <1>1, <1>3 DEF size_t
  <2> QED BY <2>1, <2>2, WrapFits
<1>5. uint16_size = IF to < CodePointCount(s) THEN size ELSE CodePointCount(s) - from
  <2>1. Len(s) - n \in size_t /\ Len(s) - n - from \in size_t
    BY <1>1 DEF size_t
  <2>2. string_length(s, n) = Len(s) - n
    BY <2>1, WrapFits DEF string_length
  <2>3. Wrap(string_length(s, n) - from) = Len(s) - n - from
    BY <2>1, <2>2, WrapFits
  <2> HIDE DEF n
  <2> QED BY <1>1, <2>3 DEF Least
<1>6. /\ end \in 0 .. Len(s) /\ AtScanHead(s, end + 1)
      /\ Cardinality(StartsUpTo(s, end)) = to \/ (end = Len(s) /\ to >= CodePointCount(s))
      /\ Cardinality(StartsUpTo(s, end)) = IF to < CodePointCount(s) THEN to ELSE CodePointCount(s)
  <2>1. CASE to < CodePointCount(s)
    <3>1. end = stop
      BY <2>1
    <3>2. /\ stop \in 0 .. Len(s) /\ AtScanHead(s, stop + 1)
          /\ Cardinality(StartsUpTo(s, stop)) = to
      BY <1>1, <2>1, WalkForward
    <3> HIDE DEF stop, end
    <3> QED BY <2>1, <3>1, <3>2
  <2>2. CASE ~ (to < CodePointCount(s))
    <3>1. end = Len(s)
      BY <2>2
    <3> HIDE DEF end
    <3> QED BY <1>1, <2>2, <3>1, HeadAtEnd, StartsFromZero
  <2> QED BY <2>1, <2>2
<1> HIDE DEF n, from_it, uint16_size, pairs, before, to, end
\* No pair begins behind the range.
<1>7. Cardinality(CountedUpTo(s, end)) = n
  <2>1. ASSUME NEW i \in CountedPairs(s), ~ (i <= end) PROVE FALSE
    <3>1. /\ i \in 1 .. (Len(s) - 1) /\ i \in Pairs(s) /\ i \in Nat /\ end \in Nat /\ end < i
          /\ i <= Len(s)
      BY <1>6, <2>1 DEF CountedPairs, Pairs
    <3>2. Cardinality(StartsUpTo(s, end)) + 1 <= Cardinality(StartsUpTo(s, i))
      BY <1>6, <3>1, StartsAfterHead
    <3>3. CodePointOf(s, i) = Cardinality(StartsUpTo(s, i)) - 1
      BY DEF CodePointOf, StartsUpTo
    <3>4. Cardinality(StartsUpTo(s, i)) <= CodePointCount(s)
      BY <1>1, <3>1, StartsGrow, StartsFromZero
    <3>5. CodePointOf(s, i) < to
      BY <3>1 DEF to
    <3>6. Cardinality(StartsUpTo(s, i)) \in Nat
      BY <3>1, StartsFinite
    <3> QED BY <1>1, <1>6, <3>2, <3>3, <3>4, <3>5, <3>6
  <2>2. CountedUpTo(s, end) = CountedPairs(s)
    BY <2>1 DEF CountedUpTo
  <2> QED BY <2>2, CountsAre DEF n
<1>8. Cardinality(StartsUpTo(s, end)) = end - n
  BY <1>6, <1>7, PairsUpTo
<1>9. end = from_it + uint16_size + pairs /\ end \in from_it .. Len(s)
  <2>1. uint16_size \in Nat /\ from + uint16_size = Cardinality(StartsUpTo(s, end))
    BY <1>1, <1>5, <1>6 DEF to
  <2> QED BY <1>1, <1>2, <1>3, <1>4, <1>6, <1>8, <2>1
<1>10. SubSeq(s, from_it + 1, end) = t
  <2>1. from_it \in 0 .. Len(s) /\ end \in from_it .. Len(s) /\ to \in Nat
    BY <1>1, <1>2, <1>9
  <2>2. AtScanHead(s, from_it + 1) /\ Cardinality(StartsUpTo(s, from_it)) = from
    BY <1>2
  <2>3. AtScanHead(s, end + 1)
    BY <1>6
  <2>4. Cardinality(StartsUpTo(s, end)) = to \/ (end = Len(s) /\ to >= CodePointCount(s))
    BY <1>6
  <2> QED BY ZenonT(30), <2>1, <2>2, <2>3, <2>4, CutBetween DEF t
<1>11. count_surrogate_pair(t) = pairs
  <2>1. count_surrogate_pair(SubSeq(s, from_it + 1, end)) =
          end - from_it - (Cardinality(StartsUpTo(s, end)) - Cardinality(StartsUpTo(s, from_it)))
    BY <1>2, <1>6, <1>9, CountOfCut
  <2> HIDE DEF t
  <2>2. count_surrogate_pair(t) = end - from_it - (end - n - from)
    BY <1>2, <1>8, <1>10, <2>1
  <2> QED BY <1>1, <1>2, <1>3, <1>4, <1>6, <2>2
<1>12. substr(s, from_it, Wrap(uint16_size + pairs)) = {t}
  <2>1. uint16_size + pairs = end - from_it /\ end - from_it \in size_t /\ end - from_it \in Nat
    <3>1. from_it \in Nat /\ end \in Nat /\ from_it <= end /\ end <= Len(s) /\ pairs \in Nat
          /\ uint16_size \in Nat
      BY <1>1, <1>2, <1>4, <1>5, <1>6, <1>9
    <3>2. Len(s) \in Nat /\ Len(s) <= SIZE_MAX
      BY <1>1
    <3>3. end = from_it + uint16_size + pairs
      BY <1>9
    <3> DEFINE m == Len(s)
    <3> HIDE DEF from_it, end, pairs, uint16_size, m
    <3>4. uint16_size + pairs = end - from_it /\ end - from_it \in Nat
      BY <3>1, <3>3
    <3>5. end - from_it <= SIZE_MAX
      <4>1. m \in Nat /\ m <= SIZE_MAX /\ end <= m
        BY <3>1, <3>2 DEF m
      <4> QED BY <3>1, <4>1, SizeMaxAssumption
    <3> QED BY <3>4, <3>5, SizeMaxAssumption DEF size_t
  <2>2. Wrap(uint16_size + pairs) = end - from_it
    BY <2>1, WrapFits
  <2>3. substr(s, from_it, end - from_it) =
          {SubSeq(s, from_it + 1, from_it + Least(end - from_it, Len(s) - from_it))}
    BY <1>2, <2>1, SubstrInside
  <2>4. from_it + Least(end - from_it, Len(s) - from_it) = end
    BY <1>1, <1>2, <1>6, <1>9 DEF Least
  <2> QED BY <1>10, <2>2, <2>3, <2>4
<1> HIDE DEF t
<1>13. string_substring(s, n, from, size) = {[str |-> t, count |-> pairs]}
  <2>1. string_substring(s, n, from, size) =
          {[str |-> u, count |-> pairs] : u \in substr(s, from_it, Wrap(uint16_size + pairs))}
    BY DEF string_substring, n, from_it, uint16_size, pairs
  <2> QED BY <1>12, <2>1
<1> QED BY <1>11, <1>13 DEF SubstringCut, n, t, to

\* What Cuttable asks for is enough.
LEMMA CutsOfStrings ==
  ASSUME TypeOK, NEW o \in Strings, NEW from \in Counts, NEW size \in Counts,
         Cuttable(o, from, size)
  PROVE  LET t == CodePoints(str[o], from, from + size)
         IN  /\ string_substring(str[o], surrogate_pair_count[o], from, size) =
                  {[str |-> t, count |-> count_surrogate_pair(t)]}
             /\ WellFormed(t)
<1>1. /\ str[o] \in Seq(char16_t) /\ Len(str[o]) <= MaxSize
      /\ from \in size_t /\ size \in size_t
  BY StrTypes, OStrAssumption
<1>2. from \in Nat /\ size \in Nat
  BY <1>1, SizeIsNat
<1>3. Len(str[o]) <= SIZE_MAX
  BY <1>1, OStrAssumption, SizeMaxAssumption
<1>4. /\ CacheExact(o) /\ WellFormed(str[o]) /\ from <= CodePointCount(str[o])
      /\ \A i \in Pairs(str[o]) : CodePointOf(str[o], i) < from + size
  BY DEF Cuttable
<1>5. SubstringCut(str[o], from, size)
  BY <1>1, <1>2, <1>3, <1>4, SubstringOfUnits, SubstringOfPairs
<1>6. WellFormed(CodePoints(str[o], from, from + size))
  <2>1. from + size \in Nat /\ from <= from + size
    BY <1>2
  <2> QED BY <1>1, <1>2, <1>4, <2>1, CodePointsWellFormed
<1> QED BY <1>4, <1>5, <1>6 DEF SubstringCut, CacheExact

\* A string that is Cuttable is cut exactly by substring, and the result given
\* the right count (ostr.cpp:26-44).
THEOREM SubstringsExact == Spec => []SubstringExact
<1>1. TypeOK => SubstringExact
  BY CutsOfStrings DEF SubstringExact
<1> QED BY <1>1, StringTypesCorrect, PTL

-----------------------------------------------------------------------------
(* The cached count.                                                       *)

\* Adding the counts of two strings counts the pairs of the joined string.
LEMMA JoinExact ==
  ASSUME TypeOK, AllCachesExact, NEW o \in Strings, NEW p \in Strings, NEW q \in Strings,
         AtScanHead(str[p], Len(str[p]) + 1),
         Assign(o, str[p] \o str[q], Wrap(surrogate_pair_count[p] + surrogate_pair_count[q]))
  PROVE  AllCachesExact'
<1> DEFINE u == str[p] \o str[q]
<1>1. /\ str[p] \in Seq(char16_t) /\ str[q] \in Seq(char16_t) /\ u \in Seq(char16_t)
      /\ surrogate_pair_count[p] = count_surrogate_pair(str[p])
      /\ surrogate_pair_count[q] = count_surrogate_pair(str[q])
  BY StrTypes DEF AllCachesExact, CacheExact
<1>2. count_surrogate_pair(u) = surrogate_pair_count[p] + surrogate_pair_count[q]
  BY <1>1, ConcatCount
<1> HIDE DEF u
<1>3. Len(u) <= MaxSize
  BY DEF Assign, u
<1>4. Wrap(count_surrogate_pair(u)) = count_surrogate_pair(u)
  BY <1>1, <1>3, CountFits, WrapFits
<1>5. Assign(o, u, count_surrogate_pair(u))
  BY <1>2, <1>4 DEF u
<1> QED BY <1>5, AssignExact

LEMMA UnscannedExact ==
  ASSUME TypeOK, AllCachesExact, ~ StaleCause,
         NEW o \in Strings, NEW p \in Strings, Unscanned(o, p)
  PROVE  AllCachesExact'
<1>1. \A r \in Strings : /\ str[r] \in Seq(char16_t) /\ Len(str[r]) <= MaxSize
                         /\ surrogate_pair_count[r] = count_surrogate_pair(str[r])
  BY StrTypes DEF AllCachesExact, CacheExact
<1>2. CASE Copy(o, p)
  BY <1>1, <1>2, AssignExact DEF Copy
<1>3. CASE AppendString(o, p)
  <2>1. AtScanHead(str[o], Len(str[o]) + 1)
    BY <1>3 DEF StaleCause, EndsInSkip
  <2>2. Assign(o, str[o] \o str[p], Wrap(surrogate_pair_count[o] + surrogate_pair_count[p]))
    BY <1>3 DEF AppendString
  <2> QED BY <1>1, <2>1, <2>2, JoinExact
<1>4. CASE TrimStart(o, p)
  BY <1>1, <1>4, TrimStartCount, AssignExact DEF TrimStart
<1>5. CASE TrimEnd(o, p)
  BY <1>1, <1>5, TrimEndCount, AssignExact DEF TrimEnd
<1>6. CASE Trim(o, p)
  BY <1>1, <1>6, TrimCount, AssignExact DEF Trim
<1>7. CASE \E q \in Strings : Concat(o, p, q)
  <2>1. PICK q \in Strings : Concat(o, p, q)
    BY <1>7
  <2>2. AtScanHead(str[p], Len(str[p]) + 1)
    BY <2>1 DEF StaleCause, EndsInSkip
  <2>3. Assign(o, str[p] \o str[q], Wrap(surrogate_pair_count[p] + surrogate_pair_count[q]))
    BY <2>1 DEF Concat
  <2> QED BY <2>2, <2>3, JoinExact
<1>8. CASE \E from \in Counts, size \in Counts : Substring(o, p, from, size)
  <2>1. PICK from \in Counts, size \in Counts : Substring(o, p, from, size)
    BY <1>8
  <2>2. PICK t \in string_substring(str[p], surrogate_pair_count[p], from, size) :
          Assign(o, t.str, t.count)
    BY <2>1 DEF Substring
  <2>3. surrogate_pair_count[p] = 0 \/ Cuttable(p, from, size)
    BY <2>1 DEF StaleCause
  <2>4. from \in size_t /\ size \in size_t /\ surrogate_pair_count[p] \in size_t
    BY OStrAssumption, StrTypes
  <2>5. t.count = count_surrogate_pair(t.str)
    <3>1. CASE surrogate_pair_count[p] = 0
      BY <1>1, <2>2, <2>4, <3>1, SubstringValue
    <3>2. CASE Cuttable(p, from, size)
      BY <2>2, <3>2, CutsOfStrings
    <3> QED BY <2>3, <3>1, <3>2
  <2> QED BY <2>2, <2>5, AssignExact
<1> QED BY <1>2, <1>3, <1>4, <1>5, <1>6, <1>7, <1>8 DEF Unscanned

\* The string moved from is empty: its count has to be zero.
LEMMA MoveExact ==
  ASSUME TypeOK, AllCachesExact, NEW o \in Strings, NEW p \in Strings,
         Move(o, p), surrogate_pair_count[p] = 0
  PROVE  AllCachesExact'
<1>1. /\ o # p
      /\ str' = [str EXCEPT ![o] = str[p], ![p] = <<>>]
      /\ surrogate_pair_count' = [surrogate_pair_count EXCEPT ![o] = surrogate_pair_count[p]]
  BY DEF Move
<1>2. \A r \in Strings : surrogate_pair_count[r] = count_surrogate_pair(str[r])
  BY DEF AllCachesExact, CacheExact
<1>3. ASSUME NEW r \in Strings
      PROVE  surrogate_pair_count'[r] = count_surrogate_pair(str'[r])
  <2>1. CASE r = p
    BY <1>1, <2>1, EmptyCount DEF TypeOK
  <2>2. CASE r = o
    BY <1>1, <1>2, <2>2 DEF TypeOK
  <2>3. CASE r # o /\ r # p
    BY <1>1, <1>2, <2>3 DEF TypeOK
  <2> QED BY <2>1, <2>2, <2>3
<1> QED BY <1>3 DEF AllCachesExact, CacheExact

LEMMA CallExact ==
  ASSUME TypeOK, AllCachesExact, ~ StaleCause, CallNext
  PROVE  AllCachesExact'
<1>1. CASE \E o \in Strings, text \in Texts : Scanned(o, text) \/ DecodeFromUtf8(o, text)
  <2>1. PICK o \in Strings, text \in Texts : Scanned(o, text) \/ DecodeFromUtf8(o, text)
    BY <1>1
  <2>2. CASE Scanned(o, text)
    BY <2>2, ScannedValue, AssignExact
  <2>3. CASE DecodeFromUtf8(o, text)
    <3>1. /\ str[o] \in Seq(char16_t) /\ text \in Seq(char16_t)
          /\ surrogate_pair_count[o] = count_surrogate_pair(str[o])
      BY StrTypes, OStrAssumption DEF AllCachesExact, CacheExact
    <3>2. \A i \in 1 .. Len(text) : ~ is_trail_surrogate(text[i])
      BY <2>3 DEF StaleCause
    <3>3. surrogate_pair_count[o] = count_surrogate_pair(str[o] \o text)
      BY <3>1, <3>2, DecodeCount
    <3> QED BY <2>3, <3>3, AssignExact DEF DecodeFromUtf8
  <2> QED BY <2>1, <2>2, <2>3
<1>2. CASE \E o \in Strings, c \in Fills, count \in Counts : FromFill(o, c, count)
  BY <1>2, FromFillValue, AssignExact
<1>3. CASE \E o, p \in Strings : Unscanned(o, p) \/ Move(o, p)
  <2>1. PICK o \in Strings, p \in Strings : Unscanned(o, p) \/ Move(o, p)
    BY <1>3
  <2>2. CASE Move(o, p)
    <3>1. surrogate_pair_count[p] = 0
      BY <2>2 DEF StaleCause
    <3> QED BY <2>2, <3>1, MoveExact
  <2> QED BY <2>1, <2>2, UnscannedExact
<1> QED BY <1>1, <1>2, <1>3, CallCases

LEMMA ReturnExact ==
  ASSUME TypeOK, AllCachesExact, ReplaceReturn
  PROVE  AllCachesExact'
<1>1. \A r \in Strings : surrogate_pair_count[r] = count_surrogate_pair(str[r])
  BY DEF AllCachesExact, CacheExact
<1>2. ASSUME NEW r \in Strings
      PROVE  surrogate_pair_count'[r] = count_surrogate_pair(str'[r])
  BY <1>1 DEF ReplaceReturn, TypeOK
<1> QED BY <1>2 DEF AllCachesExact, CacheExact

\* Units without surrogates hold no pair.
LEMMA PlainCount ==
  ASSUME NEW s \in Seq(char16_t), BMP(s)
  PROVE  count_surrogate_pair(s) = 0
<1>1. CountedPairs(s) = {}
  BY DEF CountedPairs, PairAt, BMP
<1> QED BY <1>1, FS_EmptySet DEF count_surrogate_pair

LEMMA PartOfPlain ==
  ASSUME NEW s \in Seq(char16_t), BMP(s), NEW a \in Nat \ {0}, NEW b \in 0 .. Len(s)
  PROVE  LET t == SubSeq(s, a, b) IN t \in Seq(char16_t) /\ BMP(t)
<1> DEFINE t == SubSeq(s, a, b)
<1>1. CASE a <= b
  <2>1. /\ t \in Seq(char16_t) /\ Len(t) = b - a + 1
        /\ \A k \in 1 .. Len(t) : t[k] = s[a + k - 1] /\ a + k - 1 \in 1 .. Len(s)
    BY <1>1
  <2> HIDE DEF t
  <2>2. BMP(t)
    BY <2>1 DEF BMP
  <2> QED BY <2>1, <2>2 DEF t
<1>2. CASE ~ (a <= b)
  <2>1. t \in Seq(char16_t) /\ Len(t) = 0
    BY <1>2
  <2> HIDE DEF t
  <2>2. BMP(t)
    BY <2>1 DEF BMP
  <2> QED BY <2>1, <2>2 DEF t
<1> QED BY <1>1, <1>2

\* A text with neither surrogates nor a NUL.
Plain(s) == BMP(s) /\ HasNoNul(s)

\* Plain texts joined are a plain text.
LEMMA PlainJoin ==
  ASSUME NEW s \in Seq(char16_t), NEW t \in Seq(char16_t)
  PROVE  /\ Plain(s \o t) <=> Plain(s) /\ Plain(t)
         /\ BMP(s \o t) <=> BMP(s) /\ BMP(t)
         /\ HasNoNul(s \o t) <=> HasNoNul(s) /\ HasNoNul(t)
<1> DEFINE u == s \o t
<1>1. /\ u \in Seq(char16_t) /\ Len(u) = Len(s) + Len(t) /\ Len(s) \in Nat /\ Len(t) \in Nat
      /\ \A i \in 1 .. Len(s) : u[i] = s[i]
      /\ \A i \in 1 .. Len(t) : u[Len(s) + i] = t[i]
  OBVIOUS
<1> HIDE DEF u
<1>2. /\ 1 .. Len(u) = 1 .. (Len(s) + Len(t))
      /\ \A i \in 1 .. Len(u) : i <= Len(s) \/ i - Len(s) \in 1 .. Len(t)
      /\ \A i \in 1 .. Len(s) : i \in 1 .. Len(u)
      /\ \A i \in 1 .. Len(t) : Len(s) + i \in 1 .. Len(u)
  BY <1>1
<1>3. ASSUME NEW i \in 1 .. Len(u)
      PROVE  \/ i \in 1 .. Len(s) /\ u[i] = s[i]
             \/ i - Len(s) \in 1 .. Len(t) /\ u[i] = t[i - Len(s)]
  <2>1. CASE i <= Len(s)
    BY <1>1, <2>1
  <2>2. CASE ~ (i <= Len(s))
    <3>1. i - Len(s) \in 1 .. Len(t) /\ Len(s) + (i - Len(s)) = i
      BY <1>1, <1>2, <2>2
    <3> QED BY <1>1, <3>1
  <2> QED BY <2>1, <2>2
<1>4. BMP(u) <=> BMP(s) /\ BMP(t)
  BY <1>1, <1>2, <1>3 DEF BMP
<1>5. HasNoNul(u) <=> HasNoNul(s) /\ HasNoNul(t)
  BY <1>1, <1>2, <1>3 DEF HasNoNul
<1> QED BY <1>4, <1>5 DEF Plain, u

\* An iteration of replace_origin on units without surrogates: before and after
\* it there is no pair.
LEMMA IterationExact ==
  ASSUME TypeOK, AllCachesExact, ReplaceIteration, BMP(str[call.on] \o call.dest)
  PROVE  AllCachesExact'
<1> DEFINE s == str[call.on]
           last == call.index + Len(call.src)
<1>1. /\ call.on \in Strings /\ call.dest \in Seq(char16_t)
      /\ s \in Seq(char16_t)
      /\ \A r \in Strings : surrogate_pair_count[r] = count_surrogate_pair(str[r])
  BY ReplacingType, StrTypes DEF ReplaceIteration, Calls, AllCachesExact, CacheExact
<1>2. BMP(s) /\ BMP(call.dest)
  BY <1>1, PlainJoin
<1>3. PICK t \in Splice(s, call.index, last, call.dest) :
        str' = [str EXCEPT ![call.on] = t] /\ surrogate_pair_count' = surrogate_pair_count
  BY DEF ReplaceIteration
<1>4. PICK f \in 0 .. Len(s) :
        t = SubSeq(s, 1, f) \o call.dest
              \o SubSeq(s, 1 + (IF last \in f .. Len(s) THEN last ELSE Len(s)), Len(s))
  BY <1>3 DEF Splice
<1> DEFINE e == 1 + (IF last \in f .. Len(s) THEN last ELSE Len(s))
           before == SubSeq(s, 1, f)
           after == SubSeq(s, e, Len(s))
<1> HIDE DEF s, last
<1>5. e \in Nat \ {0} /\ Len(s) \in 0 .. Len(s) /\ 1 \in Nat \ {0}
  BY <1>1
<1> HIDE DEF e
<1>6. /\ before \in Seq(char16_t) /\ BMP(before)
      /\ after \in Seq(char16_t) /\ BMP(after)
  BY <1>1, <1>2, <1>5, PartOfPlain
<1>7. t = before \o call.dest \o after
  BY <1>4 DEF e
<1> HIDE DEF before, after
<1>8. before \o call.dest \in Seq(char16_t) /\ BMP(before \o call.dest)
  BY <1>1, <1>2, <1>6, PlainJoin
<1>9. t \in Seq(char16_t) /\ BMP(t)
  <2> DEFINE u == before \o call.dest
  <2>1. u \in Seq(char16_t) /\ BMP(u) /\ t = u \o after
    BY <1>7, <1>8
  <2> HIDE DEF u
  <2>2. BMP(u \o after)
    BY <1>6, <2>1, PlainJoin
  <2> QED BY <1>6, <2>1, <2>2
<1>10. count_surrogate_pair(t) = 0 /\ surrogate_pair_count[call.on] = 0
  BY <1>1, <1>2, <1>9, PlainCount DEF s
<1>11. ASSUME NEW r \in Strings
       PROVE  surrogate_pair_count'[r] = count_surrogate_pair(str'[r])
  BY <1>1, <1>3, <1>10 DEF TypeOK
<1> QED BY <1>11 DEF AllCachesExact, CacheExact

LEMMA StepExact ==
  ASSUME TypeOK, AllCachesExact, ~ StaleCause, [Next]_vars
  PROVE  AllCachesExact'
<1>1. CASE CallNext
  BY <1>1, CallExact
<1>2. CASE \E o \in Strings, src \in Patterns, dest \in Patterns, cs \in case_sensitivity :
             ReplaceStart(o, src, dest, cs)
  BY <1>2 DEF ReplaceStart, AllCachesExact, CacheExact
<1>3. CASE ReplaceLoop
  <2>1. CASE ReplaceThrows
    BY <2>1 DEF ReplaceThrows, AllCachesExact, CacheExact
  <2>2. CASE ReplaceIteration
    <3>1. BMP(str[call.on] \o call.dest)
      BY <2>2 DEF StaleCause
    <3> QED BY <2>2, <3>1, IterationExact
  <2> QED BY <1>3, <2>1, <2>2, ReturnExact DEF ReplaceLoop
<1>4. CASE UNCHANGED vars
  BY <1>4 DEF vars, AllCachesExact, CacheExact
<1> QED BY <1>1, <1>2, <1>3, <1>4 DEF Next

\* While the cached count of every string is the number of its pairs, only
\* the steps that StaleCause lists make one wrong: trimming (ostr.cpp:112-132)
\* and filling (ostr.h:60) need no scan, operator+= and operator+
\* (ostr.cpp:12-24) add the counts rightly unless the left string ends in an
\* unpaired lead surrogate, substring (ostr.cpp:26-44) goes wrong only on a
\* string with pairs that is not Cuttable, and a replace_origin left by an
\* exception (ostr.cpp:91-104) only if surrogates took part.
THEOREM CacheMaintained == Spec => CacheStaysExact
<1>1. TypeOK /\ [Next]_vars => [AllCachesExact /\ ~ AllCachesExact' => StaleCause]_vars
  BY StepExact
<1> QED BY <1>1, StringTypesCorrect, PTL DEF Spec, CacheStaysExact

-----------------------------------------------------------------------------
(* replace_origin(src, dest, cs).                                          *)

\* Walking n code points takes n units or more, unless the string ends before.
LEMMA WalkCovers ==
  ASSUME NEW s \in Seq(char16_t), NEW n \in Nat
  PROVE  \/ n <= codepoint_count_to_iterator(s, n)
         \/ codepoint_count_to_iterator(s, n) >= Len(s)
<1> DEFINE exact == {q \in 0 .. Len(s) : Cost(s, q) = n /\ AtScanHead(s, q + 1)}
           p == codepoint_count_to_iterator(s, n)
<1>1. p = IF exact # {} THEN CHOOSE q \in exact : TRUE
          ELSE IF AtScanHead(s, Len(s) + 1) THEN Len(s) ELSE PastEnd(s)
  BY DEF codepoint_count_to_iterator, Cost, CountedUpTo
<1>2. \A q \in exact : n <= q
  BY CostType
<1>3. Len(s) \in Nat /\ PastEnd(s) >= Len(s)
  BY DEF PastEnd
<1> HIDE DEF exact, p
<1>4. exact # {} => n <= p
  <2>1. exact # {} => p \in exact
    BY <1>1
  <2> QED BY <1>2, <2>1
<1>5. exact = {} => p >= Len(s)
  <2>1. exact = {} => p = Len(s) \/ p = PastEnd(s)
    BY <1>1
  <2> QED BY <1>3, <2>1
<1> QED BY <1>4, <1>5 DEF p

\* What index_of finds begins, in code points, no later than an offset from
\* which the units of the pattern fit.
LEMMA IndexFits ==
  ASSUME NEW s \in Seq(char16_t), NEW pattern \in Seq(char16_t), NEW cs
  PROVE  \/ index_of(s, pattern, cs) = SIZE_MAX
         \/ /\ index_of(s, pattern, cs) \in Nat
            /\ index_of(s, pattern, cs) + Len(pattern) <= Len(s)
<1> DEFINE found == Occurrences(s, pattern, cs)
<1>1. Len(s) \in Nat /\ Len(pattern) \in Nat /\ found \in SUBSET Nat
      /\ \A i \in found : i \in 0 .. Len(s) /\ i + Len(pattern) <= Len(s)
  BY DEF Occurrences
<1> HIDE DEF found
<1>2. SUFFICES ASSUME found \notin {{}, {Len(s)}}
               PROVE  /\ index_of(s, pattern, cs) \in Nat
                      /\ index_of(s, pattern, cs) + Len(pattern) <= Len(s)
  BY DEF index_of, found
<1> DEFINE i == Min(found)
           u == SubSeq(s, 1, i)
           c == count_surrogate_pair(u)
<1>3. i \in found
  BY <1>1, <1>2, MinOfNat
<1>4. index_of(s, pattern, cs) = i - c
  BY <1>2 DEF index_of, found, position_index_to_codepoint
<1> HIDE DEF i
<1>5. u \in Seq(char16_t) /\ Len(u) = i
  BY <1>1, <1>3
<1> HIDE DEF u
<1>6. c \in Nat /\ c <= i
  BY <1>5, CountType
<1> HIDE DEF c
<1>7. i - c \in Nat /\ i - c + Len(pattern) <= Len(s)
  BY <1>1, <1>3, <1>6
<1> QED BY <1>4, <1>7

\* So does what string::index_of finds from a position of the string on.
LEMMA StringIndexFits ==
  ASSUME NEW s \in Seq(char16_t), Len(s) <= MaxSize, NEW pattern \in Seq(char16_t),
         pattern # <<>>, NEW from \in size_t, NEW cs,
         NEW i \in string_index_of(s, pattern, from, SIZE_MAX, cs)
  PROVE  i = SIZE_MAX \/ i + Len(pattern) <= Len(s)
<1> DEFINE sv == to_sv(s)
           p == codepoint_count_to_iterator(sv, from)
           q == codepoint_count_to_iterator(sv, Wrap(from + Least(SIZE_MAX, Wrap(Len(sv) - from))))
           n == Wrap(q - p)
<1>1. sv \in Seq(char16_t) /\ Len(sv) <= Len(s)
  BY CStrType DEF to_sv
<1>2. from \in Nat /\ SIZE_MAX \in Nat /\ MaxSize \in Nat /\ MaxSize <= SIZE_MAX
  BY SizeIsNat, SizeMaxAssumption, OStrAssumption
<1>3. PICK t \in substring(sv, from, SIZE_MAX) :
        i = IF index_of(t, pattern, cs) = SIZE_MAX THEN SIZE_MAX
            ELSE Wrap(index_of(t, pattern, cs) + from)
  <2>1. UNION {substring(r, from, SIZE_MAX) : r \in {to_sv(s)}} = substring(sv, from, SIZE_MAX)
    BY Zenon
  <2> QED BY <2>1 DEF string_index_of
<1>4. substring(sv, from, SIZE_MAX) = substr(sv, p, n)
  BY DEF substring, convert_codepoint_into_index
<1> HIDE DEF sv
<1>5. p \in Int /\ q \in Int
  BY <1>1, WalkType
<1>6. from <= p \/ p >= Len(sv)
  BY <1>1, <1>2, WalkCovers
<1> HIDE DEF p, q
<1>7. n \in Nat
  BY <1>5, WrapType
<1> HIDE DEF n
<1>8. p \in 0 .. Len(sv) /\ t = SubSeq(sv, p + 1, p + Least(n, Len(sv) - p))
  BY <1>3, <1>4 DEF substr
<1>9. /\ Len(sv) \in Nat /\ Len(s) \in Nat /\ Len(pattern) \in Nat \ {0}
      /\ Least(n, Len(sv) - p) \in 0 .. (Len(sv) - p)
  BY <1>1, <1>7, <1>8 DEF Least
<1> DEFINE l == Least(n, Len(sv) - p)
<1> HIDE DEF l
<1>10. l \in 0 .. (Len(sv) - p) /\ t = SubSeq(sv, p + 1, p + l)
  BY <1>8, <1>9 DEF l
<1>11. t \in Seq(char16_t) /\ Len(t) = l
  <2>1. p + 1 \in 1 .. (Len(sv) + 1) /\ p + l \in p .. Len(sv) /\ p \in 0 .. Len(sv)
    BY <1>8, <1>9, <1>10
  <2> QED BY <1>1, <1>10, <2>1
<1> DEFINE j == index_of(t, pattern, cs)
<1>12. j = SIZE_MAX \/ (j \in Nat /\ j + Len(pattern) <= l)
  BY <1>11, IndexFits
<1> HIDE DEF j
<1>13. CASE j = SIZE_MAX
  BY <1>3, <1>13 DEF j
<1>14. CASE j # SIZE_MAX
  <2>1. p + l <= Len(s) /\ j \in Nat /\ j + Len(pattern) <= l /\ p < Len(sv)
    BY <1>1, <1>8, <1>9, <1>10, <1>12, <1>14
  <2>2. from <= p
    BY <1>6, <1>8, <1>9, <2>1
  <2>3. j + from + Len(pattern) <= Len(s) /\ j + from \in Nat /\ j + from <= SIZE_MAX
    BY <1>2, <1>8, <1>9, <1>10, <2>1, <2>2
  <2>4. Wrap(j + from) = j + from
    BY <2>3, WrapFits DEF size_t
  <2>5. i = Wrap(j + from)
    BY <1>3, <1>14 DEF j
  <2> QED BY <2>3, <2>4, <2>5
<1> QED BY <1>13, <1>14

\* What holds of the index wherever the loop of replace_origin stands.
IndexInv ==
  Replacing => /\ call.src # <<>>
               /\ call.index = SIZE_MAX \/ call.index + Len(call.src) <= Len(str[call.on])

LEMMA NextIndexFits ==
  ASSUME NEW c \in Calls, c.src # <<>>, NEW s \in Seq(char16_t), Len(s) <= MaxSize,
         NEW from \in size_t, NEW d \in NextIndex(c, s, from), d.status = "replacing"
  PROVE  /\ d \in Calls /\ d.on = c.on /\ d.src = c.src
         /\ d.index = SIZE_MAX \/ d.index + Len(d.src) <= Len(s)
<1> DEFINE found == string_index_of(s, c.src, from, SIZE_MAX, c.cs)
<1>1. c.src \in Seq(char16_t)
  BY DEF Calls
<1>2. \A i \in found : i \in size_t /\ (i = SIZE_MAX \/ i + Len(c.src) <= Len(s))
  BY <1>1, SizeIsNat, StringIndexType, StringIndexFits
<1>3. NextIndex(c, s, from) =
        IF found = {} THEN {Terminated} ELSE {[c EXCEPT !.index = i] : i \in found}
  BY Zenon DEF NextIndex
<1> HIDE DEF found
<1>4. d # Terminated
  BY DEF Terminated
<1>5. PICK i \in found : d = [c EXCEPT !.index = i]
  BY <1>3, <1>4
<1> QED BY <1>2, <1>5 DEF Calls

LEMMA StartIndex ==
  ASSUME NEW o \in Strings, NEW s \in Seq(char16_t), Len(s) <= MaxSize,
         NEW src \in Patterns, src # <<>>, NEW dest \in Patterns, NEW cs \in case_sensitivity,
         NEW d \in ReplaceCalls(o, s, src, dest, cs), d.status = "replacing"
  PROVE  /\ d.on = o /\ d.src = src
         /\ d.index = SIZE_MAX \/ d.index + Len(src) <= Len(s)
<1> DEFINE c == [status |-> "replacing", on |-> o, src |-> src, dest |-> dest, cs |-> cs,
                 text |-> s, len |-> Len(s), index |-> 0]
<1>1. Len(s) \in 0 .. MaxSize /\ src \in Seq(char16_t) /\ dest \in Seq(char16_t)
  BY OStrAssumption
<1>2. c \in Calls /\ c.src = src /\ c.on = o
  BY <1>1, SizeIsNat DEF Calls
<1>3. d \in NextIndex(c, s, 0)
  BY DEF ReplaceCalls
<1> HIDE DEF c
<1>4. /\ d.on = c.on /\ d.src = c.src
      /\ d.index = SIZE_MAX \/ d.index + Len(d.src) <= Len(s)
  BY <1>2, <1>3, SizeIsNat, NextIndexFits
<1> QED BY <1>2, <1>4

LEMMA IndexStep == TypeOK /\ IndexInv /\ [Next]_vars => IndexInv'
<1> SUFFICES ASSUME TypeOK, IndexInv, [Next]_vars, Replacing'
             PROVE  /\ call'.src # <<>>
                    /\ call'.index = SIZE_MAX \/ call'.index + Len(call'.src) <= Len(str'[call'.on])
  BY DEF IndexInv
<1>1. call' # NoCall
  BY DEF Replacing, NoCall
<1>2. CASE CallNext
  <2>1. call' = NoCall
    BY <1>2 DEF CallNext, FromCStr, FromUnits, DecodeFromUtf8, FromBytes, ReplaceRange, FromFill,
                Copy, Move, AppendString, TrimStart, TrimEnd, Trim, Concat, Substring, Assign
  <2> QED BY <1>1, <2>1
<1>3. CASE \E o \in Strings, src \in Patterns, dest \in Patterns, cs \in case_sensitivity :
             ReplaceStart(o, src, dest, cs)
  <2>1. PICK o \in Strings, src \in Patterns, dest \in Patterns, cs \in case_sensitivity :
          ReplaceStart(o, src, dest, cs)
    BY <1>3
  <2>2. src # <<>> /\ call' \in ReplaceCalls(o, str[o], src, dest, cs) /\ str' = str
    BY <2>1 DEF ReplaceStart
  <2>3. /\ call'.on = o /\ call'.src = src
        /\ call'.index = SIZE_MAX \/ call'.index + Len(src) <= Len(str[o])
    BY <2>2, StrTypes, StartIndex DEF Replacing
  <2> QED BY <2>2, <2>3
<1>4. CASE ReplaceIteration
  <2>1. call \in Calls /\ call.src # <<>>
    BY <1>4, ReplacingType DEF ReplaceIteration, IndexInv
  <2> DEFINE o == call.on
  <2>2. o \in Strings /\ call.dest \in Seq(char16_t) /\ call.index \in Nat
    BY <2>1, SizeIsNat DEF Calls
  <2>3. PICK t \in Splice(str[o], call.index, call.index + Len(call.src), call.dest) :
          /\ Len(t) <= MaxSize
          /\ str' = [str EXCEPT ![o] = t]
          /\ call' \in NextIndex(call, t, Wrap(call.index + Len(call.dest)))
    BY <1>4 DEF ReplaceIteration
  <2>4. t \in Seq(char16_t)
    BY <2>2, StrTypes, SpliceType
  <2>5. Wrap(call.index + Len(call.dest)) \in size_t
    <3>1. call.index + Len(call.dest) \in Int
      BY <2>2
    <3> QED BY <3>1, WrapType
  <2>6. /\ call'.on = o /\ call'.src = call.src
        /\ call'.index = SIZE_MAX \/ call'.index + Len(call'.src) <= Len(t)
    BY <2>1, <2>3, <2>4, <2>5, NextIndexFits DEF Replacing
  <2>7. str'[o] = t
    BY <2>2, <2>3 DEF TypeOK
  <2> QED BY <2>1, <2>6, <2>7
<1>5. CASE ReplaceReturn \/ ReplaceThrows
  BY <1>1, <1>5 DEF ReplaceReturn, ReplaceThrows
<1>6. CASE UNCHANGED vars
  BY <1>6 DEF vars, IndexInv, Replacing
<1> QED BY <1>2, <1>3, <1>4, <1>5, <1>6 DEF Next, ReplaceLoop

LEMMA IndexInside == TypeOK /\ IndexInv => SpliceInRange
<1> SUFFICES ASSUME TypeOK, IndexInv, Replacing, call.index < call.len
             PROVE  call.index + Len(call.src) <= Len(str[call.on])
  BY DEF SpliceInRange
<1>1. call.index \in Nat /\ call.len \in 0 .. MaxSize
  BY ReplacingType, SizeIsNat DEF Calls
<1>2. call.index # SIZE_MAX
  BY <1>1, OStrAssumption, SizeMaxAssumption
<1> QED BY <1>2 DEF IndexInv

\* An iteration of replace_origin (ostr.cpp:101-105) cuts inside the string,
\* though the position it cuts at is a number of code points: in a program
\* that calls the methods in any order ...
THEOREM IterationsCutInside == Spec => []SpliceInRange
<1>1. Init => IndexInv
  BY DEF Init, IndexInv, Replacing, NoCall
<1>2. TypeOK /\ IndexInv /\ [Next]_vars => IndexInv'
  BY IndexStep
<1> QED BY <1>1, <1>2, IndexInside, StringTypesCorrect, PTL DEF Spec

LEMMA ReplaceInitTypes == ReplaceInit => TypeOK /\ IndexInv
<1> SUFFICES ASSUME ReplaceInit PROVE TypeOK /\ IndexInv
  OBVIOUS
<1>1. /\ str \in [Strings -> Seq(char16_t)] /\ \A o \in Strings : Len(str[o]) <= MaxSize
  BY OStrAssumption DEF ReplaceInit
<1>2. surrogate_pair_count \in [Strings -> size_t]
  BY <1>1, CountFits DEF ReplaceInit
<1>3. PICK o \in Strings, src \in Patterns \ {<<>>}, dest \in Patterns, cs \in case_sensitivity :
        call \in ReplaceCalls(o, str[o], src, dest, cs)
  BY DEF ReplaceInit
<1>4. call \in {Terminated} \cup Calls
  BY <1>1, <1>3, ReplaceCallsType
<1>5. TypeOK
  BY <1>1, <1>2, <1>4 DEF TypeOK, Calls
<1>6. IndexInv
  BY <1>1, <1>3, StartIndex DEF IndexInv, Replacing
<1> QED BY <1>5, <1>6

\* ... and in one call of replace_origin on any string.
THEOREM OneCallCutsInside == ReplaceSpec => []SpliceInRange
<1>1. TypeOK /\ IndexInv /\ [ReplaceLoop]_vars => (TypeOK /\ IndexInv)'
  BY StepTypes, IndexStep DEF Next
<1> QED BY <1>1, ReplaceInitTypes, IndexInside, PTL DEF ReplaceSpec

-----------------------------------------------------------------------------
(* replace_origin(from, count, dest).                                      *)

\* std::u16string::replace between two offsets inside the string.
LEMMA SpliceInside ==
  ASSUME NEW s \in Seq(char16_t), NEW dest \in Seq(char16_t), NEW first \in 0 .. Len(s), NEW last
  PROVE  Splice(s, first, last, dest) =
           {SubSeq(s, 1, first) \o dest
              \o SubSeq(s, 1 + (IF last \in first .. Len(s) THEN last ELSE Len(s)), Len(s))}
BY DEF Splice

\* Where the second end of the range is cut: as many code points on, or at the
\* end of the string.
LEMMA RangeEnd ==
  ASSUME NEW s \in Seq(char16_t), WellFormed(s), Len(s) <= SIZE_MAX,
         NEW from \in size_t, NEW count \in size_t
  PROVE  LET first == codepoint_count_to_iterator(s, from)
             last  == codepoint_count_to_iterator(s, Wrap(from + count))
             cut   == IF last \in first .. Len(s) THEN last ELSE Len(s)
         IN  /\ cut \in first .. Len(s) /\ AtScanHead(s, cut + 1)
             /\ \/ Cardinality(StartsUpTo(s, cut)) = from + count
                \/ cut = Len(s) /\ from + count >= CodePointCount(s)
<1> DEFINE first == codepoint_count_to_iterator(s, from)
           back  == Wrap(from + count)
           last  == codepoint_count_to_iterator(s, back)
           cut   == IF last \in first .. Len(s) THEN last ELSE Len(s)
<1>1. /\ SIZE_MAX \in Nat /\ from \in Nat /\ count \in Nat /\ from <= SIZE_MAX /\ count <= SIZE_MAX
      /\ from + count \in Int
  BY SizeMaxAssumption DEF size_t
<1>2. CodePointCount(s) \in Nat /\ CodePointCount(s) <= Len(s) /\ Len(s) \in Nat
  BY CodePointNumbers
<1>3. back \in Nat /\ back = IF from + count <= SIZE_MAX THEN from + count
                             ELSE from + count - SIZE_MAX - 1
  <2>1. back \in Nat
    BY <1>1, WrapType
  <2>2. CASE from + count <= SIZE_MAX
    <3>1. from + count \in size_t
      BY <1>1, <2>2 DEF size_t
    <3> QED BY <2>1, <2>2, <3>1, WrapFits
  <2>3. CASE ~ (from + count <= SIZE_MAX)
    <3> DEFINE x == from + count - SIZE_MAX - 1
    <3>1. x \in 0 .. SIZE_MAX /\ from + count = x + (SIZE_MAX + 1) /\ SIZE_MAX + 1 \in Nat \ {0}
      BY <1>1, <2>3
    <3> HIDE DEF x
    <3>2. (x + (SIZE_MAX + 1)) % (SIZE_MAX + 1) = x
      BY <1>1, <3>1
    <3>3. back = x
      BY <3>1, <3>2 DEF Wrap
    <3> QED BY <2>1, <2>3, <3>3 DEF x
  <2> QED BY <2>2, <2>3
<1> HIDE DEF back
<1>4. /\ first \in 0 .. Len(s) /\ AtScanHead(s, first + 1)
      /\ \/ from <= CodePointCount(s) /\ Cardinality(StartsUpTo(s, first)) = from
         \/ from > CodePointCount(s) /\ first = Len(s)
  BY <1>1, WalkForward
<1>5. /\ last \in 0 .. Len(s) /\ AtScanHead(s, last + 1)
      /\ \/ back <= CodePointCount(s) /\ Cardinality(StartsUpTo(s, last)) = back
         \/ back > CodePointCount(s) /\ last = Len(s)
  BY <1>3, WalkForward
<1>6. /\ AtScanHead(s, Len(s) + 1)
      /\ Cardinality(StartsUpTo(s, Len(s))) = CodePointCount(s)
  BY HeadAtEnd, StartsFromZero
<1>7. CASE from + count <= SIZE_MAX
  <2>1. back = from + count /\ from <= back
    BY <1>1, <1>3, <1>7
  <2>2. first <= last
    BY <1>1, <1>3, <2>1, WalkGrows
  <2> HIDE DEF first, last
  <2>3. cut = last /\ last \in first .. Len(s)
    BY <1>4, <1>5, <2>2
  <2>4. \/ Cardinality(StartsUpTo(s, last)) = from + count
        \/ last = Len(s) /\ from + count >= CodePointCount(s)
    BY <1>1, <1>2, <1>5, <2>1
  <2> HIDE DEF cut
  <2>5. /\ cut \in first .. Len(s) /\ AtScanHead(s, cut + 1)
        /\ \/ Cardinality(StartsUpTo(s, cut)) = from + count
           \/ cut = Len(s) /\ from + count >= CodePointCount(s)
    BY <1>5, <2>3, <2>4
  <2> QED BY <2>5 DEF cut, first, last, back
<1>8. CASE from + count > SIZE_MAX
  <2>1. back < from /\ from + count >= CodePointCount(s)
    BY <1>1, <1>2, <1>3, <1>8
  <2>2. last < first \/ last = Len(s)
    <3>1. CASE first = Len(s)
      <4> HIDE DEF first, last
      <4> QED BY <1>2, <1>5, <3>1
    <3>2. CASE first # Len(s)
      <4>1. from <= CodePointCount(s) /\ Cardinality(StartsUpTo(s, first)) = from
        BY <1>4, <3>2
      <4>2. back <= CodePointCount(s) /\ Cardinality(StartsUpTo(s, last)) = back
        <5> HIDE DEF last
        <5> QED BY <1>1, <1>2, <1>3, <1>5, <2>1, <4>1
      <4> HIDE DEF first, last
      <4>3. last < first <=> Cardinality(StartsUpTo(s, last)) < Cardinality(StartsUpTo(s, first))
        BY <1>4, <1>5, StartsTell
      <4> QED BY <2>1, <4>1, <4>2, <4>3
    <3> QED BY <3>1, <3>2
  <2> HIDE DEF first, last
  <2>3. cut = Len(s)
    BY <1>2, <1>4, <1>5, <2>2
  <2> HIDE DEF cut
  <2>4. cut \in first .. Len(s)
    BY <1>2, <1>4, <2>3
  <2>5. /\ cut \in first .. Len(s) /\ AtScanHead(s, cut + 1)
        /\ \/ Cardinality(StartsUpTo(s, cut)) = from + count
           \/ cut = Len(s) /\ from + count >= CodePointCount(s)
    BY <1>6, <2>1, <2>3, <2>4
  <2> QED BY <2>5 DEF cut, first, last, back
<1> QED BY <1>1, <1>7, <1>8

\* The units before and after the range are well-formed, and dest stands between
\* them.
RangeReplaced(s, from, count, dest) ==
  LET before == CodePoints(s, 0, from)
      after  == CodePoints(s, from + count, Len(s))
  IN  /\ replace_range(s, from, count, dest) = {before \o dest \o after}
      /\ before \in Seq(char16_t) /\ WellFormed(before)
      /\ after \in Seq(char16_t) /\ WellFormed(after)

LEMMA ReplacesRange ==
  ASSUME NEW s \in Seq(char16_t), WellFormed(s), Len(s) <= SIZE_MAX,
         NEW dest \in Seq(char16_t), NEW from \in size_t, NEW count \in size_t
  PROVE  RangeReplaced(s, from, count, dest)
<1> DEFINE first == codepoint_count_to_iterator(s, from)
           last  == codepoint_count_to_iterator(s, Wrap(from + count))
           cut   == IF last \in first .. Len(s) THEN last ELSE Len(s)
<1>1. from \in Nat /\ from + count \in Nat /\ Len(s) \in Nat
  BY SizeMaxAssumption DEF size_t
<1>2. /\ first \in 0 .. Len(s) /\ AtScanHead(s, first + 1)
      /\ \/ Cardinality(StartsUpTo(s, first)) = from
         \/ first = Len(s) /\ from >= CodePointCount(s)
  BY <1>1, WalkStops
<1>3. /\ cut \in first .. Len(s) /\ AtScanHead(s, cut + 1)
      /\ \/ Cardinality(StartsUpTo(s, cut)) = from + count
         \/ cut = Len(s) /\ from + count >= CodePointCount(s)
  BY RangeEnd
<1>4. Splice(s, first, last, dest) =
        {SubSeq(s, 1, first) \o dest \o SubSeq(s, 1 + cut, Len(s))}
  <2> HIDE DEF first, last
  <2> QED BY <1>2, SpliceInside
<1>5. replace_range(s, from, count, dest) = Splice(s, first, last, dest)
  BY DEF replace_range
<1> HIDE DEF first, last, cut
<1>6. /\ 0 \in 0 .. Len(s) /\ AtScanHead(s, 0 + 1) /\ Cardinality(StartsUpTo(s, 0)) = 0
      /\ Len(s) \in 0 .. Len(s) /\ AtScanHead(s, Len(s) + 1)
      /\ Cardinality(StartsUpTo(s, Len(s))) = CodePointCount(s)
      /\ CodePointCount(s) <= Len(s)
      /\ first \in 0 .. Len(s) /\ cut \in 0 .. Len(s) /\ Len(s) \in cut .. Len(s)
      /\ 1 + cut = cut + 1 /\ 0 + 1 = 1
  BY <1>1, <1>2, <1>3, HeadAtStart, HeadAtEnd, StartsFromZero, CodePointNumbers
<1>7. SubSeq(s, 0 + 1, first) = CodePoints(s, 0, from)
  <2>1. 0 \in Nat
    OBVIOUS
  <2> QED BY <1>1, <1>2, <1>6, <2>1, CutBetween
<1>8. SubSeq(s, cut + 1, Len(s)) = CodePoints(s, from + count, Len(s))
  BY <1>1, <1>3, <1>6, CutBetween
<1>9. /\ SubSeq(s, 0 + 1, first) \in Seq(char16_t) /\ WellFormed(SubSeq(s, 0 + 1, first))
  BY <1>2, <1>6, CutWellFormed
<1>10. /\ SubSeq(s, cut + 1, Len(s)) \in Seq(char16_t) /\ WellFormed(SubSeq(s, cut + 1, Len(s)))
  BY <1>3, <1>6, CutWellFormed
<1> QED BY <1>4, <1>5, <1>6, <1>7, <1>8, <1>9, <1>10 DEF RangeReplaced

\* Replacing a range of code points of well-formed UTF-16 leaves those before
\* and after it as they were, whatever the positions (ostr.cpp:75-85).
THEOREM RangesReplaced == Spec => []ReplaceRangeExact
<1>1. TypeOK => ReplaceRangeExact
  <2> SUFFICES ASSUME TypeOK, NEW o \in Strings, NEW dest \in Texts,
                      NEW from \in Counts, NEW count \in Counts, WellFormed(str[o])
               PROVE  replace_range(str[o], from, count, dest) =
                        {CodePoints(str[o], 0, from) \o dest
                           \o CodePoints(str[o], from + count, Len(str[o]))}
    BY DEF ReplaceRangeExact
  <2>1. str[o] \in Seq(char16_t) /\ Len(str[o]) <= MaxSize /\ dest \in Seq(char16_t)
    BY StrTypes, OStrAssumption
  <2>2. from \in size_t /\ count \in size_t
    BY OStrAssumption
  <2>3. Len(str[o]) <= SIZE_MAX
    BY <2>1, OStrAssumption, SizeMaxAssumption
  <2>4. RangeReplaced(str[o], from, count, dest)
    BY <2>1, <2>2, <2>3, ReplacesRange
  <2> QED BY <2>4 DEF RangeReplaced
<1> QED BY <1>1, StringTypesCorrect, PTL

-----------------------------------------------------------------------------
(* Well-formed strings.                                                    *)

LEMMA AssignWellFormed ==
  ASSUME TypeOK, AllWellFormed, NEW o \in Strings, NEW s, NEW n,
         Assign(o, s, n), WellFormed(s)
  PROVE  AllWellFormed'
<1>1. str' = [str EXCEPT ![o] = s]
  BY DEF Assign
<1>2. ASSUME NEW p \in Strings PROVE WellFormed(str'[p])
  BY <1>1 DEF TypeOK, AllWellFormed
<1> QED BY <1>2 DEF AllWellFormed

\* Units without surrogates are well-formed, and so is a part of them.
LEMMA PlainWellFormed ==
  ASSUME NEW s, BMP(s)
  PROVE  WellFormed(s)
BY DEF BMP, WellFormed

LEMMA PlainWithoutPairs ==
  ASSUME NEW s \in Seq(char16_t), WellFormed(s), Pairs(s) = {}
  PROVE  BMP(s)
<1> SUFFICES ASSUME NEW i \in 1 .. Len(s), is_lead_surrogate(s[i]) \/ is_trail_surrogate(s[i])
             PROVE  FALSE
  BY DEF BMP
<1>1. PairAt(s, i) \/ PairAt(s, i - 1)
  BY DEF WellFormed
<1>2. \A k : PairAt(s, k) => k \in Pairs(s)
  BY DEF Pairs, PairAt
<1> QED BY <1>1, <1>2

\* What is read up to a NUL of well-formed UTF-16 is well-formed.
LEMMA CStrWellFormed ==
  ASSUME NEW s \in Seq(char16_t), WellFormed(s)
  PROVE  WellFormed(CStr(s))
<1> DEFINE ends == {i \in 1 .. Len(s) : s[i] = NUL} \cup {Len(s) + 1}
           m == Min(ends)
           b == m - 1
<1>1. ends \subseteq 1 .. (Len(s) + 1) /\ ends # {} /\ Len(s) \in Nat
  OBVIOUS
<1>2. m \in ends
  <2>1. ends \in SUBSET Nat
    BY <1>1
  <2> HIDE DEF ends
  <2> QED BY <1>1, <2>1, MinOfNat
<1>3. m \in 1 .. (Len(s) + 1) /\ (m \in 1 .. Len(s) => s[m] = NUL)
  <2> HIDE DEF m
  <2> QED BY <1>1, <1>2
<1> HIDE DEF ends, m
<1>4. b \in 0 .. Len(s) /\ 0 \in 0 .. Len(s) /\ b + 1 = m /\ 0 + 1 = 1
  BY <1>1, <1>3
<1> HIDE DEF b
<1>5. AtScanHead(s, m)
  <2> SUFFICES ASSUME m > 1, PairAt(s, m - 1) PROVE FALSE
    BY <1>3, HeadIffStart
  <2>1. m \in 1 .. Len(s) /\ is_trail_surrogate(s[m])
    BY <1>1, <1>3 DEF PairAt
  <2> QED BY <1>3, <2>1 DEF NUL, is_trail_surrogate, TRAIL_SURROGATE_MIN
<1>6. AtScanHead(s, 0 + 1) /\ AtScanHead(s, b + 1) /\ b \in 0 .. Len(s)
  BY <1>4, <1>5, HeadAtStart
<1>7. WellFormed(SubSeq(s, 0 + 1, b))
  BY <1>4, <1>6, CutWellFormed
<1> QED BY <1>4, <1>7 DEF CStr, m, b, ends

\* Nor do spaces at the ends hold half of a pair.
LEMMA TrimStartWellFormed ==
  ASSUME NEW s \in Seq(char16_t), WellFormed(s), NEW t \in trim_start(s)
  PROVE  WellFormed(t)
<1>1. PICK n \in LeadingSpaces(s) : t = SubSeq(s, n + 1, Len(s))
  BY DEF trim_start
<1>2. n \in 0 .. Len(s) /\ Len(s) \in Nat /\ \A i \in 1 .. n : s[i] = SPACE
  BY <1>1 DEF LeadingSpaces
<1>3. AtScanHead(s, n + 1)
  <2>1. CASE n = 0
    BY <2>1, HeadAtStart
  <2>2. CASE n # 0
    <3>1. n \in Nat \ {0} /\ ~ is_lead_surrogate(s[n])
      BY <1>2, <2>2, SpaceIsNoSurrogate
    <3> QED BY <3>1, HeadAfterOther
  <2> QED BY <2>1, <2>2
<1>4. AtScanHead(s, Len(s) + 1) /\ Len(s) \in n .. Len(s)
  BY <1>2, HeadAtEnd
<1> QED BY <1>1, <1>2, <1>3, <1>4, CutWellFormed

LEMMA TrimEndWellFormed ==
  ASSUME NEW s \in Seq(char16_t), WellFormed(s), NEW t \in trim_end(s)
  PROVE  WellFormed(t)
<1>1. PICK n \in TrailingSpaces(s) : t = SubSeq(s, 1, Len(s) - n)
  BY DEF trim_end
<1>2. /\ n \in 0 .. Len(s) /\ Len(s) \in Nat
      /\ \A i \in (Len(s) - n + 1) .. Len(s) : s[i] = SPACE
  BY <1>1 DEF TrailingSpaces
<1> DEFINE b == Len(s) - n
<1>3. b \in 0 .. Len(s) /\ 0 \in 0 .. Len(s) /\ 0 + 1 = 1 /\ b + 1 \in 1 .. (Len(s) + 1)
      /\ b + 1 - 1 = b
  BY <1>2
<1>4. AtScanHead(s, b + 1)
  <2> SUFFICES ASSUME b + 1 > 1, PairAt(s, b) PROVE FALSE
    BY <1>3, HeadIffStart
  <2>1. b + 1 \in (Len(s) - n + 1) .. Len(s) /\ is_trail_surrogate(s[b + 1])
    BY <1>2, <1>3 DEF PairAt
  <2> QED BY <1>2, <2>1, SpaceIsNoSurrogate
<1> HIDE DEF b
<1>5. WellFormed(SubSeq(s, 0 + 1, b))
  BY <1>3, <1>4, HeadAtStart, CutWellFormed
<1> QED BY <1>1, <1>3, <1>5 DEF b

LEMMA SubstringPlain ==
  ASSUME NEW s \in Seq(char16_t), BMP(s), NEW n \in size_t, NEW from \in size_t,
         NEW size \in size_t, NEW t \in string_substring(s, n, from, size)
  PROVE  WellFormed(t.str)
<1>1. ASSUME NEW pos, NEW k \in Nat, NEW r \in substr(s, pos, k)
      PROVE  WellFormed(r)
  <2>1. PICK p \in 0 .. Len(s) : r = SubSeq(s, p + 1, p + Least(k, Len(s) - p))
    BY DEF substr
  <2>2. p + 1 \in Nat \ {0} /\ p + Least(k, Len(s) - p) \in 0 .. Len(s)
    BY DEF Least
  <2> QED BY <2>1, <2>2, PartOfPlain, PlainWellFormed
<1>2. CASE n = 0
  <2>1. t \in {[str |-> r, count |-> count_surrogate_pair(r)] : r \in substr(s, from, size)}
    BY <1>2 DEF string_substring
  <2>2. PICK r \in substr(s, from, size) : t = [str |-> r, count |-> count_surrogate_pair(r)]
    BY <2>1
  <2>3. size \in Nat
    BY SizeIsNat
  <2> QED BY <1>1, <2>2, <2>3
<1>3. CASE n # 0
  <2> DEFINE wanted == Least(size, Wrap(string_length(s, n) - from))
             from_it == codepoint_count_to_iterator(s, from)
             pairs   == Wrap(n - (from_it - from))
  <2>1. PICK r \in substr(s, from_it, Wrap(wanted + pairs)) : t = [str |-> r, count |-> pairs]
    BY <1>3 DEF string_substring
  <2>2. n \in Nat /\ from \in Nat /\ size \in Nat /\ Len(s) \in Nat
    BY SizeIsNat
  <2>3. from_it \in Int
    BY WalkType
  <2> HIDE DEF from_it
  <2>4. Len(s) - n \in Int /\ n - (from_it - from) \in Int
    BY <2>2, <2>3
  <2>5. string_length(s, n) \in Nat /\ pairs \in Nat
    BY <2>4, WrapType DEF string_length
  <2>6. string_length(s, n) - from \in Int
    BY <2>2, <2>5
  <2>7. wanted \in Nat
    BY <2>2, <2>6, WrapType DEF Least
  <2> HIDE DEF wanted, pairs
  <2>8. wanted + pairs \in Int
    BY <2>5, <2>7
  <2>9. Wrap(wanted + pairs) \in Nat
    BY <2>8, WrapType
  <2> QED BY <1>1, <2>1, <2>9
<1> QED BY <1>2, <1>3

\* The calls with units from outside.
LEMMA TextWellFormed ==
  ASSUME TypeOK, AllWellFormed, ~ IllFormedCause, NEW o \in Strings, NEW text \in Texts,
         Scanned(o, text) \/ DecodeFromUtf8(o, text)
  PROVE  AllWellFormed'
<1>1. /\ text \in Seq(char16_t) /\ str[o] \in Seq(char16_t) /\ Len(str[o]) <= SIZE_MAX
      /\ WellFormed(str[o])
  BY StrTypes, OStrAssumption, SizeMaxAssumption DEF AllWellFormed
<1>2. CASE FromCStr(o, text)
  <2>1. WellFormed(text)
    BY <1>2 DEF IllFormedCause
  <2> QED BY <1>1, <1>2, <2>1, CStrWellFormed, AssignWellFormed DEF FromCStr
<1>3. CASE FromUnits(o, text)
  <2>1. WellFormed(text)
    BY <1>3 DEF IllFormedCause
  <2> QED BY <1>3, <2>1, AssignWellFormed DEF FromUnits
<1>4. CASE DecodeFromUtf8(o, text)
  <2>1. WellFormed(text)
    BY <1>4 DEF IllFormedCause
  <2>2. WellFormed(str[o] \o text)
    BY <1>1, <2>1, JoinWellFormed
  <2> QED BY <1>4, <2>2, AssignWellFormed DEF DecodeFromUtf8
<1>5. CASE \E len \in Counts : FromBytes(o, text, len)
  <2>1. PICK len \in Counts : FromBytes(o, text, len)
    BY <1>5
  <2> DEFINE c  == CStr(text)
             sv == SubSeq(c, 1, Least(len, Len(c)))
  <2>2. (\A i \in 1 .. Len(text) : text[i] < 256) /\ Assign(o, sv, count_surrogate_pair(sv))
    BY <2>1 DEF FromBytes
  <2>3. \A i \in 1 .. Len(text) : text[i] \in Int
    <3>1. \A i \in 1 .. Len(text) : text[i] \in char16_t
      BY <1>1
    <3>2. char16_t \subseteq Int
      BY UnitNumbers
    <3> QED BY <3>1, <3>2
  <2>4. BMP(text)
    BY <2>2, <2>3 DEF BMP, is_lead_surrogate, is_trail_surrogate,
                      LEAD_SURROGATE_MIN, TRAIL_SURROGATE_MIN
  <2>5. c \in Seq(char16_t) /\ BMP(c)
    <3> DEFINE ends == {i \in 1 .. Len(text) : text[i] = NUL} \cup {Len(text) + 1}
    <3>1. ends \in SUBSET Nat /\ ends # {} /\ ends \subseteq 1 .. (Len(text) + 1) /\ Len(text) \in Nat
      BY <1>1
    <3>2. Min(ends) \in 1 .. (Len(text) + 1)
      <4> HIDE DEF ends
      <4> QED BY <3>1, MinOfNat
    <3>3. Min(ends) - 1 \in 0 .. Len(text) /\ 1 \in Nat \ {0}
      <4> HIDE DEF ends
      <4> QED BY <3>1, <3>2
    <3> HIDE DEF ends
    <3> DEFINE b == Min(ends) - 1
    <3>4. b \in 0 .. Len(text)
      BY <3>3
    <3> HIDE DEF b
    <3>5. SubSeq(text, 1, b) \in Seq(char16_t) /\ BMP(SubSeq(text, 1, b))
      BY <1>1, <2>4, <3>3, <3>4, PartOfPlain
    <3> QED BY <3>5 DEF CStr, ends, b
  <2> HIDE DEF c
  <2>6. len \in Nat /\ Len(c) \in Nat /\ Least(len, Len(c)) \in 0 .. Len(c) /\ 1 \in Nat \ {0}
    <3>1. len \in Nat /\ Len(c) \in Nat
      BY <2>5, OStrAssumption, SizeIsNat
    <3> QED BY <3>1 DEF Least
  <2>7. WellFormed(sv)
    BY <2>5, <2>6, PartOfPlain, PlainWellFormed
  <2> QED BY <2>2, <2>7, AssignWellFormed
<1>6. CASE \E from \in Counts, count \in Counts : ReplaceRange(o, from, count, text)
  <2>1. PICK from \in Counts, count \in Counts : ReplaceRange(o, from, count, text)
    BY <1>6
  <2>2. from \in size_t /\ count \in size_t
    BY OStrAssumption
  <2>3. WellFormed(text)
    BY <2>1 DEF IllFormedCause
  <2>4. RangeReplaced(str[o], from, count, text)
    BY <1>1, <2>2, ReplacesRange
  <2> DEFINE before == CodePoints(str[o], 0, from)
             after  == CodePoints(str[o], from + count, Len(str[o]))
             u == before \o text \o after
  <2>5. /\ replace_range(str[o], from, count, text) = {u}
        /\ before \in Seq(char16_t) /\ WellFormed(before)
        /\ after \in Seq(char16_t) /\ WellFormed(after)
    BY <2>4 DEF RangeReplaced
  <2>6. WellFormed(u)
    <3> HIDE DEF before, after
    <3>1. before \o text \in Seq(char16_t) /\ WellFormed(before \o text)
      BY <1>1, <2>3, <2>5, JoinWellFormed
    <3> QED BY <2>5, <3>1, JoinWellFormed
  <2> HIDE DEF u
  <2>7. Assign(o, u, count_surrogate_pair(u))
    BY <2>1, <2>5 DEF ReplaceRange
  <2> QED BY <2>6, <2>7, AssignWellFormed
<1> QED BY <1>2, <1>3, <1>4, <1>5, <1>6 DEF Scanned

LEMMA FillWellFormed ==
  ASSUME TypeOK, AllWellFormed, ~ IllFormedCause, NEW o \in Strings, NEW c \in Fills,
         NEW count \in Counts, FromFill(o, c, count)
  PROVE  AllWellFormed'
<1> DEFINE s == [i \in 1 .. count |-> c]
<1>1. count \in Nat
  BY OStrAssumption, SizeIsNat
<1>2. WellFormed(<<c>>)
  BY DEF IllFormedCause
<1>3. ~ is_lead_surrogate(c) /\ ~ is_trail_surrogate(c)
  <2>1. Len(<<c>>) = 1 /\ <<c>>[1] = c
    OBVIOUS
  <2>2. /\ is_lead_surrogate(c) => PairAt(<<c>>, 1)
        /\ is_trail_surrogate(c) => 1 > 1
    BY <1>2, <2>1 DEF WellFormed
  <2> QED BY <2>1, <2>2 DEF PairAt
<1>4. Len(s) = count /\ \A i \in 1 .. count : s[i] = c
  BY <1>1
<1>5. Assign(o, s, 0)
  BY DEF FromFill
<1> HIDE DEF s
<1>6. BMP(s)
  BY <1>3, <1>4 DEF BMP
<1> QED BY <1>5, <1>6, PlainWellFormed, AssignWellFormed

\* The calls on other strings.
LEMMA UnscannedWellFormed ==
  ASSUME TypeOK, AllWellFormed, ~ IllFormedCause, NEW o \in Strings, NEW p \in Strings,
         Unscanned(o, p)
  PROVE  AllWellFormed'
<1>1. \A r \in Strings : str[r] \in Seq(char16_t) /\ WellFormed(str[r])
  BY StrTypes DEF AllWellFormed
<1>2. CASE Copy(o, p)
  BY <1>1, <1>2, AssignWellFormed DEF Copy
<1>3. CASE AppendString(o, p)
  <2>1. WellFormed(str[o] \o str[p])
    BY <1>1, JoinWellFormed
  <2> QED BY <1>3, <2>1, AssignWellFormed DEF AppendString
<1>4. CASE TrimStart(o, p)
  BY <1>1, <1>4, TrimStartWellFormed, AssignWellFormed DEF TrimStart
<1>5. CASE TrimEnd(o, p)
  BY <1>1, <1>5, TrimEndWellFormed, AssignWellFormed DEF TrimEnd
<1>6. CASE Trim(o, p)
  <2>1. PICK t \in trim(str[p]) : Assign(o, t, surrogate_pair_count[p])
    BY <1>6 DEF Trim
  <2>2. PICK u \in trim_start(str[p]) : t \in trim_end(u)
    BY DEF trim
  <2>3. u \in Seq(char16_t)
    BY <1>1, TrimStartCount
  <2>4. WellFormed(u)
    BY <1>1, TrimStartWellFormed
  <2>5. WellFormed(t)
    BY <2>2, <2>3, <2>4, TrimEndWellFormed
  <2> QED BY <2>1, <2>5, AssignWellFormed
<1>7. CASE \E q \in Strings : Concat(o, p, q)
  <2>1. PICK q \in Strings : Concat(o, p, q)
    BY <1>7
  <2>2. WellFormed(str[p] \o str[q])
    BY <1>1, JoinWellFormed
  <2> QED BY <2>1, <2>2, AssignWellFormed DEF Concat
<1>8. CASE \E from \in Counts, size \in Counts : Substring(o, p, from, size)
  <2>1. PICK from \in Counts, size \in Counts : Substring(o, p, from, size)
    BY <1>8
  <2>2. PICK t \in string_substring(str[p], surrogate_pair_count[p], from, size) :
          Assign(o, t.str, t.count)
    BY <2>1 DEF Substring
  <2>3. Pairs(str[p]) = {} \/ Cuttable(p, from, size)
    BY <2>1 DEF IllFormedCause
  <2>4. from \in size_t /\ size \in size_t /\ surrogate_pair_count[p] \in size_t
    BY OStrAssumption, StrTypes
  <2>5. WellFormed(t.str)
    <3>1. CASE Pairs(str[p]) = {}
      BY <1>1, <2>2, <2>4, <3>1, PlainWithoutPairs, SubstringPlain
    <3>2. CASE Cuttable(p, from, size)
      BY <2>2, <3>2, CutsOfStrings
    <3> QED BY <2>3, <3>1, <3>2
  <2> QED BY <2>2, <2>5, AssignWellFormed
<1> QED BY <1>2, <1>3, <1>4, <1>5, <1>6, <1>7, <1>8 DEF Unscanned

LEMMA MoveWellFormed ==
  ASSUME TypeOK, AllWellFormed, NEW o \in Strings, NEW p \in Strings, Move(o, p)
  PROVE  AllWellFormed'
<1>1. o # p /\ str' = [str EXCEPT ![o] = str[p], ![p] = <<>>]
  BY DEF Move
<1>2. WellFormed(<<>>)
  BY DEF WellFormed
<1>3. ASSUME NEW r \in Strings PROVE WellFormed(str'[r])
  BY <1>1, <1>2 DEF TypeOK, AllWellFormed
<1> QED BY <1>3 DEF AllWellFormed

\* An iteration of replace_origin on a string without pairs.
LEMMA IterationWellFormed ==
  ASSUME TypeOK, AllWellFormed, ~ IllFormedCause, ReplaceIteration
  PROVE  AllWellFormed'
<1> DEFINE s == str[call.on]
<1>1. /\ call.on \in Strings /\ call.src \in Seq(char16_t) /\ call.dest \in Seq(char16_t)
      /\ call.index \in size_t
  BY ReplacingType DEF ReplaceIteration, Calls
<1>2. s \in Seq(char16_t) /\ WellFormed(s)
  BY <1>1, StrTypes DEF AllWellFormed
<1>3. Pairs(s) = {} /\ WellFormed(call.dest)
  BY DEF IllFormedCause
<1>4. BMP(s)
  <2> HIDE DEF s
  <2> QED BY <1>2, <1>3, PlainWithoutPairs
<1>5. PICK t \in Splice(s, call.index, call.index + Len(call.src), call.dest) :
        str' = [str EXCEPT ![call.on] = t]
  BY DEF ReplaceIteration
<1> HIDE DEF s
<1> DEFINE last == call.index + Len(call.src)
<1>6. PICK f \in 0 .. Len(s) :
        t = SubSeq(s, 1, f) \o call.dest
              \o SubSeq(s, 1 + (IF last \in f .. Len(s) THEN last ELSE Len(s)), Len(s))
  BY <1>5 DEF Splice
<1> DEFINE e == 1 + (IF last \in f .. Len(s) THEN last ELSE Len(s))
           before == SubSeq(s, 1, f)
           after == SubSeq(s, e, Len(s))
<1>7. e \in Nat \ {0} /\ Len(s) \in 0 .. Len(s) /\ 1 \in Nat \ {0}
  BY <1>2
<1> HIDE DEF e, last
<1>8. before \in Seq(char16_t) /\ WellFormed(before)
  BY <1>2, <1>4, <1>7, PartOfPlain, PlainWellFormed
<1>9. after \in Seq(char16_t) /\ WellFormed(after)
  BY <1>2, <1>4, <1>7, PartOfPlain, PlainWellFormed
<1>10. t = before \o call.dest \o after
  BY <1>6 DEF e, last
<1> HIDE DEF before, after
<1>11. before \o call.dest \in Seq(char16_t) /\ WellFormed(before \o call.dest)
  BY <1>1, <1>3, <1>8, JoinWellFormed
<1>12. WellFormed(t)
  BY <1>9, <1>10, <1>11, JoinWellFormed
<1>13. ASSUME NEW r \in Strings PROVE WellFormed(str'[r])
  BY <1>5, <1>12 DEF TypeOK, AllWellFormed
<1> QED BY <1>13 DEF AllWellFormed

LEMMA StepWellFormed ==
  ASSUME TypeOK, AllWellFormed, ~ IllFormedCause, [Next]_vars
  PROVE  AllWellFormed'
<1>1. CASE CallNext
  <2>1. CASE \E o \in Strings, text \in Texts : Scanned(o, text) \/ DecodeFromUtf8(o, text)
    BY <2>1, TextWellFormed
  <2>2. CASE \E o \in Strings, c \in Fills, count \in Counts : FromFill(o, c, count)
    BY <2>2, FillWellFormed
  <2>3. CASE \E o, p \in Strings : Unscanned(o, p) \/ Move(o, p)
    BY <2>3, UnscannedWellFormed, MoveWellFormed
  <2> QED BY <1>1, <2>1, <2>2, <2>3, CallCases
<1>2. CASE ReplaceIteration
  BY <1>2, IterationWellFormed
<1>3. CASE UNCHANGED str
  BY <1>3 DEF AllWellFormed
<1> QED BY <1>1, <1>2, <1>3 DEF Next, ReplaceStart, ReplaceLoop, ReplaceReturn, ReplaceThrows, vars

\* While every string is well-formed, none becomes ill-formed unless it is
\* given ill-formed units, or cut out of a string with pairs by substring, when
\* it is not Cuttable, or by replace_origin(src, dest): joining, trimming, replacing a range and reading
\* up to a NUL split no pair (ostr.cpp:12-132).
THEOREM StaysWellFormed == Spec => WellFormedKept
<1>1. TypeOK /\ [Next]_vars => [AllWellFormed /\ ~ AllWellFormed' => IllFormedCause]_vars
  BY StepWellFormed
<1> QED BY <1>1, StringTypesCorrect, PTL DEF Spec, WellFormedKept

-----------------------------------------------------------------------------
(* What is left when the loop of replace_origin ends.                      *)

Rest(t, i) == SubSeq(t, i + 1, Len(t))

\* Where the pattern occurs from an offset on, and what a search from there
\* answers.
Later(t, p, cs, i) == {j \in Occurrences(t, p, cs) : j >= i}

FirstLater(t, p, cs, i) == IF Later(t, p, cs, i) = {} THEN SIZE_MAX ELSE Min(Later(t, p, cs, i))

\* What is behind an offset.
LEMMA RestIs ==
  ASSUME NEW t \in Seq(char16_t), NEW i \in 0 .. Len(t)
  PROVE  /\ Rest(t, i) \in Seq(char16_t)
         /\ Len(Rest(t, i)) = Len(t) - i
         /\ \A k \in 1 .. (Len(t) - i) : Rest(t, i)[k] = t[i + k]
<1>1. Len(t) \in Nat /\ i \in Nat /\ i <= Len(t)
  OBVIOUS
<1>2. i + 1 \in Int /\ Len(t) \in Int /\ \A k \in (i + 1) .. Len(t) : t[k] \in char16_t
  BY <1>1
<1>3. /\ Rest(t, i) \in Seq(char16_t)
      /\ Len(Rest(t, i)) = IF i + 1 <= Len(t) THEN Len(t) - (i + 1) + 1 ELSE 0
      /\ \A k \in 1 .. (Len(t) - (i + 1) + 1) : Rest(t, i)[k] = t[i + 1 + k - 1]
  BY <1>2, SubSeqProperties DEF Rest
<1> QED BY <1>1, <1>3

\* Without surrogates, the scan of the search stops at every offset.
LEMMA PlainHeads ==
  ASSUME NEW s \in Seq(char16_t), BMP(s), NEW p \in 0 .. Len(s)
  PROVE  AtScanHead(s, p + 1)
<1>1. /\ p + 1 \in Nat /\ p + 1 \in 1 .. (p + 1) /\ 0 \in 0 .. (p + 1) /\ p + 1 = (p + 1) + 2 * 0
      /\ \A k \in (p + 1) .. ((p + 1) - 1) : is_lead_surrogate(s[k])
  OBVIOUS
<1>2. p + 1 > 1 => ~ is_lead_surrogate(s[(p + 1) - 1])
  BY DEF BMP
<1> DEFINE i == p + 1
<1> HIDE DEF i
<1>3. AtScanHead(s, i)
  <2>1. /\ i \in Nat /\ i \in 1 .. i /\ 0 \in 0 .. i /\ i = i + 2 * 0
        /\ \A k \in i .. (i - 1) : is_lead_surrogate(s[k])
        /\ i > 1 => ~ is_lead_surrogate(s[i - 1])
    BY <1>1, <1>2 DEF i
  <2> QED BY <2>1, HeadByWitness
<1> QED BY <1>3 DEF i

\* From an offset to the end, units without surrogates are cut as they are.
LEMMA PlainRest ==
  ASSUME NEW s \in Seq(char16_t), BMP(s), Len(s) <= SIZE_MAX, NEW n \in 0 .. Len(s)
  PROVE  substring(s, n, SIZE_MAX) = {Rest(s, n)}
<1>1. /\ WellFormed(s) /\ count_surrogate_pair(s) = 0 /\ Len(s) \in Nat /\ n \in Nat /\ n <= Len(s)
      /\ SIZE_MAX \in Nat /\ SIZE_MAX \in size_t /\ n \in size_t
  BY PlainWellFormed, PlainCount, SizeMaxAssumption, SizeIsNat DEF size_t
<1>2. CodePointCount(s) = Len(s)
  BY <1>1, LengthIs DEF length
<1>3. substring(s, n, SIZE_MAX) = {CodePoints(s, n, n + SIZE_MAX)}
  BY <1>1, SubstringCuts
<1>4. AtScanHead(s, n + 1) /\ AtScanHead(s, Len(s) + 1)
  BY <1>1, PlainHeads
<1>5. Cardinality(StartsUpTo(s, n)) = n
  BY <1>1, <1>4, PairsUpTo
<1>6. CodePoints(s, n, n + SIZE_MAX) = SubSeq(s, n + 1, Len(s))
  <2> DEFINE to == n + SIZE_MAX
             q == Len(s)
  <2>1. to \in Nat /\ to >= CodePointCount(s) /\ q \in n .. Len(s) /\ q = Len(s)
        /\ AtScanHead(s, q + 1)
    BY <1>1, <1>2, <1>4
  <2> HIDE DEF to, q
  <2>2. SubSeq(s, n + 1, q) = CodePoints(s, n, to)
    BY <1>1, <1>4, <1>5, <2>1, CutBetween
  <2> QED BY <2>1, <2>2 DEF to
<1> QED BY <1>3, <1>6 DEF Rest

\* Without a NUL, c_str() shows the whole string.
LEMMA CStrOfNoNul ==
  ASSUME NEW s \in Seq(char16_t), HasNoNul(s)
  PROVE  CStr(s) = s
<1> DEFINE ends == {i \in 1 .. Len(s) : s[i] = NUL} \cup {Len(s) + 1}
<1>1. ends = {Len(s) + 1} /\ Len(s) \in Nat
  BY DEF HasNoNul
<1>2. Min(ends) = Len(s) + 1
  <2>1. ends \in SUBSET Int /\ Len(s) + 1 \in ends /\ \A x \in ends : Len(s) + 1 <= x
    BY <1>1
  <2> HIDE DEF ends
  <2> QED BY <2>1, MinIs
<1>3. CStr(s) = SubSeq(s, 1, Min(ends) - 1)
  BY DEF CStr
<1> HIDE DEF ends
<1>4. Min(ends) - 1 = Len(s)
  BY <1>1, <1>2
<1> QED BY <1>3, <1>4, SubSeqFull

\* Where the pattern occurs in the rest of a string.
LEMMA OccursInRest ==
  ASSUME NEW s \in Seq(char16_t), NEW p \in Seq(char16_t), NEW cs, NEW n \in 0 .. Len(s), NEW j \in Int
  PROVE  j \in Occurrences(Rest(s, n), p, cs) <=> j >= 0 /\ j + n \in Occurrences(s, p, cs)
<1>1. Len(s) \in Nat /\ n \in Nat /\ n <= Len(s) /\ Len(p) \in Nat
  OBVIOUS
<1> DEFINE r == Rest(s, n)
<1>2. /\ Len(r) = Len(s) - n
      /\ \A k \in 1 .. (Len(s) - n) : r[k] = s[n + k]
  BY RestIs
<1> HIDE DEF r
<1>3. ASSUME j >= 0, j + Len(p) <= Len(s) - n, NEW k \in 1 .. Len(p)
      PROVE  r[j + k] = s[(j + n) + k]
  <2>1. j + k \in 1 .. (Len(s) - n) /\ n + (j + k) = (j + n) + k
    BY <1>1, <1>3
  <2> QED BY <1>2, <2>1
<1>4. j \in 0 .. (Len(r) - Len(p)) <=> j >= 0 /\ j + Len(p) <= Len(s) - n
  BY <1>1, <1>2
<1>5. j >= 0 => (j + n \in 0 .. (Len(s) - Len(p)) <=> j + Len(p) <= Len(s) - n)
  BY <1>1
<1>6. j \in Occurrences(r, p, cs) <=>
        j \in 0 .. (Len(r) - Len(p)) /\ \A k \in 1 .. Len(p) : case_predicate(r[j + k], p[k], cs)
  BY DEF Occurrences
<1>7. j + n \in Occurrences(s, p, cs) <=>
        /\ j + n \in 0 .. (Len(s) - Len(p))
        /\ \A k \in 1 .. Len(p) : case_predicate(s[(j + n) + k], p[k], cs)
  BY DEF Occurrences
<1>8. j >= 0 /\ j + Len(p) <= Len(s) - n =>
        ((\A k \in 1 .. Len(p) : case_predicate(r[j + k], p[k], cs)) <=>
         (\A k \in 1 .. Len(p) : case_predicate(s[(j + n) + k], p[k], cs)))
  BY <1>3
<1>9. j \in Occurrences(r, p, cs) <=> j >= 0 /\ j + n \in Occurrences(s, p, cs)
  BY <1>4, <1>5, <1>6, <1>7, <1>8
<1> QED BY <1>9 DEF r

\* An occurrence lies inside the string.
LEMMA OccurrencesFit ==
  ASSUME NEW s \in Seq(char16_t), NEW p \in Seq(char16_t), p # <<>>, NEW cs,
         NEW j \in Occurrences(s, p, cs)
  PROVE  j \in Nat /\ j + Len(p) <= Len(s) /\ j < Len(s)
<1>1. Len(s) \in Nat /\ Len(p) \in Nat \ {0}
  BY EmptySeq
<1> QED BY <1>1 DEF Occurrences

IsSearchFrom(s, p, cs, n) ==
  string_index_of(s, p, n, SIZE_MAX, cs) = {FirstLater(s, p, cs, n)}

\* A search without surrogates and NUL is one by units.
LEMMA SearchFrom ==
  ASSUME NEW s \in Seq(char16_t), BMP(s), HasNoNul(s), Len(s) <= MaxSize,
         NEW p \in Seq(char16_t), p # <<>>, NEW cs, NEW n \in 0 .. Len(s)
  PROVE  IsSearchFrom(s, p, cs, n)
<1>1. /\ Len(s) \in Nat /\ n \in Nat /\ n <= Len(s) /\ SIZE_MAX \in Nat /\ MaxSize \in Nat
      /\ Len(s) < SIZE_MAX
  BY SizeMaxAssumption, OStrAssumption
<1> DEFINE r == Rest(s, n)
           found == Occurrences(r, p, cs)
           later == Later(s, p, cs, n)
<1>2. r \in Seq(char16_t) /\ Len(r) = Len(s) - n /\ BMP(r)
  <2>1. BMP(r)
    BY <1>1, PartOfPlain DEF Rest
  <2> QED BY <2>1, RestIs
<1>3. string_index_of(s, p, n, SIZE_MAX, cs) =
        {IF index_of(r, p, cs) = SIZE_MAX THEN SIZE_MAX ELSE Wrap(index_of(r, p, cs) + n)}
  <2>1. to_sv(s) = s
    BY CStrOfNoNul DEF to_sv
  <2>2. UNION {substring(sv, n, SIZE_MAX) : sv \in {to_sv(s)}} = {r}
    BY <1>1, <2>1, PlainRest
  <2> QED BY <2>2 DEF string_index_of
<1>4. \A j \in found : /\ j \in Nat /\ j < Len(r) /\ j + n \in later
  BY <1>1, <1>2, OccurrencesFit, OccursInRest DEF Later
<1>5. \A j \in later : j \in Nat /\ j < Len(s) /\ j - n \in found
  <2> SUFFICES ASSUME NEW j \in later PROVE j \in Nat /\ j < Len(s) /\ j - n \in found
    OBVIOUS
  <2>1. j \in Occurrences(s, p, cs) /\ j >= n
    BY DEF Later
  <2>2. j \in Nat /\ j < Len(s)
    BY <2>1, OccurrencesFit
  <2>3. j - n \in Int /\ j - n >= 0 /\ (j - n) + n = j
    BY <1>1, <2>1, <2>2
  <2>4. j - n \in found
    BY <2>1, <2>3, OccursInRest
  <2> QED BY <2>2, <2>4
<1> HIDE DEF r, found, later
<1>6. CASE found = {}
  <2>1. later = {}
    BY <1>5, <1>6
  <2>2. index_of(r, p, cs) = SIZE_MAX
    BY <1>6 DEF index_of, found
  <2> QED BY <1>3, <2>1, <2>2 DEF IsSearchFrom, FirstLater, later
<1>7. CASE found # {}
  <2>1. found \in SUBSET Nat /\ later \in SUBSET Nat /\ later # {} /\ found # {Len(r)}
    BY <1>2, <1>4, <1>5, <1>7
  <2> DEFINE m == Min(found)
  <2>2. m \in found /\ \A x \in found : m <= x
    BY <1>7, <2>1, MinOfNat
  <2> HIDE DEF m
  <2>3. Min(later) = m + n
    <3>1. m + n \in later
      BY <1>4, <2>2
    <3>2. \A x \in later : m + n <= x
      <4> SUFFICES ASSUME NEW x \in later PROVE m + n <= x
        OBVIOUS
      <4>1. x \in Nat /\ m \in Nat /\ m <= x - n
        BY <1>4, <1>5, <2>2
      <4> QED BY <1>1, <4>1
    <3>3. later \in SUBSET Int
      BY <2>1
    <3> QED BY <3>1, <3>2, <3>3, MinIs
  <2>4. index_of(r, p, cs) = m
    <3>1. index_of(r, p, cs) = position_index_to_codepoint(r, m)
      BY <1>7, <2>1 DEF index_of, found, m
    <3>2. m \in 0 .. Len(r) /\ m \in Nat
      BY <1>1, <1>2, <1>4, <2>2
    <3>3. SubSeq(r, 1, m) \in Seq(char16_t) /\ BMP(SubSeq(r, 1, m))
      BY <1>2, <3>2, PartOfPlain
    <3>4. count_surrogate_pair(SubSeq(r, 1, m)) = 0
      BY <3>3, PlainCount
    <3> QED BY <3>1, <3>2, <3>4 DEF position_index_to_codepoint
  <2>5. m \in Nat /\ m < Len(r) /\ m # SIZE_MAX /\ Wrap(m + n) = m + n
    <3>1. m \in Nat /\ m < Len(r)
      BY <1>4, <2>2
    <3>2. m # SIZE_MAX /\ m + n \in 0 .. SIZE_MAX
      BY <1>1, <1>2, <3>1
    <3> QED BY <3>1, <3>2, WrapFits DEF size_t
  <2> QED BY <1>3, <2>1, <2>3, <2>4, <2>5 DEF IsSearchFrom, FirstLater, later
<1> QED BY <1>6, <1>7

\* The result of the replacements from offset i on, in terms of those from
\* later offsets on.
Replacement(f, s, src, dest, cs, i) ==
  IF Later(s, src, cs, i) = {} THEN Rest(s, i)
  ELSE SubSeq(s, i + 1, Min(Later(s, src, cs, i))) \o dest \o
         f[Min(Later(s, src, cs, i)) + Len(src)]

\* f holds, for every offset, the result of the replacements from there on.
IsReplacing(f, s, src, dest, cs) ==
  /\ f \in [0 .. Len(s) -> Seq(char16_t)]
  /\ \A i \in 0 .. Len(s) : f[i] = Replacement(f, s, src, dest, cs, i)

\* The first occurrence from an offset on, and the offset behind it.
LEMMA LaterIs ==
  ASSUME NEW s \in Seq(char16_t), NEW src \in Seq(char16_t), src # <<>>, NEW cs,
         NEW i \in 0 .. Len(s), Later(s, src, cs, i) # {}
  PROVE  LET j == Min(Later(s, src, cs, i))
         IN  /\ j \in Later(s, src, cs, i) /\ j \in Nat /\ i <= j /\ j < Len(s)
             /\ \A x \in Later(s, src, cs, i) : j <= x
             /\ j + Len(src) \in 0 .. Len(s) /\ i < j + Len(src)
<1> DEFINE later == Later(s, src, cs, i)
           j == Min(later)
<1>1. \A x \in later : x \in Nat /\ x + Len(src) <= Len(s) /\ x < Len(s) /\ i <= x
  BY OccurrencesFit DEF Later
<1>2. Len(s) \in Nat /\ Len(src) \in Nat \ {0} /\ later # {}
  BY EmptySeq
<1> HIDE DEF later
<1>3. later \in SUBSET Nat
  BY <1>1
<1>4. j \in later /\ \A x \in later : j <= x
  BY <1>2, <1>3, MinOfNat
<1> HIDE DEF j
<1>5. j \in Nat /\ i <= j /\ j < Len(s) /\ j + Len(src) \in 0 .. Len(s) /\ i < j + Len(src)
  BY <1>1, <1>2, <1>4
<1> QED BY <1>4, <1>5 DEF j, later

\* f and g agree on the offsets behind i.
SameBehind(f, g, i, n) == \A k \in 0 .. n : k > i => g[k] = f[k]

\* The result from an offset on is a text, which only later results determine.
LEMMA ReplacementType ==
  ASSUME NEW s \in Seq(char16_t), NEW src \in Seq(char16_t), src # <<>>,
         NEW dest \in Seq(char16_t), NEW cs, NEW i \in 0 .. Len(s),
         NEW f \in [0 .. Len(s) -> Seq(char16_t)], NEW g \in [0 .. Len(s) -> Seq(char16_t)],
         SameBehind(f, g, i, Len(s))
  PROVE  /\ Replacement(f, s, src, dest, cs, i) \in Seq(char16_t)
         /\ Replacement(g, s, src, dest, cs, i) = Replacement(f, s, src, dest, cs, i)
<1> DEFINE later == Later(s, src, cs, i)
           j == Min(later)
<1>1. CASE later = {}
  BY <1>1, RestIs DEF Replacement
<1>2. CASE later # {}
  <2>1. /\ j \in Nat /\ i <= j /\ j < Len(s)
        /\ j + Len(src) \in 0 .. Len(s) /\ i < j + Len(src)
    BY <1>2, LaterIs
  <2>2. \A h : Replacement(h, s, src, dest, cs, i) = SubSeq(s, i + 1, j) \o dest \o h[j + Len(src)]
    BY <1>2 DEF Replacement
  <2> HIDE DEF j
  <2>3. f[j + Len(src)] \in Seq(char16_t) /\ g[j + Len(src)] = f[j + Len(src)]
    BY <2>1 DEF SameBehind
  <2>4. SubSeq(s, i + 1, j) \in Seq(char16_t)
    BY <2>1
  <2>5. SubSeq(s, i + 1, j) \o dest \o f[j + Len(src)] \in Seq(char16_t)
    BY <2>3, <2>4
  <2> QED BY <2>2, <2>3, <2>5
<1> QED BY <1>1, <1>2

\* There are results for all offsets.
LEMMA ReplacingExists ==
  ASSUME NEW s \in Seq(char16_t), NEW src \in Seq(char16_t), src # <<>>,
         NEW dest \in Seq(char16_t), NEW cs
  PROVE  \E f : IsReplacing(f, s, src, dest, cs)
<1> DEFINE L == Len(s)
           F == [0 .. L -> Seq(char16_t)]
           Solves(f, i) == f[i] = Replacement(f, s, src, dest, cs, i)
           From(n) == {f \in F : \A i \in 0 .. L : i > L - n => Solves(f, i)}
           P == {n \in Nat : From(n) # {}}
<1>1. L \in Nat
  OBVIOUS
<1>2. 0 \in P
  <2>1. [i \in 0 .. L |-> <<>>] \in F
    OBVIOUS
  <2>2. \A i \in 0 .. L : ~ (i > L - 0)
    BY <1>1
  <2> HIDE DEF F, Solves, L
  <2> QED BY <2>1, <2>2
<1>3. ASSUME NEW n \in P PROVE n + 1 \in P
  <2>1. PICK f \in From(n) : TRUE
    OBVIOUS
  <2>2. n \in Nat /\ n + 1 \in Nat /\ f \in F /\ \A i \in 0 .. L : i > L - n => Solves(f, i)
    BY <2>1
  <2> DEFINE m == L - n
  <2>3. m \in Int /\ L - (n + 1) = m - 1
    BY <1>1, <2>2
  <2>4. CASE ~ (m \in 0 .. L)
    <3>1. \A i \in 0 .. L : i > m - 1 => i > m
      BY <1>1, <2>3, <2>4
    <3> HIDE DEF F, Solves, L
    <3> QED BY <2>2, <2>3, <3>1
  <2>5. CASE m \in 0 .. L
    <3> DEFINE g == [f EXCEPT ![m] = Replacement(f, s, src, dest, cs, m)]
    <3>1. Replacement(f, s, src, dest, cs, m) \in Seq(char16_t)
      BY <2>2, <2>5, ReplacementType DEF SameBehind
    <3>2. g \in F /\ g[m] = Replacement(f, s, src, dest, cs, m)
          /\ \A k \in 0 .. L : k # m => g[k] = f[k]
      BY <2>2, <2>5, <3>1
    <3> HIDE DEF g, m
    <3>3. ASSUME NEW i \in 0 .. L, i > m - 1 PROVE Solves(g, i)
      <4>1. /\ SameBehind(f, g, i, Len(s))
            /\ f \in [0 .. Len(s) -> Seq(char16_t)]
            /\ g \in [0 .. Len(s) -> Seq(char16_t)]
            /\ i \in 0 .. Len(s) /\ i \in Int
        BY <2>2, <2>3, <3>2, <3>3 DEF SameBehind
      <4>2. Replacement(g, s, src, dest, cs, i) = Replacement(f, s, src, dest, cs, i)
        BY <4>1, ReplacementType
      <4>3. CASE i = m
        BY <3>2, <4>2, <4>3
      <4>4. CASE i # m
        <5>1. i > L - n
          <6>1. i > m
            BY <2>3, <3>3, <4>1, <4>4
          <6> QED BY <6>1 DEF m
        <5>2. Solves(f, i)
          BY <2>2, <5>1
        <5>3. f[i] = Replacement(f, s, src, dest, cs, i) /\ g[i] = f[i]
          BY <3>2, <4>4, <5>2
        <5> QED BY <4>2, <5>3
      <4> QED BY <4>3, <4>4
    <3> HIDE DEF F, Solves, L
    <3>4. \A i \in 0 .. L : i > L - (n + 1) => Solves(g, i)
      BY <2>3, <3>3
    <3>5. g \in From(n + 1)
      BY <3>2, <3>4
    <3> HIDE DEF From
    <3> QED BY <2>2, <3>5
  <2> QED BY <2>4, <2>5
<1>4. P = Nat
  <2>1. P \in SUBSET Nat
    OBVIOUS
  <2> HIDE DEF P
  <2> QED BY <1>2, <1>3, <2>1, SetInduction
<1>5. PICK f \in From(L + 1) : TRUE
  <2>1. L + 1 \in P
    <3> HIDE DEF P
    <3> QED BY <1>1, <1>4
  <2> QED BY <2>1
<1>6. \A i \in 0 .. L : i > L - (L + 1)
  BY <1>1
<1>7. f \in F /\ \A i \in 0 .. L : Solves(f, i)
  <2> HIDE DEF F, Solves, L
  <2> QED BY <1>5, <1>6
<1> QED BY <1>7 DEF IsReplacing

\* There is only one.
LEMMA ReplacingIsOne ==
  ASSUME NEW s \in Seq(char16_t), NEW src \in Seq(char16_t), src # <<>>,
         NEW dest \in Seq(char16_t), NEW cs, NEW g, IsReplacing(g, s, src, dest, cs),
         NEW f, f = [i \in 0 .. Len(s) |-> Replacement(f, s, src, dest, cs, i)]
  PROVE  f = g
<1> DEFINE L == Len(s)
           P == {n \in Nat : \A i \in 0 .. L : i > L - n => f[i] = g[i]}
<1>1. L \in Nat
  OBVIOUS
<1>2. 0 \in P
  BY <1>1
<1>3. ASSUME NEW n \in P PROVE n + 1 \in P
  <2>1. n \in Nat /\ n + 1 \in Nat /\ \A i \in 0 .. L : i > L - n => f[i] = g[i]
    OBVIOUS
  <2>2. ASSUME NEW i \in 0 .. L, i > L - (n + 1) PROVE f[i] = g[i]
    <3>1. /\ f[i] = Replacement(f, s, src, dest, cs, i)
          /\ g[i] = Replacement(g, s, src, dest, cs, i)
      BY DEF IsReplacing
    <3>2. CASE Later(s, src, cs, i) = {}
      BY <3>1, <3>2 DEF Replacement
    <3>3. CASE Later(s, src, cs, i) # {}
      <4> DEFINE j == Min(Later(s, src, cs, i)) + Len(src)
      <4>1. j \in 0 .. Len(s) /\ i < j
        BY <3>3, LaterIs
      <4>2. \A h : Replacement(h, s, src, dest, cs, i) =
                    SubSeq(s, i + 1, Min(Later(s, src, cs, i))) \o dest \o h[j]
        BY <3>3 DEF Replacement
      <4> HIDE DEF j
      <4>3. j > L - n
        BY <1>1, <2>1, <2>2, <4>1
      <4>4. f[j] = g[j]
        BY <2>1, <4>1, <4>3
      <4> QED BY <3>1, <4>2, <4>4
    <3> QED BY <3>2, <3>3
  <2> HIDE DEF L
  <2> QED BY <2>1, <2>2
<1>4. P = Nat
  <2>1. P \in SUBSET Nat
    OBVIOUS
  <2> HIDE DEF P
  <2> QED BY <1>2, <1>3, <2>1, SetInduction
<1>5. \A i \in 0 .. L : f[i] = g[i]
  <2>1. L + 1 \in P
    <3> HIDE DEF P
    <3> QED BY <1>1, <1>4
  <2>2. \A i \in 0 .. L : i > L - (L + 1)
    BY <1>1
  <2> QED BY <2>1, <2>2
<1> QED BY <1>5 DEF IsReplacing

\* So does AllReplaced.
LEMMA AllReplacedIs ==
  ASSUME NEW s \in Seq(char16_t), NEW src \in Seq(char16_t), src # <<>>,
         NEW dest \in Seq(char16_t), NEW cs
  PROVE  \E f : IsReplacing(f, s, src, dest, cs) /\ AllReplaced(s, src, dest, cs) = f[0]
<1> DEFINE done[i \in 0 .. Len(s)] ==
             LET next == {j \in Occurrences(s, src, cs) : j >= i}
             IN  IF next = {} THEN SubSeq(s, i + 1, Len(s))
                 ELSE SubSeq(s, i + 1, Min(next)) \o dest \o done[Min(next) + Len(src)]
           Turns(w) == [i \in 0 .. Len(s) |->
             LET next == {j \in Occurrences(s, src, cs) : j >= i}
             IN  IF next = {} THEN SubSeq(s, i + 1, Len(s))
                 ELSE SubSeq(s, i + 1, Min(next)) \o dest \o w[Min(next) + Len(src)]]
<1>1. AllReplaced(s, src, dest, cs) = done[0]
  BY Zenon DEF AllReplaced
<1>2. \A w : Turns(w) = [i \in 0 .. Len(s) |-> Replacement(w, s, src, dest, cs, i)]
  BY Zenon DEF Replacement, Later, Rest
<1>3. done = CHOOSE w : w = Turns(w)
  OBVIOUS
<1> HIDE DEF Turns, done
<1>4. PICK g : IsReplacing(g, s, src, dest, cs)
  BY ReplacingExists
<1>5. g = Turns(g)
  <2>1. g = [i \in 0 .. Len(s) |-> Replacement(g, s, src, dest, cs, i)]
    BY <1>4 DEF IsReplacing
  <2> QED BY <1>2, <2>1
<1>6. done = Turns(done)
  BY <1>3, <1>5
<1>7. done = [i \in 0 .. Len(s) |-> Replacement(done, s, src, dest, cs, i)]
  BY <1>2, <1>6
<1>8. done = g
  BY <1>4, <1>7, ReplacingIsOne
<1> QED BY <1>1, <1>4, <1>8

\* A part of a plain text is plain.
LEMMA PlainPart ==
  ASSUME NEW s \in Seq(char16_t), Plain(s), NEW a \in 0 .. Len(s), NEW b \in 0 .. Len(s)
  PROVE  SubSeq(s, a + 1, b) \in Seq(char16_t) /\ Plain(SubSeq(s, a + 1, b))
<1> DEFINE t == SubSeq(s, a + 1, b)
<1>1. /\ t \in Seq(char16_t) /\ BMP(t)
  <2>1. a + 1 \in Nat \ {0}
    OBVIOUS
  <2> QED BY <2>1, PartOfPlain DEF Plain
<1>2. HasNoNul(t)
  <2>1. CASE a + 1 <= b
    <3>1. Len(t) = b - a /\ \A k \in 1 .. Len(t) : t[k] = s[a + k] /\ a + k \in 1 .. Len(s)
      BY <2>1
    <3> HIDE DEF t
    <3> QED BY <3>1 DEF HasNoNul, Plain
  <2>2. CASE ~ (a + 1 <= b)
    <3>1. Len(t) = 0
      BY <2>2
    <3> HIDE DEF t
    <3> QED BY <3>1 DEF HasNoNul
  <2> QED BY <2>1, <2>2
<1> QED BY <1>1, <1>2 DEF Plain

\* The parts of two texts joined, cut where they meet.
LEMMA JoinedParts ==
  ASSUME NEW d \in Seq(char16_t), NEW r \in Seq(char16_t), NEW n \in 0 .. Len(r)
  PROVE  /\ SubSeq(d \o r, 1, Len(d) + n) = d \o SubSeq(r, 1, n)
         /\ Rest(d \o r, Len(d) + n) = Rest(r, n)
<1> DEFINE s == d \o r
           m == Len(d)
<1>1. /\ s \in Seq(char16_t) /\ Len(s) = m + Len(r) /\ m \in Nat /\ Len(r) \in Nat /\ n \in Nat
      /\ n <= Len(r) /\ m + n \in 0 .. Len(s)
      /\ \A i \in 1 .. m : s[i] = d[i]
      /\ \A i \in 1 .. Len(r) : s[m + i] = r[i]
  OBVIOUS
<1>2. SubSeq(r, 1, n) \in Seq(char16_t) /\ Len(SubSeq(r, 1, n)) = n
      /\ \A i \in 1 .. n : SubSeq(r, 1, n)[i] = r[i]
  BY <1>1
<1> DEFINE h == SubSeq(r, 1, n)
           u == d \o h
           v == SubSeq(s, 1, m + n)
<1>3. /\ u \in Seq(char16_t) /\ Len(u) = m + n
      /\ \A i \in 1 .. m : u[i] = d[i]
      /\ \A i \in 1 .. n : u[m + i] = h[i]
  <2> HIDE DEF h
  <2> QED BY <1>1, <1>2 DEF h
<1> HIDE DEF h, u, s, m
<1>4. v \in Seq(char16_t) /\ Len(v) = m + n /\ \A i \in 1 .. (m + n) : v[i] = s[i]
  BY <1>1
<1> HIDE DEF v
<1>5. \A i \in 1 .. (m + n) : v[i] = u[i]
  <2> SUFFICES ASSUME NEW i \in 1 .. (m + n) PROVE s[i] = u[i]
    BY <1>4
  <2>1. CASE i <= m
    BY <1>1, <1>3, <2>1
  <2>2. CASE ~ (i <= m)
    <3>1. i - m \in 1 .. n /\ i - m \in 1 .. Len(r) /\ m + (i - m) = i
      BY <1>1, <2>2
    <3>2. s[m + (i - m)] = r[i - m] /\ u[m + (i - m)] = h[i - m] /\ h[i - m] = r[i - m]
      BY <1>1, <1>2, <1>3, <3>1 DEF h
    <3> QED BY <3>1, <3>2
  <2> QED BY <2>1, <2>2
<1>6. v = u
  BY <1>3, <1>4, <1>5, SeqEqual
<1> DEFINE x == Rest(s, m + n)
           y == Rest(r, n)
<1>7. /\ x \in Seq(char16_t) /\ Len(x) = Len(s) - (m + n)
      /\ \A k \in 1 .. (Len(s) - (m + n)) : x[k] = s[(m + n) + k]
  BY <1>1, RestIs
<1>8. /\ y \in Seq(char16_t) /\ Len(y) = Len(r) - n
      /\ \A k \in 1 .. (Len(r) - n) : y[k] = r[n + k]
  BY <1>1, RestIs
<1> HIDE DEF x, y
<1>9. Len(x) = Len(y)
  BY <1>1, <1>7, <1>8
<1>10. \A k \in 1 .. Len(x) : x[k] = y[k]
  <2> SUFFICES ASSUME NEW k \in 1 .. Len(x) PROVE x[k] = y[k]
    OBVIOUS
  <2>1. n + k \in 1 .. Len(r) /\ (m + n) + k = m + (n + k)
        /\ k \in 1 .. (Len(s) - (m + n)) /\ k \in 1 .. (Len(r) - n)
    BY <1>1, <1>7, <1>8
  <2> QED BY <1>1, <1>7, <1>8, <2>1
<1>11. x = y
  BY <1>7, <1>8, <1>9, <1>10, SeqEqual
<1> QED BY <1>6, <1>11 DEF v, u, s, h, m, x, y

\* The index of an iteration that has dealt with the first i units of the text
\* and written d for them.
IndexFrom(c, i, d) ==
  IF Later(c.text, c.src, c.cs, i) = {} THEN SIZE_MAX
  ELSE Len(d) + (Min(Later(c.text, c.src, c.cs, i)) - i)

\* Occurrences in what has been written and the rest, from the rest on.
LEMMA LaterInRest ==
  ASSUME NEW t \in Seq(char16_t), NEW p \in Seq(char16_t), p # <<>>, NEW cs,
         NEW i \in 0 .. Len(t), NEW d \in Seq(char16_t)
  PROVE  FirstLater(d \o Rest(t, i), p, cs, Len(d)) =
           IF Later(t, p, cs, i) = {} THEN SIZE_MAX ELSE Len(d) + (Min(Later(t, p, cs, i)) - i)
<1> DEFINE r == Rest(t, i)
           s == d \o r
           m == Len(d)
           there == Later(s, p, cs, m)
           here  == Later(t, p, cs, i)
<1>1. r \in Seq(char16_t) /\ s \in Seq(char16_t) /\ m \in 0 .. Len(s) /\ m \in Nat /\ i \in Nat
  <2>1. r \in Seq(char16_t)
    BY RestIs
  <2> HIDE DEF r
  <2> QED BY <2>1
<1>2. Rest(s, m) = r
  <2>1. 0 \in 0 .. Len(r) /\ m + 0 = m /\ r \in Seq(char16_t) /\ Len(r) \in Int
    BY <1>1
  <2>2. Rest(s, m + 0) = Rest(r, 0)
    <3> HIDE DEF r
    <3> QED BY <2>1, JoinedParts
  <2>3. Rest(r, 0) = r
    <3> HIDE DEF r
    <3> QED BY <2>1, SubSeqFull DEF Rest
  <2> QED BY <2>1, <2>2, <2>3
<1> HIDE DEF r, s, m
<1>3. \A j \in Int : j >= 0 /\ j + m \in Occurrences(s, p, cs) <=> j \in Occurrences(r, p, cs)
  BY <1>1, <1>2, OccursInRest
<1>4. \A j \in Int : j >= 0 /\ j + i \in Occurrences(t, p, cs) <=> j \in Occurrences(r, p, cs)
  BY OccursInRest DEF r
<1>5. /\ there \in SUBSET Nat /\ here \in SUBSET Nat
      /\ \A x \in there : x >= m /\ x \in Occurrences(s, p, cs)
      /\ \A x \in here : x >= i /\ x \in Occurrences(t, p, cs)
      /\ \A x \in Int : x >= m /\ x \in Occurrences(s, p, cs) => x \in there
      /\ \A x \in Int : x >= i /\ x \in Occurrences(t, p, cs) => x \in here
  BY <1>1, OccurrencesFit DEF Later
<1> HIDE DEF there, here
<1>6. ASSUME NEW x \in here PROVE m + (x - i) \in there
  <2>1. x \in Nat /\ x >= i /\ x \in Occurrences(t, p, cs)
    BY <1>5
  <2>2. x - i \in Int /\ x - i >= 0 /\ (x - i) + i = x /\ (x - i) + m = m + (x - i)
        /\ m + (x - i) \in Int /\ m + (x - i) >= m
    BY <1>1, <2>1
  <2> DEFINE j == x - i
  <2>3. j \in Int /\ j >= 0 /\ j + i \in Occurrences(t, p, cs)
    BY <2>1, <2>2
  <2> HIDE DEF j
  <2>4. j + m \in Occurrences(s, p, cs)
    BY <1>3, <1>4, <2>3
  <2>5. m + (x - i) \in Occurrences(s, p, cs)
    BY <2>2, <2>4 DEF j
  <2> QED BY <1>5, <2>2, <2>5
<1>7. ASSUME NEW x \in there PROVE (x - m) + i \in here
  <2>1. x \in Nat /\ x >= m /\ x \in Occurrences(s, p, cs)
    BY <1>5
  <2>2. x - m \in Int /\ x - m >= 0 /\ (x - m) + m = x
        /\ (x - m) + i \in Int /\ (x - m) + i >= i
    BY <1>1, <2>1
  <2> DEFINE j == x - m
  <2>3. j \in Int /\ j >= 0 /\ j + m \in Occurrences(s, p, cs)
    BY <2>1, <2>2
  <2> HIDE DEF j
  <2>4. j + i \in Occurrences(t, p, cs)
    BY <1>3, <1>4, <2>3
  <2>5. (x - m) + i \in Occurrences(t, p, cs)
    BY <2>4 DEF j
  <2> QED BY <1>5, <2>2, <2>5
<1>8. CASE here = {}
  <2>1. there = {}
    BY <1>7, <1>8
  <2> QED BY <1>8, <2>1 DEF FirstLater, there, here, s, r, m
<1>9. CASE here # {}
  <2> DEFINE least == Min(here)
  <2>1. least \in here /\ \A x \in here : least <= x
    BY <1>5, <1>9, MinOfNat
  <2> HIDE DEF least
  <2>2. least \in Nat
    BY <1>5, <2>1
  <2> DEFINE first == m + (least - i)
  <2>3. first \in there
    BY <1>6, <2>1
  <2>4. \A x \in there : first <= x
    <3> SUFFICES ASSUME NEW x \in there PROVE first <= x
      OBVIOUS
    <3>1. least <= (x - m) + i /\ x \in Nat
      BY <1>5, <1>7, <2>1
    <3> QED BY <1>1, <2>2, <3>1
  <2> HIDE DEF first
  <2>5. Min(there) = first
    <3>1. there \in SUBSET Int
      BY <1>5
    <3> QED BY <2>3, <2>4, <3>1, MinIs
  <2>6. there # {}
    BY <2>3
  <2>7. FirstLater(s, p, cs, m) = Min(there)
    BY <2>6 DEF FirstLater, there
  <2> QED BY <1>9, <2>5, <2>7 DEF first, least, here, s, r, m
<1> QED BY <1>8, <1>9

\* What a search answers behind what has been written.
LEMMA NextFound ==
  ASSUME NEW c \in Calls, c.src # <<>>, NEW i \in 0 .. Len(c.text), NEW d \in Seq(char16_t),
         NEW s, s = d \o Rest(c.text, i), Plain(s), Len(s) <= MaxSize,
         NEW e \in NextIndex(c, s, Len(d))
  PROVE  e = [c EXCEPT !.index = IndexFrom(c, i, d)]
<1>1. c.text \in Seq(char16_t) /\ c.src \in Seq(char16_t)
  BY DEF Calls
<1>2. s \in Seq(char16_t) /\ Len(d) \in 0 .. Len(s)
  <2>1. Rest(c.text, i) \in Seq(char16_t)
    BY <1>1, RestIs
  <2> QED BY <2>1
<1> DEFINE p == c.src
           t == c.text
           cs == c.cs
           n == Len(d)
<1>3. string_index_of(s, p, n, SIZE_MAX, cs) = {FirstLater(s, p, cs, n)}
  <2>1. /\ s \in Seq(char16_t) /\ BMP(s) /\ HasNoNul(s) /\ p \in Seq(char16_t) /\ p # <<>>
        /\ n \in 0 .. Len(s)
    BY <1>1, <1>2 DEF Plain
  <2> HIDE DEF p, cs, n
  <2>2. IsSearchFrom(s, p, cs, n)
    BY <2>1, SearchFrom
  <2> QED BY <2>2 DEF IsSearchFrom
<1>4. FirstLater(s, p, cs, n) = IndexFrom(c, i, d)
  <2>1. p \in Seq(char16_t) /\ p # <<>> /\ t \in Seq(char16_t) /\ i \in 0 .. Len(t)
        /\ s = d \o Rest(t, i)
    BY <1>1
  <2> HIDE DEF p, cs, t
  <2>2. FirstLater(d \o Rest(t, i), p, cs, Len(d)) =
          IF Later(t, p, cs, i) = {} THEN SIZE_MAX ELSE Len(d) + (Min(Later(t, p, cs, i)) - i)
    BY <2>1, LaterInRest
  <2> QED BY <2>1, <2>2 DEF IndexFrom, p, cs, t
<1> DEFINE found == string_index_of(s, c.src, Len(d), SIZE_MAX, c.cs)
<1>5. NextIndex(c, s, Len(d)) =
        IF found = {} THEN {Terminated} ELSE {[c EXCEPT !.index = k] : k \in found}
  BY Zenon DEF NextIndex
<1>6. found = {IndexFrom(c, i, d)}
  BY <1>3, <1>4
<1> HIDE DEF found
<1> QED BY <1>5, <1>6

\* The calls that ReplacesAll is about.
UnitsOnly(c) ==
  /\ BMP(c.text \o c.src \o c.dest) /\ HasNoNul(c.text \o c.dest)
  /\ Len(c.dest) <= Len(c.src)

\* The string that is replaced in consists of d, written for the first i units
\* of the text, and of the rest of the text.
ReplacedUpTo(i, d) ==
  /\ Len(d) <= i /\ Plain(d)
  /\ str[call.on] = d \o Rest(call.text, i)
  /\ call.index = IndexFrom(call, i, d)
  /\ \A f : IsReplacing(f, call.text, call.src, call.dest, call.cs) => f[0] = d \o f[i]

\* The invariant of the loop of replace_origin (ostr.cpp:92-103): the length taken
\* at the start is that of the text, and the text has been replaced up to some
\* offset.
ReplaceInv ==
  Replacing =>
    /\ call.len = Len(call.text)
    /\ UnitsOnly(call) =>
         \E i \in 0 .. Len(call.text) : \E d \in Seq(char16_t) : ReplacedUpTo(i, d)

\* The three texts of such a call are plain.
LEMMA UnitsOnlyPlain ==
  ASSUME NEW c \in Calls, UnitsOnly(c)
  PROVE  Plain(c.text) /\ Plain(c.dest)
<1>1. c.text \in Seq(char16_t) /\ c.src \in Seq(char16_t) /\ c.dest \in Seq(char16_t)
  BY DEF Calls
<1>2. c.text \o c.src \in Seq(char16_t)
  BY <1>1
<1>3. BMP(c.text \o c.src) /\ BMP(c.dest)
  BY <1>1, <1>2, PlainJoin DEF UnitsOnly
<1>4. BMP(c.text)
  BY <1>1, <1>3, PlainJoin
<1>5. HasNoNul(c.text) /\ HasNoNul(c.dest)
  BY <1>1, PlainJoin DEF UnitsOnly
<1> QED BY <1>3, <1>4, <1>5 DEF Plain

\* A search of the loop sets the index only.
LEMMA NextIndexOnly ==
  ASSUME NEW c \in Calls, NEW s, NEW from, NEW e \in NextIndex(c, s, from), e.status = "replacing"
  PROVE  /\ e.on = c.on /\ e.src = c.src /\ e.dest = c.dest /\ e.cs = c.cs
         /\ e.text = c.text /\ e.len = c.len
<1> DEFINE found == string_index_of(s, c.src, from, SIZE_MAX, c.cs)
<1>1. NextIndex(c, s, from) =
        IF found = {} THEN {Terminated} ELSE {[c EXCEPT !.index = k] : k \in found}
  BY Zenon DEF NextIndex
<1> HIDE DEF found
<1>2. e # Terminated
  BY DEF Terminated
<1>3. PICK k \in found : e = [c EXCEPT !.index = k]
  BY <1>1, <1>2
<1> QED BY <1>3 DEF Calls

\* The call that replace_origin starts with.
LEMMA StartReplaced ==
  ASSUME NEW o \in Strings, NEW s \in Seq(char16_t), Len(s) <= MaxSize,
         NEW src \in Patterns, src # <<>>, NEW dest \in Patterns, NEW cs \in case_sensitivity,
         NEW e \in ReplaceCalls(o, s, src, dest, cs), e.status = "replacing"
  PROVE  /\ e.on = o /\ e.text = s /\ e.len = Len(s)
         /\ UnitsOnly(e) => e.index = IndexFrom(e, 0, <<>>)
<1> DEFINE c == [status |-> "replacing", on |-> o, src |-> src, dest |-> dest, cs |-> cs,
                 text |-> s, len |-> Len(s), index |-> 0]
<1>1. Len(s) \in 0 .. MaxSize /\ src \in Seq(char16_t) /\ dest \in Seq(char16_t)
  BY OStrAssumption
<1>2. c \in Calls /\ c.src = src /\ c.on = o /\ c.text = s /\ c.len = Len(s) /\ c.cs = cs /\ c.dest = dest
  BY <1>1, SizeIsNat DEF Calls
<1>3. e \in NextIndex(c, s, 0)
  BY DEF ReplaceCalls
<1> HIDE DEF c
<1>4. /\ e.on = c.on /\ e.src = c.src /\ e.dest = c.dest /\ e.cs = c.cs
      /\ e.text = c.text /\ e.len = c.len
  BY <1>2, <1>3, NextIndexOnly
<1>5. ASSUME UnitsOnly(e) PROVE e.index = IndexFrom(e, 0, <<>>)
  <2>1. UnitsOnly(c)
    BY <1>4, <1>5 DEF UnitsOnly
  <2>2. Plain(s)
    BY <1>2, <2>1, UnitsOnlyPlain
  <2> DEFINE d == <<>>
             i == 0
  <2>3. d \in Seq(char16_t) /\ Len(d) = 0 /\ i \in 0 .. Len(c.text) /\ s = d \o Rest(c.text, i)
    <3>1. Rest(s, 0) = s
      BY SubSeqFull DEF Rest
    <3> QED BY <1>1, <1>2, <3>1
  <2> HIDE DEF d, i
  <2>4. e \in NextIndex(c, s, Len(d)) /\ c.src # <<>>
    BY <1>2, <1>3, <2>3
  <2>5. e = [c EXCEPT !.index = IndexFrom(c, i, d)]
    BY <1>2, <2>2, <2>3, <2>4, NextFound
  <2>6. e.index = IndexFrom(c, i, d)
    BY <1>2, <2>5 DEF Calls
  <2>7. IndexFrom(e, i, d) = IndexFrom(c, i, d)
    BY <1>4 DEF IndexFrom
  <2> QED BY <2>6, <2>7 DEF d, i
<1> QED BY <1>2, <1>4, <1>5

\* Where the call has just begun.
LEMMA StartInv ==
  ASSUME NEW o \in Strings, NEW s \in Seq(char16_t), Len(s) <= MaxSize,
         NEW src \in Patterns, src # <<>>, NEW dest \in Patterns, NEW cs \in case_sensitivity,
         call \in ReplaceCalls(o, s, src, dest, cs), str[o] = s
  PROVE  ReplaceInv
<1> SUFFICES ASSUME Replacing
             PROVE  /\ call.len = Len(call.text)
                    /\ UnitsOnly(call) =>
                         \E i \in 0 .. Len(call.text) : \E d \in Seq(char16_t) : ReplacedUpTo(i, d)
  BY DEF ReplaceInv
<1>1. /\ call.on = o /\ call.text = s /\ call.len = Len(s)
      /\ UnitsOnly(call) => call.index = IndexFrom(call, 0, <<>>)
  BY StartReplaced DEF Replacing
<1>2. ASSUME UnitsOnly(call) PROVE ReplacedUpTo(0, <<>>)
  <2>1. Plain(<<>>)
    BY DEF Plain, BMP, HasNoNul
  <2>2. Rest(s, 0) = s
    BY SubSeqFull DEF Rest
  <2>3. str[call.on] = <<>> \o Rest(call.text, 0)
    BY <1>1, <2>2
  <2>4. ASSUME NEW f, IsReplacing(f, call.text, call.src, call.dest, call.cs)
        PROVE  f[0] = <<>> \o f[0]
    <3>1. f[0] \in Seq(char16_t)
      BY <1>1, <2>4 DEF IsReplacing
    <3> QED BY <3>1
  <2> QED BY <1>1, <1>2, <2>1, <2>3, <2>4 DEF ReplacedUpTo
<1>3. 0 \in 0 .. Len(call.text) /\ <<>> \in Seq(char16_t)
  BY <1>1
<1> QED BY <1>1, <1>2, <1>3

\* A part of what is behind an offset, and what is behind that part.
LEMMA PartOfRest ==
  ASSUME NEW t \in Seq(char16_t), NEW i \in 0 .. Len(t), NEW n \in 0 .. (Len(t) - i)
  PROVE  /\ SubSeq(Rest(t, i), 1, n) = SubSeq(t, i + 1, i + n)
         /\ Rest(Rest(t, i), n) = Rest(t, i + n)
<1> DEFINE r == Rest(t, i)
           L == Len(t)
<1>1. /\ L \in Nat /\ i \in Nat /\ n \in Nat /\ i + n <= L /\ i <= L
      /\ r \in Seq(char16_t) /\ Len(r) = L - i /\ \A k \in 1 .. (L - i) : r[k] = t[i + k]
  BY RestIs
<1> HIDE DEF r
<1>2. SubSeq(r, 1, n) = SubSeq(t, i + 1, i + n)
  <2> DEFINE x == SubSeq(r, 1, n)
             y == SubSeq(t, i + 1, i + n)
  <2>1. x \in Seq(char16_t) /\ Len(x) = n /\ \A k \in 1 .. n : x[k] = r[k]
    BY <1>1
  <2>2. y \in Seq(char16_t) /\ Len(y) = n /\ \A k \in 1 .. n : y[k] = t[i + k]
    <3>1. i + 1 \in Int /\ i + n \in Int /\ \A k \in (i + 1) .. (i + n) : t[k] \in char16_t
      BY <1>1
    <3>2. /\ y \in Seq(char16_t)
          /\ Len(y) = IF i + 1 <= i + n THEN (i + n) - (i + 1) + 1 ELSE 0
          /\ \A k \in 1 .. ((i + n) - (i + 1) + 1) : y[k] = t[(i + 1) + k - 1]
      BY <3>1, SubSeqProperties
    <3> HIDE DEF y
    <3> QED BY <1>1, <3>2
  <2> HIDE DEF x, y
  <2>3. \A k \in 1 .. n : x[k] = y[k]
    <3> SUFFICES ASSUME NEW k \in 1 .. n PROVE x[k] = y[k]
      OBVIOUS
    <3>1. k \in 1 .. (L - i)
      BY <1>1
    <3> QED BY <1>1, <2>1, <2>2, <3>1
  <2>4. x = y
    BY <2>1, <2>2, <2>3, SeqEqual
  <2> QED BY <2>4 DEF x, y
<1>3. Rest(r, n) = Rest(t, i + n)
  <2> DEFINE x == Rest(r, n)
             y == Rest(t, i + n)
  <2>1. /\ x \in Seq(char16_t) /\ Len(x) = Len(r) - n
        /\ \A k \in 1 .. (Len(r) - n) : x[k] = r[n + k]
    <3>1. n \in 0 .. Len(r)
      BY <1>1
    <3> QED BY <1>1, <3>1, RestIs
  <2>2. /\ y \in Seq(char16_t) /\ Len(y) = L - (i + n)
        /\ \A k \in 1 .. (L - (i + n)) : y[k] = t[(i + n) + k]
    <3>1. i + n \in 0 .. L
      BY <1>1
    <3> QED BY <3>1, RestIs
  <2> HIDE DEF x, y
  <2>3. Len(x) = Len(y)
    BY <1>1, <2>1, <2>2
  <2>4. \A k \in 1 .. Len(x) : x[k] = y[k]
    <3> SUFFICES ASSUME NEW k \in 1 .. Len(x) PROVE x[k] = y[k]
      OBVIOUS
    <3>1. /\ n + k \in 1 .. (L - i) /\ i + (n + k) = (i + n) + k
          /\ k \in 1 .. (Len(r) - n) /\ k \in 1 .. (L - (i + n))
      BY <1>1, <2>1
    <3>2. x[k] = r[n + k] /\ y[k] = t[(i + n) + k] /\ r[n + k] = t[i + (n + k)]
      BY <1>1, <2>1, <2>2, <3>1
    <3> QED BY <3>1, <3>2
  <2>5. x = y
    BY <2>1, <2>2, <2>3, <2>4, SeqEqual
  <2> QED BY <2>5 DEF x, y
<1> QED BY <1>2, <1>3 DEF r

\* Joining is associative.
LEMMA ThreeJoined ==
  \A a, b, c \in Seq(char16_t) : a \o b \in Seq(char16_t) /\ a \o (b \o c) = (a \o b) \o c
  BY ConcatAssociative

\* Four texts joined in two orders.
AreJoined(a, b, c, d) == a \o ((b \o c) \o d) = ((a \o b) \o c) \o d

\* Joining is associative, for four texts.
LEMMA FourJoined ==
  \A a, b, c, d \in Seq(char16_t) : AreJoined(a, b, c, d)
<1> SUFFICES ASSUME NEW a \in Seq(char16_t), NEW b \in Seq(char16_t), NEW c \in Seq(char16_t),
                    NEW d \in Seq(char16_t)
             PROVE  a \o ((b \o c) \o d) = ((a \o b) \o c) \o d
  BY DEF AreJoined
<1>1. b \o c \in Seq(char16_t) /\ a \o (b \o c) = (a \o b) \o c
  BY ThreeJoined
<1> DEFINE u == b \o c
<1> HIDE DEF u
<1>2. u \in Seq(char16_t)
  BY <1>1 DEF u
<1>3. a \o (u \o d) = (a \o u) \o d
  BY <1>2, ThreeJoined
<1> QED BY <1>1, <1>3 DEF u

\* What an iteration makes of the string: i and d as before, i2 and d2 as after
\* it.
Advances(T, src, dest, cs, i, d, index, t, i2, d2) ==
  /\ d2 \in Seq(char16_t) /\ Plain(d2) /\ Len(d2) <= i2 /\ Len(d2) = index + Len(dest)
  /\ t = d2 \o Rest(T, i2) /\ Plain(t) /\ Len(d2) <= Len(t)
  /\ \A f : IsReplacing(f, T, src, dest, cs) /\ f[0] = d \o f[i] => f[0] = d2 \o f[i2]

\* The splice of an iteration replaces the next occurrence.
LEMMA SpliceAdvances ==
  ASSUME NEW T \in Seq(char16_t), NEW src \in Seq(char16_t), src # <<>>,
         NEW dest \in Seq(char16_t), NEW cs, Plain(T), Plain(dest), Len(dest) <= Len(src),
         NEW i \in 0 .. Len(T), NEW d \in Seq(char16_t), Plain(d), Len(d) <= i,
         Later(T, src, cs, i) # {}, NEW s, s = d \o Rest(T, i),
         NEW index, index = Len(d) + (Min(Later(T, src, cs, i)) - i),
         NEW t \in Splice(s, index, index + Len(src), dest)
  PROVE  \E i2 \in 0 .. Len(T) : \E d2 : Advances(T, src, dest, cs, i, d, index, t, i2, d2)
<1> DEFINE j == Min(Later(T, src, cs, i))
           k == Len(src)
           m == Len(d)
           n == j - i
           r == Rest(T, i)
           h == SubSeq(T, i + 1, j)
           u == d \o h
           d2 == u \o dest
           i2 == j + k
           v == Rest(T, i2)
<1>1. j \in Nat /\ i <= j /\ j < Len(T) /\ i2 \in 0 .. Len(T)
  BY LaterIs
<1>2. k \in Nat \ {0} /\ m \in Nat /\ Len(dest) \in Nat /\ Len(T) \in Nat /\ i \in Nat
  BY EmptySeq
<1>3. r \in Seq(char16_t) /\ Len(r) = Len(T) - i
  BY RestIs
<1>4. index = m + n
  OBVIOUS
<1> HIDE DEF j
<1>5. n \in 0 .. Len(r) /\ n + k \in 0 .. Len(r) /\ i + n = j /\ i + (n + k) = i2
      /\ n \in 0 .. (Len(T) - i) /\ n + k \in 0 .. (Len(T) - i)
  BY <1>1, <1>2, <1>3
<1>6. h \in Seq(char16_t) /\ Plain(h) /\ Len(h) = n /\ SubSeq(r, 1, n) = h
  <2>1. j \in 0 .. Len(T)
    BY <1>1, <1>2
  <2>2. h \in Seq(char16_t) /\ Plain(h)
    BY <2>1, PlainPart
  <2>3. SubSeq(r, 1, n) = h
    BY <1>5, PartOfRest
  <2>4. Len(SubSeq(r, 1, n)) = n
    <3> HIDE DEF r, n
    <3> QED BY <1>3, <1>5
  <2> QED BY <2>2, <2>3, <2>4
<1>7. v \in Seq(char16_t) /\ Plain(v) /\ Rest(r, n + k) = v
  <2>1. v \in Seq(char16_t) /\ Plain(v)
    <3>1. i2 \in 0 .. Len(T) /\ Len(T) \in 0 .. Len(T)
      BY <1>1, <1>2
    <3> HIDE DEF i2
    <3> QED BY <3>1, PlainPart DEF Rest
  <2>2. Rest(r, n + k) = Rest(T, i + (n + k))
    <3> DEFINE x == n + k
    <3>1. x \in 0 .. (Len(T) - i)
      BY <1>5
    <3> HIDE DEF x
    <3>2. Rest(Rest(T, i), x) = Rest(T, i + x)
      BY <3>1, PartOfRest
    <3> QED BY <3>2 DEF x
  <2> QED BY <1>5, <2>1, <2>2
<1> HIDE DEF h, v, n, r, k, m
<1>8. u \in Seq(char16_t) /\ Len(u) = m + n /\ Plain(u)
  <2>1. u \in Seq(char16_t) /\ Len(u) = m + n
    <3> HIDE DEF u
    <3>1. d \in Seq(char16_t) /\ h \in Seq(char16_t) /\ u = d \o h
      BY <1>6 DEF u
    <3>2. u \in Seq(char16_t) /\ Len(u) = Len(d) + Len(h)
      BY <3>1, ConcatProperties
    <3> QED BY <1>6, <3>2 DEF m
  <2>2. Plain(u)
    BY <1>6, PlainJoin
  <2> QED BY <2>1, <2>2
<1> HIDE DEF u
<1>9. d2 \in Seq(char16_t) /\ Len(d2) = m + n + Len(dest) /\ Plain(d2)
  <2>1. d2 \in Seq(char16_t) /\ Len(d2) = m + n + Len(dest)
    <3> HIDE DEF d2
    <3>1. d2 = u \o dest
      BY DEF d2
    <3>2. d2 \in Seq(char16_t) /\ Len(d2) = Len(u) + Len(dest)
      BY <1>8, <3>1, ConcatProperties
    <3> QED BY <1>8, <3>2
  <2>2. Plain(d2)
    BY <1>8, PlainJoin
  <2> QED BY <2>1, <2>2
<1>10. t = d2 \o v
  <2>1. s = d \o r /\ s \in Seq(char16_t) /\ Len(s) = m + Len(r)
    <3> DEFINE x == d \o r
    <3> HIDE DEF x
    <3>1. x = d \o r /\ d \in Seq(char16_t) /\ s = x
      BY DEF x, r
    <3>2. x \in Seq(char16_t) /\ Len(x) = Len(d) + Len(r)
      BY <1>3, <3>1, ConcatProperties
    <3> QED BY <3>1, <3>2 DEF m
  <2>2. /\ SubSeq(s, 1, m + n) = u
        /\ Rest(s, m + (n + k)) = v
    <3>1. SubSeq(d \o r, 1, Len(d) + n) = d \o SubSeq(r, 1, n)
      BY <1>3, <1>5, JoinedParts
    <3>2. Rest(d \o r, Len(d) + (n + k)) = Rest(r, n + k)
      <4> DEFINE x == n + k
      <4>1. x \in 0 .. Len(r)
        BY <1>5
      <4> HIDE DEF x
      <4>2. Rest(d \o r, Len(d) + x) = Rest(r, x)
        BY <1>3, <4>1, JoinedParts
      <4> QED BY <4>2 DEF x
    <3> QED BY <1>6, <1>7, <2>1, <3>1, <3>2 DEF m, u
  <2> DEFINE e == index + k
  <2>3. e = m + (n + k) /\ e \in index .. Len(s) /\ index \in 0 .. Len(s) /\ index = m + n
    <3>1. index = m + n /\ m \in Nat /\ Len(s) = m + Len(r) /\ Len(r) \in Nat
      BY <1>2, <1>3, <1>4, <2>1 DEF m
    <3>2. k \in Nat /\ n \in Nat /\ n <= Len(r) /\ n + k <= Len(r)
      BY <1>2, <1>3, <1>5
    <3> DEFINE l == Len(r)
               z == Len(s)
    <3> HIDE DEF l, z, m, n, k
    <3>3. z = m + l /\ l \in Nat /\ n <= l /\ n + k <= l
      BY <3>1, <3>2 DEF l, z
    <3>4. index + k = m + (n + k) /\ index + k \in index .. z /\ index \in 0 .. z
      BY ONLY <3>1, <3>2, <3>3
    <3> QED BY <3>1, <3>4 DEF z
  <2>4. t = SubSeq(s, 1, index) \o dest \o
              SubSeq(s, 1 + (IF e \in index .. Len(s) THEN e ELSE Len(s)), Len(s))
    BY DEF Splice, k
  <2> HIDE DEF e
  <2>5. t = SubSeq(s, 1, index) \o dest \o SubSeq(s, e + 1, Len(s))
    <3>1. 1 + e = e + 1
      BY <1>2, <1>5, <2>3
    <3> QED BY <2>3, <2>4, <3>1
  <2> QED BY <2>2, <2>3, <2>5 DEF Rest
<1>11. t \in Seq(char16_t) /\ Plain(t) /\ Len(d2) <= Len(t)
  <2>1. Plain(t)
    BY <1>7, <1>9, <1>10, PlainJoin
  <2>2. t \in Seq(char16_t) /\ Len(d2) <= Len(t)
    <3> HIDE DEF d2
    <3> QED BY <1>7, <1>9, <1>10
  <2> QED BY <2>1, <2>2
<1>12. Len(d2) <= i2 /\ Len(d2) = index + Len(dest)
  <2>1. Len(d2) = m + n + Len(dest) /\ m <= i /\ Len(dest) <= k /\ n \in Nat /\ i + n = j
    BY <1>3, <1>5, <1>9 DEF m, k
  <2>2. i2 = i + n + k /\ m \in Nat /\ n \in Nat /\ k \in Nat /\ i \in Nat /\ Len(dest) \in Nat
    BY <1>1, <1>2, <2>1
  <2> DEFINE a == Len(dest)
             b == Len(d2)
  <2>3. b = m + n + a /\ m <= i /\ a <= k /\ a \in Nat
    BY <2>1, <2>2
  <2> HIDE DEF d2, i2, a, b
  <2>4. b <= i2
    BY <2>2, <2>3
  <2>5. b = (m + n) + a
    BY <2>2, <2>3
  <2>6. b = index + a
    BY <1>4, <2>5
  <2> QED BY <2>4, <2>6 DEF a, b
<1>13. ASSUME NEW f, IsReplacing(f, T, src, dest, cs), f[0] = d \o f[i]
       PROVE  f[0] = d2 \o f[i2]
  <2>1. f[i] = Replacement(f, T, src, dest, cs, i) /\ f[i2] \in Seq(char16_t)
    BY <1>1, <1>13 DEF IsReplacing
  <2>2. Replacement(f, T, src, dest, cs, i) = (h \o dest) \o f[i2]
    BY DEF Replacement, h, j, k
  <2> DEFINE w == f[i2]
  <2> HIDE DEF w, d2, i2
  <2>3. d \o ((h \o dest) \o w) = ((d \o h) \o dest) \o w
    <3>1. d \in Seq(char16_t) /\ h \in Seq(char16_t) /\ dest \in Seq(char16_t) /\ w \in Seq(char16_t)
      BY <1>6, <2>1 DEF w
    <3> HIDE DEF h
    <3>2. AreJoined(d, h, dest, w)
      BY <3>1, FourJoined
    <3> QED BY <3>2 DEF AreJoined
  <2>4. f[0] = d \o ((h \o dest) \o w)
    BY <1>13, <2>1, <2>2 DEF w
  <2>5. ((d \o h) \o dest) \o w = d2 \o w
    BY DEF d2, u
  <2> QED BY <2>3, <2>4, <2>5 DEF w
<1>14. Advances(T, src, dest, cs, i, d, index, t, i2, d2)
  <2> HIDE DEF d2, i2
  <2> QED BY <1>9, <1>10, <1>11, <1>12, <1>13 DEF Advances, v
<1> HIDE DEF d2, i2
<1> QED BY <1>1, <1>14

\* An iteration keeps the invariant of the loop.
LEMMA IterationAdvances ==
  ASSUME TypeOK, IndexInv, ReplaceInv, ReplaceIteration, Replacing', UnitsOnly(call)
  PROVE  \E i \in 0 .. Len(call'.text) : \E d \in Seq(char16_t) : ReplacedUpTo(i, d)'
<1> DEFINE o == call.on
           T == call.text
           src == call.src
           dest == call.dest
           cs == call.cs
<1>1. /\ call \in Calls /\ o \in Strings /\ src \in Seq(char16_t) /\ dest \in Seq(char16_t)
      /\ T \in Seq(char16_t) /\ src # <<>> /\ Plain(T) /\ Plain(dest) /\ Len(dest) <= Len(src)
      /\ call.index \in Nat /\ call.len \in 0 .. MaxSize /\ call.index < call.len
      /\ call.len = Len(T) /\ str[o] \in Seq(char16_t) /\ str \in [Strings -> Seq(char16_t)]
  <2>1. call \in Calls /\ src # <<>> /\ call.index < call.len /\ call.len = Len(T)
    BY ReplacingType DEF ReplaceIteration, IndexInv, ReplaceInv
  <2>2. Plain(T) /\ Plain(dest) /\ Len(dest) <= Len(src)
    BY <2>1, UnitsOnlyPlain DEF UnitsOnly
  <2> QED BY <2>1, <2>2, SizeIsNat DEF Calls, TypeOK
<1>2. PICK t \in Splice(str[o], call.index, call.index + Len(src), dest) :
         /\ Len(t) <= MaxSize
         /\ str' = [str EXCEPT ![o] = t]
         /\ call' \in NextIndex(call, t, Wrap(call.index + Len(dest)))
  BY DEF ReplaceIteration
<1>3. PICK i \in 0 .. Len(T) : \E d \in Seq(char16_t) : ReplacedUpTo(i, d)
  BY DEF ReplaceIteration, ReplaceInv
<1>4. PICK d \in Seq(char16_t) : ReplacedUpTo(i, d)
  BY <1>3
<1>5. /\ Len(d) <= i /\ Plain(d) /\ str[o] = d \o Rest(T, i) /\ call.index = IndexFrom(call, i, d)
      /\ \A f : IsReplacing(f, T, src, dest, cs) => f[0] = d \o f[i]
  BY <1>4 DEF ReplacedUpTo
<1>6. /\ Later(T, src, cs, i) # {}
      /\ call.index = Len(d) + (Min(Later(T, src, cs, i)) - i)
  <2>1. call.index # SIZE_MAX
    BY <1>1, OStrAssumption, SizeMaxAssumption
  <2> QED BY <1>5, <2>1 DEF IndexFrom
<1>7. PICK i2 \in 0 .. Len(T) : \E d2 : Advances(T, src, dest, cs, i, d, call.index, t, i2, d2)
  <2> DEFINE s == str[o]
             x == call.index
  <2>1. /\ s = d \o Rest(T, i) /\ x = Len(d) + (Min(Later(T, src, cs, i)) - i)
        /\ t \in Splice(s, x, x + Len(src), dest)
    BY <1>2, <1>5, <1>6
  <2> HIDE DEF s, x, T, src, dest, cs
  <2>2. \E i2 \in 0 .. Len(T) : \E d2 : Advances(T, src, dest, cs, i, d, x, t, i2, d2)
    BY <1>1, <1>5, <1>6, <2>1, SpliceAdvances
  <2> QED BY <2>2 DEF x
<1>8. PICK d2 : Advances(T, src, dest, cs, i, d, call.index, t, i2, d2)
  BY <1>7
<1>9. /\ d2 \in Seq(char16_t) /\ Plain(d2) /\ Len(d2) <= i2 /\ Len(d2) = call.index + Len(dest)
      /\ t = d2 \o Rest(T, i2) /\ Plain(t) /\ Len(d2) <= Len(t)
      /\ \A f : IsReplacing(f, T, src, dest, cs) => f[0] = d2 \o f[i2]
  BY <1>5, <1>8 DEF Advances
<1>10. Wrap(call.index + Len(dest)) = Len(d2)
  <2>1. Len(d2) \in Nat /\ Len(t) \in Nat
    <3>1. t \in Seq(char16_t)
      <4>1. Rest(T, i2) \in Seq(char16_t)
        BY <1>1, RestIs
      <4> QED BY <1>9, <4>1
    <3> QED BY <1>9, <3>1
  <2>2. Len(d2) \in 0 .. SIZE_MAX
    BY <1>2, <1>9, <2>1, OStrAssumption, SizeMaxAssumption
  <2> QED BY <1>9, <2>2, WrapFits DEF size_t
<1>11. call' = [call EXCEPT !.index = IndexFrom(call, i2, d2)]
  <2>1. call' \in NextIndex(call, t, Len(d2))
    BY <1>2, <1>10
  <2> DEFINE c == call
             e == call'
  <2>2. /\ c \in Calls /\ c.src # <<>> /\ i2 \in 0 .. Len(c.text) /\ t = d2 \o Rest(c.text, i2)
        /\ e \in NextIndex(c, t, Len(d2))
    BY <1>1, <1>9, <2>1
  <2> HIDE DEF c, e
  <2>3. e = [c EXCEPT !.index = IndexFrom(c, i2, d2)]
    BY <1>2, <1>9, <2>2, NextFound
  <2> QED BY <2>3 DEF c, e
<1>12. /\ call'.on = o /\ call'.src = src /\ call'.dest = dest /\ call'.cs = cs /\ call'.text = T
       /\ call'.index = IndexFrom(call, i2, d2)
  BY <1>1, <1>11 DEF Calls
<1>13. IndexFrom(call', i2, d2) = IndexFrom(call, i2, d2)
  BY <1>12 DEF IndexFrom
<1>14. str'[o] = t
  BY <1>1, <1>2
<1>15. ReplacedUpTo(i2, d2)'
  <2>1. str'[call'.on] = d2 \o Rest(call'.text, i2)
    BY <1>9, <1>12, <1>14
  <2>2. \A f : IsReplacing(f, call'.text, call'.src, call'.dest, call'.cs) => f[0] = d2 \o f[i2]
    BY <1>9, <1>12
  <2> QED BY <1>9, <1>12, <1>13, <2>1, <2>2 DEF ReplacedUpTo
<1> QED BY <1>9, <1>12, <1>15

\* Where a step of the program begins the call.
LEMMA BegunInv ==
  ASSUME NEW o \in Strings, NEW s \in Seq(char16_t), Len(s) <= MaxSize,
         NEW src \in Patterns, src # <<>>, NEW dest \in Patterns, NEW cs \in case_sensitivity,
         call' \in ReplaceCalls(o, s, src, dest, cs), str'[o] = s
  PROVE  ReplaceInv'
<1> SUFFICES ASSUME Replacing'
             PROVE  /\ call'.len = Len(call'.text)
                    /\ UnitsOnly(call') =>
                         \E i \in 0 .. Len(call'.text) : \E d \in Seq(char16_t) : ReplacedUpTo(i, d)'
  BY DEF ReplaceInv
<1>1. /\ call'.on = o /\ call'.text = s /\ call'.len = Len(s)
      /\ UnitsOnly(call') => call'.index = IndexFrom(call', 0, <<>>)
  BY StartReplaced DEF Replacing
<1>2. ASSUME UnitsOnly(call') PROVE ReplacedUpTo(0, <<>>)'
  <2>1. Plain(<<>>)
    BY DEF Plain, BMP, HasNoNul
  <2>2. Rest(s, 0) = s
    BY SubSeqFull DEF Rest
  <2>3. str'[call'.on] = <<>> \o Rest(call'.text, 0)
    BY <1>1, <2>2
  <2>4. ASSUME NEW f, IsReplacing(f, call'.text, call'.src, call'.dest, call'.cs)
        PROVE  f[0] = <<>> \o f[0]
    <3>1. f[0] \in Seq(char16_t)
      BY <1>1, <2>4 DEF IsReplacing
    <3> QED BY <3>1
  <2> QED BY <1>1, <1>2, <2>1, <2>3, <2>4 DEF ReplacedUpTo
<1>3. 0 \in 0 .. Len(call'.text) /\ <<>> \in Seq(char16_t)
  BY <1>1
<1> QED BY <1>1, <1>2, <1>3

\* Every step keeps the invariant of the loop.
LEMMA ReplaceStep == TypeOK /\ IndexInv /\ ReplaceInv /\ [Next]_vars => ReplaceInv'
<1> SUFFICES ASSUME TypeOK, IndexInv, ReplaceInv, [Next]_vars, Replacing'
             PROVE  ReplaceInv'
  BY DEF ReplaceInv
<1>1. call' # NoCall
  BY DEF Replacing, NoCall
<1>2. CASE CallNext
  <2>1. call' = NoCall
    BY <1>2 DEF CallNext, FromCStr, FromUnits, DecodeFromUtf8, FromBytes, ReplaceRange, FromFill,
                Copy, Move, AppendString, TrimStart, TrimEnd, Trim, Concat, Substring, Assign
  <2> QED BY <1>1, <2>1
<1>3. CASE \E o \in Strings, src \in Patterns, dest \in Patterns, cs \in case_sensitivity :
             ReplaceStart(o, src, dest, cs)
  <2>1. PICK o \in Strings, src \in Patterns, dest \in Patterns, cs \in case_sensitivity :
          ReplaceStart(o, src, dest, cs)
    BY <1>3
  <2>2. src # <<>> /\ call' \in ReplaceCalls(o, str[o], src, dest, cs) /\ str' = str
    BY <2>1 DEF ReplaceStart
  <2>3. str[o] \in Seq(char16_t) /\ Len(str[o]) <= MaxSize /\ str'[o] = str[o]
    BY <2>2, StrTypes
  <2> QED BY <2>2, <2>3, BegunInv
<1>4. CASE ReplaceIteration
  <2>1. call \in Calls
    BY <1>4, ReplacingType DEF ReplaceIteration
  <2>2. PICK t, from : call' \in NextIndex(call, t, from)
    BY <1>4 DEF ReplaceIteration
  <2>3. /\ call'.on = call.on /\ call'.src = call.src /\ call'.dest = call.dest /\ call'.cs = call.cs
        /\ call'.text = call.text /\ call'.len = call.len
    BY <2>1, <2>2, NextIndexOnly DEF Replacing
  <2>4. call'.len = Len(call'.text)
    BY <1>4, <2>3 DEF ReplaceInv, ReplaceIteration
  <2>5. UnitsOnly(call') <=> UnitsOnly(call)
    BY <2>3 DEF UnitsOnly
  <2>6. UnitsOnly(call') =>
          \E i \in 0 .. Len(call'.text) : \E d \in Seq(char16_t) : ReplacedUpTo(i, d)'
    BY <1>4, <2>5, IterationAdvances
  <2> QED BY <2>4, <2>6 DEF ReplaceInv
<1>5. CASE ReplaceReturn \/ ReplaceThrows
  BY <1>1, <1>5 DEF ReplaceReturn, ReplaceThrows
<1>6. CASE UNCHANGED vars
  BY <1>6 DEF vars, ReplaceInv, Replacing, ReplacedUpTo
<1> QED BY <1>2, <1>3, <1>4, <1>5, <1>6 DEF Next, ReplaceLoop

\* When the loop ends nothing is left to be replaced.
LEMMA AllReplacedAtEnd == TypeOK /\ IndexInv /\ ReplaceInv => ReplacesAll
<1> SUFFICES ASSUME TypeOK, IndexInv, ReplaceInv, LoopOver, UnitsOnly(call) PROVE Replaced
  BY DEF ReplacesAll, UnitsOnly
<1> DEFINE o == call.on
           T == call.text
           src == call.src
           dest == call.dest
           cs == call.cs
<1>1. /\ call \in Calls /\ src \in Seq(char16_t) /\ dest \in Seq(char16_t) /\ T \in Seq(char16_t)
      /\ src # <<>> /\ call.len = Len(T) /\ call.index >= call.len /\ call.len \in Nat
  BY ReplacingType DEF LoopOver, IndexInv, ReplaceInv, Calls
<1>2. PICK i \in 0 .. Len(T) : \E d \in Seq(char16_t) : ReplacedUpTo(i, d)
  BY DEF LoopOver, ReplaceInv
<1>3. PICK d \in Seq(char16_t) : ReplacedUpTo(i, d)
  BY <1>2
<1>4. /\ Len(d) <= i /\ str[o] = d \o Rest(T, i) /\ call.index = IndexFrom(call, i, d)
      /\ \A f : IsReplacing(f, T, src, dest, cs) => f[0] = d \o f[i]
  BY <1>3 DEF ReplacedUpTo
<1>5. Later(T, src, cs, i) = {}
  <2> SUFFICES ASSUME Later(T, src, cs, i) # {} PROVE FALSE
    OBVIOUS
  <2> DEFINE j == Min(Later(T, src, cs, i))
  <2>1. j \in Nat /\ i <= j /\ j < Len(T)
    BY <1>1, LaterIs
  <2>2. call.index = Len(d) + (j - i)
    BY <1>4 DEF IndexFrom
  <2> DEFINE x == call.index
             m == Len(d)
             l == Len(T)
  <2>3. m \in Nat /\ i \in Nat /\ l \in Nat /\ m <= i
    BY <1>1, <1>4
  <2>4. x >= l
    BY <1>1
  <2>5. x = m + (j - i) /\ i <= j /\ j < l /\ j \in Nat
    BY <2>1, <2>2
  <2> HIDE DEF j, x, m, l
  <2> QED BY <2>3, <2>4, <2>5
<1>6. PICK f : IsReplacing(f, T, src, dest, cs) /\ AllReplaced(T, src, dest, cs) = f[0]
  <2>1. T \in Seq(char16_t) /\ src \in Seq(char16_t) /\ src # <<>> /\ dest \in Seq(char16_t)
    BY <1>1
  <2> HIDE DEF T, src, dest, cs
  <2> QED BY ONLY <2>1, AllReplacedIs
<1>7. f[i] = Rest(T, i)
  BY <1>5, <1>6 DEF IsReplacing, Replacement
<1> QED BY <1>4, <1>6, <1>7 DEF Replaced

\* In any program, replace_origin(src, dest) has replaced every occurrence when
\* its loop ends, if neither surrogates nor NULs are in the three texts and dest
\* is no longer than src (ostr.cpp:86-103): then the length that the loop
\* compares with, taken at the start, cuts no replacement off.
THEOREM ReplacesAllOccurrences == Spec => []ReplacesAll
<1>1. Init => IndexInv /\ ReplaceInv
  BY DEF Init, IndexInv, ReplaceInv, Replacing, NoCall
<1>2. TypeOK /\ IndexInv /\ ReplaceInv /\ [Next]_vars => (IndexInv /\ ReplaceInv)'
  BY IndexStep, ReplaceStep
<1> QED BY <1>1, <1>2, AllReplacedAtEnd, StringTypesCorrect, PTL DEF Spec

\* So has one call alone, whatever the string holds at its start.
THEOREM OneCallReplacesAll == ReplaceSpec => []ReplacesAll
<1>1. ReplaceInit => TypeOK /\ IndexInv /\ ReplaceInv
  <2> SUFFICES ASSUME ReplaceInit PROVE ReplaceInv
    BY ReplaceInitTypes
  <2>1. PICK o \in Strings, src \in Patterns \ {<<>>}, dest \in Patterns, cs \in case_sensitivity :
          call \in ReplaceCalls(o, str[o], src, dest, cs)
    BY DEF ReplaceInit
  <2>2. str[o] \in Seq(char16_t) /\ Len(str[o]) <= MaxSize
    BY ReplaceInitTypes, StrTypes
  <2> QED BY <2>1, <2>2, StartInv
<1>2. TypeOK /\ IndexInv /\ ReplaceInv /\ [ReplaceLoop]_vars => (TypeOK /\ IndexInv /\ ReplaceInv)'
  BY StepTypes, IndexStep, ReplaceStep DEF Next
<1> QED BY <1>1, <1>2, AllReplacedAtEnd, PTL DEF ReplaceSpec

=============================================================================
