-------------------------------- MODULE OStr --------------------------------
(***************************************************************************)
(* ostr::string: a program that owns some string objects and calls the     *)
(* methods that change them. Every object keeps, beside its UTF-16 units,  *)
(* the number of surrogate pairs among them; length() and substring() are  *)
(* computed from that cache, and each method keeps it up in its own way.   *)
(*                                                                         *)
(* A method that throws without having changed anything is no step. The    *)
(* loop of replace_origin is one step an iteration, because it can be left *)
(* half-way. Views passed to a method show memory of their own, not the    *)
(* object's buffer.                                                        *)
(***************************************************************************)
EXTENDS StringViewMethods

CONSTANTS
  Strings,  \* the string objects
  Texts,    \* the units of literals, views and decoded text passed to them
  Patterns, \* what replace_origin(src, dest) is asked to replace, and with what
  Fills,    \* the characters passed to string(char16_t, size_t)
  Counts,   \* positions and counts passed to them
  MaxSize   \* std::u16string::max_size()

ASSUME OStrAssumption ==
  /\ Texts \subseteq Seq(char16_t)
  /\ Patterns \subseteq Seq(char16_t)
  /\ Fills \subseteq char16_t
  /\ Counts \subseteq size_t
  /\ MaxSize \in Nat /\ 2 * MaxSize < SIZE_MAX

VARIABLES
  str,                   \* the units of each object: _str
  surrogate_pair_count,  \* its cached count: _surrogate_pair_count
  call                   \* the call of replace_origin that is in progress

vars == <<str, surrogate_pair_count, call>>

NoCall == [status |-> "none"]

\* std::terminate: an exception left a noexcept method.
Terminated == [status |-> "terminated"]

Replacing == call.status = "replacing"

-----------------------------------------------------------------------------
(* Values.                                                                 *)

HasNoNul(s) == \A i \in 1 .. Len(s) : s[i] # NUL

string_length(s, n) == Wrap(Len(s) - n)

\* What is read through a pointer to NUL-terminated units. Every conversion
\* to string_view goes through _str.c_str().
CStr(s) == SubSeq(s, 1, Min({i \in 1 .. Len(s) : s[i] = NUL} \cup {Len(s) + 1}) - 1)

to_sv(s) == CStr(s)

\* The number of units that trim_start and trim_end erase.
LeadingSpaces(s)  == {n \in 0 .. Len(s) : (\A i \in 1 .. n : s[i] = SPACE)
                                          /\ (n < Len(s) => s[n + 1] # SPACE)}
TrailingSpaces(s) == {n \in 0 .. Len(s) : (\A i \in (Len(s) - n + 1) .. Len(s) : s[i] = SPACE)
                                          /\ (n < Len(s) => s[Len(s) - n] # SPACE)}

trim_start(s) == {SubSeq(s, n + 1, Len(s)) : n \in LeadingSpaces(s)}
trim_end(s)   == {SubSeq(s, 1, Len(s) - n) : n \in TrailingSpaces(s)}
trim(s)       == UNION {trim_end(t) : t \in trim_start(s)}

\* std::u16string::replace by iterators to the offsets first and last: beyond
\* the end it throws, and a range that ends there or before it begins is cut
\* at the end.
Splice(s, first, last, dest) ==
  {SubSeq(s, 1, f) \o dest \o
     SubSeq(s, 1 + (IF last \in f .. Len(s) THEN last ELSE Len(s)), Len(s)) :
     f \in {first} \cap (0 .. Len(s))}

\* Mutants of string_substring: the pairs are a signed difference, or the size
\* is not lengthened by them.
substring_signed_pairs(s, n, from, size) ==
  LET from_it == codepoint_count_to_iterator(s, from)
      pairs   == n - (from_it - from)
  IN  {[str |-> t, count |-> pairs] : t \in substr(s, from_it, Wrap(size + pairs))}
substring_without_pairs(s, n, from, size) ==
  LET from_it == codepoint_count_to_iterator(s, from)
  IN  {[str |-> t, count |-> count_surrogate_pair(t)] :
         t \in substr(s, from_it, Least(size, Wrap(string_length(s, n) - from)))}

\* string::substring of a string with units s and cached count n: the units
\* and the cached count of the result. A string without pairs is cut by code
\* units. In one with pairs the result is given all pairs that do not begin
\* before `from`, even those that follow the range asked for.
string_substring(s, n, from, size) ==
  IF n = 0
  THEN {[str |-> t, count |-> count_surrogate_pair(t)] : t \in substr(s, from, size)}
  ELSE LET uint16_size == Least(size, Wrap(string_length(s, n) - from))
           from_it     == codepoint_count_to_iterator(s, from)
           pairs       == Wrap(n - (from_it - from))
       IN  {[str |-> t, count |-> pairs] :
              t \in substr(s, from_it, Wrap(uint16_size + pairs))}

\* Mutant: `from` is taken for a code unit.
replace_range_from_unit(s, from, count, dest) ==
  Splice(s, from, codepoint_count_to_iterator(s, Wrap(from + count)), dest)

\* The units that replace_origin(from, count, dest) leaves of s. Both ends of
\* the range are looked up in code points, and the second may have wrapped.
replace_range(s, from, count, dest) ==
  Splice(s, codepoint_count_to_iterator(s, from),
            codepoint_count_to_iterator(s, Wrap(from + count)), dest)

\* Mutant: SIZE_MAX, for no occurrence, is added to `from` as well.
index_of_always_adds(s, pattern, from, count, cs) ==
  {Wrap(index_of(t, pattern, cs) + from) : t \in substring(to_sv(s), from, count)}

\* string::index_of of the units s, of which it searches those before a NUL.
string_index_of(s, pattern, from, count, cs) ==
  {IF index_of(t, pattern, cs) = SIZE_MAX THEN SIZE_MAX
   ELSE Wrap(index_of(t, pattern, cs) + from) :
     t \in UNION {substring(sv, from, count) : sv \in {to_sv(s)}}}

-----------------------------------------------------------------------------
(* Constructors, copies and moves. The object a constructor makes is moved *)
(* into an existing one.                                                   *)

Init ==
  /\ str = [o \in Strings |-> <<>>]
  /\ surrogate_pair_count = [o \in Strings |-> 0]
  /\ call = NoCall

\* The object o takes the value of units s and cached count n. A string longer
\* than max_size() cannot be built.
Assign(o, s, n) ==
  /\ call = NoCall
  /\ Len(s) <= MaxSize
  /\ str' = [str EXCEPT ![o] = s]
  /\ surrogate_pair_count' = [surrogate_pair_count EXCEPT ![o] = n]
  /\ UNCHANGED call

\* string(const char16_t*)
FromCStr(o, text) == Assign(o, CStr(text), count_surrogate_pair(CStr(text)))

\* string(const char16_t*, size_t), string(u16string), string(u16string_view),
\* string(string_view), and the templates for other basic_string types, whose
\* units are widened: a NUL among the units is kept.
FromUnits(o, text) == Assign(o, text, count_surrogate_pair(text))

\* string(const char*, size_t len): each byte widened to a unit, up to a NUL.
FromBytes(o, text, len) ==
  LET sv == SubSeq(CStr(text), 1, Least(len, Len(CStr(text))))
  IN  /\ \A i \in 1 .. Len(text) : text[i] < 256
      /\ Assign(o, sv, count_surrogate_pair(sv))

\* string(char16_t c, size_t count): not counted, whatever c is.
FromFill(o, c, count) == count <= MaxSize /\ Assign(o, [i \in 1 .. count |-> c], 0)

Copy(o, p) == o # p /\ Assign(o, str[p], surrogate_pair_count[p])

\* The defaulted move empties the units moved from and copies the count.
Move(o, p) ==
  /\ call = NoCall
  /\ o # p
  /\ str' = [str EXCEPT ![o] = str[p], ![p] = <<>>]
  /\ surrogate_pair_count' = [surrogate_pair_count EXCEPT ![o] = surrogate_pair_count[p]]
  /\ UNCHANGED call

-----------------------------------------------------------------------------
(* Methods.                                                                *)

\* Mutant: the count of p is not added.
AppendUnitsOnly(o, p) == Assign(o, str[o] \o str[p], surrogate_pair_count[o])

\* o += p
AppendString(o, p) ==
  Assign(o, str[o] \o str[p], Wrap(surrogate_pair_count[o] + surrogate_pair_count[p]))

\* o = p + q
Concat(o, p, q) ==
  Assign(o, str[p] \o str[q], Wrap(surrogate_pair_count[p] + surrogate_pair_count[q]))

\* o = p.substring(from, size)
Substring(o, p, from, size) ==
  \E t \in string_substring(str[p], surrogate_pair_count[p], from, size) :
    Assign(o, t.str, t.count)

\* o.trim_start(), trim_end() and trim() when p is o; otherwise o is assigned
\* p.trim_start_copy() and so on. The count is not computed again.
TrimStart(o, p) == \E t \in trim_start(str[p]) : Assign(o, t, surrogate_pair_count[p])
TrimEnd(o, p)   == \E t \in trim_end(str[p]) : Assign(o, t, surrogate_pair_count[p])
Trim(o, p)      == \E t \in trim(str[p]) : Assign(o, t, surrogate_pair_count[p])

\* Mutant: the count is not calculated again.
ReplaceRangeKeepsCount(o, from, count, dest) ==
  \E t \in replace_range(str[o], from, count, dest) : Assign(o, t, surrogate_pair_count[o])

\* o.replace_origin(from, count, dest)
ReplaceRange(o, from, count, dest) ==
  \E t \in replace_range(str[o], from, count, dest) :
    Assign(o, t, count_surrogate_pair(t))

\* o.decode_from_utf8(u8), where text are the units that the coder makes of u8
\* and appends to _str. A NUL is not among them: on one the coder never returns.
DecodeFromUtf8(o, text) ==
  HasNoNul(text) /\ Assign(o, str[o] \o text, surrogate_pair_count[o])

-----------------------------------------------------------------------------
(* o.replace_origin(src, dest, cs)                                         *)

\* index = index_of(src, from): the loop goes on with each result, and the
\* program ends when the search throws.
NextIndex(c, s, from) ==
  LET found == string_index_of(s, c.src, from, SIZE_MAX, c.cs)
  IN  IF found = {} THEN {Terminated} ELSE {[c EXCEPT !.index = i] : i \in found}

\* The first search. len is the size of the original string and is not brought
\* up to date. The field text, kept for the properties only, is that string.
ReplaceCalls(o, s, src, dest, cs) ==
  NextIndex([status |-> "replacing", on |-> o, src |-> src, dest |-> dest, cs |-> cs,
             text |-> s, len |-> Len(s), index |-> 0], s, 0)

ReplaceStart(o, src, dest, cs) ==
  /\ call = NoCall
  /\ src # <<>>
  /\ call' \in ReplaceCalls(o, str[o], src, dest, cs)
  /\ UNCHANGED <<str, surrogate_pair_count>>

\* Mutants of the iteration: the search goes on after as many units as src has,
\* or where it was.
IterationSkipsSrc ==
  /\ Replacing /\ call.index < call.len
  /\ \E t \in Splice(str[call.on], call.index, call.index + Len(call.src), call.dest) :
       /\ Len(t) <= MaxSize
       /\ str' = [str EXCEPT ![call.on] = t]
       /\ call' \in NextIndex(call, t, Wrap(call.index + Len(call.src)))
  /\ UNCHANGED surrogate_pair_count
IterationStays ==
  /\ Replacing /\ call.index < call.len
  /\ \E t \in Splice(str[call.on], call.index, call.index + Len(call.src), call.dest) :
       /\ Len(t) <= MaxSize
       /\ str' = [str EXCEPT ![call.on] = t]
       /\ call' \in NextIndex(call, t, call.index)
  /\ UNCHANGED surrogate_pair_count

\* One iteration: index, a position in code points, serves as an offset.
ReplaceIteration ==
  /\ Replacing /\ call.index < call.len
  /\ \E t \in Splice(str[call.on], call.index, call.index + Len(call.src), call.dest) :
       /\ Len(t) <= MaxSize
       /\ str' = [str EXCEPT ![call.on] = t]
       /\ call' \in NextIndex(call, t, Wrap(call.index + Len(call.dest)))
  /\ UNCHANGED surrogate_pair_count

\* calculate_surrogate() after the loop.
ReplaceReturn ==
  /\ Replacing /\ call.index >= call.len
  /\ surrogate_pair_count' =
       [surrogate_pair_count EXCEPT ![call.on] = count_surrogate_pair(str[call.on])]
  /\ call' = NoCall
  /\ UNCHANGED str

\* The string has to grow and the allocation fails: the call is left by the
\* exception, with the replacements made so far and the count of the original.
ReplaceThrows ==
  /\ Replacing /\ call.index < call.len
  /\ Len(call.dest) > Len(call.src)
  /\ call' = NoCall
  /\ UNCHANGED <<str, surrogate_pair_count>>

\* The methods that return in one step.
CallNext ==
  \/ \E o \in Strings, text \in Texts :
       \/ FromCStr(o, text) \/ FromUnits(o, text) \/ DecodeFromUtf8(o, text)
       \/ \E len \in Counts : FromBytes(o, text, len)
       \/ \E from \in Counts, count \in Counts : ReplaceRange(o, from, count, text)
  \/ \E o \in Strings, c \in Fills, count \in Counts : FromFill(o, c, count)
  \/ \E o \in Strings, p \in Strings :
       \/ Copy(o, p) \/ Move(o, p) \/ AppendString(o, p)
       \/ TrimStart(o, p) \/ TrimEnd(o, p) \/ Trim(o, p)
       \/ \E q \in Strings : Concat(o, p, q)
       \/ \E from \in Counts, size \in Counts : Substring(o, p, from, size)

ReplaceLoop == ReplaceIteration \/ ReplaceReturn \/ ReplaceThrows

Next ==
  \/ CallNext
  \/ \E o \in Strings, src \in Patterns, dest \in Patterns, cs \in case_sensitivity :
       ReplaceStart(o, src, dest, cs)
  \/ ReplaceLoop

Spec == Init /\ [][Next]_vars

\* A program that does without replace_origin(src, dest).
CallSpec == Init /\ [][CallNext]_vars

\* One call of replace_origin(src, dest). It runs on the caller's thread and
\* waits for nothing.
ReplaceInit ==
  /\ str \in [Strings -> {text \in Texts : Len(text) <= MaxSize}]
  /\ surrogate_pair_count = [o \in Strings |-> count_surrogate_pair(str[o])]
  /\ \E o \in Strings, src \in Patterns \ {<<>>}, dest \in Patterns, cs \in case_sensitivity :
       call \in ReplaceCalls(o, str[o], src, dest, cs)

ReplaceSpec == ReplaceInit /\ [][ReplaceLoop]_vars /\ WF_vars(ReplaceLoop)

-----------------------------------------------------------------------------
(* The cached count.                                                       *)

TypeOK ==
  /\ str \in [Strings -> Seq(char16_t)]
  /\ \A o \in Strings : Len(str[o]) <= MaxSize
  /\ surrogate_pair_count \in [Strings -> size_t]
  /\ \/ call \in {NoCall, Terminated}
     \/ call \in [status : {"replacing"}, on : Strings, src : Seq(char16_t),
                  dest : Seq(char16_t), cs : case_sensitivity, text : Seq(char16_t),
                  len : 0 .. MaxSize, index : size_t]

CacheExact(o) == surrogate_pair_count[o] = count_surrogate_pair(str[o])

AllCachesExact == \A o \in Strings : CacheExact(o)

BMP(s) == \A i \in 1 .. Len(s) : ~ is_lead_surrogate(s[i]) /\ ~ is_trail_surrogate(s[i])

\* substring(from, size) has what it needs: o is well-formed and its count
\* right, `from` is not beyond its end, and no pair follows the range asked for.
Cuttable(o, from, size) ==
  /\ CacheExact(o) /\ WellFormed(str[o])
  /\ from <= CodePointCount(str[o])
  /\ \A i \in Pairs(str[o]) : CodePointOf(str[o], i) < from + size

\* The steps known to leave an object whose count is wrong: a move that leaves
\* a count behind, decoding more than the first plane, joining on an unpaired
\* lead surrogate, substring of a string with pairs when it is not Cuttable,
\* and an iteration of replace_origin in which surrogates take part.
StaleCause ==
  \/ \E o, p \in Strings : Move(o, p) /\ surrogate_pair_count[p] # 0
  \/ \E o \in Strings, text \in Texts :
       DecodeFromUtf8(o, text) /\ \E i \in 1 .. Len(text) : is_trail_surrogate(text[i])
  \/ \E o, p \in Strings : AppendString(o, p) /\ EndsInSkip(str[o])
  \/ \E o, p, q \in Strings : Concat(o, p, q) /\ EndsInSkip(str[p])
  \/ \E o, p \in Strings, from \in Counts, size \in Counts :
       /\ Substring(o, p, from, size)
       /\ surrogate_pair_count[p] # 0 /\ ~ Cuttable(p, from, size)
  \/ ReplaceIteration /\ ~ BMP(str[call.on] \o call.dest)

\* While every count is right, no other step makes one wrong: trimming and
\* filling need no recount, joining two strings joins their pairs, and a call
\* of replace_origin that ends in the middle leaves the right count if no
\* surrogates take part.
CacheStaysExact == [][AllCachesExact /\ ~ AllCachesExact' => StaleCause]_vars

\* A string that is Cuttable is cut exactly by substring, and the result given
\* the right count.
SubstringExact ==
  \A o \in Strings, from \in Counts, size \in Counts :
    Cuttable(o, from, size) =>
      string_substring(str[o], surrogate_pair_count[o], from, size)
        = LET t == CodePoints(str[o], from, from + size)
          IN  {[str |-> t, count |-> count_surrogate_pair(t)]}

\* Replacing a range of code points of well-formed UTF-16 leaves the code
\* points before and after it as they were, also when from + count wraps, or
\* the range reaches beyond the end.
ReplaceRangeExact ==
  \A o \in Strings, dest \in Texts, from \in Counts, count \in Counts :
    WellFormed(str[o]) =>
      replace_range(str[o], from, count, dest) =
        {CodePoints(str[o], 0, from) \o dest
           \o CodePoints(str[o], from + count, Len(str[o]))}

AllWellFormed == \A o \in Strings : WellFormed(str[o])

\* The steps known to make an ill-formed string of well-formed ones: it is built
\* from ill-formed units, or cut out of a string with pairs by substring, when
\* it is not Cuttable, or by replace_origin(src, dest).
IllFormedCause ==
  \/ \E o \in Strings, text \in Texts :
       /\ ~ WellFormed(text)
       /\ \/ FromCStr(o, text) \/ FromUnits(o, text) \/ DecodeFromUtf8(o, text)
          \/ \E from \in Counts, count \in Counts : ReplaceRange(o, from, count, text)
  \/ \E o \in Strings, c \in Fills, count \in Counts :
       FromFill(o, c, count) /\ ~ WellFormed(<<c>>)
  \/ \E o, p \in Strings, from \in Counts, size \in Counts :
       Substring(o, p, from, size) /\ Pairs(str[p]) # {} /\ ~ Cuttable(p, from, size)
  \/ ReplaceIteration /\ Pairs(str[call.on]) # {}
  \/ ReplaceIteration /\ ~ WellFormed(call.dest)

\* While every string is well-formed, no other step makes one ill-formed: not
\* trimming, joining, replacing a range, nor reading up to a NUL.
WellFormedKept == [][AllWellFormed /\ ~ AllWellFormed' => IllFormedCause]_vars

-----------------------------------------------------------------------------
(* replace_origin(src, dest, cs)                                           *)

\* Every occurrence of src in s replaced with dest, from the left, searching
\* on after each replacement.
AllReplaced(s, src, dest, cs) ==
  LET done[i \in 0 .. Len(s)] ==
        LET next == {j \in Occurrences(s, src, cs) : j >= i}
        IN  IF next = {} THEN SubSeq(s, i + 1, Len(s))
            ELSE SubSeq(s, i + 1, Min(next)) \o dest \o done[Min(next) + Len(src)]
  IN done[0]

LoopOver == Replacing /\ call.index >= call.len

Replaced == str[call.on] = AllReplaced(call.text, call.src, call.dest, call.cs)

\* When neither surrogates nor a NUL are involved and dest is not longer than
\* src, the loop has replaced all occurrences when it ends. (A NUL in dest hides
\* what follows it from the search.)
ReplacesAll ==
  /\ LoopOver
  /\ BMP(call.text \o call.src \o call.dest) /\ HasNoNul(call.text \o call.dest)
  /\ Len(call.dest) <= Len(call.src)
  => Replaced

\* An iteration cuts inside the string: the position found, which is counted
\* in code points, never exceeds the offset of the match.
SpliceInRange ==
  Replacing /\ call.index < call.len => call.index + Len(call.src) <= Len(str[call.on])

\* The loop ends, for every src and dest, dest containing src included.
ReplaceEnds == Replacing ~> ~ Replacing

-----------------------------------------------------------------------------
(* What a comment of ostr.h says, and the code does not keep.              *)

\* "all occurrences of a specified string ... are replaced" (ostr.h:217), for
\* well-formed strings.
ReplacesEveryOccurrence ==
  /\ LoopOver
  /\ WellFormed(call.text) /\ WellFormed(call.src) /\ WellFormed(call.dest)
  /\ HasNoNul(call.text \o call.dest)
  => Replaced
=============================================================================
