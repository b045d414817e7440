-------------------------- MODULE StringViewMethods --------------------------
(***************************************************************************)
(* ostr::string_view: what the methods that cut, search and compare the    *)
(* units of a view return. Positions and counts of the interface are code  *)
(* points, the view holds code units; every method converts between them.  *)
(*                                                                         *)
(* A method that may throw is an operator whose value is the set of its    *)
(* results. All of them are noexcept, so that a call that throws ends the  *)
(* program: its set is empty.                                              *)
(***************************************************************************)
EXTENDS CodeUnits

case_sensitivity == {"sensitive", "insensitive"}

-----------------------------------------------------------------------------
(* Sub-views.                                                              *)

length(s) == Len(s) - count_surrogate_pair(s)

position_index_to_codepoint(s, index) ==
  index - count_surrogate_pair(SubSeq(s, 1, index))

\* std::u16string_view::substr: throws when pos is beyond the end, and cuts
\* n down to what is left.
substr(s, pos, n) ==
  {SubSeq(s, p + 1, p + Least(n, Len(s) - p)) : p \in {pos} \cap (0 .. Len(s))}

\* What is left of the requested count is measured in code units but added to
\* a position in code points; the differences are taken in size_t.
convert_codepoint_into_index(s, from, count) ==
  LET index == codepoint_count_to_iterator(s, from)
      b     == Least(count, Wrap(Len(s) - from))
  IN  <<index, Wrap(codepoint_count_to_iterator(s, Wrap(from + b)) - index)>>

\* Mutant: the arguments are taken for code units.
substring_in_units(s, offset, count) == substr(s, offset, count)

substring(s, offset, count) ==
  LET range == convert_codepoint_into_index(s, offset, count)
  IN  substr(s, range[1], range[2])

left(s, count) == substring(s, 0, count)

right(s, count) ==
  SubSeq(s, Len(s) - codepoint_count_to_iterator_backward(s, count) + 1, Len(s))

\* u16string_view::remove_prefix requires its argument to be inside the view.
remove_prefix(s, count) ==
  {SubSeq(s, p + 1, Len(s)) : p \in {codepoint_count_to_iterator(s, count)} \cap (0 .. Len(s))}

remove_suffix(s, count) ==
  SubSeq(s, 1, Len(s) - codepoint_count_to_iterator_backward(s, count))

-----------------------------------------------------------------------------
(* Search and comparison.                                                  *)

case_predicate(c, d, cs) ==
  IF cs = "sensitive" THEN c = d ELSE char_lowercase(c) = char_lowercase(d)

\* The offsets at which the pattern matches unit by unit.
Occurrences(s, pattern, cs) ==
  {i \in 0 .. (Len(s) - Len(pattern)) :
     \A k \in 1 .. Len(pattern) : case_predicate(s[i + k], pattern[k], cs)}

\* Mutant: the offset found is returned as it is.
index_of_in_units(s, pattern, cs) ==
  IF Occurrences(s, pattern, cs) \in {{}, {Len(s)}} THEN SIZE_MAX
  ELSE Min(Occurrences(s, pattern, cs))

\* A result at the end of the view (an empty view, and an empty pattern) is
\* taken for none.
index_of(s, pattern, cs) ==
  IF Occurrences(s, pattern, cs) \in {{}, {Len(s)}} THEN SIZE_MAX
  ELSE position_index_to_codepoint(s, Min(Occurrences(s, pattern, cs)))

last_index_of(s, pattern, cs) ==
  IF s = <<>> \/ Occurrences(s, pattern, cs) = {} THEN SIZE_MAX
  ELSE position_index_to_codepoint(s, Max(Occurrences(s, pattern, cs)))

\* Mutants: rhs starts behind the whole splitter, or with it.
split_skips_splitter(s, splitter) ==
  LET splitter_index == index_of(s, splitter, "sensitive")
  IN  IF splitter_index = SIZE_MAX
      THEN [found : {FALSE}, lhs : substring(s, 0, SIZE_MAX)]
      ELSE [found : {TRUE}, lhs : substring(s, 0, splitter_index),
            rhs : substring(s, splitter_index + length(splitter), SIZE_MAX)]
split_keeps_splitter(s, splitter) ==
  LET splitter_index == index_of(s, splitter, "sensitive")
  IN  IF splitter_index = SIZE_MAX
      THEN [found : {FALSE}, lhs : substring(s, 0, SIZE_MAX)]
      ELSE [found : {TRUE}, lhs : substring(s, 0, splitter_index),
            rhs : substring(s, splitter_index, SIZE_MAX)]

\* split into lhs and rhs: rhs starts one code point after the splitter does,
\* however long the splitter is; without a splitter it is left as it was.
split(s, splitter) ==
  LET splitter_index == index_of(s, splitter, "sensitive")
  IN  IF splitter_index = SIZE_MAX
      THEN [found : {FALSE}, lhs : substring(s, 0, SIZE_MAX)]
      ELSE [found : {TRUE}, lhs : substring(s, 0, splitter_index),
            rhs : substring(s, splitter_index + 1, SIZE_MAX)]

\* Lexicographic order of two sequences of numbers.
LexLess(a, b) ==
  \E k \in 0 .. Len(a) :
    /\ k <= Len(b) /\ SubSeq(a, 1, k) = SubSeq(b, 1, k)
    /\ k < Len(b)
    /\ k < Len(a) => a[k + 1] < b[k + 1]

\* Mutant: the shorter string is the lesser one.
compare_by_size(s, t) ==
  IF s = t THEN 0 ELSE IF Len(s) < Len(t) \/ LexLess(s, t) THEN -1 ELSE 1

\* std::char_traits<char16_t> orders strings by their code units.
compare(s, t) == IF s = t THEN 0 ELSE IF LexLess(s, t) THEN -1 ELSE 1

\* Mutant: as many code points are compared as the argument has units.
start_with_in_units(s, t) == {sub = t : sub \in substring(s, 0, Len(t))}

start_with(s, t) == {sub = t : sub \in substring(s, 0, length(t))}

\* For a longer suffix the subtraction wraps around.
end_with(s, t) ==
  {sub = t : sub \in substring(s, Wrap(length(s) - length(t)), length(t))}
=============================================================================
