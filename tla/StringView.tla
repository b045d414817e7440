----------------------------- MODULE StringView -----------------------------
(***************************************************************************)
(* A caller that holds an ostr::string_view and calls one of the methods   *)
(* of StringViewMethods, and what those calls promise, in code points.     *)
(***************************************************************************)
EXTENDS StringViewMethods

CONSTANTS
  Views,     \* the units of the views the methods are called on
  Patterns,  \* the views passed to them
  Counts     \* positions and counts of code points passed to them

ASSUME ViewsAssumption ==
  /\ Views \subseteq Seq(char16_t)
  /\ Patterns \subseteq Seq(char16_t)
  /\ \A s \in Views \cup Patterns : Len(s) <= SIZE_MAX
  /\ Counts \subseteq size_t

-----------------------------------------------------------------------------
(* A caller that holds a view and calls one of its methods.                *)

VARIABLES
  view,  \* the units of the view
  call   \* the call, its arguments and its result

vars == <<view, call>>

Init == view \in Views /\ call = [method |-> "none"]

Substring == \E offset \in Counts, count \in Counts :
  \E ret \in substring(view, offset, count) :
    call' = [method |-> "substring", offset |-> offset, count |-> count, ret |-> ret]

Left == \E count \in Counts : \E ret \in left(view, count) :
  call' = [method |-> "left", count |-> count, ret |-> ret]

Right == \E count \in Counts :
  call' = [method |-> "right", count |-> count, ret |-> right(view, count)]

RemovePrefix == \E count \in Counts : \E ret \in remove_prefix(view, count) :
  call' = [method |-> "remove_prefix", count |-> count, ret |-> ret]

RemoveSuffix == \E count \in Counts :
  call' = [method |-> "remove_suffix", count |-> count, ret |-> remove_suffix(view, count)]

IndexOf == \E pattern \in Patterns, cs \in case_sensitivity :
  call' = [method |-> "index_of", pattern |-> pattern, cs |-> cs,
           ret |-> index_of(view, pattern, cs)]

LastIndexOf == \E pattern \in Patterns, cs \in case_sensitivity :
  call' = [method |-> "last_index_of", pattern |-> pattern, cs |-> cs,
           ret |-> last_index_of(view, pattern, cs)]

Split == \E pattern \in Patterns : \E ret \in split(view, pattern) :
  call' = [method |-> "split", pattern |-> pattern, ret |-> ret]

\* split(splitter, str, cull_empty), where the vector str is empty at first. It
\* is noexcept: the program ends in the turn in which split throws.
SplitAll == \E pattern \in Patterns, cull_empty \in BOOLEAN :
  call' = [method |-> "splitting", pattern |-> pattern, cull_empty |-> cull_empty,
           str |-> <<>>, rhs |-> view, split_times |-> 0]

push_back(str, s, cull_empty) == IF cull_empty /\ s = <<>> THEN str ELSE Append(str, s)

\* One turn: rhs is split into lhs, which is pushed, and itself.
SplitTurn ==
  /\ call.method = "splitting"
  /\ \E ret \in split(call.rhs, call.pattern) :
       /\ ret.found
       /\ call' = [call EXCEPT !.str = push_back(@, ret.lhs, call.cull_empty),
                               !.rhs = ret.rhs, !.split_times = Wrap(@ + 1)]

\* The loop ends, and pushes what is left.
SplitReturn ==
  /\ call.method = "splitting"
  /\ \E ret \in split(call.rhs, call.pattern) : ~ ret.found
  /\ call' = [call EXCEPT !.method = "split_all",
                          !.str = push_back(@, call.rhs, call.cull_empty)]

StartWith == \E pattern \in Patterns : \E ret \in start_with(view, pattern) :
  call' = [method |-> "start_with", pattern |-> pattern, ret |-> ret]

EndWith == \E pattern \in Patterns : \E ret \in end_with(view, pattern) :
  call' = [method |-> "end_with", pattern |-> pattern, ret |-> ret]

Compare == \E pattern \in Patterns :
  call' = [method |-> "compare", pattern |-> pattern, ret |-> compare(view, pattern)]

\* One call: the methods are const, and a second call on the view would
\* answer as if it were the first.
Next ==
  /\ \/ /\ call.method = "none"
        /\ \/ Substring \/ Left \/ Right \/ RemovePrefix \/ RemoveSuffix
           \/ IndexOf \/ LastIndexOf \/ Split \/ SplitAll \/ StartWith \/ EndWith \/ Compare
     \/ SplitTurn \/ SplitReturn
  /\ UNCHANGED view

Spec == Init /\ [][Next]_vars

-----------------------------------------------------------------------------
(* What the methods promise, stated in code points.                        *)

\* On well-formed UTF-16 the views cut out hold exactly the code points asked
\* for, for every position and count there is, SIZE_MAX and positions beyond
\* the end included, and the walk from the end (right, remove_suffix) cuts
\* between the same code points as the walk from the start.
CutExact ==
  LET size == CodePointCount(view)
  IN  WellFormed(view) =>
        /\ call.method = "substring" =>
             call.ret = CodePoints(view, call.offset, call.offset + call.count)
        /\ call.method = "left"  => call.ret = CodePoints(view, 0, call.count)
        /\ call.method = "right" => call.ret = CodePoints(view, size - call.count, size)
        /\ call.method = "remove_suffix" =>
             call.ret = CodePoints(view, 0, size - call.count)
        /\ call.method = "remove_prefix" =>
             call.ret = CodePoints(view, call.count, size)

\* substring, left, remove_prefix, split in both forms, start_with and end_with
\* do not throw on well-formed UTF-16, whatever the arguments, and the vector
\* form of split in none of its turns. (They are noexcept: the exception would
\* end the program, as it does in trim_start, of which ViewLoops tells. right
\* and remove_suffix cut at a place that cannot lie beyond the end.)
NeverThrows ==
  WellFormed(view) =>
    /\ \A o \in Counts, n \in Counts : substring(view, o, n) # {}
    /\ \A n \in Counts : left(view, n) # {} /\ remove_prefix(view, n) # {}
    /\ \A p \in Patterns :
         split(view, p) # {} /\ start_with(view, p) # {} /\ end_with(view, p) # {}
    /\ call.method = "splitting" => split(call.rhs, call.pattern) # {}

\* The positions, in code points, at which the pattern occurs.
Matches(s, pattern, cs) ==
  LET n == CodePointCount(pattern)
      Same(a, b) == Len(a) = Len(b) /\ \A k \in 1 .. Len(a) : case_predicate(a[k], b[k], cs)
  IN  {i \in 0 .. (CodePointCount(s) - n) : Same(CodePoints(s, i, i + n), pattern)}

\* Searching unit by unit finds the first and the last occurrence in code
\* points: a match never starts or ends inside a surrogate pair. (Nothing is
\* found in an empty view, not even the empty pattern.)
SearchExact ==
  call.method \in {"index_of", "last_index_of"} /\ WellFormed(view) /\ WellFormed(call.pattern) =>
    LET found == IF view = <<>> THEN {} ELSE Matches(view, call.pattern, call.cs)
    IN  call.ret = IF found = {} THEN SIZE_MAX
                   ELSE IF call.method = "index_of" THEN Min(found) ELSE Max(found)

\* The code points at which split cuts s: where the splitter begins, but not
\* the end of s, where an empty splitter could.
Cuts(s, splitter) == Matches(s, splitter, "sensitive") \ {CodePointCount(s)}

\* The piece that ends at the cut `to`, or at the end: it begins one code
\* point behind the cut before.
Piece(s, splitter, to) ==
  CodePoints(s, 1 + Max({-1} \cup {i \in Cuts(s, splitter) : i < to}), to)

\* The pieces that end at a cut of `ends`, in order.
Pieces(s, splitter, ends) ==
  LET numbered(k) == {to \in ends : Cardinality({i \in ends : i < to}) = k - 1}
  IN  [k \in 1 .. Cardinality(ends) |-> Piece(s, splitter, CHOOSE to \in numbered(k) : TRUE)]

\* Splitting well-formed UTF-16 cuts it at every place at which the splitter
\* occurs, occurrences that overlap another one included, and loses exactly one
\* code point there: the rest of a longer splitter stays in the next piece, and
\* an empty splitter loses the whole text. Without culling there is one piece
\* more than there are cuts; culling only drops the empty ones.
SplitExact ==
  call.method \in {"split", "split_all"} /\ WellFormed(view) /\ WellFormed(call.pattern) =>
    LET size == CodePointCount(view)
        cuts == Cuts(view, call.pattern)
        ends == cuts \cup {size}
        kept == {to \in ends : Piece(view, call.pattern, to) # <<>>}
    IN  IF call.method = "split_all"
        THEN /\ call.split_times = Cardinality(cuts)
             /\ call.str = Pieces(view, call.pattern, IF call.cull_empty THEN kept ELSE ends)
        ELSE /\ call.ret.found <=> cuts # {}
             /\ call.ret.lhs = Piece(view, call.pattern, Min(ends))
             /\ cuts # {} => call.ret.rhs = CodePoints(view, Min(cuts) + 1, size)

\* The vector form comes to an end: every turn takes something off rhs,
\* whatever the view and the splitter hold.
SplitShrinks ==
  [][call.method = "splitting" =>
       call'.method = "split_all" \/ Len(call'.rhs) < Len(call.rhs)]_vars

\* start_with and end_with compare a piece cut by code points with the whole
\* argument; on well-formed UTF-16 that tells prefixes and suffixes, also
\* when the argument is the longer one and the subtraction wraps.
AffixExact ==
  LET n == Len(view)
      m == Len(call.pattern)
  IN  WellFormed(view) =>
        /\ call.method = "start_with" /\ WellFormed(call.pattern) =>
             (call.ret <=> m <= n /\ SubSeq(view, 1, m) = call.pattern)
        /\ call.method = "end_with" /\ WellFormed(call.pattern) =>
             (call.ret <=> m <= n /\ SubSeq(view, n - m + 1, n) = call.pattern)

\* The Unicode values of the code points of a well-formed string.
CodePointValues(s) ==
  [i \in 1 .. CodePointCount(s) |->
     LET c == CodePoints(s, i - 1, i)
     IN  IF Len(c) = 1 THEN c[1]
         ELSE (c[1] - LEAD_SURROGATE_MIN) * 1024 + (c[2] - TRAIL_SURROGATE_MIN) + 65536]

\* "Compare with unicode value" (ostr.h:141, 149, 157, 165): the order of two
\* well-formed strings is the order of their code points while no unit above
\* the surrogates takes part. With none, the units of a pair are greater than
\* every other unit; U+FF5E is greater than any of them.
ComparesByCodePointBelowSurrogates ==
  /\ call.method = "compare"
  /\ WellFormed(view) /\ WellFormed(call.pattern)
  /\ \A i \in 1 .. Len(view) : view[i] <= TRAIL_SURROGATE_MAX
  /\ \A i \in 1 .. Len(call.pattern) : call.pattern[i] <= TRAIL_SURROGATE_MAX
  => (call.ret < 0 <=> LexLess(CodePointValues(view), CodePointValues(call.pattern)))
=============================================================================
