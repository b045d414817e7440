------------------------------ MODULE ViewLoops ------------------------------
(***************************************************************************)
(* The methods of ostr::string_view that walk over memory by themselves,   *)
(* an iteration a step: search, through the view's iterator, trim_start,   *)
(* trim_end and trim. A view is a window on a buffer that it does not own; *)
(* none of these loops compares its position with both ends of the window, *)
(* and what they meet outside it decides what becomes of them. All four    *)
(* methods are noexcept.                                                   *)
(***************************************************************************)
EXTENDS CodePointCodec

CONSTANTS
  Windows,    \* the views: a buffer, where in it the view begins, and its size
  Predicates  \* what search is asked for: sets of code points

ASSUME ViewLoopsAssumption ==
  /\ Windows \subseteq [buffer : Seq(char16_t), begin : Nat, size : Nat]
  /\ \A w \in Windows : w.begin + w.size <= Len(w.buffer) /\ 2 * Len(w.buffer) < SIZE_MAX
  /\ Predicates \subseteq SUBSET Nat

Methods == {"search", "trim_start", "trim_end", "trim"}

VARIABLES
  call,    \* the method, the view it is called on and the predicate
  window,  \* the view; at last the view returned
  it,      \* the loop's position: an offset from the beginning of the window
  ret,     \* what search returns
  pc       \* the loop that runs, or how the call ended

vars == <<call, window, it, ret, pc>>

Shown(w) == SubSeq(w.buffer, w.begin + 1, w.begin + w.size)

InBuffer(offset) == window.begin + offset \in 0 .. (Len(window.buffer) - 1)

Unit(offset) == window.buffer[window.begin + offset + 1]

\* data()[_str.size() - 1]: of an empty view, the unit before it.
LastOf(w) == w.size - 1

Init ==
  /\ call \in [method : Methods, on : Windows, predicate : Predicates]
  /\ call.method # "search" => call.predicate = {}
  /\ window = call.on
  /\ it = IF call.method = "trim_end" THEN LastOf(window) ELSE 0
  /\ ret = 0
  /\ pc = IF call.method = "trim" THEN "trim_start" ELSE call.method

-----------------------------------------------------------------------------
(* search. The iterator keeps the code point it stands at and its length,  *)
(* and decodes them anew whenever it has moved; at the end of the view it  *)
(* does not, and what it keeps is not asked for. So they are a function of *)
(* its position.                                                           *)

Decodable == InBuffer(it) /\ (is_lead_surrogate(Unit(it)) => InBuffer(it + 1))

refresh_cp == utf16_to_utf32(window.buffer, window.begin + it)

\* The iterator is compared with the end for inequality, and decodes.
AtCodePoint == pc = "search" /\ it # window.size /\ Decodable

\* Mutant of Advance: the iterator stays.
AdvanceStays ==
  /\ AtCodePoint /\ refresh_cp.value \notin call.predicate
  /\ it' = it
  /\ UNCHANGED <<call, window, ret, pc>>

\* By nothing at a NUL and at an unpaired lead surrogate.
Advance ==
  /\ AtCodePoint /\ refresh_cp.value \notin call.predicate
  /\ it' = it + refresh_cp.length
  /\ UNCHANGED <<call, window, ret, pc>>

\* Mutant of Found: the offset is returned.
FoundInUnits ==
  /\ AtCodePoint /\ refresh_cp.value \in call.predicate
  /\ ret' = it
  /\ pc' = "return"
  /\ UNCHANGED <<call, window, it>>

\* The difference of two iterators: a distance in code points.
Found ==
  /\ AtCodePoint /\ refresh_cp.value \in call.predicate
  /\ ret' = it - count_surrogate_pair(SubSeq(window.buffer, window.begin + 1, window.begin + it))
  /\ pc' = "return"
  /\ UNCHANGED <<call, window, it>>

NotFound ==
  /\ pc = "search" /\ it = window.size
  /\ ret' = SIZE_MAX
  /\ pc' = "return"
  /\ UNCHANGED <<call, window, it>>

-----------------------------------------------------------------------------
(* The trims. They look for a unit that is not a space, in the view or not.*)

AtSpace   == InBuffer(it) /\ Unit(it) = SPACE
BehindRun == InBuffer(it) /\ Unit(it) # SPACE

SkipSpace ==
  /\ AtSpace
  /\ \/ pc = "trim_start" /\ it' = it + 1
     \/ pc = "trim_end"   /\ it' = it - 1
  /\ UNCHANGED <<call, window, ret, pc>>

\* substr(begin). trim goes on with what is left.
TrimStartReturn ==
  /\ pc = "trim_start" /\ BehindRun /\ it <= window.size
  /\ window' = [window EXCEPT !.begin = @ + it, !.size = @ - it]
  /\ IF call.method = "trim"
     THEN pc' = "trim_end" /\ it' = LastOf(window')
     ELSE pc' = "return" /\ UNCHANGED it
  /\ UNCHANGED <<call, ret>>

\* Mutant of TrimStartThrows: substr may not be given the size either.
TrimStartThrowsEarly ==
  /\ pc = "trim_start" /\ BehindRun /\ it >= window.size
  /\ pc' = "terminated"
  /\ UNCHANGED <<call, window, it, ret>>

\* The run of spaces goes on behind the view, and substr(begin) throws.
TrimStartThrows ==
  /\ pc = "trim_start" /\ BehindRun /\ it > window.size
  /\ pc' = "terminated"
  /\ UNCHANGED <<call, window, it, ret>>

\* Mutant of TrimEndReturn: the last unit is lost.
TrimEndLosesUnit ==
  /\ pc = "trim_end" /\ BehindRun
  /\ window' = [window EXCEPT !.size = Least(Wrap(it), @)]
  /\ pc' = "return"
  /\ UNCHANGED <<call, it, ret>>

\* substr(0, end + 1), which wraps when the run of spaces began before the view.
TrimEndReturn ==
  /\ pc = "trim_end" /\ BehindRun
  /\ window' = [window EXCEPT !.size = Least(Wrap(it + 1), @)]
  /\ pc' = "return"
  /\ UNCHANGED <<call, it, ret>>

-----------------------------------------------------------------------------

\* Memory outside the buffer is read; anything may follow.
Overrun ==
  /\ \/ pc = "search" /\ it # window.size /\ ~ Decodable
     \/ pc \in {"trim_start", "trim_end"} /\ ~ InBuffer(it)
  /\ pc' = "undefined"
  /\ UNCHANGED <<call, window, it, ret>>

Next ==
  \/ Advance \/ Found \/ NotFound
  \/ SkipSpace \/ TrimStartReturn \/ TrimStartThrows \/ TrimEndReturn
  \/ Overrun

Spec == Init /\ [][Next]_vars

\* The loops run on the caller's thread and wait for nothing.
FairSpec == Spec /\ WF_vars(Next)

-----------------------------------------------------------------------------
(* search                                                                  *)

view      == Shown(call.on)
Searching == call.method = "search"

\* The surrogates of a pair of the buffer on either side of the view's end.
EndsInsidePair == call.on.size > 0 /\ PairAt(call.on.buffer, call.on.begin + call.on.size)

\* On well-formed UTF-16, search returns the number of code points before the
\* first one that the predicate holds for, or SIZE_MAX: the units skipped, less
\* the pairs among them, are as many as the iterator made steps.
SearchFinds ==
  Searching /\ pc = "return" /\ WellFormed(view) =>
    LET sought == {UTF16(c) : c \in call.predicate}
        found  == {n \in 0 .. (CodePointCount(view) - 1) : CodePoints(view, n, n + 1) \in sought}
    IN  ret = IF found = {} THEN SIZE_MAX ELSE Min(found)

\* search leaves the view only if it ends between the surrogates of a pair. From
\* there it may go on to the terminator of the buffer, but never beyond.
SearchStays ==
  Searching =>
    /\ it > call.on.size => EndsInsidePair
    /\ call.on.buffer # <<>> /\ call.on.buffer[Len(call.on.buffer)] = NUL => pc # "undefined"

\* search comes back, with or without a result, from a view of well-formed
\* UTF-16 without NUL. (At a NUL the iterator does not move.)
SearchReturns == Searching /\ WellFormed(view) /\ ~ HasNul(view) ~> pc = "return"

-----------------------------------------------------------------------------
(* The trims.                                                              *)

Blank(s) == \A i \in 1 .. Len(s) : s[i] = SPACE

\* s without the spaces at either end.
Core(s, atStart, atEnd) ==
  LET text  == {i \in 1 .. Len(s) : s[i] # SPACE}
      first == IF atStart THEN Min(text) ELSE 1
      last  == IF atEnd THEN Max(text) ELSE Len(s)
  IN  IF text = {} THEN <<>> ELSE SubSeq(s, first, last)

\* A view in which something else than spaces is left is trimmed exactly,
\* whatever lies on either side of it in memory.
TrimExact ==
  ~ Searching /\ ~ Blank(view) =>
    /\ pc \notin {"terminated", "undefined"}
    /\ pc = "return" =>
         Shown(window) = Core(view, call.method # "trim_end", call.method # "trim_start")

SpacesBefore == Blank(SubSeq(call.on.buffer, 1, call.on.begin))
SpaceBefore  == call.on.begin > 0 /\ call.on.buffer[call.on.begin] = SPACE
SpacesBehind == Blank(SubSeq(call.on.buffer, call.on.begin + call.on.size + 1, Len(call.on.buffer)))
SpaceBehind  ==
  LET end == call.on.begin + call.on.size
  IN  end < Len(call.on.buffer) /\ call.on.buffer[end + 1] = SPACE

\* What becomes of a view of spaces, or of an empty one, depends on what lies
\* around it. The result is empty, but trim_end hands the whole view back if a
\* space precedes it; trim_start and trim end the program if a space follows;
\* and they leave the buffer if it holds nothing but spaces that way.
BlankCause ==
  ~ Searching /\ Blank(view) =>
    /\ pc = "return" =>
         IF call.method = "trim_end" /\ SpaceBefore THEN window = call.on ELSE window.size = 0
    /\ pc = "terminated" => call.method # "trim_end" /\ SpaceBehind
    /\ pc = "undefined" =>
         \/ call.method # "trim_end" /\ SpacesBehind
         \/ call.method # "trim_start" /\ SpacesBefore
=============================================================================
