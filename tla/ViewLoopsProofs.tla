--------------------------- MODULE ViewLoopsProofs ---------------------------
(***************************************************************************)
(* Where search and the trims of a view can be, for every buffer, whatever *)
(* lies around the view, and what they return.                             *)
(***************************************************************************)
EXTENDS ViewLoops, CodeUnitsLemmas

Text   == call.on.buffer
Start  == call.on.begin
Size   == call.on.size

Terminated == Text # <<>> /\ Text[Len(Text)] = NUL

-----------------------------------------------------------------------------
(* Where the loops can be.                                                 *)

\* The units first to last of the buffer, counted from 1, are spaces.
SpacesFrom(first, last) == \A i \in first .. last : Text[i] = SPACE

\* The iterator has not passed the end of the view, or it has passed it with
\* the second half of a pair; in a buffer with a terminator it stands before
\* that one, unless it has come to the end of the view.
SearchInv ==
  /\ window = call.on
  /\ it \in Nat /\ Start + it <= Len(Text)
  /\ it > Size => EndsInsidePair
  /\ Terminated => it = Size \/ Start + it < Len(Text)
  /\ pc \in {"search", "return", "undefined"}
  /\ pc = "undefined" => ~ Terminated

\* The loop of trim_start has walked over spaces only.
TrimStartInv ==
  /\ window = call.on
  /\ it \in Nat /\ Start + it <= Len(Text)
  /\ SpacesFrom(Start + 1, Start + it)
  /\ pc = "terminated" => it > Size /\ Text[Start + Size + 1] = SPACE
  /\ pc = "undefined" => Start + it = Len(Text)

\* What trim_start leaves of a view: its units from the first on that is none
\* or, if there is none, the empty view at its end.
StartTrimmed ==
  /\ Start <= window.begin /\ window.begin <= Start + Size
  /\ SpacesFrom(Start + 1, window.begin)
  /\ window.begin < Len(Text) /\ Text[window.begin + 1] # SPACE

\* trim_end is run on the view itself, trim's second loop on what is left.
EndBegun == IF call.method = "trim" THEN StartTrimmed ELSE window.begin = Start

\* The loop of trim_end has walked over spaces only, from the last unit down.
TrimEndInv ==
  /\ EndBegun
  /\ window.begin + window.size = Start + Size
  /\ it \in Int /\ it < window.size /\ -1 <= window.begin + it
  /\ SpacesFrom(window.begin + it + 2, Start + Size)
  /\ pc = "undefined" => window.begin + it = -1

\* The view returned by trim_start, and that returned by the other two. That
\* one ends behind the last unit that is no space; in front of its beginning,
\* where end + 1 wraps, it is the whole of what the loop was run on.
StartReturned ==
  /\ StartTrimmed
  /\ window.begin + window.size = Start + Size
EndReturned ==
  /\ EndBegun
  /\ LET end == window.begin + window.size
     IN  \/ /\ end <= Start + Size /\ SpacesFrom(end + 1, Start + Size)
            /\ end > 0 /\ Text[end] # SPACE
         \/ /\ end = Start + Size /\ SpacesFrom(window.begin, end)
            /\ window.begin > 0

TrimInv ==
  /\ window \in [buffer : {Text}, begin : Nat, size : Nat]
  /\ pc \in {"trim_start", "trim_end", "return", "terminated", "undefined"}
  /\ pc = "trim_start" => TrimStartInv /\ call.method # "trim_end"
  /\ pc = "trim_end" => TrimEndInv /\ call.method # "trim_start"
  /\ pc = "return" => IF call.method = "trim_start" THEN StartReturned ELSE EndReturned
  /\ pc = "terminated" => TrimStartInv /\ call.method # "trim_end"
  /\ pc = "undefined" =>
       \/ TrimStartInv /\ call.method # "trim_end"
       \/ TrimEndInv /\ call.method # "trim_start"

LoopInv ==
  /\ call \in [method : Methods, on : Windows, predicate : Predicates]
  /\ IF Searching THEN SearchInv ELSE TrimInv

\* A view lies within its buffer.
LEMMA WindowType ==
  ASSUME NEW w \in Windows
  PROVE  /\ w \in [buffer : Seq(char16_t), begin : Nat, size : Nat]
         /\ Len(w.buffer) \in Nat
         /\ w.begin + w.size <= Len(w.buffer)
         /\ 2 * Len(w.buffer) < SIZE_MAX
<1>1. /\ w \in [buffer : Seq(char16_t), begin : Nat, size : Nat]
      /\ w.begin + w.size <= Len(w.buffer)
      /\ 2 * Len(w.buffer) < SIZE_MAX
  BY ViewLoopsAssumption
<1> QED BY <1>1

LEMMA CallType ==
  ASSUME LoopInv
  PROVE  /\ Text \in Seq(char16_t) /\ Len(Text) \in Nat
         /\ Start \in Nat /\ Size \in Nat /\ Start + Size <= Len(Text)
         /\ 2 * Len(Text) < SIZE_MAX
         /\ call.method \in Methods /\ call.predicate \subseteq Nat
         /\ call.on = [buffer |-> Text, begin |-> Start, size |-> Size]
<1>1. call.on \in Windows /\ call.method \in Methods /\ call.predicate \in Predicates
  BY DEF LoopInv
<1>2. call.on \in [buffer : Seq(char16_t), begin : Nat, size : Nat]
  BY <1>1, WindowType
<1>3. call.predicate \subseteq Nat
  BY <1>1, ViewLoopsAssumption
<1> QED BY <1>1, <1>2, <1>3, WindowType DEF Text, Start, Size

\* The view is the units from Start on.
LEMMA ViewType ==
  ASSUME LoopInv
  PROVE  /\ view \in Seq(char16_t) /\ Len(view) = Size
         /\ \A i \in 1 .. Size : view[i] = Text[Start + i]
<1>1. /\ Text \in Seq(char16_t) /\ Len(Text) \in Nat
      /\ Start \in Nat /\ Size \in Nat /\ Start + Size <= Len(Text)
  BY CallType
<1>2. view = SubSeq(Text, Start + 1, Start + Size)
  BY DEF view, Shown, Text, Start, Size
<1>3. view \in Seq(char16_t) /\ Len(view) = Size
  BY <1>1, <1>2
<1>4. \A i \in 1 .. Size : view[i] = Text[Start + i]
  BY <1>1, <1>2
<1> QED BY <1>3, <1>4

LEMMA UnitClasses ==
  /\ ~ is_lead_surrogate(NUL) /\ ~ is_trail_surrogate(NUL)
  /\ ~ is_lead_surrogate(SPACE) /\ SPACE # NUL
BY DEF is_lead_surrogate, is_trail_surrogate, NUL, SPACE, LEAD_SURROGATE_MIN,
       LEAD_SURROGATE_MAX, TRAIL_SURROGATE_MIN, TRAIL_SURROGATE_MAX

\* How many units utf16_to_utf32 takes (helpers.h:168-187): two for a pair,
\* none for NUL and for a lead surrogate that no trail surrogate follows.
LEMMA LengthTaken ==
  ASSUME NEW s, NEW i
  PROVE  utf16_to_utf32(s, i).length =
           IF is_lead_surrogate(s[i + 1])
           THEN IF is_trail_surrogate(s[i + 2]) THEN 2 ELSE 0
           ELSE IF s[i + 1] = NUL THEN 0 ELSE 1
BY DEF utf16_to_utf32

-----------------------------------------------------------------------------
(* The loops.                                                              *)

LEMMA LoopInit == Init => LoopInv
<1> SUFFICES ASSUME Init PROVE LoopInv
  OBVIOUS
<1>1. call \in [method : Methods, on : Windows, predicate : Predicates]
  BY DEF Init
<1>2. /\ call.on = [buffer |-> Text, begin |-> Start, size |-> Size]
      /\ Text \in Seq(char16_t) /\ Len(Text) \in Nat
      /\ Start \in Nat /\ Size \in Nat /\ Start + Size <= Len(Text)
  <2>1. call.on \in Windows
    BY <1>1
  <2> QED BY <2>1, WindowType DEF Text, Start, Size
<1>3. window = call.on /\ window.begin = Start /\ window.size = Size
  BY <1>2 DEF Init
<1>4. CASE Searching
  <2>1. it = 0 /\ pc = "search"
    BY <1>4 DEF Init, Searching
  <2>2. SearchInv
    BY <1>2, <1>3, <2>1 DEF SearchInv
  <2> QED BY <1>1, <1>4, <2>2 DEF LoopInv
<1>5. CASE ~ Searching
  <2>1. window \in [buffer : {Text}, begin : Nat, size : Nat]
    BY <1>2, <1>3
  <2>2. CASE call.method = "trim_end"
    <3>1. pc = "trim_end" /\ it = Size - 1
      BY <2>2, <1>3 DEF Init, LastOf
    <3>2. TrimEndInv
      BY <1>2, <1>3, <2>2, <3>1 DEF TrimEndInv, EndBegun, SpacesFrom
    <3> QED BY <1>1, <1>5, <2>1, <2>2, <3>1, <3>2 DEF LoopInv, TrimInv
  <2>3. CASE call.method # "trim_end"
    <3>1. pc = "trim_start" /\ it = 0
      BY <1>1, <1>5, <2>3 DEF Init, Methods, Searching
    <3>2. TrimStartInv
      BY <1>2, <1>3, <3>1 DEF TrimStartInv, SpacesFrom
    <3> QED BY <1>1, <1>5, <2>1, <2>3, <3>1, <3>2 DEF LoopInv, TrimInv
  <2> QED BY <2>2, <2>3
<1> QED BY <1>4, <1>5

\* search, at a code point that is not sought: the iterator moves.
LEMMA AdvanceKeeps == LoopInv /\ Advance => LoopInv'
<1> SUFFICES ASSUME LoopInv, Advance PROVE LoopInv'
  OBVIOUS
<1> DEFINE taken == utf16_to_utf32(Text, Start + it).length
<1>1. Searching /\ SearchInv
  BY DEF LoopInv, TrimInv, Advance, AtCodePoint
<1>2. /\ Text \in Seq(char16_t) /\ Len(Text) \in Nat
      /\ Start \in Nat /\ Size \in Nat /\ Start + Size <= Len(Text)
  BY CallType
<1>3. window.begin = Start /\ window.size = Size /\ window.buffer = Text
  BY <1>1 DEF SearchInv, Start, Size, Text
<1>4. /\ it \in Nat /\ it # Size /\ Start + it < Len(Text)
      /\ is_lead_surrogate(Text[Start + it + 1]) => Start + (it + 1) < Len(Text)
      /\ it' = it + taken /\ window' = window /\ pc' = pc /\ call' = call
  BY <1>1, <1>2, <1>3 DEF Advance, AtCodePoint, Decodable, InBuffer, Unit, refresh_cp, SearchInv
<1>5. /\ window' = call'.on /\ pc' \in {"search", "return", "undefined"}
      /\ pc' = "undefined" => ~ Terminated
  BY <1>1, <1>4 DEF SearchInv
<1>6. CASE taken = 0
  <2>1. it' = it
    BY <1>4, <1>6
  <2> QED BY <1>1, <1>4, <2>1 DEF LoopInv, SearchInv, Searching, Terminated, EndsInsidePair,
                                 Text, Start, Size
<1>7. CASE taken = 1
  <2>1. it' = it + 1 /\ Text[Start + it + 1] # NUL
    BY <1>4, <1>7, LengthTaken
  <2>2. /\ it' \in Nat /\ Start + it' <= Len(Text)
        /\ it' > Size => EndsInsidePair
        /\ Terminated => it' = Size \/ Start + it' < Len(Text)
    BY <1>1, <1>2, <1>4, <2>1 DEF SearchInv, Terminated
  <2> QED BY <1>1, <1>4, <1>5, <2>2 DEF LoopInv, SearchInv, Searching, Terminated, EndsInsidePair,
                                        Text, Start, Size
<1>8. CASE taken = 2
  <2>1. /\ it' = it + 2
        /\ is_lead_surrogate(Text[Start + it + 1]) /\ is_trail_surrogate(Text[Start + it + 2])
    BY <1>4, <1>8, LengthTaken
  <2>2. Start + it + 2 \in 1 .. Len(Text) /\ Text[Start + it + 2] # NUL
    BY <1>2, <1>4, <2>1, UnitClasses
  <2>3. it' > Size => EndsInsidePair
    <3>1. CASE it > Size
      BY <1>1, <3>1 DEF SearchInv
    <3>2. CASE it + 1 = Size
      <4>1. Start + Size = Start + it + 1 /\ Start + Size + 1 = Start + it + 2
        BY <1>2, <1>4, <3>2
      <4>2. is_lead_surrogate(Text[Start + Size]) /\ is_trail_surrogate(Text[Start + Size + 1])
        BY <2>1, <4>1
      <4>3. Start + Size \in 1 .. (Len(Text) - 1)
        BY <1>2, <1>4, <2>2, <4>1
      <4>4. PairAt(Text, Start + Size)
        BY <4>2, <4>3 DEF PairAt
      <4> QED BY <1>2, <1>4, <3>2, <4>4 DEF EndsInsidePair, Text, Start, Size
    <3> QED BY <1>2, <1>4, <2>1, <3>1, <3>2
  <2>4. /\ it' \in Nat /\ Start + it' <= Len(Text)
        /\ Terminated => it' = Size \/ Start + it' < Len(Text)
    BY <1>2, <1>4, <2>1, <2>2 DEF Terminated
  <2> QED BY <1>1, <1>4, <1>5, <2>3, <2>4 DEF LoopInv, SearchInv, Searching, Terminated,
                                        EndsInsidePair, Text, Start, Size
<1> QED BY <1>6, <1>7, <1>8, LengthTaken

\* trim_start and trim_end, at a space: they walk on.
LEMMA SkipSpaceKeeps == LoopInv /\ SkipSpace => LoopInv'
<1> SUFFICES ASSUME LoopInv, SkipSpace PROVE LoopInv'
  OBVIOUS
<1>1. ~ Searching /\ TrimInv
  BY DEF LoopInv, SearchInv, SkipSpace
<1>2. /\ Text \in Seq(char16_t) /\ Len(Text) \in Nat
      /\ Start \in Nat /\ Size \in Nat /\ Start + Size <= Len(Text)
  BY CallType
<1>3. /\ window.buffer = Text /\ window.begin \in Nat /\ window.size \in Nat
  BY <1>1 DEF TrimInv
<1>4. /\ window' = window /\ call' = call /\ pc' = pc
      /\ window.begin + it \in 0 .. (Len(Text) - 1) /\ Text[window.begin + it + 1] = SPACE
  BY <1>3 DEF SkipSpace, AtSpace, InBuffer, Unit
<1>5. CASE pc = "trim_start"
  <2>1. /\ it' = it + 1 /\ it \in Nat /\ window.begin = Start /\ window = call.on
        /\ SpacesFrom(Start + 1, Start + it) /\ call.method # "trim_end"
    BY <1>1, <1>5 DEF SkipSpace, TrimInv, TrimStartInv, Start
  <2>2. SpacesFrom(Start + 1, Start + it')
    BY <1>2, <1>4, <2>1 DEF SpacesFrom
  <2>3. it' \in Nat /\ Start + it' <= Len(Text)
    BY <1>2, <1>4, <2>1
  <2> QED BY <1>1, <1>4, <1>5, <2>1, <2>2, <2>3
          DEF LoopInv, TrimInv, TrimStartInv, SpacesFrom, Searching, Text, Start, Size
<1>6. CASE pc = "trim_end"
  <2>1. /\ it' = it - 1 /\ it \in Int /\ it < window.size /\ -1 <= window.begin + it
        /\ EndBegun /\ window.begin + window.size = Start + Size
        /\ SpacesFrom(window.begin + it + 2, Start + Size) /\ call.method # "trim_start"
    BY <1>1, <1>6 DEF SkipSpace, TrimInv, TrimEndInv
  <2>2. SpacesFrom(window.begin + it' + 2, Start + Size)
    <3>0. window.begin + it' + 2 = window.begin + it + 1 /\ window.begin + it \in Int
      BY <1>3, <2>1
    <3> SUFFICES ASSUME NEW i \in (window.begin + it + 1) .. (Start + Size)
                 PROVE  Text[i] = SPACE
      BY <3>0 DEF SpacesFrom
    <3>1. i = window.begin + it + 1 \/ i \in (window.begin + it + 2) .. (Start + Size)
      BY <1>2, <3>0
    <3> QED BY <1>4, <2>1, <3>1 DEF SpacesFrom
  <2>3. it' \in Int /\ it' < window.size /\ -1 <= window.begin + it'
    BY <1>2, <1>3, <1>4, <2>1
  <2>4. EndBegun'
    BY <1>4, <2>1 DEF EndBegun, StartTrimmed, SpacesFrom, Text, Start, Size
  <2> QED BY <1>1, <1>4, <1>6, <2>1, <2>2, <2>3, <2>4
          DEF LoopInv, TrimInv, TrimEndInv, SpacesFrom, Searching, Text, Start, Size
<1> QED BY <1>5, <1>6 DEF SkipSpace

\* The end of trim_start's loop: the view begins at the unit it has found. It
\* is what trim_start returns, and what the loop of trim_end is run on in trim.
LEMMA TrimStartReturnKeeps == LoopInv /\ TrimStartReturn => LoopInv'
<1> SUFFICES ASSUME LoopInv, TrimStartReturn PROVE LoopInv'
  OBVIOUS
<1>1. ~ Searching /\ TrimInv
  BY DEF LoopInv, SearchInv, TrimStartReturn
<1>2. /\ Text \in Seq(char16_t) /\ Len(Text) \in Nat
      /\ Start \in Nat /\ Size \in Nat /\ Start + Size <= Len(Text)
      /\ call.method \in Methods
  BY CallType
<1>3. /\ it \in Nat /\ window = call.on /\ SpacesFrom(Start + 1, Start + it)
      /\ call.method # "trim_end"
  BY <1>1 DEF TrimStartReturn, TrimInv, TrimStartInv
<1>4. call.on = [buffer |-> Text, begin |-> Start, size |-> Size]
  BY CallType
<1>5. /\ call' = call /\ it <= Size
      /\ Start + it \in 0 .. (Len(Text) - 1) /\ Text[Start + it + 1] # SPACE
  BY <1>3, <1>4 DEF TrimStartReturn, BehindRun, InBuffer, Unit
<1>6. window' = [buffer |-> Text, begin |-> Start + it, size |-> Size - it]
  <2>1. window = [buffer |-> Text, begin |-> Start, size |-> Size]
    BY <1>3, <1>4
  <2>2. window' = [window EXCEPT !.begin = @ + it, !.size = @ - it]
    BY DEF TrimStartReturn
  <2> QED BY <2>1, <2>2
<1>7. /\ Text' = Text /\ Start' = Start /\ Size' = Size
      /\ window'.begin = Start + it /\ window'.size = Size - it
      /\ window' \in [buffer : {Text}, begin : Nat, size : Nat]
  <2>1. Text' = Text /\ Start' = Start /\ Size' = Size
    BY <1>5 DEF Text, Start, Size
  <2>2. Start + it \in Nat /\ Size - it \in Nat
    BY <1>2, <1>3, <1>5
  <2> QED BY <1>6, <2>1, <2>2
<1>8. StartTrimmed'
  BY <1>2, <1>3, <1>5, <1>7 DEF StartTrimmed, SpacesFrom
<1>9. window'.begin + window'.size = Start + Size
  BY <1>2, <1>3, <1>7
<1>10. CASE call.method = "trim"
  <2>1. pc' = "trim_end" /\ it' = Size - it - 1
    BY <1>7, <1>10 DEF TrimStartReturn, LastOf
  <2>2. EndBegun'
    BY <1>5, <1>8, <1>10 DEF EndBegun
  <2>3. /\ it' \in Int /\ it' < window'.size /\ -1 <= window'.begin + it'
        /\ SpacesFrom(window.begin + it + 2, Start + Size)' 
    BY <1>2, <1>3, <1>5, <1>7, <1>9, <2>1 DEF SpacesFrom
  <2>4. TrimEndInv'
    BY <1>7, <1>9, <2>1, <2>2, <2>3 DEF TrimEndInv
  <2> QED BY <1>1, <1>5, <1>7, <1>10, <2>1, <2>4 DEF LoopInv, TrimInv, Searching
<1>11. CASE call.method = "trim_start"
  <2>1. pc' = "return"
    BY <1>11 DEF TrimStartReturn
  <2>2. StartReturned'
    BY <1>7, <1>8, <1>9 DEF StartReturned
  <2> QED BY <1>1, <1>5, <1>7, <1>11, <2>1, <2>2 DEF LoopInv, TrimInv, Searching
<1> QED BY <1>1, <1>2, <1>3, <1>10, <1>11 DEF Methods, Searching

LEMMA TrimStartThrowsKeeps == LoopInv /\ TrimStartThrows => LoopInv'
<1> SUFFICES ASSUME LoopInv, TrimStartThrows PROVE LoopInv'
  OBVIOUS
<1>1. ~ Searching /\ TrimInv
  BY DEF LoopInv, SearchInv, TrimStartThrows
<1>2. /\ Start \in Nat /\ Size \in Nat
  BY CallType
<1>3. /\ window' = window /\ call' = call /\ it' = it /\ pc' = "terminated"
      /\ TrimStartInv /\ call.method # "trim_end" /\ it > Size
  BY <1>1 DEF TrimStartThrows, TrimInv, TrimStartInv, Size
<1>4. Text[Start + Size + 1] = SPACE
  BY <1>2, <1>3 DEF TrimStartInv, SpacesFrom
<1> QED BY <1>1, <1>3, <1>4
        DEF LoopInv, TrimInv, TrimStartInv, SpacesFrom, Searching, Text, Start, Size

\* The end of trim_end's loop. In front of the beginning of the view end + 1
\* wraps, and substr returns all of it.
LEMMA TrimEndReturnKeeps == LoopInv /\ TrimEndReturn => LoopInv'
<1> SUFFICES ASSUME LoopInv, TrimEndReturn PROVE LoopInv'
  OBVIOUS
<1>1. ~ Searching /\ TrimInv
  BY DEF LoopInv, SearchInv, TrimEndReturn
<1>2. /\ Text \in Seq(char16_t) /\ Len(Text) \in Nat
      /\ Start \in Nat /\ Size \in Nat /\ Start + Size <= Len(Text)
      /\ 2 * Len(Text) < SIZE_MAX /\ SIZE_MAX \in Nat
  BY CallType, SizeMaxAssumption
<1>3. /\ it \in Int /\ it < window.size /\ -1 <= window.begin + it
      /\ EndBegun /\ window.begin + window.size = Start + Size
      /\ SpacesFrom(window.begin + it + 2, Start + Size) /\ call.method # "trim_start"
  BY <1>1 DEF TrimEndReturn, TrimInv, TrimEndInv
<1>4. window \in [buffer : {Text}, begin : Nat, size : Nat]
  BY <1>1 DEF TrimInv
<1>5. /\ call' = call /\ pc' = "return"
      /\ window.begin + it \in 0 .. (Len(Text) - 1) /\ Text[window.begin + it + 1] # SPACE
      /\ window' = [window EXCEPT !.size = Least(Wrap(it + 1), @)]
  BY <1>4 DEF TrimEndReturn, BehindRun, InBuffer, Unit
<1>6. /\ Text' = Text /\ Start' = Start /\ Size' = Size
  BY <1>5 DEF Text, Start, Size
<1>7. CASE it + 1 >= 0
  <2>1. Wrap(it + 1) = it + 1
    <3>1. it + 1 \in size_t
      BY <1>2, <1>3, <1>4, <1>7 DEF size_t
    <3> QED BY <3>1, WrapFits
  <2>2. window' = [buffer |-> Text, begin |-> window.begin, size |-> it + 1]
    BY <1>3, <1>4, <1>5, <2>1 DEF Least
  <2>3. /\ window' \in [buffer : {Text}, begin : Nat, size : Nat]
        /\ window'.begin = window.begin /\ window'.size = it + 1
    BY <1>3, <1>4, <1>7, <2>2
  <2>4. EndBegun'
    BY <1>3, <1>5, <1>6, <2>3 DEF EndBegun, StartTrimmed, SpacesFrom
  <2>5. EndReturned'
    <3> DEFINE end == window.begin + it + 1
    <3>1. /\ end = window'.begin + window'.size /\ end + 1 = window.begin + it + 2
          /\ end <= Start + Size /\ end > 0
      BY <1>3, <1>4, <1>5, <2>3
    <3>2. SpacesFrom(end + 1, Start + Size) /\ Text[end] # SPACE
      BY <1>3, <1>5, <3>1
    <3> HIDE DEF end
    <3>3. \A i \in (end + 1) .. (Start + Size) : Text'[i] = SPACE
      BY <1>6, <3>2 DEF SpacesFrom
    <3> QED BY <1>6, <2>4, <3>1, <3>2, <3>3 DEF EndReturned, SpacesFrom
  <2> QED BY <1>1, <1>3, <1>5, <1>6, <2>3, <2>5 DEF LoopInv, TrimInv, Searching
<1>8. CASE it + 1 < 0
  <2>1. Wrap(it + 1) = it + 1 + SIZE_MAX + 1
    <3>1. it + 1 \in (-SIZE_MAX) .. (-1)
      BY <1>2, <1>3, <1>4, <1>8
    <3> QED BY <3>1, WrapBelow
  <2>2. window.size <= Wrap(it + 1)
    BY <1>2, <1>3, <1>4, <2>1
  <2>3. window' = window
    <3>1. window' = [window EXCEPT !.size = Least(Wrap(it + 1), window.size)]
      BY <1>5
    <3>2. Least(Wrap(it + 1), window.size) = window.size
      <4> DEFINE x == Wrap(it + 1)
                 y == window.size
      <4>1. x \in Int /\ y \in Int /\ y <= x
        BY <1>2, <1>3, <1>4, <2>1, <2>2
      <4> HIDE DEF x, y
      <4>2. Least(x, y) = y
        BY <4>1 DEF Least
      <4> QED BY <4>2 DEF x, y
    <3> QED BY <1>4, <3>1, <3>2
  <2>4. EndBegun'
    BY <1>3, <1>5, <1>6, <2>3 DEF EndBegun, StartTrimmed, SpacesFrom
  <2>5. SpacesFrom(window.begin, Start + Size) /\ window.begin > 0
    BY <1>3, <1>4, <1>8 DEF SpacesFrom
  <2>6. EndReturned'
    BY <1>3, <1>6, <2>3, <2>4, <2>5 DEF EndReturned, SpacesFrom
  <2> QED BY <1>1, <1>3, <1>4, <1>5, <1>6, <2>3, <2>6 DEF LoopInv, TrimInv, Searching
<1> QED BY <1>3, <1>7, <1>8

LEMMA OverrunKeeps == LoopInv /\ Overrun => LoopInv'
<1> SUFFICES ASSUME LoopInv, Overrun PROVE LoopInv'
  OBVIOUS
<1>1. /\ Text \in Seq(char16_t) /\ Len(Text) \in Nat
      /\ Start \in Nat /\ Size \in Nat /\ Start + Size <= Len(Text)
  BY CallType
<1>2. call' = call /\ window' = window /\ it' = it /\ pc' = "undefined"
  BY DEF Overrun
<1>3. CASE Searching
  <2>1. SearchInv
    BY <1>3 DEF LoopInv
  <2>2. /\ window.begin = Start /\ window.size = Size /\ window.buffer = Text
        /\ it \in Nat /\ it # Size /\ ~ Decodable
    BY <2>1 DEF SearchInv, Overrun, Start, Size, Text
  <2>3. ~ Terminated
    <3> SUFFICES ASSUME Terminated PROVE FALSE
      OBVIOUS
    <3>1. Start + it < Len(Text)
      BY <2>1, <2>2 DEF SearchInv
    <3>2. is_lead_surrogate(Text[Start + it + 1]) /\ ~ (Start + (it + 1) < Len(Text))
      BY <1>1, <2>2, <3>1 DEF Decodable, InBuffer, Unit
    <3>3. Start + it + 1 = Len(Text)
      BY <1>1, <2>2, <3>1, <3>2
    <3> QED BY <3>2, <3>3, UnitClasses DEF Terminated
  <2> QED BY <1>2, <1>3, <2>1, <2>3
          DEF LoopInv, SearchInv, Searching, Terminated, EndsInsidePair, Text, Start, Size
<1>4. CASE ~ Searching
  <2>1. TrimInv
    BY <1>4 DEF LoopInv
  <2>2. window.begin \in Nat /\ window.size \in Nat /\ window.buffer = Text
    BY <2>1 DEF TrimInv
  <2>3. CASE pc = "trim_start"
    <3>1. TrimStartInv /\ window.begin = Start /\ call.method # "trim_end"
      BY <2>1, <2>3 DEF TrimInv, TrimStartInv, Start
    <3>2. Start + it = Len(Text)
      BY <1>1, <2>2, <2>3, <3>1 DEF Overrun, InBuffer, TrimStartInv
    <3> QED BY <1>2, <1>4, <2>1, <3>1, <3>2, <2>3
            DEF LoopInv, TrimInv, TrimStartInv, SpacesFrom, Searching, Text, Start, Size
  <2>4. CASE pc = "trim_end"
    <3>1. TrimEndInv /\ call.method # "trim_start"
      BY <2>1, <2>4 DEF TrimInv
    <3>2. window.begin + it = -1
      BY <1>1, <2>2, <2>4, <3>1 DEF Overrun, InBuffer, TrimEndInv
    <3> QED BY <1>2, <1>4, <2>1, <3>1, <3>2, <2>4
            DEF LoopInv, TrimInv, TrimEndInv, EndBegun, StartTrimmed, SpacesFrom, Searching,
                Text, Start, Size
  <2> QED BY <2>1, <2>3, <2>4 DEF Overrun, TrimInv
<1> QED BY <1>3, <1>4

LEMMA LoopStep == LoopInv /\ [Next]_vars => LoopInv'
<1> SUFFICES ASSUME LoopInv, [Next]_vars PROVE LoopInv'
  OBVIOUS
<1>1. ASSUME Found \/ NotFound PROVE LoopInv'
  <2>1. call' = call /\ window' = window /\ it' = it /\ pc' = "return" /\ pc = "search"
    BY <1>1 DEF Found, NotFound, AtCodePoint
  <2>2. Searching /\ SearchInv
    BY <2>1 DEF LoopInv, TrimInv
  <2> QED BY <2>1, <2>2
          DEF LoopInv, SearchInv, Searching, Terminated, EndsInsidePair, Text, Start, Size
<1>2. CASE UNCHANGED vars
  BY <1>2 DEF vars, LoopInv, SearchInv, TrimInv, TrimStartInv, TrimEndInv, StartReturned,
              EndReturned, EndBegun, StartTrimmed, SpacesFrom, Searching, Terminated,
              EndsInsidePair, Text, Start, Size
<1> QED
  BY <1>1, <1>2, AdvanceKeeps, SkipSpaceKeeps, TrimStartReturnKeeps, TrimStartThrowsKeeps,
     TrimEndReturnKeeps, OverrunKeeps DEF Next

LEMMA LoopCorrect == Spec => []LoopInv
BY LoopInit, LoopStep, PTL DEF Spec

\* search (osv.h) leaves its view only between the surrogates of a pair, and
\* never a buffer with a terminator.
THEOREM SearchWithin == Spec => []SearchStays
<1>1. LoopInv => SearchStays
  BY DEF LoopInv, SearchInv, SearchStays, Terminated, Text, Size
<1> QED BY <1>1, LoopCorrect, PTL

-----------------------------------------------------------------------------
(* The trims.                                                              *)

LEMMA BlankView ==
  ASSUME LoopInv
  PROVE  Blank(view) <=> SpacesFrom(Start + 1, Start + Size)
<1>1. /\ Start \in Nat /\ Size \in Nat
      /\ Len(view) = Size /\ \A i \in 1 .. Size : view[i] = Text[Start + i]
  BY CallType, ViewType
<1>2. ASSUME Blank(view), NEW i \in (Start + 1) .. (Start + Size) PROVE Text[i] = SPACE
  <2>1. i - Start \in 1 .. Size /\ Start + (i - Start) = i
    BY <1>1
  <2>2. view[i - Start] = SPACE /\ view[i - Start] = Text[Start + (i - Start)]
    BY <1>1, <1>2, <2>1 DEF Blank
  <2> QED BY <2>1, <2>2
<1>3. ASSUME SpacesFrom(Start + 1, Start + Size), NEW i \in 1 .. Size PROVE view[i] = SPACE
  <2>1. Start + i \in (Start + 1) .. (Start + Size)
    BY <1>1
  <2> QED BY <1>1, <1>3, <2>1 DEF SpacesFrom
<1> QED BY <1>1, <1>2, <1>3 DEF Blank, SpacesFrom

\* The units of the view from the first-th to the last-th are its core if
\* these are no spaces, and those cut off are.
LEMMA CoreIs ==
  ASSUME LoopInv, NEW atStart \in BOOLEAN, NEW atEnd \in BOOLEAN,
         NEW first \in 1 .. Size, NEW last \in first .. Size,
         IF atStart
         THEN Text[Start + first] # SPACE /\ SpacesFrom(Start + 1, Start + first - 1)
         ELSE first = 1,
         IF atEnd
         THEN Text[Start + last] # SPACE /\ SpacesFrom(Start + last + 1, Start + Size)
         ELSE last = Size,
         ~ Blank(view)
  PROVE  Core(view, atStart, atEnd) = SubSeq(Text, Start + first, Start + last)
<1> DEFINE text == {i \in 1 .. Len(view) : view[i] # SPACE}
<1>1. /\ Start \in Nat /\ Size \in Nat /\ Start + Size <= Len(Text)
      /\ Text \in Seq(char16_t) /\ Len(Text) \in Nat
      /\ view \in Seq(char16_t)
      /\ Len(view) = Size /\ \A i \in 1 .. Size : view[i] = Text[Start + i]
  BY CallType, ViewType
<1>2. text # {} /\ text \in SUBSET Int
  BY DEF Blank
<1>3. atStart => Min(text) = first
  <2> SUFFICES ASSUME atStart PROVE Min(text) = first
    OBVIOUS
  <2>1. first \in text
    BY <1>1
  <2>2. ASSUME NEW i \in text PROVE first <= i
    <3> SUFFICES ASSUME i < first PROVE FALSE
      BY <1>1
    <3>1. Start + i \in (Start + 1) .. (Start + first - 1) /\ i \in 1 .. Size
      BY <1>1
    <3> QED BY <1>1, <2>2, <3>1 DEF SpacesFrom
  <2> HIDE DEF text
  <2> QED BY <1>2, <2>1, <2>2, MinIs
<1>4. atEnd => Max(text) = last
  <2> SUFFICES ASSUME atEnd PROVE Max(text) = last
    OBVIOUS
  <2>0. last \in 1 .. Size
    BY <1>1
  <2>1. last \in text
    BY <1>1, <2>0
  <2>2. ASSUME NEW i \in text PROVE i <= last
    <3> SUFFICES ASSUME last < i PROVE FALSE
      BY <1>1
    <3>1. Start + i \in (Start + last + 1) .. (Start + Size) /\ i \in 1 .. Size
      BY <1>1
    <3> QED BY <1>1, <2>2, <3>1 DEF SpacesFrom
  <2> HIDE DEF text
  <2> QED BY <1>2, <2>1, <2>2, MaxIs
<1>5. Core(view, atStart, atEnd) =
        IF text = {} THEN <<>>
        ELSE SubSeq(view, IF atStart THEN Min(text) ELSE 1, IF atEnd THEN Max(text) ELSE Len(view))
  BY DEF Core
<1> HIDE DEF text
<1>6. Core(view, atStart, atEnd) = SubSeq(view, first, last)
  <2>1. (IF atStart THEN Min(text) ELSE 1) = first
    BY <1>3
  <2>2. (IF atEnd THEN Max(text) ELSE Len(view)) = last
    BY <1>1, <1>4
  <2> QED BY <1>2, <1>5, <2>1, <2>2
<1>7. view = SubSeq(Text, Start + 1, Start + Size)
  BY DEF view, Shown, Text, Start, Size
<1>8. SubSeq(SubSeq(Text, Start + 1, Start + Size), first, last) =
        SubSeq(Text, Start + 1 + first - 1, Start + 1 + last - 1)
  <2>1. /\ Start + 1 \in 1 .. Len(Text) /\ Start + Size \in 1 .. Len(Text)
        /\ first \in 1 .. (Start + Size - (Start + 1) + 1)
        /\ last \in 1 .. (Start + Size - (Start + 1) + 1)
    BY <1>1
  <2> QED BY <1>1, <2>1, SubSeqOfSubSeq
<1>9. Start + 1 + first - 1 = Start + first /\ Start + 1 + last - 1 = Start + last
  BY <1>1
<1> QED BY <1>6, <1>7, <1>8, <1>9

\* A view that is not blank is trimmed of exactly its leading and trailing
\* spaces, whatever precedes and follows it in memory.
THEOREM TrimCorrect == Spec => []TrimExact
<1>1. LoopInv => TrimExact
  <2> SUFFICES ASSUME LoopInv, ~ Searching, ~ Blank(view)
               PROVE  /\ pc \notin {"terminated", "undefined"}
                      /\ pc = "return" =>
                           Shown(window) = Core(view, call.method # "trim_end",
                                                      call.method # "trim_start")
    BY DEF TrimExact
  <2>1. /\ Start \in Nat /\ Size \in Nat /\ Start + Size <= Len(Text)
        /\ Text \in Seq(char16_t) /\ Len(Text) \in Nat /\ call.method \in Methods
    BY CallType
  <2>2. PICK m \in (Start + 1) .. (Start + Size) : Text[m] # SPACE
    BY BlankView DEF SpacesFrom
  <2>3. TrimInv /\ window.begin \in Nat /\ window.size \in Nat /\ window.buffer = Text
    BY DEF LoopInv, TrimInv
  <2>4. pc # "terminated"
    BY <2>1, <2>2, <2>3 DEF TrimInv, TrimStartInv, SpacesFrom
  <2>5. pc # "undefined"
    BY <2>1, <2>2, <2>3 DEF TrimInv, TrimStartInv, TrimEndInv, SpacesFrom
  <2>6. ASSUME pc = "return"
        PROVE  Shown(window) = Core(view, call.method # "trim_end", call.method # "trim_start")
    <3> DEFINE end   == window.begin + window.size
               first == IF call.method = "trim_end" THEN 1 ELSE window.begin + 1 - Start
               last  == IF call.method = "trim_start" THEN Size ELSE end - Start
    <3>1. Shown(window) = SubSeq(Text, window.begin + 1, end)
      BY <2>3 DEF Shown
    <3>2. IF call.method = "trim_end" THEN window.begin = Start ELSE StartTrimmed
      BY <2>1, <2>3, <2>6
         DEF TrimInv, StartReturned, EndReturned, EndBegun, Methods, Searching
    <3>3. call.method # "trim_end" => window.begin < m
      BY <2>1, <2>2, <2>3, <3>2 DEF StartTrimmed, SpacesFrom
    <3>4. CASE call.method = "trim_start"
      <4>1. end = Start + Size
        BY <2>3, <2>6, <3>4 DEF TrimInv, StartReturned
      <4>2. /\ first \in 1 .. Size /\ last \in first .. Size /\ Start + first = window.begin + 1
            /\ Start + last = end /\ last = Size
        BY <2>1, <2>2, <2>3, <3>2, <3>3, <3>4, <4>1 DEF StartTrimmed
      <4>3. Text[Start + first] # SPACE /\ SpacesFrom(Start + 1, Start + first - 1)
        BY <2>1, <2>3, <3>2, <3>4, <4>2 DEF StartTrimmed, SpacesFrom
      <4> HIDE DEF first, last, end
      <4>4. Core(view, TRUE, FALSE) = SubSeq(Text, Start + first, Start + last)
        BY <4>2, <4>3, CoreIs
      <4>5. (call.method # "trim_end") = TRUE /\ (call.method # "trim_start") = FALSE
        BY <3>4
      <4> QED BY <3>1, <4>2, <4>4, <4>5
    <3>5. CASE call.method # "trim_start"
      <4>1. EndReturned
        BY <2>3, <2>6, <3>5 DEF TrimInv
      <4>2. /\ end <= Start + Size /\ SpacesFrom(end + 1, Start + Size)
            /\ end > 0 /\ Text[end] # SPACE
        <5>1. ~ (end = Start + Size /\ SpacesFrom(window.begin, end))
          BY <2>1, <2>2, <2>3, <3>2, <3>3 DEF SpacesFrom
        <5> QED BY <4>1, <5>1 DEF EndReturned
      <4>3. m <= end
        BY <2>1, <2>2, <2>3, <4>2 DEF SpacesFrom
      <4>4. /\ first \in 1 .. Size /\ last \in first .. Size /\ Start + first = window.begin + 1
            /\ Start + last = end
        <5>1. window.begin < end /\ Start <= window.begin /\ last = end - Start /\ end \in Nat
          BY <2>1, <2>2, <2>3, <3>2, <3>3, <3>5, <4>3 DEF StartTrimmed
        <5>2. first = window.begin + 1 - Start
          BY <2>1, <3>2
        <5> DEFINE b == window.begin
        <5>3. b \in Nat /\ b < end /\ Start <= b /\ first = b + 1 - Start
          BY <2>3, <5>1, <5>2
        <5> HIDE DEF first, last, end, b
        <5>4. first \in 1 .. Size /\ last \in first .. Size
          BY <2>1, <4>2, <5>1, <5>3
        <5>5. Start + first = b + 1 /\ Start + last = end
          BY <2>1, <5>1, <5>3
        <5> QED BY <5>4, <5>5 DEF b
      <4>5. IF call.method # "trim_end"
            THEN Text[Start + first] # SPACE /\ SpacesFrom(Start + 1, Start + first - 1)
            ELSE first = 1
        BY <2>1, <2>3, <3>2, <4>4 DEF StartTrimmed, SpacesFrom
      <4>6. Text[Start + last] # SPACE /\ SpacesFrom(Start + last + 1, Start + Size)
        BY <4>2, <4>4
      <4> HIDE DEF first, last, end
      <4>7. Core(view, call.method # "trim_end", TRUE) = SubSeq(Text, Start + first, Start + last)
        <5>1. (call.method # "trim_end") \in BOOLEAN
          OBVIOUS
        <5> QED BY <4>4, <4>5, <4>6, <5>1, CoreIs
      <4>8. (call.method # "trim_start") = TRUE
        BY <3>5
      <4> QED BY <3>1, <4>4, <4>7, <4>8
    <3> QED BY <3>4, <3>5
  <2> QED BY <2>4, <2>5, <2>6
<1> QED BY <1>1, LoopCorrect, PTL

\* What becomes of a blank view is decided by what lies around it in memory.
THEOREM BlankCorrect == Spec => []BlankCause
<1>1. LoopInv => BlankCause
  <2> SUFFICES ASSUME LoopInv, ~ Searching, Blank(view)
               PROVE  /\ pc = "return" =>
                           IF call.method = "trim_end" /\ SpaceBefore
                           THEN window = call.on ELSE window.size = 0
                      /\ pc = "terminated" => call.method # "trim_end" /\ SpaceBehind
                      /\ pc = "undefined" =>
                           \/ call.method # "trim_end" /\ SpacesBehind
                           \/ call.method # "trim_start" /\ SpacesBefore
    BY DEF BlankCause
  <2>1. /\ Start \in Nat /\ Size \in Nat /\ Start + Size <= Len(Text)
        /\ Text \in Seq(char16_t) /\ Len(Text) \in Nat /\ call.method \in Methods
        /\ call.on = [buffer |-> Text, begin |-> Start, size |-> Size]
    BY CallType
  <2>2. SpacesFrom(Start + 1, Start + Size)
    BY BlankView
  <2>3. /\ TrimInv /\ window.begin \in Nat /\ window.size \in Nat
        /\ window = [buffer |-> Text, begin |-> window.begin, size |-> window.size]
    BY DEF LoopInv, TrimInv
  <2>4. SpaceBefore <=> Start > 0 /\ Text[Start] = SPACE
    BY DEF SpaceBefore, Start, Text
  <2>5. ASSUME pc = "return"
        PROVE  IF call.method = "trim_end" /\ SpaceBefore
               THEN window = call.on ELSE window.size = 0
    <3> DEFINE end == window.begin + window.size
    <3>1. ASSUME StartTrimmed PROVE window.begin = Start + Size
      <4>1. Text[window.begin + 1] # SPACE
        BY <3>1 DEF StartTrimmed
      <4>2. Start <= window.begin /\ window.begin <= Start + Size
        BY <2>1, <2>3, <3>1 DEF StartTrimmed
      <4> DEFINE b == window.begin + 1
      <4>3. CASE window.begin # Start + Size
        <5>1. b \in (Start + 1) .. (Start + Size)
          BY <2>1, <2>3, <4>2, <4>3
        <5> HIDE DEF b
        <5>2. Text[b] = SPACE
          BY <2>2, <5>1 DEF SpacesFrom
        <5> QED BY <4>1, <4>3, <5>2 DEF b
      <4> QED BY <4>3
    <3>2. CASE call.method = "trim_start"
      BY <2>1, <2>3, <2>5, <3>1, <3>2 DEF TrimInv, StartReturned
    <3>3. CASE call.method = "trim"
      <4>1. EndReturned /\ StartTrimmed
        BY <2>3, <2>5, <3>3 DEF TrimInv, EndReturned, EndBegun
      <4>2. end <= Start + Size
        BY <2>1, <2>3, <4>1 DEF EndReturned
      <4> QED BY <2>1, <2>3, <3>1, <3>3, <4>1, <4>2
    <3>4. CASE call.method = "trim_end"
      <4>1. EndReturned /\ window.begin = Start
        BY <2>3, <2>5, <3>4 DEF TrimInv, EndReturned, EndBegun
      <4>2. CASE /\ end <= Start + Size /\ end > 0 /\ Text[end] # SPACE
        <5>1. end = Start
          BY <2>1, <2>2, <2>3, <4>1, <4>2 DEF SpacesFrom
        <5>2. window.size = 0 /\ ~ SpaceBefore
          BY <2>1, <2>3, <2>4, <4>1, <4>2, <5>1
        <5> QED BY <5>2
      <4>3. CASE /\ end = Start + Size /\ SpacesFrom(window.begin, end) /\ window.begin > 0
        <5>1. window.size = Size
          BY <2>1, <2>3, <4>1, <4>3
        <5>2. SpaceBefore
          BY <2>1, <2>4, <4>1, <4>3 DEF SpacesFrom
        <5> QED BY <2>1, <2>3, <3>4, <4>1, <5>1, <5>2
      <4> QED BY <4>1, <4>2, <4>3 DEF EndReturned
    <3> QED BY <2>1, <3>2, <3>3, <3>4 DEF Methods, Searching
  <2>6. ASSUME pc = "terminated" PROVE call.method # "trim_end" /\ SpaceBehind
    <3>1. /\ TrimStartInv /\ call.method # "trim_end"
      BY <2>3, <2>6 DEF TrimInv
    <3>2. it > Size /\ Text[Start + Size + 1] = SPACE /\ it \in Nat /\ Start + it <= Len(Text)
      BY <2>6, <3>1 DEF TrimStartInv
    <3>3. Start + Size < Len(Text)
      BY <2>1, <3>2
    <3> QED BY <3>1, <3>2, <3>3 DEF SpaceBehind, Text, Start, Size
  <2>7. ASSUME pc = "undefined"
        PROVE  \/ call.method # "trim_end" /\ SpacesBehind
               \/ call.method # "trim_start" /\ SpacesBefore
    <3>1. CASE TrimStartInv /\ call.method # "trim_end"
      <4>1. SpacesFrom(Start + 1, Len(Text))
        BY <2>7, <3>1 DEF TrimStartInv
      <4>2. Blank(SubSeq(Text, Start + Size + 1, Len(Text)))
        <5>1. ASSUME NEW i \in 1 .. (Len(Text) - (Start + Size))
              PROVE  SubSeq(Text, Start + Size + 1, Len(Text))[i] = SPACE
          <6>1. SubSeq(Text, Start + Size + 1, Len(Text))[i] = Text[Start + Size + i]
            BY <2>1
          <6>2. Start + Size + i \in (Start + 1) .. Len(Text)
            BY <2>1
          <6> QED BY <4>1, <6>1, <6>2 DEF SpacesFrom
        <5>2. Len(SubSeq(Text, Start + Size + 1, Len(Text))) = Len(Text) - (Start + Size)
          BY <2>1
        <5> QED BY <5>1, <5>2 DEF Blank
      <4> QED BY <3>1, <4>2 DEF SpacesBehind, Text, Start, Size
    <3>2. CASE TrimEndInv /\ call.method # "trim_start"
      <4>1. SpacesFrom(1, Start + Size)
        BY <2>7, <3>2 DEF TrimEndInv
      <4>2. Blank(SubSeq(Text, 1, Start))
        BY <2>1, <4>1 DEF Blank, SpacesFrom
      <4> QED BY <3>2, <4>2 DEF SpacesBefore, Text, Start
    <3> QED BY <2>3, <2>7, <3>1, <3>2 DEF TrimInv
  <2> QED BY <2>5, <2>6, <2>7
<1> QED BY <1>1, LoopCorrect, PTL
-----------------------------------------------------------------------------
(* What search returns.                                                    *)

Wanted == {UTF16(c) : c \in call.predicate}

\* How many code points of the view begin before the iterator.
Passed == Cardinality(StartsUpTo(view, it))

\* In well-formed UTF-16 the iterator stands where a code point begins, or at
\* the end, and has passed none that is sought.
FindInv ==
  Searching /\ WellFormed(view) =>
    /\ it <= Size /\ AtScanHead(view, it + 1)
    /\ \A k \in 0 .. (Passed - 1) : CodePoints(view, k, k + 1) \notin Wanted
    /\ pc = "return" =>
         \/ ret = Passed /\ it < Size /\ CodePoints(view, Passed, Passed + 1) \in Wanted
         \/ ret = SIZE_MAX /\ it = Size

\* A unit that is a code point, and a pair, are sought if their value is.
LEMMA UnitSought ==
  ASSUME LoopInv, NEW c \in char16_t
  PROVE  <<c>> \in Wanted <=> c \in call.predicate
<1>1. call.predicate \subseteq Nat /\ c \in Nat /\ c < 65536
  <2>1. call.predicate \subseteq Nat
    BY CallType
  <2>2. c \in Nat /\ c < 65536
    BY UnitNumbers
  <2> QED BY <2>1, <2>2
<1>2. ASSUME NEW v \in call.predicate PROVE UTF16(v) = <<c>> <=> v = c
  <2>1. CASE v < 65536
    BY <2>1 DEF UTF16
  <2>2. CASE ~ (v < 65536)
    <3>1. Len(UTF16(v)) = 2
      BY <2>2 DEF UTF16
    <3> QED BY <1>1, <2>2, <3>1
  <2> QED BY <2>1, <2>2
<1> QED BY <1>2 DEF Wanted

\* A number is split in one way into its low ten bits and the others.
LEMMA SplitNumber ==
  ASSUME NEW n \in Nat, NEW q \in Int, NEW r \in 0 .. 1023
  PROVE  n \div 1024 = q /\ n % 1024 = r <=> n = q * 1024 + r
<1> DEFINE x == n \div 1024
           y == n % 1024
<1>1. n = x * 1024 + y /\ y \in 0 .. 1023 /\ x \in Nat
  OBVIOUS
<1> HIDE DEF x, y
<1>2. x = q /\ y = r => n = q * 1024 + r
  BY <1>1
<1>3. n = q * 1024 + r => x = q
  BY <1>1
<1>4. n = q * 1024 + r /\ x = q => y = r
  BY <1>1
<1> QED BY <1>2, <1>3, <1>4 DEF x, y

LEMMA PairSought ==
  ASSUME LoopInv, NEW a \in char16_t, is_lead_surrogate(a),
         NEW b \in char16_t, is_trail_surrogate(b)
  PROVE  <<a, b>> \in Wanted <=>
           (a - LEAD_SURROGATE_MIN) * 1024 + (b - TRAIL_SURROGATE_MIN) + SUPPLEMENTARY_DELTA
             \in call.predicate
<1> DEFINE x == (a - LEAD_SURROGATE_MIN) * 1024 + (b - TRAIL_SURROGATE_MIN) + SUPPLEMENTARY_DELTA
<1>1. call.predicate \subseteq Nat
  BY CallType
<1>2. /\ a \in Int /\ b \in Int /\ 55296 <= a /\ 56320 <= b /\ b <= 56320 + 1023
      /\ x = (a - 55296) * 1024 + (b - 56320) + 65536
  BY UnitNumbers DEF is_lead_surrogate, is_trail_surrogate, LEAD_SURROGATE_MIN,
         TRAIL_SURROGATE_MIN, TRAIL_SURROGATE_MAX, SUPPLEMENTARY_DELTA
<1> HIDE DEF x
<1>3. ASSUME NEW v \in call.predicate PROVE UTF16(v) = <<a, b>> <=> v = x
  <2>1. CASE v < 65536
    <3>1. Len(UTF16(v)) = 1
      BY <2>1 DEF UTF16
    <3> QED BY <1>2, <2>1, <3>1
  <2>2. CASE ~ (v < 65536)
    <3>1. UTF16(v) = <<55296 + (v - 65536) \div 1024, 56320 + ((v - 65536) % 1024)>>
      BY <2>2 DEF UTF16
    <3>2. UTF16(v) = <<a, b>> <=>
            (v - 65536) \div 1024 = a - 55296 /\ (v - 65536) % 1024 = b - 56320
      BY <1>1, <1>2, <3>1
    <3>3. (v - 65536) \div 1024 = a - 55296 /\ (v - 65536) % 1024 = b - 56320 <=>
            v - 65536 = (a - 55296) * 1024 + (b - 56320)
      <4>1. v - 65536 \in Nat /\ a - 55296 \in Int
        <5>1. v \in Nat
          BY <1>1
        <5> QED BY <1>2, <2>2, <5>1
      <4>2. b - 56320 \in 0 .. 1023
        BY <1>2
      <4> DEFINE n == v - 65536
                 q == a - 55296
                 r == b - 56320
      <4> HIDE DEF n, q, r
      <4>3. n \div 1024 = q /\ n % 1024 = r <=> n = q * 1024 + r
        BY <4>1, <4>2, SplitNumber DEF n, q, r
      <4> QED BY <4>3 DEF n, q, r
    <3> QED BY <1>1, <1>2, <3>2, <3>3
  <2> QED BY <2>1, <2>2
<1> QED BY <1>3 DEF Wanted, x

\* The code point at the iterator: the next one begins behind it, it is sought
\* if its value is, and the iterator moves to the next one or not at all.
LEMMA AtIterator ==
  ASSUME LoopInv, Searching, WellFormed(view), AtCodePoint, it <= Size, AtScanHead(view, it + 1)
  PROVE  /\ it < Size
         /\ CodePoints(view, Passed, Passed + 1) \in Wanted <=> refresh_cp.value \in call.predicate
         /\ \E step \in {1, 2} :
              /\ it + step <= Size /\ AtScanHead(view, it + step + 1)
              /\ Cardinality(StartsUpTo(view, it + step)) = Passed + 1
              /\ refresh_cp.length \in {0, step}
<1> DEFINE step == IF PairAt(view, it + 1) THEN 2 ELSE 1
           c    == Text[Start + it + 1]
<1>1. /\ Text \in Seq(char16_t) /\ Len(Text) \in Nat /\ Start \in Nat /\ Size \in Nat
      /\ Start + Size <= Len(Text) /\ call.predicate \subseteq Nat
      /\ view \in Seq(char16_t) /\ Len(view) = Size
      /\ \A i \in 1 .. Size : view[i] = Text[Start + i]
  BY CallType, ViewType
<1>2. /\ SearchInv /\ window.buffer = Text /\ window.begin = Start
      /\ it \in Nat /\ it < Size
  BY <1>1 DEF LoopInv, SearchInv, AtCodePoint, Text, Start, Size
<1>3. /\ it + 1 \in 1 .. Size /\ Start + (it + 1) = Start + it + 1 /\ view[it + 1] = c
      /\ c \in char16_t
  <2>1. it + 1 \in 1 .. Size /\ Start + (it + 1) = Start + it + 1 /\ Start + it + 1 \in 1 .. Len(Text)
    BY <1>1, <1>2
  <2> QED BY <1>1, <2>1
<1>4. is_lead_surrogate(c) <=> PairAt(view, it + 1)
  BY <1>1, <1>3 DEF WellFormed, PairAt
<1>5. refresh_cp = utf16_to_utf32(Text, Start + it)
  BY <1>2 DEF refresh_cp
<1>6. it \in 0 .. Len(view) /\ Passed = Cost(view, it) /\ Passed \in Nat
  <2>1. it \in 0 .. Len(view) /\ it \in Nat
    BY <1>1, <1>2
  <2>2. Cardinality(StartsUpTo(view, it)) = Cost(view, it)
    BY <1>1, <1>2, <2>1, StartsOfUnits
  <2>3. Cardinality(StartsUpTo(view, it)) \in Nat
    BY <1>1, <2>1, StartsFinite
  <2> QED BY <2>1, <2>2, <2>3 DEF Passed
<1>7. /\ it + step <= Size /\ AtScanHead(view, it + step + 1)
      /\ Cost(view, it + step) = Cost(view, it) + 1
  <2>1. CASE PairAt(view, it + 1)
    <3>1. step = 2 /\ it + 2 <= Size
      BY <1>1, <1>2, <2>1 DEF PairAt
    <3>2. AtScanHead(view, it + 2 + 1) /\ Cost(view, it + 2) = Cost(view, it) + 1
      BY <1>1, <1>2, <2>1, StepCosts
    <3> QED BY <3>1, <3>2
  <2>2. CASE ~ PairAt(view, it + 1)
    <3>1. step = 1 /\ it + 1 <= Size
      BY <1>2, <1>1, <2>2
    <3>2. AtScanHead(view, it + 1 + 1) /\ Cost(view, it + 1) = Cost(view, it) + 1
      BY <1>1, <1>2, <1>3, <1>4, <2>2, StepCosts
    <3> QED BY <3>1, <3>2
  <2> QED BY <2>1, <2>2
<1>8. Cardinality(StartsUpTo(view, it + step)) = Passed + 1
  <2>1. it + step \in 0 .. Len(view)
    BY <1>1, <1>2, <1>7
  <2> HIDE DEF step
  <2> QED BY <1>1, <1>6, <1>7, <2>1, StartsOfUnits
<1>9. CodePoints(view, Passed, Passed + 1) = SubSeq(view, it + 1, it + step)
  <2>1. it + step \in it .. Len(view) /\ Passed + 1 \in Nat
    BY <1>1, <1>2, <1>6, <1>7
  <2> HIDE DEF step
  <2>2. CodePoints(view, Cardinality(StartsUpTo(view, it)), Passed + 1) =
          SubSeq(view, it + 1, it + step)
    BY <1>1, <1>6, <1>7, <1>8, <2>1, CodePointsBetween
  <2> QED BY <2>2 DEF Passed
<1>10. CASE PairAt(view, it + 1)
  <2> DEFINE d == Text[Start + it + 2]
  <2>1. /\ it + 2 \in 1 .. Size /\ view[it + 2] = d /\ d \in char16_t
        /\ is_lead_surrogate(c) /\ is_trail_surrogate(d)
    <3>1. it + 2 \in 1 .. Size /\ (it + 1) + 1 = it + 2 /\ Start + (it + 2) = Start + it + 2
          /\ Start + it + 2 \in 1 .. Len(Text)
      BY <1>1, <1>2, <1>10 DEF PairAt
    <3>2. view[it + 2] = d /\ d \in char16_t
      BY <1>1, <3>1
    <3> QED BY <1>4, <1>10, <3>1, <3>2 DEF PairAt
  <2>2. SubSeq(view, it + 1, it + 2) = <<c, d>>
    <3>1. (it + 1) + 1 = it + 2 /\ it + 1 \in 1 .. (Len(view) - 1)
      BY <1>1, <1>2, <2>1
    <3>2. SubSeq(view, it + 1, (it + 1) + 1) = <<view[it + 1], view[(it + 1) + 1]>>
      BY <1>1, <3>1, TwoUnits
    <3> QED BY <1>3, <2>1, <3>1, <3>2
  <2>3. /\ refresh_cp.length = 2
        /\ refresh_cp.value = (c - LEAD_SURROGATE_MIN) * 1024 + (d - TRAIL_SURROGATE_MIN)
                                 + SUPPLEMENTARY_DELTA
    BY <1>5, <2>1 DEF utf16_to_utf32
  <2>4. step = 2
    BY <1>10
  <2> HIDE DEF c, d, step
  <2>5. CodePoints(view, Passed, Passed + 1) \in Wanted <=> refresh_cp.value \in call.predicate
    <3>1. CodePoints(view, Passed, Passed + 1) = <<c, d>>
      BY <1>9, <2>2, <2>4
    <3>2. c \in char16_t /\ d \in char16_t /\ is_lead_surrogate(c) /\ is_trail_surrogate(d)
      BY <1>3, <2>1
    <3>3. <<c, d>> \in Wanted <=>
            (c - LEAD_SURROGATE_MIN) * 1024 + (d - TRAIL_SURROGATE_MIN) + SUPPLEMENTARY_DELTA
              \in call.predicate
      BY <3>2, PairSought
    <3> QED BY <2>3, <3>1, <3>3
  <2> QED BY <1>2, <1>7, <1>8, <2>3, <2>4, <2>5
<1>11. CASE ~ PairAt(view, it + 1)
  <2>1. SubSeq(view, it + 1, it + 1) = <<c>>
    <3>1. SubSeq(view, it + 1, it + 1) = <<view[it + 1]>>
      BY <1>1, <1>3, OneUnit
    <3> QED BY <1>3, <3>1
  <2>2. refresh_cp.length \in {0, 1} /\ refresh_cp.value = c
    BY <1>4, <1>5, <1>11 DEF utf16_to_utf32
  <2>3. step = 1
    BY <1>11
  <2> HIDE DEF c, step
  <2>4. CodePoints(view, Passed, Passed + 1) \in Wanted <=> refresh_cp.value \in call.predicate
    BY <1>3, <1>9, <2>1, <2>2, <2>3, UnitSought
  <2> QED BY <1>2, <1>7, <1>8, <2>2, <2>3, <2>4
<1> QED BY <1>10, <1>11

\* The units skipped less the pairs among them.
LEMMA SkippedUnits ==
  ASSUME LoopInv, Searching, WellFormed(view), it <= Size, AtScanHead(view, it + 1)
  PROVE  it - count_surrogate_pair(SubSeq(window.buffer, window.begin + 1, window.begin + it)) = Passed
<1> DEFINE s == SubSeq(window.buffer, window.begin + 1, window.begin + it)
<1>1. /\ Text \in Seq(char16_t) /\ Len(Text) \in Nat /\ Start \in Nat /\ Size \in Nat
      /\ Start + Size <= Len(Text)
      /\ view \in Seq(char16_t) /\ Len(view) = Size
      /\ \A i \in 1 .. Size : view[i] = Text[Start + i]
  BY CallType, ViewType
<1>2. window.buffer = Text /\ window.begin = Start /\ it \in Nat
  BY DEF LoopInv, SearchInv, Text, Start
<1>3. s = SubSeq(Text, Start + 1, Start + it)
  BY <1>2
<1>4. /\ s \in Seq(char16_t) /\ Len(s) = it
      /\ \A i \in 1 .. it : s[i] = Text[Start + i]
  <2> HIDE DEF s
  <2>1. s \in Seq(char16_t) /\ Len(s) = it
    BY <1>1, <1>2, <1>3
  <2>2. \A i \in 1 .. it : s[i] = Text[Start + i]
    BY <1>1, <1>2, <1>3
  <2> QED BY <2>1, <2>2
<1> HIDE DEF s
<1>5. \A i \in 1 .. Len(s) : view[i] = s[i]
  BY <1>1, <1>2, <1>4
<1>6. it \notin CountedPairs(view)
  <2> SUFFICES ASSUME it \in CountedPairs(view) PROVE FALSE
    OBVIOUS
  <2>1. it \in Nat \ {0} /\ is_lead_surrogate(view[it]) /\ AtScanHead(view, it)
    BY <1>1 DEF CountedPairs, PairAt
  <2> QED BY <2>1, NoHeadAfterLead
<1>7. \A i \in 1 .. (it - 1) : i \in CountedPairs(view) <=> i \in CountedPairs(s)
  <2>1. Len(s) <= Len(view)
    BY <1>1, <1>4
  <2> QED BY <1>1, <1>4, <1>5, <2>1, CountedPrefix
<1>8. CountedUpTo(view, it) = CountedPairs(s)
  <2>1. ASSUME NEW i \in CountedUpTo(view, it) PROVE i \in CountedPairs(s)
    <3>1. i \in CountedPairs(view) /\ i <= it /\ i \in Nat \ {0} /\ i # it
      BY <1>6 DEF CountedUpTo, CountedPairs
    <3> QED BY <1>2, <1>7, <3>1
  <2>2. ASSUME NEW i \in CountedPairs(s) PROVE i \in CountedUpTo(view, it)
    <3>1. i \in 1 .. (it - 1)
      BY <1>4 DEF CountedPairs
    <3> QED BY <1>2, <1>7, <3>1 DEF CountedUpTo
  <2> QED BY <2>1, <2>2
<1>9. it \in 0 .. Len(view)
  BY <1>1, <1>2
<1>10. Passed = Cost(view, it)
  BY <1>1, <1>9, StartsOfUnits DEF Passed
<1>11. it - count_surrogate_pair(s) = Passed
  <2>1. count_surrogate_pair(s) = Cardinality(CountedUpTo(view, it))
    BY <1>8, CountsAre
  <2>2. Passed = it - Cardinality(CountedUpTo(view, it))
    BY <1>10 DEF Cost
  <2> QED BY <2>1, <2>2
<1> QED BY <1>11 DEF s

LEMMA FindInit == Init => FindInv
<1> SUFFICES ASSUME Init, Searching PROVE FindInv
  BY DEF FindInv
<1>1. LoopInv
  BY LoopInit
<1>2. it = 0 /\ pc = "search" /\ Size \in Nat
  BY <1>1, CallType DEF Init, Searching
<1>3. Passed = 0
  <2>1. StartsUpTo(view, it) = {}
    BY <1>2 DEF StartsUpTo, CodePointStarts
  <2> QED BY <2>1, FS_EmptySet DEF Passed
<1>4. AtScanHead(view, it + 1)
  BY <1>2, HeadAtStart
<1> QED BY <1>2, <1>3, <1>4 DEF FindInv

LEMMA FindStep == LoopInv /\ FindInv /\ [Next]_vars => FindInv'
<1> SUFFICES ASSUME LoopInv, FindInv, [Next]_vars, Searching', WellFormed(view)'
             PROVE  FindInv'
  BY DEF FindInv
<1>1. call' = call
  BY DEF Next, vars, Advance, Found, NotFound, SkipSpace, TrimStartReturn, TrimStartThrows,
         TrimEndReturn, Overrun
<1>2. /\ view' = view /\ Size' = Size /\ Wanted' = Wanted
      /\ Searching /\ WellFormed(view) /\ call'.method = "search"
  BY <1>1 DEF view, Size, Wanted, Searching
<1>3. /\ it <= Size /\ AtScanHead(view, it + 1) /\ it \in Nat /\ Size \in Nat
      /\ \A k \in 0 .. (Passed - 1) : CodePoints(view, k, k + 1) \notin Wanted
  BY <1>2, CallType DEF FindInv, LoopInv, SearchInv
<1>4. view \in Seq(char16_t) /\ Passed \in Nat
  BY <1>3, ViewType, StartsFinite DEF Passed
<1>5. pc \in {"search", "return", "undefined"}
  BY <1>2 DEF LoopInv, SearchInv
<1>6. CASE Advance
  <2>1. /\ AtCodePoint /\ refresh_cp.value \notin call.predicate
        /\ it' = it + refresh_cp.length /\ pc' = pc /\ pc = "search"
    BY <1>6 DEF Advance, AtCodePoint
  <2>2. CodePoints(view, Passed, Passed + 1) \notin Wanted
    BY <1>2, <1>3, <2>1, AtIterator
  <2>3. PICK step \in {1, 2} :
          /\ it + step <= Size /\ AtScanHead(view, it + step + 1)
          /\ Cardinality(StartsUpTo(view, it + step)) = Passed + 1
          /\ refresh_cp.length \in {0, step}
    BY <1>2, <1>3, <2>1, AtIterator
  <2>4. CASE refresh_cp.length = 0
    <3>1. it' = it
      BY <1>3, <2>1, <2>4
    <3>2. Passed' = Passed
      BY <1>2, <3>1 DEF Passed
    <3> QED BY <1>2, <1>3, <2>1, <3>1, <3>2 DEF FindInv
  <2>5. CASE refresh_cp.length = step
    <3>1. it' = it + step
      BY <2>1, <2>5
    <3>2. Passed' = Passed + 1
      BY <1>2, <2>3, <3>1 DEF Passed
    <3>3. \A k \in 0 .. (Passed' - 1) : CodePoints(view, k, k + 1) \notin Wanted
      <4>1. \A k \in 0 .. (Passed' - 1) : k \in 0 .. (Passed - 1) \/ k = Passed
        BY <1>4, <3>2
      <4> QED BY <1>3, <2>2, <4>1
    <3> QED BY <1>2, <2>1, <2>3, <3>1, <3>3 DEF FindInv
  <2> QED BY <2>3, <2>4, <2>5
<1>7. CASE Found
  <2>1. /\ AtCodePoint /\ refresh_cp.value \in call.predicate
        /\ it' = it /\ pc' = "return"
        /\ ret' = it - count_surrogate_pair(
                         SubSeq(window.buffer, window.begin + 1, window.begin + it))
    BY <1>7 DEF Found
  <2>2. CodePoints(view, Passed, Passed + 1) \in Wanted /\ it < Size
    BY <1>2, <1>3, <2>1, AtIterator
  <2>3. ret' = Passed
    BY <1>2, <1>3, <2>1, SkippedUnits
  <2>4. Passed' = Passed
    BY <1>2, <2>1 DEF Passed
  <2> QED BY <1>2, <1>3, <2>1, <2>2, <2>3, <2>4 DEF FindInv
<1>8. CASE NotFound
  <2>1. it' = it /\ it = Size /\ ret' = SIZE_MAX /\ Passed' = Passed
    <3>1. it' = it /\ it = Size /\ ret' = SIZE_MAX
      BY <1>2, <1>8 DEF NotFound, LoopInv, SearchInv, Size
    <3> QED BY <1>2, <3>1 DEF Passed
  <2> QED BY <1>2, <1>3, <2>1 DEF FindInv
<1>9. CASE Overrun \/ UNCHANGED vars
  <2>1. it' = it /\ (pc' = "return" => pc = "return" /\ ret' = ret)
    BY <1>9 DEF Overrun, vars
  <2>2. Passed' = Passed
    BY <1>2, <2>1 DEF Passed
  <2> QED BY <1>2, <1>3, <2>1, <2>2 DEF FindInv
<1>10. ~ (SkipSpace \/ TrimStartReturn \/ TrimStartThrows \/ TrimEndReturn)
  BY <1>5 DEF SkipSpace, TrimStartReturn, TrimStartThrows, TrimEndReturn
<1> QED BY <1>6, <1>7, <1>8, <1>9, <1>10 DEF Next

\* search returns the number of code points before the first one that is
\* sought, or SIZE_MAX if there is none, on every view of well-formed UTF-16.
THEOREM SearchCorrect == Spec => []SearchFinds
<1>1. Spec => []FindInv
  BY FindInit, FindStep, LoopCorrect, PTL DEF Spec
<1>2. LoopInv /\ FindInv => SearchFinds
  <2> DEFINE found == {n \in 0 .. (CodePointCount(view) - 1) : CodePoints(view, n, n + 1) \in Wanted}
  <2> SUFFICES ASSUME LoopInv, FindInv, Searching, pc = "return", WellFormed(view)
               PROVE  ret = IF found = {} THEN SIZE_MAX ELSE Min(found)
    BY DEF SearchFinds, Wanted
  <2>1. /\ it <= Size /\ AtScanHead(view, it + 1) /\ it \in Nat /\ Size \in Nat
        /\ view \in Seq(char16_t) /\ Len(view) = Size
        /\ \A k \in 0 .. (Passed - 1) : CodePoints(view, k, k + 1) \notin Wanted
    BY CallType, ViewType DEF FindInv, LoopInv, SearchInv
  <2>2. Passed \in Nat /\ CodePointCount(view) \in Nat
    <3>1. Cardinality(StartsUpTo(view, it)) \in Nat
      BY <2>1, StartsFinite
    <3>2. Cardinality(CodePointStarts(view)) \in Nat
      BY <2>1, StartsFinite
    <3> QED BY <3>1, <3>2, CountsAre DEF Passed
  <2>3. CodePointCount(view) = Cardinality(StartsUpTo(view, Size))
    <3>1. StartsUpTo(view, Size) = CodePointStarts(view)
      <4>1. ASSUME NEW j \in CodePointStarts(view) PROVE j <= Size
        <5>1. j \in 1 .. Len(view)
          BY DEF CodePointStarts
        <5> QED BY <2>1, <5>1
      <4> QED BY <4>1 DEF StartsUpTo
    <3> QED BY <3>1, CountsAre
  <2>4. CASE ret = Passed /\ it < Size /\ CodePoints(view, Passed, Passed + 1) \in Wanted
    <3>1. Passed + 1 <= CodePointCount(view)
      BY <2>1, <2>3, <2>4, StartsAfterHead DEF Passed
    <3>2. Passed \in found /\ found \in SUBSET Int
      BY <2>2, <2>4, <3>1
    <3>3. ASSUME NEW k \in found PROVE Passed <= k
      BY <2>1, <2>2
    <3>4. found # {}
      BY <3>2
    <3> HIDE DEF found
    <3>5. Min(found) = Passed
      BY <3>2, <3>3, MinIs
    <3> QED BY <2>4, <3>4, <3>5
  <2>5. CASE ret = SIZE_MAX /\ it = Size
    <3>1. CodePointCount(view) = Passed
      BY <2>3, <2>5 DEF Passed
    <3>2. found = {}
      BY <2>1, <3>1
    <3> QED BY <2>5, <3>2
  <2> QED BY <2>4, <2>5 DEF FindInv
<1> QED BY <1>1, <1>2, LoopCorrect, PTL
=============================================================================
