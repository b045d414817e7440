-------------------------- MODULE StringViewProofs --------------------------
(***************************************************************************)
(* What the methods of string_view return, for every view, every argument  *)
(* and every size of size_t.                                               *)
(***************************************************************************)
EXTENDS StringView, CodeUnitsLemmas

-----------------------------------------------------------------------------
(* The methods.                                                            *)

\* substring does not throw on well-formed UTF-16: the walk stops in the view.
LEMMA SubstringReturns ==
  ASSUME NEW s \in Seq(char16_t), WellFormed(s), NEW offset \in Nat, NEW count
  PROVE  substring(s, offset, count) # {}
<1> DEFINE p == codepoint_count_to_iterator(s, offset)
           n == convert_codepoint_into_index(s, offset, count)[2]
<1>1. substring(s, offset, count) = substr(s, p, n)
  BY DEF substring, convert_codepoint_into_index
<1>2. p \in 0 .. Len(s)
  BY WalkStops
<1> HIDE DEF p, n
<1>3. SubSeq(s, p + 1, p + Least(n, Len(s) - p)) \in substr(s, p, n)
  BY <1>2 DEF substr
<1> QED BY <1>1, <1>3

\* A walk of one code point or more leaves the place where it began.
LEMMA WalkMoves ==
  ASSUME NEW s \in Seq(char16_t), s # <<>>, NEW n \in Nat \ {0}
  PROVE  codepoint_count_to_iterator(s, n) # 0
<1> DEFINE exact == {q \in 0 .. Len(s) : Cost(s, q) = n /\ AtScanHead(s, q + 1)}
<1>1. codepoint_count_to_iterator(s, n) =
        IF exact # {} THEN CHOOSE q \in exact : TRUE
        ELSE IF AtScanHead(s, Len(s) + 1) THEN Len(s) ELSE PastEnd(s)
  BY DEF codepoint_count_to_iterator, Cost, CountedUpTo
<1>2. 0 \notin exact
  <2>1. Cost(s, 0) \in Int /\ Cost(s, 0) <= 0
    BY CostType
  <2> QED BY <2>1
<1>3. exact # {} => (CHOOSE q \in exact : TRUE) \in exact
  OBVIOUS
<1>4. Len(s) \in Nat /\ Len(s) # 0
  OBVIOUS
<1> HIDE DEF exact
<1> QED BY <1>1, <1>2, <1>3, <1>4 DEF PastEnd

\* What substring returns is part of the view, whatever that holds, and from a
\* code point other than the first something is left off.
LEMMA SubstringPart ==
  ASSUME NEW s \in Seq(char16_t), NEW offset \in Nat, NEW count \in Int,
         NEW ret \in substring(s, offset, count)
  PROVE  /\ ret \in Seq(char16_t)
         /\ s # <<>> /\ offset # 0 => Len(ret) < Len(s)
<1> DEFINE p == codepoint_count_to_iterator(s, offset)
           q == codepoint_count_to_iterator(s, Wrap(offset + Least(count, Wrap(Len(s) - offset))))
           n == Wrap(q - p)
           l == Least(n, Len(s) - p)
<1>1. substring(s, offset, count) = substr(s, p, n)
  BY DEF substring, convert_codepoint_into_index
<1>2. p \in Int /\ q \in Int /\ Len(s) \in Nat
  BY WalkType
<1>3. s # <<>> /\ offset # 0 => p # 0
  BY WalkMoves
<1> HIDE DEF p, q
<1>4. n \in Nat
  <2> DEFINE x == q - p
  <2>1. x \in Int
    BY <1>2
  <2> HIDE DEF x
  <2>2. Wrap(x) \in Nat
    BY <2>1, WrapType
  <2> QED BY <2>2 DEF x
<1> HIDE DEF n
<1>5. p \in 0 .. Len(s) /\ ret = SubSeq(s, p + 1, p + l)
  BY <1>1, <1>2 DEF substr
<1>6. l \in 0 .. (Len(s) - p)
  BY <1>2, <1>4, <1>5 DEF Least
<1> HIDE DEF l
<1>7. p + 1 \in 1 .. (Len(s) + 1) /\ p + l \in p .. Len(s)
  BY <1>2, <1>5, <1>6
<1>8. ret \in Seq(char16_t) /\ Len(ret) = l
  BY <1>2, <1>5, <1>6, <1>7
<1> QED BY <1>2, <1>3, <1>5, <1>6, <1>8

\* A number of code points is no more than the number of units before it.
LEMMA PositionType ==
  ASSUME NEW s \in Seq(char16_t), NEW i \in 0 .. Len(s)
  PROVE  position_index_to_codepoint(s, i) \in 0 .. i
<1> DEFINE u == SubSeq(s, 1, i)
           c == count_surrogate_pair(u)
<1>1. u \in Seq(char16_t) /\ Len(u) = i
  OBVIOUS
<1>2. c \in Nat /\ c <= i
  BY <1>1, CountType
<1>3. position_index_to_codepoint(s, i) = i - c
  BY DEF position_index_to_codepoint
<1> HIDE DEF c
<1> QED BY <1>2, <1>3

\* index_of finds nothing, or something in a view that is not empty.
LEMMA IndexOfType ==
  ASSUME NEW s \in Seq(char16_t), NEW pattern \in Seq(char16_t), NEW cs
  PROVE  \/ index_of(s, pattern, cs) = SIZE_MAX
         \/ s # <<>> /\ index_of(s, pattern, cs) \in 0 .. (Len(s) - 1)
<1> DEFINE found == Occurrences(s, pattern, cs)
<1>1. found \subseteq 0 .. Len(s)
  BY DEF Occurrences
<1> HIDE DEF found
<1>2. SUFFICES ASSUME found \notin {{}, {Len(s)}}
               PROVE  s # <<>> /\ index_of(s, pattern, cs) \in 0 .. (Len(s) - 1)
  BY DEF index_of, found
<1>3. PICK m \in found : \A x \in found : m <= x
  BY <1>1, <1>2, LeastExists
<1>4. Min(found) = m
  BY <1>1, <1>3, MinIs
<1>5. Len(s) \in Nat /\ m \in 0 .. Len(s)
  BY <1>1, <1>3
<1>6. m < Len(s)
  <2>1. PICK x \in found : x # Len(s)
    BY <1>2
  <2>2. m <= x /\ x \in 0 .. Len(s)
    BY <1>1, <1>3, <2>1
  <2> QED BY <1>5, <2>1, <2>2
<1>7. index_of(s, pattern, cs) = position_index_to_codepoint(s, m)
  BY <1>2, <1>4 DEF index_of, found
<1>8. index_of(s, pattern, cs) \in 0 .. m
  BY <1>5, <1>7, PositionType
<1> QED BY <1>5, <1>6, <1>8

\* What split returns: parts of the view, and rhs, if there is one, shorter
\* than the view.
LEMMA SplitPart ==
  ASSUME NEW s \in Seq(char16_t), NEW splitter \in Seq(char16_t),
         NEW ret \in split(s, splitter)
  PROVE  /\ ret.found \in BOOLEAN /\ ret.lhs \in Seq(char16_t)
         /\ ret.found => ret.rhs \in Seq(char16_t) /\ Len(ret.rhs) < Len(s)
<1> DEFINE i == index_of(s, splitter, "sensitive")
<1>1. SIZE_MAX \in Nat
  BY SizeMaxAssumption
<1>2. i = SIZE_MAX \/ (s # <<>> /\ i \in Nat)
  BY IndexOfType
<1>3. split(s, splitter) =
        IF i = SIZE_MAX
        THEN [found : {FALSE}, lhs : substring(s, 0, SIZE_MAX)]
        ELSE [found : {TRUE}, lhs : substring(s, 0, i),
              rhs : substring(s, i + 1, SIZE_MAX)]
  BY DEF split
<1> HIDE DEF i
<1>4. CASE i = SIZE_MAX
  <2>1. ret \in [found : {FALSE}, lhs : substring(s, 0, SIZE_MAX)]
    BY <1>3, <1>4
  <2>2. ret.found = FALSE
    BY <2>1
  <2>3. ret.lhs \in substring(s, 0, SIZE_MAX)
    BY <2>1
  <2>4. ret.lhs \in Seq(char16_t)
    BY <1>1, <2>3, SubstringPart
  <2> QED BY <2>2, <2>4
<1>5. CASE i # SIZE_MAX
  <2>0. ret \in [found : {TRUE}, lhs : substring(s, 0, i),
                 rhs : substring(s, i + 1, SIZE_MAX)]
    BY <1>3, <1>5
  <2>1. /\ ret.found = TRUE /\ ret.lhs \in substring(s, 0, i)
        /\ ret.rhs \in substring(s, i + 1, SIZE_MAX)
    BY <2>0
  <2>2. i \in Int /\ i + 1 \in Nat /\ i + 1 # 0 /\ s # <<>>
    BY <1>2, <1>5
  <2>3. ret.lhs \in Seq(char16_t)
    BY <1>1, <2>1, <2>2, SubstringPart
  <2> HIDE DEF i
  <2>4. ret.rhs \in Seq(char16_t) /\ Len(ret.rhs) < Len(s)
    BY <1>1, <2>1, <2>2, SubstringPart
  <2> QED BY <2>1, <2>3, <2>4
<1> QED BY <1>4, <1>5

-----------------------------------------------------------------------------
(* The calls.                                                              *)

\* What is known of a call: its arguments, and that its result is one that
\* the method returns for them.
CallInv ==
  /\ view \in Views
  /\ call.method = "splitting" =>
       call \in [method : {"splitting"}, pattern : Patterns, cull_empty : BOOLEAN,
                 str : Seq(Seq(char16_t)), rhs : Seq(char16_t), split_times : size_t]
  /\ call.method = "substring" =>
       call.offset \in Counts /\ call.count \in Counts /\ call.ret \in substring(view, call.offset, call.count)
  /\ call.method = "left" => call.count \in Counts /\ call.ret \in left(view, call.count)
  /\ call.method = "right" => call.count \in Counts /\ call.ret = right(view, call.count)
  /\ call.method = "remove_prefix" =>
       call.count \in Counts /\ call.ret \in remove_prefix(view, call.count)
  /\ call.method = "remove_suffix" =>
       call.count \in Counts /\ call.ret = remove_suffix(view, call.count)
  /\ call.method = "index_of" =>
       /\ call.pattern \in Patterns /\ call.cs \in case_sensitivity
       /\ call.ret = index_of(view, call.pattern, call.cs)
  /\ call.method = "last_index_of" =>
       /\ call.pattern \in Patterns /\ call.cs \in case_sensitivity
       /\ call.ret = last_index_of(view, call.pattern, call.cs)
  /\ call.method = "start_with" =>
       call.pattern \in Patterns /\ call.ret \in start_with(view, call.pattern)
  /\ call.method = "end_with" =>
       call.pattern \in Patterns /\ call.ret \in end_with(view, call.pattern)
  /\ call.method = "compare" =>
       call.pattern \in Patterns /\ call.ret = compare(view, call.pattern)

LEMMA CallInvHolds == Spec => []CallInv
<1>1. Init => CallInv
  BY DEF Init, CallInv
<1>2. CallInv /\ [Next]_vars => CallInv'
  <2> SUFFICES ASSUME CallInv, [Next]_vars PROVE CallInv'
    OBVIOUS
  <2>1. ASSUME view' = view, Substring PROVE CallInv'
    BY <2>1 DEF CallInv, Substring
  <2>2. ASSUME view' = view, Left PROVE CallInv'
    BY <2>2 DEF CallInv, Left
  <2>3. ASSUME view' = view, Right PROVE CallInv'
    BY <2>3 DEF CallInv, Right
  <2>4. ASSUME view' = view, RemovePrefix PROVE CallInv'
    BY <2>4 DEF CallInv, RemovePrefix
  <2>5. ASSUME view' = view, RemoveSuffix PROVE CallInv'
    BY <2>5 DEF CallInv, RemoveSuffix
  <2>6. ASSUME view' = view, IndexOf PROVE CallInv'
    BY <2>6 DEF CallInv, IndexOf
  <2>7. ASSUME view' = view, LastIndexOf PROVE CallInv'
    BY <2>7 DEF CallInv, LastIndexOf
  <2>8. ASSUME view' = view, Split PROVE CallInv'
    BY <2>8 DEF CallInv, Split
  <2>9. ASSUME view' = view, SplitAll PROVE CallInv'
    <3>1. view \in Seq(char16_t) /\ 0 \in size_t
      BY ViewsAssumption, SizeMaxAssumption DEF CallInv, size_t
    <3>2. <<>> \in Seq(Seq(char16_t))
      OBVIOUS
    <3> QED BY <2>9, <3>1, <3>2 DEF CallInv, SplitAll
  <2>10. ASSUME view' = view, StartWith PROVE CallInv'
    BY <2>10 DEF CallInv, StartWith
  <2>11. ASSUME view' = view, EndWith PROVE CallInv'
    BY <2>11 DEF CallInv, EndWith
  <2>12. ASSUME view' = view, Compare PROVE CallInv'
    BY <2>12 DEF CallInv, Compare
  <2>13. ASSUME view' = view, SplitTurn PROVE CallInv'
    <3> DEFINE calls == [method : {"splitting"}, pattern : Patterns, cull_empty : BOOLEAN,
                         str : Seq(Seq(char16_t)), rhs : Seq(char16_t), split_times : size_t]
    <3>1. PICK ret \in split(call.rhs, call.pattern) :
            /\ ret.found
            /\ call' = [call EXCEPT !.str = push_back(@, ret.lhs, call.cull_empty),
                                    !.rhs = ret.rhs, !.split_times = Wrap(@ + 1)]
      BY <2>13 DEF SplitTurn
    <3>2. call \in calls
      BY <2>13 DEF CallInv, SplitTurn
    <3>3. call.rhs \in Seq(char16_t) /\ call.pattern \in Seq(char16_t)
      BY <3>2, ViewsAssumption
    <3>4. ret.lhs \in Seq(char16_t) /\ ret.rhs \in Seq(char16_t)
      BY <3>1, <3>3, SplitPart
    <3>5. push_back(call.str, ret.lhs, call.cull_empty) \in Seq(Seq(char16_t))
      BY <3>2, <3>4 DEF push_back
    <3>6. Wrap(call.split_times + 1) \in size_t
      <4>1. call.split_times \in size_t
        BY <3>2
      <4>2. call.split_times + 1 \in Int
        BY <4>1, SizeMaxAssumption DEF size_t
      <4> QED BY <4>2, WrapType
    <3>7. call' \in calls
      <4> DEFINE str == push_back(call.str, ret.lhs, call.cull_empty)
                 times == Wrap(call.split_times + 1)
      <4>1. call' = [call EXCEPT !.str = str, !.rhs = ret.rhs, !.split_times = times]
        BY <3>1
      <4>2. str \in Seq(Seq(char16_t)) /\ times \in size_t
        BY <3>5, <3>6
      <4> HIDE DEF str, times
      <4> QED BY <3>2, <3>4, <4>1, <4>2
    <3>8. call'.method = "splitting"
      BY <3>7
    <3> QED BY <2>13, <3>7, <3>8 DEF CallInv
  <2>14. ASSUME view' = view, SplitReturn PROVE CallInv'
    <3>1. call'.method = "split_all"
      BY <2>14 DEF CallInv, SplitReturn
    <3> QED BY <2>14, <3>1 DEF CallInv
  <2>15. CASE UNCHANGED vars
    BY <2>15 DEF CallInv, vars
  <2> QED BY <2>1, <2>2, <2>3, <2>4, <2>5, <2>6, <2>7, <2>8, <2>9, <2>10, <2>11, <2>12,
             <2>13, <2>14, <2>15 DEF Next
<1> QED BY <1>1, <1>2, PTL DEF Spec

\* The vector form of split comes to an end, whatever the view and the
\* splitter hold (osv.cpp:98): every turn takes something off rhs.
THEOREM EveryTurnShrinks == Spec => SplitShrinks
<1>1. CallInv /\ [Next]_vars =>
        [call.method = "splitting" =>
           call'.method = "split_all" \/ Len(call'.rhs) < Len(call.rhs)]_vars
  <2> SUFFICES ASSUME CallInv, Next, call.method = "splitting"
               PROVE  call'.method = "split_all" \/ Len(call'.rhs) < Len(call.rhs)
    OBVIOUS
  <2>1. call \in [method : {"splitting"}, pattern : Patterns, cull_empty : BOOLEAN,
                  str : Seq(Seq(char16_t)), rhs : Seq(char16_t), split_times : size_t]
    BY DEF CallInv
  <2>2. SplitTurn \/ SplitReturn
    BY DEF Next
  <2>3. CASE SplitTurn
    <3>1. PICK ret \in split(call.rhs, call.pattern) :
            /\ ret.found
            /\ call' = [call EXCEPT !.str = push_back(@, ret.lhs, call.cull_empty),
                                    !.rhs = ret.rhs, !.split_times = Wrap(@ + 1)]
      BY <2>3 DEF SplitTurn
    <3>2. call.rhs \in Seq(char16_t) /\ call.pattern \in Seq(char16_t)
      BY <2>1, ViewsAssumption
    <3>3. Len(ret.rhs) < Len(call.rhs)
      BY <3>1, <3>2, SplitPart
    <3>4. call'.rhs = ret.rhs
      BY <2>1, <3>1
    <3> QED BY <3>3, <3>4
  <2>4. CASE SplitReturn
    BY <2>1, <2>4 DEF SplitReturn
  <2> QED BY <2>2, <2>3, <2>4
<1> QED BY <1>1, CallInvHolds, PTL DEF Spec, SplitShrinks

\* split does not throw on well-formed UTF-16.
LEMMA SplitReturns ==
  ASSUME NEW s \in Seq(char16_t), WellFormed(s), NEW p \in Seq(char16_t)
  PROVE  split(s, p) # {}
<1> DEFINE i == index_of(s, p, "sensitive")
<1>1. i \in Nat
  BY SizeMaxAssumption, IndexOfType
<1>2. PICK a : a \in substring(s, 0, SIZE_MAX)
  BY SubstringReturns
<1>3. PICK b : b \in substring(s, 0, i)
  BY SubstringReturns
<1>4. PICK c : c \in substring(s, i + 1, SIZE_MAX)
  <2>1. i + 1 \in Nat
    BY <1>1
  <2> HIDE DEF i
  <2> QED BY <2>1, SubstringReturns
<1>5. split(s, p) =
        IF i = SIZE_MAX
        THEN [found : {FALSE}, lhs : substring(s, 0, SIZE_MAX)]
        ELSE [found : {TRUE}, lhs : substring(s, 0, i),
              rhs : substring(s, i + 1, SIZE_MAX)]
  BY DEF split
<1> HIDE DEF i
<1>6. [found |-> FALSE, lhs |-> a] \in [found : {FALSE}, lhs : substring(s, 0, SIZE_MAX)]
  BY <1>2
<1>7. [found |-> TRUE, lhs |-> b, rhs |-> c] \in
        [found : {TRUE}, lhs : substring(s, 0, i), rhs : substring(s, i + 1, SIZE_MAX)]
  BY <1>3, <1>4
<1> QED BY <1>5, <1>6, <1>7

\* What it leaves in rhs is well-formed.
LEMMA SplitLeaves ==
  ASSUME NEW s \in Seq(char16_t), WellFormed(s), Len(s) <= SIZE_MAX,
         NEW p \in Seq(char16_t), NEW ret \in split(s, p), ret.found
  PROVE  WellFormed(ret.rhs)
<1> DEFINE i == index_of(s, p, "sensitive")
<1>1. Len(s) \in Nat /\ SIZE_MAX \in Nat /\ SIZE_MAX \in size_t
  BY SizeMaxAssumption DEF size_t
<1>2. i = SIZE_MAX \/ i \in 0 .. (Len(s) - 1)
  BY IndexOfType
<1>3. split(s, p) =
        IF i = SIZE_MAX
        THEN [found : {FALSE}, lhs : substring(s, 0, SIZE_MAX)]
        ELSE [found : {TRUE}, lhs : substring(s, 0, i),
              rhs : substring(s, i + 1, SIZE_MAX)]
  BY DEF split
<1> HIDE DEF i
<1>4. i # SIZE_MAX
  <2> SUFFICES ASSUME i = SIZE_MAX PROVE FALSE
    OBVIOUS
  <2>1. ret \in [found : {FALSE}, lhs : substring(s, 0, SIZE_MAX)]
    BY <1>3
  <2> QED BY <2>1
<1>5. ret.rhs \in substring(s, i + 1, SIZE_MAX)
  <2>1. ret \in [found : {TRUE}, lhs : substring(s, 0, i), rhs : substring(s, i + 1, SIZE_MAX)]
    BY <1>3, <1>4
  <2> QED BY <2>1
<1>6. i + 1 \in size_t /\ i + 1 \in Nat /\ i + 1 <= i + 1 + SIZE_MAX /\ i + 1 + SIZE_MAX \in Nat
  BY <1>1, <1>2, <1>4 DEF size_t
<1>7. ret.rhs = CodePoints(s, i + 1, i + 1 + SIZE_MAX)
  BY <1>1, <1>5, <1>6, SubstringCuts
<1> QED BY <1>6, <1>7, CodePointsWellFormed

\* What the vector form has still to split is well-formed.
RestInv ==
  WellFormed(view) /\ call.method = "splitting" =>
    WellFormed(call.rhs) /\ Len(call.rhs) <= SIZE_MAX

LEMMA RestStaysWellFormed == Spec => []RestInv
<1>1. Init => RestInv
  BY DEF Init, RestInv
<1>2. CallInv /\ RestInv /\ [Next]_vars => RestInv'
  <2> SUFFICES ASSUME CallInv, RestInv, [Next]_vars, WellFormed(view'),
                      call'.method = "splitting"
               PROVE  WellFormed(call'.rhs) /\ Len(call'.rhs) <= SIZE_MAX
    BY DEF RestInv
  <2>1. view' = view
    BY DEF Next, vars
  <2>2. CASE UNCHANGED vars
    BY <2>2 DEF vars, RestInv
  <2>3. CASE SplitAll
    <3>1. call'.rhs = view
      BY <2>3 DEF SplitAll
    <3>2. Len(view) <= SIZE_MAX
      BY ViewsAssumption DEF CallInv
    <3> QED BY <2>1, <3>1, <3>2
  <2>4. CASE SplitTurn
    <3>1. PICK ret \in split(call.rhs, call.pattern) :
            /\ ret.found
            /\ call' = [call EXCEPT !.str = push_back(@, ret.lhs, call.cull_empty),
                                    !.rhs = ret.rhs, !.split_times = Wrap(@ + 1)]
      BY <2>4 DEF SplitTurn
    <3>2. call \in [method : {"splitting"}, pattern : Patterns, cull_empty : BOOLEAN,
                    str : Seq(Seq(char16_t)), rhs : Seq(char16_t), split_times : size_t]
      BY <2>4 DEF CallInv, SplitTurn
    <3>3. call.rhs \in Seq(char16_t) /\ call.pattern \in Seq(char16_t)
      BY <3>2, ViewsAssumption
    <3>4. WellFormed(call.rhs) /\ Len(call.rhs) <= SIZE_MAX
      BY <2>1, <2>4 DEF RestInv, SplitTurn
    <3>5. ret.rhs \in Seq(char16_t) /\ Len(ret.rhs) < Len(call.rhs)
      BY <3>1, <3>3, SplitPart
    <3>6. WellFormed(ret.rhs) /\ call'.rhs = ret.rhs
      BY <3>1, <3>2, <3>3, <3>4, SplitLeaves
    <3>7. Len(ret.rhs) \in Nat /\ Len(call.rhs) \in Nat /\ SIZE_MAX \in Nat
      BY <3>3, <3>5, SizeMaxAssumption
    <3> QED BY <3>4, <3>5, <3>6, <3>7
  <2>5. CASE /\ Next
             /\ \/ Substring \/ Left \/ Right \/ RemovePrefix \/ RemoveSuffix
                \/ IndexOf \/ LastIndexOf \/ Split \/ StartWith \/ EndWith \/ Compare
                \/ SplitReturn
    <3>1. call'.method # "splitting"
      <4>1. CASE SplitReturn
        <5>1. call \in [method : {"splitting"}, pattern : Patterns, cull_empty : BOOLEAN,
                        str : Seq(Seq(char16_t)), rhs : Seq(char16_t), split_times : size_t]
          BY <4>1 DEF CallInv, SplitReturn
        <5> QED BY <4>1, <5>1 DEF SplitReturn
      <4>2. CASE \/ Substring \/ Left \/ Right \/ RemovePrefix \/ RemoveSuffix
                 \/ IndexOf \/ LastIndexOf \/ Split \/ StartWith \/ EndWith \/ Compare
        BY <4>2 DEF Substring, Left, Right, RemovePrefix, RemoveSuffix, IndexOf, LastIndexOf,
                    Split, StartWith, EndWith, Compare
      <4> QED BY <2>5, <4>1, <4>2
    <3> QED BY <3>1
  <2> QED BY <2>2, <2>3, <2>4, <2>5 DEF Next
<1> QED BY <1>1, <1>2, CallInvHolds, PTL DEF Spec

\* substring, left, remove_prefix, split in both forms, start_with and end_with
\* do not throw on well-formed UTF-16, whatever their arguments (osv.cpp:24-111,
\* osv.h:193-202): the positions they pass to substr are found by a walk that
\* stays in the view.
THEOREM CutsNeverThrow == Spec => []NeverThrows
<1>1. CallInv /\ RestInv => NeverThrows
  <2> SUFFICES ASSUME CallInv, RestInv, WellFormed(view)
               PROVE  /\ \A o \in Counts, n \in Counts : substring(view, o, n) # {}
                      /\ \A n \in Counts : left(view, n) # {} /\ remove_prefix(view, n) # {}
                      /\ \A p \in Patterns :
                           /\ split(view, p) # {} /\ start_with(view, p) # {}
                           /\ end_with(view, p) # {}
                      /\ call.method = "splitting" => split(call.rhs, call.pattern) # {}
    BY DEF NeverThrows
  <2>1. view \in Seq(char16_t) /\ Patterns \subseteq Seq(char16_t) /\ Counts \subseteq Nat
    BY ViewsAssumption, SizeMaxAssumption DEF CallInv, size_t
  <2>2. \A o \in Nat : \A n : substring(view, o, n) # {}
    BY <2>1, SubstringReturns
  <2>3. ASSUME NEW n \in Counts PROVE left(view, n) # {} /\ remove_prefix(view, n) # {}
    <3>1. codepoint_count_to_iterator(view, n) \in 0 .. Len(view)
      BY <2>1, <2>3, WalkStops
    <3>2. left(view, n) # {}
      BY <2>2 DEF left
    <3> QED BY <3>1, <3>2 DEF remove_prefix
  <2>4. ASSUME NEW p \in Patterns
        PROVE  split(view, p) # {} /\ start_with(view, p) # {} /\ end_with(view, p) # {}
    <3>1. start_with(view, p) # {}
      <4>1. PICK sub : sub \in substring(view, 0, length(p))
        BY <2>2
      <4>2. (sub = p) \in start_with(view, p)
        BY <4>1 DEF start_with
      <4> QED BY <4>2
    <3>2. end_with(view, p) # {}
      <4>1. length(view) \in Int /\ length(p) \in Int
        BY <2>1, CountType DEF length
      <4>2. Wrap(length(view) - length(p)) \in Nat
        BY <4>1, WrapType
      <4>3. PICK sub : sub \in substring(view, Wrap(length(view) - length(p)), length(p))
        BY <2>2, <4>2
      <4>4. (sub = p) \in end_with(view, p)
        BY <4>3 DEF end_with
      <4> QED BY <4>4
    <3> QED BY <2>1, <3>1, <3>2, SplitReturns
  <2>5. ASSUME call.method = "splitting" PROVE split(call.rhs, call.pattern) # {}
    <3>1. call.rhs \in Seq(char16_t) /\ call.pattern \in Seq(char16_t)
      BY <2>1, <2>5 DEF CallInv
    <3> QED BY <2>5, <3>1, SplitReturns DEF RestInv
  <2> QED BY <2>1, <2>2, <2>3, <2>4, <2>5
<1> QED BY <1>1, CallInvHolds, RestStaysWellFormed, PTL

\* On well-formed UTF-16 the views cut out hold exactly the code points asked
\* for, whatever the positions and counts, and whichever end the method counts
\* from (osv.cpp: substring, left, right, remove_prefix, remove_suffix).
THEOREM CutsBetweenCodePoints == Spec => []CutExact
<1>1. CallInv => CutExact
  <2> SUFFICES ASSUME CallInv, WellFormed(view) PROVE CutExact
    BY DEF CutExact
  <2> DEFINE size == CodePointCount(view)
  <2>1. view \in Seq(char16_t) /\ Len(view) <= SIZE_MAX /\ Counts \subseteq Nat /\ Counts \subseteq size_t
    BY ViewsAssumption, SizeMaxAssumption DEF CallInv, size_t
  <2>2. size \in Nat /\ size <= Len(view) /\ Len(view) \in Nat
    BY <2>1, CodePointNumbers
  <2>3. AtScanHead(view, 1) /\ Cardinality(StartsUpTo(view, 0)) = 0
    BY <2>1, HeadAtStart, StartsFromZero
  <2>4. AtScanHead(view, Len(view) + 1) /\ Cardinality(StartsUpTo(view, Len(view))) = size
    BY <2>1, HeadAtEnd, StartsFromZero
  <2>5. ASSUME call.method = "substring"
        PROVE  call.ret = CodePoints(view, call.offset, call.offset + call.count)
    <3>1. /\ call.offset \in Counts /\ call.count \in Counts
          /\ call.ret \in substring(view, call.offset, call.count)
      BY <2>5 DEF CallInv
    <3>2. call.offset \in size_t /\ call.count \in size_t
      BY <2>1, <3>1
    <3>3. substring(view, call.offset, call.count) =
            {CodePoints(view, call.offset, call.offset + call.count)}
      BY <2>1, <3>2, SubstringCuts
    <3> QED BY <3>1, <3>3
  <2>6. ASSUME call.method = "left" PROVE call.ret = CodePoints(view, 0, call.count)
    <3>0. 0 \in size_t
      BY SizeMaxAssumption DEF size_t
    <3>1. call.count \in size_t /\ call.count \in Nat /\ 0 \in size_t
      <4>1. call.count \in Counts
        BY <2>6 DEF CallInv
      <4> QED BY <2>1, <3>0, <4>1
    <3>2. call.ret \in substring(view, 0, call.count)
      BY <2>6 DEF CallInv, left
    <3>3. substring(view, 0, call.count) = {CodePoints(view, 0, 0 + call.count)}
      BY <2>1, <3>1, SubstringCuts
    <3>4. 0 + call.count = call.count
      BY <3>1
    <3> QED BY <3>2, <3>3, <3>4
  <2>7. ASSUME NEW n \in Nat
        PROVE  /\ SubSeq(view, Len(view) - codepoint_count_to_iterator_backward(view, n) + 1, Len(view))
                    = CodePoints(view, size - n, size)
               /\ SubSeq(view, 1, Len(view) - codepoint_count_to_iterator_backward(view, n))
                    = CodePoints(view, 0, size - n)
    <3> DEFINE p == Len(view) - codepoint_count_to_iterator_backward(view, n)
               k == IF n <= size THEN size - n ELSE 0
    <3>1. /\ p \in 0 .. Len(view) /\ AtScanHead(view, p + 1)
          /\ Cardinality(StartsUpTo(view, p)) = k
      BY <2>1, WalkBackward
    <3> HIDE DEF p
    <3>2. k \in Nat /\ 0 \in 0 .. Len(view) /\ Len(view) \in p .. Len(view) /\ p \in 0 .. Len(view)
      BY <2>2, <3>1
    <3> HIDE DEF k, size
    <3>3. SubSeq(view, p + 1, Len(view)) = CodePoints(view, k, size)
      BY <2>1, <2>2, <2>4, <3>1, <3>2, CutBetween
    <3>4. SubSeq(view, 0 + 1, p) = CodePoints(view, 0, k)
      <4>1. AtScanHead(view, 0 + 1)
        BY <2>3
      <4> QED BY <2>1, <2>3, <3>1, <3>2, <4>1, CutBetween
    <3>5. CASE n <= size
      BY <3>3, <3>4, <3>5 DEF k, p
    <3>6. CASE ~ (n <= size)
      <4>1. k = 0 /\ size - n \in Int /\ size - n <= 0 /\ size \in Int /\ 0 \in Int
        BY <2>2, <3>6 DEF k
      <4>2. CodePoints(view, size - n, size) = CodePoints(view, 0, size)
        BY <2>1, <4>1, CodePointsFromNegative
      <4>3. CodePoints(view, 0, size - n) = <<>> /\ CodePoints(view, 0, 0) = <<>>
        BY <2>1, <4>1, CodePointsNone
      <4> QED BY <3>3, <3>4, <4>1, <4>2, <4>3 DEF p
    <3> QED BY <3>5, <3>6
  <2>8. call.method = "right" => call.ret = CodePoints(view, size - call.count, size)
    BY <2>1, <2>7 DEF CallInv, right
  <2>9. call.method = "remove_suffix" => call.ret = CodePoints(view, 0, size - call.count)
    BY <2>1, <2>7 DEF CallInv, remove_suffix
  <2>10. ASSUME call.method = "remove_prefix" PROVE call.ret = CodePoints(view, call.count, size)
    <3> DEFINE p == codepoint_count_to_iterator(view, call.count)
    <3>1. call.count \in Nat /\ call.ret \in remove_prefix(view, call.count)
      BY <2>1, <2>10 DEF CallInv
    <3>2. /\ p \in 0 .. Len(view) /\ AtScanHead(view, p + 1)
          /\ \/ Cardinality(StartsUpTo(view, p)) = call.count
             \/ p = Len(view) /\ call.count >= size
      BY <2>1, <3>1, WalkStops
    <3>3. call.ret = SubSeq(view, p + 1, Len(view))
      BY <3>1, <3>2 DEF remove_prefix
    <3> HIDE DEF p, size
    <3>4. Len(view) \in p .. Len(view)
      BY <2>2, <3>2
    <3> QED BY <2>1, <2>2, <2>4, <3>1, <3>2, <3>3, <3>4, CutBetween DEF size
  <2> QED BY <2>5, <2>6, <2>8, <2>9, <2>10 DEF CutExact
<1> QED BY <1>1, CallInvHolds, PTL

-----------------------------------------------------------------------------
(* Prefixes and suffixes.                                                  *)

\* The first code points of s are t exactly if t is a prefix of s.
LEMMA PrefixByCodePoints ==
  ASSUME NEW s \in Seq(char16_t), WellFormed(s), NEW t \in Seq(char16_t), WellFormed(t)
  PROVE  CodePoints(s, 0, CodePointCount(t)) = t
           <=> Len(t) <= Len(s) /\ SubSeq(s, 1, Len(t)) = t
<1> DEFINE n == CodePointCount(t)
<1>1. Len(s) \in Nat /\ Len(t) \in Nat /\ n \in Nat
  BY CodePointNumbers
<1>2. ASSUME CodePoints(s, 0, n) = t
      PROVE  Len(t) <= Len(s) /\ SubSeq(s, 1, Len(t)) = t
  <2>0. PICK p \in 0 .. Len(s) : \E q \in p .. Len(s) :
          /\ AtScanHead(s, p + 1) /\ AtScanHead(s, q + 1)
          /\ CodePoints(s, 0, n) = SubSeq(s, p + 1, q)
          /\ Cardinality(StartsUpTo(s, p)) = 0 \/ (p = Len(s) /\ 0 >= CodePointCount(s))
          /\ Cardinality(StartsUpTo(s, q)) = n \/ (q = Len(s) /\ n >= CodePointCount(s))
    <3>1. 0 \in Nat /\ n \in Nat /\ 0 <= n
      BY <1>1
    <3> HIDE DEF n
    <3> QED BY <3>1, CodePointsPart
  <2>1. PICK q \in p .. Len(s) :
          /\ AtScanHead(s, p + 1)
          /\ CodePoints(s, 0, n) = SubSeq(s, p + 1, q)
          /\ Cardinality(StartsUpTo(s, p)) = 0 \/ (p = Len(s) /\ 0 >= CodePointCount(s))
    BY <2>0
  <2>2. Cardinality(StartsUpTo(s, p)) = 0
    BY <2>1, StartsFromZero, CodePointNumbers
  <2>3. p = 0
    <3>1. 0 \in 0 .. Len(s) /\ AtScanHead(s, 0 + 1) /\ Cardinality(StartsUpTo(s, 0)) = 0
      BY <1>1, HeadAtStart, StartsFromZero
    <3>2. 0 < p <=> Cardinality(StartsUpTo(s, 0)) < Cardinality(StartsUpTo(s, p))
      BY <2>1, <3>1, StartsTell
    <3> QED BY <2>2, <3>1, <3>2
  <2>4. t = SubSeq(s, 1, q) /\ q \in 0 .. Len(s)
    BY <1>1, <1>2, <2>1, <2>3
  <2>5. Len(t) = q
    BY <1>1, <2>4
  <2> QED BY <1>1, <2>4, <2>5
<1>3. ASSUME Len(t) <= Len(s), SubSeq(s, 1, Len(t)) = t
      PROVE  CodePoints(s, 0, n) = t
  <2>1. \A k \in 1 .. Len(t) : s[0 + k] = t[k]
    <3>1. \A k \in 1 .. Len(t) : SubSeq(s, 1, Len(t))[k] = s[k]
      BY <1>1, <1>3
    <3> QED BY <1>1, <1>3, <3>1
  <2>2. 0 \in 0 .. (Len(s) - Len(t)) /\ AtScanHead(s, 0 + 1) /\ SameClasses(s, 0, t)
    BY <1>1, <1>3, <2>1, HeadAtStart, SameUnitsSameClasses
  <2>3. AtScanHead(s, 0 + Len(t) + 1)
    <3>1. AtScanHead(t, Len(t) + 1) /\ Len(t) + 1 \in Nat
      BY <1>1, HeadAtEnd
    <3>2. \A k \in 1 .. (Len(t) + 1 - 1) : t[k] = s[k]
      BY <1>1, <2>1
    <3>3. AtScanHead(s, Len(t) + 1)
      BY <3>1, <3>2, HeadSamePrefix
    <3> QED BY <1>1, <3>3
  <2>4. CodePoints(s, Cardinality(StartsUpTo(s, 0)),
                   Cardinality(StartsUpTo(s, 0)) + CodePointCount(t)) =
          SubSeq(s, 0 + 1, 0 + Len(t))
    BY <2>2, <2>3, CodePointsInfix
  <2> QED BY <1>1, <1>3, <2>4, StartsFromZero
<1> QED BY <1>2, <1>3

\* A suffix begins where a code point does, and has as many as are left there.
LEMMA SuffixStarts ==
  ASSUME NEW s \in Seq(char16_t), WellFormed(s), NEW t \in Seq(char16_t), WellFormed(t),
         Len(t) <= Len(s), SubSeq(s, Len(s) - Len(t) + 1, Len(s)) = t
  PROVE  LET i == Len(s) - Len(t)
         IN  /\ SameClasses(s, i, t) /\ AtScanHead(s, i + 1)
             /\ Cardinality(StartsUpTo(s, i)) + CodePointCount(t) = CodePointCount(s)
<1> DEFINE i == Len(s) - Len(t)
<1>1. Len(s) \in Nat /\ Len(t) \in Nat /\ i \in Nat /\ i + Len(t) = Len(s)
      /\ i \in 0 .. (Len(s) - Len(t)) /\ i <= Len(s)
  OBVIOUS
<1>2. SameClasses(s, i, t)
  <2>1. \A k \in 1 .. Len(t) : SubSeq(s, i + 1, Len(s))[k] = s[i + k]
    BY <1>1
  <2>2. \A k \in 1 .. Len(t) : s[i + k] = t[k]
    BY <2>1
  <2> HIDE DEF i
  <2> QED BY <2>2, SameUnitsSameClasses
<1> HIDE DEF i
<1>3. AtScanHead(s, i + 1)
  <2>1. CASE t = <<>>
    <3>1. i = Len(s)
      BY <1>1, <2>1
    <3> QED BY <3>1, HeadAtEnd
  <2>2. CASE t # <<>>
    BY <1>1, <1>2, <2>2, InfixHeads
  <2> QED BY <2>1, <2>2
<1>4. Cardinality(StartsUpTo(s, i + Len(t))) = Cardinality(StartsUpTo(s, i)) + CodePointCount(t)
  BY <1>1, <1>2, <1>3, InfixStarts
<1>5. Cardinality(StartsUpTo(s, i + Len(t))) = CodePointCount(s)
  BY <1>1, StartsFromZero
<1> QED BY <1>2, <1>3, <1>4, <1>5 DEF i

\* The last code points of s are t exactly if t is a suffix of s.
LEMMA SuffixByCodePoints ==
  ASSUME NEW s \in Seq(char16_t), WellFormed(s), NEW t \in Seq(char16_t), WellFormed(t),
         CodePointCount(t) <= CodePointCount(s)
  PROVE  CodePoints(s, CodePointCount(s) - CodePointCount(t), CodePointCount(s)) = t
           <=> Len(t) <= Len(s) /\ SubSeq(s, Len(s) - Len(t) + 1, Len(s)) = t
<1> DEFINE size == CodePointCount(s)
           m == CodePointCount(t)
<1>1. /\ Len(s) \in Nat /\ Len(t) \in Nat /\ m \in Nat /\ size \in Nat
      /\ size - m \in Nat /\ size - m <= size
  BY CodePointNumbers
<1>2. ASSUME CodePoints(s, size - m, size) = t
      PROVE  Len(t) <= Len(s) /\ SubSeq(s, Len(s) - Len(t) + 1, Len(s)) = t
  <2>0. PICK p \in 0 .. Len(s) : \E q \in p .. Len(s) :
          /\ AtScanHead(s, p + 1) /\ AtScanHead(s, q + 1)
          /\ CodePoints(s, size - m, size) = SubSeq(s, p + 1, q)
          /\ Cardinality(StartsUpTo(s, p)) = size - m \/ (p = Len(s) /\ size - m >= CodePointCount(s))
          /\ Cardinality(StartsUpTo(s, q)) = size \/ (q = Len(s) /\ size >= CodePointCount(s))
    BY <1>1, CodePointsPart
  <2>1. PICK q \in p .. Len(s) :
          /\ AtScanHead(s, q + 1)
          /\ CodePoints(s, size - m, size) = SubSeq(s, p + 1, q)
          /\ Cardinality(StartsUpTo(s, q)) = size \/ q = Len(s)
    BY <2>0
  <2>2. q = Len(s)
    <3>1. q \in 0 .. Len(s) /\ Len(s) \in 0 .. Len(s) /\ AtScanHead(s, Len(s) + 1)
      BY <1>1, HeadAtEnd
    <3>2. Cardinality(StartsUpTo(s, Len(s))) = size
      BY StartsFromZero
    <3> HIDE DEF size
    <3>3. q < Len(s) <=> Cardinality(StartsUpTo(s, q)) < Cardinality(StartsUpTo(s, Len(s)))
      BY <2>1, <3>1, StartsTell
    <3> QED BY <1>1, <2>1, <3>1, <3>2, <3>3
  <2>3. t = SubSeq(s, p + 1, Len(s))
    BY <1>2, <2>1, <2>2
  <2>4. Len(t) = Len(s) - p
    BY <1>1, <2>3
  <2>5. Len(t) <= Len(s) /\ Len(s) - Len(t) + 1 = p + 1
    BY <1>1, <2>4
  <2> QED BY <2>3, <2>5
<1>3. ASSUME Len(t) <= Len(s), SubSeq(s, Len(s) - Len(t) + 1, Len(s)) = t
      PROVE  CodePoints(s, size - m, size) = t
  <2> DEFINE i == Len(s) - Len(t)
  <2>1. /\ AtScanHead(s, i + 1)
        /\ Cardinality(StartsUpTo(s, i)) + CodePointCount(t) = CodePointCount(s)
    BY <1>3, SuffixStarts
  <2>2. i \in 0 .. Len(s) /\ i \in Nat /\ Len(s) \in i .. Len(s)
    BY <1>1, <1>3
  <2>3. AtScanHead(s, Len(s) + 1) /\ Cardinality(StartsUpTo(s, Len(s))) = size
    BY HeadAtEnd, StartsFromZero
  <2>4. Cardinality(StartsUpTo(s, i)) \in Nat
    BY <2>2, StartsFinite
  <2>5. Cardinality(StartsUpTo(s, i)) = size - m
    BY <1>1, <2>1, <2>4
  <2> HIDE DEF i, size, m
  <2>6. SubSeq(s, i + 1, Len(s)) = CodePoints(s, size - m, size)
    BY <1>1, <2>1, <2>2, <2>3, <2>5, CutBetween
  <2> QED BY <1>3, <2>6 DEF i
<1> QED BY <1>2, <1>3

-----------------------------------------------------------------------------
(* start_with and end_with.                                                *)

LEMMA StartWithIs ==
  ASSUME NEW s \in Seq(char16_t), WellFormed(s), Len(s) <= SIZE_MAX,
         NEW t \in Seq(char16_t), WellFormed(t), Len(t) <= SIZE_MAX
  PROVE  start_with(s, t) = {Len(t) <= Len(s) /\ SubSeq(s, 1, Len(t)) = t}
<1> DEFINE m == CodePointCount(t)
<1>1. length(t) = m
  BY LengthIs
<1>2. 0 \in size_t /\ m \in size_t /\ 0 + m = m
  BY SizeMaxAssumption, CodePointNumbers DEF size_t
<1> HIDE DEF m
<1>3. substring(s, 0, m) = {CodePoints(s, 0, m)}
  BY <1>2, SubstringCuts
<1>4. start_with(s, t) = {CodePoints(s, 0, m) = t}
  BY <1>1, <1>3 DEF start_with
<1>5. CodePoints(s, 0, m) = t <=> Len(t) <= Len(s) /\ SubSeq(s, 1, Len(t)) = t
  BY PrefixByCodePoints DEF m
<1> QED BY <1>4, <1>5

\* Also when t is the longer one and the subtraction wraps.
LEMMA EndWithIs ==
  ASSUME NEW s \in Seq(char16_t), WellFormed(s), Len(s) <= SIZE_MAX,
         NEW t \in Seq(char16_t), WellFormed(t), Len(t) <= SIZE_MAX
  PROVE  end_with(s, t) = {Len(t) <= Len(s) /\ SubSeq(s, Len(s) - Len(t) + 1, Len(s)) = t}
<1> DEFINE size == CodePointCount(s)
           m == CodePointCount(t)
           suffix == Len(t) <= Len(s) /\ SubSeq(s, Len(s) - Len(t) + 1, Len(s)) = t
<1>1. length(s) = size /\ length(t) = m
  BY LengthIs
<1>2. /\ SIZE_MAX \in Nat /\ size \in Nat /\ m \in Nat /\ m <= SIZE_MAX /\ size <= SIZE_MAX
      /\ m \in size_t
  <2>1. Len(s) \in Nat /\ Len(t) \in Nat
    OBVIOUS
  <2> QED BY <2>1, SizeMaxAssumption, CodePointNumbers DEF size_t
<1>3. CASE m <= size
  <2>1. CodePoints(s, size - m, size) = t <=> suffix
    BY <1>3, SuffixByCodePoints
  <2> HIDE DEF size, m, suffix
  <2>2. size - m \in size_t /\ size - m + m = size
    BY <1>2, <1>3 DEF size_t
  <2>3. Wrap(size - m) = size - m
    BY <2>2, WrapFits
  <2>4. substring(s, size - m, m) = {CodePoints(s, size - m, size - m + m)}
    BY <1>2, <2>2, SubstringCuts
  <2>5. end_with(s, t) = {CodePoints(s, size - m, size) = t}
    <3>1. substring(s, Wrap(length(s) - length(t)), length(t)) = {CodePoints(s, size - m, size)}
      BY <1>1, <2>2, <2>3, <2>4
    <3> QED BY <3>1 DEF end_with
  <2>6. end_with(s, t) = {suffix}
    BY <2>1, <2>5
  <2> QED BY <2>6 DEF suffix
<1>4. CASE m > size
  <2> DEFINE offset == Wrap(size - m)
  <2>1. ~ suffix
    <3> SUFFICES ASSUME suffix PROVE FALSE
      OBVIOUS
    <3> DEFINE i == Len(s) - Len(t)
    <3>1. Cardinality(StartsUpTo(s, i)) + m = size
      BY SuffixStarts
    <3>2. i \in Nat
      OBVIOUS
    <3>3. Cardinality(StartsUpTo(s, i)) \in Nat
      BY <3>2, StartsFinite
    <3> HIDE DEF i, m, size, suffix
    <3> QED BY <1>2, <1>4, <3>1, <3>3
  <2>2. t # <<>>
    <3>1. Len(t) # 0
      BY <1>2, <1>4, CodePointNumbers
    <3> QED BY <3>1
  <2>9. suffix = FALSE /\ (<<>> = t) = FALSE
    BY <2>1, <2>2
  <2> HIDE DEF suffix
  <2>3. offset = size - m + SIZE_MAX + 1
    <3>1. size - m \in (-SIZE_MAX) .. (-1)
      BY <1>2, <1>4
    <3> HIDE DEF size, m
    <3> QED BY <3>1, WrapBelow
  <2>4. offset \in size_t /\ offset >= size /\ offset \in Int /\ offset + m \in Int
    BY <1>2, <1>4, <2>3 DEF size_t
  <2>5. CodePoints(s, offset, offset + m) = <<>>
    <3> HIDE DEF offset, m
    <3> QED BY <2>4, CodePointsNone
  <2>6. substring(s, offset, m) = {CodePoints(s, offset, offset + m)}
    <3> HIDE DEF offset, m
    <3> QED BY <1>2, <2>4, SubstringCuts
  <2> HIDE DEF size, m
  <2>7. end_with(s, t) = {<<>> = t}
    <3>1. substring(s, Wrap(length(s) - length(t)), length(t)) = {<<>>}
      BY <1>1, <2>5, <2>6
    <3> QED BY <3>1 DEF end_with
  <2>8. end_with(s, t) = {suffix}
    BY <2>7, <2>9
  <2> QED BY <2>8 DEF suffix
<1> QED BY <1>2, <1>3, <1>4

\* On well-formed UTF-16 start_with and end_with tell prefixes and suffixes,
\* also when the argument is the longer one (osv.h:193, 198).
THEOREM AffixesTold == Spec => []AffixExact
<1>1. CallInv => AffixExact
  <2> SUFFICES ASSUME CallInv, WellFormed(view) PROVE AffixExact
    BY DEF AffixExact
  <2>1. view \in Seq(char16_t) /\ Len(view) <= SIZE_MAX
    BY ViewsAssumption DEF CallInv
  <2>2. \A t \in Patterns : t \in Seq(char16_t) /\ Len(t) <= SIZE_MAX
    BY ViewsAssumption
  <2>3. ASSUME call.method = "start_with", WellFormed(call.pattern)
        PROVE  call.ret <=> Len(call.pattern) <= Len(view)
                            /\ SubSeq(view, 1, Len(call.pattern)) = call.pattern
    <3>1. call.pattern \in Patterns /\ call.ret \in start_with(view, call.pattern)
      BY <2>3 DEF CallInv
    <3>2. start_with(view, call.pattern) =
            {Len(call.pattern) <= Len(view) /\ SubSeq(view, 1, Len(call.pattern)) = call.pattern}
      BY <2>1, <2>2, <2>3, <3>1, StartWithIs
    <3> QED BY <3>1, <3>2
  <2>4. ASSUME call.method = "end_with", WellFormed(call.pattern)
        PROVE  call.ret <=> Len(call.pattern) <= Len(view)
                            /\ SubSeq(view, Len(view) - Len(call.pattern) + 1, Len(view)) = call.pattern
    <3>1. call.pattern \in Patterns /\ call.ret \in end_with(view, call.pattern)
      BY <2>4 DEF CallInv
    <3>2. end_with(view, call.pattern) =
            {Len(call.pattern) <= Len(view)
             /\ SubSeq(view, Len(view) - Len(call.pattern) + 1, Len(view)) = call.pattern}
      BY <2>1, <2>2, <2>4, <3>1, EndWithIs
    <3> QED BY <3>1, <3>2
  <2> QED BY <2>3, <2>4 DEF AffixExact
<1> QED BY <1>1, CallInvHolds, PTL

-----------------------------------------------------------------------------
(* index_of and last_index_of.                                             *)

\* Where a code point begins, position_index_to_codepoint numbers it.
LEMMA PositionOfHead ==
  ASSUME NEW s \in Seq(char16_t), WellFormed(s), NEW i \in 0 .. Len(s), AtScanHead(s, i + 1)
  PROVE  position_index_to_codepoint(s, i) = Cardinality(StartsUpTo(s, i))
<1> DEFINE u == SubSeq(s, 1, i)
<1>1. /\ u \in Seq(char16_t) /\ Len(u) = i /\ i \in Nat /\ Len(u) <= Len(s)
      /\ \A k \in 1 .. Len(u) : s[k] = u[k]
  OBVIOUS
<1>2. i \notin CountedPairs(s)
  <2> SUFFICES ASSUME i \in CountedPairs(s) PROVE FALSE
    OBVIOUS
  <2>1. i \in Nat \ {0} /\ is_lead_surrogate(s[i]) /\ AtScanHead(s, i)
    BY DEF CountedPairs, PairAt
  <2> QED BY <2>1, NoHeadAfterLead
<1> HIDE DEF u
<1>3. \A k \in 1 .. (Len(u) - 1) : k \in CountedPairs(s) <=> k \in CountedPairs(u)
  BY <1>1, CountedPrefix
<1>4. CountedUpTo(s, i) = CountedPairs(u)
  <2>1. ASSUME NEW k \in CountedUpTo(s, i) PROVE k \in CountedPairs(u)
    <3>1. k \in CountedPairs(s) /\ k \in 1 .. (Len(u) - 1)
      BY <1>1, <1>2 DEF CountedUpTo, CountedPairs
    <3> QED BY <1>3, <3>1
  <2>2. ASSUME NEW k \in CountedPairs(u) PROVE k \in CountedUpTo(s, i)
    <3>1. k \in 1 .. (Len(u) - 1) /\ k <= i
      BY <1>1 DEF CountedPairs
    <3> QED BY <1>3, <3>1 DEF CountedUpTo
  <2> QED BY <2>1, <2>2
<1>5. Cardinality(StartsUpTo(s, i)) = Cost(s, i)
  BY StartsOfUnits
<1> QED BY <1>4, <1>5 DEF Cost, position_index_to_codepoint, count_surrogate_pair, u

\* The positions at which the pattern occurs, with what Matches defines locally.
LEMMA MatchesAre ==
  ASSUME NEW s, NEW t, NEW cs, NEW c
  PROVE  c \in Matches(s, t, cs) <=>
           LET n    == CodePointCount(t)
               part == CodePoints(s, c, c + n)
           IN  /\ c \in 0 .. (CodePointCount(s) - n)
               /\ Len(part) = Len(t)
               /\ \A k \in 1 .. Len(part) : case_predicate(part[k], t[k], cs)
BY DEF Matches

\* Two units that case_predicate takes for the same are of the same class.
LEMMA CaseKeepsClass ==
  ASSUME NEW c \in char16_t, NEW d \in char16_t, NEW cs, case_predicate(c, d, cs)
  PROVE  /\ is_lead_surrogate(c)  <=> is_lead_surrogate(d)
         /\ is_trail_surrogate(c) <=> is_trail_surrogate(d)
<1>1. \A u \in char16_t :
        /\ is_lead_surrogate(char_lowercase(u)) <=> is_lead_surrogate(u)
        /\ is_trail_surrogate(char_lowercase(u)) <=> is_trail_surrogate(u)
  BY UnitNumbers DEF char_lowercase, is_lead_surrogate, is_trail_surrogate,
         LEAD_SURROGATE_MIN, LEAD_SURROGATE_MAX, TRAIL_SURROGATE_MIN, TRAIL_SURROGATE_MAX
<1>2. c = d \/ char_lowercase(c) = char_lowercase(d)
  BY DEF case_predicate
<1> QED BY <1>1, <1>2

\* A match of the units is one of the code points.
LEMMA OccurrenceMatches ==
  ASSUME NEW s \in Seq(char16_t), WellFormed(s), NEW t \in Seq(char16_t), WellFormed(t),
         t # <<>>, NEW cs, NEW i \in Occurrences(s, t, cs)
  PROVE  /\ AtScanHead(s, i + 1) /\ i \in 0 .. Len(s) /\ i < Len(s)
         /\ Cardinality(StartsUpTo(s, i)) \in Matches(s, t, cs)
         /\ position_index_to_codepoint(s, i) = Cardinality(StartsUpTo(s, i))
<1> DEFINE c == Cardinality(StartsUpTo(s, i))
           n == CodePointCount(t)
           part == SubSeq(s, i + 1, i + Len(t))
<1>1. /\ Len(s) \in Nat /\ Len(t) \in Nat \ {0}
      /\ i \in 0 .. (Len(s) - Len(t))
      /\ \A k \in 1 .. Len(t) : case_predicate(s[i + k], t[k], cs)
  BY DEF Occurrences
<1>2. i \in 0 .. Len(s) /\ i \in Nat /\ i < Len(s) /\ i + Len(t) \in 0 .. Len(s)
  BY <1>1
<1>3. SameClasses(s, i, t)
  <2>1. ASSUME NEW k \in 1 .. Len(t)
        PROVE  /\ is_lead_surrogate(s[i + k])  <=> is_lead_surrogate(t[k])
               /\ is_trail_surrogate(s[i + k]) <=> is_trail_surrogate(t[k])
    <3>1. i + k \in 1 .. Len(s)
      BY <1>1
    <3>2. s[i + k] \in char16_t /\ t[k] \in char16_t
      BY <3>1
    <3> QED BY <1>1, <3>2, CaseKeepsClass
  <2> QED BY <2>1 DEF SameClasses
<1>4. AtScanHead(s, i + 1) /\ AtScanHead(s, i + Len(t) + 1)
  BY <1>1, <1>3, InfixHeads
<1>5. position_index_to_codepoint(s, i) = c
  BY <1>2, <1>4, PositionOfHead
<1>6. c \in 0 .. (CodePointCount(s) - n)
  <2>1. c \in Nat /\ n \in Nat /\ CodePointCount(s) \in Nat
    BY <1>2, StartsFinite, CodePointNumbers
  <2>2. Cardinality(StartsUpTo(s, i + Len(t))) = c + n
    BY <1>1, <1>3, <1>4, InfixStarts
  <2>3. Cardinality(StartsUpTo(s, i + Len(t))) <= Cardinality(StartsUpTo(s, Len(s)))
    BY <1>1, <1>2, StartsGrow
  <2>4. Cardinality(StartsUpTo(s, Len(s))) = CodePointCount(s)
    BY StartsFromZero
  <2> HIDE DEF c, n
  <2> QED BY <2>1, <2>2, <2>3, <2>4
<1>7. CodePoints(s, c, c + n) = part
  BY <1>1, <1>3, <1>4, CodePointsInfix
<1>8. Len(part) = Len(t) /\ \A k \in 1 .. Len(t) : part[k] = s[i + k]
  BY <1>1
<1> HIDE DEF c, n, part
<1>9. \A k \in 1 .. Len(part) : case_predicate(part[k], t[k], cs)
  BY <1>1, <1>8
<1>10. c \in Matches(s, t, cs)
  BY <1>6, <1>7, <1>8, <1>9, MatchesAre DEF n
<1> QED BY <1>2, <1>4, <1>5, <1>10 DEF c

\* A match of the code points is one of the units.
LEMMA MatchOccurs ==
  ASSUME NEW s \in Seq(char16_t), WellFormed(s), NEW t \in Seq(char16_t), WellFormed(t),
         NEW cs, NEW c \in Matches(s, t, cs)
  PROVE  \E i \in Occurrences(s, t, cs) : Cardinality(StartsUpTo(s, i)) = c
<1> DEFINE n == CodePointCount(t)
           part == CodePoints(s, c, c + n)
<1>1. /\ c \in 0 .. (CodePointCount(s) - n) /\ Len(part) = Len(t)
      /\ \A k \in 1 .. Len(part) : case_predicate(part[k], t[k], cs)
  BY MatchesAre
<1>2. /\ n \in Nat /\ CodePointCount(s) \in Nat /\ Len(s) \in Nat /\ Len(t) \in Nat
      /\ Cardinality(StartsUpTo(s, Len(s))) = CodePointCount(s)
  BY CodePointNumbers, StartsFromZero
<1> HIDE DEF n
<1>3. c \in Nat /\ c + n \in Nat /\ c <= c + n /\ c <= CodePointCount(s)
  BY <1>1, <1>2
<1>4. PICK p \in 0 .. Len(s) : \E q \in p .. Len(s) :
        /\ AtScanHead(s, p + 1) /\ AtScanHead(s, q + 1)
        /\ part = SubSeq(s, p + 1, q)
        /\ Cardinality(StartsUpTo(s, p)) = c \/ (p = Len(s) /\ c >= CodePointCount(s))
        /\ Cardinality(StartsUpTo(s, q)) = c + n \/ (q = Len(s) /\ c + n >= CodePointCount(s))
  BY <1>3, CodePointsPart
<1>5. PICK q \in p .. Len(s) : part = SubSeq(s, p + 1, q)
  BY <1>4
<1>6. Cardinality(StartsUpTo(s, p)) = c
  BY <1>2, <1>3, <1>4
<1> HIDE DEF part
<1>7. Len(part) = q - p /\ \A k \in 1 .. (q - p) : part[k] = s[p + k]
  BY <1>2, <1>5
<1>8. p \in 0 .. (Len(s) - Len(t)) /\ q - p = Len(t)
  BY <1>1, <1>2, <1>7
<1>9. \A k \in 1 .. Len(t) : case_predicate(s[p + k], t[k], cs)
  BY <1>1, <1>7, <1>8
<1>10. p \in Occurrences(s, t, cs)
  BY <1>8, <1>9 DEF Occurrences
<1> QED BY <1>6, <1>10

\* The first and the last match of the units are those of the code points.
LEMMA SearchNumbers ==
  ASSUME NEW s \in Seq(char16_t), WellFormed(s), NEW t \in Seq(char16_t), WellFormed(t),
         t # <<>>, NEW cs
  PROVE  LET found == Matches(s, t, cs)
         IN  /\ index_of(s, t, cs) = IF found = {} THEN SIZE_MAX ELSE Min(found)
             /\ last_index_of(s, t, cs) = IF found = {} THEN SIZE_MAX ELSE Max(found)
<1> DEFINE found == Matches(s, t, cs)
           O == Occurrences(s, t, cs)
           Number(i) == Cardinality(StartsUpTo(s, i))
<1>1. Len(s) \in Nat /\ O \subseteq 0 .. Len(s) /\ O \in SUBSET Nat
  BY DEF Occurrences
<1>2. \A i \in O : /\ i \in Nat /\ i < Len(s) /\ Number(i) \in found
                   /\ position_index_to_codepoint(s, i) = Number(i)
  BY <1>1, OccurrenceMatches
<1>3. \A c \in found : \E i \in O : Number(i) = c
  BY MatchOccurs
<1>4. \A i \in Nat, j \in Nat : i <= j => Number(i) <= Number(j)
  BY StartsGrow
<1>5. found \subseteq Int
  BY DEF Matches
<1>6. /\ index_of(s, t, cs) = IF O \in {{}, {Len(s)}} THEN SIZE_MAX
                              ELSE position_index_to_codepoint(s, Min(O))
      /\ last_index_of(s, t, cs) = IF s = <<>> \/ O = {} THEN SIZE_MAX
                                   ELSE position_index_to_codepoint(s, Max(O))
  BY DEF index_of, last_index_of
<1> HIDE DEF found, O, Number
<1>7. CASE O = {}
  BY <1>3, <1>6, <1>7 DEF found
<1>8. CASE O # {}
  <2>1. found # {} /\ O # {Len(s)} /\ s # <<>>
    <3>1. PICK i \in O : TRUE
      BY <1>8
    <3>2. i < Len(s) /\ i \in Nat /\ Number(i) \in found
      BY <1>2, <3>1
    <3>3. Len(s) \notin O
      BY <1>1, <1>2
    <3> QED BY <1>1, <3>1, <3>2, <3>3
  <2>2. PICK a \in O : \A i \in O : a <= i
    BY <1>1, <1>8, LeastExists
  <2>3. PICK z \in O : \A i \in O : i <= z
    BY <1>1, <1>8, GreatestExists
  <2>4. O \in SUBSET Int
    BY <1>1
  <2>5. Min(O) = a /\ Max(O) = z
    BY <2>2, <2>3, <2>4, MinIs, MaxIs
  <2>6. Number(a) \in found /\ \A c \in found : Number(a) <= c
    BY <1>2, <1>3, <1>4, <2>2
  <2>7. Number(z) \in found /\ \A c \in found : c <= Number(z)
    BY <1>2, <1>3, <1>4, <2>3
  <2>8. Min(found) = Number(a)
    BY <1>5, <2>6, MinIs
  <2>9. Max(found) = Number(z)
    BY <1>5, <2>7, MaxIs
  <2>10. index_of(s, t, cs) = Min(found)
    <3>1. O \notin {{}, {Len(s)}}
      BY <1>8, <2>1
    <3>2. index_of(s, t, cs) = position_index_to_codepoint(s, a)
      BY <1>6, <2>5, <3>1
    <3> QED BY <1>2, <2>8, <3>2
  <2>11. last_index_of(s, t, cs) = Max(found)
    <3>1. last_index_of(s, t, cs) = position_index_to_codepoint(s, z)
      BY <1>6, <1>8, <2>1, <2>5
    <3> QED BY <1>2, <2>9, <3>1
  <2> QED BY <2>1, <2>10, <2>11 DEF found
<1> QED BY <1>7, <1>8

\* The empty pattern is found everywhere, at the start and at the end too.
LEMMA SearchEmpty ==
  ASSUME NEW s \in Seq(char16_t), WellFormed(s), s # <<>>, NEW t, t = <<>>, NEW cs
  PROVE  LET found == Matches(s, t, cs)
         IN  /\ found # {} /\ found = 0 .. CodePointCount(s)
             /\ index_of(s, t, cs) = Min(found) /\ last_index_of(s, t, cs) = Max(found)
<1> DEFINE found == Matches(s, t, cs)
           size == CodePointCount(s)
<1>1. Len(s) \in Nat \ {0} /\ Len(t) = 0 /\ t \in Seq(char16_t) /\ WellFormed(t)
  BY DEF WellFormed
<1>2. CodePointCount(t) = 0 /\ size \in Nat
  <2>1. CodePointCount(t) \in Nat /\ CodePointCount(t) <= Len(t)
    BY <1>1, CodePointNumbers
  <2>2. size \in Nat
    BY CodePointNumbers
  <2> QED BY <1>1, <2>1, <2>2
<1>3. found = 0 .. size
  <2>1. ASSUME NEW c PROVE c \in found <=> c \in 0 .. size
    <3>1. c \in found <=>
            /\ c \in 0 .. (size - 0)
            /\ Len(CodePoints(s, c, c + 0)) = 0
            /\ \A k \in 1 .. Len(CodePoints(s, c, c + 0)) :
                 case_predicate(CodePoints(s, c, c + 0)[k], t[k], cs)
      BY <1>1, <1>2, MatchesAre
    <3>2. c \in 0 .. size => CodePoints(s, c, c + 0) = <<>>
      <4> SUFFICES ASSUME c \in 0 .. size PROVE CodePoints(s, c, c + 0) = <<>>
        OBVIOUS
      <4>1. c \in Int /\ c + 0 \in Int /\ c + 0 <= c
        BY <1>2
      <4> QED BY <4>1, CodePointsNone
    <3>3. Len(<<>>) = 0 /\ 1 .. 0 = {} /\ size - 0 = size
      BY <1>2
    <3> HIDE DEF found, size
    <3> QED BY <3>1, <3>2, <3>3
  <2> QED BY <2>1
<1>4. Occurrences(s, t, cs) = 0 .. Len(s)
  BY <1>1 DEF Occurrences
<1> HIDE DEF found, size
<1>5. Min(found) = 0 /\ Max(found) = size
  <2>1. 0 \in found /\ size \in found /\ found \in SUBSET Int /\ \A c \in found : 0 <= c /\ c <= size
    BY <1>2, <1>3
  <2> QED BY <2>1, MinIs, MaxIs
<1>6. Min(0 .. Len(s)) = 0 /\ Max(0 .. Len(s)) = Len(s)
  <2> DEFINE O == 0 .. Len(s)
  <2>1. 0 \in O /\ Len(s) \in O /\ O \in SUBSET Int /\ \A c \in O : 0 <= c /\ c <= Len(s)
    BY <1>1
  <2> HIDE DEF O
  <2>2. Min(O) = 0 /\ Max(O) = Len(s)
    BY <2>1, MinIs, MaxIs
  <2> QED BY <2>2 DEF O
<1>7. position_index_to_codepoint(s, 0) = 0 /\ position_index_to_codepoint(s, Len(s)) = size
  <2>1. /\ 0 \in 0 .. Len(s) /\ AtScanHead(s, 0 + 1)
        /\ Len(s) \in 0 .. Len(s) /\ AtScanHead(s, Len(s) + 1)
    BY <1>1, HeadAtStart, HeadAtEnd
  <2>2. Cardinality(StartsUpTo(s, 0)) = 0 /\ Cardinality(StartsUpTo(s, Len(s))) = size
    BY StartsFromZero DEF size
  <2> QED BY <2>1, <2>2, PositionOfHead
<1>8. index_of(s, t, cs) = 0
  <2>1. 0 .. Len(s) \notin {{}, {Len(s)}}
    <3>1. 0 \in 0 .. Len(s) /\ 0 # Len(s)
      BY <1>1
    <3> QED BY <3>1
  <2> QED BY <1>4, <1>6, <1>7, <2>1 DEF index_of
<1>9. last_index_of(s, t, cs) = size
  <2>1. 0 .. Len(s) # {}
    BY <1>1
  <2> QED BY <1>4, <1>6, <1>7, <2>1 DEF last_index_of
<1>10. found # {}
  BY <1>2, <1>3
<1> QED BY <1>3, <1>5, <1>8, <1>9, <1>10 DEF found, size

\* Searching unit by unit finds the first and the last occurrence in code
\* points: a match never starts or ends inside a pair (osv.cpp: index_of and
\* last_index_of).
THEOREM SearchesCodePoints == Spec => []SearchExact
<1>1. CallInv => SearchExact
  <2> SUFFICES ASSUME CallInv, call.method \in {"index_of", "last_index_of"},
                      WellFormed(view), WellFormed(call.pattern)
               PROVE  LET found == IF view = <<>> THEN {} ELSE Matches(view, call.pattern, call.cs)
                      IN  call.ret = IF found = {} THEN SIZE_MAX
                                     ELSE IF call.method = "index_of" THEN Min(found) ELSE Max(found)
    BY DEF SearchExact
  <2> DEFINE t == call.pattern
             cs == call.cs
             found == Matches(view, t, cs)
  <2>1. view \in Seq(char16_t) /\ t \in Seq(char16_t)
    BY ViewsAssumption DEF CallInv
  <2>2. call.ret = IF call.method = "index_of" THEN index_of(view, t, cs)
                   ELSE last_index_of(view, t, cs)
    BY DEF CallInv
  <2>3. CASE view = <<>>
    <3>1. Len(view) = 0 /\ Occurrences(view, t, cs) \subseteq {0}
      BY <2>1, <2>3 DEF Occurrences
    <3>2. Occurrences(view, t, cs) \in {{}, {Len(view)}}
      BY <3>1
    <3>3. index_of(view, t, cs) = SIZE_MAX /\ last_index_of(view, t, cs) = SIZE_MAX
      BY <2>3, <3>2 DEF index_of, last_index_of
    <3> QED BY <2>2, <2>3, <3>3
  <2>4. CASE view # <<>> /\ t = <<>>
    <3>1. /\ found # {}
          /\ index_of(view, t, cs) = Min(found) /\ last_index_of(view, t, cs) = Max(found)
      BY <2>1, <2>4, SearchEmpty
    <3> QED BY <2>2, <2>4, <3>1
  <2>5. CASE view # <<>> /\ t # <<>>
    <3>1. /\ index_of(view, t, cs) = IF found = {} THEN SIZE_MAX ELSE Min(found)
          /\ last_index_of(view, t, cs) = IF found = {} THEN SIZE_MAX ELSE Max(found)
      BY <2>1, <2>5, SearchNumbers
    <3> QED BY <2>2, <2>5, <3>1
  <2> QED BY <2>3, <2>4, <2>5
<1> QED BY <1>1, CallInvHolds, PTL

-----------------------------------------------------------------------------
(* split.                                                                  *)

\* Beyond the last code point there is nothing.
LEMMA CodePointsBeyond ==
  ASSUME NEW s \in Seq(char16_t), WellFormed(s), NEW from \in Int, NEW to \in Int,
         to >= CodePointCount(s)
  PROVE  CodePoints(s, from, to) = CodePoints(s, from, CodePointCount(s))
<1> DEFINE size == CodePointCount(s)
           within(n) == {i \in 1 .. Len(s) : from <= CodePointOf(s, i) /\ CodePointOf(s, i) < n}
<1>1. size \in Nat /\ \A i \in 1 .. Len(s) : CodePointOf(s, i) \in 0 .. (size - 1)
  BY CodePointNumbers
<1>2. \A i \in 1 .. Len(s) : CodePointOf(s, i) < to /\ CodePointOf(s, i) < size
  <2> HIDE DEF size
  <2> QED BY <1>1 DEF size
<1>3. within(to) = within(size)
  BY <1>2
<1> QED BY <1>3 DEF CodePoints

\* A string that is not empty has a code point.
LEMMA CountOfSome ==
  ASSUME NEW s \in Seq(char16_t), s # <<>>
  PROVE  CodePointCount(s) # 0
<1>1. 1 \in CodePointStarts(s)
  BY DEF CodePointStarts
<1>2. IsFiniteSet(CodePointStarts(s))
  BY StartsFinite
<1>3. Cardinality(CodePointStarts(s)) # 0
  BY <1>1, <1>2, FS_EmptySet
<1> QED BY <1>3 DEF CodePointCount

\* What follows the first n code points of a string: its code points are those
\* of the string, from n on.
LEMMA TailOf ==
  ASSUME NEW s \in Seq(char16_t), WellFormed(s), NEW n \in 0 .. CodePointCount(s)
  PROVE  LET t == CodePoints(s, n, CodePointCount(s))
         IN  /\ t \in Seq(char16_t) /\ WellFormed(t) /\ Len(t) <= Len(s)
             /\ CodePointCount(t) = CodePointCount(s) - n
             /\ \A a \in Nat, b \in Nat :
                  a <= b => CodePoints(t, a, b) = CodePoints(s, n + a, n + b)
<1> DEFINE size == CodePointCount(s)
           t == CodePoints(s, n, size)
<1>1. size \in Nat /\ n \in Nat /\ n <= size /\ Len(s) \in Nat
  BY CodePointNumbers
<1>2. PICK p \in 0 .. Len(s) : AtScanHead(s, p + 1) /\ Cardinality(StartsUpTo(s, p)) = n
  BY StartsReach
<1>3. Cardinality(StartsUpTo(s, Len(s))) = size /\ AtScanHead(s, Len(s) + 1)
  BY StartsFromZero, HeadAtEnd
<1> HIDE DEF size
<1>4. t = SubSeq(s, p + 1, Len(s))
  <2>1. Len(s) \in p .. Len(s)
    BY <1>1
  <2> QED BY <1>1, <1>2, <1>3, <2>1, CutBetween
<1>5. /\ t \in Seq(char16_t) /\ Len(t) = Len(s) - p
      /\ \A k \in 1 .. Len(t) : t[k] = s[p + k]
      /\ WellFormed(t)
  <2>1. Len(s) \in p .. Len(s)
    BY <1>1
  <2> QED BY <1>2, <1>3, <1>4, <2>1, CutWellFormed
<1> HIDE DEF t
<1>6. ASSUME NEW q \in 0 .. Len(t), AtScanHead(t, q + 1)
      PROVE  /\ p + q \in 0 .. Len(s) /\ AtScanHead(s, p + q + 1)
             /\ Cardinality(StartsUpTo(s, p + q)) = n + Cardinality(StartsUpTo(t, q))
  <2> DEFINE u == SubSeq(t, 0 + 1, q)
  <2>1. q \in Nat /\ p \in Nat /\ Len(t) \in Nat /\ q \in 0 .. Len(t) /\ p + q \in 0 .. Len(s)
    BY <1>1, <1>5
  <2>2. /\ u \in Seq(char16_t) /\ Len(u) = q /\ \A k \in 1 .. Len(u) : u[k] = t[0 + k]
        /\ WellFormed(u)
    <3>1. 0 \in 0 .. Len(t) /\ q \in 0 .. Len(t) /\ AtScanHead(t, 0 + 1) /\ q - 0 = q
      BY <2>1, HeadAtStart
    <3> QED BY <1>5, <1>6, <3>1, CutWellFormed
  <2> HIDE DEF u
  <2>3. \A k \in 1 .. Len(u) : u[k] = s[p + k]
    <3>1. ASSUME NEW k \in 1 .. Len(u) PROVE u[k] = s[p + k]
      <4>1. k \in 1 .. Len(t) /\ 0 + k = k
        BY <2>1, <2>2
      <4> QED BY <1>5, <2>2, <4>1
    <3> QED BY <3>1
  <2>4. Cardinality(StartsUpTo(t, 0 + Len(u))) = Cardinality(StartsUpTo(t, 0)) + CodePointCount(u)
    <3>1. 0 \in 0 .. (Len(t) - Len(u)) /\ SameClasses(t, 0, u) /\ AtScanHead(t, 0 + 1)
      BY <2>1, <2>2, HeadAtStart, SameUnitsSameClasses
    <3> QED BY <1>5, <2>2, <3>1, InfixStarts
  <2>5. Cardinality(StartsUpTo(s, p + Len(u))) = Cardinality(StartsUpTo(s, p)) + CodePointCount(u)
    <3>1. p \in 0 .. (Len(s) - Len(u)) /\ SameClasses(s, p, u)
      BY <1>1, <1>5, <2>1, <2>2, <2>3, SameUnitsSameClasses
    <3> QED BY <1>2, <2>2, <3>1, InfixStarts
  <2>6. Cardinality(StartsUpTo(t, 0)) = 0
    BY <1>5, StartsFromZero
  <2>7. CodePointCount(u) \in Nat
    BY <2>2, CodePointNumbers
  <2>8. AtScanHead(s, p + q + 1)
    <3>1. q + 1 \in Nat \ {0} /\ p + (q + 1) = p + q + 1
      BY <2>1
    <3>2. \A k \in 1 .. (q + 1 - 1) : t[k] = s[p + k]
      BY <1>5, <2>1
    <3>3. AtScanHead(s, p + (q + 1))
      <4> DEFINE i == q + 1
      <4>1. i \in Nat \ {0} /\ AtScanHead(t, i) /\ \A k \in 1 .. (i - 1) : t[k] = s[p + k]
        BY <1>6, <3>1, <3>2
      <4> HIDE DEF i
      <4>2. AtScanHead(s, p + i)
        BY <1>2, <2>1, <4>1, HeadShiftUp
      <4> QED BY <4>2 DEF i
    <3> QED BY <3>1, <3>3
  <2>9. Cardinality(StartsUpTo(t, q)) = CodePointCount(u)
    BY <2>1, <2>2, <2>4, <2>6, <2>7
  <2> QED BY <1>2, <2>1, <2>2, <2>5, <2>8, <2>9
<1>7. CodePointCount(t) = size - n
  <2>1. Len(t) \in 0 .. Len(t) /\ AtScanHead(t, Len(t) + 1) /\ p + Len(t) = Len(s)
    BY <1>1, <1>5, HeadAtEnd
  <2>2. Cardinality(StartsUpTo(s, Len(s))) = n + Cardinality(StartsUpTo(t, Len(t)))
    BY <1>6, <2>1
  <2>3. Cardinality(StartsUpTo(t, Len(t))) = CodePointCount(t) /\ CodePointCount(t) \in Nat
    BY <1>5, StartsFromZero, CodePointNumbers
  <2> QED BY <1>1, <1>3, <2>2, <2>3
<1>8. ASSUME NEW a \in Nat, NEW b \in Nat, a <= b
      PROVE  CodePoints(t, a, b) = CodePoints(s, n + a, n + b)
  <2>1. PICK q \in 0 .. Len(t) : \E r \in q .. Len(t) :
          /\ AtScanHead(t, q + 1) /\ AtScanHead(t, r + 1)
          /\ CodePoints(t, a, b) = SubSeq(t, q + 1, r)
          /\ Cardinality(StartsUpTo(t, q)) = a \/ (q = Len(t) /\ a >= CodePointCount(t))
          /\ Cardinality(StartsUpTo(t, r)) = b \/ (r = Len(t) /\ b >= CodePointCount(t))
    BY <1>5, <1>8, CodePointsPart
  <2>2. PICK r \in q .. Len(t) :
          /\ AtScanHead(t, q + 1) /\ AtScanHead(t, r + 1)
          /\ CodePoints(t, a, b) = SubSeq(t, q + 1, r)
          /\ Cardinality(StartsUpTo(t, q)) = a \/ (q = Len(t) /\ a >= CodePointCount(t))
          /\ Cardinality(StartsUpTo(t, r)) = b \/ (r = Len(t) /\ b >= CodePointCount(t))
    BY <2>1
  <2>3. Len(t) \in Nat /\ q \in Nat /\ r \in Nat /\ r \in 0 .. Len(t) /\ p \in Nat
    BY <1>5
  <2>4. /\ p + q \in 0 .. Len(s) /\ AtScanHead(s, p + q + 1)
        /\ Cardinality(StartsUpTo(s, p + q)) = n + Cardinality(StartsUpTo(t, q))
    BY <1>6, <2>2
  <2>5. /\ p + r \in 0 .. Len(s) /\ AtScanHead(s, p + r + 1)
        /\ Cardinality(StartsUpTo(s, p + r)) = n + Cardinality(StartsUpTo(t, r))
    BY <1>6, <2>2, <2>3
  <2>6. p + r \in (p + q) .. Len(s)
    BY <1>1, <2>3, <2>4, <2>5
  <2>7. /\ Cardinality(StartsUpTo(s, p + q)) = n + a \/ (p + q = Len(s) /\ n + a >= size)
        /\ Cardinality(StartsUpTo(s, p + r)) = n + b \/ (p + r = Len(s) /\ n + b >= size)
    BY <1>1, <1>5, <1>7, <2>2, <2>3, <2>4, <2>5
  <2>8. n + a \in Nat /\ n + b \in Nat
    BY <1>1
  <2>9. SubSeq(s, p + q + 1, p + r) = CodePoints(s, n + a, n + b)
    BY <2>4, <2>5, <2>6, <2>7, <2>8, CutBetween DEF size
  <2>10. SubSeq(t, q + 1, r) = SubSeq(s, p + q + 1, p + r)
    BY <1>1, <1>4, <1>5, <2>3, <2>6
  <2> QED BY <2>2, <2>9, <2>10
<1> QED BY <1>1, <1>5, <1>7, <1>8 DEF t, size

\* Where the splitter cuts what follows the first n code points: where it cuts
\* the string from n on.
LEMMA CutsOfTail ==
  ASSUME NEW s \in Seq(char16_t), WellFormed(s), NEW splitter \in Seq(char16_t),
         WellFormed(splitter), NEW n \in 0 .. CodePointCount(s), NEW c \in Int
  PROVE  c \in Cuts(CodePoints(s, n, CodePointCount(s)), splitter)
           <=> c >= 0 /\ n + c \in Cuts(s, splitter)
<1> DEFINE size == CodePointCount(s)
           t == CodePoints(s, n, size)
           m == CodePointCount(splitter)
<1>1. size \in Nat /\ n \in Nat /\ n <= size /\ m \in Nat
  BY CodePointNumbers
<1>2. /\ t \in Seq(char16_t) /\ WellFormed(t) /\ CodePointCount(t) = size - n
      /\ \A a \in Nat, b \in Nat : a <= b => CodePoints(t, a, b) = CodePoints(s, n + a, n + b)
  BY TailOf
<1> HIDE DEF t, size, m
<1>3. c \in Matches(t, splitter, "sensitive")
        <=> c >= 0 /\ n + c \in Matches(s, splitter, "sensitive")
  <2> SUFFICES ASSUME c >= 0
               PROVE  c \in Matches(t, splitter, "sensitive")
                        <=> n + c \in Matches(s, splitter, "sensitive")
    <3>1. c \in Matches(t, splitter, "sensitive") => c >= 0
      <4>1. c \in Matches(t, splitter, "sensitive") => c \in 0 .. (CodePointCount(t) - m)
        BY DEF Matches, m
      <4> QED BY <1>1, <1>2, <4>1
    <3> QED BY <3>1
  <2> DEFINE same(part) ==
               /\ Len(part) = Len(splitter)
               /\ \A k \in 1 .. Len(part) : case_predicate(part[k], splitter[k], "sensitive")
  <2>1. c \in Matches(t, splitter, "sensitive")
          <=> c \in 0 .. (size - n - m) /\ same(CodePoints(t, c, c + m))
    <3>1. c \in Matches(t, splitter, "sensitive")
            <=> c \in 0 .. (CodePointCount(t) - m) /\ same(CodePoints(t, c, c + m))
      BY MatchesAre DEF m
    <3> QED BY <1>2, <3>1
  <2>2. n + c \in Matches(s, splitter, "sensitive")
          <=> n + c \in 0 .. (size - m) /\ same(CodePoints(s, n + c, n + c + m))
    BY MatchesAre DEF size, m
  <2>3. CodePoints(t, c, c + m) = CodePoints(s, n + c, n + c + m)
    <3>1. c \in Nat /\ c + m \in Nat /\ c <= c + m /\ n + (c + m) = n + c + m
      BY <1>1
    <3>2. CodePoints(t, c, c + m) = CodePoints(s, n + c, n + (c + m))
      BY <1>2, <3>1
    <3> QED BY <3>1, <3>2
  <2>4. c \in 0 .. (size - n - m) <=> n + c \in 0 .. (size - m)
    BY <1>1
  <2> HIDE DEF same
  <2> QED BY <2>1, <2>2, <2>3, <2>4
<1>4. c = size - n <=> n + c = size
  BY <1>1
<1>5. Cuts(t, splitter) = Matches(t, splitter, "sensitive") \ {size - n}
  BY <1>2 DEF Cuts
<1>6. Cuts(s, splitter) = Matches(s, splitter, "sensitive") \ {size}
  BY DEF Cuts, size
<1>7. c \in Cuts(t, splitter) <=> c >= 0 /\ n + c \in Cuts(s, splitter)
  BY <1>3, <1>4, <1>5, <1>6
<1> QED BY <1>7 DEF t, size

\* A cut is before the end.
LEMMA CutsInside ==
  ASSUME NEW s \in Seq(char16_t), WellFormed(s), NEW splitter \in Seq(char16_t),
         WellFormed(splitter)
  PROVE  /\ Cuts(s, splitter) \in SUBSET (0 .. (CodePointCount(s) - 1))
         /\ Cuts(s, splitter) \in SUBSET Nat /\ IsFiniteSet(Cuts(s, splitter))
<1> DEFINE size == CodePointCount(s)
           m == CodePointCount(splitter)
<1>1. size \in Nat /\ m \in Nat
  BY CodePointNumbers
<1>2. Matches(s, splitter, "sensitive") \subseteq 0 .. (size - m)
  BY DEF Matches
<1> HIDE DEF size, m
<1>3. Cuts(s, splitter) \subseteq 0 .. (size - 1)
  BY <1>1, <1>2 DEF Cuts, size
<1>4. 0 .. (size - 1) \subseteq Nat /\ IsFiniteSet(0 .. (size - 1))
  BY <1>1, FS_Interval
<1>5. IsFiniteSet(Cuts(s, splitter))
  BY <1>3, <1>4, FS_Subset
<1> QED BY <1>3, <1>4, <1>5 DEF size

\* split finds the first cut.
LEMMA FirstCut ==
  ASSUME NEW s \in Seq(char16_t), WellFormed(s), NEW splitter \in Seq(char16_t),
         WellFormed(splitter)
  PROVE  LET cuts == Cuts(s, splitter)
         IN  index_of(s, splitter, "sensitive") = IF cuts = {} THEN SIZE_MAX ELSE Min(cuts)
<1> DEFINE size == CodePointCount(s)
           m == CodePointCount(splitter)
           found == Matches(s, splitter, "sensitive")
           cuts == Cuts(s, splitter)
<1>1. size \in Nat /\ m \in Nat /\ Len(s) \in Nat /\ size <= Len(s)
  BY CodePointNumbers
<1>2. cuts = found \ {size} /\ cuts \in SUBSET (0 .. (size - 1)) /\ cuts \in SUBSET Nat
  BY CutsInside DEF Cuts
<1>3. found \subseteq 0 .. (size - m)
  BY DEF Matches
<1> HIDE DEF size, found, cuts
<1>4. CASE s = <<>>
  <2>1. Len(s) = 0 /\ Occurrences(s, splitter, "sensitive") \subseteq {0}
    BY <1>4 DEF Occurrences
  <2>2. index_of(s, splitter, "sensitive") = SIZE_MAX
    BY <2>1 DEF index_of
  <2>3. cuts = {}
    BY <1>1, <1>2, <2>1
  <2> QED BY <2>2, <2>3 DEF cuts
<1>5. CASE s # <<>> /\ splitter = <<>>
  <2>1. /\ found # {} /\ index_of(s, splitter, "sensitive") = Min(found)
        /\ found = 0 .. size
    BY <1>5, SearchEmpty DEF found, size
  <2>2. size # 0
    BY <1>5, CountOfSome DEF size
  <2>3. 0 \in found
    BY <1>1, <2>1
  <2>4. 0 \in cuts /\ \A c \in cuts : 0 <= c
    BY <1>1, <1>2, <2>2, <2>3
  <2>5. Min(cuts) = 0
    <3>1. cuts \in SUBSET Int
      BY <1>2
    <3> QED BY <2>4, <3>1, MinIs
  <2>6. Min(found) = 0
    <3>1. found \in SUBSET Int /\ \A c \in found : 0 <= c
      BY <1>1, <1>3
    <3> QED BY <2>3, <3>1, MinIs
  <2> QED BY <2>1, <2>4, <2>5, <2>6 DEF cuts
<1>6. CASE s # <<>> /\ splitter # <<>>
  <2>1. index_of(s, splitter, "sensitive") = IF found = {} THEN SIZE_MAX ELSE Min(found)
    BY <1>6, SearchNumbers DEF found
  <2>2. m # 0
    BY <1>6, CountOfSome DEF m
  <2>3. cuts = found
    BY <1>1, <1>2, <1>3, <2>2
  <2> QED BY <2>1, <2>3 DEF cuts
<1> QED BY <1>4, <1>5, <1>6

\* What split returns: what is before the first cut, and what follows the code
\* point there.
LEMMA SplitOnce ==
  ASSUME NEW s \in Seq(char16_t), WellFormed(s), Len(s) <= SIZE_MAX,
         NEW splitter \in Seq(char16_t), WellFormed(splitter),
         NEW ret \in split(s, splitter)
  PROVE  LET cuts == Cuts(s, splitter)
             size == CodePointCount(s)
         IN  /\ ret.found <=> cuts # {}
             /\ cuts = {} => ret.lhs = CodePoints(s, 0, size)
             /\ \A m \in cuts :
                  (\A c \in cuts : m <= c) =>
                    /\ ret.lhs = CodePoints(s, 0, m)
                    /\ ret.rhs = CodePoints(s, m + 1, size)
<1> DEFINE i == index_of(s, splitter, "sensitive")
           cuts == Cuts(s, splitter)
           size == CodePointCount(s)
<1>1. SIZE_MAX \in Nat /\ SIZE_MAX \in size_t /\ 0 \in size_t /\ size \in Nat /\ size <= SIZE_MAX
      /\ Len(s) \in Nat
  BY SizeMaxAssumption, CodePointNumbers DEF size_t
<1>2. cuts \in SUBSET (0 .. (size - 1)) /\ cuts \in SUBSET Nat
  BY CutsInside
<1>3. i = IF cuts = {} THEN SIZE_MAX ELSE Min(cuts)
  BY FirstCut
<1>4. split(s, splitter) =
        IF i = SIZE_MAX
        THEN [found : {FALSE}, lhs : substring(s, 0, SIZE_MAX)]
        ELSE [found : {TRUE}, lhs : substring(s, 0, i),
              rhs : substring(s, i + 1, SIZE_MAX)]
  BY DEF split
<1> HIDE DEF i, cuts, size
<1>5. CASE cuts = {}
  <2>1. ret \in [found : {FALSE}, lhs : substring(s, 0, SIZE_MAX)]
    BY <1>3, <1>4, <1>5
  <2>2. ret.found = FALSE /\ ret.lhs \in substring(s, 0, SIZE_MAX)
    BY <2>1
  <2>3. substring(s, 0, SIZE_MAX) = {CodePoints(s, 0, 0 + SIZE_MAX)}
    BY <1>1, SubstringCuts
  <2>4. CodePoints(s, 0, 0 + SIZE_MAX) = CodePoints(s, 0, size)
    BY <1>1, CodePointsBeyond DEF size
  <2>5. ret.lhs = CodePoints(s, 0, size)
    BY <2>2, <2>3, <2>4
  <2> QED BY <1>5, <2>2, <2>5 DEF cuts, size
<1>6. CASE cuts # {}
  <2>1. PICK m \in cuts : \A c \in cuts : m <= c
    BY <1>2, <1>6, LeastExists
  <2>2. Min(cuts) = m /\ m \in Nat /\ m < size
    <3>1. cuts \in SUBSET Int
      BY <1>2
    <3> QED BY <1>1, <1>2, <2>1, <3>1, MinIs
  <2>3. i = m /\ i # SIZE_MAX /\ i + 1 \in size_t /\ i \in size_t
    BY <1>1, <1>3, <1>6, <2>2 DEF size_t
  <2>4. ret \in [found : {TRUE}, lhs : substring(s, 0, i), rhs : substring(s, i + 1, SIZE_MAX)]
    BY <1>4, <2>3
  <2>5. ret.found = TRUE /\ ret.lhs \in substring(s, 0, i) /\ ret.rhs \in substring(s, i + 1, SIZE_MAX)
    BY <2>4
  <2>6. ret.lhs = CodePoints(s, 0, m)
    <3>1. substring(s, 0, i) = {CodePoints(s, 0, 0 + i)}
      BY <1>1, <2>3, SubstringCuts
    <3> QED BY <2>2, <2>3, <2>5, <3>1
  <2>7. ret.rhs = CodePoints(s, m + 1, size)
    <3>1. substring(s, i + 1, SIZE_MAX) = {CodePoints(s, i + 1, i + 1 + SIZE_MAX)}
      BY <1>1, <2>3, SubstringCuts
    <3>2. CodePoints(s, i + 1, i + 1 + SIZE_MAX) = CodePoints(s, i + 1, size)
      <4>1. i + 1 \in Int /\ i + 1 + SIZE_MAX \in Int /\ i + 1 + SIZE_MAX >= size
        BY <1>1, <2>2, <2>3
      <4> QED BY <4>1, CodePointsBeyond DEF size
    <3> QED BY <2>3, <2>5, <3>1, <3>2
  <2>8. ASSUME NEW n \in cuts, \A c \in cuts : n <= c PROVE n = m
    BY <1>2, <2>1, <2>8
  <2> QED BY <1>6, <2>5, <2>6, <2>7, <2>8 DEF cuts, size
<1> QED BY <1>5, <1>6

\* The piece that ends at a cut, given the cut before it.
LEMMA PieceIs ==
  ASSUME NEW s, NEW splitter, NEW to \in Int, NEW from \in Nat,
         from # 0 => from - 1 \in Cuts(s, splitter) /\ from - 1 < to,
         \A c \in Cuts(s, splitter) : c \in Nat /\ (c < to => c < from)
  PROVE  Piece(s, splitter, to) = CodePoints(s, from, to)
<1> DEFINE before == {-1} \cup {i \in Cuts(s, splitter) : i < to}
<1>1. before \in SUBSET Int /\ from - 1 \in before /\ \A x \in before : x <= from - 1
  OBVIOUS
<1> HIDE DEF before
<1>2. Max(before) = from - 1
  BY <1>1, MaxIs
<1>3. 1 + Max(before) = from
  BY <1>2
<1> QED BY <1>3 DEF Piece, before

\* No piece, and one piece more.
LEMMA NoPieces ==
  ASSUME NEW s, NEW splitter PROVE Pieces(s, splitter, {}) = <<>>
<1>1. Cardinality({}) = 0 /\ 1 .. 0 = {}
  BY FS_EmptySet
<1> QED BY <1>1 DEF Pieces

LEMMA OnePieceMore ==
  ASSUME NEW s, NEW splitter, NEW ends \in SUBSET Int, IsFiniteSet(ends),
         NEW to \in Int, \A i \in ends : i < to
  PROVE  Pieces(s, splitter, ends \cup {to}) =
           Append(Pieces(s, splitter, ends), Piece(s, splitter, to))
<1> DEFINE more == ends \cup {to}
           n == Cardinality(ends)
           before(S, t) == {i \in S : i < t}
           rank(S, t) == Cardinality(before(S, t))
           numbered(S, k) == {t \in S : rank(S, t) = k - 1}
           listed(S) == [k \in 1 .. Cardinality(S) |->
                           Piece(s, splitter, CHOOSE t \in numbered(S, k) : TRUE)]
<1>1. /\ Pieces(s, splitter, ends) = listed(ends)
      /\ Pieces(s, splitter, more) = listed(more)
  BY DEF Pieces
<1>2. to \notin ends /\ n \in Nat /\ Cardinality(more) = n + 1
  BY FS_AddElement, FS_CardinalityType
<1>3. ASSUME NEW t \in ends
      PROVE  rank(more, t) = rank(ends, t) /\ rank(ends, t) \in 0 .. (n - 1)
  <2>1. ~ (to < t)
    OBVIOUS
  <2>2. before(more, t) = before(ends, t)
    BY <2>1
  <2>3. before(ends, t) \subseteq ends /\ t \notin before(ends, t)
    OBVIOUS
  <2> HIDE DEF before, more
  <2>4. rank(ends, t) \in Nat /\ rank(ends, t) <= n /\ rank(ends, t) # n
    <3>1. before(ends, t) # ends
      BY <2>3
    <3> QED BY <2>3, <3>1, FS_Subset, FS_CardinalityType
  <2> QED BY <1>2, <2>2, <2>4
<1>4. rank(more, to) = n
  <2>1. ASSUME NEW i \in more PROVE i < to <=> i \in ends
    <3>1. CASE i \in ends
      BY <3>1
    <3>2. CASE i = to
      BY <1>2, <3>2
    <3> QED BY <3>1, <3>2
  <2>2. before(more, to) = ends
    BY <2>1
  <2> HIDE DEF before, more
  <2> QED BY <2>2
<1> HIDE DEF rank, n
<1>5. ASSUME NEW k \in 1 .. n PROVE numbered(more, k) = numbered(ends, k)
  <2>1. to \notin numbered(more, k)
    BY <1>2, <1>4
  <2>2. ASSUME NEW t \in ends PROVE t \in numbered(more, k) <=> t \in numbered(ends, k)
    BY <1>3, <2>2
  <2>3. ASSUME NEW t \in numbered(more, k) PROVE t \in ends
    BY <2>1
  <2>4. ASSUME NEW t \in numbered(ends, k) PROVE t \in ends
    OBVIOUS
  <2> QED BY <2>2, <2>3, <2>4
<1>6. numbered(more, n + 1) = {to}
  <2>1. to \in numbered(more, n + 1)
    BY <1>2, <1>4
  <2>2. ASSUME NEW e \in numbered(more, n + 1) PROVE e \notin ends
    <3>1. rank(more, e) = n
      BY <1>2
    <3>2. ASSUME e \in ends PROVE rank(more, e) \in 0 .. (n - 1)
      BY <1>3, <3>2
    <3> QED BY <1>2, <3>1, <3>2
  <2> QED BY <2>1, <2>2
<1>7. (CHOOSE t \in numbered(more, n + 1) : TRUE) = to
  BY <1>6
<1> HIDE DEF numbered, more
<1>8. listed(more) = [k \in 1 .. (n + 1) |-> Piece(s, splitter, CHOOSE t \in numbered(more, k) : TRUE)]
  BY <1>2
<1>9. Append(listed(ends), Piece(s, splitter, to)) =
        [k \in 1 .. (n + 1) |-> IF k = n + 1 THEN Piece(s, splitter, to)
                                ELSE Piece(s, splitter, CHOOSE t \in numbered(ends, k) : TRUE)]
  <2> DEFINE P(k) == Piece(s, splitter, CHOOSE t \in numbered(ends, k) : TRUE)
             x == Piece(s, splitter, to)
             V == {P(k) : k \in 1 .. n} \cup {x}
             l == [k \in 1 .. n |-> P(k)]
  <2>1. listed(ends) = l
    BY DEF n
  <2>2. x \in V /\ \A k \in 1 .. n : P(k) \in V
    OBVIOUS
  <2> HIDE DEF P, x, V
  <2>3. l \in Seq(V) /\ Len(l) = n /\ \A k \in 1 .. n : l[k] = P(k)
    BY <1>2, <2>2
  <2> HIDE DEF l
  <2>4. Append(l, x) \in Seq(V) /\ Len(Append(l, x)) = n + 1 /\ Append(l, x)[n + 1] = x
        /\ \A k \in 1 .. n : Append(l, x)[k] = P(k)
    BY <1>2, <2>2, <2>3
  <2>5. Append(l, x) = [k \in 1 .. (n + 1) |-> IF k = n + 1 THEN x ELSE P(k)]
    <3> DEFINE f == [k \in 1 .. (n + 1) |-> IF k = n + 1 THEN x ELSE P(k)]
               g == Append(l, x)
    <3>1. g \in Seq(V) /\ Len(g) = n + 1 /\ g[n + 1] = x /\ \A k \in 1 .. n : g[k] = P(k)
      BY <2>4
    <3> HIDE DEF g
    <3>2. g = [k \in 1 .. (n + 1) |-> g[k]]
      BY <1>2, <3>1
    <3>3. ASSUME NEW k \in 1 .. (n + 1) PROVE g[k] = f[k]
      BY <1>2, <3>1
    <3>4. g = f
      BY <3>2, <3>3
    <3> QED BY <3>4 DEF g
  <2> QED BY <2>1, <2>5 DEF P, x
<1>10. ASSUME NEW k \in 1 .. (n + 1)
       PROVE  Piece(s, splitter, CHOOSE t \in numbered(more, k) : TRUE) =
                IF k = n + 1 THEN Piece(s, splitter, to)
                ELSE Piece(s, splitter, CHOOSE t \in numbered(ends, k) : TRUE)
  <2>1. CASE k = n + 1
    <3>1. Piece(s, splitter, CHOOSE t \in numbered(more, k) : TRUE) = Piece(s, splitter, to)
      BY <1>7, <2>1
    <3> QED BY <2>1, <3>1
  <2>2. CASE k # n + 1
    <3>1. k \in 1 .. n
      BY <1>2, <2>2
    <3>2. numbered(more, k) = numbered(ends, k)
      BY <1>5, <3>1
    <3> QED BY <2>2, <3>2
  <2> QED BY <2>1, <2>2
<1>11. listed(more) = Append(listed(ends), Piece(s, splitter, to))
  BY <1>8, <1>9, <1>10
<1> QED BY <1>1, <1>11 DEF more, n

\* Of the pieces that end at `ends`, those that are not culled.
Kept(s, splitter, ends, cull_empty) ==
  {to \in ends : cull_empty => Piece(s, splitter, to) # <<>>}

\* push_back adds the next piece, if it is kept.
LEMMA PushBackIs ==
  ASSUME NEW s, NEW splitter, NEW ends \in SUBSET Int, IsFiniteSet(ends),
         NEW to \in Int, \A i \in ends : i < to, NEW cull_empty \in BOOLEAN
  PROVE  push_back(Pieces(s, splitter, Kept(s, splitter, ends, cull_empty)),
                   Piece(s, splitter, to), cull_empty)
           = Pieces(s, splitter, Kept(s, splitter, ends \cup {to}, cull_empty))
<1> DEFINE kept == Kept(s, splitter, ends, cull_empty)
           piece == Piece(s, splitter, to)
<1>1. kept \subseteq ends /\ kept \in SUBSET Int /\ \A i \in kept : i < to
  BY DEF Kept
<1>2. IsFiniteSet(kept)
  BY <1>1, FS_Subset
<1>3. CASE cull_empty /\ piece = <<>>
  <2>1. Kept(s, splitter, ends \cup {to}, cull_empty) = kept
    BY <1>3 DEF Kept
  <2> QED BY <1>3, <2>1 DEF push_back
<1>4. CASE ~ (cull_empty /\ piece = <<>>)
  <2>1. Kept(s, splitter, ends \cup {to}, cull_empty) = kept \cup {to}
    BY <1>4 DEF Kept
  <2> HIDE DEF kept
  <2>2. Pieces(s, splitter, kept \cup {to}) = Append(Pieces(s, splitter, kept), piece)
    BY <1>1, <1>2, OnePieceMore
  <2> QED BY <1>4, <2>1, <2>2 DEF push_back, kept
<1> QED BY <1>3, <1>4

\* All code points are the string itself.
LEMMA AllCodePoints ==
  ASSUME NEW s \in Seq(char16_t), WellFormed(s)
  PROVE  CodePoints(s, 0, CodePointCount(s)) = s
<1>1. Len(s) \in Nat /\ CodePointCount(s) \in Nat
  BY CodePointNumbers
<1>2. /\ 0 \in 0 .. Len(s) /\ Len(s) \in 0 .. Len(s)
      /\ AtScanHead(s, 0 + 1) /\ AtScanHead(s, Len(s) + 1)
      /\ Cardinality(StartsUpTo(s, 0)) = 0
      /\ Cardinality(StartsUpTo(s, Len(s))) = CodePointCount(s)
  BY <1>1, HeadAtStart, HeadAtEnd, StartsFromZero
<1>3. SubSeq(s, 0 + 1, Len(s)) = CodePoints(s, 0, CodePointCount(s))
  BY <1>1, <1>2, CutBetween
<1>4. SubSeq(s, 0 + 1, Len(s)) = s
  BY <1>1
<1> QED BY <1>3, <1>4

\* A turn of the loop: rhs is what follows the first `from` code points, and
\* the cut before it, if there is one, is at the last of these. The turn finds
\* the next cut, or there is none.
LEMMA TurnIs ==
  ASSUME NEW s \in Seq(char16_t), WellFormed(s), Len(s) <= SIZE_MAX,
         NEW splitter \in Seq(char16_t), WellFormed(splitter),
         NEW from \in 0 .. CodePointCount(s), from # 0 => from - 1 \in Cuts(s, splitter),
         NEW ret \in split(CodePoints(s, from, CodePointCount(s)), splitter)
  PROVE  LET cuts == Cuts(s, splitter)
             size == CodePointCount(s)
         IN  /\ ret.found \in BOOLEAN
             /\ ~ ret.found => /\ \A c \in cuts : c < from
                              /\ ret.lhs = Piece(s, splitter, size)
                              /\ CodePoints(s, from, size) = Piece(s, splitter, size)
             /\ ret.found =>
                  \E m \in cuts :
                    /\ from <= m /\ \A c \in cuts : c < m <=> c < from
                    /\ ret.lhs = Piece(s, splitter, m)
                    /\ ret.rhs = CodePoints(s, m + 1, size)
<1> DEFINE cuts == Cuts(s, splitter)
           size == CodePointCount(s)
           t == CodePoints(s, from, size)
           rest == Cuts(t, splitter)
<1>1. /\ t \in Seq(char16_t) /\ WellFormed(t) /\ Len(t) <= Len(s) /\ CodePointCount(t) = size - from
      /\ \A a \in Nat, b \in Nat : a <= b => CodePoints(t, a, b) = CodePoints(s, from + a, from + b)
  BY TailOf
<1>0. ret \in split(t, splitter)
  OBVIOUS
<1> HIDE DEF t
<1>2. size \in Nat /\ from \in Nat /\ from <= size /\ Len(t) \in Nat /\ Len(s) \in Nat /\ SIZE_MAX \in Nat
  <2>1. size \in Nat
    BY CodePointNumbers
  <2>2. Len(t) \in Nat /\ Len(s) \in Nat
    <3>1. t \in Seq(char16_t)
      BY <1>1
    <3> QED BY <3>1
  <2> HIDE DEF size
  <2>3. from \in 0 .. size
    BY DEF size
  <2> QED BY <2>1, <2>2, <2>3, SizeMaxAssumption
<1>3. /\ cuts \in SUBSET (0 .. (size - 1)) /\ cuts \in SUBSET Nat
      /\ rest \in SUBSET (0 .. (size - from - 1)) /\ rest \in SUBSET Nat
  BY <1>1, CutsInside
<1>4. \A c \in Int : c \in rest <=> c >= 0 /\ from + c \in cuts
  BY CutsOfTail DEF t
<1>5. ret.found \in BOOLEAN
  BY <1>0, <1>1, SplitPart
<1>6. /\ ret.found <=> rest # {}
      /\ rest = {} => ret.lhs = CodePoints(t, 0, size - from)
      /\ \A m \in rest :
           (\A c \in rest : m <= c) =>
             /\ ret.lhs = CodePoints(t, 0, m)
             /\ ret.rhs = CodePoints(t, m + 1, size - from)
  <2>1. Len(t) <= SIZE_MAX
    BY <1>1, <1>2
  <2>2. CodePointCount(t) = size - from
    BY <1>1
  <2> HIDE DEF size
  <2>3. /\ ret.found <=> rest # {}
        /\ rest = {} => ret.lhs = CodePoints(t, 0, CodePointCount(t))
        /\ \A m \in rest :
             (\A c \in rest : m <= c) =>
               /\ ret.lhs = CodePoints(t, 0, m)
               /\ ret.rhs = CodePoints(t, m + 1, CodePointCount(t))
    <3>1. t \in Seq(char16_t) /\ WellFormed(t)
      BY <1>1
    <3> QED BY <1>0, <2>1, <3>1, SplitOnce
  <2> HIDE DEF rest
  <2> QED BY <2>2, <2>3
<1>7. ASSUME NEW to \in Int, from <= to, to <= size, \A c \in cuts : c < to => c < from
      PROVE  Piece(s, splitter, to) = CodePoints(s, from, to)
  <2>1. from # 0 => from - 1 \in cuts /\ from - 1 < to
    BY <1>2, <1>7
  <2>2. \A c \in cuts : c \in Nat
    BY <1>3
  <2> QED BY <1>2, <1>7, <2>1, <2>2, PieceIs
<1> HIDE DEF cuts, size, rest
<1>8. ASSUME rest = {}
      PROVE  /\ \A c \in cuts : c < from
             /\ ret.lhs = Piece(s, splitter, size)
             /\ t = Piece(s, splitter, size)
  <2>1. \A c \in cuts : c < from
    <3> SUFFICES ASSUME NEW c \in cuts, c >= from PROVE FALSE
      BY <1>2, <1>3
    <3>1. c - from \in Int /\ c - from >= 0 /\ from + (c - from) = c
      BY <1>2, <1>3
    <3> QED BY <1>4, <1>8, <3>1
  <2>2. Piece(s, splitter, size) = t
    BY <1>2, <1>7, <2>1 DEF t
  <2>3. CodePoints(t, 0, size - from) = t
    BY <1>1, AllCodePoints
  <2> QED BY <1>6, <1>8, <2>1, <2>2, <2>3
<1>9. ASSUME rest # {}
      PROVE  \E m \in cuts :
               /\ from <= m /\ \A c \in cuts : c < m <=> c < from
               /\ ret.lhs = Piece(s, splitter, m)
               /\ ret.rhs = CodePoints(s, m + 1, size)
  <2>1. PICK k \in rest : \A c \in rest : k <= c
    BY <1>3, <1>9, LeastExists
  <2> DEFINE m == from + k
  <2>2. k \in Nat /\ m \in Nat /\ m \in cuts /\ from <= m /\ m <= size - 1
    BY <1>2, <1>3, <1>4
  <2>3. ASSUME NEW c \in cuts PROVE c < m <=> c < from
    <3>1. c \in Nat
      BY <1>3
    <3>2. c >= from => c - from \in rest
      <4>1. c >= from => c - from \in Int /\ c - from >= 0 /\ from + (c - from) = c
        BY <1>2, <3>1
      <4> QED BY <1>4, <4>1
    <3> QED BY <1>2, <2>1, <2>2, <3>1, <3>2
  <2>4. ret.lhs = CodePoints(t, 0, k) /\ ret.rhs = CodePoints(t, k + 1, size - from)
    BY <1>6, <2>1
  <2>5. CodePoints(t, 0, k) = CodePoints(s, from, m)
    <3>1. CodePoints(t, 0, k) = CodePoints(s, from + 0, from + k)
      BY <1>1, <2>2
    <3> QED BY <1>2, <3>1
  <2>6. CodePoints(t, k + 1, size - from) = CodePoints(s, m + 1, size)
    <3>1. k + 1 \in Nat /\ size - from \in Nat /\ k + 1 <= size - from
      BY <1>2, <2>2
    <3>2. CodePoints(t, k + 1, size - from) = CodePoints(s, from + (k + 1), from + (size - from))
      BY <1>1, <3>1
    <3>3. from + (k + 1) = m + 1 /\ from + (size - from) = size
      BY <1>2, <2>2
    <3> QED BY <3>2, <3>3
  <2>7. Piece(s, splitter, m) = CodePoints(s, from, m)
    <3>1. m \in Int /\ m <= size
      BY <1>2, <2>2
    <3> QED BY <1>7, <2>2, <2>3, <3>1
  <2> QED BY <2>2, <2>3, <2>4, <2>5, <2>6, <2>7
<1> QED BY <1>5, <1>6, <1>8, <1>9 DEF cuts, size, t

\* What is known of a split into a vector at each turn: rhs is what follows the
\* last cut made, and str has the pieces that end at the cuts before.
SplitInv ==
  call.method = "splitting" /\ WellFormed(view) /\ WellFormed(call.pattern) =>
    LET size == CodePointCount(view)
        cuts == Cuts(view, call.pattern)
    IN  \E from \in 0 .. size :
          /\ from # 0 => from - 1 \in cuts
          /\ call.rhs = CodePoints(view, from, size)
          /\ call.split_times = Cardinality({c \in cuts : c < from})
          /\ call.str = Pieces(view, call.pattern,
                             Kept(view, call.pattern, {c \in cuts : c < from}, call.cull_empty))

\* The first piece of a split is the one that ends at the first cut.
LEMMA SplitsOnce ==
  ASSUME CallInv, Split, view' = view PROVE SplitExact'
<1> SUFFICES ASSUME WellFormed(view), WellFormed(call'.pattern)
             PROVE  SplitExact'
  BY DEF SplitExact
<1>1. PICK pattern \in Patterns : \E ret \in split(view, pattern) :
        call' = [method |-> "split", pattern |-> pattern, ret |-> ret]
  BY DEF Split
<1>2. PICK ret \in split(view, pattern) :
        call' = [method |-> "split", pattern |-> pattern, ret |-> ret]
  BY <1>1
<1> DEFINE size == CodePointCount(view)
           cuts == Cuts(view, pattern)
           ends == cuts \cup {size}
<1>3. /\ view \in Seq(char16_t) /\ Len(view) <= SIZE_MAX /\ pattern \in Seq(char16_t)
      /\ WellFormed(pattern)
  BY <1>2, ViewsAssumption DEF CallInv
<1>4. size \in Nat /\ cuts \in SUBSET (0 .. (size - 1)) /\ cuts \in SUBSET Nat
  BY <1>3, CodePointNumbers, CutsInside
<1>5. /\ ret.found \in BOOLEAN
      /\ ret.found <=> cuts # {}
      /\ cuts = {} => ret.lhs = CodePoints(view, 0, size)
      /\ \A m \in cuts :
           (\A c \in cuts : m <= c) =>
             /\ ret.lhs = CodePoints(view, 0, m)
             /\ ret.rhs = CodePoints(view, m + 1, size)
  BY <1>3, SplitOnce, SplitPart
<1> HIDE DEF size, cuts
<1>6. PICK to \in ends : \A c \in ends : to <= c
  <2>1. ends \in SUBSET Nat /\ ends # {}
    BY <1>4
  <2> HIDE DEF ends
  <2> QED BY <2>1, LeastExists
<1>7. to \in Nat /\ Min(ends) = to /\ \A c \in cuts : to <= c
  <2>1. ends \in SUBSET Int /\ to \in Nat
    BY <1>4
  <2>2. \A c \in cuts : to <= c
    BY <1>6
  <2> HIDE DEF ends
  <2> QED BY <1>6, <2>1, <2>2, MinIs
<1>8. Piece(view, pattern, to) = CodePoints(view, 0, to)
  <2>1. \A c \in cuts : c \in Nat /\ (c < to => c < 0)
    BY <1>4, <1>7
  <2> QED BY <1>7, <2>1, PieceIs DEF cuts
<1>9. ret.lhs = CodePoints(view, 0, to)
  <2>1. CASE cuts = {}
    BY <1>5, <2>1
  <2>2. CASE cuts # {}
    <3>1. to \in cuts
      <4>1. PICK c \in cuts : TRUE
        BY <2>2
      <4>2. to <= c /\ c < size /\ c \in Nat
        BY <1>4, <1>7, <4>1
      <4> QED BY <1>4, <1>7, <4>2
    <3> QED BY <1>5, <1>7, <3>1
  <2> QED BY <2>1, <2>2
<1>10. cuts # {} => ret.rhs = CodePoints(view, Min(cuts) + 1, size)
  <2> SUFFICES ASSUME cuts # {} PROVE ret.rhs = CodePoints(view, Min(cuts) + 1, size)
    OBVIOUS
  <2>1. PICK m \in cuts : \A c \in cuts : m <= c
    BY <1>4, LeastExists
  <2>2. Min(cuts) = m
    <3>1. cuts \in SUBSET Int
      BY <1>4
    <3> QED BY <2>1, <3>1, MinIs
  <2> QED BY <1>5, <2>1, <2>2
<1>11. /\ call'.method = "split" /\ call'.pattern = pattern /\ call'.ret = ret
  BY <1>2
<1>12. /\ ret.found <=> cuts # {}
       /\ ret.lhs = Piece(view, pattern, Min(ends))
  BY <1>5, <1>7, <1>8, <1>9
<1> QED BY <1>10, <1>11, <1>12 DEF SplitExact, size, cuts

\* The loop begins with the whole view and no piece.
LEMMA SplittingStarts ==
  ASSUME CallInv, SplitAll, view' = view PROVE SplitInv'
<1> SUFFICES ASSUME WellFormed(view), WellFormed(call'.pattern)
             PROVE  SplitInv'
  BY DEF SplitInv
<1>1. PICK pattern \in Patterns, cull_empty \in BOOLEAN :
        call' = [method |-> "splitting", pattern |-> pattern, cull_empty |-> cull_empty,
                 str |-> <<>>, rhs |-> view, split_times |-> 0]
  BY DEF SplitAll
<1> DEFINE size == CodePointCount(view)
           cuts == Cuts(view, pattern)
<1>2. /\ view \in Seq(char16_t) /\ pattern \in Seq(char16_t) /\ WellFormed(pattern)
  BY <1>1, ViewsAssumption DEF CallInv
<1>3. size \in Nat /\ cuts \in SUBSET Nat
  BY <1>2, CodePointNumbers, CutsInside
<1>4. CodePoints(view, 0, size) = view
  BY <1>2, AllCodePoints
<1>5. {c \in cuts : c < 0} = {}
  BY <1>3
<1>6. Kept(view, pattern, {}, cull_empty) = {} /\ Cardinality({}) = 0
  BY FS_EmptySet DEF Kept
<1>7. Pieces(view, pattern, {}) = <<>>
  BY NoPieces
<1>8. /\ call'.method = "splitting" /\ call'.pattern = pattern /\ call'.cull_empty = cull_empty
      /\ call'.str = <<>> /\ call'.rhs = view /\ call'.split_times = 0
  BY <1>1
<1> HIDE DEF size, cuts
<1>9. \E from \in 0 .. size :
          /\ from # 0 => from - 1 \in cuts
          /\ call'.rhs = CodePoints(view, from, size)
          /\ call'.split_times = Cardinality({c \in cuts : c < from})
          /\ call'.str = Pieces(view, pattern,
                              Kept(view, pattern, {c \in cuts : c < from}, cull_empty))
  <2>1. 0 \in 0 .. size
    BY <1>3
  <2> QED BY <1>4, <1>5, <1>6, <1>7, <1>8, <2>1
<1> QED BY <1>8, <1>9 DEF SplitInv, size, cuts

\* A turn of the loop that finds a cut, or finds none and returns.
LEMMA SplittingGoesOn ==
  ASSUME CallInv, SplitInv, SplitTurn \/ SplitReturn, view' = view
  PROVE  SplitInv' /\ SplitExact'
<1>1. call \in [method : {"splitting"}, pattern : Patterns, cull_empty : BOOLEAN,
                str : Seq(Seq(char16_t)), rhs : Seq(char16_t), split_times : size_t]
  BY DEF CallInv, SplitTurn, SplitReturn
<1> DEFINE pattern == call.pattern
           size == CodePointCount(view)
           cuts == Cuts(view, pattern)
<1>2. call'.pattern = pattern /\ call'.cull_empty = call.cull_empty /\ call.cull_empty \in BOOLEAN
      /\ call'.method = IF SplitTurn THEN "splitting" ELSE "split_all"
  BY <1>1 DEF SplitTurn, SplitReturn
<1> SUFFICES ASSUME WellFormed(view), WellFormed(pattern)
             PROVE  SplitInv' /\ SplitExact'
  BY <1>2 DEF SplitInv, SplitExact
<1>3. /\ view \in Seq(char16_t) /\ Len(view) <= SIZE_MAX /\ pattern \in Seq(char16_t)
  BY <1>1, ViewsAssumption DEF CallInv
<1>4. /\ size \in Nat /\ size <= Len(view) /\ Len(view) \in Nat
      /\ cuts \in SUBSET (0 .. (size - 1)) /\ cuts \in SUBSET Nat /\ IsFiniteSet(cuts)
  BY <1>3, CodePointNumbers, CutsInside
<1>5. PICK from \in 0 .. size :
          /\ from # 0 => from - 1 \in cuts
          /\ call.rhs = CodePoints(view, from, size)
          /\ call.split_times = Cardinality({c \in cuts : c < from})
          /\ call.str = Pieces(view, pattern,
                             Kept(view, pattern, {c \in cuts : c < from}, call.cull_empty))
  BY <1>1 DEF SplitInv
<1> DEFINE done == {c \in cuts : c < from}
<1>6. done \in SUBSET Int /\ done \subseteq cuts /\ IsFiniteSet(done) /\ from \in Nat
  BY <1>4, FS_Subset
<1> HIDE DEF pattern, size, cuts
<1>7. CASE SplitTurn
  <2>1. PICK ret \in split(call.rhs, pattern) :
          /\ ret.found
          /\ call' = [call EXCEPT !.str = push_back(@, ret.lhs, call.cull_empty),
                                  !.rhs = ret.rhs, !.split_times = Wrap(@ + 1)]
    BY <1>7 DEF SplitTurn, pattern
  <2>2. PICK m \in cuts :
          /\ from <= m /\ \A c \in cuts : c < m <=> c < from
          /\ ret.lhs = Piece(view, pattern, m)
          /\ ret.rhs = CodePoints(view, m + 1, size)
    <3>1. ret \in split(CodePoints(view, from, size), pattern)
      BY <1>5, <2>1
    <3> QED BY <1>3, <1>5, <2>1, <3>1, TurnIs DEF size, cuts
  <2>3. m \in Nat /\ m + 1 \in 0 .. size /\ m + 1 # 0 /\ m + 1 - 1 = m
    BY <1>4
  <2>4. {c \in cuts : c < m + 1} = done \cup {m}
    <3>1. ASSUME NEW c \in cuts PROVE c < m + 1 <=> c \in done \/ c = m
      <4>1. c \in Nat /\ (c < m <=> c < from)
        BY <1>4, <2>2
      <4>2. c < m + 1 <=> c < m \/ c = m
        BY <2>3, <4>1
      <4> QED BY <4>1, <4>2
    <3> QED BY <3>1
  <2>5. m \notin done /\ \A i \in done : i < m
    BY <1>6, <2>2, <2>3
  <2>6. Cardinality(done \cup {m}) = Cardinality(done) + 1 /\ Cardinality(done) \in Nat
    BY <1>6, <2>5, FS_AddElement, FS_CardinalityType
  <2>7. Wrap(Cardinality(done) + 1) = Cardinality(done \cup {m})
    <3>1. Cardinality(cuts) <= size
      <4>1. IsFiniteSet(0 .. (size - 1)) /\ Cardinality(0 .. (size - 1)) = size
        <5>1. 0 \in Int /\ size - 1 \in Int /\ size - 1 - 0 + 1 = size /\ (0 > size - 1 => size = 0)
          BY <1>4
        <5> QED BY <5>1, FS_Interval
      <4> QED BY <1>4, <4>1, FS_Subset
    <3>2. done \cup {m} \subseteq cuts
      BY <1>6
    <3>3. Cardinality(done \cup {m}) <= Cardinality(cuts) /\ Cardinality(cuts) \in Nat
      BY <1>4, <3>2, FS_Subset, FS_CardinalityType
    <3>4. Cardinality(done) + 1 \in size_t
      <4> DEFINE n == Cardinality(done)
                 k == Cardinality(cuts)
      <4>1. n \in Nat /\ k \in Nat /\ n + 1 <= k /\ k <= size
        BY <2>6, <3>1, <3>3
      <4> HIDE DEF n, k
      <4>2. n + 1 \in size_t
        BY <1>3, <1>4, <4>1, SizeMaxAssumption DEF size_t
      <4> QED BY <4>2 DEF n
    <3> QED BY <2>6, <3>4, WrapFits
  <2>8. push_back(call.str, ret.lhs, call.cull_empty) =
          Pieces(view, pattern, Kept(view, pattern, done \cup {m}, call.cull_empty))
    <3>1. m \in Int
      BY <2>3
    <3> HIDE DEF done
    <3>2. push_back(Pieces(view, pattern, Kept(view, pattern, done, call.cull_empty)),
                    Piece(view, pattern, m), call.cull_empty)
            = Pieces(view, pattern, Kept(view, pattern, done \cup {m}, call.cull_empty))
      BY <1>2, <1>6, <2>5, <3>1, PushBackIs
    <3> QED BY <1>5, <2>2, <3>2 DEF done
  <2>9. /\ call'.rhs = CodePoints(view, m + 1, size)
        /\ call'.split_times = Cardinality(done \cup {m})
        /\ call'.str = Pieces(view, pattern, Kept(view, pattern, done \cup {m}, call.cull_empty))
    <3>1. call'.rhs = ret.rhs /\ call'.split_times = Wrap(call.split_times + 1)
          /\ call'.str = push_back(call.str, ret.lhs, call.cull_empty)
      BY <1>1, <2>1
    <3> QED BY <1>5, <2>2, <2>7, <2>8, <3>1
  <2> DEFINE next == m + 1
  <2>10. /\ next \in 0 .. size /\ next - 1 \in cuts
         /\ call'.rhs = CodePoints(view, next, size)
         /\ call'.split_times = Cardinality({c \in cuts : c < next})
         /\ call'.str = Pieces(view, pattern,
                             Kept(view, pattern, {c \in cuts : c < next}, call.cull_empty))
    <3> HIDE DEF done
    <3>1. next \in 0 .. size /\ next - 1 = m
      BY <2>3
    <3>2. {c \in cuts : c < next} = done \cup {m}
      BY <2>4
    <3> QED BY <2>9, <3>1, <3>2
  <2> HIDE DEF next, done
  <2>11. SplitInv'
    BY <1>2, <2>10 DEF SplitInv, size, cuts
  <2>12. call'.method = "splitting"
    BY <1>2, <1>7
  <2> QED BY <2>11, <2>12 DEF SplitExact
<1>8. CASE SplitReturn /\ ~ SplitTurn
  <2>1. PICK ret \in split(call.rhs, pattern) : ~ ret.found
    BY <1>8 DEF SplitReturn, pattern
  <2>2. /\ call'.method = "split_all" /\ call'.split_times = call.split_times
        /\ call'.str = push_back(call.str, call.rhs, call.cull_empty)
    BY <1>1, <1>8 DEF SplitReturn
  <2>3. /\ \A c \in cuts : c < from
        /\ CodePoints(view, from, size) = Piece(view, pattern, size)
    <3>1. ret \in split(CodePoints(view, from, size), pattern)
      BY <1>5, <2>1
    <3> QED BY <1>3, <1>5, <2>1, <3>1, TurnIs DEF size, cuts
  <2>4. done = cuts
    BY <2>3
  <2>5. push_back(call.str, call.rhs, call.cull_empty) =
          Pieces(view, pattern, Kept(view, pattern, cuts \cup {size}, call.cull_empty))
    <3>1. size \in Int /\ cuts \in SUBSET Int /\ \A c \in cuts : c < size
      BY <1>4
    <3>2. push_back(Pieces(view, pattern, Kept(view, pattern, cuts, call.cull_empty)),
                    Piece(view, pattern, size), call.cull_empty)
            = Pieces(view, pattern, Kept(view, pattern, cuts \cup {size}, call.cull_empty))
      BY <1>2, <1>4, <3>1, PushBackIs
    <3> QED BY <1>5, <2>3, <2>4, <3>2
  <2>6. call'.split_times = Cardinality(cuts)
    BY <1>5, <2>2, <2>4
  <2>7. Kept(view, pattern, cuts \cup {size}, call.cull_empty) =
          IF call.cull_empty
          THEN {to \in cuts \cup {size} : Piece(view, pattern, to) # <<>>} ELSE cuts \cup {size}
    BY <1>2 DEF Kept
  <2>8. call'.str = Pieces(view, pattern,
          IF call.cull_empty
          THEN {to \in cuts \cup {size} : Piece(view, pattern, to) # <<>>} ELSE cuts \cup {size})
    BY <2>2, <2>5, <2>7
  <2> HIDE DEF done
  <2>9. SplitExact'
    BY <1>2, <2>2, <2>6, <2>8 DEF SplitExact, size, cuts
  <2> QED BY <2>2, <2>9 DEF SplitInv
<1> QED BY <1>7, <1>8

\* A view split by another, or into a vector, is cut at every place at which the
\* splitter occurs, and loses one code point there (osv.cpp:82-110).
THEOREM SplitsEverywhere == Spec => []SplitExact
<1>1. Init => SplitInv /\ SplitExact
  BY DEF Init, SplitInv, SplitExact
<1>2. CallInv /\ SplitInv /\ SplitExact /\ [Next]_vars => SplitInv' /\ SplitExact'
  <2> SUFFICES ASSUME CallInv, SplitInv, SplitExact, [Next]_vars
               PROVE  SplitInv' /\ SplitExact'
    OBVIOUS
  <2>1. CASE UNCHANGED vars
    BY <2>1 DEF vars, SplitInv, SplitExact
  <2>2. CASE Next /\ (SplitTurn \/ SplitReturn)
    BY <2>2, SplittingGoesOn DEF Next
  <2>3. CASE Next /\ Split
    <3>1. call'.method = "split"
      BY <2>3 DEF Split
    <3> QED BY <2>3, <3>1, SplitsOnce DEF SplitInv, Next
  <2>4. CASE Next /\ SplitAll
    <3>1. call'.method = "splitting"
      BY <2>4 DEF SplitAll
    <3> QED BY <2>4, <3>1, SplittingStarts DEF SplitExact, Next
  <2>5. CASE /\ Next
             /\ \/ Substring \/ Left \/ Right \/ RemovePrefix \/ RemoveSuffix
                \/ IndexOf \/ LastIndexOf \/ StartWith \/ EndWith \/ Compare
    <3>1. call'.method \in {"substring", "left", "right", "remove_prefix", "remove_suffix",
                            "index_of", "last_index_of", "start_with", "end_with", "compare"}
      BY <2>5 DEF Substring, Left, Right, RemovePrefix, RemoveSuffix, IndexOf, LastIndexOf,
                  StartWith, EndWith, Compare
    <3> QED BY <3>1 DEF SplitInv, SplitExact
  <2> QED BY <2>1, <2>2, <2>3, <2>4, <2>5 DEF Next
<1> QED BY <1>1, <1>2, CallInvHolds, PTL DEF Spec

-----------------------------------------------------------------------------
(* compare.                                                                *)

\* The lexicographic order: the first place where two sequences differ decides.
LessAt(a, b, k) ==
  /\ k <= Len(a) /\ k < Len(b)
  /\ \A j \in 1 .. k : a[j] = b[j]
  /\ k < Len(a) => a[k + 1] < b[k + 1]

LEMMA LexLessIs ==
  ASSUME NEW a \in Seq(Int), NEW b \in Seq(Int)
  PROVE  LexLess(a, b) <=> \E k \in Nat : LessAt(a, b, k)
<1>1. Len(a) \in Nat /\ Len(b) \in Nat
  OBVIOUS
<1>2. ASSUME NEW k \in Nat, k <= Len(a), k <= Len(b)
      PROVE  SubSeq(a, 1, k) = SubSeq(b, 1, k) <=> \A j \in 1 .. k : a[j] = b[j]
  <2>1. /\ SubSeq(a, 1, k) \in Seq(Int) /\ Len(SubSeq(a, 1, k)) = k
        /\ \A j \in 1 .. k : SubSeq(a, 1, k)[j] = a[j]
    BY <1>1, <1>2
  <2>2. /\ SubSeq(b, 1, k) \in Seq(Int) /\ Len(SubSeq(b, 1, k)) = k
        /\ \A j \in 1 .. k : SubSeq(b, 1, k)[j] = b[j]
    BY <1>1, <1>2
  <2> DEFINE u == SubSeq(a, 1, k)
             v == SubSeq(b, 1, k)
  <2>3. /\ u \in Seq(Int) /\ Len(u) = k /\ v \in Seq(Int) /\ Len(v) = k
        /\ \A j \in 1 .. k : u[j] = a[j] /\ v[j] = b[j]
    BY <2>1, <2>2
  <2> HIDE DEF u, v
  <2>4. u = v => \A j \in 1 .. k : a[j] = b[j]
    BY <2>3
  <2>5. ASSUME \A j \in 1 .. k : a[j] = b[j] PROVE u = v
    <3>1. \A j \in 1 .. k : u[j] = v[j]
      BY <2>3, <2>5
    <3> QED BY <2>3, <3>1, SeqEqual
  <2> QED BY <2>4, <2>5 DEF u, v
<1>3. ASSUME NEW k \in 0 .. Len(a), k <= Len(b), SubSeq(a, 1, k) = SubSeq(b, 1, k),
             k < Len(b), k < Len(a) => a[k + 1] < b[k + 1]
      PROVE  k \in Nat /\ LessAt(a, b, k)
  <2>1. k \in Nat /\ k <= Len(a)
    BY <1>1
  <2> QED BY <1>2, <1>3, <2>1 DEF LessAt
<1>4. ASSUME NEW k \in Nat, LessAt(a, b, k)
      PROVE  /\ k \in 0 .. Len(a) /\ k <= Len(b) /\ SubSeq(a, 1, k) = SubSeq(b, 1, k)
             /\ k < Len(b)
             /\ k < Len(a) => a[k + 1] < b[k + 1]
  <2>1. k <= Len(a) /\ k < Len(b) /\ k <= Len(b) /\ k \in 0 .. Len(a)
    BY <1>1, <1>4 DEF LessAt
  <2> QED BY <1>2, <1>4, <2>1 DEF LessAt
<1> QED BY <1>3, <1>4 DEF LexLess

\* Of two different sequences exactly one is the lesser.
LEMMA LexLessOneWay ==
  ASSUME NEW a \in Seq(Int), NEW b \in Seq(Int), LexLess(a, b)
  PROVE  ~ LexLess(b, a) /\ a # b
<1>1. Len(a) \in Nat /\ Len(b) \in Nat /\ \A j \in 1 .. Len(a) : a[j] \in Int
  OBVIOUS
<1>2. \A j \in 1 .. Len(b) : b[j] \in Int
  OBVIOUS
<1>3. PICK k \in Nat : LessAt(a, b, k)
  BY LexLessIs
<1>4. ASSUME NEW m \in Nat, LessAt(b, a, m) PROVE FALSE
  <2>1. k < m => a[k + 1] = b[k + 1] /\ k < Len(a)
    BY <1>1, <1>4 DEF LessAt
  <2>2. m < k => b[m + 1] = a[m + 1] /\ m < Len(b)
    BY <1>1, <1>3 DEF LessAt
  <2>3. k < m => FALSE
    BY <1>1, <1>2, <1>3, <2>1 DEF LessAt
  <2>4. m < k => FALSE
    BY <1>1, <1>2, <1>4, <2>2 DEF LessAt
  <2>5. k = m => FALSE
    BY <1>1, <1>2, <1>3, <1>4 DEF LessAt
  <2> QED BY <2>3, <2>4, <2>5
<1>5. ~ LexLess(b, a)
  BY <1>4, LexLessIs
<1> QED BY <1>5

LEMMA LexLessTotal ==
  ASSUME NEW a \in Seq(Int), NEW b \in Seq(Int), a # b
  PROVE  LexLess(a, b) \/ LexLess(b, a)
<1>1. Len(a) \in Nat /\ Len(b) \in Nat /\ \A j \in 1 .. Len(a) : a[j] \in Int
  OBVIOUS
<1>2. \A j \in 1 .. Len(b) : b[j] \in Int
  OBVIOUS
<1> DEFINE S == {k \in Nat : k < Len(a) /\ k < Len(b) /\ a[k + 1] # b[k + 1]}
<1>3. CASE S = {}
  <2>1. ASSUME NEW j \in Nat \ {0}, j <= Len(a), j <= Len(b) PROVE a[j] = b[j]
    <3>1. j - 1 \in Nat /\ j - 1 + 1 = j /\ j - 1 < Len(a) /\ j - 1 < Len(b)
      BY <1>1, <2>1
    <3>2. j - 1 \notin S
      BY <1>3
    <3> QED BY <3>1, <3>2
  <2>2. CASE Len(a) < Len(b)
    <3>1. LessAt(a, b, Len(a))
      BY <1>1, <2>1, <2>2 DEF LessAt
    <3> QED BY <1>1, <3>1, LexLessIs
  <2>3. CASE Len(b) < Len(a)
    <3>1. LessAt(b, a, Len(b))
      BY <1>1, <2>1, <2>3 DEF LessAt
    <3> QED BY <1>1, <3>1, LexLessIs
  <2>4. CASE Len(a) = Len(b)
    <3>1. \A j \in 1 .. Len(a) : a[j] = b[j]
      BY <1>1, <2>1, <2>4
    <3>2. a = b
      BY <2>4, <3>1
    <3> QED BY <3>2
  <2> QED BY <1>1, <2>2, <2>3, <2>4
<1>4. CASE S # {}
  <2>1. S \in SUBSET Nat
    OBVIOUS
  <2>2. PICK k \in S : \A x \in S : k <= x
    <3> HIDE DEF S
    <3> QED BY <1>4, <2>1, LeastExists
  <2>3. \A j \in 1 .. k : a[j] = b[j]
    <3> SUFFICES ASSUME NEW j \in 1 .. k, a[j] # b[j] PROVE FALSE
      OBVIOUS
    <3>1. j - 1 \in Nat /\ j - 1 + 1 = j /\ j - 1 < Len(a) /\ j - 1 < Len(b) /\ j - 1 < k
      BY <1>1, <2>2
    <3>2. j - 1 \in S
      BY <3>1
    <3> QED BY <2>2, <3>1, <3>2
  <2>4. a[k + 1] < b[k + 1] \/ b[k + 1] < a[k + 1]
    <3>1. k + 1 \in 1 .. Len(a) /\ k + 1 \in 1 .. Len(b) /\ a[k + 1] # b[k + 1]
      BY <1>1, <2>2
    <3> QED BY <1>1, <1>2, <3>1
  <2>5. k \in Nat /\ (LessAt(a, b, k) \/ LessAt(b, a, k))
    BY <1>1, <2>2, <2>3, <2>4 DEF LessAt
  <2> QED BY <2>5, LexLessIs
<1> QED BY <1>3, <1>4

\* The code point that begins at offset p.
ValueAt(s, p) ==
  IF PairAt(s, p + 1)
  THEN (s[p + 1] - LEAD_SURROGATE_MIN) * 1024 + (s[p + 2] - TRAIL_SURROGATE_MIN) + 65536
  ELSE s[p + 1]

LEMMA ValueOfHead ==
  ASSUME NEW s \in Seq(char16_t), WellFormed(s), NEW p \in Nat, p < Len(s), AtScanHead(s, p + 1)
  PROVE  LET i == Cardinality(StartsUpTo(s, p)) + 1
         IN  i \in 1 .. CodePointCount(s) /\ CodePointValues(s)[i] = ValueAt(s, p)
<1> DEFINE i == Cardinality(StartsUpTo(s, p)) + 1
           c == CodePoints(s, i - 1, i)
<1>1. PICK q \in {p + 1, p + 2} :
        /\ q \in 0 .. Len(s) /\ AtScanHead(s, q + 1)
        /\ Cardinality(StartsUpTo(s, q)) = Cardinality(StartsUpTo(s, p)) + 1
        /\ q = IF PairAt(s, p + 1) THEN p + 2 ELSE p + 1
  BY NextHead
<1>2. Cardinality(StartsUpTo(s, p)) \in Nat /\ p \in 0 .. Len(s) /\ q \in p .. Len(s)
      /\ q \in Nat /\ Len(s) \in Nat
  <2>1. Cardinality(StartsUpTo(s, p)) \in Nat
    BY StartsFinite
  <2> QED BY <1>1, <2>1
<1>3. i \in Nat /\ i - 1 \in Nat /\ Cardinality(StartsUpTo(s, p)) = i - 1
      /\ Cardinality(StartsUpTo(s, q)) = i
  BY <1>1, <1>2
<1>4. i <= CodePointCount(s) /\ CodePointCount(s) \in Nat
  <2>1. Cardinality(StartsUpTo(s, q)) <= Cardinality(StartsUpTo(s, Len(s)))
    BY <1>2, StartsGrow
  <2> HIDE DEF i
  <2> QED BY <1>3, <2>1, StartsFromZero, CodePointNumbers
<1>5. i \in 1 .. CodePointCount(s)
  BY <1>2, <1>4
<1> HIDE DEF i
<1>6. c = SubSeq(s, p + 1, q)
  BY <1>1, <1>2, <1>3, CutBetween
<1>7. CodePointValues(s)[i] =
        IF Len(c) = 1 THEN c[1]
        ELSE (c[1] - LEAD_SURROGATE_MIN) * 1024 + (c[2] - TRAIL_SURROGATE_MIN) + 65536
  BY <1>5 DEF CodePointValues
<1>8. CASE PairAt(s, p + 1)
  <2>1. q = p + 2 /\ q <= Len(s)
    BY <1>1, <1>2, <1>8
  <2>2. Len(c) = 2 /\ c[1] = s[p + 1] /\ c[2] = s[p + 2]
    BY <1>2, <1>6, <2>1
  <2> HIDE DEF c
  <2> QED BY <1>5, <1>7, <1>8, <2>2 DEF ValueAt, i
<1>9. CASE ~ PairAt(s, p + 1)
  <2>1. q = p + 1 /\ q <= Len(s)
    BY <1>1, <1>2, <1>9
  <2>2. Len(c) = 1 /\ c[1] = s[p + 1]
    BY <1>2, <1>6, <2>1
  <2> HIDE DEF c
  <2> QED BY <1>5, <1>7, <1>9, <2>2 DEF ValueAt, i
<1> QED BY <1>8, <1>9

\* Every number of a code point is that of a place where one begins.
LEMMA HeadOfNumber ==
  ASSUME NEW s \in Seq(char16_t), WellFormed(s), NEW i \in 1 .. CodePointCount(s)
  PROVE  \E p \in Nat : /\ p < Len(s) /\ AtScanHead(s, p + 1)
                        /\ Cardinality(StartsUpTo(s, p)) + 1 = i
<1>1. CodePointCount(s) \in Nat /\ Len(s) \in Nat
  BY CodePointNumbers
<1> DEFINE n == i - 1
<1>2. n \in 0 .. CodePointCount(s) /\ n < CodePointCount(s) /\ n + 1 = i
  BY <1>1
<1> HIDE DEF n
<1>3. PICK p \in 0 .. Len(s) : AtScanHead(s, p + 1) /\ Cardinality(StartsUpTo(s, p)) = n
  BY <1>2, StartsReach
<1>4. p # Len(s)
  BY <1>1, <1>2, <1>3, StartsFromZero
<1> QED BY <1>1, <1>2, <1>3, <1>4

LEMMA ValueType ==
  ASSUME NEW s \in Seq(char16_t), NEW p \in Nat, p < Len(s)
  PROVE  s[p + 1] \in char16_t /\ ValueAt(s, p) \in Int
<1>1. \A k \in 1 .. Len(s) : s[k] \in char16_t
  OBVIOUS
<1>2. char16_t \subseteq Int /\ LEAD_SURROGATE_MIN \in Int /\ TRAIL_SURROGATE_MIN \in Int
  BY UnitNumbers DEF LEAD_SURROGATE_MIN, TRAIL_SURROGATE_MIN
<1>3. p + 1 \in 1 .. Len(s)
  OBVIOUS
<1>4. PairAt(s, p + 1) => s[p + 2] \in Int
  <2> SUFFICES ASSUME PairAt(s, p + 1) PROVE s[p + 2] \in Int
    OBVIOUS
  <2>1. p + 2 \in 1 .. Len(s)
    BY DEF PairAt
  <2> QED BY <1>1, <1>2, <2>1
<1>5. s[p + 1] \in char16_t /\ s[p + 1] \in Int
  BY <1>1, <1>2, <1>3
<1> QED BY <1>2, <1>4, <1>5 DEF ValueAt

LEMMA ValuesType ==
  ASSUME NEW s \in Seq(char16_t), WellFormed(s)
  PROVE  CodePointValues(s) \in Seq(Int) /\ Len(CodePointValues(s)) = CodePointCount(s)
<1> DEFINE n == CodePointCount(s)
           V == CodePointValues(s)
<1>1. n \in Nat
  BY CodePointNumbers
<1>2. \A i \in 1 .. n : V[i] \in Int
  <2> SUFFICES ASSUME NEW i \in 1 .. n PROVE V[i] \in Int
    OBVIOUS
  <2>1. PICK p \in Nat : /\ p < Len(s) /\ AtScanHead(s, p + 1)
                         /\ Cardinality(StartsUpTo(s, p)) + 1 = i
    BY HeadOfNumber
  <2>2. V[i] = ValueAt(s, p)
    BY <2>1, ValueOfHead
  <2> QED BY <2>1, <2>2, ValueType
<1>3. V = [i \in 1 .. n |-> V[i]]
  BY DEF CodePointValues
<1> HIDE DEF n, V
<1>4. V \in Seq(Int) /\ Len(V) = n
  BY <1>1, <1>2, <1>3
<1> QED BY <1>4 DEF n, V

\* Where two strings agree up to a place where a code point begins in both,
\* they agree in their code points.
LEMMA SameValues ==
  ASSUME NEW s \in Seq(char16_t), WellFormed(s), NEW t \in Seq(char16_t), WellFormed(t),
         NEW p \in Nat, p <= Len(s), p <= Len(t), \A j \in 1 .. p : s[j] = t[j],
         AtScanHead(s, p + 1), AtScanHead(t, p + 1)
  PROVE  /\ Cardinality(StartsUpTo(s, p)) = Cardinality(StartsUpTo(t, p))
         /\ \A i \in 1 .. Cardinality(StartsUpTo(s, p)) :
              CodePointValues(s)[i] = CodePointValues(t)[i]
<1>1. Len(s) \in Nat /\ Len(t) \in Nat
  OBVIOUS
<1>2. ASSUME NEW j \in Nat, j < p PROVE PairAt(s, j) <=> PairAt(t, j)
  <2>1. CASE j \in 1 .. (p - 1)
    <3>1. j \in 1 .. (Len(s) - 1) /\ j \in 1 .. (Len(t) - 1) /\ s[j] = t[j] /\ s[j + 1] = t[j + 1]
      BY <1>1, <2>1
    <3> QED BY <3>1 DEF PairAt
  <2>2. CASE j = 0
    BY <2>2 DEF PairAt
  <2> QED BY <1>2, <2>1, <2>2
<1>3. ASSUME NEW q \in Nat, q <= p PROVE StartsUpTo(s, q) = StartsUpTo(t, q)
  <2>1. ASSUME NEW j \in Nat \ {0}, j <= q PROVE j \in CodePointStarts(s) <=> j \in CodePointStarts(t)
    <3>1. j \in 1 .. Len(s) /\ j \in 1 .. Len(t) /\ j - 1 \in Nat /\ j - 1 < p
      BY <1>1, <1>3, <2>1
    <3>2. PairAt(s, j - 1) <=> PairAt(t, j - 1)
      BY <1>2, <3>1
    <3> QED BY <3>1, <3>2 DEF CodePointStarts
  <2>2. CodePointStarts(s) \subseteq Nat \ {0} /\ CodePointStarts(t) \subseteq Nat \ {0}
    BY DEF CodePointStarts
  <2> QED BY <2>1, <2>2 DEF StartsUpTo
<1>4. StartsUpTo(s, p) = StartsUpTo(t, p) /\ p \in 0 .. Len(s)
  BY <1>3
<1>5. ASSUME NEW i \in 1 .. Cardinality(StartsUpTo(s, p))
      PROVE  CodePointValues(s)[i] = CodePointValues(t)[i]
  <2>1. Cardinality(StartsUpTo(s, p)) <= CodePointCount(s) /\ CodePointCount(s) \in Nat
        /\ Cardinality(StartsUpTo(s, p)) \in Nat
    BY <1>1, StartsGrow, StartsFromZero, StartsFinite, CodePointNumbers
  <2>2. i \in 1 .. CodePointCount(s)
    BY <2>1
  <2>3. PICK q \in Nat : /\ q < Len(s) /\ AtScanHead(s, q + 1)
                         /\ Cardinality(StartsUpTo(s, q)) + 1 = i
    BY <2>2, HeadOfNumber
  <2>4. q \in 0 .. Len(s) /\ Cardinality(StartsUpTo(s, q)) \in Nat
        /\ Cardinality(StartsUpTo(s, q)) < Cardinality(StartsUpTo(s, p))
    <3>1. Cardinality(StartsUpTo(s, q)) \in Nat
      BY StartsFinite
    <3> QED BY <1>1, <2>1, <2>3, <3>1
  <2>5. q < p /\ q < Len(t) /\ q <= p
    BY <1>1, <1>4, <2>3, <2>4, StartsTell
  <2>6. AtScanHead(t, q + 1)
    <3>1. q + 1 \in 1 .. (Len(s) + 1) /\ q + 1 \in 1 .. (Len(t) + 1) /\ q + 1 - 1 = q
      BY <1>1, <2>5
    <3>2. ~ (q + 1 > 1 /\ PairAt(s, q))
      BY <2>3, <3>1, HeadIffStart
    <3> QED BY <1>2, <2>5, <3>1, <3>2, HeadIffStart
  <2>7. Cardinality(StartsUpTo(t, q)) + 1 = i
    BY <1>3, <2>3, <2>5
  <2>8. CodePointValues(s)[i] = ValueAt(s, q) /\ CodePointValues(t)[i] = ValueAt(t, q)
    <3>1. CodePointValues(s)[i] = ValueAt(s, q)
      BY <2>3, ValueOfHead
    <3>2. CodePointValues(t)[i] = ValueAt(t, q)
      BY <2>5, <2>6, <2>7, ValueOfHead
    <3> QED BY <3>1, <3>2
  <2>9. CASE q + 1 < p
    <3>1. PairAt(s, q + 1) <=> PairAt(t, q + 1)
      BY <1>2, <2>9
    <3>2. s[q + 1] = t[q + 1] /\ s[q + 2] = t[q + 2]
      BY <2>9
    <3> QED BY <2>8, <3>1, <3>2 DEF ValueAt
  <2>10. CASE q + 1 = p
    <3>1. p + 1 \in 1 .. (Len(s) + 1) /\ p + 1 \in 1 .. (Len(t) + 1) /\ p + 1 - 1 = p /\ p + 1 > 1
      BY <1>1, <2>10
    <3>2. ~ PairAt(s, p) /\ ~ PairAt(t, p)
      BY <3>1, HeadIffStart
    <3>3. s[q + 1] = t[q + 1]
      BY <2>10
    <3> QED BY <2>8, <2>10, <3>2, <3>3 DEF ValueAt
  <2> QED BY <2>5, <2>9, <2>10
<1> QED BY <1>4, <1>5


LEMMA UnitsAreNumbers ==
  ASSUME NEW s \in Seq(char16_t)
  PROVE  s \in Seq(Int) /\ Len(s) \in Nat /\ \A j \in 1 .. Len(s) : s[j] \in Int
<1>1. char16_t \subseteq Int
  BY UnitNumbers
<1>2. Len(s) \in Nat /\ \A j \in 1 .. Len(s) : s[j] \in char16_t
  OBVIOUS
<1>3. s \in Seq(Int)
  BY <1>1, SeqMonotonic
<1> QED BY <1>1, <1>2, <1>3

LEMMA TrailOfPair ==
  ASSUME NEW s \in Seq(char16_t), NEW k \in Nat, PairAt(s, k + 1)
  PROVE  s[k + 2] \in 56320 .. 57343
<1> DEFINE u == s[k + 2]
<1>1. k + 1 + 1 = k + 2
  OBVIOUS
<1>2. k + 2 \in 1 .. Len(s) /\ is_trail_surrogate(u)
  BY <1>1 DEF PairAt
<1>3. u \in Int
  BY <1>2, UnitsAreNumbers
<1> HIDE DEF u
<1>4. u \in 56320 .. 57343
  BY <1>2, <1>3 DEF is_trail_surrogate, TRAIL_SURROGATE_MIN, TRAIL_SURROGATE_MAX
<1> QED BY <1>4 DEF u

\* Of two code points that begin with the units c and d, neither a trail
\* surrogate nor above them, the one with the lesser unit is the lesser.
LEMMA LesserFirstUnit ==
  ASSUME NEW c \in Int, NEW d \in Int, c < d, c <= 57343, d <= 57343,
         NEW lead_c, NEW lead_d, NEW x, NEW y, NEW v, NEW w,
         lead_c <=> 55296 <= c /\ c <= 56319,
         lead_d <=> 55296 <= d /\ d <= 56319,
         ~ (56320 <= c /\ c <= 57343),
         ~ (56320 <= d /\ d <= 57343),
         lead_c => v = (c - 55296) * 1024 + (x - 56320) + 65536 /\ x \in 56320 .. 57343,
         ~ lead_c => v = c,
         lead_d => w = (d - 55296) * 1024 + (y - 56320) + 65536 /\ y \in 56320 .. 57343,
         ~ lead_d => w = d
  PROVE  v < w
<1>1. CASE lead_c /\ lead_d
  <2>1. x \in 56320 .. 57343 /\ y \in 56320 .. 57343 /\ d * 1024 >= c * 1024 + 1024
    BY <1>1
  <2>2. v = c * 1024 - 56623104 + x - 56320 + 65536 /\ w = d * 1024 - 56623104 + y - 56320 + 65536
    BY <1>1, <2>1
  <2> QED BY <2>1, <2>2
<1>2. CASE ~ lead_c /\ lead_d
  BY <1>2
<1>3. CASE ~ lead_c /\ ~ lead_d
  BY <1>3
<1>4. CASE lead_c /\ ~ lead_d
  BY <1>4
<1> QED BY <1>1, <1>2, <1>3, <1>4

NoneAboveSurrogates(s) == \A j \in 1 .. Len(s) : s[j] <= TRAIL_SURROGATE_MAX

\* Where two strings differ for the first time, inside a pair or not, the one
\* with the lesser unit has the lesser code point.
LEMMA LessByValues ==
  ASSUME NEW s \in Seq(char16_t), WellFormed(s), NEW t \in Seq(char16_t), WellFormed(t),
         NoneAboveSurrogates(s), NoneAboveSurrogates(t), LexLess(s, t)
  PROVE  LexLess(CodePointValues(s), CodePointValues(t))
<1> DEFINE V == CodePointValues(s)
           W == CodePointValues(t)
<1>1. /\ Len(s) \in Nat /\ Len(t) \in Nat
      /\ \A j \in 1 .. Len(s) : s[j] \in Int
      /\ \A j \in 1 .. Len(t) : t[j] \in Int
  BY UnitsAreNumbers
<1>2. s \in Seq(Int) /\ t \in Seq(Int)
  BY UnitsAreNumbers
<1>3. PICK k \in Nat : LessAt(s, t, k)
  BY <1>2, LexLessIs
<1>4. /\ k <= Len(s) /\ k < Len(t) /\ \A j \in 1 .. k : s[j] = t[j]
      /\ k < Len(s) => s[k + 1] < t[k + 1]
  BY <1>3 DEF LessAt
<1>5. V \in Seq(Int) /\ W \in Seq(Int) /\ Len(V) = CodePointCount(s) /\ Len(W) = CodePointCount(t)
  BY ValuesType
<1>6. CodePointCount(s) \in Nat /\ CodePointCount(t) \in Nat
  BY CodePointNumbers
\* Places where a code point begins in both strings decide.
<1>7. ASSUME NEW p \in Nat, p <= k, AtScanHead(s, p + 1), AtScanHead(t, p + 1),
             p < Len(s) => ValueAt(s, p) < ValueAt(t, p),
             p = Len(s) \/ p < Len(s)
      PROVE  LexLess(V, W)
  <2> DEFINE n == Cardinality(StartsUpTo(s, p))
  <2>1. p <= Len(s) /\ p < Len(t) /\ p <= Len(t) /\ \A j \in 1 .. p : s[j] = t[j]
    BY <1>1, <1>4, <1>7
  <2>2. n = Cardinality(StartsUpTo(t, p)) /\ \A i \in 1 .. n : V[i] = W[i]
    BY <1>7, <2>1, SameValues
  <2>3. n \in Nat
    BY StartsFinite
  <2>4. n + 1 \in 1 .. CodePointCount(t) /\ W[n + 1] = ValueAt(t, p)
    <3>1. LET i == Cardinality(StartsUpTo(t, p)) + 1
          IN  i \in 1 .. CodePointCount(t) /\ CodePointValues(t)[i] = ValueAt(t, p)
      BY <1>7, <2>1, ValueOfHead
    <3> QED BY <2>2, <3>1
  <2>5. CASE p < Len(s)
    <3>1. n + 1 \in 1 .. CodePointCount(s) /\ V[n + 1] = ValueAt(s, p)
      BY <1>7, <2>5, ValueOfHead
    <3> HIDE DEF n, V, W
    <3>2. LessAt(V, W, n)
      BY <1>5, <1>6, <1>7, <2>2, <2>3, <2>4, <2>5, <3>1 DEF LessAt
    <3> QED BY <1>5, <2>3, <3>2, LexLessIs
  <2>6. CASE p = Len(s)
    <3>1. n = CodePointCount(s)
      BY <2>6, StartsFromZero
    <3> HIDE DEF n, V, W
    <3>2. LessAt(V, W, n)
      BY <1>5, <1>6, <2>2, <2>3, <2>4, <3>1 DEF LessAt
    <3> QED BY <1>5, <2>3, <3>2, LexLessIs
  <2> QED BY <1>7, <2>5, <2>6
<1>8. CASE k > 0 /\ (PairAt(s, k) \/ PairAt(t, k))
  <2>1. k \in 1 .. Len(s) /\ k \in 1 .. Len(t) /\ s[k] = t[k]
    BY <1>1, <1>4, <1>8
  <2>2. is_lead_surrogate(s[k]) /\ is_lead_surrogate(t[k])
    BY <1>8, <2>1 DEF PairAt
  <2>3. PairAt(s, k) /\ PairAt(t, k)
    BY <2>1, <2>2 DEF WellFormed
  <2> DEFINE p == k - 1
  <2>4. p \in Nat /\ p + 1 = k /\ p <= k /\ p + 2 = k + 1 /\ k \in Nat \ {0}
    BY <1>8
  <2>5. AtScanHead(s, k) /\ AtScanHead(t, k)
    BY <2>3, <2>4, HeadAtPair
  <2>6. k < Len(s) /\ p < Len(s)
    BY <1>1, <2>3, <2>4 DEF PairAt
  <2>7. ValueAt(s, p) < ValueAt(t, p)
    <3>1. /\ s[k] \in Int /\ s[k + 1] \in Int /\ t[k + 1] \in Int /\ s[k + 1] < t[k + 1]
          /\ s[k] = t[k]
      BY <1>1, <1>4, <2>1, <2>6
    <3>2. /\ ValueAt(s, p) = (s[k] - LEAD_SURROGATE_MIN) * 1024
                               + (s[k + 1] - TRAIL_SURROGATE_MIN) + 65536
          /\ ValueAt(t, p) = (t[k] - LEAD_SURROGATE_MIN) * 1024
                               + (t[k + 1] - TRAIL_SURROGATE_MIN) + 65536
      BY <2>3, <2>4 DEF ValueAt
    <3> DEFINE a == s[k]
               b == s[k + 1]
               c == t[k + 1]
               high == (a - LEAD_SURROGATE_MIN) * 1024
    <3>3. LEAD_SURROGATE_MIN \in Int /\ TRAIL_SURROGATE_MIN \in Int
      BY DEF LEAD_SURROGATE_MIN, TRAIL_SURROGATE_MIN
    <3>4. /\ ValueAt(s, p) = high + (b - TRAIL_SURROGATE_MIN) + 65536
          /\ ValueAt(t, p) = high + (c - TRAIL_SURROGATE_MIN) + 65536
          /\ b \in Int /\ c \in Int /\ b < c
      BY <3>1, <3>2
    <3>5. high \in Int
      BY <3>1, <3>3
    <3> HIDE DEF p, a, b, c, high
    <3> QED BY <3>3, <3>4, <3>5
  <2> HIDE DEF p
  <2> QED BY <1>7, <2>4, <2>5, <2>6, <2>7
<1>9. CASE ~ (k > 0 /\ (PairAt(s, k) \/ PairAt(t, k)))
  <2>1. AtScanHead(s, k + 1) /\ AtScanHead(t, k + 1)
    <3>1. k + 1 \in 1 .. (Len(s) + 1) /\ k + 1 \in 1 .. (Len(t) + 1) /\ k + 1 - 1 = k
          /\ (k + 1 > 1 => k > 0)
      BY <1>1, <1>4
    <3> QED BY <1>9, <3>1, HeadIffStart
  <2>2. ASSUME k < Len(s) PROVE ValueAt(s, k) < ValueAt(t, k)
    <3>1. k + 1 \in 1 .. Len(s) /\ k + 1 \in 1 .. Len(t) /\ k + 1 - 1 = k /\ s[k + 1] < t[k + 1]
      BY <1>1, <1>4, <2>2
    <3> DEFINE c == s[k + 1]
               d == t[k + 1]
    <3>2. c \in Int /\ d \in Int /\ c < d /\ c <= 57343 /\ d <= 57343
      BY <1>1, <3>1 DEF NoneAboveSurrogates, TRAIL_SURROGATE_MAX
    <3>3. ~ is_trail_surrogate(c) /\ ~ is_trail_surrogate(d)
      BY <1>9, <3>1 DEF WellFormed
    <3>4. /\ is_lead_surrogate(c) <=> PairAt(s, k + 1)
          /\ is_lead_surrogate(d) <=> PairAt(t, k + 1)
      BY <3>1 DEF WellFormed, PairAt
    <3>5. /\ PairAt(s, k + 1) => ValueAt(s, k) = (c - 55296) * 1024 + (s[k + 2] - 56320) + 65536
          /\ ~ PairAt(s, k + 1) => ValueAt(s, k) = c
          /\ PairAt(t, k + 1) => ValueAt(t, k) = (d - 55296) * 1024 + (t[k + 2] - 56320) + 65536
          /\ ~ PairAt(t, k + 1) => ValueAt(t, k) = d
      BY DEF ValueAt, LEAD_SURROGATE_MIN, TRAIL_SURROGATE_MIN
    <3>6. /\ PairAt(s, k + 1) => s[k + 2] \in 56320 .. 57343
          /\ PairAt(t, k + 1) => t[k + 2] \in 56320 .. 57343
      BY TrailOfPair
    <3>7. /\ is_lead_surrogate(c) <=> 55296 <= c /\ c <= 56319
          /\ is_lead_surrogate(d) <=> 55296 <= d /\ d <= 56319
          /\ ~ (56320 <= c /\ c <= 57343)
          /\ ~ (56320 <= d /\ d <= 57343)
      BY <3>3 DEF is_lead_surrogate, is_trail_surrogate, TRAIL_SURROGATE_MIN, TRAIL_SURROGATE_MAX,
                  LEAD_SURROGATE_MIN, LEAD_SURROGATE_MAX
    <3> DEFINE x == s[k + 2]
               y == t[k + 2]
               v == ValueAt(s, k)
               w == ValueAt(t, k)
    <3>8. /\ is_lead_surrogate(c) => v = (c - 55296) * 1024 + (x - 56320) + 65536
                                      /\ x \in 56320 .. 57343
          /\ ~ is_lead_surrogate(c) => v = c
          /\ is_lead_surrogate(d) => w = (d - 55296) * 1024 + (y - 56320) + 65536
                                      /\ y \in 56320 .. 57343
          /\ ~ is_lead_surrogate(d) => w = d
      BY <3>4, <3>5, <3>6
    <3> DEFINE lead_c == is_lead_surrogate(c)
               lead_d == is_lead_surrogate(d)
    <3> HIDE DEF lead_c, lead_d
    <3>9. /\ lead_c => v = (c - 55296) * 1024 + (x - 56320) + 65536 /\ x \in 56320 .. 57343
          /\ ~ lead_c => v = c
          /\ lead_d => w = (d - 55296) * 1024 + (y - 56320) + 65536 /\ y \in 56320 .. 57343
          /\ ~ lead_d => w = d
          /\ lead_c <=> 55296 <= c /\ c <= 56319
          /\ lead_d <=> 55296 <= d /\ d <= 56319
      BY <3>7, <3>8 DEF lead_c, lead_d
    <3> HIDE DEF c, d, x, y, v, w
    <3>10. v < w
      BY <3>2, <3>7, <3>9, LesserFirstUnit
    <3> QED BY <3>10 DEF v, w
  <2>3. k = Len(s) \/ k < Len(s)
    BY <1>1, <1>4
  <2>4. k <= k
    OBVIOUS
  <2> QED BY <1>7, <2>1, <2>2, <2>3, <2>4
<1> QED BY <1>8, <1>9

LEMMA CompareIs ==
  ASSUME NEW s \in Seq(char16_t), WellFormed(s), NEW t \in Seq(char16_t), WellFormed(t),
         NoneAboveSurrogates(s), NoneAboveSurrogates(t)
  PROVE  compare(s, t) < 0 <=> LexLess(CodePointValues(s), CodePointValues(t))
<1>2. s \in Seq(Int) /\ t \in Seq(Int)
  BY UnitsAreNumbers
<1>3. CodePointValues(s) \in Seq(Int) /\ CodePointValues(t) \in Seq(Int)
  BY ValuesType
<1>4. CASE s = t
  <2>1. ~ LexLess(CodePointValues(s), CodePointValues(t))
    BY <1>3, <1>4, LexLessOneWay
  <2>2. compare(s, t) = 0
    BY <1>4 DEF compare
  <2> QED BY <2>1, <2>2
<1>5. CASE s # t /\ LexLess(s, t)
  <2>1. compare(s, t) = -1
    BY <1>5 DEF compare
  <2> QED BY <1>5, <2>1, LessByValues
<1>6. CASE s # t /\ ~ LexLess(s, t)
  <2>1. compare(s, t) = 1
    BY <1>6 DEF compare
  <2>2. LexLess(t, s)
    BY <1>2, <1>6, LexLessTotal
  <2>3. LexLess(CodePointValues(t), CodePointValues(s))
    BY <2>2, LessByValues
  <2> QED BY <1>3, <2>1, <2>3, LexLessOneWay
<1> QED BY <1>4, <1>5, <1>6

\* compare orders well-formed strings as their code points are ordered, as long
\* as no unit above the surrogates takes part, although it compares units and
\* the first difference may lie inside a pair (osv.h:124-151).
THEOREM ComparesCodePoints == Spec => []ComparesByCodePointBelowSurrogates
<1>1. CallInv => ComparesByCodePointBelowSurrogates
  <2> SUFFICES ASSUME CallInv, call.method = "compare",
                      WellFormed(view), WellFormed(call.pattern),
                      NoneAboveSurrogates(view), NoneAboveSurrogates(call.pattern)
               PROVE  call.ret < 0 <=> LexLess(CodePointValues(view), CodePointValues(call.pattern))
    BY DEF ComparesByCodePointBelowSurrogates, NoneAboveSurrogates
  <2>1. view \in Seq(char16_t)
    BY ViewsAssumption DEF CallInv
  <2>2. call.pattern \in Seq(char16_t) /\ call.ret = compare(view, call.pattern)
    BY ViewsAssumption DEF CallInv
  <2> QED BY <2>1, <2>2, CompareIs
<1> QED BY <1>1, CallInvHolds, PTL

=============================================================================
