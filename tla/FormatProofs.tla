----------------------------- MODULE FormatProofs -----------------------------
(***************************************************************************)
(* What the parser of placeholders does with any format, and that it       *)
(* answers the parts of those that are written from parts.                 *)
(***************************************************************************)
EXTENDS Format, CodeUnitsLemmas

-----------------------------------------------------------------------------
(* Powers.                                                                 *)

\* The equations of a function that multiplies by c, once for every step.
LEMMA PowersAre ==
  ASSUME NEW c \in Nat \ {0}, NEW f,
         f = CHOOSE w : w = [n \in Nat |-> IF n = 0 THEN 1 ELSE c * w[n - 1]]
  PROVE  f[0] = 1 /\ \A n \in Nat : f[n] \in Nat \ {0} /\ f[n + 1] = c * f[n]
<1> DEFINE F == [x \in Nat \ {0} |-> c * x]
           S == Nat \ {0}
           P(w) == [n \in Nat |-> IF n = 0 THEN 1 ELSE c * w[n - 1]]
<1>1. \A x \in S : c * x \in S
  BY Z3
<1>2. F \in [S -> S] /\ 1 \in S
  BY <1>1
<1>3. PICK g : IsIteration(g, 1, F, S)
  <2> HIDE DEF F, S
  <2> QED BY <1>2, Iterates
<1>4. /\ g[0] = 1 /\ \A n \in Nat : g[n] \in S /\ g[n + 1] = F[g[n]]
      /\ g = [n \in Nat |-> g[n]]
  <2> HIDE DEF F, S
  <2> QED BY <1>3 DEF IsIteration
<1>5. g = P(g)
  <2>1. ASSUME NEW n \in Nat PROVE g[n] = P(g)[n]
    <3>1. CASE n = 0
      BY <1>4, <3>1
    <3>2. CASE n # 0
      <4>1. n - 1 \in Nat /\ (n - 1) + 1 = n
        BY <3>2
      <4>2. g[n] = F[g[n - 1]] /\ g[n - 1] \in S
        BY <1>4, <4>1
      <4> QED BY <3>2, <4>2
    <3> QED BY <3>1, <3>2
  <2> QED BY <1>4, <2>1
<1>6. f = P(f)
  <2>1. f = CHOOSE w : w = P(w)
    OBVIOUS
  <2> HIDE DEF P
  <2> QED BY <1>5, <2>1
<1>7. f[0] = 1
  <2>1. P(f)[0] = 1
    OBVIOUS
  <2> HIDE DEF P
  <2> QED BY <1>6, <2>1
<1>8. ASSUME NEW n \in Nat PROVE f[n + 1] = c * f[n]
  <2>1. n + 1 \in Nat /\ n + 1 # 0 /\ (n + 1) - 1 = n
    OBVIOUS
  <2>2. P(f)[n + 1] = c * f[n]
    BY <2>1
  <2> HIDE DEF P
  <2> QED BY <1>6, <2>2
<1> DEFINE R == {n \in Nat : f[n] \in S}
<1>9. R = Nat
  <2>1. 0 \in R
    BY <1>7
  <2>2. ASSUME NEW n \in R PROVE n + 1 \in R
    BY <1>1, <1>8
  <2>3. R \in SUBSET Nat
    OBVIOUS
  <2> HIDE DEF R
  <2> QED BY <2>1, <2>2, <2>3, SetInduction
<1> QED BY <1>7, <1>8, <1>9

LEMMA TwoPowers == Two[0] = 1 /\ \A n \in Nat : Two[n] \in Nat \ {0} /\ Two[n + 1] = 2 * Two[n]
<1>1. Two = CHOOSE w : w = [n \in Nat |-> IF n = 0 THEN 1 ELSE 2 * w[n - 1]]
  BY DEF Two
<1> QED BY <1>1, PowersAre

LEMMA TenPowers == Ten[0] = 1 /\ \A n \in Nat : Ten[n] \in Nat \ {0} /\ Ten[n + 1] = 10 * Ten[n]
<1>1. Ten = CHOOSE w : w = [n \in Nat |-> IF n = 0 THEN 1 ELSE 10 * w[n - 1]]
  BY DEF Ten
<1> QED BY <1>1, PowersAre

\* Division by a positive number.
LEMMA Division ==
  ASSUME NEW m \in Nat, NEW d \in Nat \ {0}
  PROVE  /\ m \div d \in Nat /\ m % d \in 0 .. (d - 1)
         /\ m = (m \div d) * d + (m % d)
<1>1. m = (m \div d) * d + (m % d)
  BY Z3
<1>2. m \div d \in Nat
  BY Z3
<1>3. m % d \in 0 .. (d - 1)
  OBVIOUS
<1> QED BY <1>1, <1>2, <1>3

-----------------------------------------------------------------------------
(* What a call has been given.                                             *)

Arguments == [int : int] \cup [mantissa : 0 .. Two[FLT_MANT_DIG] - 1, exponent : Nat]
             \cup [units : Seq(char16_t)] \cup [chars : Seq(char)]

CallMade == [fmt |-> fmt, args |-> args] \in Calls

\* The view lies in its buffer.
LEMMA CallTypes ==
  ASSUME CallMade
  PROVE  /\ fmt.buffer \in Seq(char16_t) /\ Len(fmt.buffer) \in Nat
         /\ fmt.size \in Nat /\ fmt.size <= Len(fmt.buffer)
         /\ args \in Seq(Arguments) /\ Len(args) \in Nat
         /\ \A k \in 1 .. Len(fmt.buffer) : fmt.buffer[k] \in char16_t /\ fmt.buffer[k] \in Nat
<1> DEFINE c == [fmt |-> fmt, args |-> args]
<1>1. c \in [fmt : [buffer : Seq(char16_t), size : Nat, ends : Seq(Nat),
                    parts : PartSequences \cup {NoParts}],
             args : ArgumentLists]
  BY FormatAssumption DEF CallMade
<1>2. c.fmt.size <= Len(c.fmt.buffer)
  BY FormatAssumption DEF CallMade
<1>3. c.fmt = fmt /\ c.args = args
  OBVIOUS
<1>4. fmt \in [buffer : Seq(char16_t), size : Nat, ends : Seq(Nat),
               parts : PartSequences \cup {NoParts}] /\ args \in ArgumentLists
  BY <1>1, <1>3
<1>5. ArgumentLists \subseteq Seq(Arguments)
  BY FormatAssumption DEF Arguments
<1>6. fmt.buffer \in Seq(char16_t) /\ fmt.size \in Nat /\ args \in Seq(Arguments)
  BY <1>4, <1>5
<1>7. \A k \in 1 .. Len(fmt.buffer) : fmt.buffer[k] \in char16_t
  BY <1>6
<1>8. \A k \in 1 .. Len(fmt.buffer) : fmt.buffer[k] \in Nat
  <2>1. char16_t \subseteq Nat
    BY UnitNumbers
  <2> QED BY <1>7, <2>1
<1>9. Len(fmt.buffer) \in Nat /\ Len(args) \in Nat
  BY <1>6
<1>10. fmt.size <= Len(fmt.buffer)
  BY <1>2, <1>3
<1> HIDE DEF c
<1> QED BY <1>6, <1>7, <1>8, <1>9, <1>10

\* The view and its units.
LEMMA ViewType ==
  ASSUME CallMade
  PROVE  /\ view \in Seq(char16_t) /\ Len(view) = fmt.size
         /\ \A k \in 1 .. fmt.size : view[k] = fmt.buffer[k]
BY CallTypes DEF view

\* What kind of argument a record is, by its fields.
LEMMA ArgumentKinds ==
  ASSUME NEW a \in Arguments
  PROVE  \/ /\ a \in [int : int] /\ DOMAIN a = {"int"} /\ a = [int |-> a.int] /\ a.int \in int
            /\ to_string(a) = from_int(a.int)
         \/ /\ a \in Floats /\ DOMAIN a = {"mantissa", "exponent"}
            /\ a.mantissa \in Nat /\ a.mantissa < Two[FLT_MANT_DIG]
            /\ to_string(a) = from_float_round(a)
         \/ /\ DOMAIN a = {"units"} /\ a.units \in Seq(char16_t)
            /\ to_string(a) = {a.units}
         \/ /\ DOMAIN a = {"chars"} /\ a.chars \in Seq(char)
            /\ to_string(a) = {Widened(a.chars)}
<1>1. "int" # "mantissa" /\ "int" # "exponent" /\ "int" # "units" /\ "int" # "chars"
      /\ "mantissa" # "units" /\ "mantissa" # "chars" /\ "exponent" # "units"
      /\ "exponent" # "chars" /\ "units" # "chars"
  OBVIOUS
<1>2. CASE a \in [int : int]
  <2>1. DOMAIN a = {"int"} /\ a = [int |-> a.int] /\ a.int \in int
    BY <1>2
  <2>2. to_string(a) = from_int(a.int)
    BY <2>1 DEF to_string
  <2> QED BY <1>2, <2>1, <2>2
<1>3. CASE a \in [mantissa : 0 .. Two[FLT_MANT_DIG] - 1, exponent : Nat]
  <2>1. Two[FLT_MANT_DIG] \in Nat
    BY TwoPowers, FltMantDigAssumption
  <2>2. DOMAIN a = {"mantissa", "exponent"} /\ a.mantissa \in Nat /\ a.exponent \in Nat
        /\ a.mantissa < Two[FLT_MANT_DIG] /\ a \in Floats
    BY <1>3, <2>1 DEF Floats
  <2>3. to_string(a) = from_float_round(a)
    BY <1>1, <2>2 DEF to_string
  <2> QED BY <2>2, <2>3
<1>4. CASE a \in [units : Seq(char16_t)]
  <2>1. DOMAIN a = {"units"} /\ a.units \in Seq(char16_t)
    BY <1>4
  <2>2. to_string(a) = {a.units}
    BY <1>1, <2>1 DEF to_string
  <2> QED BY <2>1, <2>2
<1>5. CASE a \in [chars : Seq(char)]
  <2>1. DOMAIN a = {"chars"} /\ a.chars \in Seq(char)
    BY <1>5
  <2>2. to_string(a) = {Widened(a.chars)}
    BY <1>1, <2>1 DEF to_string
  <2> QED BY <2>1, <2>2
<1> QED BY <1>2, <1>3, <1>4, <1>5 DEF Arguments

-----------------------------------------------------------------------------
(* Where the parser can be.                                                *)

\* The text is copied up to a place in the view, or, after two braces the first
\* of which ends it, to the one behind it.
CopiedWithin ==
  \/ prev_holder <= fmt.size
  \/ /\ prev_holder = fmt.size + 1 /\ fmt.size > 0
     /\ \E brace \in {OPEN, CLOSE} : IsAt(fmt.size - 1, brace) /\ IsAt(fmt.size, brace)

\* A width is read at most once: behind it only a colon or the closing brace follows.
WidthOnce ==
  pc = "placeholder" => alignment = 0 \/ (i < fmt.size /\ (IsAt(i, COLON) \/ IsAt(i, CLOSE)))

Loops == {"text", "placeholder", "alignment", "param"}

\* Outside a placeholder no text is copied beyond i.
ParserTypes ==
  /\ CallMade
  /\ NDEBUG \in BOOLEAN
  /\ i \in Nat /\ prev_holder \in Nat /\ prev_holder <= i
  /\ auto_index \in Int /\ auto_index >= -1
  /\ index \in Nat /\ alignment \in Int /\ sign \in {-1, 1}
  /\ pc \in Loops \cup {"verbatim", "return", "thrown", "aborted", "undefined"}
  /\ pc = "alignment" => alignment \in Nat
  /\ CopiedWithin
  /\ WidthOnce

LEMMA ParserTypesInit ==
  ASSUME Init PROVE ParserTypes
<1>1. CallMade
  <2>1. PICK c \in Calls : fmt = c.fmt /\ args = c.args
    BY DEF Init
  <2>2. c = [fmt |-> c.fmt, args |-> c.args]
    BY FormatAssumption
  <2> QED BY <2>1, <2>2 DEF CallMade
<1>2. fmt.size \in Nat
  BY <1>1, CallTypes
<1> QED BY <1>1, <1>2 DEF Init, ParserTypes, CopiedWithin, WidthOnce, Loops

\* What no step changes.
LEMMA CallStays ==
  ASSUME Next \/ UNCHANGED vars
  PROVE  UNCHANGED call
BY DEF Next, TextLoop, HolderLoops, vars, call, holder, Verbatim, Literal, Escape, OpenHolder, LoneClose,
       Return, Throws, ManualIndex, Comma, Param, CloseHolder, SkipUnknown, EndsInHolder,
       Alignment, AlignmentOther, AlignmentEnd, Aborts, Undefined

\* A digit stands for a number.
LEMMA DigitAt ==
  ASSUME CallMade, i \in Nat, AtDigit
  PROVE  /\ fmt.buffer[i + 1] \in Nat
         /\ to_number(fmt.buffer[i + 1]) \in 0 .. 9
         /\ to_number(fmt.buffer[i + 1]) = fmt.buffer[i + 1] - ZERO
<1>1. i + 1 \in 1 .. Len(fmt.buffer) /\ is_number(fmt.buffer[i + 1])
  BY CallTypes DEF AtDigit
<1>2. fmt.buffer[i + 1] \in Nat
  BY <1>1, CallTypes
<1> QED BY <1>1, <1>2 DEF to_number, is_number, ZERO

LEMMA ParserTypesNext ==
  ASSUME ParserTypes, Next \/ UNCHANGED vars
  PROVE  ParserTypes'
<1> DEFINE Rest1 == /\ i' \in Nat /\ prev_holder' \in Nat /\ prev_holder' <= i'
                    /\ auto_index' \in Int /\ auto_index' >= -1
                    /\ index' \in Nat /\ alignment' \in Int /\ sign' \in {-1, 1}
                    /\ pc' \in Loops \cup {"verbatim", "return", "thrown", "aborted", "undefined"}
                    /\ pc' = "alignment" => alignment' \in Nat
<1>1. CallMade' /\ NDEBUG' \in BOOLEAN /\ fmt' = fmt
  BY CallStays DEF call, CallMade, ParserTypes
<1>2. /\ fmt.size \in Nat /\ CallMade
      /\ i \in Nat /\ prev_holder \in Nat /\ prev_holder <= i /\ auto_index \in Int /\ auto_index >= -1
      /\ index \in Nat /\ alignment \in Int /\ sign \in {-1, 1}
      /\ pc \in Loops \cup {"verbatim", "return", "thrown", "aborted", "undefined"}
      /\ pc = "alignment" => alignment \in Nat
      /\ CopiedWithin /\ WidthOnce
  BY CallTypes DEF ParserTypes
<1>3. ASSUME prev_holder' = prev_holder PROVE CopiedWithin'
  BY <1>1, <1>2, <1>3 DEF CopiedWithin, IsAt, Readable
<1>a. WidthOnce'
  <2>1. CASE pc = "placeholder" /\ pc' = "placeholder"
    <3>1. CASE ManualIndex \/ SkipUnknown
      <4>1. i < fmt.size /\ ~ IsAt(i, COLON) /\ ~ IsAt(i, CLOSE)
        <5>1. CASE ManualIndex
          BY <5>1, <1>2, CallTypes DEF ManualIndex, AtDigit, is_number, IsAt, Readable, ZERO, COLON, CLOSE
        <5>2. CASE SkipUnknown
          BY <5>2 DEF SkipUnknown, Unknown, InHolder, IsOther, IsAt
        <5> QED BY <3>1, <5>1, <5>2
      <4>2. alignment' = alignment
        BY <3>1 DEF ManualIndex, SkipUnknown, holder
      <4> QED BY <1>2, <2>1, <4>1, <4>2 DEF WidthOnce
    <3>2. CASE UNCHANGED vars
      BY <1>2, <3>2 DEF WidthOnce, vars, IsAt, Readable
    <3> QED BY <2>1, <3>1, <3>2 DEF Next, TextLoop, HolderLoops, InText, InHolder, Closing, Truncated,
           Verbatim, Literal, Escape, OpenHolder, LoneClose, Return, Throws, Comma, Param,
           CloseHolder, EndsInHolder, Alignment, AlignmentOther, AlignmentEnd, Aborts, Undefined
  <2>2. CASE AlignmentEnd
    BY <1>1, <2>2 DEF AlignmentEnd, InHolder, WidthOnce, IsAt, Readable
  <2>3. CASE OpenHolder
    BY <2>3 DEF OpenHolder, WidthOnce
  <2>4. CASE pc' # "placeholder"
    BY <2>4 DEF WidthOnce
  <2> QED BY <2>1, <2>2, <2>3, <2>4 DEF Next, TextLoop, HolderLoops, InText, InHolder, Closing, Truncated,
           Verbatim, Literal, Escape, LoneClose, Return, Throws, Comma, Param, ManualIndex, SkipUnknown, vars,
           CloseHolder, EndsInHolder, Alignment, AlignmentOther, Aborts, Undefined
<1> SUFFICES Rest1 /\ CopiedWithin'
  BY <1>1, <1>a DEF ParserTypes
<1>4. CASE UNCHANGED vars
  BY <1>2, <1>3, <1>4 DEF vars
<1>5. CASE Verbatim \/ Literal \/ LoneClose \/ Return \/ Throws \/ Comma \/ Param
           \/ SkipUnknown \/ EndsInHolder \/ AlignmentOther \/ Aborts \/ Undefined
  <2>1. CASE Verbatim \/ Return \/ Throws \/ Aborts \/ Undefined \/ EndsInHolder
    BY <1>2, <1>3, <2>1 DEF Verbatim, Return, Throws, Aborts, Undefined, EndsInHolder, holder, Loops
  <2>2. CASE Literal \/ LoneClose
    BY <1>2, <1>3, <2>2 DEF Literal, LoneClose, InText, holder, Loops
  <2>3. CASE Param \/ SkipUnknown \/ AlignmentOther
    BY <1>2, <1>3, <2>3 DEF Param, SkipUnknown, AlignmentOther, Unknown, InHolder, holder, Loops
  <2>4. CASE Comma
    <3>1. alignment' = alignment /\ index' = index /\ sign' \in {-1, 1}
          /\ (i' = i + 1 \/ i' = i + 2) /\ pc' = "alignment" /\ prev_holder' = prev_holder
          /\ auto_index' = auto_index
      BY <2>4 DEF Comma
    <3>2. pc' # "text" /\ alignment' \in Nat
      <4>1. ~ IsAt(i, COLON) /\ ~ IsAt(i, CLOSE) /\ pc = "placeholder"
        BY <2>4 DEF Comma, InHolder, IsAt, COMMA, COLON, CLOSE
      <4> QED BY <1>2, <3>1, <4>1 DEF WidthOnce
    <3> QED BY <1>2, <1>3, <3>1, <3>2 DEF Loops
  <2> QED BY <1>5, <2>1, <2>2, <2>3, <2>4
<1>6. CASE Escape
  <2>1. PICK brace \in {OPEN, CLOSE} : IsAt(i, brace) /\ IsAt(i + 1, brace)
    BY <1>6 DEF Escape
  <2>2. i < fmt.size /\ prev_holder' = i + 2 /\ i' = i + 2 /\ pc' = pc /\ pc = "text"
        /\ UNCHANGED <<auto_index, index, alignment, sign>>
    BY <1>6 DEF Escape, InText, holder
  <2>3. CopiedWithin'
    <3>1. CASE i + 2 <= fmt.size
      BY <1>1, <1>2, <2>2, <3>1 DEF CopiedWithin
    <3>2. CASE i = fmt.size - 1
      <4>1. i + 1 = fmt.size /\ i + 2 = fmt.size + 1 /\ fmt.size > 0
        BY <1>2, <3>2
      <4>2. IsAt(fmt.size - 1, brace)' /\ IsAt(fmt.size, brace)'
        BY <1>1, <2>1, <3>2, <4>1 DEF IsAt, Readable
      <4> QED BY <1>1, <2>2, <4>1, <4>2 DEF CopiedWithin
    <3> QED BY <1>2, <2>2, <3>1, <3>2
  <2> QED BY <1>2, <2>2, <2>3 DEF Loops
<1>7. CASE OpenHolder
  BY <1>2, <1>3, <1>7 DEF OpenHolder, Loops
<1>8. CASE CloseHolder
  <2>1. i < fmt.size /\ prev_holder' = i + 1 /\ i' = i + 1 /\ pc' = "text"
        /\ UNCHANGED <<auto_index, index, alignment, sign>>
    BY <1>8 DEF CloseHolder, Closing, InHolder, holder
  <2> QED BY <1>1, <1>2, <2>1 DEF CopiedWithin, Loops
<1>9. CASE ManualIndex
  <2>1. to_number(fmt.buffer[i + 1]) \in Nat
    BY <1>2, <1>9, DigitAt DEF ManualIndex
  <2>2. index' \in Nat
    BY <1>2, <1>9, <2>1, WrapType DEF ManualIndex
  <2> QED BY <1>2, <1>3, <1>9, <2>2 DEF ManualIndex, InHolder, Loops
<1>10. CASE Alignment
  <2>1. to_number(fmt.buffer[i + 1]) \in Nat /\ alignment \in Nat
    BY <1>2, <1>10, DigitAt DEF Alignment, InHolder
  <2>2. alignment' \in Nat
    BY <1>10, <2>1 DEF Alignment, Accumulated
  <2> QED BY <1>2, <1>3, <1>10, <2>2 DEF Alignment, InHolder, Loops
<1>11. CASE AlignmentEnd
  <2>1. alignment' \in Int /\ pc' = "placeholder" /\ UNCHANGED <<i, prev_holder, auto_index, index, sign>>
    BY <1>2, <1>11 DEF AlignmentEnd
  <2> QED BY <1>2, <1>3, <2>1 DEF Loops
<1> QED BY <1>4, <1>5, <1>6, <1>7, <1>8, <1>9, <1>10, <1>11 DEF Next, TextLoop, HolderLoops

\* The parser's offsets, indices and widths keep their types, and no text is copied
\* beyond the view but after two braces of which only the first is in it.
THEOREM ParserTypesCorrect == FairSpec => []ParserTypes
<1>1. Init => ParserTypes
  BY ParserTypesInit
<1>2. ParserTypes /\ [Next]_vars => ParserTypes'
  BY ParserTypesNext
<1> QED BY <1>1, <1>2, PTL DEF FairSpec

-----------------------------------------------------------------------------
(* How a call fails.                                                       *)

\* What is undefined of an argument.
LEMMA NoString ==
  ASSUME NEW a \in Arguments, to_string(a) = {}
  PROVE  a = [int |-> INT_MIN] \/ ("mantissa" \in DOMAIN a /\ Integral(a) > INT_MAX)
<1>1. INT_MAX \in Nat
  BY IntMaxAssumption
<1>2. \A n : from_int(n) = {} => n = INT_MIN
  BY DEF from_int
<1>3. ASSUME a \in Floats, to_string(a) = from_float_round(a)
      PROVE  Integral(a) > INT_MAX
  <2>1. Integral(a) \in Nat
    BY <1>3, TwoPowers, Division DEF Floats, Integral
  <2>2. Integral(a) # INT_MIN
    BY <1>1, <2>1 DEF INT_MIN
  <2>3. from_int(Integral(a)) # {}
    BY <1>2, <2>2
  <2>4. Integral(a) \notin int
    BY <1>3, <2>3 DEF from_float_round
  <2> QED BY <1>1, <2>1, <2>4 DEF int, INT_MIN
<1> QED BY <1>2, <1>3, ArgumentKinds

\* Nothing but an argument keeps a placeholder from being answered.
LEMMA NothingChosen ==
  ASSUME ParserTypes, Chosen = {}
  PROVE  \E a \in 1 .. Len(args) :
           \/ args[a] = [int |-> INT_MIN]
           \/ "mantissa" \in DOMAIN args[a] /\ Integral(args[a]) > INT_MAX
<1> DEFINE n == IF auto_index = -1 THEN index ELSE auto_index
<1>1. n \in Nat /\ Len(args) \in Nat /\ args \in Seq(Arguments)
  BY CallTypes DEF ParserTypes
<1>2. n < Len(args) /\ to_string(args[n + 1]) = {}
  <2> HIDE DEF n
  <2> QED BY <1>1 DEF Chosen, to_string_index, n
<1> HIDE DEF n
<1>3. n + 1 \in 1 .. Len(args) /\ args[n + 1] \in Arguments
  BY <1>1, <1>2
<1> QED BY <1>2, <1>3, NoString

\* What is undefined has its cause where it is met, if anything lies behind the view.
UndefinedCause ==
  pc = "undefined" /\ fmt.size < Len(fmt.buffer) =>
    \/ \E a \in 1 .. Len(args) :
         \/ args[a] = [int |-> INT_MIN]
         \/ "mantissa" \in DOMAIN args[a] /\ Integral(args[a]) > INT_MAX
    \/ AtDigit /\ Accumulated \notin int

ThrownCause == pc = "thrown" => i >= fmt.size /\ prev_holder > fmt.size

LEMMA UndefinedStep ==
  ASSUME ParserTypes, Undefined
  PROVE  UndefinedCause'
<1>1. UNCHANGED <<fmt, args, i, alignment>>
  BY DEF Undefined, call, holder
<1>2. /\ fmt.size \in Nat /\ Len(fmt.buffer) \in Nat /\ i \in Nat
  BY CallTypes DEF ParserTypes
<1> SUFFICES ASSUME fmt.size < Len(fmt.buffer)
             PROVE  \/ \E a \in 1 .. Len(args) :
                         \/ args[a] = [int |-> INT_MIN]
                         \/ "mantissa" \in DOMAIN args[a] /\ Integral(args[a]) > INT_MAX
                    \/ AtDigit /\ Accumulated \notin int
  BY <1>1 DEF UndefinedCause, AtDigit, Accumulated
<1>3. i < fmt.size => Readable(i + 1)
  BY <1>2 DEF Readable
<1>4. (Closing /\ Chosen = {}) \/ (AtDigit /\ Accumulated \notin int)
  BY <1>3 DEF Undefined, InText, InHolder
<1> QED BY <1>4, NothingChosen

\* OutsideCause: a call throws only if the view ends in a brace that stands behind
\* it once more, and, if anything lies behind the view, what is undefined is the
\* absolute value of an argument, or an alignment.
THEOREM FailuresExplained == FairSpec => []OutsideCause
<1> DEFINE Inv == ParserTypes /\ UndefinedCause /\ ThrownCause
<1>1. Init => Inv
  BY ParserTypesInit DEF Init, UndefinedCause, ThrownCause
<1>2. ASSUME Inv, [Next]_vars PROVE Inv'
  <2>1. ParserTypes'
    BY <1>2, ParserTypesNext
  <2>2. UNCHANGED call /\ pc \in Loops \cup {"verbatim", "return", "thrown", "aborted", "undefined"}
    BY <1>2, CallStays DEF ParserTypes
  <2>3. CASE UNCHANGED vars
    <3>1. UNCHANGED <<fmt, args, i, prev_holder, alignment, pc>>
      BY <2>3 DEF vars
    <3>2. UndefinedCause' /\ ThrownCause'
      BY <1>2, <3>1 DEF UndefinedCause, ThrownCause, AtDigit, Accumulated
    <3> QED BY <2>1, <3>2
  <2>4. CASE Undefined
    <3>1. UndefinedCause'
      BY <1>2, <2>4, UndefinedStep
    <3>2. ThrownCause'
      BY <2>4 DEF Undefined, ThrownCause
    <3> QED BY <2>1, <3>1, <3>2
  <2>5. CASE Throws
    BY <2>1, <2>5 DEF Throws, UndefinedCause, ThrownCause, call, holder
  <2>6. CASE Next /\ ~ Undefined /\ ~ Throws
    <3>1. pc' # "undefined" /\ pc' # "thrown"
      BY <2>6 DEF Next, TextLoop, HolderLoops, InText, InHolder, Closing, Unknown, Truncated,
           Verbatim, Literal, Escape, OpenHolder, LoneClose, Return, ManualIndex, Comma, Param,
           CloseHolder, SkipUnknown, EndsInHolder, Alignment, AlignmentOther, AlignmentEnd, Aborts
    <3> QED BY <2>1, <3>1 DEF UndefinedCause, ThrownCause
  <2> QED BY <1>2, <2>3, <2>4, <2>5, <2>6
<1>3. ASSUME Inv PROVE OutsideCause
  <2>1. fmt.size \in Nat /\ prev_holder \in Nat
    BY <1>3, CallTypes DEF ParserTypes
  <2>2. pc = "thrown" => fmt.size > 0 /\
          \E brace \in {OPEN, CLOSE} : IsAt(fmt.size - 1, brace) /\ IsAt(fmt.size, brace)
    BY <1>3, <2>1 DEF ThrownCause, ParserTypes, CopiedWithin
  <2> QED BY <1>3, <2>2 DEF UndefinedCause, OutsideCause
<1> QED BY <1>1, <1>2, <1>3, PTL DEF FairSpec

-----------------------------------------------------------------------------
(* What is written of a number.                                            *)

\* More powers: of sums, and their order.
LEMMA TwoAdds ==
  ASSUME NEW a \in Nat, NEW b \in Nat
  PROVE  Two[a + b] = Two[a] * Two[b]
<1> DEFINE S == {n \in Nat : Two[a + n] = Two[a] * Two[n]}
<1>1. 0 \in S
  BY TwoPowers
<1>2. ASSUME NEW n \in S PROVE n + 1 \in S
  <2>1. a + n \in Nat /\ a + (n + 1) = (a + n) + 1 /\ n \in Nat
    OBVIOUS
  <2>2. Two[a + (n + 1)] = 2 * Two[a + n] /\ Two[n + 1] = 2 * Two[n] /\ Two[a + n] = Two[a] * Two[n]
    BY <2>1, TwoPowers
  <2>3. Two[a] \in Nat /\ Two[n] \in Nat
    BY <2>1, TwoPowers
  <2>4. \A x \in Nat, y \in Nat : 2 * (x * y) = x * (2 * y)
    BY Z3
  <2> QED BY <2>1, <2>2, <2>3, <2>4
<1>3. S \in SUBSET Nat
  OBVIOUS
<1> HIDE DEF S
<1>4. S = Nat
  BY <1>1, <1>2, <1>3, SetInduction
<1> QED BY <1>4 DEF S

LEMMA TwoGrows ==
  ASSUME NEW a \in Nat, NEW b \in Nat
  PROVE  a <= b <=> Two[a] <= Two[b]
<1>1. ASSUME NEW m \in Nat, NEW n \in Nat, m <= n PROVE Two[m] <= Two[n]
  <2>1. n - m \in Nat /\ m + (n - m) = n
    BY <1>1
  <2>2. Two[m + (n - m)] = Two[m] * Two[n - m]
    BY <2>1, TwoAdds
  <2>4. Two[m] \in Nat \ {0} /\ Two[n - m] \in Nat \ {0}
    BY <2>1, TwoPowers
  <2>3. \A x \in Nat \ {0}, y \in Nat \ {0} : x <= x * y
    BY Z3
  <2> QED BY <2>1, <2>2, <2>3, <2>4
<1>2. ASSUME b < a PROVE Two[b] < Two[a]
  <2>1. b + 1 \in Nat /\ b + 1 <= a
    BY <1>2
  <2>2. Two[b + 1] <= Two[a]
    BY <1>1, <2>1
  <2>3. Two[b + 1] = 2 * Two[b] /\ Two[b] \in Nat \ {0} /\ Two[a] \in Nat
    BY TwoPowers
  <2> QED BY <2>2, <2>3
<1>3. Two[a] \in Nat /\ Two[b] \in Nat
  BY TwoPowers
<1> QED BY <1>1, <1>2, <1>3

\* What rounding keeps.
LEMMA NearestIs ==
  ASSUME NEW f \in Floats
  PROVE  /\ nearest[f] \in Nat
         /\ \A c \in Nat : f.mantissa < c * Two[f.exponent] => nearest[f] <= c
         /\ \A c \in Nat : f.mantissa = c * Two[f.exponent] => nearest[f] = c
<1> DEFINE p == Two[f.exponent]
           m == f.mantissa
<1>0. m \in Nat /\ p \in Nat \ {0}
  BY TwoPowers DEF Floats
<1>1. PICK q \in Nat, r \in 0 .. (p - 1) : q = m \div p /\ r = m % p /\ m = q * p + r
  <2> HIDE DEF m, p
  <2> QED BY <1>0, Division, Zenon
<1>2. Integral(f) = q /\ Fraction(f).mantissa = r
  <2>1. Fraction(f).mantissa = m % p
    BY DEF Fraction, Floats
  <2> QED BY <1>1, <2>1 DEF Integral
<1>3. nearest[f] \in {q, q + 1} /\ (r = 0 => nearest[f] = q)
  <2>1. nearest[f] =
          IF 2 * r > p \/ (2 * r = p /\ q % 2 = 1) THEN q + 1 ELSE q
    BY <1>2 DEF nearest
  <2> HIDE DEF m, p
  <2> QED BY <1>0, <2>1
<1> HIDE DEF p, m
<1>4. ASSUME NEW c \in Nat, m < c * p PROVE q + 1 <= c
  <2>1. q * p < c * p
    BY <1>0, <1>1, <1>4, Z3
  <2>2. \A x \in Nat, y \in Nat : x * p < y * p => x + 1 <= y
    BY <1>0, Z3
  <2> QED BY <1>1, <2>1, <2>2
<1>5. ASSUME NEW c \in Nat, m = c * p PROVE q = c /\ r = 0
  <2>1. \A x \in Nat, y \in Nat, z \in 0 .. (p - 1) : x * p = y * p + z => x = y /\ z = 0
    BY <1>0, Z3
  <2> QED BY <1>1, <1>5, <2>1
<1> QED BY <1>1, <1>3, <1>4, <1>5 DEF p, m

\* The rests of a fraction: their mantissas fit, and they are below 1.
Rests == {f \in Floats : f.mantissa <= Two[FLT_MANT_DIG] /\ f.mantissa < Two[f.exponent]}

\* f * 10 keeps the bound of mantissas, by dropping at most four bits.
LEMMA TimesTenIs ==
  ASSUME NEW f \in Rests
  PROVE  \E b \in 0 .. 4 :
           /\ b <= f.exponent
           /\ times_ten[f] = [mantissa |-> nearest[[mantissa |-> 10 * f.mantissa, exponent |-> b]],
                              exponent |-> f.exponent - b]
           /\ times_ten[f] \in Floats /\ times_ten[f].mantissa <= Two[FLT_MANT_DIG]
           /\ b = 0 \/ Two[FLT_MANT_DIG + b - 1] <= 10 * f.mantissa
<1> DEFINE M == FLT_MANT_DIG
           m == 10 * f.mantissa
           S == {k \in 0 .. 4 : m < Two[M + k] /\ (k = 0 \/ Two[M + k - 1] <= m)}
           N == {k \in Nat : m < Two[M + k]}
<1>1. /\ f \in Floats /\ f.mantissa \in Nat /\ f.exponent \in Nat /\ m \in Nat
      /\ f.mantissa <= Two[M] /\ f.mantissa < Two[f.exponent] /\ M \in Nat /\ M >= 11
  BY FltMantDigAssumption DEF Rests, Floats
<1>2. /\ \A n \in Nat : Two[n] \in Nat \ {0} /\ Two[n + 4] = 16 * Two[n]
  <2>1. \A n \in Nat : /\ n + 1 \in Nat /\ (n + 1) + 1 = n + 2 /\ n + 2 \in Nat
                       /\ (n + 2) + 1 = n + 3 /\ n + 3 \in Nat /\ (n + 3) + 1 = n + 4
    OBVIOUS
  <2>2. \A n \in Nat : Two[n + 1] = 2 * Two[n] /\ Two[n] \in Nat \ {0}
    BY TwoPowers
  <2>3. ASSUME NEW n \in Nat PROVE Two[n + 4] = 16 * Two[n]
    <3>1. Two[n + 1] = 2 * Two[n] /\ Two[n + 2] = 2 * Two[n + 1] /\ Two[n + 3] = 2 * Two[n + 2]
          /\ Two[n + 4] = 2 * Two[n + 3] /\ Two[n] \in Nat
      BY <2>1, <2>2
    <3> QED BY <3>1
  <2> QED BY <2>2, <2>3
<1>3. PICK b \in S : TRUE
  <2>1. 4 \in N
    BY <1>1, <1>2
  <2>2. PICK k \in N : \A x \in N : k <= x
    <3>1. N \in SUBSET Nat /\ N # {}
      BY <2>1
    <3> HIDE DEF N
    <3> QED BY <3>1, LeastExists
  <2>3. k \in 0 .. 4
    BY <2>1, <2>2
  <2>4. k # 0 => Two[M + k - 1] <= m
    <3> SUFFICES ASSUME k # 0 PROVE Two[M + k - 1] <= m
      OBVIOUS
    <3>1. k - 1 \in Nat /\ M + (k - 1) = M + k - 1 /\ M + k - 1 \in Nat
      BY <2>3, <1>1
    <3>2. k - 1 \notin N
      BY <2>2, <2>3
    <3>3. ~ (m < Two[M + k - 1])
      BY <3>1, <3>2
    <3>4. Two[M + k - 1] \in Nat
      BY <3>1, <1>2
    <3> HIDE DEF m
    <3> QED BY <3>3, <3>4, <1>1
  <2> QED BY <2>2, <2>3, <2>4
<1> DEFINE c == CHOOSE k \in 0 .. 4 : m < Two[M + k] /\ (k = 0 \/ Two[M + k - 1] <= m)
           g == [mantissa |-> m, exponent |-> c]
<1>4. c \in 0 .. 4 /\ m < Two[M + c] /\ (c = 0 \/ Two[M + c - 1] <= m)
  <2>1. b \in 0 .. 4 /\ m < Two[M + b] /\ (b = 0 \/ Two[M + b - 1] <= m)
    BY <1>3
  <2> HIDE DEF m, M, S
  <2> QED BY <2>1
<1>5. times_ten[f] = [mantissa |-> nearest[g], exponent |-> f.exponent - c]
  BY <1>1 DEF times_ten
<1> HIDE DEF c
<1>6. c <= f.exponent
  <2>1. CASE c = 0
    BY <1>1, <2>1
  <2>2. CASE c # 0
    <3> DEFINE x == M + c - 1
               y == f.exponent + 4
    <3>1. x \in Nat /\ y \in Nat
      BY <1>1, <1>4, <2>2
    <3>2. m < Two[y]
      <4>1. Two[y] = 16 * Two[f.exponent] /\ Two[f.exponent] \in Nat
        BY <1>1, <1>2
      <4> HIDE DEF y
      <4> QED BY <4>1, <1>1
    <3>3. Two[x] < Two[y]
      <4>1. Two[x] \in Nat /\ Two[y] \in Nat /\ Two[x] <= m /\ m \in Nat
        BY <3>1, <1>1, <1>2, <1>4, <2>2
      <4> HIDE DEF x, y, m
      <4> QED BY <3>2, <4>1
    <3>4. ~ (y <= x)
      <4>1. Two[x] \in Nat /\ Two[y] \in Nat
        BY <3>1, <1>2
      <4> HIDE DEF x, y
      <4>2. y <= x <=> Two[y] <= Two[x]
        BY <3>1, TwoGrows
      <4> QED BY <3>3, <4>1, <4>2
    <3> QED BY <1>1, <1>4, <3>1, <3>4
  <2> QED BY <2>1, <2>2
<1>7. g \in Floats /\ g.mantissa = m /\ g.exponent = c
  BY <1>1, <1>4 DEF Floats
<1>8. nearest[g] \in Nat /\ nearest[g] <= Two[M]
  <2>0. Two[M] \in Nat /\ c \in Nat /\ M \in Nat
    BY <1>1, <1>2, <1>4
  <2>1. Two[M + c] = Two[M] * Two[c]
    <3> HIDE DEF M
    <3> QED BY <2>0, TwoAdds
  <2>2. m < Two[M] * Two[c]
    BY <1>4, <2>1
  <2> HIDE DEF g, M
  <2> QED BY <1>7, <2>0, <2>2, NearestIs
<1>9. times_ten[f] \in Floats /\ times_ten[f].mantissa <= Two[M]
  <2>1. f.exponent - c \in Nat
    BY <1>1, <1>4, <1>6
  <2> HIDE DEF g, M
  <2> QED BY <1>5, <1>8, <2>1 DEF Floats
<1> QED BY <1>4, <1>5, <1>6, <1>9

\* A digit leaves such a rest again.
LEMMA AfterDigitIs ==
  ASSUME NEW f \in Rests
  PROVE  /\ after_digit[f] \in Rests
         /\ after_digit[f].exponent = times_ten[f].exponent
         /\ after_digit[f].mantissa = times_ten[f].mantissa % Two[times_ten[f].exponent]
<1> DEFINE g == times_ten[f]
           p == Two[g.exponent]
<1>1. g \in Floats /\ g.mantissa <= Two[FLT_MANT_DIG]
  BY TimesTenIs
<1>2. after_digit[f] = Fraction(g)
  BY DEF after_digit, Rests
<1> HIDE DEF g
<1>3. p \in Nat \ {0} /\ g.mantissa \in Nat /\ g.exponent \in Nat
      /\ Two[FLT_MANT_DIG] \in Nat
  BY <1>1, TwoPowers, FltMantDigAssumption DEF Floats
<1>4. Fraction(g) = [mantissa |-> g.mantissa % p, exponent |-> g.exponent]
  BY <1>1 DEF Fraction, Floats
<1> HIDE DEF p
<1>5. g.mantissa % p \in 0 .. (p - 1) /\ g.mantissa % p <= g.mantissa
  <2> DEFINE m == g.mantissa
  <2> HIDE DEF m
  <2>1. \A x \in Nat, y \in Nat : x * p + y >= y
    BY <1>3, Z3
  <2>2. m \in Nat
    BY <1>3 DEF m
  <2>3. m \div p \in Nat /\ m % p \in 0 .. (p - 1) /\ m = (m \div p) * p + (m % p)
    BY <1>3, <2>2, Division, Zenon
  <2>4. PICK q \in Nat, r \in 0 .. (p - 1) : r = m % p /\ m = q * p + r
    BY <2>3, Zenon
  <2>5. r <= m
    BY <1>3, <2>1, <2>4
  <2> QED BY <2>4, <2>5 DEF m
<1> DEFINE h == Fraction(g)
<1>6. h.mantissa = g.mantissa % p /\ h.exponent = g.exponent /\ h \in Floats
  BY <1>3, <1>4, <1>5 DEF Floats
<1>7. h.mantissa <= Two[FLT_MANT_DIG] /\ h.mantissa < Two[h.exponent]
  <2> DEFINE r == g.mantissa % p
  <2>1. r \in 0 .. (p - 1) /\ r <= g.mantissa
    BY <1>5
  <2> HIDE DEF r, h
  <2>2. h.mantissa = r
    BY <1>6 DEF r
  <2> QED BY <1>1, <1>3, <1>6, <2>1, <2>2 DEF p
<1> QED BY <1>2, <1>6, <1>7 DEF Rests, g, p

\* m is a multiple of the j-th power of two.
Divided(j, m) == \E q \in Nat : m = q * Two[j]

\* Rounding to a power of two takes no more of them than it drops bits.
LEMMA RoundedDivides ==
  ASSUME NEW m \in Nat, NEW b \in Nat, NEW j \in Nat, Divided(j, m)
  PROVE  \E k \in Nat : /\ Divided(k, nearest[[mantissa |-> m, exponent |-> b]])
                        /\ k + b >= j
                        /\ k = 0 \/ k + b = j
<1> DEFINE g == [mantissa |-> m, exponent |-> b]
<1>1. g \in Floats /\ g.mantissa = m /\ g.exponent = b
  BY DEF Floats
<1> HIDE DEF g
<1>2. nearest[g] \in Nat
  BY <1>1, NearestIs
<1>3. CASE j <= b
  <2>1. nearest[g] = nearest[g] * Two[0]
    BY <1>2, TwoPowers
  <2>2. Divided(0, nearest[g])
    BY <1>2, <2>1 DEF Divided
  <2> QED BY <1>3, <2>2 DEF g
<1>4. CASE b <= j
  <2>1. PICK q \in Nat : m = q * Two[j]
    BY DEF Divided
  <2>2. j - b \in Nat /\ (j - b) + b = j
    BY <1>4
  <2>3. Two[(j - b) + b] = Two[j - b] * Two[b]
    BY <2>2, TwoAdds
  <2>4. Two[j - b] \in Nat /\ Two[b] \in Nat
    BY <2>2, TwoPowers
  <2> DEFINE c == q * Two[j - b]
  <2>5. c \in Nat
    <3>1. \A x \in Nat, y \in Nat : x * y \in Nat
      BY Z3
    <3> QED BY <2>4, <3>1
  <2>6. m = c * Two[b]
    <3>1. \A x \in Nat, y \in Nat, z \in Nat : x * (y * z) = (x * y) * z
      BY Z3
    <3> QED BY <2>1, <2>2, <2>3, <2>4, <3>1
  <2> HIDE DEF c
  <2>7. nearest[g] = c
    BY <1>1, <2>5, <2>6, NearestIs
  <2>8. Divided(j - b, nearest[g])
    BY <2>7 DEF Divided, c
  <2> QED BY <2>2, <2>8 DEF g
<1> QED BY <1>3, <1>4

\* Nor does the part behind the point take any.
LEMMA FractionDivides ==
  ASSUME NEW m \in Nat, NEW e \in Nat, NEW k \in Nat, Divided(k, m)
  PROVE  Divided(k, m % Two[e])
<1> DEFINE p == Two[e]
<1>1. p \in Nat \ {0} /\ Two[k] \in Nat \ {0}
  BY TwoPowers
<1>2. PICK q \in Nat : m = q * Two[k]
  BY DEF Divided
<1>3. CASE k <= e
  <2>1. e - k \in Nat /\ (e - k) + k = e
    BY <1>3
  <2>2. Two[(e - k) + k] = Two[e - k] * Two[k]
    BY <2>1, TwoAdds
  <2> DEFINE s == Two[e - k]
             t == Two[k]
  <2>3. s \in Nat \ {0} /\ t \in Nat \ {0} /\ p = s * t
    BY <1>1, <2>1, <2>2, TwoPowers
  <2> HIDE DEF s, t, p
  <2>4. PICK x \in Nat, y \in 0 .. (s - 1) : q = x * s + y
    BY <2>3, Division, Zenon
  <2>5. m = x * p + y * t /\ y * t \in 0 .. (p - 1)
    <3>1. \A a \in Nat, b \in Nat : b < s => (a * s + b) * t = a * (s * t) + b * t /\ b * t \in Nat /\ b * t < s * t
      BY <2>3, Z3
    <3>2. y \in Nat /\ y < s /\ m = q * t
      BY <1>2, <2>3, <2>4 DEF t
    <3>3. m = x * (s * t) + y * t /\ y * t \in Nat /\ y * t < s * t
      BY <2>4, <3>1, <3>2
    <3> QED BY <1>1, <2>3, <3>3
  <2>6. m % p = y * t
    <3> DEFINE r == y * t
    <3>1. r \in 0 .. (p - 1) /\ m = x * p + r
      BY <2>5
    <3> HIDE DEF r
    <3>2. r = m % p
      BY <2>3, <1>1, <3>1, Z3
    <3> QED BY <3>2 DEF r
  <2> QED BY <2>4, <2>6 DEF Divided, p, t
<1>4. CASE e <= k
  <2>1. k - e \in Nat /\ (k - e) + e = k
    BY <1>4
  <2>2. Two[(k - e) + e] = Two[k - e] * Two[e]
    BY <2>1, TwoAdds
  <2> DEFINE s == Two[k - e]
  <2>3. s \in Nat /\ Two[k] = s * p
    BY <2>1, <2>2, TwoPowers
  <2> HIDE DEF s, p
  <2>4. m = (q * s) * p + 0 /\ q * s \in Nat
    <3>1. \A x \in Nat : q * (s * x) = (q * s) * x + 0 /\ q * s \in Nat
      BY <2>3, Z3
    <3> QED BY <1>1, <1>2, <2>3, <3>1
  <2>5. m % p = 0
    <3> DEFINE x == q * s
    <3>1. x \in Nat /\ m = x * p + 0 /\ 0 \in 0 .. (p - 1)
      BY <1>1, <2>4
    <3> HIDE DEF x
    <3> QED BY <1>1, <3>1, Z3
  <2>6. 0 = 0 * Two[k]
    BY <1>1
  <2> QED BY <2>5, <2>6 DEF Divided, p
<1> QED BY <1>3, <1>4

\* Every digit of a fraction takes a power of two of what its mantissa lacks.
LEMMA DigitDivides ==
  ASSUME NEW f \in Rests, NEW j \in Nat, Divided(j, f.mantissa)
  PROVE  \E k \in Nat : /\ Divided(k, after_digit[f].mantissa)
                        /\ k + f.exponent >= j + 1 + after_digit[f].exponent
                        /\ after_digit[f].exponent <= f.exponent
<1> DEFINE h == after_digit[f]
           m == 10 * f.mantissa
<1>1. f.mantissa \in Nat /\ f.exponent \in Nat /\ m \in Nat
  BY DEF Rests, Floats
<1>2. PICK b \in 0 .. 4 :
        /\ b <= f.exponent
        /\ times_ten[f] = [mantissa |-> nearest[[mantissa |-> m, exponent |-> b]],
                           exponent |-> f.exponent - b]
        /\ times_ten[f] \in Floats
  BY TimesTenIs
<1>3. Divided(j + 1, m)
  <2>1. PICK q \in Nat : f.mantissa = q * Two[j]
    BY DEF Divided
  <2>2. Two[j + 1] = 2 * Two[j] /\ Two[j] \in Nat
    BY TwoPowers
  <2>3. \A x \in Nat : 10 * (q * x) = (5 * q) * (2 * x)
    BY Z3
  <2>4. m = (5 * q) * Two[j + 1] /\ 5 * q \in Nat
    BY <2>1, <2>2, <2>3
  <2> HIDE DEF m
  <2> QED BY <2>4 DEF Divided
<1>4. PICK k \in Nat : /\ Divided(k, nearest[[mantissa |-> m, exponent |-> b]])
                       /\ k + b >= j + 1
  <2> HIDE DEF m
  <2> QED BY <1>1, <1>2, <1>3, RoundedDivides
<1> DEFINE g == times_ten[f]
<1>5. /\ g.mantissa = nearest[[mantissa |-> m, exponent |-> b]] /\ g.exponent = f.exponent - b
      /\ g.mantissa \in Nat /\ g.exponent \in Nat
  <2>1. g \in Floats
    BY <1>2
  <2> QED BY <1>2, <2>1 DEF Floats
<1>6. h.mantissa = g.mantissa % Two[g.exponent] /\ h.exponent = g.exponent
  BY AfterDigitIs
<1>7. Divided(k, h.mantissa)
  <2>1. Divided(k, g.mantissa)
    BY <1>4, <1>5
  <2> HIDE DEF g, h
  <2> QED BY <1>5, <1>6, <2>1, FractionDivides
<1>8. k + f.exponent >= j + 1 + h.exponent /\ h.exponent <= f.exponent
  <2> HIDE DEF g, h
  <2> QED BY <1>1, <1>2, <1>4, <1>5, <1>6
<1> QED BY <1>7, <1>8

\* A recursive function that applies another one again and again.
LEMMA RecursionIs ==
  ASSUME NEW S, NEW x \in S, NEW G, \A y \in S : G[y] \in S,
         NEW r, r = CHOOSE w : w = [n \in Nat |-> IF n = 0 THEN x ELSE G[w[n - 1]]]
  PROVE  IsIteration(r, x, [y \in S |-> G[y]], S)
<1> DEFINE F == [y \in S |-> G[y]]
           P(w) == [n \in Nat |-> IF n = 0 THEN x ELSE G[w[n - 1]]]
<1>1. F \in [S -> S]
  OBVIOUS
<1>2. PICK g : IsIteration(g, x, F, S)
  <2> HIDE DEF F
  <2> QED BY <1>1, Iterates
<1>3. /\ g[0] = x /\ \A n \in Nat : g[n] \in S /\ g[n + 1] = F[g[n]]
      /\ g = [n \in Nat |-> g[n]]
  <2> HIDE DEF F
  <2> QED BY <1>2 DEF IsIteration
<1>4. g = P(g)
  <2>1. ASSUME NEW n \in Nat PROVE g[n] = P(g)[n]
    <3>1. CASE n = 0
      BY <1>3, <3>1
    <3>2. CASE n # 0
      <4>1. n - 1 \in Nat /\ (n - 1) + 1 = n
        BY <3>2
      <4>2. g[n] = F[g[n - 1]] /\ g[n - 1] \in S
        BY <1>3, <4>1
      <4> QED BY <3>2, <4>2
    <3> QED BY <3>1, <3>2
  <2> QED BY <1>3, <2>1
<1>5. r = P(r)
  <2>1. r = CHOOSE w : w = P(w)
    OBVIOUS
  <2> HIDE DEF P
  <2> QED BY <1>4, <2>1
<1>6. r[0] = x
  <2>1. P(r)[0] = x
    OBVIOUS
  <2> HIDE DEF P
  <2> QED BY <1>5, <2>1
<1>7. ASSUME NEW n \in Nat PROVE r[n + 1] = G[r[n]]
  <2>1. n + 1 \in Nat /\ n + 1 # 0 /\ (n + 1) - 1 = n
    OBVIOUS
  <2>2. P(r)[n + 1] = G[r[n]]
    BY <2>1
  <2> HIDE DEF P
  <2> QED BY <1>5, <2>2
<1> DEFINE R == {n \in Nat : r[n] \in S}
<1>8. R = Nat
  <2>1. 0 \in R
    BY <1>6
  <2>2. ASSUME NEW n \in R PROVE n + 1 \in R
    BY <1>7
  <2>3. R \in SUBSET Nat
    OBVIOUS
  <2> HIDE DEF R
  <2> QED BY <2>1, <2>2, <2>3, SetInduction
<1>9. \A n \in Nat : r[n] \in S
  BY <1>8
<1>10. r = [n \in Nat |-> r[n]]
  <2>1. P(r) = [n \in Nat |-> P(r)[n]]
    OBVIOUS
  <2> HIDE DEF P
  <2> QED BY <1>5, <2>1
<1>11. \A n \in Nat : r[n + 1] = F[r[n]]
  <2>1. \A y \in S : F[y] = G[y]
    OBVIOUS
  <2> QED BY <1>7, <1>9, <2>1
<1> DEFINE g1 == [n \in Nat |-> r[n]]
<1>12. g1 \in [Nat -> S]
  BY <1>9
<1> HIDE DEF F, g1
<1>13. r \in [Nat -> S]
  BY <1>10, <1>12 DEF g1
<1>14. IsIteration(r, x, F, S)
  BY <1>6, <1>11, <1>13 DEF IsIteration
<1> QED BY <1>14 DEF F

LEMMA RestsIterate ==
  ASSUME NEW f \in Rests
  PROVE  /\ rests(f)[0] = f
         /\ \A n \in Nat : rests(f)[n] \in Rests /\ rests(f)[n + 1] = after_digit[rests(f)[n]]
<1>1. \A y \in Rests : after_digit[y] \in Rests
  BY AfterDigitIs
<1> DEFINE rest[k \in Nat] == IF k = 0 THEN f ELSE after_digit[rest[k - 1]]
<1>2. rests(f) = rest
  BY DEF rests
<1>3. rest = CHOOSE w : w = [n \in Nat |-> IF n = 0 THEN f ELSE after_digit[w[n - 1]]]
  OBVIOUS
<1> HIDE DEF rest
<1>4. IsIteration(rest, f, [y \in Rests |-> after_digit[y]], Rests)
  BY <1>1, <1>3, RecursionIs
<1> QED BY <1>2, <1>4 DEF IsIteration

\* from_float_round ends: a fraction has no more decimal digits than binary ones.
LEMMA FractionEnds ==
  ASSUME NEW f \in Rests
  PROVE  rests(f)[f.exponent].mantissa = 0
<1> DEFINE r == rests(f)
           E == f.exponent
           S == {n \in Nat : /\ r[n].exponent <= E
                             /\ \E j \in Nat : Divided(j, r[n].mantissa) /\ j + E >= n + r[n].exponent}
<1>1. /\ r[0] = f
      /\ \A n \in Nat : r[n] \in Rests /\ r[n + 1] = after_digit[r[n]]
  BY RestsIterate
<1> HIDE DEF r
<1>2. \A n \in Nat : r[n].mantissa \in Nat /\ r[n].exponent \in Nat /\ r[n].mantissa < Two[r[n].exponent]
  BY <1>1 DEF Rests, Floats
<1>3. E \in Nat
  BY DEF Rests, Floats
<1> HIDE DEF E
<1>4. 0 \in S
  <2>1. f.mantissa \in Nat /\ f.mantissa = f.mantissa * Two[0]
    BY <1>1, <1>2, TwoPowers
  <2>2. Divided(0, f.mantissa)
    BY <2>1 DEF Divided
  <2> QED BY <1>1, <1>3, <2>2 DEF E
<1>5. ASSUME NEW n \in S PROVE n + 1 \in S
  <2>1. PICK j \in Nat : Divided(j, r[n].mantissa) /\ j + E >= n + r[n].exponent
    OBVIOUS
  <2>2. r[n] \in Rests /\ r[n + 1] = after_digit[r[n]] /\ n + 1 \in Nat /\ r[n].exponent <= E
    BY <1>1
  <2>3. PICK k \in Nat : /\ Divided(k, r[n + 1].mantissa)
                         /\ k + r[n].exponent >= j + 1 + r[n + 1].exponent
                         /\ r[n + 1].exponent <= r[n].exponent
    BY <2>1, <2>2, DigitDivides
  <2>4. k + E >= (n + 1) + r[n + 1].exponent /\ r[n + 1].exponent <= E
    BY <1>2, <1>3, <2>1, <2>2, <2>3
  <2> QED BY <2>2, <2>3, <2>4
<1>6. S = Nat
  <2>1. S \in SUBSET Nat
    OBVIOUS
  <2> HIDE DEF S
  <2> QED BY <1>4, <1>5, <2>1, SetInduction
<1>7. PICK j \in Nat : Divided(j, r[E].mantissa) /\ j + E >= E + r[E].exponent
  BY <1>3, <1>6
<1>8. PICK q \in Nat : r[E].mantissa = q * Two[j]
  BY <1>7 DEF Divided
<1>9. Two[r[E].exponent] <= Two[j] /\ Two[j] \in Nat \ {0} /\ Two[r[E].exponent] \in Nat
  <2>1. r[E].exponent \in Nat /\ r[E].exponent <= j
    BY <1>2, <1>3, <1>7
  <2> QED BY <2>1, TwoGrows, TwoPowers
<1>10. q * Two[j] < Two[j]
  BY <1>2, <1>3, <1>8, <1>9
<1>11. q = 0
  <2>1. \A x \in Nat \ {0}, y \in Nat : y * x < x => y = 0
    BY Z3
  <2> QED BY <1>9, <1>10, <2>1
<1> QED BY <1>8, <1>9, <1>11 DEF r, E

-----------------------------------------------------------------------------
(* How far the digits of a fraction are from it.                           *)

\* What is rounded moves by half a unit at most.
LEMMA NearestNear ==
  ASSUME NEW f \in Floats
  PROVE  LET x == nearest[f] * Two[f.exponent]
         IN  2 * x <= 2 * f.mantissa + Two[f.exponent] /\ 2 * f.mantissa <= 2 * x + Two[f.exponent]
<1> DEFINE p == Two[f.exponent]
           m == f.mantissa
<1>1. m \in Nat /\ p \in Nat \ {0}
  BY TwoPowers DEF Floats
<1>2. PICK q \in Nat, r \in 0 .. (p - 1) : q = m \div p /\ r = m % p /\ m = q * p + r
  <2> HIDE DEF m, p
  <2> QED BY <1>1, Division, Zenon
<1>3. Integral(f) = q /\ Fraction(f).mantissa = r
  <2>1. Fraction(f).mantissa = m % p
    BY DEF Fraction, Floats
  <2> QED BY <1>2, <2>1 DEF Integral
<1>4. nearest[f] = IF 2 * r > p \/ (2 * r = p /\ q % 2 = 1) THEN q + 1 ELSE q
  BY <1>3 DEF nearest
<1> HIDE DEF p, m
<1>5. \/ nearest[f] = q /\ 2 * r <= p
      \/ nearest[f] = q + 1 /\ p <= 2 * r
  <2> DEFINE up == 2 * r > p \/ (2 * r = p /\ q % 2 = 1)
  <2>1. up => p <= 2 * r
    BY <1>1, <1>2
  <2>2. ~ up => 2 * r <= p
    BY <1>1, <1>2
  <2>3. nearest[f] = IF up THEN q + 1 ELSE q
    BY <1>4
  <2> HIDE DEF up
  <2> QED BY <2>1, <2>2, <2>3
<1> DEFINE a == q * p
<1>6. a \in Nat /\ (q + 1) * p = a + p
  BY <1>1, Z3
<1>7. m = a + r
  BY <1>2
<1> HIDE DEF a
<1>8. CASE nearest[f] = q /\ 2 * r <= p
  <2>1. nearest[f] * p = a
    BY <1>8 DEF a
  <2>2. 2 * a <= 2 * m + p /\ 2 * m <= 2 * a + p
    BY <1>1, <1>2, <1>6, <1>7, <1>8
  <2> QED BY <2>1, <2>2, Zenon DEF m, p
<1>9. CASE nearest[f] = q + 1 /\ p <= 2 * r
  <2>1. nearest[f] * p = a + p
    BY <1>6, <1>9, Zenon
  <2>2. 2 * (a + p) <= 2 * m + p /\ 2 * m <= 2 * (a + p) + p
    BY <1>1, <1>2, <1>6, <1>7, <1>9
  <2> QED BY <2>1, <2>2, Zenon DEF m, p
<1> QED BY <1>5, <1>8, <1>9

\* 2^11 is at most a float's range of mantissas.
LEMMA MantissaBits == Two[11] = 2048 /\ Two[FLT_MANT_DIG] \in Nat /\ Two[FLT_MANT_DIG] >= 2048
<1>1. /\ Two[1] = 2 /\ Two[2] = 4 /\ Two[3] = 8 /\ Two[4] = 16 /\ Two[5] = 32
  <2>1. \A n \in Nat : Two[n + 1] = 2 * Two[n]
    BY TwoPowers
  <2>2. /\ Two[0 + 1] = 2 * Two[0] /\ Two[1 + 1] = 2 * Two[1] /\ Two[2 + 1] = 2 * Two[2]
        /\ Two[3 + 1] = 2 * Two[3] /\ Two[4 + 1] = 2 * Two[4]
    BY <2>1
  <2>3. 0 + 1 = 1 /\ 1 + 1 = 2 /\ 2 + 1 = 3 /\ 3 + 1 = 4 /\ 4 + 1 = 5
    OBVIOUS
  <2> QED BY <2>2, <2>3, TwoPowers
<1>2. Two[11] = 2048
  <2>1. Two[5 + 5] = Two[5] * Two[5] /\ Two[10 + 1] = 2 * Two[10]
    BY TwoAdds, TwoPowers
  <2>2. 5 + 5 = 10 /\ 10 + 1 = 11
    OBVIOUS
  <2> QED BY <1>1, <2>1, <2>2
<1>3. FLT_MANT_DIG \in Nat /\ 11 <= FLT_MANT_DIG
  BY FltMantDigAssumption
<1>4. Two[11] <= Two[FLT_MANT_DIG] /\ Two[FLT_MANT_DIG] \in Nat
  BY <1>3, TwoGrows, TwoPowers
<1> QED BY <1>2, <1>4

\* A product with ten stays below ten, and is off by less than 5 in 1024.
LEMMA TimesTenNear ==
  ASSUME NEW f \in Rests
  PROVE  LET g == times_ten[f]
             u == Two[f.exponent]
             v == Two[g.exponent]
         IN  /\ g.mantissa < 10 * v
             /\ \E q \in Nat \ {0} :
                  /\ u = q * v
                  /\ 1024 * (g.mantissa * q - 10 * f.mantissa) <= 5 * u
                  /\ -(5 * u) <= 1024 * (g.mantissa * q - 10 * f.mantissa)
<1> DEFINE m == 10 * f.mantissa
           u == Two[f.exponent]
           g == times_ten[f]
           v == Two[g.exponent]
<1>1. PICK b \in 0 .. 4 :
        /\ b <= f.exponent
        /\ g = [mantissa |-> nearest[[mantissa |-> m, exponent |-> b]], exponent |-> f.exponent - b]
        /\ b = 0 \/ Two[FLT_MANT_DIG + b - 1] <= m
  BY TimesTenIs
<1> DEFINE q == Two[b]
           t == nearest[[mantissa |-> m, exponent |-> b]]
<1>2. /\ f.mantissa \in Nat /\ f.exponent \in Nat /\ u \in Nat \ {0} /\ f.mantissa < u /\ b \in Nat
      /\ m \in Nat /\ m + 10 <= 10 * u
  <2>1. f.mantissa \in Nat /\ f.exponent \in Nat /\ f.mantissa < u /\ b \in Nat
    BY DEF Rests, Floats
  <2>2. u \in Nat \ {0}
    BY <2>1, TwoPowers
  <2> HIDE DEF u
  <2> QED BY <2>1, <2>2
<1>3. g.mantissa = t /\ g.exponent = f.exponent - b /\ f.exponent - b \in Nat
  BY <1>1, <1>2
<1>4. v \in Nat \ {0} /\ q \in Nat \ {0} /\ u = q * v
  <2>1. f.exponent = b + (f.exponent - b)
    BY <1>2
  <2>2. Two[b + (f.exponent - b)] = q * Two[f.exponent - b]
    BY <1>2, <1>3, TwoAdds
  <2> QED BY <1>2, <1>3, <2>1, <2>2, TwoPowers
<1>5. q <= 16 /\ (b = 0 => q = 1)
  <2>1. Two[b] <= Two[4]
    BY <1>2, TwoGrows
  <2>2. Two[4] = 16
    <3>1. Two[0 + 1] = 2 * Two[0] /\ Two[1 + 1] = 2 * Two[1] /\ Two[2 + 1] = 2 * Two[2] /\ Two[3 + 1] = 2 * Two[3]
      BY TwoPowers
    <3>2. 0 + 1 = 1 /\ 1 + 1 = 2 /\ 2 + 1 = 3 /\ 3 + 1 = 4
      OBVIOUS
    <3> QED BY <3>1, <3>2, TwoPowers
  <2> QED BY <2>1, <2>2, TwoPowers
<1>6. /\ t \in Nat /\ 2 * (t * q) <= 2 * m + q /\ 2 * m <= 2 * (t * q) + q
      /\ b = 0 => t = m
  <2> DEFINE h == [mantissa |-> m, exponent |-> b]
  <2>1. h \in Floats /\ h.mantissa = m /\ h.exponent = b
    BY <1>2 DEF Floats
  <2> HIDE DEF h, m
  <2>2. nearest[h] \in Nat /\ 2 * (nearest[h] * q) <= 2 * m + q /\ 2 * m <= 2 * (nearest[h] * q) + q
    BY <2>1, NearestIs, NearestNear
  <2>3. b = 0 => nearest[h] = m
    <3> SUFFICES ASSUME b = 0 PROVE nearest[h] = m
      OBVIOUS
    <3>1. m \in Nat /\ m = m * 1 /\ Two[b] = 1
      BY <1>2, TwoPowers
    <3> QED BY <2>1, <3>1, NearestIs
  <2> QED BY <2>2, <2>3 DEF h
<1>7. b # 0 => 1024 * q <= m
  <2> SUFFICES ASSUME b # 0 PROVE 1024 * q <= m
    OBVIOUS
  <2>1. b - 1 \in Nat /\ (b - 1) + 1 = b /\ FLT_MANT_DIG \in Nat
        /\ FLT_MANT_DIG + (b - 1) = FLT_MANT_DIG + b - 1
    BY <1>2, FltMantDigAssumption
  <2> DEFINE w == Two[b - 1]
             F == Two[FLT_MANT_DIG]
  <2>2. q = 2 * w /\ w \in Nat /\ F * w <= m
    <3>1. Two[(b - 1) + 1] = 2 * w /\ w \in Nat
      BY <2>1, TwoPowers
    <3>2. Two[FLT_MANT_DIG + (b - 1)] = F * w
      BY <2>1, TwoAdds
    <3> QED BY <1>1, <2>1, <3>1, <3>2
  <2>3. F \in Nat /\ F >= 2048
    BY MantissaBits
  <2> HIDE DEF w, F, m, q
  <2>4. 2048 * w <= F * w /\ F * w \in Nat
    BY <2>2, <2>3, Z3
  <2> DEFINE y == F * w
  <2>5. 2048 * w <= y /\ y \in Nat /\ y <= m
    BY <2>2, <2>4
  <2> HIDE DEF y
  <2> QED BY <1>2, <2>2, <2>5
<1>8. 1024 * q <= 10 * u \/ t * q = m
  <2>1. CASE b = 0
    <3>1. t * q = m * 1
      BY <1>5, <1>6, <2>1, Zenon
    <3> QED BY <1>2, <3>1
  <2>2. CASE b # 0
    BY <1>2, <1>4, <1>7, <2>2
  <2> QED BY <2>1, <2>2
<1> HIDE DEF m, u, g, v, q, t
<1> DEFINE x == t * q
<1>9. x \in Int
  BY <1>4, <1>6
<1>10. 1024 * (x - m) <= 5 * u /\ -(5 * u) <= 1024 * (x - m)
  <2>1. 2 * x <= 2 * m + q /\ 2 * m <= 2 * x + q /\ (1024 * q <= 10 * u \/ x = m)
    BY <1>6, <1>8
  <2> HIDE DEF x
  <2> QED BY <1>2, <1>4, <1>9, <2>1
<1>11. t < 10 * v
  <2>1. x < 10 * u
    <3>1. 2 * x <= 2 * m + q
      BY <1>6
    <3> HIDE DEF x
    <3> QED BY <1>2, <1>4, <1>5, <1>9, <3>1
  <2>2. \A a \in Nat, c \in Nat, d \in Nat \ {0} : a * d < 10 * (d * c) => a < 10 * c
    BY Z3
  <2>3. t * q < 10 * (q * v)
    BY <1>4, <2>1 DEF x
  <2> QED BY <1>4, <1>6, <2>2, <2>3
<1>12. g.mantissa < 10 * v /\ 1024 * (g.mantissa * q - m) <= 5 * u /\ -(5 * u) <= 1024 * (g.mantissa * q - m)
  BY <1>3, <1>10, <1>11 DEF x
<1> QED BY <1>4, <1>12 DEF m, u, g, v

\* A digit and what it leaves of the fraction.
LEMMA DigitNear ==
  ASSUME NEW f \in Rests
  PROVE  LET d == Integral(times_ten[f])
             h == after_digit[f]
             u == Two[f.exponent]
         IN  /\ d \in 0 .. 9
             /\ \E q \in Nat \ {0}, e \in Int :
                  /\ u = q * Two[h.exponent]
                  /\ 10 * f.mantissa = (d * u + q * h.mantissa) - e
                  /\ 1024 * e <= 5 * u /\ -(5 * u) <= 1024 * e
<1> DEFINE g == times_ten[f]
           h == after_digit[f]
           u == Two[f.exponent]
           v == Two[g.exponent]
           d == Integral(g)
           t == g.mantissa
           m == f.mantissa
<1>1. /\ t \in Nat /\ v \in Nat \ {0} /\ t < 10 * v /\ m \in Nat /\ u \in Nat
  <2>1. g \in Floats /\ t < 10 * v
    BY TimesTenIs, TimesTenNear
  <2> HIDE DEF g
  <2> QED BY <2>1, TwoPowers DEF Rests, Floats
<1>2. PICK q \in Nat \ {0} : u = q * v /\ 1024 * (t * q - 10 * m) <= 5 * u /\ -(5 * u) <= 1024 * (t * q - 10 * m)
  BY TimesTenNear
<1>3. h.exponent = g.exponent /\ h.mantissa = t % v /\ d = t \div v
  BY AfterDigitIs DEF Integral
<1> HIDE DEF g, h, u, v, d, t, m
<1>4. d \in Nat /\ h.mantissa \in 0 .. (v - 1) /\ t = d * v + h.mantissa
  <2>1. t \div v \in Nat /\ t % v \in 0 .. (v - 1) /\ t = (t \div v) * v + (t % v)
    BY <1>1, Division, Zenon
  <2> QED BY <1>3, <2>1, Zenon
<1>5. d <= 9
  <2>1. d * v < 10 * v
    <3> DEFINE a == d * v
    <3>1. a \in Nat
      BY <1>1, <1>4
    <3>2. t = a + h.mantissa
      BY <1>4
    <3> HIDE DEF a
    <3>3. a < 10 * v
      BY <1>1, <1>4, <3>1, <3>2
    <3> QED BY <3>3 DEF a
  <2>2. \A x \in Nat : x * v < 10 * v => x <= 9
    BY <1>1, Z3
  <2> QED BY <1>4, <2>1, <2>2
<1> DEFINE e == t * q - 10 * m
<1>6. e \in Int /\ 10 * m = t * q - e
  <2> DEFINE a == t * q
  <2>1. a \in Int
    BY <1>1
  <2>2. e = a - 10 * m
    OBVIOUS
  <2> HIDE DEF a, e
  <2>3. e \in Int /\ 10 * m = a - e
    BY <1>1, <2>1, <2>2
  <2> QED BY <2>3 DEF a
<1> HIDE DEF e
<1>7. t * q = d * u + q * h.mantissa
  <2>1. \A r \in Nat : (d * v + r) * q = d * (q * v) + q * r
    BY <1>1, <1>4, Z3
  <2>2. (d * v + h.mantissa) * q = d * (q * v) + q * h.mantissa
    BY <1>4, <2>1
  <2> QED BY <1>2, <1>4, <2>2, Zenon
<1>8. 10 * m = (d * u + q * h.mantissa) - e
  <2> DEFINE a == d * u + q * h.mantissa
  <2>1. t * q = a
    BY <1>7
  <2> HIDE DEF a
  <2>2. 10 * m = a - e
    BY <1>6, <2>1, Zenon
  <2> QED BY <2>2 DEF a
<1>9. d \in 0 .. 9
  BY <1>4, <1>5
<1>10. u = q * Two[h.exponent]
  BY <1>2, <1>3 DEF v
<1>11. 1024 * e <= 5 * u /\ -(5 * u) <= 1024 * e
  BY <1>2 DEF e
<1> QED BY <1>6, <1>8, <1>9, <1>10, <1>11 DEF d, h, u, m, g

-----------------------------------------------------------------------------
(* Decimal numerals.                                                       *)

\* A function on the natural numbers that grows at every step.
LEMMA GrowsEverywhere ==
  ASSUME NEW f, \A n \in Nat : f[n] \in Nat /\ f[n] < f[n + 1]
  PROVE  \A a \in Nat, b \in Nat : a <= b <=> f[a] <= f[b]
<1>1. ASSUME NEW a \in Nat, NEW b \in Nat, a < b PROVE f[a] < f[b]
  <2> DEFINE S == {d \in Nat : f[a] < f[a + d + 1]}
  <2>1. 0 \in S
    <3>1. a + 0 + 1 = a + 1
      OBVIOUS
    <3> QED BY <3>1
  <2>2. ASSUME NEW d \in S PROVE d + 1 \in S
    <3>1. a + d + 1 \in Nat /\ (a + d + 1) + 1 = a + (d + 1) + 1 /\ d \in Nat
      OBVIOUS
    <3>2. f[a + d + 1] < f[(a + d + 1) + 1] /\ f[a + d + 1] \in Nat /\ f[(a + d + 1) + 1] \in Nat
          /\ f[a] \in Nat /\ f[a] < f[a + d + 1]
      BY <3>1
    <3>3. f[a] < f[a + (d + 1) + 1]
      BY <3>1, <3>2
    <3> QED BY <3>1, <3>3
  <2>3. S = Nat
    <3>1. S \in SUBSET Nat
      OBVIOUS
    <3> HIDE DEF S
    <3> QED BY <2>1, <2>2, <3>1, SetInduction
  <2>4. b - a - 1 \in Nat /\ a + (b - a - 1) + 1 = b
    BY <1>1
  <2>5. b - a - 1 \in S
    BY <2>3, <2>4
  <2> QED BY <2>4, <2>5
<1>2. ASSUME NEW a \in Nat, NEW b \in Nat PROVE a <= b <=> f[a] <= f[b]
  <2>1. f[a] \in Nat /\ f[b] \in Nat
    OBVIOUS
  <2>2. (a < b => f[a] < f[b]) /\ (b < a => f[b] < f[a])
    BY <1>1
  <2>3. a < b \/ a = b \/ b < a
    OBVIOUS
  <2> QED BY <2>1, <2>2, <2>3
<1> QED BY <1>2

LEMMA TenGrows == \A a \in Nat, b \in Nat : a <= b <=> Ten[a] <= Ten[b]
<1>1. \A n \in Nat : Ten[n] \in Nat /\ Ten[n] < Ten[n + 1]
  <2>1. ASSUME NEW n \in Nat PROVE Ten[n] \in Nat /\ Ten[n] < Ten[n + 1]
    <3>1. Ten[n] \in Nat \ {0} /\ Ten[n + 1] = 10 * Ten[n]
      BY TenPowers
    <3> QED BY <3>1
  <2> QED BY <2>1
<1> QED BY <1>1, GrowsEverywhere

LEMMA TenExceeds == \A n \in Nat : n < Ten[n]
<1> DEFINE S == {n \in Nat : n < Ten[n]}
<1>1. 0 \in S
  BY TenPowers
<1>2. ASSUME NEW n \in S PROVE n + 1 \in S
  <2>1. n \in Nat /\ n + 1 \in Nat /\ Ten[n] \in Nat \ {0} /\ Ten[n + 1] = 10 * Ten[n] /\ n < Ten[n]
    BY TenPowers
  <2>2. n + 1 < Ten[n + 1]
    BY <2>1
  <2> QED BY <2>1, <2>2
<1>3. S = Nat
  <2>1. S \in SUBSET Nat
    OBVIOUS
  <2> HIDE DEF S
  <2> QED BY <1>1, <1>2, <2>1, SetInduction
<1> QED BY <1>3

\* How many digits a number has, and which.
DigitsOf(n) == IF n = 0 THEN 1 ELSE digit_count(n)
Digits(n)   == [p \in 1 .. DigitsOf(n) |-> ZERO + ((n \div Ten[DigitsOf(n) - p]) % 10)]

IsSize(n, s) == s \in Nat \ {0} /\ n < Ten[s] /\ (s = 1 \/ Ten[s - 1] <= n)

LEMMA SizeIs ==
  ASSUME NEW n \in Nat
  PROVE  IsSize(n, DigitsOf(n))
<1>0. Ten[0] = 1 /\ Ten[1] = 10 /\ \A k \in Nat : Ten[k] \in Nat
  <2>1. 0 + 1 = 1 /\ 0 \in Nat
    OBVIOUS
  <2>2. Ten[0 + 1] = 10 * Ten[0] /\ Ten[0] = 1
    BY <2>1, TenPowers
  <2> QED BY <2>1, <2>2, TenPowers
<1>1. CASE n = 0
  BY <1>0, <1>1 DEF IsSize, DigitsOf
<1>2. CASE n # 0
  <2> DEFINE S == {k \in Nat : n < Ten[k]}
  <2>1. PICK s \in S : \A x \in S : s <= x
    <3>1. n \in S
      BY TenExceeds
    <3>2. S \in SUBSET Nat /\ S # {}
      BY <3>1
    <3> HIDE DEF S
    <3> QED BY <3>2, LeastExists
  <2>2. s # 0
    <3>1. s = 0 => n < 1
      BY <1>0, <2>1
    <3> QED BY <1>2, <3>1
  <2>3. s \in 1 .. n
    <3>1. n \in S
      BY TenExceeds
    <3>2. s \in Nat /\ s <= n
      BY <2>1, <3>1
    <3> QED BY <2>2, <3>2
  <2>4. Ten[s - 1] <= n
    <3>1. s - 1 \in Nat /\ ~ (s <= s - 1)
      BY <2>3
    <3>2. s - 1 \notin S
      BY <2>1, <3>1
    <3>3. Ten[s - 1] \in Nat
      BY <1>0, <3>1
    <3> QED BY <3>1, <3>2, <3>3
  <2> DEFINE d == CHOOSE k \in 1 .. n : Ten[k - 1] <= n /\ n < Ten[k]
  <2>5. d \in 1 .. n /\ Ten[d - 1] <= n /\ n < Ten[d]
    <3>1. s \in 1 .. n /\ Ten[s - 1] <= n /\ n < Ten[s]
      BY <2>1, <2>3, <2>4
    <3> QED BY <3>1
  <2>6. DigitsOf(n) = d
    BY <1>2 DEF DigitsOf, digit_count
  <2> HIDE DEF d
  <2> QED BY <2>5, <2>6 DEF IsSize
<1> QED BY <1>1, <1>2

LEMMA SizeTells ==
  ASSUME NEW n \in Nat, NEW s, IsSize(n, s), NEW t, IsSize(n, t)
  PROVE  s = t
<1>1. ASSUME NEW a, IsSize(n, a), NEW b, IsSize(n, b), a < b PROVE FALSE
  <2>1. a \in Nat \ {0} /\ b \in Nat \ {0} /\ b - 1 \in Nat /\ a <= b - 1 /\ b # 1
    BY <1>1 DEF IsSize
  <2>2. Ten[a] <= Ten[b - 1]
    BY <2>1, TenGrows
  <2>3. n < Ten[a] /\ Ten[b - 1] <= n
    BY <1>1, <2>1 DEF IsSize
  <2>4. Ten[a] \in Nat /\ Ten[b - 1] \in Nat
    BY <2>1, TenPowers
  <2> QED BY <2>2, <2>3, <2>4
<1>2. s \in Nat /\ t \in Nat
  BY DEF IsSize
<1>3. ~ (s < t) /\ ~ (t < s)
  BY <1>1
<1> QED BY <1>2, <1>3

\* The quotient of a quotient.
LEMMA DivideTwice ==
  ASSUME NEW m \in Nat, NEW a \in Nat \ {0}, NEW b \in Nat \ {0}
  PROVE  (m \div a) \div b = m \div (a * b)
<1>1. PICK q \in Nat, r \in 0 .. (a - 1) : q = m \div a /\ m = q * a + r
  BY Division, Zenon
<1>2. PICK x \in Nat, y \in 0 .. (b - 1) : x = q \div b /\ q = x * b + y
  BY Division, Zenon
<1> DEFINE c == a * b
           z == y * a + r
<1>3. c \in Nat \ {0} /\ z \in 0 .. (c - 1)
  <2>1. \A u \in Nat, v \in Nat : u < b /\ v < a => u * a + v < a * b /\ u * a + v \in Nat
    BY Z3
  <2>2. a * b \in Nat \ {0}
    BY Z3
  <2>3. y \in Nat /\ y < b /\ r \in Nat /\ r < a
    BY <1>1, <1>2
  <2>4. z < c /\ z \in Nat /\ c \in Nat \ {0}
    BY <2>1, <2>2, <2>3
  <2> HIDE DEF z, c
  <2> QED BY <2>4
<1>4. m = x * c + z
  <2>1. \A u \in Nat, v \in Nat, w \in Nat : (u * b + v) * a + w = u * (a * b) + (v * a + w)
    BY Z3
  <2>4. y \in Nat /\ r \in Nat
    BY <1>1, <1>2
  <2>5. m = (x * b + y) * a + r
    BY <1>1, <1>2, Zenon
  <2>2. y \in Nat /\ r \in Nat /\ m = (x * b + y) * a + r
    BY <2>4, <2>5
  <2>3. (x * b + y) * a + r = x * (a * b) + (y * a + r)
    BY <2>1, <2>2, Zenon
  <2> QED BY <2>2, <2>3, Zenon
<1> HIDE DEF c, z
<1>5. m \div c = x
  <2>1. x = m \div c
    BY <1>3, <1>4, Z3
  <2> QED BY <2>1
<1> QED BY <1>1, <1>2, <1>5 DEF c

\* One digit more.
LEMMA DigitsNext ==
  ASSUME NEW n \in Nat, n >= 10
  PROVE  /\ n \div 10 \in Nat /\ n \div 10 < n
         /\ DigitsOf(n) = DigitsOf(n \div 10) + 1
         /\ Digits(n) = Append(Digits(n \div 10), 48 + (n % 10))
<1> DEFINE m == n \div 10
           s == DigitsOf(m)
<1>1. m \in Nat /\ m < n /\ n = 10 * m + (n % 10) /\ n % 10 \in 0 .. 9 /\ m >= 1
  BY Z3
<1>2. s \in Nat \ {0} /\ m < Ten[s] /\ (s = 1 \/ Ten[s - 1] <= m)
  <2> HIDE DEF m
  <2> QED BY <1>1, SizeIs DEF IsSize
<1> DEFINE t == s + 1
<1>3. IsSize(n, t)
  <2> HIDE DEF s, m
  <2>1. t \in Nat \ {0} /\ t - 1 = s /\ t # 1 /\ s \in Nat
    BY <1>2
  <2>2. Ten[t] = 10 * Ten[s] /\ Ten[s] \in Nat
    BY <2>1, TenPowers
  <2>3. n < Ten[t]
    <3> HIDE DEF t
    <3> QED BY <1>1, <1>2, <2>2
  <2>4. Ten[s] <= n
    <3>1. CASE s = 1
      <4>1. 0 + 1 = 1 /\ Ten[0] = 1 /\ Ten[0 + 1] = 10 * Ten[0]
        BY TenPowers
      <4> QED BY <3>1, <4>1
    <3>2. CASE s # 1
      <4>1. s - 1 \in Nat /\ (s - 1) + 1 = s
        BY <1>2
      <4>2. Ten[(s - 1) + 1] = 10 * Ten[s - 1] /\ Ten[s - 1] \in Nat /\ Ten[s - 1] <= m
        BY <1>2, <3>2, <4>1, TenPowers
      <4> QED BY <1>1, <4>1, <4>2
    <3> QED BY <3>1, <3>2
  <2> QED BY <2>1, <2>3, <2>4 DEF IsSize
<1>4. DigitsOf(n) = t
  <2> HIDE DEF t
  <2> QED BY <1>3, SizeIs, SizeTells
<1>5. Digits(n) = Append(Digits(m), 48 + (n % 10))
  <2> DEFINE A == Digits(m)
             x == 48 + (n % 10)
             B == [p \in 1 .. s |-> ZERO + ((m \div Ten[s - p]) % 10)]
             N == [p \in 1 .. t |-> ZERO + ((n \div Ten[t - p]) % 10)]
  <2>1. A = B
    BY DEF Digits
  <2>2. Digits(n) = N
    <3> HIDE DEF t, N
    <3>1. Digits(n) = [p \in 1 .. t |-> ZERO + ((n \div Ten[t - p]) % 10)]
      BY <1>4 DEF Digits
    <3> QED BY <3>1 DEF N
  <2>3. \A p \in 1 .. s : N[p] = B[p]
    <3>1. ASSUME NEW p \in 1 .. s PROVE N[p] = B[p]
      <4> HIDE DEF m, s
      <4>1. p \in 1 .. t /\ s - p \in Nat /\ (s - p) + 1 = t - p
        BY <1>2
      <4>2. Ten[(s - p) + 1] = 10 * Ten[s - p] /\ Ten[s - p] \in Nat \ {0}
        BY <4>1, TenPowers
      <4>3. m \div Ten[s - p] = n \div Ten[t - p]
        <5>1. (n \div 10) \div Ten[s - p] = n \div (10 * Ten[s - p])
          BY <4>2, DivideTwice
        <5> QED BY <4>1, <4>2, <5>1 DEF m
      <4> HIDE DEF t
      <4> QED BY <4>1, <4>3
    <3> QED BY <3>1
  <2>4. N[t] = x
    <3>1. t \in 1 .. t /\ t - t = 0
      BY <1>2
    <3>2. n \div Ten[0] = n
      <4>1. Ten[0] = 1
        BY TenPowers
      <4> QED BY <4>1
    <3> HIDE DEF t
    <3> QED BY <3>1, <3>2 DEF ZERO
  <2>5. \A p \in 1 .. s : B[p] \in Nat
    <3>1. ASSUME NEW p \in 1 .. s PROVE B[p] \in Nat
      <4> HIDE DEF m, s
      <4>1. s - p \in Nat
        BY <1>2
      <4>2. m \div Ten[s - p] \in Nat
        BY <1>1, <4>1, TenPowers, Division
      <4> QED BY <4>2 DEF ZERO
    <3> QED BY <3>1
  <2> HIDE DEF m, s
  <2>6. B \in Seq(Nat) /\ Len(B) = s /\ s \in Nat
    <3>1. s \in Nat
      BY <1>2
    <3>2. B \in [1 .. s -> Nat]
      BY <2>5
    <3> QED BY <3>1, <3>2
  <2> HIDE DEF B
  <2>7. /\ Append(B, x) \in Seq(Nat) /\ Len(Append(B, x)) = t
        /\ \A p \in 1 .. s : Append(B, x)[p] = B[p]
        /\ Append(B, x)[t] = x
    <3>1. x \in Nat
      BY <1>1
    <3> HIDE DEF x
    <3> QED BY <2>6, <3>1
  <2>8. \A p \in 1 .. t : p \in 1 .. s \/ p = t
    BY <1>2
  <2>9. N = Append(B, x)
    <3>1. \A p \in 1 .. t : N[p] = Append(B, x)[p]
      BY <2>3, <2>4, <2>7, <2>8
    <3>2. Append(B, x) = [p \in 1 .. t |-> Append(B, x)[p]]
      <4> DEFINE C == Append(B, x)
      <4>1. C \in Seq(Nat) /\ Len(C) = t
        BY <2>7
      <4> HIDE DEF C, t
      <4>2. C = [p \in 1 .. t |-> C[p]]
        BY <4>1
      <4> QED BY <4>2 DEF C
    <3>3. N = [p \in 1 .. t |-> N[p]]
      OBVIOUS
    <3> HIDE DEF N, x, t
    <3> QED BY <3>1, <3>2, <3>3
  <2> QED BY <2>1, <2>2, <2>9
<1> QED BY <1>1, <1>4, <1>5

LEMMA DigitsOne ==
  ASSUME NEW n \in Nat, n < 10
  PROVE  DigitsOf(n) = 1 /\ Digits(n) = <<48 + n>>
<1>1. Ten[0] = 1 /\ Ten[1] = 10
  <2>1. 0 + 1 = 1 /\ Ten[0] = 1 /\ Ten[0 + 1] = 10 * Ten[0]
    BY TenPowers
  <2> QED BY <2>1
<1>2. IsSize(n, 1)
  BY <1>1 DEF IsSize
<1>3. DigitsOf(n) = 1
  BY <1>2, SizeIs, SizeTells
<1>4. ASSUME NEW p \in 1 .. 1 PROVE ZERO + ((n \div Ten[1 - p]) % 10) = 48 + n
  <2>1. 1 - p = 0
    OBVIOUS
  <2>2. n \div Ten[1 - p] = n
    BY <1>1, <2>1
  <2> QED BY <2>2 DEF ZERO
<1>5. Digits(n) = [p \in 1 .. 1 |-> ZERO + ((n \div Ten[1 - p]) % 10)]
  BY <1>3 DEF Digits
<1>6. Digits(n) = [p \in 1 .. 1 |-> 48 + n]
  BY <1>4, <1>5, Zenon
<1>7. <<48 + n>> = [p \in 1 .. 1 |-> 48 + n]
  OBVIOUS
<1> QED BY <1>3, <1>6, <1>7

\* The digits of a number are digits.
LEMMA DigitsType ==
  ASSUME NEW n \in Nat
  PROVE  /\ Digits(n) \in Seq(Nat) /\ Len(Digits(n)) = DigitsOf(n) /\ DigitsOf(n) \in Nat \ {0}
         /\ \A p \in 1 .. DigitsOf(n) :
              /\ Digits(n)[p] = ZERO + ((n \div Ten[DigitsOf(n) - p]) % 10)
              /\ is_number(Digits(n)[p]) /\ Digits(n)[p] \in Nat
<1> DEFINE s == DigitsOf(n)
<1>1. s \in Nat \ {0}
  BY SizeIs DEF IsSize
<1> HIDE DEF s
<1>2. Digits(n) = [p \in 1 .. s |-> ZERO + ((n \div Ten[s - p]) % 10)]
  BY DEF Digits, s
<1>3. ASSUME NEW p \in 1 .. s
      PROVE  ZERO + ((n \div Ten[s - p]) % 10) \in Nat /\ is_number(ZERO + ((n \div Ten[s - p]) % 10))
  <2>1. s - p \in Nat
    BY <1>1
  <2> DEFINE q == n \div Ten[s - p]
  <2>2. q \in Nat
    BY <2>1, TenPowers, Division
  <2> HIDE DEF q
  <2> QED BY <2>2 DEF ZERO, is_number, q
<1>4. Digits(n) \in [1 .. s -> Nat]
  BY <1>2, <1>3, Zenon
<1>5. Digits(n) \in Seq(Nat) /\ Len(Digits(n)) = s
  BY <1>1, <1>4
<1>6. \A p \in 1 .. s : Digits(n)[p] = ZERO + ((n \div Ten[s - p]) % 10)
  BY <1>2, Zenon
<1> QED BY <1>1, <1>3, <1>5, <1>6, Zenon DEF s

\* How a number is written in a format is how format writes it.
LEMMA DecimalIs == \A n \in Nat : Decimal[n] = Digits(n)
<1> DEFINE D(w) == [n \in Nat |-> IF n < 10 THEN <<48 + n>> ELSE Append(w[n \div 10], 48 + (n % 10))]
           W == [n \in Nat |-> Digits(n)]
<1>1. W = D(W)
  <2>1. ASSUME NEW n \in Nat PROVE W[n] = D(W)[n]
    <3>1. CASE n < 10
      BY <3>1, DigitsOne
    <3>2. CASE n >= 10
      <4>1. n \div 10 \in Nat /\ Digits(n) = Append(Digits(n \div 10), 48 + (n % 10))
        BY <3>2, DigitsNext
      <4>2. W[n \div 10] = Digits(n \div 10) /\ W[n] = Digits(n)
        BY <4>1
      <4>3. D(W)[n] = Append(W[n \div 10], 48 + (n % 10))
        <5>1. ~ (n < 10)
          BY <3>2
        <5> HIDE DEF W
        <5>2. D(W)[n] = IF n < 10 THEN <<48 + n>> ELSE Append(W[n \div 10], 48 + (n % 10))
          BY Zenon
        <5> QED BY <5>1, <5>2, Zenon
      <4> HIDE DEF W, D
      <4> QED BY <4>1, <4>2, <4>3
    <3> HIDE DEF W, D
    <3>3. n < 10 \/ n >= 10
      OBVIOUS
    <3> QED BY <3>1, <3>2, <3>3
  <2>2. D(W) = [n \in Nat |-> D(W)[n]] /\ W = [n \in Nat |-> W[n]]
    OBVIOUS
  <2> HIDE DEF W, D
  <2> QED BY <2>1, <2>2
<1>2. Decimal = D(Decimal)
  <2>1. Decimal = CHOOSE w : w = D(w)
    BY DEF Decimal
  <2> HIDE DEF D, W
  <2> QED BY <1>1, <2>1
<1> HIDE DEF W
<1> DEFINE S == {n \in Nat : \A m \in 0 .. n : Decimal[m] = Digits(m)}
<1>3. \A n \in Nat : Decimal[n] = IF n < 10 THEN <<48 + n>> ELSE Append(Decimal[n \div 10], 48 + (n % 10))
  <2>1. \A n \in Nat : D(Decimal)[n] = IF n < 10 THEN <<48 + n>> ELSE Append(Decimal[n \div 10], 48 + (n % 10))
    OBVIOUS
  <2> HIDE DEF D
  <2> QED BY <1>2, <2>1
<1> HIDE DEF D
<1>4. 0 \in S
  <2>1. 0 \in Nat /\ 0 < 10 /\ \A m \in 0 .. 0 : m = 0
    OBVIOUS
  <2>2. Decimal[0] = Digits(0)
    BY <1>3, <2>1, DigitsOne
  <2> QED BY <2>1, <2>2
<1>5. ASSUME NEW n \in S PROVE n + 1 \in S
  <2>1. n + 1 \in Nat /\ n \in Nat /\ \A m \in 0 .. n : Decimal[m] = Digits(m)
    OBVIOUS
  <2>2. Decimal[n + 1] = Digits(n + 1)
    <3>1. CASE n + 1 < 10
      BY <1>3, <2>1, <3>1, DigitsOne
    <3>2. CASE n + 1 >= 10
      <4> DEFINE m == (n + 1) \div 10
      <4>1. m \in Nat /\ m < n + 1 /\ Digits(n + 1) = Append(Digits(m), 48 + ((n + 1) % 10))
        BY <2>1, <3>2, DigitsNext
      <4>2. Decimal[n + 1] = Append(Decimal[m], 48 + ((n + 1) % 10))
        <5>1. ~ (n + 1 < 10)
          BY <2>1, <3>2
        <5> QED BY <1>3, <2>1, <5>1, Zenon
      <4> HIDE DEF m
      <4>3. m \in 0 .. n
        BY <2>1, <4>1
      <4> QED BY <2>1, <4>1, <4>2, <4>3
    <3> QED BY <2>1, <3>1, <3>2
  <2>3. \A m \in 0 .. (n + 1) : m \in 0 .. n \/ m = n + 1
    BY <2>1
  <2> QED BY <2>1, <2>2, <2>3
<1>6. S = Nat
  <2>1. S \in SUBSET Nat
    OBVIOUS
  <2> HIDE DEF S
  <2> QED BY <1>4, <1>5, <2>1, SetInduction
<1>7. \A n \in Nat : n \in 0 .. n
  OBVIOUS
<1> QED BY <1>6, <1>7

\* from_int writes the numeral of every int but the smallest.
LEMMA FromIntIs ==
  ASSUME NEW n \in int, n # INT_MIN
  PROVE  from_int(n) = {Numeral(n)}
<1>1. n \in Int /\ INT_MAX \in Nat
  BY IntMaxAssumption DEF int, INT_MIN
<1>2. CASE n = 0
  <2>1. from_int(n) = {<<ZERO>>}
    BY <1>2 DEF from_int
  <2>2. Decimal[0] = <<48 + 0>> /\ 48 + 0 = 48
    BY DecimalIs, DigitsOne
  <2> QED BY <1>2, <2>1, <2>2 DEF Numeral, ZERO
<1>3. CASE n > 0
  <2>1. n \in Nat /\ n # 0 /\ ~ (n < 0)
    BY <1>1, <1>3
  <2>2. from_int(n) = {[p \in 1 .. digit_count(n) |-> ZERO + ((n \div Ten[digit_count(n) - p]) % 10)]}
    BY <2>1 DEF from_int
  <2>3. from_int(n) = {Digits(n)}
    BY <2>1, <2>2 DEF Digits, DigitsOf
  <2> QED BY <2>1, <2>3, DecimalIs DEF Numeral
<1>4. CASE n < 0
  <2> DEFINE m == -n
  <2>1. m \in Nat /\ m # 0 /\ n # 0
    BY <1>1, <1>4
  <2>2. from_int(n) = {<<MINUS>> \o [p \in 1 .. digit_count(m) |-> ZERO + ((m \div Ten[digit_count(m) - p]) % 10)]}
    BY <1>4, <2>1 DEF from_int
  <2> HIDE DEF m
  <2>3. from_int(n) = {<<MINUS>> \o Digits(m)}
    BY <2>1, <2>2 DEF Digits, DigitsOf
  <2>4. Numeral(n) = <<45>> \o Decimal[m]
    BY <1>4 DEF Numeral, m
  <2> QED BY <2>1, <2>3, <2>4, DecimalIs DEF MINUS
<1> QED BY <1>1, <1>2, <1>3, <1>4

\* A minus or none, and digits.
LEMMA NumeralType ==
  ASSUME NEW n \in Int
  PROVE  Numeral(n) \in Seq(Nat) /\ Numeral(n) # <<>>
<1>1. \A m \in Nat : Decimal[m] \in Seq(Nat) /\ Len(Decimal[m]) \in Nat \ {0}
  BY DecimalIs, DigitsType
<1>2. <<45>> \in Seq(Nat)
  OBVIOUS
<1>3. CASE n < 0
  <2>1. -n \in Nat /\ Numeral(n) = <<45>> \o Decimal[-n]
    BY <1>3 DEF Numeral
  <2>2. Decimal[-n] \in Seq(Nat) /\ Len(Decimal[-n]) \in Nat \ {0}
    BY <1>1, <2>1
  <2> QED BY <1>2, <2>1, <2>2
<1>4. CASE ~ (n < 0)
  <2>1. n \in Nat /\ Numeral(n) = Decimal[n]
    BY <1>4 DEF Numeral
  <2> QED BY <1>1, <2>1
<1> QED BY <1>3, <1>4

\* The digits behind the point: as many as it takes until the rest is small.
LEMMA FractionIs ==
  ASSUME NEW f \in Rests
  PROVE  \E size \in Nat :
           /\ fraction_digits(f) = [k \in 1 .. size |-> digit(rests(f), k) + ZERO]
           /\ 100 * rests(f)[size].mantissa <= Two[rests(f)[size].exponent]
           /\ \A k \in 1 .. size : digit(rests(f), k) \in 0 .. 9
<1> DEFINE rest == rests(f)
           Small(k) == 100 * rest[k].mantissa <= Two[rest[k].exponent]
           E == f.exponent
           size == CHOOSE k \in 0 .. E : Small(k) /\ \A j \in 0 .. (k - 1) : ~ Small(j)
           S == {k \in Nat : k <= E /\ Small(k)}
<1>1. \A k \in Nat : rest[k] \in Rests
  BY RestsIterate
<1>2. E \in Nat /\ rest[E].mantissa = 0
  BY FractionEnds DEF Rests, Floats
<1>3. E \in S
  <2>1. rest[E].exponent \in Nat
    BY <1>1, <1>2 DEF Rests, Floats
  <2>2. Two[rest[E].exponent] \in Nat
    BY <2>1, TwoPowers
  <2> HIDE DEF rest, E
  <2> QED BY <1>2, <2>2
<1>4. PICK k \in S : \A x \in S : k <= x
  <2>1. S \in SUBSET Nat /\ S # {}
    BY <1>3
  <2> HIDE DEF S
  <2> QED BY <2>1, LeastExists
<1>5. k \in 0 .. E /\ Small(k) /\ \A j \in 0 .. (k - 1) : ~ Small(j)
  <2>1. k \in Nat /\ k <= E /\ Small(k)
    BY <1>4
  <2>2. ASSUME NEW j \in 0 .. (k - 1) PROVE ~ Small(j)
    <3>1. j \in Nat /\ j <= E /\ ~ (k <= j)
      BY <1>2, <2>1
    <3>2. j \notin S
      BY <1>4, <3>1
    <3> HIDE DEF rest, E
    <3> QED BY <3>1, <3>2
  <2> HIDE DEF Small
  <2> QED BY <1>2, <2>1, <2>2
<1>6. size \in 0 .. E /\ Small(size)
  <2> HIDE DEF Small, E
  <2> QED BY <1>5
<1>7. fraction_digits(f) = [n \in 1 .. size |-> digit(rest, n) + ZERO]
  BY DEF fraction_digits
<1>8. ASSUME NEW n \in 1 .. size PROVE digit(rest, n) \in 0 .. 9
  <2> HIDE DEF size, rest, E
  <2>1. size \in Nat /\ n - 1 \in Nat
    BY <1>2, <1>6
  <2>2. rest[n - 1] \in Rests
    BY <1>1, <2>1
  <2> QED BY <2>2, DigitNear DEF digit
<1> HIDE DEF size, E
<1>9. size \in Nat
  BY <1>2, <1>6
<1> QED BY <1>6, <1>7, <1>8, <1>9

\* They are a sequence, and what a float is written as, too.
LEMMA FractionType ==
  ASSUME NEW f \in Rests
  PROVE  fraction_digits(f) \in Seq(Nat)
<1>1. PICK size \in Nat :
        /\ fraction_digits(f) = [k \in 1 .. size |-> digit(rests(f), k) + ZERO]
        /\ \A k \in 1 .. size : digit(rests(f), k) \in 0 .. 9
  BY FractionIs
<1>2. \A k \in 1 .. size : digit(rests(f), k) + ZERO \in Nat
  BY <1>1 DEF ZERO
<1> QED BY <1>1, <1>2

\* What a float leaves behind its point is a fraction whose digits can be written.
LEMMA FractionRests ==
  ASSUME NEW f \in Floats, f.mantissa < Two[FLT_MANT_DIG]
  PROVE  /\ Fraction(f) \in Rests /\ Fraction(f).exponent = f.exponent
         /\ Integral(f) \in Nat
<1>1. f.mantissa \in Nat /\ f.exponent \in Nat /\ Two[f.exponent] \in Nat \ {0} /\ Two[FLT_MANT_DIG] \in Nat
  BY TwoPowers, FltMantDigAssumption DEF Floats
<1> DEFINE h == Fraction(f)
           p == Two[f.exponent]
           m == f.mantissa
<1>2. h = [mantissa |-> m % p, exponent |-> f.exponent]
  BY DEF Fraction, Floats
<1>3. m % p \in 0 .. (p - 1) /\ m % p <= m /\ m \div p \in Nat
  <2> HIDE DEF m, p
  <2>1. m \in Nat /\ p \in Nat \ {0}
    BY <1>1 DEF m, p
  <2>2. \A x \in Nat, y \in Nat : x * p + y >= y
    BY <2>1, Z3
  <2>3. PICK q \in Nat, r \in 0 .. (p - 1) : q = m \div p /\ r = m % p /\ m = q * p + r
    BY <2>1, Division, Zenon
  <2>4. r <= m
    BY <2>1, <2>2, <2>3
  <2> QED BY <2>3, <2>4
<1> DEFINE r == m % p
<1>4. r \in Nat /\ r < p /\ r <= m
  BY <1>1, <1>3
<1>5. h.mantissa = r /\ h.exponent = f.exponent /\ h = [mantissa |-> r, exponent |-> f.exponent]
  BY <1>2
<1>6. Integral(f) \in Nat
  BY <1>3 DEF Integral
<1> HIDE DEF r, h
<1>7. h \in Rests
  BY <1>1, <1>4, <1>5 DEF Rests, Floats, p, m
<1> QED BY <1>5, <1>6, <1>7 DEF h

LEMMA FromFloatType ==
  ASSUME NEW f \in Floats, f.mantissa < Two[FLT_MANT_DIG], NEW str \in from_float_round(f)
  PROVE  str \in Seq(Nat)
<1> DEFINE h == Fraction(f)
<1>1. fraction_digits(h) \in Seq(Nat)
  <2>1. h \in Rests
    BY FractionRests
  <2> HIDE DEF h
  <2> QED BY <2>1, FractionType
<1>2. Integral(f) \in int /\ \E s \in from_int(Integral(f)) : str = s \o <<POINT>> \o fraction_digits(h)
  BY DEF from_float_round
<1>3. PICK s \in from_int(Integral(f)) : str = s \o <<POINT>> \o fraction_digits(h)
  BY <1>2
<1>4. s \in Seq(Nat)
  <2>1. from_int(INT_MIN) = {}
    BY DEF from_int
  <2>2. Integral(f) # INT_MIN
    BY <1>3, <2>1
  <2>3. s = Numeral(Integral(f))
    BY <1>2, <1>3, <2>2, FromIntIs
  <2>4. Integral(f) \in Int
    BY <1>2, IntMaxAssumption DEF int, INT_MIN
  <2> QED BY <2>3, <2>4, NumeralType
<1>5. <<POINT>> \in Seq(Nat)
  BY DEF POINT
<1> HIDE DEF h
<1> QED BY <1>1, <1>3, <1>4, <1>5

LEMMA WiderSeq ==
  ASSUME NEW S, NEW T, S \subseteq T, NEW s \in Seq(S)
  PROVE  s \in Seq(T)
<1>1. Len(s) \in Nat /\ s \in [1 .. Len(s) -> S]
  OBVIOUS
<1>2. s \in [1 .. Len(s) -> T]
  BY <1>1
<1> QED BY <1>1, <1>2

\* Every argument is written as a sequence of units.
LEMMA StringType ==
  ASSUME NEW a \in Arguments, NEW str \in to_string(a)
  PROVE  str \in Seq(Nat)
<1>1. char16_t \subseteq Nat
  BY UnitNumbers
<1>2. CASE a.int \in int /\ to_string(a) = from_int(a.int)
  <2>1. from_int(INT_MIN) = {}
    BY DEF from_int
  <2>2. str = Numeral(a.int)
    BY <1>2, <2>1, FromIntIs
  <2>3. a.int \in Int
    BY <1>2, IntMaxAssumption DEF int, INT_MIN
  <2> QED BY <2>2, <2>3, NumeralType
<1>3. CASE a \in Floats /\ a.mantissa < Two[FLT_MANT_DIG] /\ to_string(a) = from_float_round(a)
  BY <1>3, FromFloatType
<1>4. CASE a.units \in Seq(char16_t) /\ to_string(a) = {a.units}
  <2>1. str \in Seq(char16_t)
    BY <1>4
  <2> QED BY <1>1, <2>1, WiderSeq
<1>5. CASE a.chars \in Seq(char) /\ to_string(a) = {Widened(a.chars)}
  <2> DEFINE s == a.chars
  <2>1. s \in Seq(char) /\ Len(s) \in Nat /\ str = Widened(s)
    BY <1>5
  <2>2. ASSUME NEW k \in 1 .. Len(s) PROVE s[k] % 65536 \in Nat
    <3>1. s[k] \in char
      BY <2>1
    <3> DEFINE big == 65536
    <3> DEFINE x == s[k]
    <3>4. x \in char
      BY <3>1
    <3> HIDE DEF x
    <3>5. x \in Int
      BY <3>4 DEF char
    <3>2. s[k] \in Int /\ big \in Nat \ {0}
      BY <3>5 DEF x
    <3> HIDE DEF big, s
    <3>3. s[k] % big \in Nat
      BY <3>2
    <3> QED BY <3>3 DEF big
  <2>3. Widened(s) \in [1 .. Len(s) -> Nat]
    BY <2>2 DEF Widened
  <2> HIDE DEF s
  <2> QED BY <2>1, <2>3
<1> QED BY <1>2, <1>3, <1>4, <1>5, ArgumentKinds

-----------------------------------------------------------------------------
(* No text is lost or doubled.                                             *)

\* Counts add up.
LEMMA CountJoined ==
  ASSUME NEW s \in Seq(Nat), NEW t \in Seq(Nat), NEW u
  PROVE  Count(s, u) \in Nat /\ Count(t, u) \in Nat /\ Count(s \o t, u) = Count(s, u) + Count(t, u)
<1> DEFINE n == Len(s)
           w == s \o t
           A == {k \in 1 .. Len(s) : s[k] = u}
           B == {k \in 1 .. Len(t) : t[k] = u}
           C == {n + k : k \in B}
           W == {k \in 1 .. Len(w) : w[k] = u}
<1>1. w \in Seq(Nat) /\ Len(w) = n + Len(t) /\ n \in Nat /\ Len(t) \in Nat
      /\ (\A k \in 1 .. n : w[k] = s[k]) /\ (\A k \in 1 .. Len(t) : w[n + k] = t[k])
  BY JoinedTwo
<1>2. IsFiniteSet(A) /\ IsFiniteSet(B) /\ A \in SUBSET Nat /\ B \in SUBSET Nat
  <2>1. IsFiniteSet(1 .. Len(s)) /\ IsFiniteSet(1 .. Len(t))
    BY <1>1, FS_Interval
  <2>2. A \subseteq 1 .. Len(s) /\ B \subseteq 1 .. Len(t)
    OBVIOUS
  <2> HIDE DEF A, B
  <2>3. IsFiniteSet(A) /\ IsFiniteSet(B)
    BY <2>1, <2>2, FS_Subset
  <2> QED BY <1>1, <2>2, <2>3
<1>3. Count(s, u) = Cardinality(A) /\ Count(t, u) = Cardinality(B) /\ Count(s \o t, u) = Cardinality(W)
  BY DEF Count
<1> HIDE DEF n, w
<1>4. W = A \cup C
  <2>1. ASSUME NEW k \in W PROVE k \in A \cup C
    <3>1. CASE k <= n
      BY <1>1, <3>1 DEF n
    <3>2. CASE k > n
      <4>1. k - n \in 1 .. Len(t) /\ n + (k - n) = k
        BY <1>1, <3>2
      <4>2. k - n \in B
        BY <1>1, <4>1
      <4> QED BY <4>1, <4>2
    <3>3. k \in Nat
      BY <1>1
    <3> HIDE DEF A, C
    <3> QED BY <1>1, <3>1, <3>2, <3>3
  <2>2. ASSUME NEW k \in A PROVE k \in W
    BY <1>1 DEF n
  <2>3. ASSUME NEW k \in B PROVE n + k \in W
    BY <1>1
  <2> QED BY <2>1, <2>2, <2>3
<1>5. A \cap C = {}
  BY <1>1 DEF n
<1> HIDE DEF A, B
<1>6. IsFiniteSet(C) /\ Cardinality(C) = Cardinality(B)
  BY <1>1, <1>2, ShiftCardinality
<1> HIDE DEF C, W
<1>7. Cardinality(A) \in Nat /\ Cardinality(B) \in Nat
  BY <1>2, FS_CardinalityType
<1>8. Cardinality(A \cup C) = Cardinality(A) + Cardinality(C) - Cardinality(A \cap C)
  BY <1>2, <1>6, FS_Union
<1>9. Cardinality(A \cap C) = 0
  BY <1>5, FS_EmptySet
<1> QED BY <1>3, <1>4, <1>6, <1>7, <1>8, <1>9

LEMMA CountNone ==
  ASSUME NEW s \in Seq(Nat), NEW u, \A k \in 1 .. Len(s) : s[k] # u
  PROVE  Count(s, u) = 0
<1>1. {k \in 1 .. Len(s) : s[k] = u} = {}
  OBVIOUS
<1> QED BY <1>1, FS_EmptySet DEF Count

\* The count of a beginning, and of what lies between two offsets.
LEMMA CountBetween ==
  ASSUME NEW v \in Seq(Nat), NEW u, NEW m \in Nat, NEW n \in Nat, m <= n, n <= Len(v)
  PROVE  /\ SubSeq(v, m + 1, n) \in Seq(Nat)
         /\ Count(SubSeq(v, 1, m), u) \in Nat /\ Count(SubSeq(v, m + 1, n), u) \in Nat
         /\ Count(SubSeq(v, 1, n), u) = Count(SubSeq(v, 1, m), u) + Count(SubSeq(v, m + 1, n), u)
<1> DEFINE a == SubSeq(v, 1, m)
           b == SubSeq(v, m + 1, n)
           c == SubSeq(v, 1, n)
<1>1. Len(v) \in Nat /\ m <= Len(v) /\ m + 1 \in Nat
  OBVIOUS
<1>2. a \in Seq(Nat) /\ Len(a) = m /\ \A k \in 1 .. m : a[k] = v[k]
  BY <1>1
<1>3. b \in Seq(Nat) /\ Len(b) = n - m /\ \A k \in 1 .. (n - m) : b[k] = v[m + k]
  BY <1>1
<1>4. c \in Seq(Nat) /\ Len(c) = n /\ \A k \in 1 .. n : c[k] = v[k]
  BY <1>1
<1> HIDE DEF a, b, c
<1>5. c = a \o b
  <2> DEFINE d == a \o b
  <2>0. d = a \o b
    OBVIOUS
  <2> HIDE DEF d
  <2>1. d \in Seq(Nat) /\ Len(d) = n
        /\ (\A k \in 1 .. m : d[k] = v[k])
        /\ (\A k \in 1 .. (n - m) : d[m + k] = v[m + k])
    <3>1. d \in Seq(Nat) /\ Len(d) = Len(a) + Len(b)
          /\ (\A k \in 1 .. Len(a) : d[k] = a[k])
          /\ (\A k \in 1 .. Len(b) : d[Len(a) + k] = b[k])
      <4>1. a \in Seq(Nat) /\ b \in Seq(Nat)
        BY <1>2, <1>3
      <4> QED BY <2>0, <4>1, JoinedTwo
    <3>2. d \in Seq(Nat) /\ Len(d) = m + (n - m)
          /\ (\A k \in 1 .. m : d[k] = a[k])
          /\ (\A k \in 1 .. (n - m) : d[m + k] = b[k])
      BY <1>2, <1>3, <3>1
    <3>3. m + (n - m) = n
      OBVIOUS
    <3>4. \A k \in 1 .. m : d[k] = v[k]
      BY <1>2, <3>2
    <3>5. \A k \in 1 .. (n - m) : d[m + k] = v[m + k]
      BY <1>3, <3>2
    <3> QED BY <3>2, <3>3, <3>4, <3>5
  <2>2. ASSUME NEW k \in 1 .. n PROVE d[k] = c[k]
    <3>1. CASE k <= m
      <4>1. k \in 1 .. m
        BY <3>1
      <4> QED BY <1>4, <2>1, <4>1
    <3>2. CASE k > m
      <4>1. k - m \in 1 .. (n - m) /\ m + (k - m) = k
        BY <3>2
      <4> QED BY <1>4, <2>1, <4>1
    <3> QED BY <3>1, <3>2
  <2>4. d = c
    BY <1>4, <2>1, <2>2
  <2> QED BY <2>0, <2>4
<1>6. Count(a, u) \in Nat /\ Count(b, u) \in Nat /\ Count(c, u) = Count(a, u) + Count(b, u)
  BY <1>2, <1>3, <1>5, CountJoined
<1> QED BY <1>3, <1>6 DEF a, b, c

\* One unit more makes no difference to the count of another one.
LEMMA CountSame ==
  ASSUME NEW v \in Seq(Nat), NEW u, NEW n \in Nat, n < Len(v), v[n + 1] # u
  PROVE  Count(SubSeq(v, 1, n + 1), u) = Count(SubSeq(v, 1, n), u)
<1> DEFINE b == SubSeq(v, n + 1, n + 1)
<1>1. n + 1 \in Nat /\ n <= n + 1 /\ n + 1 <= Len(v) /\ Len(v) \in Nat
  OBVIOUS
<1>2. b \in Seq(Nat) /\ Len(b) = 1 /\ b[1] = v[n + 1]
  BY <1>1
<1>3. Count(b, u) = 0
  <2> HIDE DEF b
  <2> QED BY <1>2, CountNone
<1>4. /\ Count(SubSeq(v, 1, n), u) \in Nat
      /\ Count(SubSeq(v, 1, n + 1), u) = Count(SubSeq(v, 1, n), u) + Count(b, u)
  BY <1>1, CountBetween
<1> QED BY <1>3, <1>4

\* What TextOnce asks of a call, and of a unit.
Plain == NDEBUG = FALSE /\ ~ StaysOpen /\ \A k \in 1 .. fmt.size : view[k] \notin {COMMA, COLON}

Foreign(u) ==
  /\ u \notin {OPEN, CLOSE} /\ ~ is_number(u)
  /\ \A a \in 1 .. Len(args) : \A str \in to_string(args[a]) : Count(str, u) = 0

\* A brace is open at i.
OpenBehind == \E k \in 1 .. i : k <= fmt.size /\ view[k] = OPEN /\ \A j \in k .. i : j <= fmt.size => view[j] # CLOSE

\* The text up to prev_holder has been copied, or, inside a placeholder, that
\* up to i, and nothing else but arguments.
CopiedOnce(u) ==
  /\ pc = "text" /\ prev_holder <= fmt.size => Count(ans, u) = Count(SubSeq(view, 1, prev_holder), u)
  /\ pc = "placeholder" => Count(ans, u) = Count(SubSeq(view, 1, i), u)
  /\ pc = "return" => Count(ans, u) = Count(view, u)

PlainInv ==
  /\ ans \in Seq(Nat)
  /\ pc = "placeholder" => i <= fmt.size
  /\ Plain => /\ pc \notin {"alignment", "param"}
              /\ pc = "placeholder" => alignment = 0 /\ OpenBehind
              /\ \A u \in Nat : Foreign(u) => CopiedOnce(u)

\* Nothing has no unit.
LEMMA CountEmpty ==
  ASSUME NEW s \in Seq(Nat), Len(s) = 0, NEW u
  PROVE  Count(s, u) = 0
<1>1. \A k \in 1 .. Len(s) : s[k] # u
  OBVIOUS
<1> QED BY <1>1, CountNone

\* The parts of the view that are copied.
LEMMA TextType ==
  ASSUME ParserTypes
  PROVE  /\ view \in Seq(Nat) /\ Len(view) = fmt.size /\ fmt.size \in Nat
         /\ \A k \in 1 .. fmt.size : view[k] = fmt.buffer[k] /\ view[k] \in Nat
         /\ \A end \in 0 .. fmt.size : Text(end) \in Seq(Nat)
<1>1. view \in Seq(char16_t) /\ Len(view) = fmt.size /\ \A k \in 1 .. fmt.size : view[k] = fmt.buffer[k]
  BY ViewType DEF ParserTypes
<1>2. char16_t \subseteq Nat
  BY UnitNumbers
<1>3. view \in Seq(Nat)
  BY <1>1, <1>2, WiderSeq
<1>4. prev_holder \in Nat /\ fmt.size \in Nat
  BY CallTypes DEF ParserTypes
<1>5. ASSUME NEW end \in 0 .. fmt.size PROVE Text(end) \in Seq(Nat)
  <2> DEFINE v == view
             p == prev_holder + 1
  <2>1. v \in Seq(Nat) /\ p \in Nat \ {0} /\ end \in Nat /\ end <= Len(v)
    BY <1>1, <1>3, <1>4
  <2> HIDE DEF v, p
  <2>3. SubSeq(v, p, end) \in Seq(Nat)
    BY <2>1
  <2> QED BY <2>3 DEF Text, v, p
<1>6. \A k \in 1 .. fmt.size : view[k] \in Nat
  BY <1>1, <1>3
<1> QED BY <1>1, <1>3, <1>4, <1>5, <1>6

\* An answer to a placeholder has no foreign unit, if nothing is filled up.
LEMMA ChosenForeign ==
  ASSUME ParserTypes, alignment = 0, NEW str \in Chosen
  PROVE  str \in Seq(Nat) /\ \A u \in Nat : Foreign(u) => Count(str, u) = 0
<1> DEFINE n == IF auto_index = -1 THEN index ELSE auto_index
<1>1. n \in Nat /\ Len(args) \in Nat /\ args \in Seq(Arguments)
  BY CallTypes DEF ParserTypes
<1>2. str \in to_string_index(n, 0)
  BY DEF Chosen
<1> HIDE DEF n
<1>3. CASE n >= Len(args)
  <2>1. str = <<>>
    BY <1>2, <1>3 DEF to_string_index
  <2>2. str \in Seq(Nat) /\ Len(str) = 0
    BY <2>1
  <2>3. \A u \in Nat : Count(str, u) = 0
    BY <2>2, CountEmpty
  <2> QED BY <2>2, <2>3
<1>4. CASE n < Len(args)
  <2>1. n + 1 \in 1 .. Len(args) /\ args[n + 1] \in Arguments /\ ~ (n >= Len(args))
    BY <1>1, <1>4
  <2>2. PICK s \in to_string(args[n + 1]) : str = Aligned(s, 0)
    BY <1>2, <2>1 DEF to_string_index
  <2>3. s \in Seq(Nat)
    BY <2>1, <2>2, StringType
  <2>4. str = s
    <3>1. Len(s) \in Nat /\ 0 <= Len(s) /\ ~ (0 < 0)
      BY <2>3
    <3> QED BY <2>2, <3>1 DEF Aligned
  <2> QED BY <2>1, <2>2, <2>3, <2>4 DEF Foreign
<1> QED BY <1>1, <1>3, <1>4

\* ... and for an answer of any width.
LEMMA ChosenType ==
  ASSUME ParserTypes, NEW str \in Chosen
  PROVE  str \in Seq(Nat)
<1> DEFINE n == IF auto_index = -1 THEN index ELSE auto_index
<1>1. n \in Nat /\ Len(args) \in Nat /\ args \in Seq(Arguments) /\ alignment \in Int
  BY CallTypes DEF ParserTypes
<1>2. str \in to_string_index(n, alignment)
  BY DEF Chosen
<1> HIDE DEF n
<1>3. CASE n >= Len(args)
  BY <1>2, <1>3 DEF to_string_index
<1>4. CASE n < Len(args)
  <2>1. n + 1 \in 1 .. Len(args) /\ args[n + 1] \in Arguments /\ ~ (n >= Len(args))
    BY <1>1, <1>4
  <2>2. PICK s \in to_string(args[n + 1]) : str = Aligned(s, alignment)
    BY <1>2, <2>1 DEF to_string_index
  <2>3. s \in Seq(Nat) /\ Len(s) \in Nat
    BY <2>1, <2>2, StringType
  <2> DEFINE width_abs == IF alignment < 0 THEN -alignment ELSE alignment
             m == width_abs - Len(s)
  <2>4. width_abs \in Nat /\ (~ (width_abs <= Len(s)) => m \in Nat)
    BY <1>1, <2>3
  <2>5. ASSUME ~ (width_abs <= Len(s)) PROVE Spaces(m) \in Seq(Nat)
    <3>1. m \in Nat
      BY <2>4, <2>5
    <3> HIDE DEF m
    <3> QED BY <3>1 DEF Spaces, SPACE
  <2>6. str = IF width_abs <= Len(s) THEN s
              ELSE IF alignment < 0 THEN s \o Spaces(m) ELSE Spaces(m) \o s
    BY <2>2 DEF Aligned
  <2> HIDE DEF width_abs, m
  <2> QED BY <2>3, <2>5, <2>6
<1> QED BY <1>1, <1>3, <1>4

LEMMA PlainInit ==
  ASSUME Init PROVE PlainInv
<1>1. ParserTypes
  BY ParserTypesInit
<1>2. /\ ans = <<>> /\ prev_holder = 0 /\ pc \in {"verbatim", "text"}
  BY DEF Init
<1>3. ASSUME NEW u \in Nat PROVE CopiedOnce(u)
  <2>1. Count(ans, u) = 0
    <3>1. ans \in Seq(Nat) /\ Len(ans) = 0
      BY <1>2
    <3> QED BY <3>1, CountEmpty
  <2>2. SubSeq(view, 1, 0) = <<>>
    BY <1>1, TextType
  <2> QED BY <1>2, <2>1, <2>2 DEF CopiedOnce
<1> QED BY <1>2, <1>3 DEF PlainInv

\* The steps that copy text or a placeholder's answer, and those that copy nothing.
LEMMA PlainNext ==
  ASSUME ParserTypes, PlainInv, Next \/ UNCHANGED vars
  PROVE  PlainInv'
<1>1. /\ view \in Seq(Nat) /\ Len(view) = fmt.size /\ fmt.size \in Nat
      /\ \A k \in 1 .. fmt.size : view[k] = fmt.buffer[k] /\ view[k] \in Nat
      /\ \A end \in 0 .. fmt.size : Text(end) \in Seq(Nat)
  BY TextType
<1>2. fmt' = fmt /\ args' = args /\ NDEBUG' = NDEBUG /\ view' = view
  BY CallStays DEF call, view
<1>3. (Plain' <=> Plain) /\ \A u : Foreign(u)' <=> Foreign(u)
  <2>1. Plain' <=> Plain
    BY <1>2 DEF Plain, StaysOpen
  <2>2. \A u : Foreign(u)' <=> Foreign(u)
    BY <1>2 DEF Foreign, to_string, from_int, from_float_round
  <2> QED BY <2>1, <2>2
<1>4. /\ i \in Nat /\ prev_holder \in Nat /\ prev_holder <= i
      /\ ans \in Seq(Nat) /\ (pc = "placeholder" => i <= fmt.size)
  BY DEF ParserTypes, PlainInv
<1>5. ASSUME NEW k \in Nat, k < fmt.size, NEW unit, IsAt(k, unit)
      PROVE  view[k + 1] = unit
  <2>1. k + 1 \in 1 .. fmt.size
    BY <1>1, <1>5
  <2> QED BY <1>1, <1>5, <2>1 DEF IsAt
<1>6. ans' \in Seq(Nat)
  <2>1. CASE Verbatim
    BY <1>1, <2>1 DEF Verbatim
  <2>2. CASE Escape
    <3>1. ans' = ans \o Text(i + 1) /\ i + 1 \in 0 .. fmt.size
      BY <1>1, <1>4, <2>2 DEF Escape, InText
    <3>2. Text(i + 1) \in Seq(Nat)
      BY <1>1, <3>1
    <3> QED BY <1>4, <3>1, <3>2
  <2>3. CASE OpenHolder
    <3>1. ans' = ans \o Text(i) /\ i \in 0 .. fmt.size
      BY <1>1, <1>4, <2>3 DEF OpenHolder, InText
    <3>2. Text(i) \in Seq(Nat)
      BY <1>1, <3>1
    <3> QED BY <1>4, <3>1, <3>2
  <2>4. CASE Return
    <3>1. ans' = ans \o Text(fmt.size) /\ fmt.size \in 0 .. fmt.size
      BY <1>1, <2>4 DEF Return
    <3>2. Text(fmt.size) \in Seq(Nat)
      BY <1>1, <3>1
    <3> QED BY <1>4, <3>1, <3>2
  <2>5. CASE CloseHolder
    <3>1. PICK str \in Chosen : ans' = ans \o str
      BY <2>5 DEF CloseHolder
    <3> QED BY <1>4, <3>1, ChosenType
  <2>6. CASE ans' = ans
    BY <1>4, <2>6
  <2> QED BY <2>1, <2>2, <2>3, <2>4, <2>5, <2>6 DEF Next, TextLoop, HolderLoops, vars,
        Literal, LoneClose, Throws, ManualIndex, Comma, Param, SkipUnknown, EndsInHolder,
        Alignment, AlignmentOther, AlignmentEnd, Aborts, Undefined
<1>7. pc' = "placeholder" => i' <= fmt'.size
  <2>1. CASE OpenHolder \/ ManualIndex \/ SkipUnknown \/ AlignmentEnd
    <3>1. i < fmt.size /\ (i' = i \/ i' = i + 1)
      BY <2>1 DEF OpenHolder, InText, ManualIndex, SkipUnknown, Unknown, AlignmentEnd, InHolder
    <3> QED BY <1>1, <1>2, <1>4, <3>1
  <2>2. CASE UNCHANGED <<i, pc>>
    BY <1>2, <1>4, <2>2
  <2>3. CASE pc' # "placeholder"
    BY <2>3
  <2> QED BY <2>1, <2>2, <2>3 DEF Next, TextLoop, HolderLoops, vars, Verbatim, Return, CloseHolder, Escape,
        Literal, LoneClose, Throws, Comma, Param, EndsInHolder, InText, InHolder,
        Alignment, AlignmentOther, Aborts, Undefined
<1>8. ASSUME Plain PROVE /\ pc' \notin {"alignment", "param"}
                         /\ pc' = "placeholder" => alignment' = 0 /\ OpenBehind'
  <2>1. /\ pc \notin {"alignment", "param"}
        /\ pc = "placeholder" => alignment = 0 /\ OpenBehind
        /\ NDEBUG = FALSE /\ \A k \in 1 .. fmt.size : view[k] \notin {COMMA, COLON}
    BY <1>8 DEF PlainInv, Plain
  <2>2. ASSUME NEW unit \in {COMMA, COLON}, i < fmt.size, IsAt(i, unit) PROVE FALSE
    <3>1. i + 1 \in 1 .. fmt.size /\ view[i + 1] = unit
      BY <1>1, <1>4, <1>5, <2>2
    <3> QED BY <2>1, <3>1
  <2>3. ~ Comma /\ ~ Param /\ ~ SkipUnknown /\ ~ Alignment /\ ~ AlignmentOther /\ ~ AlignmentEnd
    <3>1. ~ Comma
      BY <2>2 DEF Comma, InHolder
    <3>2. ~ Param
      BY <2>1, <2>2 DEF Param, InHolder
    <3>3. ~ SkipUnknown
      BY <2>1 DEF SkipUnknown
    <3> QED BY <2>1, <3>1, <3>2, <3>3 DEF Alignment, AlignmentOther, AlignmentEnd, InHolder
  <2>4. CASE OpenHolder
    <3>1. alignment' = 0 /\ pc' = "placeholder" /\ i' = i + 1 /\ i < fmt.size /\ IsAt(i, OPEN)
      BY <2>4 DEF OpenHolder, InText
    <3>2. view[i + 1] = OPEN /\ i + 1 \in 1 .. (i + 1) /\ i + 1 <= fmt.size
      BY <1>1, <1>4, <1>5, <3>1
    <3>3. \A j \in (i + 1) .. (i + 1) : view[j] # CLOSE
      BY <1>4, <3>2 DEF OPEN, CLOSE
    <3>4. OpenBehind'
      <4> DEFINE m == i + 1
      <4>1. m \in 1 .. m /\ m <= fmt.size /\ view[m] = OPEN /\ (\A j \in m .. m : view[j] # CLOSE) /\ i' = m
        BY <3>1, <3>2, <3>3
      <4> HIDE DEF m
      <4> QED BY <1>2, <4>1 DEF OpenBehind
    <3> QED BY <3>1, <3>4
  <2>5. CASE ManualIndex
    <3>1. pc = "placeholder" /\ pc' = pc /\ alignment' = alignment /\ i' = i + 1 /\ AtDigit
      BY <2>5 DEF ManualIndex, InHolder
    <3>2. i + 1 \in 1 .. fmt.size /\ view[i + 1] # CLOSE
      <4>1. i + 1 \in 1 .. fmt.size /\ is_number(fmt.buffer[i + 1])
        BY <1>1, <1>4, <3>1 DEF AtDigit
      <4> QED BY <1>1, <4>1 DEF is_number, ZERO, CLOSE
    <3>3. PICK k \in 1 .. i : k <= fmt.size /\ view[k] = OPEN
                              /\ \A j \in k .. i : j <= fmt.size => view[j] # CLOSE
      BY <2>1, <3>1 DEF OpenBehind
    <3>4. k \in 1 .. (i + 1) /\ \A j \in k .. (i + 1) : j \in k .. i \/ j = i + 1
      BY <1>4
    <3>5. OpenBehind'
      <4> DEFINE m == i + 1
      <4>1. k \in 1 .. m /\ k <= fmt.size /\ view[k] = OPEN /\ i' = m
            /\ \A j \in k .. m : j <= fmt.size => view[j] # CLOSE
        BY <3>1, <3>2, <3>3, <3>4
      <4> HIDE DEF m
      <4> QED BY <1>2, <4>1 DEF OpenBehind
    <3> QED BY <2>1, <3>1, <3>5
  <2>6. CASE UNCHANGED <<i, pc, alignment>>
    <3>1. OpenBehind' <=> OpenBehind
      BY <1>2, <2>6 DEF OpenBehind
    <3> QED BY <2>1, <2>6, <3>1
  <2>7. CASE pc' \notin {"alignment", "param", "placeholder"}
    BY <2>7
  <2> QED BY <2>1, <2>3, <2>4, <2>5, <2>6, <2>7 DEF Next, TextLoop, HolderLoops, vars, Verbatim, Return,
        CloseHolder, Escape, Literal, LoneClose, Throws, EndsInHolder, InText, Aborts, Undefined
<1>9. ASSUME Plain, NEW u \in Nat, Foreign(u) PROVE CopiedOnce(u)'
  <2> DEFINE Upto(n) == Count(SubSeq(view, 1, n), u)
  <2>1. /\ CopiedOnce(u) /\ pc \notin {"alignment", "param"} /\ NDEBUG = FALSE /\ ~ StaysOpen
        /\ pc = "placeholder" => alignment = 0 /\ OpenBehind
    BY <1>9 DEF PlainInv, Plain
  <2>2. ASSUME NEW n \in 0 .. (fmt.size - 1), view[n + 1] # u PROVE Upto(n + 1) = Upto(n)
    BY <1>1, <2>2, CountSame
  <2>3. ASSUME NEW end \in 0 .. fmt.size, prev_holder <= end, Count(ans, u) = Upto(prev_holder)
        PROVE  Count(ans \o Text(end), u) = Upto(end)
    <3>1. Text(end) \in Seq(Nat) /\ Text(end) = SubSeq(view, prev_holder + 1, end)
      BY <1>1 DEF Text
    <3>2. Count(ans \o Text(end), u) = Count(ans, u) + Count(Text(end), u)
      BY <1>4, <3>1, CountJoined
    <3>3. end \in Nat /\ end <= Len(view)
      BY <1>1
    <3>4. Upto(end) = Upto(prev_holder) + Count(SubSeq(view, prev_holder + 1, end), u)
      BY <1>1, <1>4, <2>3, <3>3, CountBetween
    <3> QED BY <2>3, <3>1, <3>2, <3>4
  <2>4. ASSUME NEW brace \in {OPEN, CLOSE} PROVE brace # u
    BY <1>9 DEF Foreign
  <2>5. pc' = "text" /\ UNCHANGED <<prev_holder, ans>> /\ pc = "text" => CopiedOnce(u)'
    BY <1>2, <2>1 DEF CopiedOnce
  <2>6. CASE Verbatim
    <3>1. pc' = "return" /\ ans' = view
      BY <2>6 DEF Verbatim
    <3> QED BY <1>2, <3>1 DEF CopiedOnce
  <2>7. CASE Literal \/ LoneClose
    BY <2>5, <2>7 DEF Literal, LoneClose, InText
  <2>8. CASE Escape
    <3>1. /\ pc = "text" /\ pc' = "text" /\ i < fmt.size /\ ans' = ans \o Text(i + 1)
          /\ prev_holder' = i + 2
      BY <2>8 DEF Escape, InText
    <3>2. PICK brace \in {OPEN, CLOSE} : IsAt(i + 1, brace)
      BY <2>8 DEF Escape
    <3>3. Count(ans, u) = Upto(prev_holder)
      BY <1>1, <1>4, <2>1, <3>1 DEF CopiedOnce
    <3>4. i + 1 \in 0 .. fmt.size /\ prev_holder <= i + 1
      BY <1>1, <1>4, <3>1
    <3>5. Count(ans', u) = Upto(i + 1)
      BY <2>3, <3>1, <3>3, <3>4
    <3>6. i + 2 <= fmt.size => Upto(i + 2) = Upto(i + 1)
      <4> SUFFICES ASSUME i + 2 <= fmt.size PROVE Upto(i + 2) = Upto(i + 1)
        OBVIOUS
      <4>1. i + 1 \in 0 .. (fmt.size - 1) /\ (i + 1) + 1 = i + 2 /\ i + 1 \in Nat /\ i + 1 < fmt.size
        BY <1>1, <1>4
      <4>2. view[(i + 1) + 1] = brace
        BY <1>5, <3>2, <4>1
      <4>3. Upto((i + 1) + 1) = Upto(i + 1)
        BY <2>2, <2>4, <4>1, <4>2
      <4> QED BY <4>1, <4>3
    <3> QED BY <1>2, <3>1, <3>5, <3>6 DEF CopiedOnce
  <2>9. CASE OpenHolder
    <3>1. /\ pc = "text" /\ pc' = "placeholder" /\ i < fmt.size /\ ans' = ans \o Text(i)
          /\ i' = i + 1 /\ IsAt(i, OPEN)
      BY <2>9 DEF OpenHolder, InText
    <3>2. Count(ans, u) = Upto(prev_holder)
      BY <1>1, <1>4, <2>1, <3>1 DEF CopiedOnce
    <3>3. i \in 0 .. fmt.size /\ i \in 0 .. (fmt.size - 1)
      BY <1>1, <1>4, <3>1
    <3>4. Count(ans', u) = Upto(i)
      BY <1>4, <2>3, <3>1, <3>2, <3>3
    <3>5. view[i + 1] = OPEN
      BY <1>4, <1>5, <3>1
    <3>6. Upto(i + 1) = Upto(i)
      BY <2>2, <2>4, <3>3, <3>5
    <3> QED BY <1>2, <3>1, <3>4, <3>6 DEF CopiedOnce
  <2>10. CASE Return
    <3>1. pc = "text" /\ pc' = "return" /\ prev_holder <= fmt.size /\ ans' = ans \o Text(fmt.size)
      BY <2>10 DEF Return
    <3>2. Count(ans', u) = Upto(fmt.size)
      <4>1. Count(ans, u) = Upto(prev_holder) /\ fmt.size \in 0 .. fmt.size
        BY <1>1, <2>1, <3>1 DEF CopiedOnce
      <4> QED BY <2>3, <3>1, <4>1
    <3>3. SubSeq(view, 1, fmt.size) = view
      BY <1>1
    <3> QED BY <1>2, <3>1, <3>2, <3>3 DEF CopiedOnce
  <2>11. CASE ManualIndex
    <3>1. pc = "placeholder" /\ pc' = pc /\ ans' = ans /\ i' = i + 1 /\ AtDigit
      BY <2>11 DEF ManualIndex, InHolder
    <3>2. i \in 0 .. (fmt.size - 1) /\ view[i + 1] # u
      <4>1. i + 1 \in 1 .. fmt.size /\ i \in 0 .. (fmt.size - 1) /\ is_number(fmt.buffer[i + 1])
        BY <1>1, <1>4, <3>1 DEF AtDigit
      <4>2. ~ is_number(u)
        BY <1>9 DEF Foreign
      <4>3. view[i + 1] = fmt.buffer[i + 1]
        BY <1>1, <4>1
      <4> QED BY <4>1, <4>2, <4>3
    <3>3. Upto(i + 1) = Upto(i)
      BY <2>2, <3>2
    <3> QED BY <1>2, <2>1, <3>1, <3>3 DEF CopiedOnce
  <2>12. CASE CloseHolder
    <3>1. pc = "placeholder" /\ pc' = "text" /\ i < fmt.size /\ IsAt(i, CLOSE) /\ prev_holder' = i + 1
      BY <2>1, <2>12 DEF CloseHolder, Closing, InHolder
    <3>2. PICK str \in Chosen : ans' = ans \o str
      BY <2>12 DEF CloseHolder
    <3>3. str \in Seq(Nat) /\ Count(str, u) = 0
      BY <1>9, <2>1, <3>1, ChosenForeign
    <3>4. Count(ans, u) = Upto(i)
      BY <2>1, <3>1 DEF CopiedOnce
    <3>5. Count(ans', u) = Count(ans, u) + 0 /\ Count(ans, u) \in Nat
      BY <1>4, <3>2, <3>3, CountJoined
    <3>6. Upto(i + 1) = Upto(i)
      <4>1. i \in 0 .. (fmt.size - 1) /\ view[i + 1] = CLOSE
        BY <1>1, <1>4, <1>5, <3>1
      <4> QED BY <2>2, <2>4, <4>1
    <3>7. Count(ans', u) = Upto(i + 1)
      BY <3>4, <3>5, <3>6
    <3> QED BY <1>2, <3>1, <3>7 DEF CopiedOnce
  <2>13. CASE EndsInHolder
    <3>1. pc = "placeholder" /\ i >= fmt.size
      BY <2>1, <2>13 DEF EndsInHolder, Truncated
    <3>2. PICK k \in 1 .. i : k <= fmt.size /\ view[k] = OPEN
                              /\ \A j \in k .. i : j <= fmt.size => view[j] # CLOSE
      BY <2>1, <3>1 DEF OpenBehind
    <3>3. k \in 1 .. fmt.size /\ \A j \in k .. fmt.size : j \in k .. i /\ j <= fmt.size
      BY <1>1, <1>4, <3>1, <3>2
    <3>4. StaysOpen
      BY <3>2, <3>3 DEF StaysOpen
    <3> QED BY <2>1, <3>4
  <2>14. CASE UNCHANGED vars
    BY <1>2, <2>1, <2>14 DEF vars, CopiedOnce
  <2>15. CASE pc' \notin {"text", "placeholder", "return"}
    BY <2>15 DEF CopiedOnce
  <2>16. CASE SkipUnknown
    BY <2>1, <2>16 DEF SkipUnknown
  <2> QED BY <2>1, <2>6, <2>7, <2>8, <2>9, <2>10, <2>11, <2>12, <2>13, <2>14, <2>15, <2>16
       DEF Next, TextLoop, HolderLoops, Throws, Aborts, Undefined, Comma, Param, Alignment, AlignmentOther,
           AlignmentEnd, InHolder
<1>10. (pc' = "placeholder" => i' <= fmt'.size) /\ ans' \in Seq(Nat)
  BY <1>6, <1>7
<1> QED BY <1>3, <1>8, <1>9, <1>10 DEF PlainInv

\* TextOnce: with assertions, every unit of a format without widths and parameters
\* that is no brace, no digit and in no argument is in the answer as often as in the
\* format, unless a brace stays open.
THEOREM TextKeptOnce == FairSpec => []TextOnce
<1> DEFINE Inv == ParserTypes /\ PlainInv
<1>1. Init => Inv
  BY ParserTypesInit, PlainInit
<1>2. Inv /\ [Next]_vars => Inv'
  BY ParserTypesNext, PlainNext
<1>3. ASSUME Inv PROVE TextOnce
  <2> SUFFICES ASSUME pc = "return", ~ NDEBUG, ~ StaysOpen,
                      \A k \in 1 .. fmt.size : view[k] \notin {COMMA, COLON},
                      NEW k \in 1 .. fmt.size,
                      view[k] \notin {OPEN, CLOSE}, ~ is_number(view[k]),
                      ~ \E a \in 1 .. Len(args) : \E str \in to_string(args[a]) : Count(str, view[k]) > 0
               PROVE  Count(ans, view[k]) = Count(view, view[k])
    BY DEF TextOnce
  <2> DEFINE u == view[k]
  <2>1. u \in Nat
    BY <1>3, TextType
  <2>2. Plain
    BY <1>3 DEF Plain, ParserTypes
  <2>3. ASSUME NEW a \in 1 .. Len(args), NEW str \in to_string(args[a]) PROVE Count(str, u) = 0
    <3>1. args \in Seq(Arguments)
      BY <1>3, CallTypes DEF ParserTypes
    <3>2. str \in Seq(Nat)
      BY <3>1, StringType
    <3>3. Count(str, u) \in Nat
      BY <3>2, CountJoined
    <3>4. ~ (Count(str, u) > 0)
      OBVIOUS
    <3> HIDE DEF u
    <3> QED BY <3>3, <3>4
  <2>4. Foreign(u)
    BY <2>3 DEF Foreign
  <2>5. CopiedOnce(u)
    BY <1>3, <2>1, <2>2, <2>4 DEF PlainInv
  <2> QED BY <2>5 DEF CopiedOnce
<1> QED BY <1>1, <1>2, <1>3, PTL DEF FairSpec

-----------------------------------------------------------------------------
(* Formats that are written from parts.                                    *)

\* Two sequences joined, with their lengths and elements, as a fact for Zenon.
LEMMA JoinedIs ==
  \A a \in Seq(Nat), b \in Seq(Nat) :
    /\ a \o b \in Seq(Nat) /\ Len(a \o b) = Len(a) + Len(b)
    /\ Len(a) \in Nat /\ Len(b) \in Nat
    /\ \A j \in 1 .. Len(a) : (a \o b)[j] = a[j]
    /\ \A j \in 1 .. Len(b) : (a \o b)[Len(a) + j] = b[j]
OBVIOUS

FormatPart == Parts(size_t, (-INT_MAX) .. INT_MAX, char16_t)

\* Of a placeholder: how its width is written without the sign, how many units the
\* sign takes, and the number, and the width with its comma.
Width(part)      == IF part.width < 0 THEN -part.width ELSE part.width
SignUnits(part)  == IF part.plus \/ part.width < 0 THEN 1 ELSE 0
NumberUnits(part) == IF part.number = Automatic THEN 0 ELSE DigitsOf(part.number)
WidthUnits(part) == IF part.width = 0 THEN 0 ELSE 1 + SignUnits(part) + DigitsOf(Width(part))

NumberText(part) == IF part.number = Automatic THEN <<>> ELSE Decimal[part.number]
WidthText(part)  == IF part.width = 0 THEN <<>> ELSE <<44>> \o Signed(part.width, part.plus)

\* The fields of a placeholder.
IsPlaceholder(part) ==
  /\ part.kind = "placeholder"
  /\ part.number = Automatic \/ (part.number \in size_t /\ part.number \in Nat)
  /\ part.width \in Int /\ -INT_MAX <= part.width /\ part.width <= INT_MAX
  /\ part.plus \in BOOLEAN
  /\ part.plus => part.width > 0
  /\ part.param \in Seq(Nat) /\ Len(part.param) \in Nat
  /\ \A k \in 1 .. Len(part.param) : part.param[k] # CLOSE /\ part.param[k] \in Nat
  /\ part.param # <<>> => part.param[1] = COLON
  /\ part.number = Automatic => part.width = 0 /\ part.param = <<>>

LEMMA PartKinds ==
  ASSUME NEW part \in FormatPart
  PROVE  \/ /\ part.kind = "text" /\ part.unit \in Nat /\ part.unit \notin {OPEN, CLOSE}
            /\ WrittenPart(part) = <<part.unit>>
         \/ /\ part.kind = "brace" /\ part.unit \in {OPEN, CLOSE}
            /\ WrittenPart(part) = <<part.unit, part.unit>>
         \/ /\ IsPlaceholder(part)
            /\ WrittenPart(part) = <<OPEN>> \o NumberText(part) \o WidthText(part) \o part.param \o <<CLOSE>>
<1>1. char16_t \subseteq Nat /\ INT_MAX \in Nat
  BY UnitNumbers, IntMaxAssumption
<1>2. CASE part \in [kind : {"text"}, unit : char16_t \ {123, 125}]
  BY <1>1, <1>2 DEF WrittenPart, OPEN, CLOSE
<1>3. CASE part \in [kind : {"brace"}, unit : {123, 125}]
  BY <1>3 DEF WrittenPart, OPEN, CLOSE
<1>4. CASE /\ part \in [kind : {"placeholder"}, number : size_t \cup {Automatic},
                        width : (-INT_MAX) .. INT_MAX, plus : BOOLEAN, param : Seq(char16_t)]
           /\ part.plus => part.width > 0
           /\ part.param # <<>> => part.param[1] = 58
           /\ \A k \in 1 .. Len(part.param) : part.param[k] # 125
           /\ part.number = Automatic => part.width = 0 /\ part.param = <<>>
  <2>1. /\ part.kind = "placeholder" /\ (part.number = Automatic \/ part.number \in size_t)
        /\ part.width \in (-INT_MAX) .. INT_MAX /\ part.plus \in BOOLEAN
        /\ part.param \in Seq(char16_t)
    BY <1>4
  <2> DEFINE s == part.param
  <2>2. s \in Seq(Nat) /\ Len(s) \in Nat /\ \A k \in 1 .. Len(s) : s[k] \in Nat
    <3>1. s \in Seq(char16_t)
      BY <2>1
    <3> HIDE DEF s
    <3>2. s \in Seq(Nat)
      BY <1>1, <3>1, WiderSeq
    <3> QED BY <3>2
  <2>3. size_t \subseteq Nat
    BY SizeMaxAssumption DEF size_t
  <2>4. part.width \in Int /\ -INT_MAX <= part.width /\ part.width <= INT_MAX
    BY <1>1, <2>1
  <2>5. IsPlaceholder(part)
    BY <1>4, <2>1, <2>2, <2>3, <2>4 DEF IsPlaceholder, CLOSE, COLON
  <2>6. WrittenPart(part) = <<OPEN>> \o NumberText(part) \o WidthText(part) \o part.param \o <<CLOSE>>
    BY <2>1 DEF WrittenPart, NumberText, WidthText, OPEN, CLOSE
  <2> QED BY <2>5, <2>6
<1> QED BY <1>2, <1>3, <1>4 DEF FormatPart, Parts

\* How a width is written: a comma, a sign or none, and the digits.
LEMMA WidthTextIs ==
  ASSUME NEW part, IsPlaceholder(part), part.width # 0
  PROVE  /\ Width(part) \in Nat /\ SignUnits(part) \in {0, 1}
         /\ DigitsOf(Width(part)) \in Nat \ {0}
         /\ WidthText(part) \in Seq(Nat) /\ Len(WidthText(part)) = WidthUnits(part)
         /\ WidthText(part)[1] = COMMA
         /\ part.width < 0 => WidthText(part)[2] = MINUS
         /\ part.plus => WidthText(part)[2] = PLUS
         /\ \A q \in 1 .. DigitsOf(Width(part)) :
              WidthText(part)[1 + SignUnits(part) + q] = Digits(Width(part))[q]
<1> DEFINE n == Width(part)
           d == Digits(n)
           s == SignUnits(part)
           z == IF part.width < 0 THEN <<45>> ELSE IF part.plus THEN <<43>> ELSE <<>>
<1>1. part.width \in Int /\ part.plus \in BOOLEAN /\ (part.plus => part.width > 0)
  BY DEF IsPlaceholder
<1>2. n \in Nat /\ s \in {0, 1}
  BY <1>1 DEF Width, SignUnits
<1>3. d \in Seq(Nat) /\ Len(d) = DigitsOf(n) /\ DigitsOf(n) \in Nat \ {0} /\ Decimal[n] = d
  <2> HIDE DEF n
  <2> QED BY <1>2, DigitsType, DecimalIs
<1>4. z \in Seq(Nat) /\ Len(z) = s
  BY <1>1 DEF SignUnits
<1> DEFINE t == z \o d
<1>5. Signed(part.width, part.plus) = t
  <2>1. CASE part.plus
    <3>1. n = part.width /\ ~ (part.width < 0)
      BY <1>1, <2>1 DEF Width
    <3>2. Signed(part.width, part.plus) = <<43>> \o Decimal[n]
      BY <2>1, <3>1 DEF Signed
    <3> QED BY <1>3, <2>1, <3>1, <3>2
  <2>2. CASE ~ part.plus /\ part.width < 0
    <3>1. n = -part.width
      BY <2>2 DEF Width
    <3>2. Signed(part.width, part.plus) = <<45>> \o Decimal[n]
      BY <2>2, <3>1 DEF Signed, Numeral
    <3> QED BY <1>3, <2>2, <3>2
  <2>3. CASE ~ part.plus /\ ~ (part.width < 0)
    <3>1. n = part.width
      BY <2>3 DEF Width
    <3>2. Signed(part.width, part.plus) = Decimal[n]
      BY <2>3, <3>1 DEF Signed, Numeral
    <3>3. <<>> \o d = d
      <4> HIDE DEF d
      <4> QED BY <1>3
    <3> QED BY <1>3, <2>3, <3>2, <3>3
  <2> QED BY <2>1, <2>2, <2>3
<1>6. /\ t \in Seq(Nat) /\ Len(t) = s + DigitsOf(n)
      /\ \A j \in 1 .. s : t[j] = z[j]
      /\ \A j \in 1 .. DigitsOf(n) : t[s + j] = d[j]
  <2>1. t = z \o d
    OBVIOUS
  <2> HIDE DEF z, d, n, s, t
  <2>2. /\ t \in Seq(Nat) /\ Len(t) = Len(z) + Len(d)
        /\ \A j \in 1 .. Len(z) : t[j] = z[j]
        /\ \A j \in 1 .. Len(d) : t[Len(z) + j] = d[j]
    BY <1>3, <1>4, <2>1, JoinedIs, Zenon
  <2> QED BY <1>3, <1>4, <2>2
<1> DEFINE w == <<44>> \o t
<1>7. WidthText(part) = w
  BY <1>5 DEF WidthText
<1>8. /\ w \in Seq(Nat) /\ Len(w) = 1 + (s + DigitsOf(n))
      /\ w[1] = 44 /\ \A j \in 1 .. (s + DigitsOf(n)) : w[1 + j] = t[j]
  <2> HIDE DEF t, n, s
  <2>1. <<44>> \in Seq(Nat) /\ Len(<<44>>) = 1 /\ <<44>>[1] = 44 /\ 1 \in 1 .. 1
    OBVIOUS
  <2> QED BY <1>6, <2>1, JoinedTwo
<1>9. part.width < 0 \/ part.plus => w[2] = z[1]
  <2> SUFFICES ASSUME part.width < 0 \/ part.plus PROVE w[2] = z[1]
    OBVIOUS
  <2>1. s = 1
    BY DEF SignUnits
  <2> HIDE DEF z, d, n, s, t, w
  <2>2. 1 \in 1 .. s /\ 1 \in 1 .. (s + DigitsOf(n)) /\ 1 + 1 = 2
    BY <1>3, <2>1
  <2> QED BY <1>6, <1>8, <2>2
<1>10. \A q \in 1 .. DigitsOf(n) : w[1 + s + q] = d[q]
  <2> HIDE DEF z, d, n, s, t, w
  <2> SUFFICES ASSUME NEW q \in 1 .. DigitsOf(n) PROVE w[1 + s + q] = d[q]
    OBVIOUS
  <2>1. s + q \in 1 .. (s + DigitsOf(n)) /\ 1 + s + q = 1 + (s + q)
    BY <1>2, <1>3
  <2> QED BY <1>6, <1>8, <2>1
<1>11. (part.width < 0 => z[1] = 45) /\ (part.plus => z[1] = 43)
  BY <1>1
<1>12. Len(w) = WidthUnits(part)
  <2>1. WidthUnits(part) = 1 + s + DigitsOf(n)
    BY DEF WidthUnits
  <2> HIDE DEF z, d, n, s, t, w
  <2> QED BY <1>2, <1>3, <1>8, <2>1
<1> HIDE DEF z, w, t
<1> QED BY <1>2, <1>3, <1>7, <1>8, <1>9, <1>10, <1>11, <1>12 DEF COMMA, MINUS, PLUS

\* The units of a written placeholder.
LEMMA PlaceholderUnits ==
  ASSUME NEW part, IsPlaceholder(part),
         WrittenPart(part) = <<OPEN>> \o NumberText(part) \o WidthText(part) \o part.param \o <<CLOSE>>
  PROVE  /\ NumberUnits(part) \in Nat /\ WidthUnits(part) \in Nat /\ Len(part.param) \in Nat
         /\ WrittenPart(part) \in Seq(Nat) /\ Len(WrittenPart(part)) = 2 + NumberUnits(part) + WidthUnits(part) + Len(part.param)
         /\ WrittenPart(part)[1] = OPEN
         /\ \A q \in 1 .. NumberUnits(part) : WrittenPart(part)[1 + q] = Digits(part.number)[q]
         /\ \A q \in 1 .. WidthUnits(part) : WrittenPart(part)[1 + NumberUnits(part) + q] = WidthText(part)[q]
         /\ \A q \in 1 .. Len(part.param) :
              WrittenPart(part)[1 + NumberUnits(part) + WidthUnits(part) + q] = part.param[q]
         /\ WrittenPart(part)[2 + NumberUnits(part) + WidthUnits(part) + Len(part.param)] = CLOSE
<1> DEFINE a == <<OPEN>>
           b == NumberText(part)
           c == WidthText(part)
           d == part.param
           e == <<CLOSE>>
<1>1. a \in Seq(Nat) /\ Len(a) = 1 /\ a[1] = OPEN /\ e \in Seq(Nat) /\ Len(e) = 1 /\ e[1] = CLOSE
  BY DEF OPEN, CLOSE
<1>2. /\ NumberUnits(part) \in Nat /\ b \in Seq(Nat) /\ Len(b) = NumberUnits(part)
      /\ \A q \in 1 .. NumberUnits(part) : b[q] = Digits(part.number)[q]
  <2>1. CASE part.number = Automatic
    BY <2>1 DEF NumberText, NumberUnits
  <2>2. CASE part.number # Automatic
    <3>1. part.number \in Nat
      BY <2>2 DEF IsPlaceholder
    <3>2. b = Digits(part.number) /\ NumberUnits(part) = DigitsOf(part.number)
      BY <2>2, <3>1, DecimalIs DEF NumberText, NumberUnits
    <3> HIDE DEF b
    <3> QED BY <3>1, <3>2, DigitsType
  <2> QED BY <2>1, <2>2
<1>3. /\ WidthUnits(part) \in Nat /\ c \in Seq(Nat) /\ Len(c) = WidthUnits(part)
  <2>1. CASE part.width = 0
    BY <2>1 DEF WidthText, WidthUnits
  <2>2. CASE part.width # 0
    <3>1. c \in Seq(Nat) /\ Len(c) = WidthUnits(part)
      BY <2>2, WidthTextIs
    <3> HIDE DEF c
    <3> QED BY <3>1
  <2> QED BY <2>1, <2>2
<1>4. d \in Seq(Nat) /\ Len(d) \in Nat
  BY DEF IsPlaceholder
<1> DEFINE ab == a \o b
           abc == ab \o c
           abcd == abc \o d
           L0 == NumberUnits(part)
           L1 == WidthUnits(part)
           L2 == Len(part.param)
           w == WrittenPart(part)
<1>5. w = abcd \o e /\ L2 = Len(d)
  OBVIOUS
<1>6. ab = a \o b /\ abc = ab \o c /\ abcd = abc \o d
  OBVIOUS
<1>7. L0 \in Nat /\ L1 \in Nat /\ L2 \in Nat /\ Len(b) = L0 /\ Len(c) = L1 /\ Len(d) = L2
  BY <1>2, <1>3, <1>4
<1> HIDE DEF a, b, c, d, e, ab, abc, abcd, L0, L1, L2, w
<1>8. /\ ab \in Seq(Nat) /\ Len(ab) = Len(a) + Len(b)
      /\ \A j \in 1 .. Len(a) : ab[j] = a[j]
      /\ \A j \in 1 .. Len(b) : ab[Len(a) + j] = b[j]
  BY <1>1, <1>2, <1>6, JoinedIs, Zenon
<1>9. ab \in Seq(Nat) /\ Len(ab) = 1 + L0 /\ ab[1] = OPEN /\ \A j \in 1 .. L0 : ab[1 + j] = b[j]
  BY <1>1, <1>7, <1>8
<1>10. /\ abc \in Seq(Nat) /\ Len(abc) = Len(ab) + Len(c)
       /\ \A j \in 1 .. Len(ab) : abc[j] = ab[j]
       /\ \A j \in 1 .. Len(c) : abc[Len(ab) + j] = c[j]
  BY <1>3, <1>6, <1>9, JoinedIs, Zenon
<1>11. /\ abc \in Seq(Nat) /\ Len(abc) = 1 + L0 + L1
       /\ \A j \in 1 .. (1 + L0) : abc[j] = ab[j]
       /\ \A j \in 1 .. L1 : abc[1 + L0 + j] = c[j]
  BY <1>7, <1>9, <1>10
<1>12. /\ abcd \in Seq(Nat) /\ Len(abcd) = Len(abc) + Len(d)
       /\ \A j \in 1 .. Len(abc) : abcd[j] = abc[j]
       /\ \A j \in 1 .. Len(d) : abcd[Len(abc) + j] = d[j]
  <2>1. abc \in Seq(Nat) /\ d \in Seq(Nat) /\ abcd = abc \o d
    BY <1>4, <1>6, <1>11
  <2> QED BY <2>1, JoinedIs, Zenon
<1>13. /\ abcd \in Seq(Nat) /\ Len(abcd) = 1 + L0 + L1 + L2
       /\ \A j \in 1 .. (1 + L0 + L1) : abcd[j] = abc[j]
       /\ \A j \in 1 .. L2 : abcd[1 + L0 + L1 + j] = d[j]
  BY <1>7, <1>11, <1>12
<1>14. /\ w \in Seq(Nat) /\ Len(w) = Len(abcd) + Len(e)
       /\ \A j \in 1 .. Len(abcd) : w[j] = abcd[j]
       /\ \A j \in 1 .. Len(e) : w[Len(abcd) + j] = e[j]
  <2> DEFINE v == abcd \o e
  <2>1. abcd \in Seq(Nat) /\ e \in Seq(Nat) /\ w = v
    BY <1>1, <1>5, <1>13
  <2>2. /\ v \in Seq(Nat) /\ Len(v) = Len(abcd) + Len(e)
        /\ \A j \in 1 .. Len(abcd) : v[j] = abcd[j]
        /\ \A j \in 1 .. Len(e) : v[Len(abcd) + j] = e[j]
    BY <2>1, JoinedIs, Zenon
  <2> HIDE DEF v
  <2> QED BY <2>1, <2>2
<1>15. /\ w \in Seq(Nat) /\ Len(w) = 2 + L0 + L1 + L2
       /\ \A j \in 1 .. (1 + L0 + L1 + L2) : w[j] = abcd[j]
       /\ w[2 + L0 + L1 + L2] = CLOSE
  <2>1. 1 \in 1 .. Len(e) /\ Len(abcd) + 1 = 2 + L0 + L1 + L2
    BY <1>1, <1>7, <1>13
  <2>2. w[Len(abcd) + 1] = CLOSE
    BY <1>1, <1>14, <2>1
  <2> QED BY <1>1, <1>7, <1>13, <1>14, <2>1, <2>2
<1>16. w[1] = OPEN
  <2>1. 1 \in 1 .. (1 + L0) /\ 1 \in 1 .. (1 + L0 + L1) /\ 1 \in 1 .. (1 + L0 + L1 + L2)
    BY <1>7
  <2> QED BY <1>9, <1>11, <1>13, <1>15, <2>1
<1>17. \A q \in 1 .. L0 : w[1 + q] = Digits(part.number)[q]
  <2> SUFFICES ASSUME NEW q \in 1 .. L0 PROVE w[1 + q] = Digits(part.number)[q]
    OBVIOUS
  <2>1. 1 + q \in 1 .. (1 + L0) /\ 1 + q \in 1 .. (1 + L0 + L1) /\ 1 + q \in 1 .. (1 + L0 + L1 + L2)
    BY <1>7
  <2>2. b[q] = Digits(part.number)[q]
    BY <1>2 DEF L0
  <2> QED BY <1>9, <1>11, <1>13, <1>15, <2>1, <2>2
<1>18. \A q \in 1 .. L1 : w[1 + L0 + q] = c[q]
  <2> SUFFICES ASSUME NEW q \in 1 .. L1 PROVE w[1 + L0 + q] = c[q]
    OBVIOUS
  <2>1. 1 + L0 + q \in 1 .. (1 + L0 + L1) /\ 1 + L0 + q \in 1 .. (1 + L0 + L1 + L2)
    BY <1>7
  <2> QED BY <1>11, <1>13, <1>15, <2>1
<1>19. \A q \in 1 .. L2 : w[1 + L0 + L1 + q] = d[q]
  <2> SUFFICES ASSUME NEW q \in 1 .. L2 PROVE w[1 + L0 + L1 + q] = d[q]
    OBVIOUS
  <2>1. 1 + L0 + L1 + q \in 1 .. (1 + L0 + L1 + L2)
    BY <1>7
  <2> QED BY <1>13, <1>15, <2>1
<1> QED BY <1>7, <1>15, <1>16, <1>17, <1>18, <1>19 DEF L0, L1, L2, c, d, w

\* Where the parts end in the view.
End(n) == IF n = 0 THEN 0 ELSE fmt.ends[n]

LEMMA PartsType ==
  ASSUME CallMade, fmt.parts # NoParts
  PROVE  /\ fmt.parts \in PartSequences /\ fmt.parts \in Seq(FormatPart) /\ Len(fmt.parts) \in Nat
         /\ AutoLast(fmt.parts)
         /\ \A n \in 0 .. Len(fmt.parts) : SubSeq(fmt.parts, n + 1, Len(fmt.parts)) # NoParts
         /\ fmt.ends \in Seq(Nat) /\ Len(fmt.ends) = Len(fmt.parts)
         /\ End(0) = 0 /\ End(Len(fmt.parts)) = fmt.size
         /\ \A n \in 0 .. Len(fmt.parts) :
              End(n) \in Nat /\ SubSeq(fmt.buffer, 1, End(n)) = Written(SubSeq(fmt.parts, 1, n))
<1> DEFINE c == [fmt |-> fmt, args |-> args]
           N == Len(fmt.parts)
<1>1. c \in Calls /\ c.fmt = fmt
  BY DEF CallMade
<1>2. fmt \in [buffer : Seq(char16_t), size : Nat, ends : Seq(Nat),
               parts : PartSequences \cup {NoParts}]
  BY <1>1, FormatAssumption
<1>3. /\ Len(fmt.ends) = N
      /\ \A n \in 0 .. N : SubSeq(fmt.buffer, 1, (<<0>> \o fmt.ends)[n + 1]) = Written(SubSeq(fmt.parts, 1, n))
      /\ fmt.size = (<<0>> \o fmt.ends)[N + 1]
  <2>1. /\ Len(c.fmt.ends) = Len(c.fmt.parts)
        /\ \A n \in 0 .. Len(c.fmt.parts) :
             SubSeq(c.fmt.buffer, 1, (<<0>> \o c.fmt.ends)[n + 1]) = Written(SubSeq(c.fmt.parts, 1, n))
        /\ c.fmt.size = (<<0>> \o c.fmt.ends)[Len(c.fmt.parts) + 1]
    <3>1. c.fmt.parts # NoParts
      BY <1>1
    <3> HIDE DEF c
    <3> QED BY <1>1, <3>1, FormatAssumption
  <2> HIDE DEF c
  <2> QED BY <1>1, <2>1
<1>4. fmt.parts \in PartSequences /\ fmt.ends \in Seq(Nat)
  BY <1>2
<1>5. fmt.parts \in Seq(FormatPart) /\ AutoLast(fmt.parts)
      /\ \A n \in 0 .. N : SubSeq(fmt.parts, n + 1, N) # NoParts
  BY <1>4, FormatAssumption DEF FormatPart
<1>6. N \in Nat
  BY <1>5
<1>7. ASSUME NEW n \in 0 .. N PROVE End(n) \in Nat /\ (<<0>> \o fmt.ends)[n + 1] = End(n)
  <2> DEFINE z == <<0>>
             e == fmt.ends
  <2>1. z \in Seq(Nat) /\ Len(z) = 1 /\ z[1] = 0 /\ e \in Seq(Nat) /\ Len(e) = N
    BY <1>3, <1>4
  <2> HIDE DEF z, e
  <2>2. /\ \A j \in 1 .. Len(z) : (z \o e)[j] = z[j]
        /\ \A j \in 1 .. Len(e) : (z \o e)[Len(z) + j] = e[j]
    BY <2>1, JoinedIs, Zenon
  <2>3. CASE n = 0
    BY <2>1, <2>2, <2>3 DEF End, z, e
  <2>4. CASE n # 0
    <3>1. n \in 1 .. Len(e) /\ Len(z) + n = n + 1
      BY <1>6, <2>1, <2>4
    <3>5. e[n] \in Nat
      BY <2>1, <3>1
    <3>2. (z \o e)[n + 1] = e[n] /\ e[n] \in Nat
      BY <2>2, <3>1, <3>5, Zenon
    <3>3. End(n) = e[n]
      BY <2>4 DEF End, e
    <3>4. End(n) \in Nat /\ (z \o e)[n + 1] = End(n)
      BY <3>2, <3>3, Zenon
    <3> QED BY <3>4, Zenon DEF z, e
  <2> QED BY <2>3, <2>4
<1>8. 0 \in 0 .. N /\ N \in 0 .. N
  BY <1>6
<1>9. End(0) = 0
  BY DEF End
<1>10. End(N) = fmt.size
  BY <1>3, <1>7, <1>8
<1>11. \A n \in 0 .. N : SubSeq(fmt.buffer, 1, End(n)) = Written(SubSeq(fmt.parts, 1, n))
  BY <1>3, <1>7
<1> QED BY <1>3, <1>4, <1>5, <1>6, <1>7, <1>9, <1>10, <1>11

\* The units of a part, at its place.
LEMMA WrittenType ==
  ASSUME NEW part \in FormatPart
  PROVE  WrittenPart(part) \in Seq(Nat) /\ Len(WrittenPart(part)) \in Nat \ {0}
<1>1. CASE part.unit \in Nat /\ WrittenPart(part) = <<part.unit>>
  BY <1>1
<1>2. CASE part.unit \in {OPEN, CLOSE} /\ WrittenPart(part) = <<part.unit, part.unit>>
  <2>1. part.unit \in Nat
    BY <1>2 DEF OPEN, CLOSE
  <2> QED BY <1>2, <2>1
<1>3. CASE /\ IsPlaceholder(part)
           /\ WrittenPart(part) = <<OPEN>> \o NumberText(part) \o WidthText(part) \o part.param \o <<CLOSE>>
  <2> DEFINE w == WrittenPart(part)
  <2>1. /\ NumberUnits(part) \in Nat /\ WidthUnits(part) \in Nat /\ Len(part.param) \in Nat
        /\ w \in Seq(Nat) /\ Len(w) = 2 + NumberUnits(part) + WidthUnits(part) + Len(part.param)
    BY <1>3, PlaceholderUnits
  <2> HIDE DEF w
  <2>2. Len(w) \in Nat \ {0}
    BY <2>1
  <2> QED BY <2>1, <2>2 DEF w
<1> QED BY <1>1, <1>2, <1>3, PartKinds

LEMMA PartsPlaced ==
  ASSUME CallMade, fmt.parts # NoParts
  PROVE  /\ \A m \in 0 .. Len(fmt.parts), n \in 0 .. Len(fmt.parts) : m <= n => End(m) <= End(n)
         /\ \A m \in 0 .. Len(fmt.parts) : End(m) <= fmt.size
         /\ \A m \in 0 .. (Len(fmt.parts) - 1) :
              /\ fmt.parts[m + 1] \in FormatPart
              /\ End(m + 1) = End(m) + Len(WrittenPart(fmt.parts[m + 1]))
              /\ \A j \in 1 .. Len(WrittenPart(fmt.parts[m + 1])) :
                   fmt.buffer[End(m) + j] = WrittenPart(fmt.parts[m + 1])[j]
<1> DEFINE p == fmt.parts
           N == Len(p)
           W == [k \in 1 .. N |-> WrittenPart(p[k])]
<1>1. p \in Seq(FormatPart) /\ N \in Nat /\ \A k \in 1 .. N : p[k] \in FormatPart
  <2>1. p \in Seq(FormatPart) /\ N \in Nat
    BY PartsType
  <2> HIDE DEF p
  <2> QED BY <2>1
<1>2. \A n \in 0 .. N : End(n) \in Nat /\ SubSeq(fmt.buffer, 1, End(n)) = Written(SubSeq(p, 1, n))
  BY PartsType
<1>3. End(0) = 0 /\ End(N) = fmt.size /\ N \in 0 .. N
  BY <1>1, PartsType
<1>4. fmt.buffer \in Seq(Nat)
  <2> DEFINE b == fmt.buffer
  <2>1. b \in Seq(char16_t) /\ char16_t \subseteq Nat
    BY CallTypes, UnitNumbers
  <2> HIDE DEF b
  <2>2. b \in Seq(Nat)
    BY <2>1, WiderSeq
  <2> QED BY <2>2 DEF b
<1> HIDE DEF p
<1>5. \A k \in 1 .. N : WrittenPart(p[k]) \in Seq(Nat) /\ Len(WrittenPart(p[k])) \in Nat \ {0}
  BY <1>1, WrittenType
<1>6. W \in Seq(Seq(Nat)) /\ Len(W) = N /\ \A k \in 1 .. N : W[k] = WrittenPart(p[k])
  <2>1. W \in [1 .. N -> Seq(Nat)]
    BY <1>5
  <2>2. \A k \in 1 .. N : W[k] = WrittenPart(p[k])
    OBVIOUS
  <2> HIDE DEF W
  <2> QED BY <1>1, <2>1, <2>2
<1>7. PICK f : JoinsUpto(f, W, N)
  <2> HIDE DEF W
  <2> QED BY <1>6, JoinsExist
<1>8. ASSUME NEW n \in 0 .. N PROVE Written(SubSeq(p, 1, n)) = f[n]
  <2> DEFINE q == SubSeq(p, 1, n)
             V == [k \in 1 .. Len(q) |-> WrittenPart(q[k])]
  <2>1. Len(q) = n /\ \A k \in 1 .. n : q[k] = p[k]
    BY <1>1
  <2>2. V = [k \in 1 .. n |-> WrittenPart(p[k])]
    BY <2>1
  <2>3. SubSeq(W, 1, n) = [k \in 1 .. n |-> WrittenPart(p[k])]
    <3>1. n \in Nat /\ n <= N
      BY <1>1
    <3>2. SubSeq(W, 1, n) = [k \in 1 .. n |-> W[k]]
      <4> HIDE DEF W
      <4> QED BY <1>6, <3>1
    <3>3. \A k \in 1 .. n : W[k] = WrittenPart(p[k])
      BY <1>6, <3>1
    <3> HIDE DEF W
    <3> QED BY <3>2, <3>3
  <2>4. Written(q) = FlattenSeq(V)
    BY DEF Written
  <2> HIDE DEF q, V, W
  <2>5. n \in 0 .. Len(W) /\ JoinsUpto(f, W, Len(W))
    BY <1>6, <1>7
  <2>6. FlattenSeq(SubSeq(W, 1, n)) = f[n]
    BY <1>6, <2>5, FlattenFront
  <2> QED BY <2>2, <2>3, <2>4, <2>6 DEF q
<1> HIDE DEF W
<1>9. ASSUME NEW n \in 0 .. N
      PROVE  f[n] \in Seq(Nat) /\ Len(f[n]) = End(n) /\ \A k \in 1 .. End(n) : f[n][k] = fmt.buffer[k]
  <2> DEFINE b == fmt.buffer
             e == End(n)
             s == SubSeq(b, 1, e)
  <2>1. s = f[n] /\ e \in Nat /\ b \in Seq(Nat)
    BY <1>2, <1>4, <1>8
  <2>2. f[n] \in Seq(Nat)
    BY <1>7 DEF JoinsUpto
  <2> HIDE DEF b, e
  <2>3. Len(s) = e /\ \A k \in 1 .. e : s[k] = b[k]
    BY <2>1
  <2> QED BY <2>1, <2>2, <2>3 DEF b, e
<1>10. ASSUME NEW m \in 0 .. N, NEW n \in 0 .. N, m <= n PROVE End(m) <= End(n)
  <2>1. n \in m .. N
    BY <1>1, <1>10
  <2>2. BeginsWith(f[n], f[m])
    BY <1>6, <1>7, <2>1, JoinsBegin
  <2> QED BY <1>9, <2>2 DEF BeginsWith
<1>11. ASSUME NEW m \in 0 .. (N - 1)
       PROVE  /\ p[m + 1] \in FormatPart
              /\ End(m + 1) = End(m) + Len(WrittenPart(p[m + 1]))
              /\ \A j \in 1 .. Len(WrittenPart(p[m + 1])) :
                   fmt.buffer[End(m) + j] = WrittenPart(p[m + 1])[j]
  <2> DEFINE n == m + 1
             a == f[m]
             b == W[n]
             c == f[n]
             w == WrittenPart(p[n])
  <2>1. n \in 1 .. N /\ m \in 0 .. N /\ n \in 0 .. N /\ n - 1 = m /\ m \in Nat
    BY <1>1
  <2>2. c = f[n - 1] \o b
    <3> HIDE DEF n
    <3> QED BY <1>7, <2>1 DEF JoinsUpto
  <2>3. a \in Seq(Nat) /\ Len(a) = End(m)
    BY <1>9, <2>1
  <2>4. c \in Seq(Nat) /\ Len(c) = End(n) /\ \A k \in 1 .. End(n) : c[k] = fmt.buffer[k]
    <3> HIDE DEF n
    <3> QED BY <1>9, <2>1
  <2>5. b = w /\ w \in Seq(Nat) /\ p[n] \in FormatPart
    <3> HIDE DEF n
    <3> QED BY <1>1, <1>5, <1>6, <2>1
  <2>6. c = a \o w
    BY <2>1, <2>2, <2>5
  <2> HIDE DEF a, b, c, w, n
  <2>7. /\ Len(c) = Len(a) + Len(w) /\ Len(a) \in Nat /\ Len(w) \in Nat
        /\ \A j \in 1 .. Len(w) : c[Len(a) + j] = w[j]
    BY <2>3, <2>5, <2>6, JoinedIs, Zenon
  <2>8. End(n) = End(m) + Len(w)
    BY <2>3, <2>4, <2>7
  <2>9. ASSUME NEW j \in 1 .. Len(w) PROVE fmt.buffer[End(m) + j] = w[j]
    <3>1. End(m) + j \in 1 .. End(n)
      BY <2>3, <2>7, <2>8
    <3>2. c[End(m) + j] = fmt.buffer[End(m) + j]
      BY <2>4, <3>1
    <3> QED BY <2>3, <2>7, <3>2
  <2>10. p[n] \in FormatPart /\ End(n) = End(m) + Len(w) /\ \A j \in 1 .. Len(w) : fmt.buffer[End(m) + j] = w[j]
    BY <2>5, <2>8, <2>9
  <2> QED BY <2>10 DEF n, w
<1>12. \A m \in 0 .. N : End(m) <= fmt.size
  <2> SUFFICES ASSUME NEW m \in 0 .. N PROVE End(m) <= fmt.size
    OBVIOUS
  <2>1. m <= N
    BY <1>1
  <2> QED BY <1>3, <1>10, <2>1
<1> QED BY <1>10, <1>11, <1>12 DEF p

\* Where the units of a placeholder stand in the buffer.
LEMMA HolderPlaced ==
  ASSUME CallMade, fmt.parts # NoParts, NEW m \in 0 .. (Len(fmt.parts) - 1), NEW p,
         p = fmt.parts[m + 1], p.kind = "placeholder"
  PROVE  /\ IsPlaceholder(p) /\ End(m) \in Nat
         /\ NumberUnits(p) \in Nat /\ WidthUnits(p) \in Nat /\ Len(p.param) \in Nat
         /\ End(m + 1) = End(m) + 2 + NumberUnits(p) + WidthUnits(p) + Len(p.param)
         /\ End(m + 1) <= fmt.size
         /\ fmt.buffer[End(m) + 1] = OPEN
         /\ \A q \in 1 .. NumberUnits(p) : fmt.buffer[End(m) + 1 + q] = Digits(p.number)[q]
         /\ \A q \in 1 .. WidthUnits(p) :
              fmt.buffer[End(m) + 1 + NumberUnits(p) + q] = WidthText(p)[q]
         /\ \A q \in 1 .. Len(p.param) :
              fmt.buffer[End(m) + 1 + NumberUnits(p) + WidthUnits(p) + q] = p.param[q]
         /\ fmt.buffer[End(m + 1)] = CLOSE
<1> DEFINE w == WrittenPart(p)
           L0 == NumberUnits(p)
           L1 == WidthUnits(p)
           L2 == Len(p.param)
           b == End(m)
           B == fmt.buffer
<1>1. m \in 0 .. Len(fmt.parts) /\ m + 1 \in 0 .. Len(fmt.parts)
  BY PartsType
<1>2. /\ p \in FormatPart /\ End(m + 1) = b + Len(w) /\ \A j \in 1 .. Len(w) : B[b + j] = w[j]
      /\ End(m + 1) <= fmt.size /\ b \in Nat
  BY <1>1, PartsPlaced, PartsType
<1>3. IsPlaceholder(p) /\ w = <<OPEN>> \o NumberText(p) \o WidthText(p) \o p.param \o <<CLOSE>>
  BY <1>2, PartKinds
<1>4. /\ L0 \in Nat /\ L1 \in Nat /\ L2 \in Nat /\ Len(w) = 2 + L0 + L1 + L2
      /\ w[1] = OPEN
      /\ \A q \in 1 .. L0 : w[1 + q] = Digits(p.number)[q]
      /\ \A q \in 1 .. L1 : w[1 + L0 + q] = WidthText(p)[q]
      /\ \A q \in 1 .. L2 : w[1 + L0 + L1 + q] = p.param[q]
      /\ w[2 + L0 + L1 + L2] = CLOSE
  BY <1>3, PlaceholderUnits, Zenon
<1> HIDE DEF w, L0, L1, L2, b, B
<1>5. End(m + 1) = b + 2 + L0 + L1 + L2
  BY <1>2, <1>4
<1>6. B[b + 1] = OPEN
  <2>1. 1 \in 1 .. Len(w)
    BY <1>4
  <2> QED BY <1>2, <1>4, <2>1
<1>7. \A q \in 1 .. L0 : B[b + 1 + q] = Digits(p.number)[q]
  <2> SUFFICES ASSUME NEW q \in 1 .. L0 PROVE B[b + 1 + q] = Digits(p.number)[q]
    OBVIOUS
  <2>1. 1 + q \in 1 .. Len(w) /\ b + (1 + q) = b + 1 + q
    BY <1>2, <1>4
  <2> QED BY <1>2, <1>4, <2>1
<1>8. \A q \in 1 .. L1 : B[b + 1 + L0 + q] = WidthText(p)[q]
  <2> SUFFICES ASSUME NEW q \in 1 .. L1 PROVE B[b + 1 + L0 + q] = WidthText(p)[q]
    OBVIOUS
  <2>1. 1 + L0 + q \in 1 .. Len(w) /\ b + (1 + L0 + q) = b + 1 + L0 + q
    BY <1>2, <1>4
  <2> QED BY <1>2, <1>4, <2>1
<1>9. \A q \in 1 .. L2 : B[b + 1 + L0 + L1 + q] = p.param[q]
  <2> SUFFICES ASSUME NEW q \in 1 .. L2 PROVE B[b + 1 + L0 + L1 + q] = p.param[q]
    OBVIOUS
  <2>1. 1 + L0 + L1 + q \in 1 .. Len(w) /\ b + (1 + L0 + L1 + q) = b + 1 + L0 + L1 + q
    BY <1>2, <1>4
  <2> QED BY <1>2, <1>4, <2>1
<1>10. B[End(m + 1)] = CLOSE
  <2>1. 2 + L0 + L1 + L2 \in 1 .. Len(w) /\ b + (2 + L0 + L1 + L2) = End(m + 1)
    BY <1>2, <1>4, <1>5
  <2> QED BY <1>2, <1>4, <2>1
<1> QED BY <1>2, <1>3, <1>4, <1>5, <1>6, <1>7, <1>8, <1>9, <1>10 DEF L0, L1, L2, b, B

\* What the unit that has been reached tells about the step to come.
LEMMA UnitTells ==
  ASSUME CallMade, i \in Nat, i < fmt.size
  PROVE  /\ Readable(i) /\ fmt.buffer[i + 1] \in Nat
         /\ AtDigit <=> is_number(fmt.buffer[i + 1])
         /\ \A v : IsAt(i, v) <=> fmt.buffer[i + 1] = v
         /\ \A V : IsOther(i, V) <=> fmt.buffer[i + 1] \notin V
<1>1. i < Len(fmt.buffer) /\ i + 1 \in 1 .. Len(fmt.buffer)
  BY CallTypes
<1>2. fmt.buffer[i + 1] \in Nat
  BY <1>1, CallTypes
<1> QED BY <1>1, <1>2 DEF Readable, AtDigit, IsAt, IsOther

LEMMA NextInHolder ==
  ASSUME CallMade, i \in Nat, Next, pc = "placeholder", i < fmt.size, NEW u, u = fmt.buffer[i + 1]
  PROVE  /\ is_number(u) /\ auto_index = -1 => ManualIndex
         /\ u = COMMA /\ i + 1 < Len(fmt.buffer) => Comma
         /\ u = COLON => Param
         /\ u = CLOSE => CloseHolder \/ (Chosen = {} /\ pc' = "undefined")
<1>1. /\ Readable(i) /\ u \in Nat /\ (AtDigit <=> is_number(u))
      /\ \A v : IsAt(i, v) <=> u = v
      /\ \A V : IsOther(i, V) <=> u \notin V
  BY UnitTells
<1>2. i + 1 < Len(fmt.buffer) <=> Readable(i + 1)
  BY DEF Readable
<1>3. \/ ManualIndex \/ Comma \/ Param \/ CloseHolder \/ SkipUnknown \/ Aborts \/ Undefined
  <2>1. fmt.size \in Nat /\ ~ (i >= fmt.size)
    BY CallTypes
  <2> QED BY <2>1 DEF Next, TextLoop, HolderLoops, Verbatim, Literal, Escape, OpenHolder, LoneClose, Return,
           Throws, InText, Alignment, AlignmentOther, AlignmentEnd, InHolder, EndsInHolder, Truncated
<1>4. \/ AtDigit /\ (NDEBUG \/ auto_index = -1) /\ ManualIndex
      \/ IsAt(i, COMMA) /\ Comma
      \/ IsAt(i, COLON) /\ Param
      \/ IsAt(i, CLOSE) /\ (CloseHolder \/ (Chosen = {} /\ pc' = "undefined"))
      \/ ~ AtDigit /\ IsOther(i, {COMMA, COLON, CLOSE})
      \/ AtDigit /\ auto_index # -1
      \/ IsAt(i, COMMA) /\ ~ Readable(i + 1)
  <2>1. CASE Undefined
    BY <2>1 DEF Undefined, InText, InHolder, Closing
  <2>2. CASE Aborts
    <3>1. fmt.size \in Nat /\ ~ (i >= fmt.size)
      BY CallTypes
    <3> QED BY <2>2, <3>1 DEF Aborts, InHolder, Unknown, Truncated
  <2>3. CASE SkipUnknown
    BY <2>3 DEF SkipUnknown, Unknown
  <2>4. CASE ManualIndex
    BY <2>4 DEF ManualIndex
  <2>5. CASE Comma
    BY <2>5 DEF Comma
  <2>6. CASE Param
    BY <2>6 DEF Param, InHolder
  <2>7. CASE CloseHolder
    BY <2>7 DEF CloseHolder, Closing
  <2> QED BY <1>3, <2>1, <2>2, <2>3, <2>4, <2>5, <2>6, <2>7
<1>5. (is_number(u) => u \notin {COMMA, COLON, CLOSE}) /\ COMMA # COLON /\ COMMA # CLOSE /\ COLON # CLOSE
  BY <1>1 DEF is_number, ZERO, COMMA, COLON, CLOSE
<1> QED BY <1>1, <1>2, <1>4, <1>5

LEMMA NextInAlignment ==
  ASSUME CallMade, i \in Nat, Next, pc = "alignment", i < fmt.size, NEW u, u = fmt.buffer[i + 1]
  PROVE  /\ is_number(u) /\ Accumulated \in int => Alignment
         /\ u \in {COLON, CLOSE} => AlignmentEnd
<1>1. /\ Readable(i) /\ u \in Nat /\ (AtDigit <=> is_number(u))
      /\ \A v : IsAt(i, v) <=> u = v
      /\ \A V : IsOther(i, V) <=> u \notin V
  BY UnitTells
<1>2. Alignment \/ AlignmentOther \/ AlignmentEnd \/ Undefined
  <2>1. fmt.size \in Nat /\ ~ (i >= fmt.size)
    BY CallTypes
  <2> QED BY <2>1 DEF Next, TextLoop, HolderLoops, Verbatim, Literal, Escape, OpenHolder, LoneClose, Return,
           Throws, InText, ManualIndex, Comma, Param, CloseHolder, Closing, SkipUnknown, Unknown,
           InHolder, EndsInHolder, Truncated, Aborts
<1>3. \/ AtDigit /\ Alignment
      \/ ~ AtDigit /\ IsOther(i, {COLON, CLOSE})
      \/ (IsAt(i, COLON) \/ IsAt(i, CLOSE)) /\ AlignmentEnd
      \/ AtDigit /\ Accumulated \notin int
  BY <1>2 DEF Undefined, InText, InHolder, Closing, Alignment, AlignmentOther, AlignmentEnd
<1>4. is_number(u) => u \notin {COLON, CLOSE}
  BY <1>1 DEF is_number, ZERO, COLON, CLOSE
<1> QED BY <1>1, <1>3, <1>4

LEMMA NextInParam ==
  ASSUME CallMade, i \in Nat, Next, pc = "param", i < fmt.size, NEW u, u = fmt.buffer[i + 1]
  PROVE  /\ u # CLOSE => Param
         /\ u = CLOSE => CloseHolder \/ (Chosen = {} /\ pc' = "undefined")
<1>1. /\ \A v : IsAt(i, v) <=> u = v
      /\ \A V : IsOther(i, V) <=> u \notin V
  BY UnitTells
<1>2. Param \/ CloseHolder \/ Undefined
  <2>1. fmt.size \in Nat /\ ~ (i >= fmt.size)
    BY CallTypes
  <2> QED BY <2>1 DEF Next, TextLoop, HolderLoops, Verbatim, Literal, Escape, OpenHolder, LoneClose, Return,
           Throws, InText, ManualIndex, Comma, SkipUnknown, Unknown, Alignment, AlignmentOther,
           AlignmentEnd, InHolder, EndsInHolder, Truncated, Aborts
<1>3. \/ IsOther(i, {CLOSE}) /\ Param
      \/ IsAt(i, CLOSE) /\ (CloseHolder \/ (Chosen = {} /\ pc' = "undefined"))
  BY <1>2 DEF Undefined, InText, InHolder, Closing, Param, CloseHolder
<1> QED BY <1>1, <1>3

LEMMA NextInText ==
  ASSUME CallMade, i \in Nat, Next, pc = "text"
  PROVE  /\ i >= fmt.size => Return \/ Throws
         /\ i < fmt.size /\ fmt.buffer[i + 1] \notin {OPEN, CLOSE} => Literal
         /\ \A u \in {OPEN, CLOSE} :
              i + 1 < fmt.size /\ fmt.buffer[i + 1] = u /\ fmt.buffer[i + 2] = u => Escape
         /\ i + 1 < fmt.size /\ fmt.buffer[i + 1] = OPEN /\ fmt.buffer[i + 2] # OPEN => OpenHolder
<1>1. fmt.size \in Nat /\ fmt.size <= Len(fmt.buffer) /\ Len(fmt.buffer) \in Nat
  BY CallTypes
<1>2. Literal \/ Escape \/ OpenHolder \/ LoneClose \/ Return \/ Throws \/ Undefined
  BY DEF Next, TextLoop, HolderLoops, Verbatim, ManualIndex, Comma, Param, CloseHolder, Closing,
         SkipUnknown, Unknown, Alignment, AlignmentOther, AlignmentEnd, InHolder, EndsInHolder,
         Truncated, Aborts
<1>3. i >= fmt.size => Return \/ Throws
  BY <1>1, <1>2 DEF Literal, Escape, OpenHolder, LoneClose, InText, Undefined, InHolder, Closing
<1>4. CASE i < fmt.size
  <2>1. /\ \A v : IsAt(i, v) <=> fmt.buffer[i + 1] = v
        /\ \A V : IsOther(i, V) <=> fmt.buffer[i + 1] \notin V
    BY <1>4, UnitTells
  <2>2. \/ IsOther(i, {OPEN, CLOSE}) /\ Literal
        \/ Escape /\ \E brace \in {OPEN, CLOSE} : IsAt(i, brace) /\ IsAt(i + 1, brace)
        \/ IsAt(i, OPEN) /\ IsOther(i + 1, {OPEN}) /\ OpenHolder
        \/ IsAt(i, CLOSE) /\ IsOther(i + 1, {CLOSE})
        \/ (IsAt(i, OPEN) \/ IsAt(i, CLOSE)) /\ ~ Readable(i + 1)
    <3>1. ~ Return /\ ~ Throws
      BY <1>1, <1>4 DEF Return, Throws
    <3> QED BY <1>2, <3>1 DEF Literal, Escape, OpenHolder, LoneClose, Undefined, InText, InHolder, Closing
  <2>3. fmt.buffer[i + 1] \notin {OPEN, CLOSE} => Literal
    BY <2>1, <2>2
  <2>4. CASE i + 1 < fmt.size
    <3>1. /\ Readable(i + 1)
          /\ \A v : IsAt(i + 1, v) <=> fmt.buffer[i + 2] = v
          /\ \A V : IsOther(i + 1, V) <=> fmt.buffer[i + 2] \notin V
      <4>1. i + 1 < Len(fmt.buffer) /\ (i + 1) + 1 = i + 2
        BY <1>1, <2>4
      <4> QED BY <4>1 DEF Readable, IsAt, IsOther
    <3>2. OPEN # CLOSE
      BY DEF OPEN, CLOSE
    <3> QED BY <1>1, <1>4, <2>1, <2>2, <2>3, <3>1, <3>2
  <2> QED BY <1>1, <1>4, <2>3, <2>4
<1> QED BY <1>1, <1>3, <1>4

\* The number that the first q digits of n stand for.
FirstDigits(n, q) == n \div Ten[DigitsOf(n) - q]

LEMMA FirstDigitsIs ==
  ASSUME NEW n \in Nat
  PROVE  /\ FirstDigits(n, 0) = 0 /\ FirstDigits(n, DigitsOf(n)) = n /\ DigitsOf(n) \in Nat \ {0}
         /\ \A q \in 0 .. DigitsOf(n) : FirstDigits(n, q) \in Nat /\ FirstDigits(n, q) <= n
         /\ \A q \in 0 .. (DigitsOf(n) - 1) :
              /\ is_number(Digits(n)[q + 1]) /\ Digits(n)[q + 1] \in Nat
              /\ FirstDigits(n, q + 1) = FirstDigits(n, q) * 10 + (Digits(n)[q + 1] - ZERO)
<1> DEFINE s == DigitsOf(n)
<1>1. s \in Nat \ {0} /\ n < Ten[s]
  BY SizeIs DEF IsSize
<1>2. \A p \in 1 .. s : /\ Digits(n)[p] = ZERO + ((n \div Ten[s - p]) % 10)
                        /\ is_number(Digits(n)[p]) /\ Digits(n)[p] \in Nat
  BY DigitsType
<1> HIDE DEF s
<1>3. FirstDigits(n, 0) = 0
  <2>1. s - 0 = s /\ Ten[s] \in Nat \ {0}
    BY <1>1, TenPowers
  <2> DEFINE t == Ten[s]
  <2>2. t \in Nat \ {0} /\ n < t
    BY <1>1, <2>1
  <2> HIDE DEF t
  <2>3. PICK x \in Nat, y \in 0 .. (t - 1) : x = n \div t /\ n = x * t + y
    BY <2>2, Division, Zenon
  <2>4. x = 0
    <3>1. \A a \in Nat, b \in Nat \ {0}, c \in Nat : a * b + c < b => a = 0
      BY Z3
    <3>2. y \in Nat
      BY <2>2, <2>3
    <3>3. x * t + y < t
      BY <2>2, <2>3, Zenon
    <3> QED BY <2>2, <2>3, <3>1, <3>2, <3>3
  <2>5. FirstDigits(n, 0) = n \div Ten[s]
    BY <2>1 DEF FirstDigits, s
  <2> QED BY <2>3, <2>4, <2>5 DEF t
<1>4. FirstDigits(n, s) = n
  <2>1. s - s = 0
    BY <1>1
  <2>2. FirstDigits(n, s) = n \div 1
    BY <2>1, TenPowers DEF FirstDigits, s
  <2> QED BY <2>2
<1>5. ASSUME NEW q \in 0 .. s PROVE FirstDigits(n, q) \in Nat /\ FirstDigits(n, q) <= n
  <2>1. s - q \in Nat
    BY <1>1
  <2> DEFINE t == Ten[s - q]
  <2>2. t \in Nat \ {0} /\ FirstDigits(n, q) = n \div t
    BY <2>1, TenPowers DEF FirstDigits, s
  <2> HIDE DEF t
  <2>3. PICK x \in Nat, y \in 0 .. (t - 1) : x = n \div t /\ n = x * t + y
    BY <2>2, Division, Zenon
  <2>4. x <= n
    <3>1. \A a \in Nat, b \in Nat \ {0}, c \in Nat : a <= a * b + c
      BY Z3
    <3>2. y \in Nat
      BY <2>2, <2>3
    <3>3. x <= x * t + y
      BY <2>2, <3>1, <3>2
    <3> QED BY <2>3, <3>3, Zenon
  <2> QED BY <2>2, <2>3, <2>4
<1>6. ASSUME NEW q \in 0 .. (s - 1)
      PROVE  /\ is_number(Digits(n)[q + 1]) /\ Digits(n)[q + 1] \in Nat
             /\ FirstDigits(n, q + 1) = FirstDigits(n, q) * 10 + (Digits(n)[q + 1] - ZERO)
  <2> DEFINE k == s - (q + 1)
             t == Ten[k]
             x == n \div t
  <2>1. k \in Nat /\ q + 1 \in 1 .. s /\ k + 1 = s - q
    BY <1>1
  <2>2. t \in Nat \ {0} /\ Ten[k + 1] = 10 * t
    <3> HIDE DEF k
    <3> QED BY <2>1, TenPowers
  <2>3. FirstDigits(n, q + 1) = x
    BY DEF FirstDigits, s
  <2>4. FirstDigits(n, q) = n \div (t * 10)
    <3>1. FirstDigits(n, q) = n \div Ten[k + 1]
      BY <2>1 DEF FirstDigits, s
    <3>2. 10 * t = t * 10
      <4> HIDE DEF t
      <4> QED BY <2>2
    <3> QED BY <2>2, <3>1, <3>2, Zenon
  <2>5. Digits(n)[q + 1] = ZERO + (x % 10) /\ is_number(Digits(n)[q + 1]) /\ Digits(n)[q + 1] \in Nat
    BY <1>2, <2>1
  <2> HIDE DEF k, t
  <2>6. x \in Nat /\ x \div 10 = n \div (t * 10)
    <3>1. 10 \in Nat \ {0}
      OBVIOUS
    <3> QED BY <2>2, <3>1, Division, DivideTwice, Zenon
  <2> HIDE DEF x
  <2>7. x = (x \div 10) * 10 + (x % 10) /\ x \div 10 \in Nat /\ x % 10 \in Nat
    BY <2>6
  <2>8. x = FirstDigits(n, q) * 10 + (x % 10)
    BY <2>4, <2>6, <2>7, Zenon
  <2> QED BY <2>3, <2>5, <2>7, <2>8 DEF ZERO
<1> QED BY <1>1, <1>3, <1>4, <1>5, <1>6 DEF s

\* Filled up as format does and as a formatter promises.
LEMMA PaddedIs ==
  ASSUME NEW s \in Seq(Nat), NEW w \in Int
  PROVE  Aligned(s, w) = Padded(s, w)
<1> DEFINE n == Len(s)
           v == IF w < 0 THEN -w ELSE w
           size == IF v <= n THEN n ELSE v
           skip == IF w > 0 THEN size - n ELSE 0
           P == [k \in 1 .. size |-> IF k - skip \in 1 .. n THEN s[k - skip] ELSE 32]
<1>1. n \in Nat /\ v \in Nat
  OBVIOUS
<1>2. Max({n, w, -w}) = size
  <2>1. {n, w, -w} \in SUBSET Int /\ size \in {n, w, -w} /\ \A x \in {n, w, -w} : x <= size
    BY <1>1
  <2> HIDE DEF size
  <2> QED BY <2>1, MaxIs
<1>3. Padded(s, w) = P
  BY <1>2 DEF Padded
<1>4. CASE v <= n
  <2>1. size = n /\ skip = 0
    BY <1>1, <1>4
  <2>2. Aligned(s, w) = s
    BY <1>4 DEF Aligned
  <2>3. \A k \in 1 .. n : k - 0 = k /\ k - 0 \in 1 .. n
    BY <1>1
  <2>4. P = [k \in 1 .. n |-> s[k]]
    BY <2>1, <2>3
  <2>5. s = [k \in 1 .. n |-> s[k]]
    OBVIOUS
  <2> QED BY <1>3, <2>2, <2>4, <2>5
<1>5. CASE ~ (v <= n)
  <2> DEFINE d == v - n
             p == Spaces(d)
  <2>1. size = v /\ d \in Nat /\ (w < 0 => skip = 0) /\ (~ (w < 0) => skip = d /\ w > 0)
    BY <1>1, <1>5
  <2>2. p \in Seq(Nat) /\ Len(p) = d /\ \A k \in 1 .. d : p[k] = 32
    <3> HIDE DEF d
    <3> QED BY <2>1 DEF Spaces, SPACE
  <2> DEFINE a == IF w < 0 THEN s \o p ELSE p \o s
  <2>3. Aligned(s, w) = a
    BY <1>5 DEF Aligned
  <2>4. CASE w < 0
    <3> DEFINE c == s \o p
    <3>1. c \in Seq(Nat) /\ Len(c) = n + d /\ (\A j \in 1 .. n : c[j] = s[j]) /\ (\A j \in 1 .. d : c[n + j] = p[j])
      <4>1. /\ c \in Seq(Nat) /\ Len(c) = Len(s) + Len(p)
            /\ \A j \in 1 .. Len(s) : c[j] = s[j]
            /\ \A j \in 1 .. Len(p) : c[Len(s) + j] = p[j]
        <5> HIDE DEF p
        <5> QED BY <2>2, JoinedIs, Zenon
      <4> HIDE DEF c, d, p
      <4> QED BY <2>2, <4>1
    <3>2. a = c
      BY <2>4
    <3> HIDE DEF c, p
    <3>3. \A k \in 1 .. v : c[k] = IF k - 0 \in 1 .. n THEN s[k - 0] ELSE 32
      <4> SUFFICES ASSUME NEW k \in 1 .. v PROVE c[k] = IF k - 0 \in 1 .. n THEN s[k - 0] ELSE 32
        OBVIOUS
      <4>1. k - 0 = k /\ k \in Nat
        BY <1>1
      <4>2. CASE k \in 1 .. n
        BY <3>1, <4>1, <4>2
      <4>3. CASE k \notin 1 .. n
        <5>1. k - n \in 1 .. d /\ n + (k - n) = k
          BY <1>1, <4>3
        <5>2. c[k] = 32
          BY <2>2, <3>1, <5>1
        <5> QED BY <4>1, <4>3, <5>2
      <4> QED BY <4>2, <4>3
    <3>4. c = [k \in 1 .. v |-> c[k]]
      <4>1. n + d = v
        BY <1>1
      <4> HIDE DEF d, v
      <4> QED BY <3>1, <4>1
    <3>5. P = [k \in 1 .. v |-> IF k - 0 \in 1 .. n THEN s[k - 0] ELSE 32]
      BY <2>1, <2>4
    <3> HIDE DEF P, v, a
    <3> QED BY <1>3, <2>3, <3>2, <3>3, <3>4, <3>5
  <2>5. CASE ~ (w < 0)
    <3> DEFINE c == p \o s
    <3>1. c \in Seq(Nat) /\ Len(c) = d + n /\ (\A j \in 1 .. d : c[j] = p[j]) /\ (\A j \in 1 .. n : c[d + j] = s[j])
      <4>1. /\ c \in Seq(Nat) /\ Len(c) = Len(p) + Len(s)
            /\ \A j \in 1 .. Len(p) : c[j] = p[j]
            /\ \A j \in 1 .. Len(s) : c[Len(p) + j] = s[j]
        <5> HIDE DEF p
        <5> QED BY <2>2, JoinedIs, Zenon
      <4> HIDE DEF c, d, p
      <4> QED BY <2>2, <4>1
    <3>2. a = c
      BY <2>5
    <3> HIDE DEF c, p
    <3>3. \A k \in 1 .. v : c[k] = IF k - d \in 1 .. n THEN s[k - d] ELSE 32
      <4> SUFFICES ASSUME NEW k \in 1 .. v PROVE c[k] = IF k - d \in 1 .. n THEN s[k - d] ELSE 32
        OBVIOUS
      <4>2. CASE k - d \in 1 .. n
        <5>1. d + (k - d) = k
          BY <1>1
        <5> QED BY <3>1, <4>2, <5>1
      <4>3. CASE k - d \notin 1 .. n
        <5>1. k \in 1 .. d
          BY <1>1, <4>3
        <5> QED BY <2>2, <3>1, <4>3, <5>1
      <4> QED BY <4>2, <4>3
    <3>4. c = [k \in 1 .. v |-> c[k]]
      <4>1. d + n = v
        BY <1>1
      <4> HIDE DEF d, v
      <4> QED BY <3>1, <4>1
    <3>5. P = [k \in 1 .. v |-> IF k - d \in 1 .. n THEN s[k - d] ELSE 32]
      BY <2>1, <2>5
    <3> HIDE DEF P, v, a, d
    <3> QED BY <1>3, <2>3, <3>2, <3>3, <3>4, <3>5
  <2> HIDE DEF a, P, d, p
  <2> QED BY <2>4, <2>5
<1> HIDE DEF P, v
<1> QED BY <1>1, <1>4, <1>5

LEMMA PaddedType ==
  ASSUME NEW s \in Seq(Nat), NEW w \in Int
  PROVE  Padded(s, w) \in Seq(Nat)
<1> DEFINE size == Max({Len(s), w, -w})
           skip == IF w > 0 THEN size - Len(s) ELSE 0
<1>1. size \in Nat
  <2> DEFINE v == IF w < 0 THEN -w ELSE w
             top == IF v <= Len(s) THEN Len(s) ELSE v
  <2>1. {Len(s), w, -w} \in SUBSET Int /\ top \in {Len(s), w, -w} /\ top \in Nat
        /\ \A x \in {Len(s), w, -w} : x <= top
    OBVIOUS
  <2> HIDE DEF top
  <2> QED BY <2>1, MaxIs
<1> HIDE DEF size
<1>2. \A k \in 1 .. size : (IF k - skip \in 1 .. Len(s) THEN s[k - skip] ELSE 32) \in Nat
  OBVIOUS
<1>3. Padded(s, w) = [k \in 1 .. size |-> IF k - skip \in 1 .. Len(s) THEN s[k - skip] ELSE 32]
  BY DEF Padded, size
<1> HIDE DEF skip
<1>4. Padded(s, w) \in [1 .. size -> Nat]
  BY <1>2, <1>3
<1> QED BY <1>1, <1>4

\* The answer that a formatter promises for an argument.
ArgumentText(a) ==
  CASE "int" \in DOMAIN a   -> Numeral(a.int)
    [] "units" \in DOMAIN a -> a.units
    [] "chars" \in DOMAIN a -> a.chars

FillFor(n, w) == IF n >= Len(args) THEN <<>> ELSE Padded(ArgumentText(args[n + 1]), w)

LEMMA ExactText ==
  ASSUME NEW a \in Arguments, Exact(a)
  PROVE  to_string(a) = {ArgumentText(a)} /\ ArgumentText(a) \in Seq(Nat)
<1>1. char16_t \subseteq Nat
  BY UnitNumbers
<1>2. CASE a = [int |-> a.int] /\ DOMAIN a = {"int"} /\ a.int \in int /\ to_string(a) = from_int(a.int)
  <2>1. a.int # INT_MIN
    BY <1>2 DEF Exact
  <2>2. a.int \in Int
    BY <1>2, IntMaxAssumption DEF int, INT_MIN
  <2>3. ArgumentText(a) = Numeral(a.int)
    BY <1>2 DEF ArgumentText
  <2> QED BY <1>2, <2>1, <2>2, <2>3, FromIntIs, NumeralType
<1>3. CASE DOMAIN a = {"mantissa", "exponent"}
  BY <1>3 DEF Exact
<1>4. CASE DOMAIN a = {"units"} /\ a.units \in Seq(char16_t) /\ to_string(a) = {a.units}
  <2>1. ArgumentText(a) = a.units
    BY <1>4 DEF ArgumentText
  <2>2. a.units \in Seq(Nat)
    BY <1>1, <1>4, WiderSeq
  <2> QED BY <1>4, <2>1, <2>2
<1>5. CASE DOMAIN a = {"chars"} /\ a.chars \in Seq(char) /\ to_string(a) = {Widened(a.chars)}
  <2> DEFINE s == a.chars
  <2>1. s \in Seq(char) /\ Len(s) \in Nat /\ \A k \in 1 .. Len(s) : s[k] >= 0
    BY <1>5 DEF Exact
  <2> HIDE DEF s
  <2>2. ASSUME NEW k \in 1 .. Len(s) PROVE s[k] \in Nat /\ s[k] % 65536 = s[k]
    <3> DEFINE x == s[k]
    <3>1. x \in char /\ x >= 0
      BY <2>1
    <3> HIDE DEF x
    <3>2. x \in Nat /\ x < 65536
      BY <3>1 DEF char
    <3>3. x % 65536 = x
      BY <3>2
    <3> QED BY <3>2, <3>3 DEF x
  <2>3. s = [k \in 1 .. Len(s) |-> s[k]]
    BY <2>1
  <2>4. Widened(s) = s
    <3> DEFINE big == 65536
    <3>1. \A k \in 1 .. Len(s) : s[k] % big = s[k]
      BY <2>2
    <3>2. Widened(s) = [k \in 1 .. Len(s) |-> s[k] % big]
      BY DEF Widened
    <3> HIDE DEF big
    <3>3. [k \in 1 .. Len(s) |-> s[k] % big] = [k \in 1 .. Len(s) |-> s[k]]
      BY <3>1, Zenon
    <3> QED BY <2>3, <3>2, <3>3, Zenon
  <2>5. s \in Seq(Nat)
    <3>1. s \in [1 .. Len(s) -> Nat]
      BY <2>2, <2>3
    <3> QED BY <2>1, <3>1
  <2>6. ArgumentText(a) = s
    BY <1>5 DEF ArgumentText, s
  <2> QED BY <1>5, <2>4, <2>5, <2>6 DEF s
<1> QED BY <1>2, <1>3, <1>4, <1>5, ArgumentKinds

LEMMA ChosenIs ==
  ASSUME CallMade, FromParts, NEW n \in Nat, NEW w \in Int
  PROVE  to_string_index(n, w) = {FillFor(n, w)} /\ FillFor(n, w) \in Seq(Nat)
<1>1. args \in Seq(Arguments) /\ Len(args) \in Nat
  BY CallTypes
<1>2. CASE n >= Len(args)
  BY <1>2 DEF to_string_index, FillFor
<1>3. CASE ~ (n >= Len(args))
  <2>1. n + 1 \in 1 .. Len(args)
    BY <1>1, <1>3
  <2> DEFINE a == args[n + 1]
  <2>2. a \in Arguments /\ Exact(a)
    BY <1>1, <2>1 DEF FromParts
  <2> HIDE DEF a
  <2>3. to_string(a) = {ArgumentText(a)} /\ ArgumentText(a) \in Seq(Nat)
    BY <2>2, ExactText
  <2>4. Aligned(ArgumentText(a), w) = Padded(ArgumentText(a), w)
    BY <2>3, PaddedIs
  <2>5. to_string_index(n, w) = {Aligned(str, w) : str \in to_string(a)}
    BY <1>3 DEF to_string_index, a
  <2>6. FillFor(n, w) = Padded(ArgumentText(a), w)
    BY <1>3 DEF FillFor, a
  <2>7. to_string_index(n, w) = {FillFor(n, w)}
    BY <2>3, <2>4, <2>5, <2>6
  <2>8. Padded(ArgumentText(a), w) \in Seq(Nat)
    BY <2>3, PaddedType
  <2> QED BY <2>6, <2>7, <2>8
<1> QED BY <1>2, <1>3

-----------------------------------------------------------------------------
(* Where the parser stands in a format that is written from parts.         *)

\* A placeholder without a number has been answered, if any argument has been taken
\* without one.
AutomaticSeen(m) ==
  auto_index # -1 =>
    \E k \in 1 .. m : fmt.parts[k].kind = "placeholder" /\ fmt.parts[k].number = Automatic

AtText(m) == pc = "text" /\ m \in 0 .. Len(fmt.parts) /\ i = End(m) /\ AutomaticSeen(m)

\* In the placeholder behind the first m parts, without a number and with one.
InPlaceholder(m) == m \in 0 .. (Len(fmt.parts) - 1) /\ fmt.parts[m + 1].kind = "placeholder"

AtAutomatic(m) ==
  /\ InPlaceholder(m) /\ fmt.parts[m + 1].number = Automatic /\ auto_index \in Nat
  /\ pc = "placeholder" /\ i = End(m) + 1 /\ alignment = 0

Numbered(m) == InPlaceholder(m) /\ fmt.parts[m + 1].number # Automatic /\ auto_index = -1

\* Some digits of the number have been read.
AtNumber(m) ==
  /\ Numbered(m) /\ pc = "placeholder" /\ alignment = 0
  /\ \E q \in 0 .. NumberUnits(fmt.parts[m + 1]) :
       i = End(m) + 1 + q /\ index = FirstDigits(fmt.parts[m + 1].number, q)

\* Some digits of the width have been read.
AtWidth(m) ==
  LET p == fmt.parts[m + 1]
  IN  /\ Numbered(m) /\ pc = "alignment" /\ index = p.number
      /\ p.width # 0 /\ sign = IF p.width < 0 THEN -1 ELSE 1
      /\ \E q \in 0 .. DigitsOf(Width(p)) :
           i = End(m) + 2 + NumberUnits(p) + SignUnits(p) + q /\ alignment = FirstDigits(Width(p), q)

\* The width has been read, and some units of the parameter.
AtParameter(m) ==
  LET p == fmt.parts[m + 1]
  IN  /\ Numbered(m) /\ index = p.number /\ alignment = p.width
      /\ \E q \in 0 .. Len(p.param) :
           /\ i = End(m) + 1 + NumberUnits(p) + WidthUnits(p) + q
           /\ pc = IF q = 0 THEN "placeholder" ELSE "param"

AtHolder(m) == AtAutomatic(m) \/ AtNumber(m) \/ AtWidth(m) \/ AtParameter(m)

AtStart == pc = "verbatim" /\ args = <<>> /\ i = 0 /\ auto_index = -1 /\ ans = <<>>

HasParts == fmt.parts # NoParts

PartsInv ==
  HasParts =>
    \/ pc \in {"return", "undefined"} \/ AtStart
    \/ args # <<>> /\ \E m \in 0 .. Len(fmt.parts) : AtText(m) \/ AtHolder(m)

\* What a step from there shows of the formatter.
Remaining(m) == SubSeq(fmt.parts, m + 1, Len(fmt.parts))
ReadUpTo(x)  == Cardinality({n \in 1 .. Len(fmt.ends) : fmt.ends[n] <= x})

LEMMA ReadIs ==
  ASSUME CallMade, fmt.parts # NoParts, NEW m \in 0 .. Len(fmt.parts), NEW x \in Nat,
         End(m) <= x, m < Len(fmt.parts) => x < End(m + 1)
  PROVE  ReadUpTo(x) = m
<1> DEFINE N == Len(fmt.parts)
<1>1. N \in Nat /\ Len(fmt.ends) = N /\ \A n \in 0 .. N : End(n) \in Nat
  BY PartsType
<1>2. \A k \in 0 .. N, n \in 0 .. N : k <= n => End(k) <= End(n)
  BY PartsPlaced
<1>3. \A n \in 1 .. N : fmt.ends[n] = End(n)
  BY DEF End
<1>4. ASSUME NEW n \in 1 .. N PROVE fmt.ends[n] <= x <=> n <= m
  <2>1. n \in 0 .. N /\ End(n) \in Nat /\ m \in Nat /\ End(m) \in Nat /\ fmt.ends[n] = End(n)
    BY <1>1, <1>3
  <2>2. CASE n <= m
    <3>1. End(n) <= End(m)
      BY <1>2, <2>1, <2>2
    <3> QED BY <2>1, <2>2, <3>1
  <2>3. CASE ~ (n <= m)
    <3>1. m + 1 \in 0 .. N /\ m + 1 <= n /\ m < N
      BY <1>1, <2>1, <2>3
    <3>2. End(m + 1) <= End(n) /\ End(m + 1) \in Nat
      BY <1>1, <1>2, <2>1, <3>1
    <3> QED BY <2>1, <2>3, <3>1, <3>2
  <2> QED BY <2>2, <2>3
<1>5. {n \in 1 .. Len(fmt.ends) : fmt.ends[n] <= x} = 1 .. m
  BY <1>1, <1>4
<1>6. Cardinality(1 .. m) = m
  <2>1. 1 \in Int /\ m \in Int /\ m \in Nat
    BY <1>1
  <2>2. Cardinality(1 .. m) = IF 1 > m THEN 0 ELSE m - 1 + 1
    BY <2>1, FS_Interval
  <2> QED BY <2>1, <2>2
<1> QED BY <1>5, <1>6 DEF ReadUpTo

LEMMA RemainingIs ==
  ASSUME CallMade, fmt.parts # NoParts, NEW m \in 0 .. Len(fmt.parts)
  PROVE  /\ Remaining(m) # NoParts
         /\ m = Len(fmt.parts) <=> Remaining(m) = <<>>
         /\ m = 0 => Remaining(m) = fmt.parts
         /\ m < Len(fmt.parts) => /\ Head(Remaining(m)) = fmt.parts[m + 1]
                                  /\ Tail(Remaining(m)) = Remaining(m + 1)
<1> DEFINE p == fmt.parts
           N == Len(p)
           r == SubSeq(p, m + 1, N)
<1>1. p \in Seq(FormatPart) /\ N \in Nat /\ \A n \in 0 .. N : SubSeq(p, n + 1, N) # NoParts
  BY PartsType
<1>0. m \in 0 .. N
  OBVIOUS
<1> HIDE DEF p
<1>2. m \in Nat /\ m <= N
  BY <1>0, <1>1
<1>3. Len(r) = N - m
  BY <1>1, <1>2
<1>4. r # NoParts
  BY <1>1
<1>5. m = N <=> r = <<>>
  <2>1. m = N => r = <<>>
    BY <1>1, <1>2
  <2>2. r = <<>> => N - m = 0
    <3> HIDE DEF r
    <3> QED BY <1>3
  <2> HIDE DEF r
  <2> QED BY <1>1, <1>2, <2>1, <2>2
<1>6. m = 0 => r = p
  BY <1>1
<1>7. m < N => Head(r) = p[m + 1] /\ Tail(r) = SubSeq(p, m + 2, N)
  BY <1>1, <1>2
<1>8. (m + 1) + 1 = m + 2
  BY <1>2
<1> QED BY <1>4, <1>5, <1>6, <1>7, <1>8 DEF Remaining, p

\* The call and what is said of it stay as they are.
LEMMA PartsStay ==
  ASSUME Next \/ UNCHANGED vars
  PROVE  /\ fmt' = fmt /\ args' = args /\ view' = view /\ (CallMade' <=> CallMade)
         /\ (FromParts' <=> FromParts) /\ (HasParts' <=> HasParts)
         /\ \A n : End(n)' = End(n)
<1>1. fmt' = fmt /\ args' = args
  BY CallStays DEF call
<1>2. view' = view /\ (CallMade' <=> CallMade) /\ (FromParts' <=> FromParts) /\ (HasParts' <=> HasParts)
  BY <1>1 DEF view, CallMade, FromParts, HasParts, Exact
<1>3. \A n : End(n)' = End(n)
  BY <1>1 DEF End
<1> QED BY <1>1, <1>2, <1>3

InLoops == {"placeholder", "alignment", "param"}

\* What the formatter sees of the parser, behind m parts, and after a step.
LEMMA Seen ==
  ASSUME CallMade, fmt.parts # NoParts, NEW m \in 0 .. Len(fmt.parts),
         i \in Nat, End(m) <= i, m < Len(fmt.parts) => i < End(m + 1), pc # "return"
  PROVE  /\ Rest = Remaining(m)
         /\ pc \notin InLoops => Counted = auto_index + 1
         /\ pc \in InLoops /\ m < Len(fmt.parts) =>
              Counted = IF fmt.parts[m + 1].number = Automatic THEN auto_index ELSE auto_index + 1
<1>1. Read = ReadUpTo(i)
  BY DEF Read, ReadUpTo
<1>2. ReadUpTo(i) = m
  BY ReadIs
<1>3. Rest = Remaining(m)
  BY <1>1, <1>2 DEF Rest, Remaining
<1>4. m < Len(fmt.parts) => Head(Rest) = fmt.parts[m + 1]
  BY <1>3, RemainingIs
<1> QED BY <1>3, <1>4 DEF Counted, InLoops

LEMMA SeenNext ==
  ASSUME CallMade, fmt.parts # NoParts, fmt' = fmt, NEW m \in 0 .. Len(fmt.parts),
         i' \in Nat, End(m) <= i', m < Len(fmt.parts) => i' < End(m + 1), pc' # "return"
  PROVE  /\ Rest' = Remaining(m)
         /\ pc' \notin InLoops => Counted' = auto_index' + 1
         /\ pc' \in InLoops /\ m < Len(fmt.parts) =>
              Counted' = IF fmt.parts[m + 1].number = Automatic THEN auto_index' ELSE auto_index' + 1
<1>1. Read' = ReadUpTo(i')
  BY DEF Read, ReadUpTo
<1>2. ReadUpTo(i') = m
  BY ReadIs
<1>3. Rest' = Remaining(m)
  BY <1>1, <1>2 DEF Rest, Remaining
<1>4. m < Len(fmt.parts) => Head(Rest') = fmt.parts[m + 1]
  BY <1>3, RemainingIs
<1> QED BY <1>3, <1>4 DEF Counted, InLoops

AnswerSoFar == IF pc = "text" THEN ans \o Text(i) ELSE ans

\* The operators on parts are the same for the formatter.
LEMMA SameNumerals ==
  /\ Formatter!Automatic = Automatic
  /\ \A n : Formatter!Numeral(n) = Numeral(n)
  /\ \A n, plus : Formatter!Signed(n, plus) = Signed(n, plus)
<1>1. Formatter!Decimal = Decimal
  BY DEF Formatter!Decimal, Decimal
<1>2. \A n : Formatter!Numeral(n) = Numeral(n)
  BY <1>1 DEF Formatter!Numeral, Numeral
<1>3. \A n, plus : Formatter!Signed(n, plus) = Signed(n, plus)
  BY <1>1, <1>2 DEF Formatter!Signed, Signed
<1>4. Formatter!Automatic = Automatic
  BY DEF Formatter!Automatic, Automatic
<1> QED BY <1>2, <1>3, <1>4

LEMMA SamePadded ==
  \A s, w : Formatter!Padded(s, w) = Padded(s, w)
<1>1. \A S : Formatter!Max(S) = Max(S)
  BY DEF Formatter!Max, Max
<1> QED BY <1>1 DEF Formatter!Padded, Padded

LEMMA SameWritten ==
  \A p : Formatter!Written(p) = Written(p)
<1>1. Formatter!Decimal = Decimal
  BY DEF Formatter!Decimal, Decimal
<1>2. \A p : Formatter!WrittenPart(p) = WrittenPart(p)
  BY <1>1, SameNumerals DEF Formatter!WrittenPart, WrittenPart
<1>3. \A s : Formatter!FlattenSeq(s) = FlattenSeq(s)
  BY DEF Formatter!FlattenSeq, FlattenSeq
<1> QED BY <1>2, <1>3 DEF Formatter!Written, Written

\* What answers a part, given how many arguments have been taken without a number.
AnswerTo(p, taken) ==
  IF p.kind # "placeholder" THEN <<p.unit>>
  ELSE FillFor(IF p.number = Automatic THEN taken ELSE p.number, p.width)

LEMMA AnswerIs ==
  ASSUME FromParts, NEW p
  PROVE  Formatter!Answer(p) = AnswerTo(p, Counted)
<1> DEFINE n == IF p.number = Formatter!Automatic THEN IF FromParts THEN Counted ELSE 0 ELSE p.number
           a == args[n + 1]
           t == CASE "int" \in DOMAIN a   -> Formatter!Numeral(a.int)
                  [] "units" \in DOMAIN a -> a.units
                  [] "chars" \in DOMAIN a -> a.chars
           x == Formatter!Padded(t, p.width)
           y == Padded(ArgumentText(a), p.width)
<1>1. Formatter!Answer(p) = IF p.kind # "placeholder" THEN <<p.unit>> ELSE IF n >= Len(args) THEN <<>> ELSE x
  BY Zenon DEF Formatter!Answer
<1>2. n = IF p.number = Automatic THEN Counted ELSE p.number
  BY SameNumerals
<1>3. AnswerTo(p, Counted) = IF p.kind # "placeholder" THEN <<p.unit>> ELSE IF n >= Len(args) THEN <<>> ELSE y
  BY <1>2, Zenon DEF AnswerTo, FillFor
<1>4. t = ArgumentText(a)
  BY SameNumerals DEF ArgumentText
<1>5. x = y
  <2> HIDE DEF n, a, t
  <2> QED BY <1>4, SamePadded, Zenon
<1> HIDE DEF n, x, y
<1> QED BY <1>1, <1>3, <1>5

\* What may answer a part.
AnswersTo(p, taken) ==
  IF p.kind # "placeholder" THEN {<<p.unit>>}
  ELSE to_string_index(IF p.number = Automatic THEN taken ELSE p.number, p.width)

\* What a step can do for a format that is written from parts: nothing that is seen,
\* answer the next part, return the answer, or fail on an argument without an answer.
Unseen ==
  /\ pc # "return" /\ pc' # "return" /\ args' = args
  /\ Rest' = Rest /\ AnswerSoFar' = AnswerSoFar /\ Counted' = Counted

Answers ==
  /\ pc # "return" /\ pc' # "return" /\ args' = args /\ args # <<>>
  /\ Rest \notin {<<>>, NoParts} /\ Head(Rest) \in FormatPart /\ Counted \in Nat
  /\ \E t \in AnswersTo(Head(Rest), Counted) : AnswerSoFar' = AnswerSoFar \o t
  /\ Counted' = IF Head(Rest).kind = "placeholder" /\ Head(Rest).number = Automatic
                THEN Counted + 1 ELSE Counted
  /\ Rest' = Tail(Rest)

Returns ==
  /\ pc # "return" /\ pc' = "return" /\ args' = args /\ args # <<>>
  /\ Rest = <<>> /\ Rest' = <<>> /\ AnswerSoFar' = AnswerSoFar /\ Counted' = Counted

Fails == pc' = "undefined" /\ ~ FromParts

LEMMA PartAnswered ==
  ASSUME CallMade, HasParts, args' = args, args # <<>>, pc # "return", pc' # "return",
         NEW m \in 0 .. (Len(fmt.parts) - 1), Rest = Remaining(m), Rest' = Remaining(m + 1), Counted \in Nat,
         NEW t \in AnswersTo(fmt.parts[m + 1], Counted), AnswerSoFar' = AnswerSoFar \o t,
         Counted' = IF fmt.parts[m + 1].kind = "placeholder" /\ fmt.parts[m + 1].number = Automatic
                    THEN Counted + 1 ELSE Counted
  PROVE  Answers
<1> DEFINE p == fmt.parts[m + 1]
<1>1. fmt.parts # NoParts /\ m \in 0 .. Len(fmt.parts) /\ m < Len(fmt.parts) /\ ~ (m = Len(fmt.parts))
      /\ p \in FormatPart
  <2>1. fmt.parts # NoParts
    BY DEF HasParts
  <2>2. Len(fmt.parts) \in Nat /\ fmt.parts \in Seq(FormatPart)
    BY <2>1, PartsType
  <2> QED BY <2>1, <2>2
<1>2. Rest \notin {<<>>, NoParts} /\ Head(Rest) = p /\ Tail(Rest) = Rest'
  BY <1>1, RemainingIs
<1> HIDE DEF p
<1> QED BY <1>1, <1>2 DEF Answers, p

\* They are steps of the formatter, when all arguments have an answer.
LEMMA FormatterAnswers ==
  ASSUME CallMade, FromParts, FromParts', Answers
  PROVE  Formatter!AnswerPart
<1> DEFINE p == Head(Rest)
<1>1. Formatter!Answer(p) = AnswerTo(p, Counted)
  BY AnswerIs
<1>2. AnswersTo(p, Counted) = {AnswerTo(p, Counted)}
  <2>1. CASE p.kind # "placeholder"
    BY <2>1 DEF AnswersTo, AnswerTo
  <2>2. CASE p.kind = "placeholder"
    <3>1. IsPlaceholder(p)
      BY <2>2, PartKinds DEF Answers
    <3> DEFINE n == IF p.number = Automatic THEN Counted ELSE p.number
    <3>2. n \in Nat /\ p.width \in Int
      BY <3>1 DEF IsPlaceholder, Answers
    <3> HIDE DEF n, p
    <3>3. to_string_index(n, p.width) = {FillFor(n, p.width)}
      BY <3>2, ChosenIs
    <3> QED BY <2>2, <3>3 DEF AnswersTo, AnswerTo, n
  <2> QED BY <2>1, <2>2
<1> HIDE DEF p
<1> QED BY <1>1, <1>2, SameNumerals DEF Formatter!AnswerPart, Answers, AnswerSoFar, p

LEMMA FormatterReturns ==
  ASSUME FromParts, FromParts', Returns
  PROVE  Formatter!Return
BY DEF Formatter!Return, Returns, AnswerSoFar

LEMMA FormatterIdle ==
  ASSUME FromParts, FromParts', Unseen
  PROVE  UNCHANGED Formatter!vars
BY DEF Formatter!vars, Unseen, AnswerSoFar

LEMMA JoinAssociative ==
  \A a \in Seq(Nat), b \in Seq(Nat), d \in Seq(Nat) : a \o (b \o d) = (a \o b) \o d
<1> TAKE a \in Seq(Nat), b \in Seq(Nat), d \in Seq(Nat)
<1> QED BY ConcatAssociative

\* One unit more of the text.
LEMMA TextGrows ==
  ASSUME ParserTypes, ans \in Seq(Nat), NEW e \in Nat, prev_holder <= e, e < fmt.size
  PROVE  ans \o Text(e + 1) = (ans \o Text(e)) \o <<fmt.buffer[e + 1]>>
<1> DEFINE a == ans
           b == Text(e)
           c == Text(e + 1)
           d == <<fmt.buffer[e + 1]>>
           v == view
           p == prev_holder
<1>1. /\ v \in Seq(Nat) /\ Len(v) = fmt.size /\ fmt.size \in Nat /\ p \in Nat
      /\ \A k \in 1 .. fmt.size : v[k] = fmt.buffer[k] /\ v[k] \in Nat
  BY TextType DEF ParserTypes
<1>2. e \in 0 .. fmt.size /\ e + 1 \in 0 .. fmt.size /\ e + 1 \in 1 .. fmt.size
  BY <1>1
<1>3. b \in Seq(Nat) /\ c \in Seq(Nat) /\ b = SubSeq(v, p + 1, e) /\ c = SubSeq(v, p + 1, e + 1)
  BY <1>2, TextType DEF Text
<1>4. d \in Seq(Nat) /\ Len(d) = 1 /\ d[1] = v[e + 1]
  <2>1. fmt.buffer[e + 1] = v[e + 1] /\ v[e + 1] \in Nat
    BY <1>1, <1>2
  <2> HIDE DEF v
  <2> QED BY <2>1
<1>5. p <= e
  OBVIOUS
<1> HIDE DEF b, c, d, v, p
<1>6. c = b \o d
  <2>1. p + 1 \in 1 .. Len(v) /\ e + 1 \in (p + 1) .. Len(v) /\ (e + 1) - 1 = e
    BY <1>1, <1>2, <1>5
  <2>2. SubSeq(v, p + 1, e + 1) = SubSeq(v, p + 1, e) \o <<v[e + 1]>>
    <3>1. SubSeq(v, p + 1, e + 1) = SubSeq(v, p + 1, (e + 1) - 1) \o <<v[e + 1]>>
      BY <1>1, <2>1, SubSeqRecursiveSecond, Zenon
    <3> QED BY <2>1, <3>1
  <2>3. d = <<v[e + 1]>>
    BY <1>1, <1>2 DEF d
  <2> QED BY <1>3, <2>2, <2>3, Zenon
<1>7. a \in Seq(Nat)
  OBVIOUS
<1> HIDE DEF a
<1>8. a \o (b \o d) = (a \o b) \o d
  BY <1>3, <1>4, <1>7, JoinAssociative, Zenon
<1> QED BY <1>6, <1>8 DEF a, b, c, d

LEMMA InvNext ==
  ASSUME fmt' = fmt, args' = args, args # <<>>, NEW m \in 0 .. Len(fmt.parts), (AtText(m) \/ AtHolder(m))'
  PROVE  PartsInv'
BY DEF PartsInv

\* At a part of the text: where it is and what comes after it.
LEMMA TextPlace ==
  ASSUME ParserTypes, HasParts, NEW m, AtText(m)
  PROVE  /\ m \in 0 .. Len(fmt.parts) /\ m \in Nat /\ Len(fmt.parts) \in Nat
         /\ CallMade /\ fmt.parts # NoParts /\ i \in Nat /\ i = End(m) /\ i <= fmt.size /\ fmt.size \in Nat
         /\ prev_holder <= i /\ auto_index \in Int /\ auto_index >= -1
         /\ m < Len(fmt.parts) => /\ m \in 0 .. (Len(fmt.parts) - 1) /\ m + 1 \in 0 .. Len(fmt.parts)
                                  /\ fmt.parts[m + 1] \in FormatPart
                                  /\ End(m + 1) = i + Len(WrittenPart(fmt.parts[m + 1]))
                                  /\ End(m + 1) \in Nat /\ End(m + 1) <= fmt.size /\ i < End(m + 1)
                                  /\ \A j \in 1 .. Len(WrittenPart(fmt.parts[m + 1])) :
                                       fmt.buffer[i + j] = WrittenPart(fmt.parts[m + 1])[j]
         /\ m + 1 < Len(fmt.parts) => End(m + 1) < End(m + 2)
         /\ m < Len(fmt.parts) \/ m = Len(fmt.parts)
         /\ Rest = Remaining(m) /\ Counted = auto_index + 1 /\ pc = "text"
<1>1. /\ CallMade /\ fmt.parts # NoParts /\ i \in Nat /\ prev_holder <= i /\ auto_index \in Int /\ auto_index >= -1
      /\ m \in 0 .. Len(fmt.parts) /\ i = End(m) /\ pc = "text"
  BY DEF ParserTypes, HasParts, AtText
<1>2. Len(fmt.parts) \in Nat /\ fmt.size \in Nat /\ i <= fmt.size
  BY <1>1, CallTypes, PartsType, PartsPlaced
<1>3. ASSUME NEW n \in 0 .. (Len(fmt.parts) - 1)
      PROVE  /\ fmt.parts[n + 1] \in FormatPart
             /\ End(n + 1) = End(n) + Len(WrittenPart(fmt.parts[n + 1]))
             /\ End(n) \in Nat /\ End(n + 1) \in Nat /\ End(n + 1) <= fmt.size /\ End(n) < End(n + 1)
             /\ \A j \in 1 .. Len(WrittenPart(fmt.parts[n + 1])) :
                  fmt.buffer[End(n) + j] = WrittenPart(fmt.parts[n + 1])[j]
  <2> DEFINE w == WrittenPart(fmt.parts[n + 1])
  <2>1. n \in 0 .. Len(fmt.parts) /\ n + 1 \in 0 .. Len(fmt.parts)
    BY <1>2
  <2>2. /\ fmt.parts[n + 1] \in FormatPart /\ End(n + 1) = End(n) + Len(w) /\ End(n + 1) <= fmt.size
        /\ \A j \in 1 .. Len(w) : fmt.buffer[End(n) + j] = w[j]
    BY <1>1, <2>1, PartsPlaced
  <2>3. End(n) \in Nat /\ End(n + 1) \in Nat /\ Len(w) \in Nat \ {0}
    BY <1>1, <2>1, <2>2, PartsType, WrittenType
  <2> HIDE DEF w
  <2>4. End(n) < End(n + 1)
    BY <2>2, <2>3
  <2> QED BY <2>2, <2>3, <2>4 DEF w
<1>4. m < Len(fmt.parts) => m \in 0 .. (Len(fmt.parts) - 1) /\ m + 1 \in 0 .. Len(fmt.parts)
  BY <1>1, <1>2
<1>5. m + 1 < Len(fmt.parts) => End(m + 1) < End(m + 2)
  <2> SUFFICES ASSUME m + 1 < Len(fmt.parts) PROVE End(m + 1) < End(m + 2)
    OBVIOUS
  <2>1. m + 1 \in 0 .. (Len(fmt.parts) - 1) /\ (m + 1) + 1 = m + 2
    BY <1>1, <1>2
  <2> QED BY <1>3, <2>1
<1>6. Rest = Remaining(m) /\ Counted = auto_index + 1
  <2>1. End(m) <= i /\ (m < Len(fmt.parts) => i < End(m + 1)) /\ pc # "return" /\ pc \notin InLoops
    BY <1>1, <1>3, <1>4 DEF InLoops
  <2> QED BY <1>1, <2>1, Seen
<1>7. m \in Nat /\ (m < Len(fmt.parts) \/ m = Len(fmt.parts))
  BY <1>1, <1>2
<1>8. m < Len(fmt.parts) =>
        /\ fmt.parts[m + 1] \in FormatPart
        /\ End(m + 1) = i + Len(WrittenPart(fmt.parts[m + 1]))
        /\ End(m + 1) \in Nat /\ End(m + 1) <= fmt.size /\ i < End(m + 1)
        /\ \A j \in 1 .. Len(WrittenPart(fmt.parts[m + 1])) :
             fmt.buffer[i + j] = WrittenPart(fmt.parts[m + 1])[j]
  BY <1>1, <1>3, <1>4
<1> QED BY <1>1, <1>2, <1>4, <1>5, <1>6, <1>7, <1>8

\* What step there is behind the last part: the answer is returned.
LEMMA ReturnStep ==
  ASSUME ParserTypes, HasParts, args # <<>>, Next, AtText(Len(fmt.parts))
  PROVE  PartsInv' /\ Returns
<1>1. /\ Rest = Remaining(Len(fmt.parts)) /\ pc = "text" /\ Counted = auto_index + 1 /\ i \in Nat
      /\ CallMade /\ fmt.parts # NoParts /\ prev_holder <= i /\ i <= fmt.size /\ i = End(Len(fmt.parts))
      /\ fmt.size \in Nat /\ Len(fmt.parts) \in 0 .. Len(fmt.parts)
  BY TextPlace
<1>2. Rest = <<>> /\ i = fmt.size
  BY <1>1, PartsType, RemainingIs
<1>3. Return
  <2>1. Return \/ Throws
    BY <1>1, <1>2, NextInText
  <2>2. ~ Throws
    BY <1>1, <1>2 DEF Throws, ParserTypes
  <2> QED BY <2>1, <2>2
<1>4. pc' = "return" /\ ans' = ans \o Text(i) /\ auto_index' = auto_index
  BY <1>2, <1>3 DEF Return
<1>5. Rest' = <<>> /\ Counted' = auto_index' + 1
  BY <1>4 DEF Rest, Counted
<1>6. args' = args
  BY PartsStay
<1>7. Returns
  BY <1>1, <1>2, <1>4, <1>5, <1>6 DEF Returns, AnswerSoFar
<1> QED BY <1>4, <1>7 DEF PartsInv

\* A unit of text is passed over.
LEMMA TextStep ==
  ASSUME ParserTypes, ans \in Seq(Nat), HasParts, args # <<>>, Next,
         NEW m, AtText(m), m < Len(fmt.parts), fmt.parts[m + 1].kind = "text"
  PROVE  PartsInv' /\ Answers
<1> DEFINE N == Len(fmt.parts)
           p == fmt.parts[m + 1]
<1>1. /\ m \in 0 .. (N - 1) /\ m + 1 \in 0 .. N /\ CallMade /\ fmt.parts # NoParts /\ m \in Nat /\ N \in Nat
      /\ i \in Nat /\ fmt.size \in Nat /\ prev_holder <= i /\ pc = "text"
      /\ auto_index \in Int /\ auto_index >= -1
      /\ p \in FormatPart /\ End(m + 1) = i + Len(WrittenPart(p)) /\ End(m + 1) <= fmt.size
      /\ \A j \in 1 .. Len(WrittenPart(p)) : fmt.buffer[i + j] = WrittenPart(p)[j]
      /\ Rest = Remaining(m) /\ Counted = auto_index + 1
      /\ m + 1 < N => End(m + 1) < End(m + 2)
  BY TextPlace
<1>2. WrittenPart(p) = <<p.unit>> /\ p.unit \notin {OPEN, CLOSE}
  <2>1. p.kind = "text"
    OBVIOUS
  <2> HIDE DEF p
  <2> QED BY <1>1, <2>1, PartKinds DEF IsPlaceholder
<1>3. End(m + 1) = i + 1 /\ fmt.buffer[i + 1] = p.unit
  <2> HIDE DEF p
  <2>1. Len(WrittenPart(p)) = 1 /\ 1 \in 1 .. 1 /\ WrittenPart(p)[1] = p.unit
    BY <1>2
  <2> QED BY <1>1, <2>1
<1> HIDE DEF p, N
<1>4. i < fmt.size
  BY <1>1, <1>3
<1>5. Literal
  BY <1>1, <1>2, <1>3, <1>4, NextInText
<1>6. /\ i' = i + 1 /\ UNCHANGED <<call, prev_holder, ans, auto_index, pc>>
  BY <1>5 DEF Literal, holder
<1>7. /\ fmt' = fmt /\ args' = args /\ view' = view /\ HasParts' /\ \A n : End(n)' = End(n)
  BY PartsStay
<1>8. AtText(m + 1)'
  <2>1. AutomaticSeen(m + 1)'
    <3>1. AutomaticSeen(m)
      BY DEF AtText
    <3>2. 1 .. m \subseteq 1 .. (m + 1)
      BY <1>1
    <3> QED BY <1>6, <1>7, <3>1, <3>2 DEF AutomaticSeen
  <2>2. pc' = "text" /\ m + 1 \in 0 .. Len(fmt'.parts) /\ i' = End(m + 1)'
    BY <1>1, <1>3, <1>6, <1>7 DEF N
  <2> QED BY <2>1, <2>2 DEF AtText
<1>9. PartsInv'
  <2>1. m + 1 \in 0 .. Len(fmt.parts)
    BY <1>1 DEF N
  <2> QED BY <1>7, <1>8, <2>1, InvNext
<1>10. Rest' = Remaining(m + 1) /\ Counted' = Counted
  <2>1. (m + 1) + 1 = m + 2 /\ i' \in Nat /\ End(m + 1) <= i' /\ pc' # "return" /\ pc' \notin InLoops
    BY <1>1, <1>3, <1>6 DEF InLoops
  <2>2. m + 1 < N => i' < End((m + 1) + 1)
    BY <1>1, <1>3, <1>6, <2>1
  <2>3. Rest' = Remaining(m + 1) /\ Counted' = auto_index' + 1
    BY <1>1, <1>7, <2>1, <2>2, SeenNext DEF N
  <2> QED BY <1>1, <1>6, <2>3
<1>11. AnswerSoFar' = AnswerSoFar \o <<p.unit>> /\ <<p.unit>> \in AnswersTo(p, Counted)
  <2>1. <<p.unit>> = <<fmt.buffer[i + 1]>> /\ <<p.unit>> \in AnswersTo(p, Counted)
    BY <1>3 DEF AnswersTo, p
  <2>2. AnswerSoFar = ans \o Text(i)
    BY <1>1 DEF AnswerSoFar
  <2>3. AnswerSoFar' = ans \o Text(i + 1)
    BY <1>1, <1>6, <1>7 DEF AnswerSoFar, Text
  <2>4. ans \o Text(i + 1) = (ans \o Text(i)) \o <<fmt.buffer[i + 1]>>
    BY <1>1, <1>4, TextGrows
  <2> QED BY <2>1, <2>2, <2>3, <2>4
<1>12. Answers
  <2>1. Counted' = IF fmt.parts[m + 1].kind = "placeholder" /\ fmt.parts[m + 1].number = Automatic
                   THEN Counted + 1 ELSE Counted
    BY <1>10
  <2>2. pc # "return" /\ pc' # "return" /\ Counted \in Nat
    BY <1>1, <1>6
  <2> QED BY <1>1, <1>7, <1>10, <1>11, <2>1, <2>2, PartAnswered DEF p, N
<1> QED BY <1>9, <1>12

\* Behind a part that has been answered is the text of the next one.
LEMMA PartDone ==
  ASSUME ParserTypes, HasParts, args # <<>>, Next, NEW m \in 0 .. (Len(fmt.parts) - 1),
         Rest = Remaining(m), pc # "return", pc' = "text", i' = End(m + 1), AutomaticSeen(m + 1)',
         Counted \in Nat, NEW t \in AnswersTo(fmt.parts[m + 1], Counted), AnswerSoFar' = AnswerSoFar \o t,
         auto_index' + 1 = IF fmt.parts[m + 1].kind = "placeholder" /\ fmt.parts[m + 1].number = Automatic
                           THEN Counted + 1 ELSE Counted
  PROVE  PartsInv' /\ Answers
<1>1. /\ fmt' = fmt /\ args' = args /\ HasParts' /\ \A n : End(n)' = End(n)
  BY PartsStay
<1>2. CallMade /\ fmt.parts # NoParts
  BY DEF ParserTypes, HasParts
<1>3. Len(fmt.parts) \in Nat
  BY <1>2, PartsType
<1>4. m \in Nat /\ m + 1 \in 0 .. Len(fmt.parts) /\ (m + 1) + 1 = m + 2
  BY <1>3
<1>5. AtText(m + 1)'
  BY <1>1, <1>4 DEF AtText
<1>6. PartsInv'
  BY <1>1, <1>4, <1>5, InvNext
<1>7. Rest' = Remaining(m + 1) /\ Counted' = auto_index' + 1
  <2>1. i' \in Nat /\ pc' # "return" /\ pc' \notin InLoops /\ End(m + 1) <= i'
    BY <1>2, <1>4, PartsType DEF InLoops
  <2>2. m + 1 < Len(fmt.parts) => i' < End((m + 1) + 1)
    <3> SUFFICES ASSUME m + 1 < Len(fmt.parts) PROVE End(m + 1) < End((m + 1) + 1)
      OBVIOUS
    <3> DEFINE w == WrittenPart(fmt.parts[(m + 1) + 1])
    <3>1. m + 1 \in 0 .. (Len(fmt.parts) - 1)
      BY <1>3, <1>4
    <3>2. fmt.parts[(m + 1) + 1] \in FormatPart /\ End((m + 1) + 1) = End(m + 1) + Len(w)
      BY <1>2, <3>1, PartsPlaced
    <3>3. Len(w) \in Nat \ {0} /\ End(m + 1) \in Nat
      BY <1>2, <1>4, <3>2, WrittenType, PartsType
    <3> HIDE DEF w
    <3> QED BY <3>2, <3>3
  <2> QED BY <1>1, <1>2, <1>4, <2>1, <2>2, SeenNext
<1>8. pc' # "return"
  OBVIOUS
<1>9. Answers
  BY <1>1, <1>2, <1>7, <1>8, PartAnswered
<1> QED BY <1>6, <1>9

\* Nothing is left to be copied.
LEMMA NothingLeft ==
  ASSUME pc' = "text", i' \in Nat, prev_holder' = i', ans' \in Seq(Nat)
  PROVE  AnswerSoFar' = ans'
<1>1. SubSeq(view', prev_holder' + 1, i') = <<>>
  <2> DEFINE x == i'
             v == view'
  <2>1. x \in Nat /\ prev_holder' = x
    OBVIOUS
  <2> HIDE DEF x, v
  <2>2. x + 1 \in Int /\ x \in Int /\ x < x + 1
    BY <2>1
  <2>3. SubSeq(v, x + 1, x) = <<>>
    BY <2>2, SubSeqEmpty
  <2> QED BY <2>1, <2>3 DEF x, v
<1>2. AnswerSoFar' = ans' \o SubSeq(view', prev_holder' + 1, i')
  BY DEF AnswerSoFar, Text
<1> DEFINE s == ans'
<1>3. s \in Seq(Nat)
  OBVIOUS
<1> HIDE DEF s
<1>4. s \o <<>> = s
  BY <1>3, ConcatEmptySeq
<1> QED BY <1>1, <1>2, <1>4 DEF s

\* Two braces are passed over, and one of them is copied.
LEMMA BraceStep ==
  ASSUME ParserTypes, ans \in Seq(Nat), HasParts, args # <<>>, Next,
         NEW m, AtText(m), m < Len(fmt.parts), fmt.parts[m + 1].kind = "brace"
  PROVE  PartsInv' /\ Answers
<1> DEFINE N == Len(fmt.parts)
           p == fmt.parts[m + 1]
<1>1. /\ m \in 0 .. (N - 1) /\ m + 1 \in 0 .. N /\ CallMade /\ fmt.parts # NoParts /\ m \in Nat /\ N \in Nat
      /\ i \in Nat /\ fmt.size \in Nat /\ prev_holder <= i /\ pc = "text"
      /\ auto_index \in Int /\ auto_index >= -1
      /\ p \in FormatPart /\ End(m + 1) = i + Len(WrittenPart(p)) /\ End(m + 1) <= fmt.size
      /\ \A j \in 1 .. Len(WrittenPart(p)) : fmt.buffer[i + j] = WrittenPart(p)[j]
      /\ Rest = Remaining(m) /\ Counted = auto_index + 1
  BY TextPlace
<1>2. WrittenPart(p) = <<p.unit, p.unit>> /\ p.unit \in {OPEN, CLOSE} /\ p.kind = "brace"
  <2>1. p.kind = "brace"
    OBVIOUS
  <2> HIDE DEF p
  <2> QED BY <1>1, <2>1, PartKinds DEF IsPlaceholder
<1>3. End(m + 1) = i + 2 /\ fmt.buffer[i + 1] = p.unit /\ fmt.buffer[i + 2] = p.unit
  <2> HIDE DEF p
  <2>1. /\ Len(WrittenPart(p)) = 2 /\ 1 \in 1 .. 2 /\ 2 \in 1 .. 2
        /\ WrittenPart(p)[1] = p.unit /\ WrittenPart(p)[2] = p.unit
    BY <1>2
  <2> QED BY <1>1, <2>1
<1> HIDE DEF p, N
<1>4. i < fmt.size /\ i + 1 < fmt.size
  BY <1>1, <1>3
<1>5. Escape
  BY <1>1, <1>2, <1>3, <1>4, NextInText
<1>6. /\ i' = i + 2 /\ prev_holder' = i + 2 /\ ans' = ans \o Text(i + 1)
      /\ UNCHANGED <<call, auto_index, pc>>
  BY <1>5 DEF Escape, holder
<1>7. ans \o Text(i + 1) = (ans \o Text(i)) \o <<p.unit>>
  BY <1>1, <1>3, <1>4, TextGrows
<1>8. AutomaticSeen(m + 1)'
  <2>1. AutomaticSeen(m)
    BY DEF AtText
  <2>2. 1 .. m \subseteq 1 .. (m + 1)
    BY <1>1
  <2>3. fmt' = fmt
    BY PartsStay
  <2> QED BY <1>6, <2>1, <2>2, <2>3 DEF AutomaticSeen
<1>9. AnswerSoFar' = AnswerSoFar \o <<p.unit>> /\ <<p.unit>> \in AnswersTo(fmt.parts[m + 1], Counted)
  <2>1. <<p.unit>> \in AnswersTo(p, Counted)
    BY <1>2 DEF AnswersTo
  <2>2. AnswerSoFar = ans \o Text(i)
    BY <1>1 DEF AnswerSoFar
  <2>3. ans' \in Seq(Nat)
    <3>1. Text(i + 1) \in Seq(Nat)
      <4>1. i + 1 \in 0 .. fmt.size
        BY <1>1, <1>4
      <4> QED BY <4>1, TextType
    <3> QED BY <1>6, <3>1
  <2>4. AnswerSoFar' = ans'
    BY <1>1, <1>6, <2>3, NothingLeft
  <2>5. AnswerSoFar \o <<p.unit>> = AnswerSoFar'
    BY <1>6, <1>7, <2>2, <2>4, Zenon
  <2> QED BY <2>1, <2>5 DEF p
<1>10. auto_index' + 1 = Counted /\ fmt.parts[m + 1].kind # "placeholder"
  BY <1>1, <1>2, <1>6 DEF p
<1>11. pc # "return" /\ pc' = "text" /\ i' = End(m + 1) /\ Counted \in Nat
  BY <1>1, <1>3, <1>6
<1> QED BY <1>1, <1>8, <1>9, <1>10, <1>11, PartDone DEF N

\* A placeholder has a number or none.
LEMMA NumberOrNone ==
  ASSUME NEW p, IsPlaceholder(p)
  PROVE  /\ p.number = Automatic => NumberUnits(p) = 0 /\ WidthUnits(p) = 0 /\ Len(p.param) = 0 /\ p.width = 0
         /\ p.number # Automatic =>
              /\ p.number \in Nat /\ p.number \in size_t
              /\ NumberUnits(p) = DigitsOf(p.number) /\ NumberUnits(p) \in Nat \ {0}
<1>1. p.number = Automatic => NumberUnits(p) = 0 /\ WidthUnits(p) = 0 /\ Len(p.param) = 0 /\ p.width = 0
  BY DEF IsPlaceholder, NumberUnits, WidthUnits
<1>2. ASSUME p.number # Automatic
      PROVE  /\ p.number \in Nat /\ p.number \in size_t
             /\ NumberUnits(p) = DigitsOf(p.number) /\ NumberUnits(p) \in Nat \ {0}
  <2>1. p.number \in Nat /\ p.number \in size_t
    BY <1>2 DEF IsPlaceholder
  <2>2. DigitsOf(p.number) \in Nat \ {0}
    BY <2>1, FirstDigitsIs
  <2> QED BY <1>2, <2>1, <2>2 DEF NumberUnits
<1> QED BY <1>1, <1>2

\* A placeholder is begun.
LEMMA OpenStep ==
  ASSUME ParserTypes, ans \in Seq(Nat), HasParts, args # <<>>, Next,
         NEW m, AtText(m), m < Len(fmt.parts), fmt.parts[m + 1].kind = "placeholder"
  PROVE  PartsInv' /\ Unseen
<1> DEFINE N == Len(fmt.parts)
           p == fmt.parts[m + 1]
<1>1. /\ m \in 0 .. (N - 1) /\ m \in 0 .. N /\ m + 1 \in 0 .. N /\ CallMade /\ fmt.parts # NoParts
      /\ m \in Nat /\ N \in Nat
      /\ i \in Nat /\ fmt.size \in Nat /\ prev_holder <= i /\ pc = "text"
      /\ auto_index \in Int /\ auto_index >= -1 /\ i = End(m)
      /\ Rest = Remaining(m) /\ Counted = auto_index + 1
  BY TextPlace
<1>2. /\ IsPlaceholder(p)
      /\ NumberUnits(p) \in Nat /\ WidthUnits(p) \in Nat /\ Len(p.param) \in Nat
      /\ End(m + 1) = i + 2 + NumberUnits(p) + WidthUnits(p) + Len(p.param)
      /\ End(m + 1) <= fmt.size
      /\ fmt.buffer[i + 1] = OPEN
      /\ \A q \in 1 .. NumberUnits(p) : fmt.buffer[i + 1 + q] = Digits(p.number)[q]
      /\ fmt.buffer[End(m + 1)] = CLOSE
  <2> HIDE DEF IsPlaceholder, NumberUnits, WidthUnits
  <2> QED BY <1>1, HolderPlaced
<1>3. p.kind = "placeholder"
  OBVIOUS
<1> HIDE DEF p, N
<1>4. End(m + 1) \in Nat /\ i + 1 < End(m + 1) /\ i < fmt.size /\ i + 1 < fmt.size /\ i + 1 \in Nat
  BY <1>1, <1>2
<1>5. p.number = Automatic => fmt.buffer[i + 2] = CLOSE
  <2> SUFFICES ASSUME p.number = Automatic PROVE fmt.buffer[i + 2] = CLOSE
    OBVIOUS
  <2>1. End(m + 1) = i + 2
    <3>1. NumberUnits(p) = 0 /\ WidthUnits(p) = 0 /\ Len(p.param) = 0
      BY <1>2, NumberOrNone
    <3> QED BY <1>1, <1>2, <3>1
  <2> QED BY <1>2, <2>1
<1>6. p.number # Automatic => fmt.buffer[i + 2] \notin {OPEN, CLOSE}
  <2> SUFFICES ASSUME p.number # Automatic PROVE fmt.buffer[i + 2] \notin {OPEN, CLOSE}
    OBVIOUS
  <2>1. p.number \in Nat /\ NumberUnits(p) = DigitsOf(p.number) /\ NumberUnits(p) \in Nat \ {0}
    BY <1>2, NumberOrNone
  <2>2. 0 \in 0 .. (DigitsOf(p.number) - 1) /\ 0 + 1 = 1
    BY <2>1
  <2>3. is_number(Digits(p.number)[1]) /\ Digits(p.number)[1] \in Nat
    BY <2>1, <2>2, FirstDigitsIs
  <2>4. fmt.buffer[i + 2] = Digits(p.number)[1]
    <3>1. 1 \in 1 .. NumberUnits(p) /\ i + 1 + 1 = i + 2
      BY <1>1, <2>1
    <3> QED BY <1>2, <3>1
  <2> QED BY <2>3, <2>4 DEF is_number, ZERO, OPEN, CLOSE
<1>7. OpenHolder
  <2>1. fmt.buffer[i + 2] # OPEN
    BY <1>5, <1>6 DEF OPEN, CLOSE
  <2> QED BY <1>1, <1>2, <1>4, <2>1, NextInText
<1>8. /\ ans' = ans \o Text(i) /\ index' = 0 /\ alignment' = 0 /\ sign' = 1 /\ i' = i + 1
      /\ pc' = "placeholder" /\ UNCHANGED <<call, prev_holder>>
      /\ auto_index' = IF p.number = Automatic THEN auto_index + 1 ELSE auto_index
  <2>1. IsAt(i + 1, CLOSE) <=> p.number = Automatic
    <3>1. Readable(i + 1)
      BY <1>1, <1>4, CallTypes DEF Readable
    <3>2. (i + 1) + 1 = i + 2
      BY <1>1
    <3> QED BY <1>5, <1>6, <3>1, <3>2 DEF IsAt
  <2> QED BY <1>7, <2>1 DEF OpenHolder
<1>9. /\ fmt' = fmt /\ args' = args /\ HasParts' /\ \A n : End(n)' = End(n)
  BY PartsStay
<1>10. InPlaceholder(m)'
  BY <1>1, <1>3, <1>9 DEF InPlaceholder, p, N
<1>11. p.number # Automatic => auto_index = -1
  <2> SUFFICES ASSUME auto_index # -1 PROVE p.number = Automatic
    OBVIOUS
  <2>1. PICK k \in 1 .. m : fmt.parts[k].kind = "placeholder" /\ fmt.parts[k].number = Automatic
    BY DEF AtText, AutomaticSeen
  <2>2. k \in 1 .. N /\ m + 1 \in 1 .. N /\ k < m + 1
    BY <1>1, <2>1
  <2>3. AutoLast(fmt.parts)
    BY <1>1, PartsType
  <2> QED BY <1>3, <2>1, <2>2, <2>3 DEF AutoLast, p, N
<1>12. AtHolder(m)'
  <2>1. CASE p.number = Automatic
    <3>1. auto_index' \in Nat
      BY <1>1, <1>8, <2>1
    <3>2. fmt.parts[m + 1].number = Automatic /\ i' = End(m) + 1
      BY <1>1, <1>8, <2>1 DEF p
    <3>3. AtAutomatic(m)'
      BY <1>8, <1>9, <1>10, <3>1, <3>2 DEF AtAutomatic
    <3> QED BY <3>3 DEF AtHolder
  <2>2. CASE p.number # Automatic
    <3>1. auto_index' = -1 /\ fmt.parts[m + 1].number # Automatic
      BY <1>8, <1>11, <2>2 DEF p
    <3>2. Numbered(m)'
      BY <1>9, <1>10, <3>1 DEF Numbered
    <3>3. index' = FirstDigits(p.number, 0)
      BY <1>2, <1>8, <2>2, NumberOrNone, FirstDigitsIs
    <3>4. 0 \in 0 .. NumberUnits(p) /\ i' = End(m) + 1 + 0
      BY <1>1, <1>2, <1>8
    <3>5. (\E q \in 0 .. NumberUnits(fmt.parts[m + 1]) :
             i = End(m) + 1 + q /\ index = FirstDigits(fmt.parts[m + 1].number, q))'
      <4> HIDE DEF NumberUnits, FirstDigits
      <4>1. \E q \in 0 .. NumberUnits(p) : i' = End(m) + 1 + q /\ index' = FirstDigits(p.number, q)
        BY <3>3, <3>4
      <4> QED BY <1>9, <4>1 DEF p
    <3>6. AtNumber(m)'
      BY <1>8, <3>2, <3>5 DEF AtNumber
    <3> QED BY <3>6 DEF AtHolder
  <2> QED BY <2>1, <2>2
<1>13. PartsInv'
  BY <1>1, <1>9, <1>12, InvNext DEF N
<1>14. Rest' = Remaining(m) /\ Counted' = Counted
  <2>1. i' \in Nat /\ End(m) <= i' /\ i' < End(m + 1) /\ pc' # "return" /\ pc' \in InLoops
    BY <1>1, <1>4, <1>8 DEF InLoops
  <2>2. /\ Rest' = Remaining(m)
        /\ Counted' = IF p.number = Automatic THEN auto_index' ELSE auto_index' + 1
    BY <1>1, <1>9, <2>1, SeenNext DEF p, N
  <2> QED BY <1>1, <1>8, <2>2
<1>15. AnswerSoFar' = AnswerSoFar
  <2>1. pc' # "text" /\ pc = "text"
    BY <1>1, <1>8
  <2> QED BY <1>8, <2>1 DEF AnswerSoFar
<1>16. pc # "return" /\ pc' # "return"
  BY <1>1, <1>8
<1> QED BY <1>1, <1>9, <1>13, <1>14, <1>15, <1>16 DEF Unseen

\* Where a placeholder is and how it is written.
LEMMA HolderHere ==
  ASSUME ParserTypes, HasParts, NEW m, InPlaceholder(m), NEW p, p = fmt.parts[m + 1]
  PROVE  /\ CallMade /\ fmt.parts # NoParts /\ m \in 0 .. (Len(fmt.parts) - 1) /\ m \in 0 .. Len(fmt.parts)
         /\ IsPlaceholder(p) /\ End(m) \in Nat /\ i \in Nat
         /\ NumberUnits(p) \in Nat /\ WidthUnits(p) \in Nat /\ Len(p.param) \in Nat
         /\ End(m + 1) = End(m) + 2 + NumberUnits(p) + WidthUnits(p) + Len(p.param)
         /\ End(m + 1) <= fmt.size /\ fmt.size \in Nat /\ Len(fmt.buffer) \in Nat /\ fmt.size <= Len(fmt.buffer)
         /\ \A q \in 1 .. NumberUnits(p) : fmt.buffer[End(m) + 1 + q] = Digits(p.number)[q]
         /\ \A q \in 1 .. WidthUnits(p) :
              fmt.buffer[End(m) + 1 + NumberUnits(p) + q] = WidthText(p)[q]
         /\ \A q \in 1 .. Len(p.param) :
              fmt.buffer[End(m) + 1 + NumberUnits(p) + WidthUnits(p) + q] = p.param[q]
         /\ fmt.buffer[End(m + 1)] = CLOSE
<1>1. /\ CallMade /\ fmt.parts # NoParts /\ i \in Nat
      /\ m \in 0 .. (Len(fmt.parts) - 1) /\ p.kind = "placeholder"
  BY DEF ParserTypes, HasParts, InPlaceholder
<1>2. Len(fmt.parts) \in Nat
  BY <1>1, PartsType
<1>3. m \in 0 .. Len(fmt.parts)
  BY <1>1, <1>2
<1>4. fmt.size \in Nat /\ Len(fmt.buffer) \in Nat /\ fmt.size <= Len(fmt.buffer)
  BY <1>1, CallTypes
<1> HIDE DEF IsPlaceholder, NumberUnits, WidthUnits, WidthText
<1>5. /\ IsPlaceholder(p) /\ End(m) \in Nat
      /\ NumberUnits(p) \in Nat /\ WidthUnits(p) \in Nat /\ Len(p.param) \in Nat
      /\ End(m + 1) = End(m) + 2 + NumberUnits(p) + WidthUnits(p) + Len(p.param)
      /\ End(m + 1) <= fmt.size
      /\ \A q \in 1 .. NumberUnits(p) : fmt.buffer[End(m) + 1 + q] = Digits(p.number)[q]
      /\ \A q \in 1 .. WidthUnits(p) :
           fmt.buffer[End(m) + 1 + NumberUnits(p) + q] = WidthText(p)[q]
      /\ \A q \in 1 .. Len(p.param) :
           fmt.buffer[End(m) + 1 + NumberUnits(p) + WidthUnits(p) + q] = p.param[q]
      /\ fmt.buffer[End(m + 1)] = CLOSE
  BY <1>1, HolderPlaced
<1> QED BY <1>1, <1>3, <1>4, <1>5

\* Inside a placeholder nothing is answered.
LEMMA HolderGoesOn ==
  ASSUME ParserTypes, HasParts, args # <<>>, Next, NEW m, InPlaceholder(m), AtHolder(m)',
         pc \in InLoops, End(m) <= i, i < End(m + 1),
         pc' \in InLoops, i' \in Nat, End(m) <= i', i' < End(m + 1),
         ans' = ans, auto_index' = auto_index
  PROVE  PartsInv' /\ Unseen
<1> DEFINE p == fmt.parts[m + 1]
<1>1. /\ CallMade /\ fmt.parts # NoParts /\ m \in 0 .. (Len(fmt.parts) - 1) /\ m \in 0 .. Len(fmt.parts)
      /\ i \in Nat
  BY HolderHere
<1> HIDE DEF p
<1>2. /\ fmt' = fmt /\ args' = args /\ HasParts'
  BY PartsStay
<1>3. PartsInv'
  BY <1>1, <1>2, InvNext
<1>4. m < Len(fmt.parts)
  BY <1>1, PartsType
<1>5. pc # "return" /\ pc' # "return" /\ pc # "text" /\ pc' # "text"
  BY DEF InLoops
<1>6. Rest = Remaining(m) /\ Rest' = Remaining(m)
  BY <1>1, <1>2, <1>5, Seen, SeenNext
<1>7. Counted' = Counted
  <2>1. Counted = IF fmt.parts[m + 1].number = Automatic THEN auto_index ELSE auto_index + 1
    BY <1>1, <1>4, <1>5, Seen
  <2>2. Counted' = IF fmt.parts[m + 1].number = Automatic THEN auto_index' ELSE auto_index' + 1
    BY <1>1, <1>2, <1>4, <1>5, SeenNext
  <2> QED BY <2>1, <2>2
<1>8. AnswerSoFar' = AnswerSoFar
  BY <1>5 DEF AnswerSoFar
<1> QED BY <1>2, <1>3, <1>5, <1>6, <1>7, <1>8 DEF Unseen

\* A digit of the number is read.
LEMMA NumberStep ==
  ASSUME ParserTypes, HasParts, args # <<>>, Next, NEW m, Numbered(m), pc = "placeholder", alignment = 0,
         NEW p, p = fmt.parts[m + 1], NEW q \in 0 .. (NumberUnits(p) - 1),
         i = End(m) + 1 + q, index = FirstDigits(p.number, q)
  PROVE  PartsInv' /\ Unseen
<1> DEFINE u == fmt.buffer[i + 1]
           L == NumberUnits(p)
           n == p.number
           b == End(m)
<1>1. InPlaceholder(m) /\ n # Automatic /\ auto_index = -1
  BY DEF Numbered
<1>2. /\ CallMade /\ m \in 0 .. (Len(fmt.parts) - 1) /\ IsPlaceholder(p) /\ b \in Nat /\ i \in Nat
      /\ L \in Nat /\ WidthUnits(p) \in Nat /\ Len(p.param) \in Nat
      /\ End(m + 1) = b + 2 + L + WidthUnits(p) + Len(p.param)
      /\ End(m + 1) <= fmt.size /\ fmt.size \in Nat
      /\ \A k \in 1 .. L : fmt.buffer[b + 1 + k] = Digits(n)[k]
  <2>0. ParserTypes /\ HasParts /\ InPlaceholder(m) /\ p = fmt.parts[m + 1]
    BY <1>1
  <2>1. CallMade /\ m \in 0 .. (Len(fmt.parts) - 1) /\ IsPlaceholder(p) /\ End(m) \in Nat /\ i \in Nat
    BY <2>0, HolderHere
  <2>2. NumberUnits(p) \in Nat /\ WidthUnits(p) \in Nat /\ Len(p.param) \in Nat
    BY <2>0, HolderHere
  <2>3. End(m + 1) = End(m) + 2 + NumberUnits(p) + WidthUnits(p) + Len(p.param)
    BY <2>0, HolderHere
  <2>4. End(m + 1) <= fmt.size /\ fmt.size \in Nat
    BY <2>0, HolderHere
  <2>5. \A k \in 1 .. L : fmt.buffer[b + 1 + k] = Digits(n)[k]
    BY <2>0, HolderHere, SMTT(60)
  <2> QED BY <2>1, <2>2, <2>3, <2>4, <2>5, Zenon
<1>3. L = DigitsOf(n) /\ n \in Nat /\ n \in size_t
  BY <1>1, <1>2, NumberOrNone
<1>4. q \in 0 .. (L - 1) /\ i = b + 1 + q /\ index = FirstDigits(n, q)
  OBVIOUS
<1> HIDE DEF L, n, b
<1>5. /\ is_number(Digits(n)[q + 1]) /\ Digits(n)[q + 1] \in Nat
      /\ FirstDigits(n, q + 1) = FirstDigits(n, q) * 10 + (Digits(n)[q + 1] - ZERO)
      /\ FirstDigits(n, q + 1) \in Nat /\ FirstDigits(n, q + 1) <= n
  <2>1. q \in 0 .. (DigitsOf(n) - 1) /\ q + 1 \in 0 .. DigitsOf(n)
    BY <1>2, <1>3, <1>4
  <2> HIDE DEF FirstDigits, DigitsOf, Digits, is_number
  <2> QED BY <1>3, <2>1, FirstDigitsIs
<1>6. u = Digits(n)[q + 1]
  <2>1. q + 1 \in 1 .. L /\ i + 1 = b + 1 + (q + 1)
    BY <1>2, <1>4
  <2> QED BY <1>2, <2>1
<1>7. i < fmt.size /\ i + 1 < End(m + 1) /\ b <= i /\ b <= i + 1 /\ i < End(m + 1)
  <2> DEFINE e == End(m + 1)
             s == fmt.size
             W == WidthUnits(p)
             P == Len(p.param)
  <2>1. b \in Nat /\ L \in Nat /\ W \in Nat /\ P \in Nat /\ e = b + 2 + L + W + P /\ e <= s /\ s \in Nat
    BY <1>2
  <2>2. q \in 0 .. (L - 1) /\ i = b + 1 + q
    BY <1>4
  <2> HIDE DEF e, s, W, P
  <2>3. i < s /\ i + 1 < e /\ b <= i /\ b <= i + 1 /\ i < e
    BY <2>1, <2>2
  <2> QED BY <2>3 DEF e, s
<1>8. ManualIndex
  BY <1>1, <1>2, <1>5, <1>6, <1>7, NextInHolder
<1>9. index' = FirstDigits(n, q + 1)
  <2>1. to_number(u) = u - ZERO
    BY <1>5, <1>6 DEF to_number
  <2>2. index' = Wrap(index * 10 + to_number(u))
    BY <1>8 DEF ManualIndex
  <2>3. index * 10 + to_number(u) = FirstDigits(n, q + 1)
    BY <1>4, <1>5, <1>6, <2>1, Zenon
  <2>4. FirstDigits(n, q + 1) \in size_t
    BY <1>3, <1>5, SizeMaxAssumption DEF size_t
  <2> QED BY <2>2, <2>3, <2>4, WrapFits
<1>10. i' = i + 1 /\ UNCHANGED <<call, prev_holder, ans, auto_index, alignment, sign, pc>>
  BY <1>8 DEF ManualIndex
<1>11. /\ fmt' = fmt /\ args' = args /\ HasParts' /\ \A k : End(k)' = End(k)
  BY PartsStay
<1>12. AtHolder(m)'
  <2>1. Numbered(m)'
    BY <1>10, <1>11 DEF Numbered, InPlaceholder
  <2>2. q + 1 \in 0 .. L /\ i' = b + 1 + (q + 1)
    BY <1>2, <1>4, <1>10
  <2>3. \E k \in 0 .. NumberUnits(p) : i' = End(m) + 1 + k /\ index' = FirstDigits(p.number, k)
    <3> HIDE DEF FirstDigits, NumberUnits
    <3> QED BY <1>9, <2>2 DEF L, b, n
  <2>4. (\E k \in 0 .. NumberUnits(fmt.parts[m + 1]) :
           i = End(m) + 1 + k /\ index = FirstDigits(fmt.parts[m + 1].number, k))'
    <3> HIDE DEF FirstDigits, NumberUnits
    <3> QED BY <1>11, <2>3
  <2>5. AtNumber(m)'
    BY <1>10, <2>1, <2>4 DEF AtNumber
  <2> QED BY <2>5 DEF AtHolder
<1>13. pc \in InLoops /\ pc' \in InLoops /\ i' \in Nat /\ End(m) <= i /\ i < End(m + 1)
       /\ End(m) <= i' /\ i' < End(m + 1)
  BY <1>2, <1>7, <1>10 DEF InLoops, b
<1> QED BY <1>1, <1>10, <1>12, <1>13, HolderGoesOn

\* The comma before a width is read, and the sign, if there is one.
LEMMA CommaStep ==
  ASSUME ParserTypes, HasParts, args # <<>>, Next, NEW m, Numbered(m), pc = "placeholder", alignment = 0,
         NEW p, p = fmt.parts[m + 1], p.width # 0,
         i = End(m) + 1 + NumberUnits(p), index = FirstDigits(p.number, NumberUnits(p))
  PROVE  PartsInv' /\ Unseen
<1> DEFINE L == NumberUnits(p)
           W == WidthUnits(p)
           S == SignUnits(p)
           D == DigitsOf(Width(p))
           n == p.number
           b == End(m)
           t == WidthText(p)
<1>1. InPlaceholder(m) /\ n # Automatic /\ auto_index = -1
  BY DEF Numbered
<1>2. /\ CallMade /\ m \in 0 .. (Len(fmt.parts) - 1) /\ IsPlaceholder(p) /\ b \in Nat /\ i \in Nat
      /\ L \in Nat /\ W \in Nat /\ Len(p.param) \in Nat
      /\ End(m + 1) = b + 2 + L + W + Len(p.param)
      /\ End(m + 1) <= fmt.size /\ fmt.size \in Nat /\ Len(fmt.buffer) \in Nat /\ fmt.size <= Len(fmt.buffer)
      /\ \A k \in 1 .. W : fmt.buffer[b + 1 + L + k] = t[k]
  <2>0. ParserTypes /\ HasParts /\ InPlaceholder(m) /\ p = fmt.parts[m + 1]
    BY <1>1
  <2>1. CallMade /\ m \in 0 .. (Len(fmt.parts) - 1) /\ IsPlaceholder(p) /\ End(m) \in Nat /\ i \in Nat
    BY <2>0, HolderHere
  <2>2. NumberUnits(p) \in Nat /\ WidthUnits(p) \in Nat /\ Len(p.param) \in Nat
    BY <2>0, HolderHere
  <2>3. End(m + 1) = End(m) + 2 + NumberUnits(p) + WidthUnits(p) + Len(p.param)
    BY <2>0, HolderHere
  <2>4. End(m + 1) <= fmt.size /\ fmt.size \in Nat /\ Len(fmt.buffer) \in Nat /\ fmt.size <= Len(fmt.buffer)
    BY <2>0, HolderHere
  <2>5. \A k \in 1 .. W : fmt.buffer[b + 1 + L + k] = t[k]
    BY <2>0, HolderHere, SMTT(60)
  <2> QED BY <2>1, <2>2, <2>3, <2>4, <2>5, Zenon
<1>3. L = DigitsOf(n) /\ n \in Nat
  BY <1>1, <1>2, NumberOrNone
<1>4. i = b + 1 + L /\ index = n
  <2>1. i = b + 1 + L /\ index = FirstDigits(n, L)
    OBVIOUS
  <2>2. FirstDigits(n, DigitsOf(n)) = n
    BY <1>3, FirstDigitsIs
  <2> HIDE DEF L, n, b
  <2> QED BY <1>3, <2>1, <2>2, Zenon
<1>5. /\ Width(p) \in Nat /\ S \in {0, 1} /\ D \in Nat \ {0} /\ t[1] = COMMA
      /\ p.width < 0 => t[2] = MINUS
      /\ p.plus => t[2] = PLUS
      /\ \A k \in 1 .. D : t[1 + S + k] = Digits(Width(p))[k]
  <2> HIDE DEF IsPlaceholder, SignUnits, Width, WidthText, DigitsOf, Digits
  <2> QED BY <1>2, WidthTextIs
<1>6. W = 1 + S + D
  BY DEF WidthUnits
<1>7. S = 1 <=> (p.plus \/ p.width < 0)
  BY DEF SignUnits
<1>8. S = 0 => t[2] \notin {MINUS, PLUS}
  <2> SUFFICES ASSUME S = 0 PROVE t[2] \notin {MINUS, PLUS}
    OBVIOUS
  <2>1. 1 \in 1 .. D /\ 1 + S + 1 = 2
    <3> HIDE DEF D, S
    <3> QED BY <1>5
  <2>2. t[2] = Digits(Width(p))[1]
    <3> HIDE DEF D, S, t
    <3> QED BY <1>5, <2>1
  <2>3. is_number(Digits(Width(p))[1]) /\ Digits(Width(p))[1] \in Nat
    <3>1. 0 \in 0 .. (D - 1) /\ 0 + 1 = 1
      <4> HIDE DEF D
      <4> QED BY <1>5
    <3> HIDE DEF Digits, is_number, Width, DigitsOf
    <3> QED BY <1>5, <3>1, FirstDigitsIs
  <2> HIDE DEF t
  <2> QED BY <2>2, <2>3 DEF is_number, ZERO, MINUS, PLUS
<1>9. FirstDigits(Width(p), 0) = 0
  BY <1>5, FirstDigitsIs
<1> HIDE DEF L, W, S, D, n, b, t
<1>10. fmt.buffer[i + 1] = COMMA /\ fmt.buffer[i + 2] = t[2]
  <2>1. 1 \in 1 .. W /\ 2 \in 1 .. W /\ i + 1 = b + 1 + L + 1 /\ i + 2 = b + 1 + L + 2
    BY <1>2, <1>4, <1>5, <1>6
  <2> QED BY <1>2, <1>5, <2>1
<1>11. /\ i < fmt.size /\ i + 1 < fmt.size /\ i + 1 < Len(fmt.buffer) /\ i + 1 \in Nat
       /\ b <= i /\ i < End(m + 1)
       /\ i + 1 + S \in Nat /\ b <= i + 1 + S /\ i + 1 + S < End(m + 1)
  <2> DEFINE e == End(m + 1)
             s == fmt.size
             z == Len(fmt.buffer)
             P == Len(p.param)
  <2>1. /\ b \in Nat /\ L \in Nat /\ W \in Nat /\ P \in Nat /\ e = b + 2 + L + W + P /\ e <= s /\ s \in Nat
        /\ z \in Nat /\ s <= z
    BY <1>2
  <2>2. i = b + 1 + L /\ S \in {0, 1} /\ D \in Nat \ {0} /\ W = 1 + S + D
    BY <1>4, <1>5, <1>6
  <2> HIDE DEF e, s, z, P
  <2>3. /\ i < s /\ i + 1 < s /\ i + 1 < z /\ i + 1 \in Nat /\ b <= i /\ i < e
        /\ i + 1 + S \in Nat /\ b <= i + 1 + S /\ i + 1 + S < e
    BY <2>1, <2>2
  <2> QED BY <2>3 DEF e, s, z
<1>12. Comma
  BY <1>2, <1>10, <1>11, NextInHolder
<1>13. /\ sign' = IF p.width < 0 THEN -1 ELSE 1
       /\ i' = i + 1 + S /\ pc' = "alignment"
       /\ UNCHANGED <<call, prev_holder, ans, auto_index, index, alignment>>
  <2>1. \A v : IsAt(i + 1, v) <=> t[2] = v
    <3>1. Readable(i + 1) /\ (i + 1) + 1 = i + 2
      BY <1>2, <1>11 DEF Readable
    <3> QED BY <1>10, <3>1 DEF IsAt
  <2>2. p.plus => p.width > 0
    BY <1>2 DEF IsPlaceholder
  <2>3. p.width \in Int
    BY <1>2 DEF IsPlaceholder
  <2>4. t[2] = MINUS <=> p.width < 0
    BY <1>5, <1>7, <1>8, <2>2, <2>3 DEF MINUS, PLUS
  <2>5. t[2] = MINUS \/ t[2] = PLUS <=> S = 1
    BY <1>5, <1>7, <1>8 DEF MINUS, PLUS
  <2>6. /\ sign' = (IF t[2] = MINUS THEN -1 ELSE 1)
        /\ i' = (IF t[2] = MINUS \/ t[2] = PLUS THEN i + 2 ELSE i + 1) /\ pc' = "alignment"
        /\ UNCHANGED <<call, prev_holder, ans, auto_index, index, alignment>>
    BY <1>12, <2>1 DEF Comma
  <2>7. i' = i + 1 + S
    BY <1>2, <1>5, <2>5, <2>6
  <2> QED BY <2>4, <2>6, <2>7
<1>14. /\ fmt' = fmt /\ args' = args /\ HasParts' /\ \A k : End(k)' = End(k)
  BY PartsStay
<1>15. AtHolder(m)'
  <2>1. Numbered(m)'
    BY <1>13, <1>14 DEF Numbered, InPlaceholder
  <2>2. 0 \in 0 .. D /\ i' = b + 2 + L + S + 0 /\ alignment' = FirstDigits(Width(p), 0) /\ index' = n
    BY <1>2, <1>4, <1>5, <1>9, <1>13
  <2>3. \E k \in 0 .. DigitsOf(Width(p)) :
          i' = End(m) + 2 + NumberUnits(p) + SignUnits(p) + k /\ alignment' = FirstDigits(Width(p), k)
    <3> HIDE DEF FirstDigits, NumberUnits, SignUnits, DigitsOf, Width
    <3> QED BY <2>2 DEF D, b, L, S
  <2>4. (\E k \in 0 .. DigitsOf(Width(fmt.parts[m + 1])) :
          /\ i = End(m) + 2 + NumberUnits(fmt.parts[m + 1]) + SignUnits(fmt.parts[m + 1]) + k
          /\ alignment = FirstDigits(Width(fmt.parts[m + 1]), k))'
    <3> HIDE DEF FirstDigits, NumberUnits, SignUnits, DigitsOf, Width
    <3> QED BY <1>14, <2>3
  <2>5. AtWidth(m)'
    BY <1>13, <1>14, <2>1, <2>2, <2>4 DEF AtWidth, n
  <2> QED BY <2>5 DEF AtHolder
<1>16. pc \in InLoops /\ pc' \in InLoops /\ i' \in Nat /\ End(m) <= i /\ i < End(m + 1)
       /\ End(m) <= i' /\ i' < End(m + 1)
  BY <1>11, <1>13 DEF InLoops, b
<1> QED BY <1>1, <1>13, <1>15, <1>16, HolderGoesOn

LEMMA ParamPlaced ==
  ASSUME ParserTypes, HasParts, NEW m, InPlaceholder(m), NEW p, p = fmt.parts[m + 1]
  PROVE  \A k \in 1 .. Len(p.param) :
           fmt.buffer[End(m) + 1 + NumberUnits(p) + WidthUnits(p) + k] = p.param[k]
BY HolderHere, SMTT(60)

\* What comes behind the number and the width: the parameter, and the brace that
\* closes the placeholder.
LEMMA ParamHere ==
  ASSUME ParserTypes, HasParts, NEW m, InPlaceholder(m), NEW p, p = fmt.parts[m + 1],
         NEW q \in 0 .. Len(p.param), NEW x, x = End(m) + 1 + NumberUnits(p) + WidthUnits(p) + q
  PROVE  /\ x \in Nat /\ End(m) <= x /\ x < fmt.size /\ x < End(m + 1)
         /\ q < Len(p.param) => /\ fmt.buffer[x + 1] = p.param[q + 1] /\ p.param[q + 1] # CLOSE
                                /\ q = 0 => p.param[q + 1] = COLON
                                /\ x + 1 < End(m + 1)
         /\ q = Len(p.param) => fmt.buffer[x + 1] = CLOSE /\ x + 1 = End(m + 1)
<1> DEFINE L == NumberUnits(p)
           W == WidthUnits(p)
           P == Len(p.param)
           b == End(m)
           e == End(m + 1)
           s == fmt.size
           t == p.param
           B == fmt.buffer
<1>0. ParserTypes /\ HasParts /\ InPlaceholder(m) /\ p = fmt.parts[m + 1]
  OBVIOUS
<1>1. IsPlaceholder(p) /\ b \in Nat /\ L \in Nat /\ W \in Nat /\ P \in Nat
  BY <1>0, HolderHere
<1>2. e = b + 2 + L + W + P /\ e <= s /\ s \in Nat
  BY <1>0, HolderHere
<1>3. B[e] = CLOSE
  BY <1>0, HolderHere
<1>4. \A k \in 1 .. P : B[b + 1 + L + W + k] = t[k]
  BY <1>0, ParamPlaced
<1>5. (\A k \in 1 .. P : t[k] # CLOSE) /\ (t # <<>> => t[1] = COLON) /\ t \in Seq(Nat)
  BY <1>1 DEF IsPlaceholder
<1>6. P # 0 => t # <<>>
  OBVIOUS
<1>7. q \in 0 .. P /\ x = b + 1 + L + W + q
  OBVIOUS
<1> HIDE DEF L, W, P, b, e, s, t, B
<1>8. x \in Nat /\ b <= x /\ x < s /\ x < e
  BY <1>1, <1>2, <1>7
<1>9. q = P => B[x + 1] = CLOSE /\ x + 1 = e
  <2>1. q = P => x + 1 = e
    BY <1>1, <1>2, <1>7
  <2> QED BY <1>3, <2>1
<1>10. q < P => B[x + 1] = t[q + 1] /\ t[q + 1] # CLOSE /\ (q = 0 => t[q + 1] = COLON) /\ x + 1 < e
  <2> SUFFICES ASSUME q < P
               PROVE  B[x + 1] = t[q + 1] /\ t[q + 1] # CLOSE /\ (q = 0 => t[q + 1] = COLON) /\ x + 1 < e
    OBVIOUS
  <2>1. q + 1 \in 1 .. P /\ x + 1 = b + 1 + L + W + (q + 1) /\ x + 1 < e /\ P # 0
    BY <1>1, <1>2, <1>7
  <2>2. q = 0 => q + 1 = 1
    OBVIOUS
  <2> QED BY <1>4, <1>5, <1>6, <2>1, <2>2
<1> QED BY <1>8, <1>9, <1>10 DEF b, e, s, t, B, P

\* The digits of the width.
LEMMA WidthHere ==
  ASSUME ParserTypes, HasParts, NEW m, InPlaceholder(m), NEW p, p = fmt.parts[m + 1], p.width # 0,
         NEW q \in 0 .. DigitsOf(Width(p)), NEW x, x = End(m) + 2 + NumberUnits(p) + SignUnits(p) + q
  PROVE  /\ Width(p) \in Nat /\ Width(p) <= INT_MAX /\ DigitsOf(Width(p)) \in Nat
         /\ x \in Nat /\ End(m) <= x /\ x < fmt.size /\ x < End(m + 1)
         /\ q < DigitsOf(Width(p)) => fmt.buffer[x + 1] = Digits(Width(p))[q + 1] /\ x + 1 < End(m + 1)
         /\ q = DigitsOf(Width(p)) => x = End(m) + 1 + NumberUnits(p) + WidthUnits(p) + 0
<1> DEFINE L == NumberUnits(p)
           W == WidthUnits(p)
           S == SignUnits(p)
           D == DigitsOf(Width(p))
           P == Len(p.param)
           b == End(m)
           e == End(m + 1)
           s == fmt.size
           t == WidthText(p)
           B == fmt.buffer
           d == Digits(Width(p))
<1>0. ParserTypes /\ HasParts /\ InPlaceholder(m) /\ p = fmt.parts[m + 1]
  OBVIOUS
<1>1. IsPlaceholder(p) /\ b \in Nat /\ L \in Nat /\ W \in Nat /\ P \in Nat
  BY <1>0, HolderHere
<1>2. e = b + 2 + L + W + P /\ e <= s /\ s \in Nat
  BY <1>0, HolderHere
<1>3. \A k \in 1 .. W : B[b + 1 + L + k] = t[k]
  BY <1>0, HolderHere, SMTT(60)
<1>4. Width(p) \in Nat /\ S \in {0, 1} /\ D \in Nat \ {0}
  BY <1>1, WidthTextIs
<1>5. \A k \in 1 .. D : t[1 + S + k] = d[k]
  BY <1>1, WidthTextIs
<1>6. W = 1 + S + D
  BY DEF WidthUnits
<1>7. Width(p) <= INT_MAX
  BY <1>1, IntMaxAssumption DEF IsPlaceholder, Width
<1>8. q \in 0 .. D /\ x = b + 2 + L + S + q
  OBVIOUS
<1> HIDE DEF L, W, S, D, P, b, e, s, t, B, d
<1>9. x \in Nat /\ b <= x /\ x < s /\ x < e
  BY <1>1, <1>2, <1>4, <1>6, <1>8
<1>10. q = D => x = b + 1 + L + W + 0
  BY <1>1, <1>4, <1>6, <1>8
<1>11. q < D => B[x + 1] = d[q + 1] /\ x + 1 < e
  <2> SUFFICES ASSUME q < D PROVE B[x + 1] = d[q + 1] /\ x + 1 < e
    OBVIOUS
  <2>1. /\ q + 1 \in 1 .. D /\ 1 + S + (q + 1) \in 1 .. W /\ x + 1 = b + 1 + L + (1 + S + (q + 1))
        /\ x + 1 < e
    BY <1>1, <1>2, <1>4, <1>6, <1>8
  <2> QED BY <1>3, <1>5, <2>1
<1>12. D \in Nat
  BY <1>4
<1> QED BY <1>4, <1>7, <1>9, <1>10, <1>11, <1>12 DEF b, e, s, B, d, D, L, W

\* A digit of the width is read.
LEMMA WidthStep ==
  ASSUME ParserTypes, HasParts, args # <<>>, Next, NEW m, Numbered(m), pc = "alignment",
         NEW p, p = fmt.parts[m + 1], index = p.number, p.width # 0,
         sign = IF p.width < 0 THEN -1 ELSE 1, NEW q \in 0 .. (DigitsOf(Width(p)) - 1),
         i = End(m) + 2 + NumberUnits(p) + SignUnits(p) + q, alignment = FirstDigits(Width(p), q)
  PROVE  PartsInv' /\ Unseen
<1> DEFINE u == fmt.buffer[i + 1]
           n == Width(p)
           D == DigitsOf(n)
           b == End(m)
           c == b + 2 + NumberUnits(p) + SignUnits(p)
<1>1. InPlaceholder(m) /\ CallMade /\ i \in Nat
  BY DEF Numbered, ParserTypes
<1>2. q \in 0 .. (D - 1) /\ i = c + q /\ alignment = FirstDigits(n, q)
  OBVIOUS
<1>3. D \in Nat /\ n \in Nat /\ n <= INT_MAX
  <2>1. InPlaceholder(m) /\ IsPlaceholder(p)
    BY <1>1, HolderHere
  <2>2. n \in Nat /\ D \in Nat
    BY <2>1, WidthTextIs
  <2>3. n <= INT_MAX
    BY <2>1, IntMaxAssumption DEF IsPlaceholder, Width
  <2> QED BY <2>2, <2>3
<1>4. q \in 0 .. D /\ q + 1 \in 0 .. D /\ q < D
  <2> HIDE DEF D
  <2> QED BY <1>2, <1>3
<1>5. /\ End(m) <= i /\ i < fmt.size /\ i < End(m + 1)
      /\ u = Digits(n)[q + 1] /\ i + 1 < End(m + 1)
  <2>1. i = End(m) + 2 + NumberUnits(p) + SignUnits(p) + q
    OBVIOUS
  <2> HIDE DEF NumberUnits, SignUnits, Width, DigitsOf, Digits
  <2> QED BY <1>1, <1>4, <2>1, WidthHere
<1>6. /\ is_number(Digits(n)[q + 1]) /\ Digits(n)[q + 1] \in Nat
      /\ FirstDigits(n, q + 1) = FirstDigits(n, q) * 10 + (Digits(n)[q + 1] - ZERO)
      /\ FirstDigits(n, q + 1) \in Nat /\ FirstDigits(n, q + 1) <= n
  <2> HIDE DEF FirstDigits, DigitsOf, Digits, is_number, n
  <2> QED BY <1>2, <1>3, <1>4, FirstDigitsIs DEF D
<1> HIDE DEF n, D, u
<1>7. Accumulated = FirstDigits(n, q + 1)
  <2>1. to_number(u) = u - ZERO
    BY <1>5, <1>6 DEF to_number
  <2> QED BY <1>2, <1>5, <1>6, <2>1, Zenon DEF Accumulated, u
<1>8. Accumulated \in int
  BY <1>3, <1>6, <1>7, IntMaxAssumption DEF int, INT_MIN
<1>9. Alignment
  BY <1>1, <1>5, <1>6, <1>8, NextInAlignment DEF u
<1>10. /\ i' = i + 1 /\ alignment' = FirstDigits(n, q + 1)
       /\ UNCHANGED <<call, prev_holder, ans, auto_index, index, sign, pc>>
  BY <1>7, <1>9 DEF Alignment
<1>11. /\ fmt' = fmt /\ args' = args /\ HasParts' /\ \A k : End(k)' = End(k)
  BY PartsStay
<1>12. c \in Nat
  <2>1. IsPlaceholder(p) /\ End(m) \in Nat /\ NumberUnits(p) \in Nat
    BY <1>1, HolderHere
  <2>2. SignUnits(p) \in Nat
    BY DEF SignUnits
  <2> QED BY <2>1, <2>2
<1>13. AtHolder(m)'
  <2>1. Numbered(m)'
    BY <1>10, <1>11 DEF Numbered, InPlaceholder
  <2>2. i' = c + (q + 1)
    <3> HIDE DEF c
    <3> QED BY <1>2, <1>10, <1>12
  <2>3. \E k \in 0 .. DigitsOf(Width(p)) :
          i' = End(m) + 2 + NumberUnits(p) + SignUnits(p) + k /\ alignment' = FirstDigits(Width(p), k)
    <3>1. \E k \in 0 .. D : i' = c + k /\ alignment' = FirstDigits(n, k)
      BY <1>4, <1>10, <2>2, Zenon
    <3> QED BY <3>1, Zenon DEF D, n
  <2>4. (\E k \in 0 .. DigitsOf(Width(fmt.parts[m + 1])) :
          /\ i = End(m) + 2 + NumberUnits(fmt.parts[m + 1]) + SignUnits(fmt.parts[m + 1]) + k
          /\ alignment = FirstDigits(Width(fmt.parts[m + 1]), k))'
    <3> HIDE DEF FirstDigits, NumberUnits, SignUnits, DigitsOf, Width
    <3> QED BY <1>11, <2>3
  <2>5. AtWidth(m)'
    BY <1>10, <1>11, <2>1, <2>4 DEF AtWidth
  <2> QED BY <2>5 DEF AtHolder
<1>14. pc \in InLoops /\ pc' \in InLoops /\ i' \in Nat /\ End(m) <= i' /\ i' < End(m + 1)
  <2>1. End(m) \in Nat
    BY <1>1, HolderHere
  <2> QED BY <1>1, <1>5, <1>10, <2>1 DEF InLoops
<1> QED BY <1>1, <1>5, <1>10, <1>13, <1>14, HolderGoesOn

\* The width ends, and its sign is put to it.
LEMMA WidthEndStep ==
  ASSUME ParserTypes, HasParts, args # <<>>, Next, NEW m, Numbered(m), pc = "alignment",
         NEW p, p = fmt.parts[m + 1], index = p.number, p.width # 0,
         sign = IF p.width < 0 THEN -1 ELSE 1,
         i = End(m) + 2 + NumberUnits(p) + SignUnits(p) + DigitsOf(Width(p)),
         alignment = FirstDigits(Width(p), DigitsOf(Width(p)))
  PROVE  PartsInv' /\ Unseen
<1> DEFINE u == fmt.buffer[i + 1]
<1>1. InPlaceholder(m) /\ CallMade /\ i \in Nat
  BY DEF Numbered, ParserTypes
<1>2. IsPlaceholder(p) /\ Len(p.param) \in Nat /\ End(m) \in Nat
  BY <1>1, HolderHere
<1>3. Width(p) \in Nat /\ DigitsOf(Width(p)) \in Nat
  BY <1>2, WidthTextIs
<1>4. alignment = Width(p)
  BY <1>3, FirstDigitsIs
<1>5. DigitsOf(Width(p)) \in 0 .. DigitsOf(Width(p))
  BY <1>3
<1>6. i = End(m) + 1 + NumberUnits(p) + WidthUnits(p) + 0
  BY <1>1, <1>5, WidthHere
<1>7. 0 \in 0 .. Len(p.param)
  BY <1>2
<1>8. /\ End(m) <= i /\ i < fmt.size /\ i < End(m + 1)
      /\ 0 < Len(p.param) => u = p.param[0 + 1] /\ p.param[0 + 1] = COLON
      /\ 0 = Len(p.param) => u = CLOSE
  BY <1>1, <1>6, <1>7, ParamHere
<1>9. u \in {COLON, CLOSE}
  BY <1>2, <1>8
<1>10. AlignmentEnd
  BY <1>1, <1>8, <1>9, NextInAlignment
<1>11. /\ alignment' = alignment * sign /\ pc' = "placeholder"
       /\ UNCHANGED <<call, i, prev_holder, ans, auto_index, index>>
  BY <1>10 DEF AlignmentEnd
<1>12. alignment' = p.width
  <2>1. p.width \in Int
    BY <1>2 DEF IsPlaceholder
  <2>2. CASE p.width < 0
    <3>1. alignment = -p.width /\ sign = -1
      BY <1>4, <2>1, <2>2 DEF Width
    <3> QED BY <1>11, <2>1, <3>1
  <2>3. CASE ~ (p.width < 0)
    <3>1. alignment = p.width /\ sign = 1
      BY <1>4, <2>1, <2>3 DEF Width
    <3> QED BY <1>11, <2>1, <3>1
  <2> QED BY <2>2, <2>3
<1>13. /\ fmt' = fmt /\ args' = args /\ HasParts' /\ \A k : End(k)' = End(k)
  BY PartsStay
<1>14. AtHolder(m)'
  <2>1. Numbered(m)'
    BY <1>11, <1>13 DEF Numbered, InPlaceholder
  <2>2. \E k \in 0 .. Len(p.param) :
          /\ i' = End(m) + 1 + NumberUnits(p) + WidthUnits(p) + k
          /\ pc' = IF k = 0 THEN "placeholder" ELSE "param"
    BY <1>6, <1>7, <1>11
  <2>3. (\E k \in 0 .. Len(fmt.parts[m + 1].param) :
          /\ i = End(m) + 1 + NumberUnits(fmt.parts[m + 1]) + WidthUnits(fmt.parts[m + 1]) + k
          /\ pc = IF k = 0 THEN "placeholder" ELSE "param")'
    <3> HIDE DEF NumberUnits, WidthUnits
    <3> QED BY <1>13, <2>2
  <2>4. AtParameter(m)'
    BY <1>11, <1>12, <1>13, <2>1, <2>3 DEF AtParameter
  <2> QED BY <2>4 DEF AtHolder
<1>15. pc \in InLoops /\ pc' \in InLoops /\ i' \in Nat /\ End(m) <= i' /\ i' < End(m + 1)
  BY <1>1, <1>8, <1>11 DEF InLoops
<1>16. ans' = ans /\ auto_index' = auto_index /\ InPlaceholder(m) /\ End(m) <= i /\ i < End(m + 1)
  BY <1>1, <1>8, <1>11
<1> QED BY <1>14, <1>15, <1>16, HolderGoesOn

\* A unit of the parameter is read.
LEMMA ParamStep ==
  ASSUME ParserTypes, HasParts, args # <<>>, Next, NEW m, Numbered(m),
         NEW p, p = fmt.parts[m + 1], index = p.number, alignment = p.width,
         NEW q \in 0 .. (Len(p.param) - 1),
         i = End(m) + 1 + NumberUnits(p) + WidthUnits(p) + q,
         pc = IF q = 0 THEN "placeholder" ELSE "param"
  PROVE  PartsInv' /\ Unseen
<1> DEFINE u == fmt.buffer[i + 1]
           P == Len(p.param)
           c == End(m) + 1 + NumberUnits(p) + WidthUnits(p)
<1>1. InPlaceholder(m) /\ CallMade /\ i \in Nat
  BY DEF Numbered, ParserTypes
<1>2. P \in Nat /\ End(m) \in Nat /\ c \in Nat
  <2>1. Len(p.param) \in Nat /\ End(m) \in Nat /\ NumberUnits(p) \in Nat /\ WidthUnits(p) \in Nat
    BY <1>1, HolderHere
  <2> QED BY <2>1
<1>3. q \in 0 .. P /\ q + 1 \in 0 .. P /\ q < P /\ q + 1 # 0 /\ i = c + q
  <2>1. q \in 0 .. (P - 1) /\ i = c + q
    OBVIOUS
  <2> HIDE DEF P, c
  <2> QED BY <1>2, <2>1
<1>4. /\ End(m) <= i /\ i < fmt.size /\ i < End(m + 1) /\ i + 1 < End(m + 1)
      /\ u # CLOSE /\ (q = 0 => u = COLON)
  BY <1>1, <1>3, ParamHere
<1>5. Param
  <2>1. CASE q = 0
    BY <1>1, <1>4, <2>1, NextInHolder
  <2>2. CASE q # 0
    BY <1>1, <1>4, <2>2, NextInParam
  <2> QED BY <2>1, <2>2
<1>6. i' = i + 1 /\ pc' = "param" /\ UNCHANGED <<call, prev_holder, ans, auto_index, holder>>
  BY <1>5 DEF Param, InHolder
<1>7. index' = index /\ alignment' = alignment
  BY <1>6 DEF holder
<1>8. /\ fmt' = fmt /\ args' = args /\ HasParts' /\ \A k : End(k)' = End(k)
  BY PartsStay
<1>9. AtHolder(m)'
  <2>1. Numbered(m)'
    BY <1>6, <1>8 DEF Numbered, InPlaceholder
  <2>2. i' = c + (q + 1) /\ pc' = IF q + 1 = 0 THEN "placeholder" ELSE "param"
    <3> HIDE DEF c
    <3> QED BY <1>2, <1>3, <1>6
  <2>3. \E k \in 0 .. Len(p.param) :
          /\ i' = End(m) + 1 + NumberUnits(p) + WidthUnits(p) + k
          /\ pc' = IF k = 0 THEN "placeholder" ELSE "param"
    BY <1>3, <2>2
  <2>4. (\E k \in 0 .. Len(fmt.parts[m + 1].param) :
          /\ i = End(m) + 1 + NumberUnits(fmt.parts[m + 1]) + WidthUnits(fmt.parts[m + 1]) + k
          /\ pc = IF k = 0 THEN "placeholder" ELSE "param")'
    <3> HIDE DEF NumberUnits, WidthUnits
    <3> QED BY <1>8, <2>3
  <2>5. AtParameter(m)'
    BY <1>7, <1>8, <2>1, <2>4 DEF AtParameter
  <2> QED BY <2>5 DEF AtHolder
<1>10. pc \in InLoops /\ pc' \in InLoops /\ i' \in Nat /\ End(m) <= i' /\ i' < End(m + 1)
  BY <1>1, <1>2, <1>4, <1>6 DEF InLoops
<1> QED BY <1>1, <1>4, <1>6, <1>9, <1>10, HolderGoesOn

\* The placeholder is closed, and answered.
LEMMA CloseStep ==
  ASSUME ParserTypes, ans \in Seq(Nat), HasParts, args # <<>>, Next, NEW m, InPlaceholder(m),
         NEW p, p = fmt.parts[m + 1], pc \in {"placeholder", "param"}, i + 1 = End(m + 1),
         alignment = p.width,
         p.number = Automatic => auto_index \in Nat,
         p.number # Automatic => auto_index = -1 /\ index = p.number
  PROVE  PartsInv' /\ (Answers \/ Fails)
<1> DEFINE n == IF auto_index = -1 THEN index ELSE auto_index
<1>1. /\ CallMade /\ fmt.parts # NoParts /\ m \in 0 .. (Len(fmt.parts) - 1) /\ m \in 0 .. Len(fmt.parts)
      /\ IsPlaceholder(p) /\ i \in Nat /\ End(m) \in Nat
  BY HolderHere
<1>2. End(m) <= i /\ i < fmt.size /\ i < End(m + 1) /\ fmt.buffer[i + 1] = CLOSE
  <2>1. NumberUnits(p) \in Nat /\ WidthUnits(p) \in Nat /\ Len(p.param) \in Nat
    BY HolderHere
  <2>2. End(m + 1) = End(m) + 2 + NumberUnits(p) + WidthUnits(p) + Len(p.param)
    BY HolderHere
  <2>3. End(m + 1) <= fmt.size /\ fmt.size \in Nat /\ fmt.buffer[End(m + 1)] = CLOSE
    BY HolderHere
  <2> DEFINE b == End(m)
             e == End(m + 1)
             s == fmt.size
             L == NumberUnits(p)
             W == WidthUnits(p)
             P == Len(p.param)
  <2>4. /\ i \in Nat /\ b \in Nat /\ L \in Nat /\ W \in Nat /\ P \in Nat /\ s \in Nat
        /\ i + 1 = e /\ e = b + 2 + L + W + P /\ e <= s
    BY <1>1, <2>1, <2>2, <2>3
  <2> HIDE DEF b, e, s, L, W, P
  <2>5. b <= i /\ i < s /\ i < e
    BY <2>4
  <2> QED BY <2>3, <2>4, <2>5 DEF b, e, s
<1>3. p.kind = "placeholder" /\ p.width \in Int /\ (p.number # Automatic => p.number \in Nat)
  BY <1>1 DEF IsPlaceholder
<1>4. n \in Nat /\ alignment \in Int
  BY <1>3
<1> HIDE DEF n
<1>5. Chosen = to_string_index(n, alignment) /\ \A t \in Chosen : t \in Seq(Nat)
  BY ChosenType DEF Chosen, n
<1>6. CloseHolder \/ (Chosen = {} /\ pc' = "undefined")
  BY <1>1, <1>2, NextInHolder, NextInParam
<1>7. CASE Chosen = {} /\ pc' = "undefined"
  <2>1. ~ FromParts
    BY <1>1, <1>4, <1>5, <1>7, ChosenIs
  <2> QED BY <1>7, <2>1 DEF PartsInv, Fails
<1>8. CASE CloseHolder
  <2>1. PICK answered \in Chosen : ans' = ans \o answered
    BY <1>8 DEF CloseHolder
  <2>2. /\ prev_holder' = i + 1 /\ i' = i + 1 /\ pc' = "text"
        /\ UNCHANGED <<call, auto_index, holder>> /\ answered \in Seq(Nat)
    BY <1>5, <1>8 DEF CloseHolder
  <2>3. pc # "return" /\ pc # "text" /\ pc \in InLoops
    BY DEF InLoops
  <2>4. Len(fmt.parts) \in Nat
    BY <1>1, PartsType
  <2>5. m < Len(fmt.parts)
    BY <1>1, <2>4
  <2>6. Rest = Remaining(m) /\ Counted = IF p.number = Automatic THEN auto_index ELSE auto_index + 1
    <3>1. Rest = Remaining(m)
      BY <1>1, <1>2, <2>3, Seen
    <3>2. Counted = IF fmt.parts[m + 1].number = Automatic THEN auto_index ELSE auto_index + 1
      BY <1>1, <1>2, <2>3, <2>5, Seen
    <3> QED BY <3>1, <3>2
  <2>7. Counted \in Nat
    BY <2>6
  <2>8. answered \in AnswersTo(fmt.parts[m + 1], Counted)
    <3>1. CASE p.number = Automatic
      <4>1. n = auto_index /\ Counted = auto_index
        BY <2>6, <3>1 DEF n
      <4> QED BY <1>3, <1>5, <2>1, <3>1, <4>1 DEF AnswersTo
    <3>2. CASE p.number # Automatic
      <4>1. n = p.number
        BY <3>2 DEF n
      <4> QED BY <1>3, <1>5, <2>1, <3>2, <4>1 DEF AnswersTo
    <3> QED BY <3>1, <3>2
  <2>9. AnswerSoFar' = AnswerSoFar \o answered
    <3>1. ans' \in Seq(Nat)
      BY <2>1, <2>2
    <3>2. i' \in Nat /\ prev_holder' = i'
      BY <1>1, <2>2
    <3>3. AnswerSoFar' = ans'
      BY <2>2, <3>1, <3>2, NothingLeft
    <3>4. AnswerSoFar = ans
      BY <2>3 DEF AnswerSoFar
    <3> QED BY <2>1, <3>3, <3>4
  <2>10. AutomaticSeen(m + 1)'
    <3> SUFFICES ASSUME auto_index' # -1
                 PROVE  \E k \in 1 .. (m + 1) : fmt'.parts[k].kind = "placeholder" /\ fmt'.parts[k].number = Automatic
      BY DEF AutomaticSeen
    <3>1. p.number = Automatic
      BY <2>2
    <3>2. m + 1 \in 1 .. (m + 1)
      BY <1>1, <2>4
    <3>3. fmt' = fmt
      BY PartsStay
    <3> QED BY <1>3, <3>1, <3>2, <3>3
  <2>11. auto_index' + 1 = IF fmt.parts[m + 1].kind = "placeholder" /\ fmt.parts[m + 1].number = Automatic
                           THEN Counted + 1 ELSE Counted
    BY <1>3, <2>2, <2>6
  <2>12. pc' = "text" /\ i' = End(m + 1)
    BY <2>2
  <2> QED BY <1>1, <2>3, <2>6, <2>7, <2>8, <2>9, <2>10, <2>11, <2>12, PartDone
<1> QED BY <1>6, <1>7, <1>8

\* What a step inside a placeholder is.
LEMMA HolderStep ==
  ASSUME ParserTypes, ans \in Seq(Nat), HasParts, args # <<>>, Next, NEW m, AtHolder(m)
  PROVE  PartsInv' /\ (Unseen \/ Answers \/ Fails)
<1> DEFINE p == fmt.parts[m + 1]
<1>1. CASE AtAutomatic(m)
  <2>1. InPlaceholder(m) /\ p.number = Automatic
    BY <1>1 DEF AtAutomatic
  <2>2. IsPlaceholder(p)
    BY <2>1, HolderHere
  <2>3. NumberUnits(p) = 0 /\ WidthUnits(p) = 0 /\ Len(p.param) = 0 /\ p.width = 0
    BY <2>1, <2>2, NumberOrNone
  <2>4. End(m) \in Nat /\ End(m + 1) = End(m) + 2 + NumberUnits(p) + WidthUnits(p) + Len(p.param)
    BY <2>1, HolderHere
  <2>5. i + 1 = End(m + 1)
    BY <1>1, <2>3, <2>4 DEF AtAutomatic
  <2>6. pc \in {"placeholder", "param"} /\ alignment = p.width /\ auto_index \in Nat
    BY <1>1, <2>3 DEF AtAutomatic
  <2> QED BY <2>1, <2>5, <2>6, CloseStep
<1>2. ASSUME NEW q \in 0 .. Len(p.param), Numbered(m), index = p.number, alignment = p.width,
             i = End(m) + 1 + NumberUnits(p) + WidthUnits(p) + q,
             pc = IF q = 0 THEN "placeholder" ELSE "param"
      PROVE  PartsInv' /\ (Unseen \/ Answers \/ Fails)
  <2>1. InPlaceholder(m) /\ p.number # Automatic /\ auto_index = -1
    BY <1>2 DEF Numbered
  <2>2. Len(p.param) \in Nat
    BY <2>1, HolderHere
  <2>3. CASE q < Len(p.param)
    <3>1. q \in 0 .. (Len(p.param) - 1)
      BY <2>2, <2>3
    <3> QED BY <1>2, <3>1, ParamStep
  <2>4. CASE q = Len(p.param)
    <3>1. i + 1 = End(m + 1)
      BY <1>2, <2>1, <2>4, ParamHere
    <3>2. pc \in {"placeholder", "param"}
      BY <1>2
    <3> QED BY <1>2, <2>1, <3>1, <3>2, CloseStep
  <2> QED BY <2>2, <2>3, <2>4
<1>3. CASE AtNumber(m)
  <2>1. Numbered(m) /\ pc = "placeholder" /\ alignment = 0
    BY <1>3 DEF AtNumber
  <2>2. PICK q \in 0 .. NumberUnits(p) : i = End(m) + 1 + q /\ index = FirstDigits(p.number, q)
    BY <1>3 DEF AtNumber
  <2>3. InPlaceholder(m) /\ p.number # Automatic
    BY <2>1 DEF Numbered
  <2>4. IsPlaceholder(p) /\ NumberUnits(p) \in Nat /\ End(m) \in Nat /\ Len(p.param) \in Nat
    BY <2>3, HolderHere
  <2>5. CASE q < NumberUnits(p)
    <3>1. q \in 0 .. (NumberUnits(p) - 1)
      BY <2>4, <2>5
    <3> QED BY <2>1, <2>2, <3>1, NumberStep
  <2>6. CASE q = NumberUnits(p) /\ p.width # 0
    <3>1. i = End(m) + 1 + NumberUnits(p) /\ index = FirstDigits(p.number, NumberUnits(p))
      BY <2>2, <2>6
    <3> QED BY <2>1, <2>6, <3>1, CommaStep
  <2>7. CASE q = NumberUnits(p) /\ p.width = 0
    <3>1. p.number \in Nat /\ NumberUnits(p) = DigitsOf(p.number)
      BY <2>3, <2>4, NumberOrNone
    <3>2. FirstDigits(p.number, DigitsOf(p.number)) = p.number
      BY <3>1, FirstDigitsIs
    <3>3. index = p.number
      BY <2>2, <2>7, <3>1, <3>2, Zenon
    <3>4. WidthUnits(p) = 0
      BY <2>7 DEF WidthUnits
    <3>5. i = End(m) + 1 + NumberUnits(p) + WidthUnits(p) + 0 /\ 0 \in 0 .. Len(p.param)
      BY <2>2, <2>4, <2>7, <3>4
    <3>6. alignment = p.width
      BY <2>1, <2>7
    <3> QED BY <1>2, <2>1, <3>3, <3>5, <3>6
  <2> QED BY <2>4, <2>5, <2>6, <2>7
<1>4. CASE AtWidth(m)
  <2>1. /\ Numbered(m) /\ pc = "alignment" /\ index = p.number /\ p.width # 0
        /\ sign = IF p.width < 0 THEN -1 ELSE 1
    BY <1>4 DEF AtWidth
  <2>2. PICK q \in 0 .. DigitsOf(Width(p)) :
          i = End(m) + 2 + NumberUnits(p) + SignUnits(p) + q /\ alignment = FirstDigits(Width(p), q)
    BY <1>4 DEF AtWidth
  <2>3. InPlaceholder(m)
    BY <2>1 DEF Numbered
  <2>4. IsPlaceholder(p)
    BY <2>3, HolderHere
  <2>5. DigitsOf(Width(p)) \in Nat
    BY <2>1, <2>4, WidthTextIs
  <2>6. CASE q < DigitsOf(Width(p))
    <3>1. q \in 0 .. (DigitsOf(Width(p)) - 1)
      BY <2>5, <2>6
    <3> QED BY <2>1, <2>2, <3>1, WidthStep
  <2>7. CASE q = DigitsOf(Width(p))
    <3>1. /\ i = End(m) + 2 + NumberUnits(p) + SignUnits(p) + DigitsOf(Width(p))
          /\ alignment = FirstDigits(Width(p), DigitsOf(Width(p)))
      BY <2>2, <2>7
    <3> QED BY <2>1, <3>1, WidthEndStep
  <2> QED BY <2>5, <2>6, <2>7
<1>5. CASE AtParameter(m)
  <2>1. PICK q \in 0 .. Len(p.param) :
          /\ i = End(m) + 1 + NumberUnits(p) + WidthUnits(p) + q
          /\ pc = IF q = 0 THEN "placeholder" ELSE "param"
    BY <1>5 DEF AtParameter
  <2>2. Numbered(m) /\ index = p.number /\ alignment = p.width
    BY <1>5 DEF AtParameter
  <2> QED BY <1>2, <2>1, <2>2
<1> QED BY <1>1, <1>3, <1>4, <1>5 DEF AtHolder

\* At first all parts are left.
LEMMA RestFirst ==
  ASSUME CallMade, fmt.parts # NoParts, i = 0, pc # "return"
  PROVE  Rest = fmt.parts
<1> DEFINE N == Len(fmt.parts)
<1>1. N \in Nat /\ End(0) = 0 /\ 0 \in 0 .. N /\ 0 \in Nat
  BY PartsType
<1>2. 0 < N => i < End(0 + 1)
  <2> SUFFICES ASSUME 0 < N PROVE 0 < End(0 + 1)
    OBVIOUS
  <2> DEFINE w == WrittenPart(fmt.parts[0 + 1])
  <2>1. 0 \in 0 .. (N - 1)
    BY <1>1
  <2>2. fmt.parts[0 + 1] \in FormatPart /\ End(0 + 1) = End(0) + Len(w)
    BY <2>1, PartsPlaced
  <2>3. Len(w) \in Nat \ {0}
    BY <2>2, WrittenType
  <2> HIDE DEF w
  <2> QED BY <1>1, <2>2, <2>3
<1>3. Rest = Remaining(0)
  BY <1>1, <1>2, Seen
<1> QED BY <1>1, <1>3, RemainingIs

\* Without arguments the format is the answer.
LEMMA VerbatimStep ==
  ASSUME ParserTypes, HasParts, Next, AtStart
  PROVE  PartsInv' /\ (FromParts => Formatter!ReturnVerbatim)
<1> DEFINE N == Len(fmt.parts)
<1>1. CallMade /\ fmt.parts # NoParts
  BY DEF ParserTypes, HasParts
<1>2. /\ fmt.parts \in Seq(FormatPart) /\ N \in Nat /\ End(0) = 0 /\ End(N) = fmt.size
      /\ \A n \in 0 .. N : SubSeq(fmt.buffer, 1, End(n)) = Written(SubSeq(fmt.parts, 1, n))
  BY <1>1, PartsType
<1>3. Verbatim
  BY DEF AtStart, Next, Verbatim, TextLoop, HolderLoops, InText, Literal, Escape, OpenHolder, LoneClose, Return,
         Throws, InHolder, ManualIndex, Comma, Param, Closing, CloseHolder, Unknown, SkipUnknown, Truncated,
         EndsInHolder, Alignment, AlignmentOther, AlignmentEnd, Aborts, Undefined
<1>4. ans' = view /\ pc' = "return" /\ auto_index' = auto_index
  BY <1>3 DEF Verbatim
<1>5. args' = args /\ (FromParts' <=> FromParts)
  BY PartsStay
<1>6. PartsInv'
  BY <1>4 DEF PartsInv
<1>7. Rest = fmt.parts
  BY <1>1, RestFirst DEF AtStart
<1>8. ans' = Written(Rest)
  <2>1. N \in 0 .. N
    BY <1>2
  <2>2. SubSeq(fmt.buffer, 1, fmt.size) = Written(SubSeq(fmt.parts, 1, N))
    BY <1>2, <2>1
  <2>3. SubSeq(fmt.parts, 1, N) = fmt.parts
    BY <1>2, SubSeqFull
  <2> QED BY <1>4, <1>7, <2>2, <2>3 DEF view
<1>9. Rest' = <<>> /\ Counted = 0 /\ Counted' = 0
  BY <1>4 DEF Rest, Counted, AtStart
<1>10. args = <<>> /\ pc # "text" /\ pc # "return" /\ ans = <<>>
  BY DEF AtStart
<1>11. Formatter!Written(Rest) = Written(Rest)
  BY SameWritten
<1>12. FromParts => Formatter!ReturnVerbatim
  BY <1>1, <1>4, <1>5, <1>7, <1>8, <1>9, <1>10, <1>11 DEF Formatter!ReturnVerbatim
<1> QED BY <1>6, <1>12

\* When the call has ended, it has ended.
LEMMA Ended ==
  ASSUME Next PROVE pc \notin {"return", "thrown", "aborted", "undefined"}
BY DEF Next, Verbatim, TextLoop, HolderLoops, InText, Literal, Escape, OpenHolder, LoneClose, Return,
       Throws, InHolder, ManualIndex, Comma, Param, Closing, CloseHolder, Unknown, SkipUnknown, Truncated,
       EndsInHolder, Alignment, AlignmentOther, AlignmentEnd, Aborts, Undefined

LEMMA PartsInit ==
  ASSUME Init PROVE PartsInv /\ Formatter!Init
<1>1. ParserTypes
  BY ParserTypesInit
<1>2. CallMade
  BY <1>1 DEF ParserTypes
<1>3. /\ i = 0 /\ prev_holder = 0 /\ ans = <<>> /\ auto_index = -1
      /\ pc = IF args = <<>> THEN "verbatim" ELSE "text"
  BY DEF Init
<1>4. args \in ArgumentLists
  BY <1>2, FormatAssumption DEF CallMade
<1>5. ASSUME HasParts PROVE Rest = fmt.parts /\ fmt.parts \in PartSequences /\ End(0) = 0 /\ 0 \in 0 .. Len(fmt.parts)
  <2>1. fmt.parts # NoParts
    BY <1>5 DEF HasParts
  <2>2. fmt.parts \in PartSequences /\ End(0) = 0 /\ 0 \in 0 .. Len(fmt.parts)
    BY <1>2, <2>1, PartsType
  <2>3. Rest = fmt.parts
    BY <1>2, <1>3, <2>1, RestFirst
  <2> QED BY <2>2, <2>3
<1>6. PartsInv
  <2> SUFFICES ASSUME HasParts
               PROVE  \/ AtStart
                      \/ args # <<>> /\ \E m \in 0 .. Len(fmt.parts) : AtText(m) \/ AtHolder(m)
    BY DEF PartsInv
  <2>1. CASE args = <<>>
    BY <1>3, <2>1 DEF AtStart
  <2>2. CASE args # <<>>
    <3>1. AtText(0)
      BY <1>3, <1>5, <2>2 DEF AtText, AutomaticSeen
    <3> QED BY <1>5, <2>2, <3>1
  <2> QED BY <2>1, <2>2
<1>7. Formatter!Init
  <2>1. pc # "return" /\ pc \notin InLoops
    BY <1>3 DEF InLoops
  <2>2. Counted = 0
    BY <1>3 DEF Counted
  <2>3. pc = "text" => ans \o Text(i) = <<>>
    <3> SUFFICES <<>> \o SubSeq(view, 0 + 1, 0) = <<>>
      BY <1>3 DEF Text
    <3>1. SubSeq(view, 0 + 1, 0) = <<>>
      BY SubSeqEmpty
    <3> QED BY <3>1
  <2>4. FromParts => HasParts
    BY DEF FromParts, HasParts
  <2> QED BY <1>3, <1>4, <1>5, <2>1, <2>2, <2>3, <2>4 DEF Formatter!Init
<1> QED BY <1>6, <1>7

LEMMA PartsNext ==
  ASSUME ParserTypes, ans \in Seq(Nat), PartsInv, Next \/ UNCHANGED vars
  PROVE  /\ PartsInv'
         /\ HasParts => \/ UNCHANGED vars \/ Unseen \/ Answers \/ Returns \/ Fails
                        \/ args = <<>> /\ (FromParts => Formatter!ReturnVerbatim)
<1>1. CASE UNCHANGED vars
  <2> USE <1>1 DEF vars
  <2>1. (HasParts' <=> HasParts) /\ (AtStart' <=> AtStart) /\ \A m : AtText(m)' <=> AtText(m)
    BY DEF HasParts, AtStart, AtText, AutomaticSeen, End
  <2>2. \A m : AtHolder(m)' <=> AtHolder(m)
    <3> HIDE DEF FirstDigits, NumberUnits, WidthUnits, SignUnits, DigitsOf, Width
    <3> QED BY DEF AtHolder, AtAutomatic, AtNumber, AtWidth, AtParameter, Numbered, InPlaceholder, End
  <2>3. pc' = pc /\ args' = args /\ fmt' = fmt
    OBVIOUS
  <2>4. PartsInv'
    <3> HIDE <1>1 DEF vars
    <3> QED BY <2>1, <2>2, <2>3, SMTT(60) DEF PartsInv
  <2> QED BY <2>4
<1>2. CASE Next /\ ~ HasParts
  <2>1. ~ HasParts'
    BY <1>2, PartsStay
  <2> QED BY <1>2, <2>1 DEF PartsInv
<1>3. CASE Next /\ HasParts
  <2>1. pc \notin {"return", "undefined"}
    BY <1>3, Ended
  <2>2. CASE AtStart
    <3>1. args = <<>>
      BY <2>2 DEF AtStart
    <3> QED BY <1>3, <2>2, <3>1, VerbatimStep
  <2>3. ASSUME args # <<>>, NEW m \in 0 .. Len(fmt.parts), AtText(m)
        PROVE  PartsInv' /\ (Unseen \/ Answers \/ Returns)
    <3>1. m < Len(fmt.parts) \/ m = Len(fmt.parts)
      BY <1>3, <2>3, TextPlace
    <3>2. CASE m = Len(fmt.parts)
      BY <1>3, <2>3, <3>2, ReturnStep
    <3>3. CASE m < Len(fmt.parts)
      <4>1. fmt.parts[m + 1] \in FormatPart
        BY <1>3, <2>3, <3>3, TextPlace
      <4>2. fmt.parts[m + 1].kind \in {"text", "brace", "placeholder"}
        BY <4>1, PartKinds DEF IsPlaceholder
      <4>3. CASE fmt.parts[m + 1].kind = "text"
        BY <1>3, <2>3, <3>3, <4>3, TextStep
      <4>4. CASE fmt.parts[m + 1].kind = "brace"
        BY <1>3, <2>3, <3>3, <4>4, BraceStep
      <4>5. CASE fmt.parts[m + 1].kind = "placeholder"
        BY <1>3, <2>3, <3>3, <4>5, OpenStep
      <4> QED BY <4>2, <4>3, <4>4, <4>5
    <3> QED BY <3>1, <3>2, <3>3
  <2>4. ASSUME args # <<>>, NEW m \in 0 .. Len(fmt.parts), AtHolder(m)
        PROVE  PartsInv' /\ (Unseen \/ Answers \/ Fails)
    BY <1>3, <2>4, HolderStep
  <2>5. AtStart \/ (args # <<>> /\ \E m \in 0 .. Len(fmt.parts) : AtText(m) \/ AtHolder(m))
    BY <1>3, <2>1 DEF PartsInv
  <2>6. CASE ~ AtStart
    <3>1. PICK m \in 0 .. Len(fmt.parts) : AtText(m) \/ AtHolder(m)
      BY <2>5, <2>6
    <3>2. args # <<>>
      BY <2>5, <2>6
    <3>3. PartsInv' /\ (Unseen \/ Answers \/ Returns \/ Fails)
      BY <2>3, <2>4, <3>1, <3>2
    <3> QED BY <3>3
  <2> QED BY <2>2, <2>6
<1> QED BY <1>1, <1>2, <1>3

\* All these are steps of the formatter, or none.
LEMMA FormatterNext ==
  ASSUME ParserTypes, ans \in Seq(Nat), PartsInv, Next \/ UNCHANGED vars
  PROVE  [Formatter!Next]_(Formatter!vars)
<1>1. CASE UNCHANGED vars
  BY <1>1 DEF vars, Formatter!vars, FromParts, Rest, Read, Counted, Text, view
<1>2. CASE Next
  <2>1. args' = args /\ (FromParts' <=> FromParts)
    BY <1>2, PartsStay
  <2>2. CASE ~ FromParts
    BY <2>1, <2>2 DEF Formatter!vars
  <2>3. CASE FromParts
    <3>1. HasParts /\ CallMade
      BY <2>3 DEF FromParts, HasParts, ParserTypes
    <3>2. UNCHANGED vars \/ Unseen \/ Answers \/ Returns \/ Formatter!ReturnVerbatim
      BY <1>2, <2>3, <3>1, PartsNext DEF Fails
    <3> QED BY <1>1, <2>1, <2>3, <3>1, <3>2, FormatterAnswers, FormatterReturns, FormatterIdle DEF Formatter!Next
  <2> QED BY <2>2, <2>3
<1> QED BY <1>1, <1>2

\* A format written from parts is answered part by part, in order, and returned
\* when no part is left (format.h:120-246): every step of the parser is a step of
\* Formatting or leaves its variables as they are.
THEOREM AnswersInOrder == FairSpec => Formatter!Init /\ [][Formatter!Next]_(Formatter!vars)
<1> DEFINE Inv == ParserTypes /\ PlainInv /\ PartsInv
<1>1. Init => Inv /\ Formatter!Init
  BY ParserTypesInit, PlainInit, PartsInit
<1>2. Inv /\ [Next]_vars => Inv' /\ [Formatter!Next]_(Formatter!vars)
  <2> SUFFICES ASSUME Inv, [Next]_vars PROVE Inv' /\ [Formatter!Next]_(Formatter!vars)
    OBVIOUS
  <2>1. ParserTypes' /\ PlainInv'
    BY ParserTypesNext, PlainNext
  <2>2. ans \in Seq(Nat)
    BY DEF PlainInv
  <2>3. PartsInv' /\ [Formatter!Next]_(Formatter!vars)
    BY <2>2, PartsNext, FormatterNext
  <2> QED BY <2>1, <2>3
<1> QED BY <1>1, <1>2, PTL DEF FairSpec

-----------------------------------------------------------------------------
(* Numbers that are read back.                                             *)

\* to_uint reads the digits of a number in size_t.
LEMMA DigitsRead ==
  ASSUME NEW n \in Nat, n \in size_t
  PROVE  to_uint(Digits(n)) = n
<1> DEFINE s == Digits(n)
           D == DigitsOf(n)
           P(w) == [k \in 0 .. D |-> IF k = 0 THEN 0 ELSE Wrap(10 * w[k - 1] + to_number(s[k]))]
           f == CHOOSE w : w = P(w)
           g == [k \in 0 .. D |-> FirstDigits(n, k)]
<1>1. D \in Nat \ {0} /\ Len(s) = D /\ \A k \in 1 .. D : is_number(s[k])
  BY DigitsType
<1>2. to_uint(s) = f[D]
  <2>1. {k \in 1 .. Len(s) : ~ is_number(s[k])} \cup {Len(s) + 1} = {D + 1}
    BY <1>1
  <2>2. Min({D + 1}) = D + 1
    <3>1. {D + 1} \in SUBSET Int /\ D + 1 \in {D + 1} /\ \A x \in {D + 1} : D + 1 <= x
      BY <1>1
    <3> QED BY <3>1, MinIs
  <2>3. (D + 1) - 1 = D
    BY <1>1
  <2> HIDE DEF s, D
  <2> QED BY <2>1, <2>2, <2>3 DEF to_uint
<1>3. /\ FirstDigits(n, 0) = 0 /\ FirstDigits(n, D) = n
      /\ \A k \in 0 .. D : FirstDigits(n, k) \in Nat /\ FirstDigits(n, k) <= n
      /\ \A k \in 0 .. (D - 1) : /\ s[k + 1] \in Nat /\ is_number(s[k + 1])
                                 /\ FirstDigits(n, k + 1) = FirstDigits(n, k) * 10 + (s[k + 1] - ZERO)
  <2> HIDE DEF FirstDigits, is_number
  <2> QED BY FirstDigitsIs
<1> HIDE DEF s, D
<1>4. ASSUME NEW k \in 0 .. (D - 1)
      PROVE  Wrap(10 * FirstDigits(n, k) + to_number(s[k + 1])) = FirstDigits(n, k + 1)
  <2>1. k \in 0 .. D /\ k + 1 \in 0 .. D
    BY <1>1
  <2>2. FirstDigits(n, k + 1) \in size_t
    BY <1>3, <2>1, SizeMaxAssumption DEF size_t
  <2>3. to_number(s[k + 1]) = s[k + 1] - ZERO
    BY <1>3 DEF to_number
  <2>4. 10 * FirstDigits(n, k) + to_number(s[k + 1]) = FirstDigits(n, k + 1)
    <3> DEFINE x == FirstDigits(n, k)
    <3>1. x \in Nat /\ FirstDigits(n, k + 1) = x * 10 + (s[k + 1] - ZERO)
      BY <1>3, <2>1
    <3> HIDE DEF x
    <3>2. 10 * x = x * 10
      BY <3>1
    <3> QED BY <2>3, <3>1, <3>2, Zenon DEF x
  <2> QED BY <2>2, <2>4, WrapFits
<1>5. g = P(g)
  <2>1. ASSUME NEW k \in 0 .. D PROVE g[k] = P(g)[k]
    <3>1. CASE k = 0
      BY <1>3, <3>1
    <3>2. CASE k # 0
      <4>1. k - 1 \in 0 .. (D - 1) /\ k - 1 \in 0 .. D /\ (k - 1) + 1 = k
        BY <1>1, <3>2
      <4>2. g[k - 1] = FirstDigits(n, k - 1) /\ g[k] = FirstDigits(n, k)
        BY <4>1
      <4>3. Wrap(10 * g[k - 1] + to_number(s[k])) = FirstDigits(n, k)
        <5> HIDE DEF g
        <5>1. Wrap(10 * FirstDigits(n, k - 1) + to_number(s[(k - 1) + 1])) = FirstDigits(n, (k - 1) + 1)
          BY <1>4, <4>1
        <5> QED BY <4>1, <4>2, <5>1, Zenon
      <4>4. P(g)[k] = Wrap(10 * g[k - 1] + to_number(s[k]))
        <5> HIDE DEF g
        <5> QED BY <3>2
      <4> HIDE DEF g, P
      <4> QED BY <4>2, <4>3, <4>4
    <3> QED BY <3>1, <3>2
  <2>2. P(g) = [k \in 0 .. D |-> P(g)[k]] /\ g = [k \in 0 .. D |-> g[k]]
    OBVIOUS
  <2> HIDE DEF g, P
  <2> QED BY <2>1, <2>2
<1>6. f = P(f)
  <2> HIDE DEF P, g
  <2> QED BY <1>5
<1> HIDE DEF f, g
<1>7. f[0] = 0 /\ \A k \in 0 .. (D - 1) : f[k + 1] = Wrap(10 * f[k] + to_number(s[k + 1]))
  <2>1. P(f)[0] = 0
    BY <1>1
  <2>2. ASSUME NEW k \in 0 .. (D - 1) PROVE P(f)[k + 1] = Wrap(10 * f[k] + to_number(s[k + 1]))
    <3>1. k + 1 \in 0 .. D /\ k + 1 # 0 /\ (k + 1) - 1 = k
      BY <1>1
    <3> QED BY <3>1
  <2> HIDE DEF P
  <2> QED BY <1>6, <2>1, <2>2
<1> DEFINE R == {k \in Nat : k <= D => f[k] = FirstDigits(n, k)}
<1>8. R = Nat
  <2>1. 0 \in R
    BY <1>3, <1>7
  <2>2. ASSUME NEW k \in R PROVE k + 1 \in R
    <3> SUFFICES ASSUME k + 1 <= D PROVE f[k + 1] = FirstDigits(n, k + 1)
      OBVIOUS
    <3>1. k \in 0 .. (D - 1) /\ k <= D
      BY <1>1
    <3>2. f[k] = FirstDigits(n, k)
      BY <3>1
    <3>3. f[k + 1] = Wrap(10 * f[k] + to_number(s[k + 1]))
      BY <1>7, <3>1
    <3>4. Wrap(10 * FirstDigits(n, k) + to_number(s[k + 1])) = FirstDigits(n, k + 1)
      BY <1>4, <3>1
    <3> QED BY <3>2, <3>3, <3>4, Zenon
  <2>3. R \in SUBSET Nat
    OBVIOUS
  <2> HIDE DEF R
  <2> QED BY <2>1, <2>2, <2>3, SetInduction
<1>9. D \in R
  BY <1>1, <1>8
<1>10. f[D] = n
  BY <1>1, <1>3, <1>9
<1> QED BY <1>2, <1>10 DEF s

\* What precedes the digits and what follows them is trimmed.
LEMMA TrimmedIs ==
  ASSUME NEW s \in Seq(Nat), s # <<>>, \A k \in 1 .. Len(s) : s[k] # SPACE,
         NEW w \in Int, ans = Padded(s, w)
  PROVE  Trimmed = s
<1> DEFINE n == Len(s)
           v == IF w < 0 THEN -w ELSE w
           size == IF v <= n THEN n ELSE v
           skip == IF w > 0 THEN size - n ELSE 0
           P == [k \in 1 .. size |-> IF k - skip \in 1 .. n THEN s[k - skip] ELSE 32]
           inked == {k \in 1 .. Len(ans) : ans[k] # SPACE}
<1>1. n \in Nat \ {0} /\ v \in Nat /\ size \in Nat /\ skip \in Nat /\ skip + n <= size
  <2>1. n \in Nat \ {0} /\ v \in Nat
    OBVIOUS
  <2> HIDE DEF n, v
  <2> QED BY <2>1
<1>2. Max({n, w, -w}) = size
  <2>1. {n, w, -w} \in SUBSET Int /\ size \in {n, w, -w} /\ \A x \in {n, w, -w} : x <= size
    BY <1>1
  <2> HIDE DEF size
  <2> QED BY <2>1, MaxIs
<1>3. ans = P
  BY <1>2 DEF Padded
<1> HIDE DEF n, v, size, skip
<1>4. Len(ans) = size /\ \A k \in 1 .. size : ans[k] = IF k - skip \in 1 .. n THEN s[k - skip] ELSE 32
  BY <1>1, <1>3
<1>5. inked = (skip + 1) .. (skip + n)
  <2>1. ASSUME NEW k \in 1 .. size PROVE ans[k] # SPACE <=> k - skip \in 1 .. n
    BY <1>4 DEF SPACE, n
  <2>2. \A k \in Int : k \in 1 .. size /\ k - skip \in 1 .. n <=> k \in (skip + 1) .. (skip + n)
    BY <1>1
  <2> QED BY <1>1, <1>4, <2>1, <2>2
<1>6. Min(inked) = skip + 1
  <2>1. inked \in SUBSET Int /\ skip + 1 \in inked /\ \A x \in inked : skip + 1 <= x
    BY <1>1, <1>5
  <2> HIDE DEF inked
  <2> QED BY <2>1, MinIs
<1>7. Max(inked) = skip + n
  <2>1. inked \in SUBSET Int /\ skip + n \in inked /\ \A x \in inked : x <= skip + n
    BY <1>1, <1>5
  <2> HIDE DEF inked
  <2> QED BY <2>1, MaxIs
<1>8. Trimmed = SubSeq(ans, skip + 1, skip + n)
  BY <1>6, <1>7 DEF Trimmed
<1> HIDE DEF P, inked
<1>9. \A k \in 1 .. n : ans[skip + k] = s[k]
  <2> TAKE k \in 1 .. n
  <2>1. skip + k \in 1 .. size /\ (skip + k) - skip = k
    BY <1>1
  <2> QED BY <1>4, <2>1
<1>10. \A k \in (skip + 1) .. (skip + n) : ans[k] \in Nat
  <2> TAKE k \in (skip + 1) .. (skip + n)
  <2>1. k - skip \in 1 .. n /\ skip + (k - skip) = k
    BY <1>1
  <2>2. s[k - skip] \in Nat
    BY <2>1 DEF n
  <2> QED BY <1>9, <2>1, <2>2
<1> DEFINE t == SubSeq(ans, skip + 1, skip + n)
<1>11. t \in Seq(Nat) /\ Len(t) = n /\ \A k \in 1 .. n : t[k] = s[k]
  <2>1. skip + 1 \in Int /\ skip + n \in Int /\ skip + 1 <= skip + n /\ (skip + n) - (skip + 1) + 1 = n
    BY <1>1
  <2>2. /\ t \in Seq(Nat)
        /\ Len(t) = IF skip + 1 <= skip + n THEN (skip + n) - (skip + 1) + 1 ELSE 0
        /\ \A k \in 1 .. ((skip + n) - (skip + 1) + 1) : t[k] = ans[(skip + 1) + k - 1]
    BY <1>10, <2>1, SubSeqProperties
  <2> HIDE DEF t
  <2>3. ASSUME NEW k \in 1 .. n PROVE t[k] = s[k]
    <3>1. (skip + 1) + k - 1 = skip + k
      BY <1>1
    <3> QED BY <1>9, <2>1, <2>2, <3>1
  <2> QED BY <2>1, <2>2, <2>3
<1> HIDE DEF t
<1>12. t = s
  BY <1>11, SeqEqual DEF n
<1> QED BY <1>8, <1>12 DEF t

\* to_int reads the digits of a number that is an int with the character of a
\* digit added, and of no other.
LEMMA IntDigitsRead ==
  ASSUME NEW n \in Nat
  PROVE  to_int(Digits(n)) = IF n + ZERO <= INT_MAX THEN {n} ELSE {}
<1> DEFINE s == Digits(n)
           D == DigitsOf(n)
           P(w) == [k \in 0 .. Len(s) |-> IF k = 0 THEN 0 ELSE w[k - 1] * 10 + s[k] - ZERO]
           f == CHOOSE w : w = P(w)
           g == [k \in 0 .. Len(s) |-> FirstDigits(n, k)]
           Defined(k) == f[k - 1] * 10 \in int /\ f[k - 1] * 10 + s[k] \in int /\ f[k] \in int
<1>1. D \in Nat \ {0} /\ Len(s) = D
  BY DigitsType
<1>2. to_int(s) = IF \A k \in 1 .. Len(s) : Defined(k) THEN {f[Len(s)]} ELSE {}
  BY DEF to_int
<1>3. /\ FirstDigits(n, 0) = 0 /\ FirstDigits(n, D) = n
      /\ \A k \in 0 .. D : FirstDigits(n, k) \in Nat /\ FirstDigits(n, k) <= n
      /\ \A k \in 0 .. (D - 1) : /\ s[k + 1] \in Nat /\ is_number(s[k + 1])
                                 /\ FirstDigits(n, k + 1) = FirstDigits(n, k) * 10 + (s[k + 1] - ZERO)
  <2> HIDE DEF FirstDigits, is_number
  <2> QED BY FirstDigitsIs
<1> HIDE DEF s, D
<1>4. ASSUME NEW k \in 0 .. (D - 1)
      PROVE  /\ FirstDigits(n, k) * 10 + s[k + 1] - ZERO = FirstDigits(n, k + 1)
             /\ n + ZERO <= INT_MAX =>
                  /\ FirstDigits(n, k) * 10 \in int /\ FirstDigits(n, k) * 10 + s[k + 1] \in int
                  /\ FirstDigits(n, k + 1) \in int
             /\ k = D - 1 => FirstDigits(n, k) * 10 + s[k + 1] = n + ZERO
  <2> DEFINE x == FirstDigits(n, k)
             y == FirstDigits(n, k + 1)
             c == s[k + 1]
             z == x * 10
  <2>1. k \in 0 .. D /\ k + 1 \in 0 .. D
    BY <1>1
  <2>2. x \in Nat /\ y \in Nat /\ y <= n /\ c \in Nat /\ ZERO <= c
    BY <1>3, <2>1 DEF is_number
  <2>3. y = z + (c - ZERO)
    BY <1>3
  <2> HIDE DEF x, y, c
  <2>4. z \in Nat
    BY <2>2
  <2> HIDE DEF z
  <2>5. z + c - ZERO = y
    BY <2>2, <2>3, <2>4 DEF ZERO
  <2>6. n + ZERO <= INT_MAX => z \in int /\ z + c \in int /\ y \in int
    BY <2>2, <2>3, <2>4, IntMaxAssumption DEF int, INT_MIN, ZERO
  <2>7. k = D - 1 => z + c = n + ZERO
    <3>1. k = D - 1 => y = n
      <4> SUFFICES ASSUME k = D - 1 PROVE y = n
        OBVIOUS
      <4>1. k + 1 = D
        BY <1>1
      <4> QED BY <1>3, <4>1 DEF y
    <3> QED BY <2>2, <2>3, <2>4, <3>1 DEF ZERO
  <2> QED BY <2>5, <2>6, <2>7 DEF x, y, c, z
<1>5. g = P(g)
  <2>1. ASSUME NEW k \in 0 .. Len(s) PROVE g[k] = P(g)[k]
    <3>1. CASE k = 0
      BY <1>3, <3>1
    <3>2. CASE k # 0
      <4>1. k - 1 \in 0 .. (D - 1) /\ k - 1 \in 0 .. Len(s) /\ (k - 1) + 1 = k
        BY <1>1, <3>2
      <4>2. g[k - 1] = FirstDigits(n, k - 1) /\ g[k] = FirstDigits(n, k)
        BY <4>1
      <4>3. g[k - 1] * 10 + s[k] - ZERO = FirstDigits(n, k)
        <5> HIDE DEF g
        <5>1. FirstDigits(n, k - 1) * 10 + s[(k - 1) + 1] - ZERO = FirstDigits(n, (k - 1) + 1)
          BY <1>4, <4>1
        <5> QED BY <4>1, <4>2, <5>1, Zenon
      <4>4. P(g)[k] = g[k - 1] * 10 + s[k] - ZERO
        <5> HIDE DEF g
        <5> QED BY <3>2
      <4> HIDE DEF g, P
      <4> QED BY <4>2, <4>3, <4>4
    <3> QED BY <3>1, <3>2
  <2>2. P(g) = [k \in 0 .. Len(s) |-> P(g)[k]] /\ g = [k \in 0 .. Len(s) |-> g[k]]
    OBVIOUS
  <2> HIDE DEF g, P
  <2> QED BY <2>1, <2>2
<1>6. f = P(f)
  <2> HIDE DEF P, g
  <2> QED BY <1>5
<1> HIDE DEF f, g
<1>7. f[0] = 0 /\ \A k \in 0 .. (D - 1) : f[k + 1] = f[k] * 10 + s[k + 1] - ZERO
  <2>1. P(f)[0] = 0
    BY <1>1
  <2>2. ASSUME NEW k \in 0 .. (D - 1) PROVE P(f)[k + 1] = f[k] * 10 + s[k + 1] - ZERO
    <3>1. k + 1 \in 0 .. Len(s) /\ k + 1 # 0 /\ (k + 1) - 1 = k
      BY <1>1
    <3> QED BY <3>1
  <2> HIDE DEF P
  <2> QED BY <1>6, <2>1, <2>2
<1> DEFINE R == {k \in Nat : k <= D => f[k] = FirstDigits(n, k)}
<1>8. R = Nat
  <2>1. 0 \in R
    BY <1>3, <1>7
  <2>2. ASSUME NEW k \in R PROVE k + 1 \in R
    <3> SUFFICES ASSUME k + 1 <= D PROVE f[k + 1] = FirstDigits(n, k + 1)
      OBVIOUS
    <3>1. k \in 0 .. (D - 1) /\ k <= D
      BY <1>1
    <3>2. f[k] = FirstDigits(n, k)
      BY <3>1
    <3>3. f[k + 1] = f[k] * 10 + s[k + 1] - ZERO
      BY <1>7, <3>1
    <3>4. FirstDigits(n, k) * 10 + s[k + 1] - ZERO = FirstDigits(n, k + 1)
      BY <1>4, <3>1
    <3> QED BY <3>2, <3>3, <3>4, Zenon
  <2>3. R \in SUBSET Nat
    OBVIOUS
  <2> HIDE DEF R
  <2> QED BY <2>1, <2>2, <2>3, SetInduction
<1>9. \A k \in 0 .. D : f[k] = FirstDigits(n, k)
  <2> TAKE k \in 0 .. D
  <2>1. k \in R /\ k <= D
    BY <1>1, <1>8
  <2> QED BY <2>1
<1>10. ASSUME n + ZERO <= INT_MAX, NEW k \in 1 .. Len(s) PROVE Defined(k)
  <2> DEFINE j == k - 1
  <2>1. j \in 0 .. (D - 1) /\ j \in 0 .. D /\ j + 1 = k /\ k \in 0 .. D
    BY <1>1
  <2>2. f[j] = FirstDigits(n, j) /\ f[k] = FirstDigits(n, k)
    BY <1>9, <2>1
  <2> HIDE DEF j
  <2>3. /\ FirstDigits(n, j) * 10 \in int /\ FirstDigits(n, j) * 10 + s[j + 1] \in int
        /\ FirstDigits(n, j + 1) \in int
    BY <1>4, <1>10, <2>1
  <2>4. f[j] * 10 \in int /\ f[j] * 10 + s[k] \in int /\ f[k] \in int
    BY <2>1, <2>2, <2>3, Zenon
  <2> QED BY <2>4, Zenon DEF j
<1>11. f[Len(s)] = n
  <2>1. D \in 0 .. D
    BY <1>1
  <2> QED BY <1>1, <1>3, <1>9, <2>1
<1>12. ASSUME ~ (n + ZERO <= INT_MAX) PROVE Len(s) \in 1 .. Len(s) /\ ~ Defined(Len(s))
  <2>1. D - 1 \in 0 .. (D - 1) /\ D - 1 \in 0 .. D /\ (D - 1) + 1 = D /\ D \in 1 .. D
    BY <1>1
  <2>2. f[D - 1] = FirstDigits(n, D - 1)
    BY <1>9, <2>1
  <2>3. FirstDigits(n, D - 1) * 10 + s[(D - 1) + 1] = n + ZERO
    BY <1>4, <2>1
  <2>4. f[D - 1] * 10 + s[D] = n + ZERO
    BY <2>1, <2>2, <2>3, Zenon
  <2>5. n + ZERO \notin int
    BY <1>12, IntMaxAssumption DEF int, ZERO
  <2>6. ~ (f[D - 1] * 10 + s[D] \in int)
    BY <2>4, <2>5, Zenon
  <2> QED BY <1>1, <2>1, <2>6, Zenon
<1> HIDE DEF Defined
<1>13. to_int(s) = IF n + ZERO <= INT_MAX THEN {n} ELSE {}
  <2>1. CASE n + ZERO <= INT_MAX
    BY <1>2, <1>10, <1>11, <2>1
  <2>2. CASE ~ (n + ZERO <= INT_MAX)
    BY <1>2, <1>12, <2>2
  <2> QED BY <2>1, <2>2
<1> QED BY <1>13 DEF s

\* The placeholder of a single argument.
OneHolder ==
  /\ HasParts /\ Len(args) = 1 /\ Len(fmt.parts) = 1
  /\ fmt.parts[1].kind = "placeholder" /\ fmt.parts[1].number \in {Automatic, 0}

\* It has been answered, or nothing has, or the argument has no answer.
OneInv ==
  OneHolder =>
    \/ pc = "undefined"
    \/ Rest = fmt.parts /\ Counted = 0 /\ AnswerSoFar = <<>>
    \/ Rest = <<>> /\ AnswerSoFar \in to_string_index(0, fmt.parts[1].width)

LEMMA OneFacts ==
  ASSUME ParserTypes, OneHolder
  PROVE  /\ CallMade /\ args # <<>> /\ args[1] \in Arguments /\ fmt.parts[1].width \in Int
         /\ Head(fmt.parts) = fmt.parts[1] /\ Tail(fmt.parts) = <<>> /\ fmt.parts # <<>>
         /\ to_string_index(0, fmt.parts[1].width) =
              {Padded(str, fmt.parts[1].width) : str \in to_string(args[1])}
<1>1. CallMade /\ fmt.parts # NoParts
  BY DEF ParserTypes, OneHolder, HasParts
<1>2. args \in Seq(Arguments) /\ Len(args) = 1
  BY <1>1, CallTypes DEF OneHolder
<1>3. args[1] \in Arguments /\ args # <<>>
  BY <1>2
<1>4. fmt.parts \in Seq(FormatPart) /\ Len(fmt.parts) = 1 /\ fmt.parts[1].kind = "placeholder"
  BY <1>1, PartsType DEF OneHolder
<1>5. Head(fmt.parts) = fmt.parts[1] /\ Tail(fmt.parts) = <<>> /\ fmt.parts # <<>> /\ fmt.parts[1] \in FormatPart
  <2> DEFINE q == fmt.parts
  <2>1. q \in Seq(FormatPart) /\ Len(q) = 1
    BY <1>4
  <2> HIDE DEF q
  <2>2. Head(q) = q[1] /\ q # <<>> /\ q[1] \in FormatPart
    BY <2>1
  <2>3. Tail(q) = <<>>
    <3>1. Tail(q) \in Seq(FormatPart) /\ Len(Tail(q)) = 0
      BY <2>1, <2>2, HeadTailProperties
    <3> QED BY <3>1, EmptySeq
  <2> QED BY <2>2, <2>3 DEF q
<1>6. fmt.parts[1].width \in Int
  BY <1>4, <1>5, PartKinds DEF IsPlaceholder
<1> DEFINE w == fmt.parts[1].width
           T == to_string(args[1])
<1>7. to_string_index(0, w) = {Padded(str, w) : str \in T}
  <2>1. ~ (0 >= Len(args)) /\ 0 + 1 = 1
    BY <1>2
  <2>2. to_string_index(0, w) = {Aligned(str, w) : str \in T}
    BY <2>1 DEF to_string_index
  <2>3. w \in Int
    BY <1>6
  <2>4. \A str \in T : str \in Seq(Nat)
    BY <1>3, StringType
  <2> HIDE DEF T, w
  <2>5. \A str \in T : Aligned(str, w) = Padded(str, w)
    BY <2>3, <2>4, PaddedIs
  <2> QED BY <2>2, <2>5
<1> QED BY <1>1, <1>3, <1>5, <1>6, <1>7

LEMMA OneInit ==
  ASSUME Init PROVE OneInv
<1> SUFFICES ASSUME OneHolder PROVE Rest = fmt.parts /\ Counted = 0 /\ AnswerSoFar = <<>>
  BY DEF OneInv
<1>1. ParserTypes
  BY ParserTypesInit
<1>2. CallMade /\ fmt.parts # NoParts /\ args # <<>>
  BY <1>1, OneFacts DEF OneHolder, HasParts
<1>3. /\ i = 0 /\ prev_holder = 0 /\ ans = <<>> /\ auto_index = -1 /\ pc = "text"
  BY <1>2 DEF Init
<1>4. Rest = fmt.parts
  BY <1>2, <1>3, RestFirst
<1>5. Counted = 0
  BY <1>3 DEF Counted
<1>6. AnswerSoFar = <<>>
  <2> SUFFICES <<>> \o SubSeq(view, 0 + 1, 0) = <<>>
    BY <1>3 DEF AnswerSoFar, Text
  <2>1. SubSeq(view, 0 + 1, 0) = <<>>
    BY SubSeqEmpty
  <2> QED BY <2>1
<1> QED BY <1>4, <1>5, <1>6

LEMMA OneNext ==
  ASSUME ParserTypes, ans \in Seq(Nat), PartsInv, OneInv, Next \/ UNCHANGED vars
  PROVE  OneInv'
<1>1. fmt' = fmt /\ args' = args
  BY PartsStay
<1>2. (OneHolder' <=> OneHolder) /\ \A n, w : to_string_index(n, w)' = to_string_index(n, w)
  BY <1>1 DEF OneHolder, HasParts, to_string_index
<1> SUFFICES ASSUME OneHolder
             PROVE  \/ pc' = "undefined"
                    \/ Rest' = fmt.parts /\ Counted' = 0 /\ AnswerSoFar' = <<>>
                    \/ Rest' = <<>> /\ AnswerSoFar' \in to_string_index(0, fmt.parts[1].width)
  <2>1. to_string_index(0, fmt.parts[1].width)' = to_string_index(0, fmt.parts[1].width)
    BY <1>1 DEF to_string_index
  <2> QED BY <1>1, <1>2, <2>1 DEF OneInv
<1> DEFINE p == fmt.parts[1]
<1>3. /\ HasParts /\ args # <<>> /\ Head(fmt.parts) = p /\ Tail(fmt.parts) = <<>>
  BY OneFacts DEF OneHolder
<1>4. CASE UNCHANGED vars
  <2>1. pc' = pc /\ Rest' = Rest /\ Counted' = Counted /\ AnswerSoFar' = AnswerSoFar
    BY <1>4 DEF vars, Rest, Read, Counted, AnswerSoFar, Text, view
  <2> QED BY <2>1 DEF OneInv
<1>5. CASE Next
  <2>1. pc # "undefined" /\ Next
    BY <1>5, Ended
  <2>2. UNCHANGED vars \/ Unseen \/ Answers \/ Returns \/ Fails
    BY <1>3, <2>1, PartsNext
  <2>3. CASE Answers
    <3>1. Rest = fmt.parts /\ Counted = 0 /\ AnswerSoFar = <<>>
      BY <2>1, <2>3 DEF OneInv, Answers
    <3>2. PICK t \in AnswersTo(p, 0) : AnswerSoFar' = <<>> \o t
      BY <1>3, <2>3, <3>1 DEF Answers
    <3>3. AnswersTo(p, 0) = to_string_index(0, p.width)
      BY DEF AnswersTo, OneHolder
    <3>4. t \in Seq(Nat)
      <4>1. PICK str \in to_string(args[1]) : t = Padded(str, p.width)
        BY <3>2, <3>3, OneFacts
      <4>2. str \in Seq(Nat) /\ p.width \in Int
        BY <4>1, OneFacts, StringType
      <4> QED BY <4>1, <4>2, PaddedType
    <3>5. AnswerSoFar' = t
      BY <3>2, <3>4, ConcatEmptySeq
    <3>6. Rest' = <<>>
      BY <1>3, <2>3, <3>1 DEF Answers
    <3> QED BY <3>2, <3>3, <3>5, <3>6
  <2>4. CASE Returns
    BY <1>3, <2>1, <2>4, OneFacts DEF Returns, OneInv
  <2>5. CASE Unseen
    BY <2>1, <2>5 DEF Unseen, OneInv
  <2> QED BY <1>4, <2>2, <2>3, <2>4, <2>5 DEF Fails
<1> QED BY <1>4, <1>5

\* What is returned is what the argument is written as, filled up.
LEMMA OneAnswer ==
  ASSUME ParserTypes, OneInv, Alone,
         \A str \in to_string(args[1]) : /\ str \in Seq(Nat) /\ str # <<>>
                                         /\ \A k \in 1 .. Len(str) : str[k] # SPACE
  PROVE  Trimmed \in to_string(args[1])
<1> DEFINE w == fmt.parts[1].width
<1>1. OneHolder /\ pc = "return"
  BY DEF Alone, OneHolder, HasParts
<1>2. /\ w \in Int /\ fmt.parts # <<>>
      /\ to_string_index(0, w) = {Padded(str, w) : str \in to_string(args[1])}
  BY <1>1, OneFacts
<1>3. Rest = <<>> /\ AnswerSoFar = ans
  BY <1>1 DEF Rest, AnswerSoFar
<1>4. ans \in to_string_index(0, w)
  BY <1>1, <1>2, <1>3 DEF OneInv
<1>5. PICK str \in to_string(args[1]) : ans = Padded(str, w)
  BY <1>2, <1>4
<1>6. Trimmed = str
  <2> HIDE DEF w
  <2> QED BY <1>2, <1>5, TrimmedIs
<1> QED BY <1>6

\* A call keeps all this.
NumbersInv == ParserTypes /\ PlainInv /\ PartsInv /\ OneInv

LEMMA NumbersInvHolds == FairSpec => []NumbersInv
<1>1. Init => NumbersInv
  BY ParserTypesInit, PlainInit, PartsInit, OneInit DEF NumbersInv
<1>2. NumbersInv /\ [Next]_vars => NumbersInv'
  <2> SUFFICES ASSUME NumbersInv, [Next]_vars PROVE NumbersInv'
    OBVIOUS
  <2>1. ParserTypes /\ PlainInv /\ PartsInv /\ OneInv /\ ans \in Seq(Nat)
    BY DEF NumbersInv, PlainInv
  <2>2. ParserTypes' /\ PlainInv'
    BY <2>1, ParserTypesNext, PlainNext
  <2>3. PartsInv' /\ OneInv'
    BY <2>1, PartsNext, OneNext
  <2> QED BY <2>2, <2>3 DEF NumbersInv
<1> QED BY <1>1, <1>2, PTL DEF FairSpec

\* IntReadsBack: what is written for a natural number, filled up or not, to_uint and
\* to_int read back; to_int is undefined exactly if the character of a digit
\* cannot be added to the number (osv.cpp:139).
THEOREM NumbersReadBack == FairSpec => []IntReadsBack
<1>1. ASSUME NumbersInv PROVE IntReadsBack
  <2> DEFINE n == args[1].int
  <2> SUFFICES ASSUME Alone, "int" \in DOMAIN args[1], n >= 0
               PROVE  /\ to_int(Trimmed) = IF n + ZERO <= INT_MAX THEN {n} ELSE {}
                      /\ to_uint(Trimmed) = n
    BY DEF IntReadsBack
  <2>1. ParserTypes /\ OneInv /\ OneHolder
    BY <1>1 DEF NumbersInv, Alone, OneHolder, HasParts
  <2>2. args[1] \in Arguments
    BY <2>1, OneFacts
  <2>3. n \in int /\ to_string(args[1]) = from_int(n)
    BY <2>2, ArgumentKinds
  <2>4. n \in Nat /\ n <= INT_MAX /\ n # INT_MIN /\ n \in size_t
    BY <2>3, IntMaxAssumption, SizeMaxAssumption DEF int, INT_MIN, size_t
  <2> HIDE DEF n
  <2>5. to_string(args[1]) = {Digits(n)}
    BY <2>3, <2>4, FromIntIs, DecimalIs DEF Numeral
  <2>6. /\ Digits(n) \in Seq(Nat) /\ Digits(n) # <<>>
        /\ \A k \in 1 .. Len(Digits(n)) : Digits(n)[k] # SPACE
    <3> DEFINE s == Digits(n)
    <3>1. /\ s \in Seq(Nat) /\ Len(s) = DigitsOf(n) /\ DigitsOf(n) \in Nat \ {0}
          /\ \A k \in 1 .. DigitsOf(n) : is_number(s[k]) /\ s[k] \in Nat
      BY <2>4, DigitsType
    <3> HIDE DEF s
    <3>2. s # <<>>
      BY <3>1
    <3>3. \A k \in 1 .. Len(s) : s[k] # SPACE
      BY <3>1 DEF is_number, ZERO, SPACE
    <3> QED BY <3>1, <3>2, <3>3 DEF s
  <2>7. Trimmed = Digits(n)
    BY <2>1, <2>5, <2>6, OneAnswer
  <2> QED BY <2>4, <2>7, DigitsRead, IntDigitsRead
<1> QED BY <1>1, NumbersInvHolds, PTL

-----------------------------------------------------------------------------
(* Floats that are read back.                                              *)

\* The hundredths of a fraction with these digits behind its point.
Hundredths(digits) ==
  10 * (IF Len(digits) >= 1 THEN digits[1] - ZERO ELSE 0) + (IF Len(digits) >= 2 THEN digits[2] - ZERO ELSE 0)

\* The first two digits are near enough to the fraction.
LEMMA HundredthsNear ==
  ASSUME NEW f \in Rests
  PROVE  LET u     == Two[f.exponent]
             error == 100 * f.mantissa - Hundredths(fraction_digits(f)) * u
         IN  -u <= 10 * error /\ error < 2 * u
<1> DEFINE u == Two[f.exponent]
           m == f.mantissa
           r == rests(f)
           ds == fraction_digits(f)
<1>1. m \in Nat /\ u \in Nat \ {0} /\ m < u
  BY TwoPowers DEF Rests, Floats
<1>2. /\ r[0] = f /\ r[0] \in Rests /\ r[1] \in Rests
      /\ r[1] = after_digit[r[0]] /\ r[2] = after_digit[r[1]] /\ r[2] \in Rests
  <2>1. 0 + 1 = 1 /\ 1 + 1 = 2
    OBVIOUS
  <2> QED BY <2>1, RestsIterate
<1>3. PICK size \in Nat :
        /\ ds = [k \in 1 .. size |-> digit(r, k) + ZERO]
        /\ 100 * r[size].mantissa <= Two[r[size].exponent]
        /\ \A k \in 1 .. size : digit(r, k) \in 0 .. 9
  BY FractionIs
<1> DEFINE d1 == digit(r, 1)
           d2 == digit(r, 2)
           m1 == r[1].mantissa
           m2 == r[2].mantissa
           v1 == Two[r[1].exponent]
           v2 == Two[r[2].exponent]
<1>4. /\ m1 \in Nat /\ v1 \in Nat \ {0} /\ m1 < v1
      /\ m2 \in Nat /\ v2 \in Nat \ {0} /\ m2 < v2
  BY <1>2, TwoPowers DEF Rests, Floats
<1>5. PICK q1 \in Nat \ {0}, e1 \in Int :
        u = q1 * v1 /\ 10 * m = (d1 * u + q1 * m1) - e1 /\ 1024 * e1 <= 5 * u /\ -(5 * u) <= 1024 * e1
  <2>1. d1 = Integral(times_ten[f]) /\ r[1] = after_digit[f]
    BY <1>2 DEF digit
  <2> DEFINE h == after_digit[f]
             d == Integral(times_ten[f])
  <2>2. PICK q \in Nat \ {0}, e \in Int :
          u = q * Two[h.exponent] /\ 10 * m = (d * u + q * h.mantissa) - e
          /\ 1024 * e <= 5 * u /\ -(5 * u) <= 1024 * e
    BY DigitNear
  <2>3. h = r[1] /\ d = d1
    BY <2>1
  <2> HIDE DEF d, h, d1, r, u, m
  <2>4. u = q * v1 /\ 10 * m = (d1 * u + q * m1) - e
    BY <2>2, <2>3, Zenon
  <2> QED BY <2>2, <2>4
<1>6. PICK q2 \in Nat \ {0}, e2 \in Int :
        v1 = q2 * v2 /\ 10 * m1 = (d2 * v1 + q2 * m2) - e2 /\ 1024 * e2 <= 5 * v1 /\ -(5 * v1) <= 1024 * e2
  <2>1. d2 = Integral(times_ten[r[1]]) /\ r[2] = after_digit[r[1]] /\ r[1] \in Rests
    BY <1>2 DEF digit
  <2> DEFINE g == r[1]
             h == after_digit[g]
             d == Integral(times_ten[g])
             v == Two[g.exponent]
  <2>2. PICK q \in Nat \ {0}, e \in Int :
          v = q * Two[h.exponent] /\ 10 * g.mantissa = (d * v + q * h.mantissa) - e
          /\ 1024 * e <= 5 * v /\ -(5 * v) <= 1024 * e
    <3>1. g \in Rests
      BY <2>1
    <3> HIDE DEF g
    <3> QED BY <3>1, DigitNear
  <2>3. h = r[2] /\ d = d2 /\ g = r[1]
    BY <2>1
  <2>4. v = v1
    OBVIOUS
  <2> HIDE DEF d, h, g, d2, r, v, v1
  <2>5. v1 = q * v2 /\ 10 * m1 = (d2 * v1 + q * m2) - e
    BY <2>2, <2>3, <2>4, Zenon
  <2> QED BY <2>2, <2>4, <2>5
<1>7. d1 \in 0 .. 9 /\ d2 \in 0 .. 9
  <2>1. d1 = Integral(times_ten[r[0]]) /\ d2 = Integral(times_ten[r[1]])
    BY DEF digit
  <2> HIDE DEF d1, d2, r
  <2> QED BY <1>2, <2>1, DigitNear
<1>8. Len(ds) = size /\ (size >= 1 => ds[1] - ZERO = d1) /\ (size >= 2 => ds[2] - ZERO = d2)
  <2> HIDE DEF d1, d2
  <2>1. size >= 1 => ds[1] = d1 + ZERO
    BY <1>3 DEF d1
  <2>2. size >= 2 => ds[2] = d2 + ZERO
    BY <1>3 DEF d2
  <2>3. Len(ds) = size
    BY <1>3
  <2> QED BY <1>7, <2>1, <2>2, <2>3 DEF ZERO
<1> DEFINE H == Hundredths(ds)
<1>9. /\ size = 0 => H = 0
      /\ size = 1 => H = 10 * d1
      /\ size >= 2 => H = 10 * d1 + d2
  <2> HIDE DEF d1, d2, ds
  <2> QED BY <1>3, <1>7, <1>8 DEF Hundredths
<1>10. size = 0 => 100 * m <= u
  BY <1>2, <1>3
<1>11. size = 1 => 100 * m1 <= v1
  BY <1>2, <1>3
<1> HIDE DEF u, m, r, ds, d1, d2, m1, m2, v1, v2, H
<1> DEFINE a1 == q1 * m1
<1>12. a1 \in Nat /\ a1 < u
  <2>1. \A x \in Nat, y \in Nat : x < y => q1 * x < q1 * y /\ q1 * x \in Nat
    BY Z3
  <2> QED BY <1>4, <1>5, <2>1
<1> DEFINE p1 == d1 * u
           p2 == d2 * u
           b2 == q1 * (q2 * m2)
           c2 == q1 * e2
<1>13. p1 \in Nat /\ p2 \in Nat
  BY <1>1, <1>7, Z3
<1>14. 10 * m = (p1 + a1) - e1
  BY <1>5
<1>15. b2 \in Nat /\ b2 < u
  <2>1. \A x \in Nat, y \in Nat : x < y => q1 * (q2 * x) < q1 * (q2 * y) /\ q1 * (q2 * x) \in Nat
    BY Z3
  <2>2. u = q1 * (q2 * v2)
    BY <1>5, <1>6, Zenon
  <2> QED BY <1>4, <2>1, <2>2
<1>16. c2 \in Int /\ 1024 * c2 <= 5 * u /\ -(5 * u) <= 1024 * c2
  <2>1. \A x \in Int, y \in Nat : 1024 * x <= 5 * y /\ -(5 * y) <= 1024 * x
             => q1 * x \in Int /\ 1024 * (q1 * x) <= 5 * (q1 * y) /\ -(5 * (q1 * y)) <= 1024 * (q1 * x)
    BY Z3
  <2>2. v1 \in Nat
    BY <1>4
  <2>3. c2 \in Int /\ 1024 * c2 <= 5 * (q1 * v1) /\ -(5 * (q1 * v1)) <= 1024 * c2
    BY <1>6, <2>1, <2>2
  <2> QED BY <1>5, <2>3, Zenon
<1>17. 10 * a1 = (p2 + b2) - c2
  <2>1. \A x \in Nat, y \in Nat, z \in Nat : q1 * ((x * y + z) - e2) = (x * (q1 * y) + q1 * z) - q1 * e2
    BY Z3
  <2>2. q2 * m2 \in Nat
    BY <1>4, Z3
  <2>3. q1 * (10 * m1) = q1 * ((d2 * v1 + q2 * m2) - e2)
    BY <1>6, Zenon
  <2>4. q1 * (10 * m1) = (d2 * (q1 * v1) + q1 * (q2 * m2)) - q1 * e2
    BY <1>4, <1>7, <2>1, <2>2, <2>3
  <2>5. \A x \in Nat : q1 * (10 * x) = 10 * (q1 * x)
    BY Z3
  <2>6. q1 * (10 * m1) = 10 * a1
    BY <1>4, <2>5
  <2> QED BY <1>5, <2>4, <2>6, Zenon
<1>18. size = 1 => 100 * a1 <= u
  <2>1. \A x \in Nat, y \in Nat : 100 * x <= y => 100 * (q1 * x) <= q1 * y
    BY Z3
  <2> QED BY <1>4, <1>5, <1>11, <2>1
<1> DEFINE error == 100 * m - H * u
<1>19. CASE size = 0
  <2>1. H * u = 0
    <3>1. H = 0
      BY <1>9, <1>19
    <3> QED BY <1>1, <3>1
  <2>2. error = 100 * m
    BY <1>1, <2>1
  <2> HIDE DEF error
  <2> QED BY <1>1, <1>10, <1>19, <2>2 DEF u, m, H, ds, error
<1>20. CASE size = 1
  <2>1. H * u = 10 * p1
    <3>1. (10 * d1) * u = 10 * p1
      BY <1>1, <1>7, Z3
    <3> QED BY <1>9, <1>20, <3>1, Zenon
  <2> DEFINE w == H * u
  <2>2. w = 10 * p1 /\ error = 100 * m - w
    BY <2>1
  <2> HIDE DEF error, w, a1, p1
  <2>3. -u <= 10 * error /\ error < 2 * u
    BY <1>1, <1>5, <1>12, <1>13, <1>14, <1>18, <1>20, <2>2
  <2> QED BY <2>3 DEF u, m, H, ds, error
<1>21. CASE size >= 2
  <2>1. H * u = 10 * p1 + p2
    <3>1. (10 * d1 + d2) * u = 10 * p1 + p2
      BY <1>1, <1>7, Z3
    <3> QED BY <1>9, <1>21, <3>1, Zenon
  <2> DEFINE w == H * u
  <2>2. w = 10 * p1 + p2 /\ error = 100 * m - w
    BY <2>1
  <2> HIDE DEF error, w, a1, p1, p2, b2, c2
  <2>3. -u <= 10 * error /\ error < 2 * u
    BY <1>1, <1>5, <1>12, <1>13, <1>14, <1>15, <1>16, <1>17, <2>2
  <2> QED BY <2>3 DEF u, m, H, ds, error
<1> QED BY <1>3, <1>19, <1>20, <1>21

\* Two sequences with a point between them, which tells them apart.
PointBetween(s, str, d) ==
  /\ str \in Seq(Nat) /\ Len(str) = Len(s) + 1 + Len(d)
  /\ \A k \in 1 .. Len(s) : str[k] = s[k]
  /\ str[Len(s) + 1] = POINT
  /\ \A k \in 1 .. Len(d) : str[Len(s) + 1 + k] = d[k]
  /\ Min({k \in 1 .. Len(str) : str[k] = POINT}) = Len(s) + 1
  /\ SubSeq(str, 1, (Len(s) + 1) - 1) = s
  /\ SubSeq(str, Len(s) + 1 + 1, Len(str)) = d

LEMMA PointParts ==
  ASSUME NEW s \in Seq(Nat), NEW d \in Seq(Nat), \A k \in 1 .. Len(s) : s[k] # POINT,
         NEW str, str = s \o <<POINT>> \o d
  PROVE  PointBetween(s, str, d)
<1> DEFINE n == Len(s)
           m == Len(d)
           N == Len(str)
           points == {k \in 1 .. N : str[k] = POINT}
<1>1. n \in Nat /\ m \in Nat /\ POINT \in Nat
  BY DEF POINT
<1>2. str \in Seq(Nat) /\ N = n + 1 + m
  BY <1>1
<1>3. (\A k \in 1 .. n : str[k] = s[k]) /\ str[n + 1] = POINT /\ \A k \in 1 .. m : str[n + 1 + k] = d[k]
  OBVIOUS
<1> HIDE DEF n, m, N
<1>4. Min(points) = n + 1
  <2>1. N \in Nat /\ n + 1 \in 1 .. N
    BY <1>1, <1>2
  <2>3. points \subseteq 1 .. N /\ n + 1 \in points
    BY <1>3, <2>1, Zenon
  <2>2. ASSUME NEW x \in points PROVE n + 1 <= x
    <3>0. x \in 1 .. N /\ str[x] = POINT
      BY Zenon
    <3>1. x \in Nat \ {0}
      <4> HIDE DEF points
      <4> QED BY <2>1, <3>0
    <3>2. ~ (x \in 1 .. n)
      BY <1>3, <3>0 DEF n
    <3> HIDE DEF points
    <3> QED BY <1>1, <3>1, <3>2
  <2>4. points \in SUBSET Int
    <3> HIDE DEF points
    <3> QED BY <2>1, <2>3
  <2> HIDE DEF points
  <2> QED BY <2>2, <2>3, <2>4, MinIs
<1>5. SubSeq(str, 1, n) = s
  <2> DEFINE t == SubSeq(str, 1, n)
  <2>1. n <= N /\ N \in Nat
    BY <1>1, <1>2
  <2>2. t \in Seq(Nat) /\ Len(t) = n /\ \A k \in 1 .. n : t[k] = str[k]
    BY <1>1, <1>2, <2>1 DEF N
  <2> HIDE DEF t
  <2>3. \A k \in 1 .. n : t[k] = s[k]
    BY <1>3, <2>2
  <2>4. t = s
    BY <2>2, <2>3, SeqEqual DEF n
  <2> QED BY <2>4 DEF t
<1>6. SubSeq(str, n + 1 + 1, N) = d
  <2> DEFINE t == SubSeq(str, n + 2, N)
  <2>1. N \in Nat /\ n + 2 \in Nat /\ N - (n + 2) + 1 = m /\ n + 1 + 1 = n + 2
    BY <1>1, <1>2
  <2>2. t \in Seq(Nat) /\ Len(t) = m /\ \A k \in 1 .. m : t[k] = str[(n + 2) + k - 1]
    BY <1>1, <1>2, <2>1 DEF N
  <2> HIDE DEF t
  <2>3. ASSUME NEW k \in 1 .. m PROVE t[k] = d[k]
    <3>1. (n + 2) + k - 1 = n + 1 + k
      BY <1>1
    <3> QED BY <1>3, <2>2, <3>1
  <2>4. t = d
    BY <2>2, <2>3, SeqEqual DEF m
  <2> QED BY <2>1, <2>4 DEF t
<1>7. (n + 1) - 1 = n
  BY <1>1
<1> QED BY <1>2, <1>3, <1>4, <1>5, <1>6, <1>7 DEF n, m, N, PointBetween

\* Two digits are read.
LEMMA TwoDigitsRead ==
  ASSUME NEW a \in 0 .. 9, NEW b \in 0 .. 9
  PROVE  to_uint(<<a + ZERO, b + ZERO>>) = 10 * a + b
<1> DEFINE s == <<a + ZERO, b + ZERO>>
           P(w) == [k \in 0 .. 2 |-> IF k = 0 THEN 0 ELSE Wrap(10 * w[k - 1] + to_number(s[k]))]
           f == CHOOSE w : w = P(w)
           c == 10 * a + b
           g == [k \in 0 .. 2 |-> IF k = 0 THEN 0 ELSE IF k = 1 THEN a ELSE c]
<1>1. Len(s) = 2 /\ s[1] = a + ZERO /\ s[2] = b + ZERO /\ \A k \in 1 .. 2 : is_number(s[k])
  BY DEF is_number, ZERO
<1>2. to_number(s[1]) = a /\ to_number(s[2]) = b
  BY <1>1 DEF to_number, is_number, ZERO
<1>3. to_uint(s) = f[2]
  <2>1. {k \in 1 .. Len(s) : ~ is_number(s[k])} \cup {Len(s) + 1} = {3}
    BY <1>1
  <2>2. Min({3}) = 3
    <3>1. {3} \in SUBSET Int /\ 3 \in {3} /\ \A x \in {3} : 3 <= x
      OBVIOUS
    <3> QED BY <3>1, MinIs
  <2>3. 3 - 1 = 2
    OBVIOUS
  <2> HIDE DEF s
  <2> QED BY <2>1, <2>2, <2>3 DEF to_uint
<1> HIDE DEF s
<1>4. Wrap(10 * 0 + a) = a /\ Wrap(10 * a + b) = c
  <2>1. 10 * 0 + a = a /\ a \in size_t /\ c \in size_t
    BY IntMaxAssumption, SizeMaxAssumption DEF size_t
  <2> QED BY <2>1, WrapFits
<1>5. g = P(g)
  <2>1. g[0] = 0 /\ g[1] = a /\ g[2] = c /\ 1 - 1 = 0 /\ 2 - 1 = 1
    OBVIOUS
  <2>2. ASSUME NEW k \in 0 .. 2 PROVE g[k] = IF k = 0 THEN 0 ELSE Wrap(10 * g[k - 1] + to_number(s[k]))
    <3>1. k = 0 \/ k = 1 \/ k = 2
      OBVIOUS
    <3> HIDE DEF g, c
    <3> QED BY <1>2, <1>4, <2>1, <3>1
  <2>3. g = [k \in 0 .. 2 |-> g[k]]
    OBVIOUS
  <2> HIDE DEF g
  <2> QED BY <2>2, <2>3, Zenon
<1>6. f = P(f)
  <2> HIDE DEF P, g
  <2> QED BY <1>5
<1> HIDE DEF f, g, c
<1>7. f[0] = 0 /\ f[1] = Wrap(10 * f[0] + to_number(s[1])) /\ f[2] = Wrap(10 * f[1] + to_number(s[2]))
  <2>1. /\ P(f)[0] = 0 /\ P(f)[1] = Wrap(10 * f[0] + to_number(s[1]))
        /\ P(f)[2] = Wrap(10 * f[1] + to_number(s[2]))
    <3>1. 0 \in 0 .. 2 /\ 1 \in 0 .. 2 /\ 2 \in 0 .. 2 /\ 1 - 1 = 0 /\ 2 - 1 = 1 /\ 1 # 0 /\ 2 # 0
      OBVIOUS
    <3> QED BY <3>1
  <2> HIDE DEF P
  <2> QED BY <1>6, <2>1, Zenon
<1>8. f[2] = c
  BY <1>2, <1>4, <1>7
<1> QED BY <1>3, <1>8 DEF s, c

\* The hundredths are read out of the digits, of which there may be fewer than two.
LEMMA HundredthsRead ==
  ASSUME NEW d \in Seq(Nat), \A k \in 1 .. Len(d) : is_number(d[k])
  PROVE  to_uint(SubSeq(d \o <<ZERO, ZERO>>, 1, 2)) = Hundredths(d)
<1> DEFINE n == Len(d)
           a == IF n >= 1 THEN d[1] - ZERO ELSE 0
           b == IF n >= 2 THEN d[2] - ZERO ELSE 0
           t == d \o <<ZERO, ZERO>>
           r == SubSeq(t, 1, 2)
<1>1. n \in Nat
  OBVIOUS
<1>2. a \in 0 .. 9 /\ b \in 0 .. 9
  BY <1>1 DEF is_number, ZERO
<1>3. t \in Seq(Nat) /\ Len(t) = n + 2 /\ t[1] = a + ZERO /\ t[2] = b + ZERO
  <2>1. t \in Seq(Nat) /\ Len(t) = n + 2
    BY DEF ZERO
  <2>2. \A k \in 1 .. n : t[k] = d[k] /\ d[k] \in Nat
    OBVIOUS
  <2>3. t[n + 1] = ZERO /\ t[n + 2] = ZERO
    OBVIOUS
  <2> HIDE DEF t, n
  <2>4. CASE n = 0
    BY <2>1, <2>3, <2>4 DEF ZERO
  <2>5. CASE n = 1
    BY <2>1, <2>2, <2>3, <2>5 DEF ZERO
  <2>6. CASE n >= 2
    BY <1>1, <2>1, <2>2, <2>6 DEF ZERO
  <2> QED BY <1>1, <2>1, <2>4, <2>5, <2>6
<1> HIDE DEF t
<1>4. r \in Seq(Nat) /\ Len(r) = 2 /\ r[1] = a + ZERO /\ r[2] = b + ZERO
  BY <1>1, <1>3
<1> DEFINE u == <<a + ZERO, b + ZERO>>
<1>5. u \in Seq(Nat) /\ Len(u) = 2 /\ u[1] = a + ZERO /\ u[2] = b + ZERO
  BY <1>2 DEF ZERO
<1>6. r = u
  <2> HIDE DEF r, u, a, b
  <2>1. \A k \in 1 .. 2 : r[k] = u[k]
    <3> TAKE k \in 1 .. 2
    <3>1. k = 1 \/ k = 2
      OBVIOUS
    <3> QED BY <1>4, <1>5, <3>1
  <2> QED BY <1>4, <1>5, <2>1, SeqEqual
<1>7. to_uint(u) = 10 * a + b
  <2> HIDE DEF a, b
  <2> QED BY <1>2, TwoDigitsRead
<1> QED BY <1>6, <1>7 DEF Hundredths, t

\* A float as it is written: the digits of its integral part, a point, and those of
\* its fraction.
LEMMA FloatIs ==
  ASSUME NEW f \in Floats, f.mantissa < Two[FLT_MANT_DIG], NEW str \in from_float_round(f)
  PROVE  /\ Integral(f) \in size_t
         /\ Fraction(f) \in Rests
         /\ str = Digits(Integral(f)) \o <<POINT>> \o fraction_digits(Fraction(f))
<1> DEFINE n == Integral(f)
           h == Fraction(f)
<1>1. n \in Nat /\ h \in Rests
  BY FractionRests
<1>2. n \in int /\ \E s \in from_int(n) : str = s \o <<POINT>> \o fraction_digits(h)
  BY DEF from_float_round
<1> HIDE DEF n, h
<1>3. n # INT_MIN /\ n \in size_t
  BY <1>1, <1>2, IntMaxAssumption, SizeMaxAssumption DEF int, INT_MIN, size_t
<1>4. from_int(n) = {Digits(n)}
  BY <1>1, <1>2, <1>3, FromIntIs, DecimalIs DEF Numeral
<1>5. str = Digits(n) \o <<POINT>> \o fraction_digits(h)
  BY <1>2, <1>4
<1> QED BY <1>1, <1>3, <1>5 DEF n, h

\* No space is in it, its integral part is read back, and the hundredths that are
\* read are those of the digits of its fraction.
LEMMA FloatRead ==
  ASSUME NEW f \in Floats, f.mantissa < Two[FLT_MANT_DIG], NEW str \in from_float_round(f)
  PROVE  /\ str \in Seq(Nat) /\ str # <<>> /\ \A k \in 1 .. Len(str) : str[k] # SPACE
         /\ LET point  == Min({k \in 1 .. Len(str) : str[k] = POINT})
                digits == SubSeq(str, point + 1, Len(str))
            IN  /\ to_uint(SubSeq(str, 1, point - 1)) = Integral(f)
                /\ digits = fraction_digits(Fraction(f))
                /\ \A k \in 1 .. Len(digits) : is_number(digits[k])
                /\ to_uint(SubSeq(digits \o <<ZERO, ZERO>>, 1, 2)) = Hundredths(digits)
<1> DEFINE n == Integral(f)
           h == Fraction(f)
           s == Digits(n)
           d == fraction_digits(h)
<1>1. n \in Nat /\ n \in size_t /\ h \in Rests /\ str = s \o <<POINT>> \o d
  BY FloatIs, FractionRests
<1> HIDE DEF n, h
<1>2. s \in Seq(Nat) /\ \A k \in 1 .. Len(s) : is_number(s[k])
  BY <1>1, DigitsType
<1>3. d \in Seq(Nat) /\ \A k \in 1 .. Len(d) : is_number(d[k])
  <2>1. d \in Seq(Nat)
    BY <1>1, FractionType
  <2>2. PICK size \in Nat :
          /\ d = [k \in 1 .. size |-> digit(rests(h), k) + ZERO]
          /\ \A k \in 1 .. size : digit(rests(h), k) \in 0 .. 9
    BY <1>1, FractionIs
  <2>3. Len(d) = size
    BY <2>2
  <2>4. ASSUME NEW k \in 1 .. size PROVE is_number(d[k])
    <3> DEFINE x == digit(rests(h), k)
    <3>1. d[k] = x + ZERO /\ x \in 0 .. 9
      BY <2>2
    <3> HIDE DEF x, d
    <3> QED BY <3>1 DEF is_number, ZERO
  <2> QED BY <2>1, <2>3, <2>4
<1> HIDE DEF s, d
<1>4. \A k \in 1 .. Len(s) : s[k] # POINT
  BY <1>2 DEF is_number, ZERO, POINT
<1>5. /\ str \in Seq(Nat) /\ Len(str) = Len(s) + 1 + Len(d)
      /\ \A k \in 1 .. Len(s) : str[k] = s[k]
      /\ str[Len(s) + 1] = POINT
      /\ \A k \in 1 .. Len(d) : str[Len(s) + 1 + k] = d[k]
      /\ Min({k \in 1 .. Len(str) : str[k] = POINT}) = Len(s) + 1
      /\ SubSeq(str, 1, (Len(s) + 1) - 1) = s
      /\ SubSeq(str, Len(s) + 1 + 1, Len(str)) = d
  <2>1. PointBetween(s, str, d)
    BY <1>1, <1>2, <1>3, <1>4, PointParts DEF s, d
  <2> QED BY <2>1 DEF PointBetween
<1>6. str # <<>> /\ \A k \in 1 .. Len(str) : str[k] # SPACE
  <2> DEFINE l == Len(s)
             m == Len(d)
             N == Len(str)
  <2>1. l \in Nat /\ m \in Nat /\ N = l + 1 + m
    BY <1>2, <1>3, <1>5
  <2>2. /\ \A k \in 1 .. l : is_number(str[k])
        /\ str[l + 1] = POINT
        /\ \A k \in 1 .. m : is_number(str[l + 1 + k])
    BY <1>2, <1>3, <1>5
  <2>3. str # <<>>
    BY <1>5, <2>1
  <2> HIDE DEF l, m, N
  <2>4. ASSUME NEW k \in 1 .. N PROVE str[k] # SPACE
    <3>1. CASE k <= l
      <4>1. k \in 1 .. l
        BY <2>1, <3>1
      <4> QED BY <2>2, <4>1 DEF is_number, ZERO, SPACE
    <3>2. CASE k = l + 1
      BY <2>2, <3>2 DEF POINT, SPACE
    <3>3. CASE k > l + 1
      <4>1. k - (l + 1) \in 1 .. m /\ l + 1 + (k - (l + 1)) = k
        BY <2>1, <3>3
      <4>2. is_number(str[k])
        BY <2>2, <4>1
      <4> QED BY <4>2 DEF is_number, ZERO, SPACE
    <3> QED BY <2>1, <3>1, <3>2, <3>3
  <2> QED BY <2>3, <2>4 DEF N
<1>7. to_uint(s) = n
  BY <1>1, DigitsRead DEF s
<1>8. to_uint(SubSeq(d \o <<ZERO, ZERO>>, 1, 2)) = Hundredths(d)
  BY <1>3, HundredthsRead
<1> DEFINE point  == Min({k \in 1 .. Len(str) : str[k] = POINT})
           digits == SubSeq(str, point + 1, Len(str))
<1>9. point = Len(s) + 1 /\ digits = d /\ SubSeq(str, 1, point - 1) = s
  <2>1. point = Len(s) + 1
    BY <1>5
  <2> HIDE DEF point
  <2> QED BY <1>5, <2>1
<1> HIDE DEF point, digits
<1>10. /\ to_uint(SubSeq(str, 1, point - 1)) = n
       /\ digits = d
       /\ \A k \in 1 .. Len(digits) : is_number(digits[k])
       /\ to_uint(SubSeq(digits \o <<ZERO, ZERO>>, 1, 2)) = Hundredths(digits)
  BY <1>3, <1>7, <1>8, <1>9
<1> QED BY <1>5, <1>6, <1>10 DEF point, digits, n, d, h

\* FloatReadsBack: what is written for a float, filled up or not, has its integral part,
\* which to_uint reads, a point, and digits whose first two stand for hundredths that are
\* less than two below the float, and at most a tenth of one above (helpers.h:294-320).
THEOREM FloatsReadBack == FairSpec => []FloatReadsBack
<1>1. ASSUME NumbersInv PROVE FloatReadsBack
  <2> DEFINE f == args[1]
             unit == Two[f.exponent]
             error(digits) == 100 * Fraction(f).mantissa - to_uint(SubSeq(digits \o <<ZERO, ZERO>>, 1, 2)) * unit
             Right(str) ==
               LET point  == Min({k \in 1 .. Len(str) : str[k] = POINT})
                   digits == SubSeq(str, point + 1, Len(str))
               IN  /\ to_uint(SubSeq(str, 1, point - 1)) = Integral(f)
                   /\ \A k \in 1 .. Len(digits) : is_number(digits[k])
                   /\ -unit <= 10 * error(digits) /\ error(digits) < 2 * unit
  <2> SUFFICES ASSUME Alone, "mantissa" \in DOMAIN f
               PROVE  Right(Trimmed)
    BY DEF FloatReadsBack
  <2>1. ParserTypes /\ OneInv /\ OneHolder
    BY <1>1 DEF NumbersInv, Alone, OneHolder, HasParts
  <2>2. f \in Arguments
    BY <2>1, OneFacts
  <2>3. f \in Floats /\ f.mantissa < Two[FLT_MANT_DIG] /\ to_string(f) = from_float_round(f)
    BY <2>2, ArgumentKinds
  <2>4. ASSUME NEW str \in to_string(args[1])
        PROVE  str \in Seq(Nat) /\ str # <<>> /\ \A k \in 1 .. Len(str) : str[k] # SPACE
    <3> HIDE DEF f
    <3>1. str \in from_float_round(f)
      BY <2>3 DEF f
    <3> QED BY <2>3, <3>1, FloatRead
  <2>5. Trimmed \in to_string(args[1])
    BY <2>1, <2>4, OneAnswer
  <2> DEFINE h == Fraction(f)
             H == Hundredths(fraction_digits(h))
  <2>6. h \in Rests /\ h.exponent = f.exponent
    <3> HIDE DEF f
    <3> QED BY <2>3, FractionRests
  <2>7. -unit <= 10 * (100 * h.mantissa - H * unit) /\ 100 * h.mantissa - H * unit < 2 * unit
    <3>1. /\ -Two[h.exponent] <= 10 * (100 * h.mantissa - Hundredths(fraction_digits(h)) * Two[h.exponent])
          /\ 100 * h.mantissa - Hundredths(fraction_digits(h)) * Two[h.exponent] < 2 * Two[h.exponent]
      <4> HIDE DEF h
      <4> QED BY <2>6, HundredthsNear, Zenon
    <3> QED BY <2>6, <3>1, Zenon
  <2>8. ASSUME NEW str \in to_string(args[1]) PROVE Right(str)
    <3> DEFINE point  == Min({k \in 1 .. Len(str) : str[k] = POINT})
               digits == SubSeq(str, point + 1, Len(str))
    <3>1. str \in from_float_round(f)
      BY <2>3
    <3> HIDE DEF f
    <3>2. /\ to_uint(SubSeq(str, 1, point - 1)) = Integral(f)
          /\ digits = fraction_digits(Fraction(f))
          /\ \A k \in 1 .. Len(digits) : is_number(digits[k])
          /\ to_uint(SubSeq(digits \o <<ZERO, ZERO>>, 1, 2)) = Hundredths(digits)
      BY <2>3, <3>1, FloatRead
    <3>3. error(digits) = 100 * h.mantissa - H * unit
      <4> HIDE DEF digits, unit
      <4> QED BY <3>2, Zenon
    <3>4. -unit <= 10 * error(digits) /\ error(digits) < 2 * unit
      <4> HIDE DEF error, digits, unit, h, H
      <4> QED BY <2>7, <3>3, Zenon
    <3> QED BY <3>2, <3>4, Zenon
  <2> HIDE DEF Right
  <2> QED BY <2>5, <2>8
<1> QED BY <1>1, NumbersInvHolds, PTL
=============================================================================
