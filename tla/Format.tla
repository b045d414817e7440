-------------------------------- MODULE Format --------------------------------
(***************************************************************************)
(* ofmt::format(fmt, args...), the parser of placeholders in format.h. One *)
(* index i runs through the format, moved by the outer loop and by three   *)
(* loops nested in it; prev_holder is where the text not yet copied begins.*)
(* What is not a format is met by an assertion, or, in a build without     *)
(* them, by going on. The character after the one at i is read without a   *)
(* look at the end of the view.                                            *)
(*                                                                         *)
(* Arguments are integers, floats, or strings, of char16_t or of narrow    *)
(* characters. The parameter after a colon is passed to to_string, all of  *)
(* which ignore it.                                                        *)
(***************************************************************************)
EXTENDS Numbers, FormatParts

CONSTANTS
  Calls,          \* what format is called with: a view on the front of a buffer,
                  \* and the arguments. The parts that the view is written from
                  \* and where each ends are kept for the properties only
  ArgumentLists,
  PartSequences,
  NoParts         \* what other views are written from

ASSUME FormatAssumption ==
  /\ Calls \subseteq [fmt : [buffer : Seq(char16_t), size : Nat, ends : Seq(Nat),
                            parts : PartSequences \cup {NoParts}],
                     args : ArgumentLists]
  /\ \A c \in Calls :
       /\ c.fmt.size <= Len(c.fmt.buffer)
       /\ c.fmt.parts # NoParts =>
            /\ Len(c.fmt.ends) = Len(c.fmt.parts)
            /\ \A n \in 0 .. Len(c.fmt.parts) :
                 SubSeq(c.fmt.buffer, 1, (<<0>> \o c.fmt.ends)[n + 1]) = Written(SubSeq(c.fmt.parts, 1, n))
            /\ c.fmt.size = (<<0>> \o c.fmt.ends)[Len(c.fmt.parts) + 1]
  /\ \A parts \in PartSequences :
       /\ parts \in Seq(Parts(size_t, (-INT_MAX) .. INT_MAX, char16_t)) /\ AutoLast(parts)
       /\ \A n \in 0 .. Len(parts) : SubSeq(parts, n + 1, Len(parts)) # NoParts
  /\ ArgumentLists \subseteq
       Seq([int : int] \cup [mantissa : 0 .. Two[FLT_MANT_DIG] - 1, exponent : Nat]
           \cup [units : Seq(char16_t)] \cup [chars : Seq(char)])

VARIABLES
  fmt, args, NDEBUG,        \* the arguments, and whether assertions are compiled
  i, prev_holder, ans,      \* offsets into fmt and the string to be returned
  auto_index,               \* the last argument taken without a number, or -1
  index, alignment, sign,   \* of the placeholder that is being read
  pc                        \* the loop that runs, or how the call ended

vars == <<fmt, args, NDEBUG, i, prev_holder, ans, auto_index, index, alignment, sign, pc>>

call   == <<fmt, args, NDEBUG>>
holder == <<index, alignment, sign>>

OPEN == 123  \* {
CLOSE == 125 \* }
COMMA == 44
COLON == 58
PLUS == 43

view == SubSeq(fmt.buffer, 1, fmt.size)

\* fmt.data()[offset]
Readable(offset)       == offset < Len(fmt.buffer)
IsAt(offset, unit)     == Readable(offset) /\ fmt.buffer[offset + 1] = unit
IsOther(offset, units) == Readable(offset) /\ fmt.buffer[offset + 1] \notin units

\* fmt.substr(prev_holder, end - prev_holder)
Text(end) == SubSeq(view, prev_holder + 1, end)

Init ==
  /\ \E c \in Calls : fmt = c.fmt /\ args = c.args
  /\ NDEBUG \in BOOLEAN
  /\ i = 0 /\ prev_holder = 0
  /\ ans = <<>>
  /\ auto_index = -1
  /\ index = 0 /\ alignment = 0 /\ sign = 1
  /\ pc = IF args = <<>> THEN "verbatim" ELSE "text"

-----------------------------------------------------------------------------
(* Arguments.                                                              *)

\* Narrow characters are appended one by one, each converted to char16_t.
Widened(s) == [k \in 1 .. Len(s) |-> s[k] % 65536]

to_string(arg) ==
  CASE "int" \in DOMAIN arg      -> from_int(arg.int)
    [] "mantissa" \in DOMAIN arg -> from_float_round(arg)
    [] "units" \in DOMAIN arg    -> {arg.units}
    [] "chars" \in DOMAIN arg    -> {Widened(arg.chars)}

Spaces(n) == [k \in 1 .. n |-> SPACE]

Aligned(str, width) ==
  LET width_abs == IF width < 0 THEN -width ELSE width
  IN  IF width_abs <= Len(str) THEN str
      ELSE IF width < 0 THEN str \o Spaces(width_abs - Len(str))
      ELSE Spaces(width_abs - Len(str)) \o str

\* Nothing is appended for an index behind the last argument.
to_string_index(n, width) ==
  IF n >= Len(args) THEN {<<>>} ELSE {Aligned(str, width) : str \in to_string(args[n + 1])}

-----------------------------------------------------------------------------
(* The outer loop.                                                         *)

\* The overload without arguments.
Verbatim ==
  /\ pc = "verbatim"
  /\ ans' = view
  /\ pc' = "return"
  /\ UNCHANGED <<call, i, prev_holder, auto_index, holder>>

InText == pc = "text" /\ i < fmt.size

Literal ==
  /\ InText /\ IsOther(i, {OPEN, CLOSE})
  /\ i' = i + 1
  /\ UNCHANGED <<call, prev_holder, ans, auto_index, holder, pc>>

\* Mutant of Escape: prev_holder is left at the second brace.
EscapeKeepsBoth ==
  /\ InText
  /\ \E brace \in {OPEN, CLOSE} : IsAt(i, brace) /\ IsAt(i + 1, brace)
  /\ ans' = ans \o Text(i + 1)
  /\ prev_holder' = i + 1
  /\ i' = i + 2
  /\ UNCHANGED <<call, auto_index, holder, pc>>

\* Two braces: what precedes the second one is copied.
Escape ==
  /\ InText
  /\ \E brace \in {OPEN, CLOSE} : IsAt(i, brace) /\ IsAt(i + 1, brace)
  /\ ans' = ans \o Text(i + 1)
  /\ prev_holder' = i + 2
  /\ i' = i + 2
  /\ UNCHANGED <<call, auto_index, holder, pc>>

\* The text before the brace is copied, and prev_holder stays where it is until
\* the placeholder is closed.
OpenHolder ==
  /\ InText /\ IsAt(i, OPEN) /\ IsOther(i + 1, {OPEN})
  /\ ans' = ans \o Text(i)
  /\ auto_index' = IF IsAt(i + 1, CLOSE) THEN auto_index + 1 ELSE auto_index
  /\ index' = 0 /\ alignment' = 0 /\ sign' = 1
  /\ i' = i + 1
  /\ pc' = "placeholder"
  /\ UNCHANGED <<call, prev_holder>>

\* The character after a closing brace is skipped, whatever it is.
LoneClose ==
  /\ InText /\ IsAt(i, CLOSE) /\ IsOther(i + 1, {CLOSE})
  /\ i' = i + 2
  /\ UNCHANGED <<call, prev_holder, ans, auto_index, holder, pc>>

\* The rest of the text is copied.
Return ==
  /\ pc = "text" /\ i >= fmt.size /\ prev_holder <= fmt.size
  /\ ans' = ans \o Text(fmt.size)
  /\ pc' = "return"
  /\ UNCHANGED <<call, i, prev_holder, auto_index, holder>>

\* Mutant of Throws: the end of the view is taken for a position outside.
ThrowsAtEnd ==
  /\ pc = "text" /\ i >= fmt.size /\ prev_holder >= fmt.size
  /\ pc' = "thrown"
  /\ UNCHANGED <<call, i, prev_holder, ans, auto_index, holder>>

\* substr throws.
Throws ==
  /\ pc = "text" /\ i >= fmt.size /\ prev_holder > fmt.size
  /\ pc' = "thrown"
  /\ UNCHANGED <<call, i, prev_holder, ans, auto_index, holder>>

-----------------------------------------------------------------------------
(* The loops inside a placeholder.                                         *)

InHolder(loop) == pc = loop /\ i < fmt.size

AtDigit == i < fmt.size /\ is_number(fmt.buffer[i + 1])

\* "auto index not allowed when using manual index."
ManualIndex ==
  /\ InHolder("placeholder") /\ AtDigit /\ (NDEBUG \/ auto_index = -1)
  /\ index' = Wrap(index * 10 + to_number(fmt.buffer[i + 1]))
  /\ i' = i + 1
  /\ UNCHANGED <<call, prev_holder, ans, auto_index, alignment, sign, pc>>

Comma ==
  /\ InHolder("placeholder") /\ IsAt(i, COMMA) /\ Readable(i + 1)
  /\ sign' = IF IsAt(i + 1, MINUS) THEN -1 ELSE 1
  /\ i' = IF IsAt(i + 1, MINUS) \/ IsAt(i + 1, PLUS) THEN i + 2 ELSE i + 1
  /\ pc' = "alignment"
  /\ UNCHANGED <<call, prev_holder, ans, auto_index, index, alignment>>

\* In int.
Accumulated == alignment * 10 + to_number(fmt.buffer[i + 1])

Alignment ==
  /\ InHolder("alignment") /\ AtDigit /\ Accumulated \in int
  /\ alignment' = Accumulated
  /\ i' = i + 1
  /\ UNCHANGED <<call, prev_holder, ans, auto_index, index, sign, pc>>

\* Other characters are skipped in silence.
AlignmentOther ==
  /\ InHolder("alignment") /\ ~ AtDigit /\ IsOther(i, {COLON, CLOSE})
  /\ i' = i + 1
  /\ UNCHANGED <<call, prev_holder, ans, auto_index, holder, pc>>

\* Back to the loop around, with the character that ended this one.
AlignmentEnd ==
  /\ InHolder("alignment") /\ (IsAt(i, COLON) \/ IsAt(i, CLOSE))
  /\ alignment' = alignment * sign
  /\ pc' = "placeholder"
  /\ UNCHANGED <<call, i, prev_holder, ans, auto_index, index, sign>>

Param ==
  /\ \/ InHolder("placeholder") /\ IsAt(i, COLON) /\ pc' = "param"
     \/ InHolder("param") /\ IsOther(i, {CLOSE}) /\ UNCHANGED pc
  /\ i' = i + 1
  /\ UNCHANGED <<call, prev_holder, ans, auto_index, holder>>

Closing == (InHolder("placeholder") \/ InHolder("param")) /\ IsAt(i, CLOSE)

Chosen == to_string_index(IF auto_index = -1 THEN index ELSE auto_index, alignment)

\* Mutant of CloseHolder: prev_holder stays.
CloseHolderCopies ==
  /\ Closing
  /\ \E str \in Chosen : ans' = ans \o str
  /\ i' = i + 1
  /\ pc' = "text"
  /\ UNCHANGED <<call, prev_holder, auto_index, holder>>

CloseHolder ==
  /\ Closing
  /\ \E str \in Chosen : ans' = ans \o str
  /\ prev_holder' = i + 1
  /\ i' = i + 1
  /\ pc' = "text"
  /\ UNCHANGED <<call, auto_index, holder>>

Unknown ==
  InHolder("placeholder") /\ ~ AtDigit /\ IsOther(i, {COMMA, COLON, CLOSE})

\* Without assertions an unknown character is skipped.
SkipUnknown ==
  /\ Unknown /\ NDEBUG
  /\ i' = i + 1
  /\ UNCHANGED <<call, prev_holder, ans, auto_index, holder, pc>>

Truncated(loops) == pc \in loops /\ i >= fmt.size

\* The format ends inside the placeholder. After an index nobody notices.
EndsInHolder ==
  /\ Truncated({"placeholder"} \cup (IF NDEBUG THEN {"alignment", "param"} ELSE {}))
  /\ pc' = "text"
  /\ UNCHANGED <<call, i, prev_holder, ans, auto_index, holder>>

Aborts ==
  /\ ~ NDEBUG
  /\ \/ InHolder("placeholder") /\ AtDigit /\ auto_index # -1
     \/ Unknown
     \/ Truncated({"alignment", "param"})
  /\ pc' = "aborted"
  /\ UNCHANGED <<call, i, prev_holder, ans, auto_index, holder>>

\* Memory outside the buffer is read, the alignment leaves int, or the absolute
\* value of an integer does, or that of a float.
Undefined ==
  /\ \/ InText /\ (IsAt(i, OPEN) \/ IsAt(i, CLOSE)) /\ ~ Readable(i + 1)
     \/ InHolder("placeholder") /\ IsAt(i, COMMA) /\ ~ Readable(i + 1)
     \/ InHolder("alignment") /\ AtDigit /\ Accumulated \notin int
     \/ Closing /\ Chosen = {}
  /\ pc' = "undefined"
  /\ UNCHANGED <<call, i, prev_holder, ans, auto_index, holder>>

-----------------------------------------------------------------------------

TextLoop == Literal \/ Escape \/ OpenHolder \/ LoneClose \/ Return \/ Throws

HolderLoops ==
  \/ ManualIndex \/ Comma \/ Param \/ CloseHolder \/ SkipUnknown \/ EndsInHolder
  \/ Alignment \/ AlignmentOther \/ AlignmentEnd

Next == Verbatim \/ TextLoop \/ HolderLoops \/ Aborts \/ Undefined

\* The loops run on the caller's thread and wait for nothing.
FairSpec == Init /\ [][Next]_vars /\ WF_vars(Next)

-----------------------------------------------------------------------------
(* Formats that are written from parts.                                    *)

\* How many parts end at or before i. A placeholder is answered when it has
\* been read to its end.
Read == Cardinality({n \in 1 .. Len(fmt.ends) : fmt.ends[n] <= i})

Rest == IF pc = "return" THEN <<>> ELSE SubSeq(fmt.parts, Read + 1, Len(fmt.parts))

\* The placeholder that is being read has been counted already.
Counted == IF pc \in {"placeholder", "alignment", "param"} /\ Head(Rest).number = Automatic
           THEN auto_index ELSE auto_index + 1

\* What the smallest int is written as is undefined, floats are rounded, and
\* narrow characters beyond ASCII mean nothing by themselves.
Exact(arg) ==
  /\ arg # [int |-> INT_MIN] /\ "mantissa" \notin DOMAIN arg
  /\ "chars" \in DOMAIN arg => \A k \in 1 .. Len(arg.chars) : arg.chars[k] >= 0

\* A format to be answered, with arguments that are.
FromParts == fmt.parts # NoParts /\ \A a \in 1 .. Len(args) : Exact(args[a])

Formatter == INSTANCE Formatting WITH
  arguments <- args,
  parts     <- IF FromParts THEN Rest ELSE NoParts,
  auto      <- IF FromParts THEN Counted ELSE 0,
  answer    <- IF ~ FromParts THEN <<>> ELSE IF pc = "text" THEN ans \o Text(i) ELSE ans,
  returned  <- FromParts /\ pc = "return"

\* A format written from parts is answered part by part: every placeholder by
\* its argument, filled up, the text and single braces by themselves, once and
\* in order, and the answer is returned, whether assertions are compiled or not.
AnswersParts == Formatter!Spec

\* One argument, answered to a placeholder by itself.
Alone ==
  /\ pc = "return" /\ fmt.parts # NoParts
  /\ Len(args) = 1 /\ Len(fmt.parts) = 1
  /\ fmt.parts[1].kind = "placeholder" /\ fmt.parts[1].number \in {Automatic, 0}

\* The answer without the spaces it is filled up with.
Trimmed ==
  LET inked == {k \in 1 .. Len(ans) : ans[k] # SPACE}
  IN  SubSeq(ans, Min(inked), Max(inked))

\* What format writes for a natural number, filled up on either side, to_int
\* and to_uint read back without the spaces; to_int is undefined exactly if the
\* number and the character of a digit do not add up to an int.
IntReadsBack ==
  Alone /\ "int" \in DOMAIN args[1] /\ args[1].int >= 0 =>
    /\ to_int(Trimmed) = IF args[1].int + ZERO <= INT_MAX THEN {args[1].int} ELSE {}
    /\ to_uint(Trimmed) = args[1].int

\* A float is written as its integral part, a point, and decimal digits (a
\* multiplication that is rounded never makes ten of one); the number that the
\* first two of them stand for is less than two hundredths less than the float,
\* and at most a thousandth more.
FloatReadsBack ==
  Alone /\ "mantissa" \in DOMAIN args[1] =>
    LET point      == Min({k \in 1 .. Len(Trimmed) : Trimmed[k] = POINT})
        digits     == SubSeq(Trimmed, point + 1, Len(Trimmed))
        hundredths == to_uint(SubSeq(digits \o <<ZERO, ZERO>>, 1, 2))
        unit       == Two[args[1].exponent]
        error      == 100 * Fraction(args[1]).mantissa - hundredths * unit
    IN  /\ to_uint(SubSeq(Trimmed, 1, point - 1)) = Integral(args[1])
        /\ \A k \in 1 .. Len(digits) : is_number(digits[k])
        /\ -unit <= 10 * error /\ error < 2 * unit

-----------------------------------------------------------------------------
(* Any formats.                                                            *)

\* What lies behind the view matters only if the view ends in a brace: if the
\* same brace follows, the answer cannot be completed and format throws. With
\* any unit behind the view, nothing beyond is read: what is undefined are the
\* absolute value of the smallest int, floats beyond int, and alignments.
OutsideCause ==
  /\ pc = "thrown" => fmt.size > 0 /\
       \E brace \in {OPEN, CLOSE} : IsAt(fmt.size - 1, brace) /\ IsAt(fmt.size, brace)
  /\ pc = "undefined" /\ fmt.size < Len(fmt.buffer) =>
       \/ \E a \in 1 .. Len(args) :
            \/ args[a] = [int |-> INT_MIN]
            \/ "mantissa" \in DOMAIN args[a] /\ Integral(args[a]) > INT_MAX
       \/ AtDigit /\ Accumulated \notin int

Count(s, unit) == Cardinality({k \in 1 .. Len(s) : s[k] = unit})

\* A brace is opened and never closed.
StaysOpen == \E k \in 1 .. fmt.size : view[k] = OPEN /\ \A j \in k .. fmt.size : view[j] # CLOSE

\* With assertions compiled, what a call returns has every unit that is no brace
\* and no digit, and that no argument is written with, exactly once, unless a
\* brace stays open: the text before it is then copied when it is met and once
\* more at the end. Alignments and parameters may hold anything, and are left out.
TextOnce ==
  /\ pc = "return" /\ ~ NDEBUG /\ ~ StaysOpen
  /\ \A k \in 1 .. fmt.size : view[k] \notin {COMMA, COLON}
  => \A k \in 1 .. fmt.size :
       \/ view[k] \in {OPEN, CLOSE} \/ is_number(view[k])
       \/ \E a \in 1 .. Len(args) : \E str \in to_string(args[a]) : Count(str, view[k]) > 0
       \/ Count(ans, view[k]) = Count(view, view[k])
=============================================================================
