---------------------------- MODULE Utf8Decoder ----------------------------
(***************************************************************************)
(* coder::convert_append from UTF-8 to UTF-16, the loop of coder.cpp. The  *)
(* view that is converted is the front of a buffer, and the loop compares  *)
(* its iterator with the end of the view for inequality only: it may walk  *)
(* past it. The units of a code point outlive the iteration that wrote     *)
(* them. The caller, decode_from_utf8, is noexcept.                        *)
(***************************************************************************)
EXTENDS CodePointCodec

CONSTANTS
  Sources,     \* what is converted: a buffer, the size of the view on it, and
               \* the text that the view shows, kept for the properties only
  StackUnits,  \* what `pair` and `utf16_length` hold before they are written
  Texts,       \* sequences of code points
  NoText,      \* what other views show
  Room         \* how many units the string converted into can grow by

ASSUME DecoderAssumption ==
  /\ Sources \subseteq [buffer : Seq(char8_t), size : Nat, text : Texts \cup {NoText}]
  /\ \A s \in Sources :
       /\ s.size <= Len(s.buffer)
       /\ s.text # NoText => SubSeq(s.buffer, 1, s.size) = Encoded(s.text, UTF8)
  /\ StackUnits \subseteq Seq(char16_t)
  /\ Room \in Nat

ASSUME TextsAssumption ==
  Texts \subseteq Seq(ScalarValue) /\ NoText \notin Seq(ScalarValue)

VARIABLES
  source,  \* the view sv8
  it,      \* the offset of the iterator
  utf16,   \* pair[0] to pair[utf16_length - 1]
  out,     \* the units appended to out_u16
  pc

vars == <<source, it, utf16, out, pc>>

Init ==
  /\ source \in Sources
  /\ it = 0
  /\ utf16 \in StackUnits
  /\ out = <<>>
  /\ pc = "for"

buffer == source.buffer
view   == SubSeq(buffer, 1, source.size)

InLoop == pc = "for" /\ it # source.size

\* All bytes that the first one announces are in the buffer.
InBuffer == it < Len(buffer) /\ it + utf8_sequence_length(buffer[it + 1]) <= Len(buffer)

\* Appends `units` and advances, by nothing if the length is 0.
AppendUnits(units, length) ==
  /\ Len(out) + Len(units) <= Room
  /\ out' = out \o units
  /\ it' = it + length
  /\ UNCHANGED <<source, pc>>

-----------------------------------------------------------------------------

\* Mutants of AppendChar: the iterator is not moved, or the units of the code
\* point before are appended.
AppendCharStays ==
  /\ InLoop /\ InBuffer
  /\ LET c == utf8_to_utf32(buffer, it)
     IN  /\ c.value # 0
         /\ utf16' = utf32_to_utf16(c.value)
         /\ AppendUnits(utf16', 0)
AppendCharBefore ==
  /\ InLoop /\ InBuffer
  /\ LET c == utf8_to_utf32(buffer, it)
     IN  /\ c.value # 0
         /\ utf16' = utf32_to_utf16(c.value)
         /\ AppendUnits(utf16, c.length)

AppendChar ==
  /\ InLoop /\ InBuffer
  /\ LET c == utf8_to_utf32(buffer, it)
     IN  /\ c.value # 0
         /\ utf16' = utf32_to_utf16(c.value)
         /\ AppendUnits(utf16', c.length)

\* For the value 0 utf32_to_utf16 writes nothing, and what the code point
\* before it left behind is appended again.
AppendStale ==
  /\ InLoop /\ InBuffer
  /\ LET c == utf8_to_utf32(buffer, it)
     IN  c.value = 0 /\ AppendUnits(utf16, c.length)
  /\ UNCHANGED utf16

\* The string cannot grow any more, and the program is terminated.
Exhausted ==
  /\ InLoop /\ InBuffer
  /\ LET c == utf8_to_utf32(buffer, it)
     IN  Len(out) + Len(IF c.value = 0 THEN utf16 ELSE utf32_to_utf16(c.value)) > Room
  /\ pc' = "terminated"
  /\ UNCHANGED <<source, it, utf16, out>>

\* Memory outside the buffer is read; anything may follow.
Overrun ==
  /\ InLoop /\ ~ InBuffer
  /\ pc' = "undefined"
  /\ UNCHANGED <<source, it, utf16, out>>

\* Mutant: the iterator may be beyond the end of the view.
ReturnBeyond ==
  /\ pc = "for" /\ it >= source.size
  /\ pc' = "return"
  /\ UNCHANGED <<source, it, utf16, out>>

Return ==
  /\ pc = "for" /\ it = source.size
  /\ pc' = "return"
  /\ UNCHANGED <<source, it, utf16, out>>

Next == AppendChar \/ AppendStale \/ Exhausted \/ Overrun \/ Return

Spec == Init /\ [][Next]_vars

\* The loop runs on the caller's thread and waits for nothing.
FairSpec == Spec /\ WF_vars(Next)

-----------------------------------------------------------------------------
(* Valid UTF-8.                                                            *)

Text == source.text # NoText

\* The code points before the iterator have been taken, the others are still to
\* be converted. <<-1>>, which is no text, stands for an iterator inside a
\* character and for an output that is not made of the first code points.
Rest ==
  LET taken == CodePointsEncoded(source.text, SubSeq(buffer, 1, it), UTF8)
  IN  IF taken = {} THEN <<-1>> ELSE SubSeq(source.text, Max(taken) + 1, Len(source.text))
Done ==
  LET written == CodePointsEncoded(source.text, out, UTF16)
  IN  IF written = {} THEN <<-1>> ELSE SubSeq(source.text, 1, Max(written))

Converter == INSTANCE Transcoding WITH
  rest <- IF Text THEN Rest ELSE NoText,
  done <- IF Text THEN Done ELSE <<>>,
  returned <- Text /\ pc = "return"

\* UTF-8 of code points of the first plane becomes UTF-16 of the same code
\* points, whatever the stack holds, and convert_append returns.
Converts == Converter!Spec

\* "utf16 char wich hold the real value of grapheme" (helpers.h:188): what is
\* returned is the UTF-16 of the text, beyond the first plane too.
HoldsRealValue ==
  pc = "return" /\ Text => out = Encoded(source.text, UTF16)

-----------------------------------------------------------------------------
(* Any bytes.                                                              *)

\* A view of whole characters and without NUL is converted to its end.
ReturnsWhole == WholeCharacters(view) /\ ~ HasNul(view) ~> pc = "return"

\* In a buffer of whole characters it is the only kind that is: behind a view
\* that ends inside a character, or at a NUL, the loop does not find its end.
ReturnsOnlyWhole ==
  pc = "return" /\ WholeCharacters(buffer) => WholeCharacters(view) /\ ~ HasNul(view)

\* The terminator of the buffer stops a loop that has missed the end of the
\* view, unless the bytes before it are no UTF-8.
OverrunCause ==
  /\ pc = "undefined"
  /\ buffer # <<>> /\ buffer[Len(buffer)] = NUL
  => ~ WholeCharacters(buffer)

\* StackUnits can be told from what is converted: no character of the sources
\* becomes one of them.
StackUnitsMarked ==
  \A s \in Sources : \A i \in 0 .. (Len(s.buffer) - 1) :
    i + utf8_sequence_length(s.buffer[i + 1]) <= Len(s.buffer) =>
      LET units == utf32_to_utf16(utf8_to_utf32(s.buffer, i).value)
      IN  \A stale \in StackUnits :
            \A j \in 1 .. Len(units) : \A k \in 1 .. Len(stale) : units[j] # stale[k]

\* What lay on the stack gets into the string only by a first character of the
\* value 0.
StackUnitsCause ==
  (\E i \in 1 .. Len(out) : \E units \in StackUnits : \E k \in 1 .. Len(units) : out[i] = units[k])
    => utf8_to_utf32(buffer, 0).value = 0
=============================================================================
