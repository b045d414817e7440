---------------------------- MODULE Utf8Encoder ----------------------------
(***************************************************************************)
(* coder::convert_append from UTF-16 to UTF-8, the other loop of coder.cpp.*)
(* The view that is converted is the front of a buffer, as in Utf8Decoder, *)
(* and the caller, string_view::encode_to_utf8, is noexcept.               *)
(***************************************************************************)
EXTENDS CodePointCodec

CONSTANTS
  Sources,  \* what is converted: a buffer, the size of the view on it, and
            \* the text that the view shows, kept for the properties only
  Texts,    \* sequences of code points
  NoText,   \* what other views show
  Room      \* how many bytes the string converted into can grow by

ASSUME EncoderAssumption ==
  /\ Sources \subseteq [buffer : Seq(char16_t), size : Nat, text : Texts \cup {NoText}]
  /\ \A s \in Sources :
       /\ s.size <= Len(s.buffer)
       /\ s.text # NoText => SubSeq(s.buffer, 1, s.size) = Encoded(s.text, UTF16)
  /\ Room \in Nat

ASSUME TextsAssumption ==
  Texts \subseteq Seq(ScalarValue) /\ NoText \notin Seq(ScalarValue)

VARIABLES
  source,  \* the view sv16
  it,      \* the offset of the iterator
  out,     \* the bytes appended to out_u8
  pc

vars == <<source, it, out, pc>>

Init ==
  /\ source \in Sources
  /\ it = 0
  /\ out = <<>>
  /\ pc = "for"

buffer == source.buffer
view   == SubSeq(buffer, 1, source.size)

InLoop == pc = "for" /\ it # source.size

\* The unit after a lead surrogate is read, wherever the view ends.
InBuffer ==
  /\ it < Len(buffer)
  /\ is_lead_surrogate(buffer[it + 1]) => it + 1 < Len(buffer)

-----------------------------------------------------------------------------

\* Mutant of AppendChar: the iterator is not moved past a pair.
AppendCharStays ==
  /\ InLoop /\ InBuffer
  /\ LET c == utf16_to_utf32(buffer, it)
     IN  /\ Len(out) + Len(utf32_to_utf8(c.value)) <= Room
         /\ out' = out \o utf32_to_utf8(c.value)
         /\ it' = it + (c.length % 2)
  /\ UNCHANGED <<source, pc>>

\* One character, or for a length of 0 the same one again and again.
AppendChar ==
  /\ InLoop /\ InBuffer
  /\ LET c == utf16_to_utf32(buffer, it)
     IN  /\ Len(out) + Len(utf32_to_utf8(c.value)) <= Room
         /\ out' = out \o utf32_to_utf8(c.value)
         /\ it' = it + c.length
  /\ UNCHANGED <<source, pc>>

\* The string cannot grow any more, and the program is terminated.
Exhausted ==
  /\ InLoop /\ InBuffer
  /\ Len(out) + Len(utf32_to_utf8(utf16_to_utf32(buffer, it).value)) > Room
  /\ pc' = "terminated"
  /\ UNCHANGED <<source, it, out>>

\* Memory outside the buffer is read; anything may follow.
Overrun ==
  /\ InLoop /\ ~ InBuffer
  /\ pc' = "undefined"
  /\ UNCHANGED <<source, it, out>>

\* Mutant: the iterator may be beyond the end of the view.
ReturnBeyond ==
  /\ pc = "for" /\ it >= source.size
  /\ pc' = "return"
  /\ UNCHANGED <<source, it, out>>

Return ==
  /\ pc = "for" /\ it = source.size
  /\ pc' = "return"
  /\ UNCHANGED <<source, it, out>>

Next == AppendChar \/ Exhausted \/ Overrun \/ Return

Spec == Init /\ [][Next]_vars

\* The loop runs on the caller's thread and waits for nothing.
FairSpec == Spec /\ WF_vars(Next)

-----------------------------------------------------------------------------
(* Valid UTF-16.                                                           *)

Text == source.text # NoText

\* The code points before the iterator have been taken, the others are still to
\* be converted. <<-1>>, which is no text, stands for an iterator inside a
\* character and for an output that is not made of the first code points.
Rest ==
  LET taken == CodePointsEncoded(source.text, SubSeq(buffer, 1, it), UTF16)
  IN  IF taken = {} THEN <<-1>> ELSE SubSeq(source.text, Max(taken) + 1, Len(source.text))
Done ==
  LET written == CodePointsEncoded(source.text, out, UTF8)
  IN  IF written = {} THEN <<-1>> ELSE SubSeq(source.text, 1, Max(written))

Converter == INSTANCE Transcoding WITH
  rest <- IF Text THEN Rest ELSE NoText,
  done <- IF Text THEN Done ELSE <<>>,
  returned <- Text /\ pc = "return"

\* UTF-16 becomes UTF-8 of the same code points, those beyond the first plane
\* included, and convert_append returns.
Converts == Converter!Spec

-----------------------------------------------------------------------------
(* Any units.                                                              *)

\* Every lead surrogate of s is the first unit of a pair. Nothing is asked of
\* trail surrogates.
LeadsPaired(s) == \A i \in 1 .. Len(s) : is_lead_surrogate(s[i]) => PairAt(s, i)

\* A view without NUL and unpaired lead surrogates is converted to its end.
ReturnsWhole == LeadsPaired(view) /\ ~ HasNul(view) ~> pc = "return"

\* It is the only kind that is, whatever the buffer holds behind it: a view
\* that ends between the surrogates of a pair is passed, and its end missed.
ReturnsOnlyWhole == pc = "return" => LeadsPaired(view) /\ ~ HasNul(view)

\* The terminator of a buffer stops a loop that has missed the end of the view.
NeverOverruns ==
  buffer # <<>> /\ buffer[Len(buffer)] = NUL => pc # "undefined"
=============================================================================
