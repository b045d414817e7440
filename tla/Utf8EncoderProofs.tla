------------------------- MODULE Utf8EncoderProofs -------------------------
(***************************************************************************)
(* Where the loop from UTF-16 to UTF-8 can be, for every buffer and view,  *)
(* and that it converts a text code point by code point, as Transcoding    *)
(* says.                                                                   *)
(***************************************************************************)
EXTENDS Utf8Encoder, CodeUnitsLemmas

NulTerminated == buffer # <<>> /\ buffer[Len(buffer)] = NUL

\* The iterator is in the buffer, at its terminator at most, and has passed
\* neither a NUL nor anything of a lead surrogate but whole pairs.
LoopInv ==
  /\ source \in Sources
  /\ it \in 0 .. Len(buffer)
  /\ NulTerminated => it < Len(buffer)
  /\ \A i \in 1 .. it : buffer[i] # NUL
  /\ \A i \in 1 .. it : is_lead_surrogate(buffer[i]) => i < it /\ is_trail_surrogate(buffer[i + 1])
  /\ pc = "return" => it = source.size
  /\ NulTerminated => pc # "undefined"

\* A view is a record of a buffer of code units and a size within it.
LEMMA SourceType ==
  ASSUME source \in Sources
  PROVE  /\ buffer \in Seq(char16_t)
         /\ Len(buffer) \in Nat
         /\ source.size \in 0 .. Len(buffer)
         /\ \A i \in 1 .. Len(buffer) : buffer[i] \in char16_t
<1>1. /\ source \in [buffer : Seq(char16_t), size : Nat, text : Texts \cup {NoText}]
      /\ source.size <= Len(source.buffer)
  BY EncoderAssumption
<1> QED
  BY <1>1 DEF buffer

\* The classes of units that the conversion tells apart exclude each other.
LEMMA UnitClasses ==
  /\ ~ is_lead_surrogate(NUL)
  /\ \A c : ~ (is_trail_surrogate(c) /\ c = NUL)
  /\ \A c \in char16_t : ~ (is_trail_surrogate(c) /\ is_lead_surrogate(c))
BY DEF is_lead_surrogate, is_trail_surrogate, NUL, char16_t, LEAD_SURROGATE_MIN,
       LEAD_SURROGATE_MAX, TRAIL_SURROGATE_MIN, TRAIL_SURROGATE_MAX

\* How many units utf16_to_utf32 takes: two for a pair, none for NUL and for a
\* lead surrogate that no trail surrogate follows, else one.
LEMMA LengthTaken ==
  ASSUME NEW s, NEW i
  PROVE  utf16_to_utf32(s, i).length =
           IF is_lead_surrogate(s[i + 1])
           THEN IF is_trail_surrogate(s[i + 2]) THEN 2 ELSE 0
           ELSE IF s[i + 1] = NUL THEN 0 ELSE 1
BY DEF utf16_to_utf32

LEMMA LoopInit == Init => LoopInv
<1> SUFFICES ASSUME Init PROVE LoopInv
  OBVIOUS
<1>1. source \in Sources /\ it = 0 /\ pc = "for"
  BY DEF Init
<1>2. buffer \in Seq(char16_t) /\ Len(buffer) \in Nat
  BY <1>1, SourceType
<1>3. NulTerminated => 0 < Len(buffer)
  BY <1>2 DEF NulTerminated
<1> QED
  BY <1>1, <1>2, <1>3 DEF LoopInv

LEMMA LoopStep == LoopInv /\ [Next]_vars => LoopInv'
<1> SUFFICES ASSUME LoopInv, [Next]_vars PROVE LoopInv'
  OBVIOUS
<1>1. /\ buffer \in Seq(char16_t) /\ Len(buffer) \in Nat
      /\ source.size \in 0 .. Len(buffer)
      /\ \A i \in 1 .. Len(buffer) : buffer[i] \in char16_t
  BY SourceType DEF LoopInv
<1>2. CASE AppendChar
  <2> DEFINE taken == utf16_to_utf32(buffer, it).length
  <2>1. /\ it < Len(buffer)
        /\ is_lead_surrogate(buffer[it + 1]) => it + 1 < Len(buffer)
        /\ it' = it + taken /\ source' = source /\ pc' = pc /\ pc = "for"
        /\ it # source.size
    BY <1>2 DEF AppendChar, InLoop, InBuffer
  <2>2. buffer' = buffer /\ (NulTerminated' <=> NulTerminated)
    BY <2>1 DEF buffer, NulTerminated
  <2>3. CASE taken = 0
    <3>1. it' = it
      BY <2>1, <2>3 DEF LoopInv
    <3> QED
      BY <3>1, <2>1, <2>2 DEF LoopInv
  <2>4. CASE taken = 1
    <3>1. it' = it + 1 /\ buffer[it + 1] # NUL /\ ~ is_lead_surrogate(buffer[it + 1])
      BY <2>1, <2>4, LengthTaken
    <3>2. it' \in 0 .. Len(buffer) /\ (NulTerminated => it' < Len(buffer))
      BY <3>1, <2>1, <1>1 DEF LoopInv, NulTerminated
    <3>3. \A i \in 1 .. it' : buffer[i] # NUL
      BY <3>1, <1>1 DEF LoopInv
    <3>4. \A i \in 1 .. it' : is_lead_surrogate(buffer[i]) =>
            i < it' /\ is_trail_surrogate(buffer[i + 1])
      BY <3>1, <1>1 DEF LoopInv
    <3> QED
      BY <3>2, <3>3, <3>4, <2>1, <2>2 DEF LoopInv
  <2>5. CASE taken = 2
    <3>1. /\ it' = it + 2
          /\ is_lead_surrogate(buffer[it + 1]) /\ is_trail_surrogate(buffer[it + 2])
      BY <2>1, <2>5, LengthTaken
    <3>2. it + 2 \in 1 .. Len(buffer)
      BY <3>1, <2>1, <1>1 DEF LoopInv
    <3>3. /\ buffer[it + 1] # NUL /\ buffer[it + 2] # NUL
          /\ ~ is_lead_surrogate(buffer[it + 2])
      BY <3>1, <3>2, <1>1, UnitClasses
    <3>4. it' \in 0 .. Len(buffer) /\ (NulTerminated => it' < Len(buffer))
      BY <3>1, <3>2, <3>3, <1>1 DEF LoopInv, NulTerminated
    <3>5. \A i \in 1 .. it' : i \in 1 .. it \/ i = it + 1 \/ i = it + 2
      BY <3>1, <1>1 DEF LoopInv
    <3>6. \A i \in 1 .. it' : buffer[i] # NUL
      BY <3>3, <3>5 DEF LoopInv
    <3>7. \A i \in 1 .. it' : is_lead_surrogate(buffer[i]) =>
            i < it' /\ is_trail_surrogate(buffer[i + 1])
      <4> SUFFICES ASSUME NEW i \in 1 .. it', is_lead_surrogate(buffer[i])
                   PROVE  i < it' /\ is_trail_surrogate(buffer[i + 1])
        OBVIOUS
      <4>1. CASE i \in 1 .. it
        BY <4>1, <3>1, <1>1 DEF LoopInv
      <4>2. CASE i = it + 1
        <5>1. i + 1 = it + 2 /\ i < it'
          BY <4>2, <3>1, <1>1 DEF LoopInv
        <5> QED
          BY <5>1, <3>1
      <4> QED
        BY <4>1, <4>2, <3>3, <3>5
    <3> QED
      BY <3>4, <3>6, <3>7, <2>1, <2>2 DEF LoopInv
  <2> QED
    BY <2>3, <2>4, <2>5, LengthTaken
<1>3. CASE Exhausted
  <2>1. source' = source /\ it' = it /\ pc' = "terminated"
    BY <1>3 DEF Exhausted
  <2> QED
    BY <2>1 DEF LoopInv, buffer, NulTerminated
<1>4. CASE Overrun
  <2>1. source' = source /\ it' = it /\ pc' = "undefined" /\ ~ InBuffer
    BY <1>4 DEF Overrun
  <2>2. ~ NulTerminated
    <3> SUFFICES ASSUME NulTerminated PROVE FALSE
      OBVIOUS
    <3>1. it < Len(buffer) /\ is_lead_surrogate(buffer[it + 1]) /\ ~ (it + 1 < Len(buffer))
      BY <2>1 DEF LoopInv, InBuffer
    <3>2. it + 1 = Len(buffer)
      BY <3>1, <1>1 DEF LoopInv
    <3> QED
      BY <3>1, <3>2, UnitClasses DEF NulTerminated
  <2> QED
    BY <2>1, <2>2 DEF LoopInv, buffer, NulTerminated
<1>5. CASE Return
  <2>1. source' = source /\ it' = it /\ pc' = "return" /\ it = source.size
    BY <1>5 DEF Return
  <2> QED
    BY <2>1 DEF LoopInv, buffer, NulTerminated
<1>6. CASE UNCHANGED vars
  BY <1>6 DEF vars, LoopInv, buffer, NulTerminated
<1> QED
  BY <1>2, <1>3, <1>4, <1>5, <1>6 DEF Next

LEMMA LoopCorrect == Spec => []LoopInv
BY LoopInit, LoopStep, PTL DEF Spec

\* The terminator of a buffer stops a loop that has missed the end of the view:
\* encode_to_utf8 never reads beyond a NUL-terminated string.
THEOREM BufferNeverOverrun == Spec => []NeverOverruns
<1>1. LoopInv => NeverOverruns
  BY DEF LoopInv, NeverOverruns, NulTerminated
<1> QED
  BY <1>1, LoopCorrect, PTL

\* convert_append returns only if the view has neither a NUL nor an unpaired
\* lead surrogate, one whose trail surrogate lies behind the view included.
THEOREM ReturnMeansWhole == Spec => []ReturnsOnlyWhole
<1>1. LoopInv => ReturnsOnlyWhole
  <2> SUFFICES ASSUME LoopInv, pc = "return" PROVE LeadsPaired(view) /\ ~ HasNul(view)
    BY DEF ReturnsOnlyWhole
  <2>1. buffer \in Seq(char16_t) /\ source.size \in 0 .. Len(buffer) /\ it = source.size
    BY SourceType DEF LoopInv
  <2>2. Len(view) = it /\ \A i \in 1 .. it : view[i] = buffer[i]
    BY <2>1 DEF view
  <2>3. ~ HasNul(view)
    BY <2>2 DEF LoopInv, HasNul
  <2>4. LeadsPaired(view)
    <3> SUFFICES ASSUME NEW i \in 1 .. it, is_lead_surrogate(view[i]) PROVE PairAt(view, i)
      BY <2>2 DEF LeadsPaired
    <3>1. i < it /\ is_trail_surrogate(buffer[i + 1])
      BY <2>2 DEF LoopInv
    <3>2. i \in 1 .. (it - 1) /\ i + 1 \in 1 .. it
      BY <3>1, <2>1
    <3> QED
      BY <3>1, <3>2, <2>2 DEF PairAt
  <2> QED
    BY <2>3, <2>4
<1> QED
  BY <1>1, LoopCorrect, PTL

-----------------------------------------------------------------------------
(* The refinement.                                                         *)

\* What the refinement needs of LoopInv.
BufferInv == source \in Sources /\ it \in 0 .. Len(buffer)

\* The first n code points of the text have been converted.
Converted(n) ==
  /\ SubSeq(buffer, 1, it) = InUTF16(SubSeq(source.text, 1, n))
  /\ out = InUTF8(SubSeq(source.text, 1, n))

\* What keeps the refinement: some number of whole code points of the text has
\* been taken, and as many written.
TextInv == Text => \E n \in 0 .. Len(source.text) : Converted(n)

\* What a view on a text is.
LEMMA TextType ==
  ASSUME BufferInv, Text
  PROVE  /\ source.text \in Texts /\ source.text \in Seq(ScalarValue)
         /\ buffer \in Seq(char16_t) /\ Len(buffer) \in Nat
         /\ source.size \in 0 .. Len(buffer)
         /\ SubSeq(buffer, 1, source.size) = InUTF16(source.text)
<1>1. /\ source \in [buffer : Seq(char16_t), size : Nat, text : Texts \cup {NoText}]
      /\ source.size <= Len(source.buffer)
      /\ source.text # NoText => SubSeq(source.buffer, 1, source.size) = InUTF16(source.text)
  BY EncoderAssumption DEF BufferInv, InUTF16
<1>2. source.text \in Texts
  BY <1>1 DEF Text
<1>3. source.text \in Seq(ScalarValue)
  BY <1>2, TextsAssumption
<1>4. buffer \in Seq(char16_t) /\ Len(buffer) \in Nat /\ source.size \in 0 .. Len(buffer)
  BY <1>1 DEF buffer
<1> QED BY <1>1, <1>2, <1>3, <1>4 DEF Text, buffer

\* What the refinement makes of such a state.
LEMMA ConvertedMeans ==
  ASSUME BufferInv, Text, NEW n \in 0 .. Len(source.text), Converted(n)
  PROVE  /\ Rest = SubSeq(source.text, n + 1, Len(source.text))
         /\ Done = SubSeq(source.text, 1, n)
         /\ it = source.size <=> n = Len(source.text)
<1> DEFINE text == source.text
<1>1. text \in Seq(ScalarValue)
  BY TextType
<1>2. PICK f, g : AreEncodings(text, f, g)
  BY <1>1, EncodingsExist
<1>3. SubSeq(buffer, 1, it) = f[n] /\ out = g[n]
  BY <1>1, <1>2, FrontEncoded DEF Converted
<1> DEFINE units == SubSeq(buffer, 1, it)
<1> HIDE DEF text, units
<1>4. /\ CountInUTF16(text, units) = {n} /\ CountInUTF8(text, out) = {n}
      /\ \A m \in 0 .. Len(text) : f[m] = f[n] => m = n
  <2>1. n \in 0 .. Len(text) /\ units = f[n]
    BY <1>3 DEF text, units
  <2>2. CountInUTF16(text, units) = {n}
    BY <1>1, <1>2, <1>3, <2>1, FrontCounted16
  <2>3. CountInUTF8(text, out) = {n}
    BY <1>1, <1>2, <1>3, <2>1, FrontCounted8
  <2>4. \A m \in 0 .. Len(text) : f[m] = f[n] => m = n
    BY <1>1, <1>2, <2>1, FrontTold
  <2> QED BY <2>2, <2>3, <2>4
<1>5. n \in Nat /\ Max({n}) = n
  BY MaxIs
<1>6. {n} # {}
  OBVIOUS
<1>7. Rest = SubSeq(text, n + 1, Len(text))
  BY <1>4, <1>5, <1>6 DEF Rest, text, units, CountInUTF16
<1>8. Done = SubSeq(text, 1, n)
  BY <1>4, <1>5, <1>6 DEF Done, text, CountInUTF8
<1>9. Len(text) \in 0 .. Len(text) /\ SubSeq(text, 1, Len(text)) = text
  BY <1>1, SubSeqFull
<1>10. SubSeq(buffer, 1, source.size) = f[Len(text)]
  <2>1. SubSeq(buffer, 1, source.size) = InUTF16(text)
    BY TextType DEF text
  <2>2. InUTF16(SubSeq(text, 1, Len(text))) = f[Len(text)]
    BY <1>1, <1>2, <1>9, FrontEncoded
  <2> QED BY <1>9, <2>1, <2>2
<1>11. it = source.size => n = Len(text)
  <2> SUFFICES ASSUME it = source.size PROVE n = Len(text)
    OBVIOUS
  <2>1. f[n] = f[Len(text)]
    BY <1>3, <1>10
  <2> QED BY <1>4, <1>9, <2>1
<1>12. n = Len(text) => it = source.size
  <2> SUFFICES ASSUME n = Len(text) PROVE it = source.size
    OBVIOUS
  <2>1. SubSeq(buffer, 1, it) = SubSeq(buffer, 1, source.size)
    BY <1>3, <1>10
  <2> QED BY <2>1, TextType, FrontSize DEF BufferInv
<1> QED BY <1>7, <1>8, <1>11, <1>12 DEF text

\* Nothing has been converted at first.
LEMMA ConvertedInit ==
  ASSUME Init
  PROVE  BufferInv /\ (Text => Converted(0))
<1>1. source \in Sources /\ it = 0 /\ out = <<>>
  BY DEF Init
<1>2. BufferInv
  <2>1. source \in [buffer : Seq(char16_t), size : Nat, text : Texts \cup {NoText}]
    BY <1>1, EncoderAssumption
  <2>2. Len(buffer) \in Nat
    BY <2>1 DEF buffer
  <2> QED BY <1>1, <2>2 DEF BufferInv
<1>3. ASSUME Text PROVE Converted(0)
  <2>1. source.text \in Seq(ScalarValue) /\ buffer \in Seq(char16_t)
    BY <1>2, <1>3, TextType
  <2>2. PICK f, g : AreEncodings(source.text, f, g)
    BY <2>1, EncodingsExist
  <2>3. f[0] = <<>> /\ g[0] = <<>>
    BY <2>2 DEF AreEncodings, JoinsUpto
  <2>4. 0 \in 0 .. Len(source.text)
    BY <2>1
  <2>5. InUTF16(SubSeq(source.text, 1, 0)) = <<>> /\ InUTF8(SubSeq(source.text, 1, 0)) = <<>>
    BY <2>1, <2>2, <2>3, <2>4, FrontEncoded
  <2>6. SubSeq(buffer, 1, 0) = <<>>
    BY <2>1
  <2> QED BY <1>1, <2>5, <2>6 DEF Converted
<1> QED BY <1>2, <1>3

\* An iteration that converts the next code point: what it reads is where the
\* encoding of that begins.
LEMMA NextDecoded ==
  ASSUME BufferInv, Text, NEW n \in 0 .. Len(source.text), Converted(n), it # source.size,
         NEW k, k = n + 1, NEW c, c = utf16_to_utf32(buffer, it)
  PROVE  /\ k \in 1 .. Len(source.text)
         /\ it + c.length \in 0 .. Len(buffer)
         /\ SubSeq(buffer, 1, it + c.length) = InUTF16(SubSeq(source.text, 1, k))
         /\ out \o utf32_to_utf8(c.value) = InUTF8(SubSeq(source.text, 1, k))
<1> DEFINE text == source.text
           size == source.size
           s == buffer
<1>1. /\ text \in Seq(ScalarValue) /\ Len(text) \in Nat
      /\ s \in Seq(char16_t) /\ Len(s) \in Nat /\ size \in 0 .. Len(s)
      /\ it \in 0 .. Len(s) /\ it \in Nat
      /\ SubSeq(s, 1, size) = InUTF16(text)
  BY TextType DEF BufferInv
<1>2. k \in 1 .. Len(text) /\ k \in 0 .. Len(text) /\ n \in 0 .. Len(text)
  BY <1>1, ConvertedMeans
<1>3. PICK f, g : AreEncodings(text, f, g)
  BY <1>1, EncodingsExist
<1>4. SubSeq(s, 1, it) = f[n] /\ out = g[n]
  BY <1>1, <1>3, FrontEncoded DEF Converted
<1> HIDE DEF text, size, s
<1>5. SubSeq(s, 1, size) = f[Len(text)]
  <2>1. Len(text) \in 0 .. Len(text) /\ SubSeq(text, 1, Len(text)) = text
    BY <1>1, SubSeqFull
  <2>2. InUTF16(SubSeq(text, 1, Len(text))) = f[Len(text)]
    BY <1>1, <1>3, <2>1, FrontEncoded
  <2> QED BY <1>1, <2>1, <2>2
<1> DEFINE u == UTF16(text[k])
           a == f[n]
           b == f[k]
           w == f[Len(text)]
<1>6. /\ b = a \o u /\ g[k] = g[n] \o utf32_to_utf8(text[k])
      /\ a \in Seq(Nat) /\ u \in Seq(Nat) /\ w \in Seq(Nat)
      /\ BeginsWith(w, b)
  <2>1. k = n + 1
    OBVIOUS
  <2>2. b = a \o u
    BY <1>1, <1>2, <1>3, <2>1, NextPiece
  <2>3. g[k] = g[n] \o utf32_to_utf8(text[k])
    <3>1. g[k] = g[n] \o UTF8(text[k])
      BY <1>1, <1>2, <1>3, <2>1, NextPiece
    <3>2. text[k] \in ScalarValue
      BY <1>1, <1>2
    <3> QED BY <3>1, <3>2, WritesScalarUTF8
  <2>4. a \in Seq(Nat) /\ u \in Seq(Nat) /\ w \in Seq(Nat)
    BY <1>1, <1>2, <1>3, <2>1, NextPiece
  <2>5. BeginsWith(w, b)
    BY <1>1, <1>2, <1>3, <2>1, NextPiece
  <2> QED BY <2>2, <2>3, <2>4, <2>5
<1>7. SubSeq(s, 1, it) = a /\ SubSeq(s, 1, size) = w
  BY <1>4, <1>5
<1>8. text[k] \in ScalarValue
  BY <1>1, <1>2
<1>9. InUTF16(SubSeq(text, 1, k)) = b /\ InUTF8(SubSeq(text, 1, k)) = g[k]
  BY <1>1, <1>2, <1>3, FrontEncoded
<1> HIDE DEF a, b, w, u
<1>10. Follows(s, it, u, b)
  BY <1>1, <1>6, <1>7, PieceFollows
<1>11. c = [length |-> Len(u), value |-> text[k]]
  <2> DEFINE v == text[k]
  <2>1. v \in ScalarValue /\ it \in Nat
    BY <1>1, <1>8
  <2>2. \A j \in 1 .. Len(UTF16(v)) : s[it + j] = UTF16(v)[j]
    BY <1>10 DEF u, Follows
  <2> HIDE DEF v
  <2>3. utf16_to_utf32(s, it) = [length |-> Len(UTF16(v)), value |-> v]
    BY ONLY <2>1, <2>2, ReadsUTF16
  <2> QED BY <2>3 DEF s, u, v
<1>12. c.length = Len(u) /\ c.value = text[k]
  BY <1>11
<1>13. out \o utf32_to_utf8(c.value) = InUTF8(SubSeq(text, 1, k))
  BY <1>4, <1>6, <1>9, <1>12
<1>14. /\ it + c.length \in 0 .. Len(s)
       /\ SubSeq(s, 1, it + c.length) = InUTF16(SubSeq(text, 1, k))
  BY <1>9, <1>10, <1>12 DEF Follows
<1> QED BY <1>2, <1>13, <1>14 DEF text, s

-----------------------------------------------------------------------------

\* The first state of the loop is one of Transcoding.
LEMMA ConvertedInitially ==
  ASSUME Init, BufferInv
  PROVE  TextInv /\ Converter!Init
<1>1. it = 0 /\ pc = "for"
  BY DEF Init
<1>2. CASE ~ Text
  <2>1. TextInv
    BY <1>2 DEF TextInv
  <2>2. Converter!Init
    BY <1>2 DEF Converter!Init
  <2> QED BY <2>1, <2>2
<1>3. CASE Text
  <2>1. Converted(0) /\ 0 \in 0 .. Len(source.text) /\ source.text \in Seq(ScalarValue) /\ source.text \in Texts
    BY <1>3, TextType, ConvertedInit
  <2>2. Rest = SubSeq(source.text, 0 + 1, Len(source.text)) /\ Done = SubSeq(source.text, 1, 0)
    BY <1>3, <2>1, ConvertedMeans
  <2>3. Rest = source.text /\ Done = <<>>
    BY <2>1, <2>2
  <2>4. Converter!Init
    BY <1>1, <1>3, <2>1, <2>3 DEF Converter!Init
  <2> QED BY <2>1, <2>4 DEF TextInv
<1> QED BY <1>2, <1>3

\* n code points handed over, as Transcoding sees it.
MappedBy(n) ==
  /\ Rest = SubSeq(source.text, n + 1, Len(source.text))
  /\ Done = SubSeq(source.text, 1, n)

\* What ConvertedMeans says, as a formula of one state.
LEMMA Mapped ==
  BufferInv /\ Text => \A n \in 0 .. Len(source.text) : Converted(n) => MappedBy(n)
BY ConvertedMeans DEF MappedBy

\* And of the next.
LEMMA MappedNext ==
  (BufferInv /\ Text => \A n \in 0 .. Len(source.text) : Converted(n) => MappedBy(n))'
BY Mapped, PTL

\* Where the iterator and the output stay, so does what the refinement makes of
\* them.
LEMMA StutterStep ==
  ASSUME TextInv, source' = source, it' = it, out' = out,
         Text => (pc' = "return" <=> pc = "return")
  PROVE  TextInv' /\ UNCHANGED Converter!vars
<1>1. (Text' <=> Text) /\ Rest' = Rest /\ Done' = Done /\ buffer' = buffer
  BY DEF Text, Rest, Done, buffer
<1>2. TextInv'
  BY <1>1 DEF TextInv, Converted
<1>3. UNCHANGED Converter!vars
  BY <1>1 DEF Converter!vars
<1> QED BY <1>2, <1>3

\* A step of the loop converts the next code point, returns when none is left,
\* or leaves what Transcoding sees as it is.
LEMMA RefinedStep ==
  ASSUME BufferInv, BufferInv', TextInv, [Next]_vars
  PROVE  TextInv' /\ [Converter!Next]_(Converter!vars)
<1>1. CASE Text /\ AppendChar
  <2> DEFINE c == utf16_to_utf32(buffer, it)
             text == source.text
  <2>1. /\ it # source.size /\ pc = "for" /\ pc' = pc /\ source' = source
        /\ it' = it + c.length /\ out' = out \o utf32_to_utf8(c.value)
    BY <1>1 DEF AppendChar, InLoop
  <2>2. buffer' = buffer /\ Text' /\ source'.text = text
    BY <1>1, <2>1 DEF buffer, Text
  <2>3. PICK n \in 0 .. Len(text) : Converted(n)
    BY <1>1 DEF TextInv
  <2> DEFINE k == n + 1
  <2>4. /\ k \in 1 .. Len(text)
        /\ SubSeq(buffer, 1, it + c.length) = InUTF16(SubSeq(text, 1, k))
        /\ out \o utf32_to_utf8(c.value) = InUTF8(SubSeq(text, 1, k))
    BY <1>1, <2>1, <2>3, NextDecoded
  <2>5. k = n + 1
    OBVIOUS
  <2> HIDE DEF c, k
  <2>6. Converted(k)'
    BY <2>1, <2>2, <2>4 DEF Converted
  <2>7. k \in 0 .. Len(text) /\ text \in Seq(ScalarValue)
    BY <1>1, <2>4, TextType
  <2>8. TextInv'
    BY <2>2, <2>6, <2>7 DEF TextInv
  <2>9. Rest = SubSeq(text, n + 1, Len(text)) /\ Done = SubSeq(text, 1, n)
    BY <1>1, <2>3, ConvertedMeans
  <2>10. (Rest = SubSeq(source.text, k + 1, Len(source.text)) /\ Done = SubSeq(source.text, 1, k))'
    <3>1. Text' /\ BufferInv' /\ Converted(k)' /\ k \in 0 .. Len(source'.text)
      BY <2>2, <2>6, <2>7
    <3>2. MappedBy(k)'
      BY <3>1, MappedNext
    <3> QED BY <3>2 DEF MappedBy
  <2>11. Rest' = SubSeq(text, k + 1, Len(text)) /\ Done' = SubSeq(text, 1, k)
    BY <2>2, <2>10
  <2>12. Rest \notin {<<>>, NoText} /\ Done' = Append(Done, Head(Rest)) /\ Rest' = Tail(Rest)
    BY <2>4, <2>5, <2>7, <2>9, <2>11, RestOfText, TextsAssumption
  <2>13. Converter!Convert
    BY <1>1, <2>1, <2>2, <2>12 DEF Converter!Convert
  <2> QED BY <2>8, <2>13 DEF Converter!Next
<1>2. CASE Text /\ (Exhausted \/ Overrun)
  <2>1. source' = source /\ it' = it /\ out' = out /\ pc = "for" /\ pc' # "return"
    BY <1>2 DEF Exhausted, Overrun, InLoop
  <2> QED BY <2>1, StutterStep
<1>3. CASE Text /\ Return
  <2>1. /\ source' = source /\ it' = it /\ out' = out /\ pc = "for" /\ pc' = "return"
        /\ it = source.size
    BY <1>3 DEF Return
  <2>2. (Text' <=> Text) /\ Rest' = Rest /\ Done' = Done /\ buffer' = buffer
    BY <2>1 DEF Text, Rest, Done, buffer
  <2>3. TextInv'
    BY <2>1, <2>2 DEF TextInv, Converted
  <2>4. PICK n \in 0 .. Len(source.text) : Converted(n)
    BY <1>3 DEF TextInv
  <2>5. n = Len(source.text) /\ Rest = SubSeq(source.text, n + 1, Len(source.text))
    BY <1>3, <2>1, <2>4, ConvertedMeans
  <2>6. Rest = <<>>
    <3>1. Len(source.text) \in Nat
      BY <1>3, TextType
    <3> QED BY <2>5, <3>1, SubSeqEmpty
  <2>7. Converter!Return
    BY <1>3, <2>1, <2>2, <2>6 DEF Converter!Return
  <2> QED BY <2>3, <2>7 DEF Converter!Next
<1>4. CASE ~ Text /\ Next
  <2>1. source' = source /\ ~ Text'
    BY <1>4 DEF Next, AppendChar, Exhausted, Overrun, Return, Text
  <2> QED BY <1>4, <2>1 DEF TextInv, Converter!vars
<1>5. CASE UNCHANGED vars
  BY <1>5, StutterStep DEF vars
<1> QED BY <1>1, <1>2, <1>3, <1>4, <1>5 DEF Next

\* What is text is converted code point by code point, in order, and the loop
\* returns only when none is left (coder.cpp:24-35): every step of the loop is a
\* step of Transcoding or leaves its variables as they are. Views that show no
\* text take no part.
THEOREM ConvertsInOrder == Spec => Converter!Init /\ [][Converter!Next]_(Converter!vars)
<1>1. LoopInv => BufferInv
  BY DEF LoopInv, BufferInv
<1>2. Init => TextInv /\ Converter!Init
  BY <1>1, LoopInit, ConvertedInitially
<1>3. LoopInv /\ LoopInv' /\ TextInv /\ [Next]_vars => TextInv' /\ [Converter!Next]_(Converter!vars)
  <2>1. LoopInv' => BufferInv'
    BY <1>1, PTL
  <2> QED BY <1>1, <2>1, RefinedStep
<1> QED BY <1>2, <1>3, LoopCorrect, PTL DEF Spec
=============================================================================
