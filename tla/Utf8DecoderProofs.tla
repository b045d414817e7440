------------------------- MODULE Utf8DecoderProofs -------------------------
(***************************************************************************)
(* Where the loop from UTF-8 to UTF-16 can be, and what it has appended,   *)
(* for every buffer and view and whatever the stack holds; and that it     *)
(* converts a text of the first plane as Transcoding says.                 *)
(***************************************************************************)
EXTENDS Utf8Decoder, CodeUnitsLemmas

NulTerminated == buffer # <<>> /\ buffer[Len(buffer)] = NUL

\* No character of the buffer goes on behind the first n bytes that begins in
\* them.
AtCharacter(n) ==
  \A j \in 1 .. n :
    ~ IsContinuation(buffer[j]) => j + utf8_sequence_length(buffer[j]) <= n + 1

\* The iterator is in the buffer, and in a buffer of whole characters it is
\* between two of them and has passed no NUL. Only at the end of such a buffer
\* can the loop read beyond it, and a terminator is not passed.
LoopInv ==
  /\ source \in Sources
  /\ it \in 0 .. Len(buffer)
  /\ WholeCharacters(buffer) =>
       /\ AtCharacter(it)
       /\ \A i \in 1 .. it : buffer[i] # NUL
       /\ pc = "undefined" => it = Len(buffer)
  /\ pc = "return" => it = source.size

-----------------------------------------------------------------------------
(* Bytes.                                                                  *)

\* A view is a record of a buffer of bytes and a size within it.
LEMMA SourceType ==
  ASSUME source \in Sources
  PROVE  /\ buffer \in Seq(char8_t)
         /\ Len(buffer) \in Nat
         /\ source.size \in 0 .. Len(buffer)
         /\ \A i \in 1 .. Len(buffer) : buffer[i] \in char8_t
<1>1. /\ source \in [buffer : Seq(char8_t), size : Nat, text : Texts \cup {NoText}]
      /\ source.size <= Len(source.buffer)
  BY DecoderAssumption
<1> QED
  BY <1>1 DEF buffer

LEMMA LeadingOnesType ==
  ASSUME NEW c \in char8_t
  PROVE  LeadingOnes(c) \in 0 .. 8
<1> DEFINE S == {n \in 0 .. 8 : c >= 256 - 2 ^ (8 - n)}
<1>1. 0 \in S
  <2>1. 2 ^ (8 - 0) = 256
    OBVIOUS
  <2> QED BY <2>1 DEF char8_t
<1>2. S \subseteq 0 .. 8
  OBVIOUS
<1>3. LeadingOnes(c) = Max(S)
  BY DEF LeadingOnes
<1> HIDE DEF S
<1>4. \E m \in S : \A x \in S : x <= m
  <2>1. \A x \in S : x \in {0, 1, 2, 3, 4, 5, 6, 7, 8}
    BY <1>2
  <2> QED BY <1>1, <2>1
<1>5. PICK m \in S : \A x \in S : x <= m
  BY <1>4
<1>6. Max(S) = m
  <2>1. S \in SUBSET Int
    BY <1>2
  <2> QED BY <1>5, <2>1, MaxIs
<1> QED BY <1>2, <1>3, <1>5, <1>6

\* NUL is no continuation byte.
LEMMA NulBegins == ~ IsContinuation(NUL)
<1> DEFINE S == {n \in 0 .. 8 : 0 >= 256 - 2 ^ (8 - n)}
<1>1. 1 \notin S
  <2>1. 2 ^ (8 - 1) = 128
    OBVIOUS
  <2> QED BY <2>1
<1>2. 0 \in S
  <2>1. 2 ^ (8 - 0) = 256
    OBVIOUS
  <2> QED BY <2>1
<1>3. S \subseteq 0 .. 8
  OBVIOUS
<1>4. LeadingOnes(NUL) = Max(S)
  BY DEF LeadingOnes, NUL
<1> HIDE DEF S
<1>5. \E m \in S : \A x \in S : x <= m
  <2>1. \A x \in S : x \in {0, 1, 2, 3, 4, 5, 6, 7, 8}
    BY <1>3
  <2> QED BY <1>2, <2>1
<1>6. PICK m \in S : \A x \in S : x <= m
  BY <1>5
<1>7. Max(S) = m
  <2>1. S \in SUBSET Int
    BY <1>3
  <2> QED BY <1>6, <2>1, MaxIs
<1> QED BY <1>1, <1>4, <1>6, <1>7 DEF IsContinuation

\* A continuation byte announces no character, any other byte announces one.
LEMMA SequenceLength ==
  ASSUME NEW c \in char8_t
  PROVE  /\ utf8_sequence_length(c) \in 0 .. 8
         /\ IsContinuation(c) <=> utf8_sequence_length(c) = 0
<1> DEFINE n == LeadingOnes(c)
<1>1. n \in 0 .. 8
  BY LeadingOnesType
<1>2. utf8_sequence_length(c) = IF n > 1 THEN n ELSE 1 - n
  BY DEF utf8_sequence_length
<1>3. IsContinuation(c) <=> n = 1
  BY DEF IsContinuation
<1> HIDE DEF n
<1> QED BY <1>1, <1>2, <1>3

\* How many bytes utf8_to_utf32 takes.
LEMMA LengthTaken ==
  ASSUME NEW s, NEW i
  PROVE  utf8_to_utf32(s, i).length =
           IF s[i + 1] = NUL THEN 0 ELSE utf8_sequence_length(s[i + 1])
BY DEF utf8_to_utf32

-----------------------------------------------------------------------------
(* Buffers of whole characters.                                            *)

\* Behind a character another one begins, and it ends in the buffer.
LEMMA NextCharacter ==
  ASSUME buffer \in Seq(char8_t), WholeCharacters(buffer),
         NEW n \in 0 .. (Len(buffer) - 1), AtCharacter(n)
  PROVE  /\ ~ IsContinuation(buffer[n + 1])
         /\ n + utf8_sequence_length(buffer[n + 1]) <= Len(buffer)
         /\ \A k \in (n + 2) .. (n + utf8_sequence_length(buffer[n + 1])) :
              IsContinuation(buffer[k])
<1>1. /\ n + 1 \in 1 .. Len(buffer) /\ n \in Nat /\ Len(buffer) \in Nat
      /\ \A i \in 1 .. Len(buffer) : buffer[i] \in char8_t
  OBVIOUS
<1>2. ~ IsContinuation(buffer[n + 1])
  <2> SUFFICES ASSUME IsContinuation(buffer[n + 1]) PROVE FALSE
    OBVIOUS
  <2>1. PICK j \in 1 .. ((n + 1) - 1) : n + 1 < j + utf8_sequence_length(buffer[j])
    BY <1>1 DEF WholeCharacters
  <2>2. j \in 1 .. n /\ buffer[j] \in char8_t
    BY <1>1
  <2>3. utf8_sequence_length(buffer[j]) \in 0 .. 8 /\ utf8_sequence_length(buffer[j]) # 0
    BY <1>1, <2>1, <2>2, SequenceLength
  <2>4. j + utf8_sequence_length(buffer[j]) <= n + 1
    BY <2>2, <2>3, SequenceLength DEF AtCharacter
  <2> QED BY <1>1, <2>1, <2>2, <2>3, <2>4
<1> DEFINE taken == utf8_sequence_length(buffer[n + 1])
<1>3. /\ (n + 1) + taken - 1 <= Len(buffer)
      /\ \A k \in ((n + 1) + 1) .. ((n + 1) + taken - 1) : IsContinuation(buffer[k])
  BY <1>1, <1>2 DEF WholeCharacters
<1>4. taken \in 0 .. 8
  BY <1>1, SequenceLength
<1> HIDE DEF taken
<1>5. (n + 1) + taken - 1 = n + taken /\ (n + 1) + 1 = n + 2
  BY <1>1, <1>4
<1> QED BY <1>2, <1>3, <1>5 DEF taken

\* The iterator goes on to the end of a character.
LEMMA StepsToCharacter ==
  ASSUME buffer \in Seq(char8_t), WholeCharacters(buffer),
         NEW n \in 0 .. (Len(buffer) - 1), AtCharacter(n), buffer[n + 1] # NUL,
         \A i \in 1 .. n : buffer[i] # NUL
  PROVE  /\ AtCharacter(n + utf8_sequence_length(buffer[n + 1]))
         /\ \A i \in 1 .. (n + utf8_sequence_length(buffer[n + 1])) : buffer[i] # NUL
<1> DEFINE taken == utf8_sequence_length(buffer[n + 1])
<1>1. /\ n + 1 \in 1 .. Len(buffer) /\ n \in Nat
      /\ \A i \in 1 .. Len(buffer) : buffer[i] \in char8_t
  OBVIOUS
<1>2. taken \in 0 .. 8
  BY <1>1, SequenceLength
<1>3. \A k \in (n + 2) .. (n + taken) : IsContinuation(buffer[k])
  BY NextCharacter
<1>4. \A j \in 1 .. n :
        ~ IsContinuation(buffer[j]) => j + utf8_sequence_length(buffer[j]) <= n + 1
  BY DEF AtCharacter
<1>5. \A j \in 1 .. n : utf8_sequence_length(buffer[j]) \in 0 .. 8
  BY <1>1, SequenceLength
<1>6. taken # 0
  BY <1>1, SequenceLength, NextCharacter
<1>7. (n + 1) + utf8_sequence_length(buffer[n + 1]) = (n + taken) + 1
  <2>1. utf8_sequence_length(buffer[n + 1]) = taken
    OBVIOUS
  <2> HIDE DEF taken
  <2> QED BY <1>1, <1>2, <2>1
<1> HIDE DEF taken
<1>8. \A j \in 1 .. (n + taken) : j \in 1 .. n \/ j = n + 1 \/ j \in (n + 2) .. (n + taken)
  BY <1>1, <1>2
<1>9. AtCharacter(n + taken)
  <2> SUFFICES ASSUME NEW j \in 1 .. (n + taken), ~ IsContinuation(buffer[j])
               PROVE  j + utf8_sequence_length(buffer[j]) <= (n + taken) + 1
    BY DEF AtCharacter
  <2>1. CASE j \in 1 .. n
    <3>1. j + utf8_sequence_length(buffer[j]) <= n + 1 /\ utf8_sequence_length(buffer[j]) \in 0 .. 8
      BY <1>4, <1>5, <2>1
    <3> QED BY <1>1, <1>2, <1>6, <2>1, <3>1
  <2>2. CASE j = n + 1
    BY <1>1, <1>2, <1>7, <2>2
  <2> QED BY <1>3, <1>8, <2>1, <2>2
<1>10. \A i \in 1 .. (n + taken) : buffer[i] # NUL
  BY <1>3, <1>8, NulBegins
<1> QED BY <1>9, <1>10 DEF taken

-----------------------------------------------------------------------------
(* The loop.                                                               *)

LEMMA LoopInit == Init => LoopInv
<1> SUFFICES ASSUME Init PROVE LoopInv
  OBVIOUS
<1>1. source \in Sources /\ it = 0 /\ pc = "for"
  BY DEF Init
<1>2. Len(buffer) \in Nat
  BY <1>1, SourceType
<1> QED BY <1>1, <1>2 DEF LoopInv, AtCharacter

\* A code point is taken: the iterator moves by its length.
LEMMA TakesCharacter ==
  ASSUME LoopInv, InLoop, InBuffer, source' = source, pc' = pc,
         it' = it + utf8_to_utf32(buffer, it).length
  PROVE  LoopInv'
<1> DEFINE taken == utf8_sequence_length(buffer[it + 1])
<1>1. /\ buffer \in Seq(char8_t) /\ Len(buffer) \in Nat /\ it \in Nat
      /\ \A i \in 1 .. Len(buffer) : buffer[i] \in char8_t
  BY SourceType DEF LoopInv
<1>2. it < Len(buffer) /\ it + taken <= Len(buffer)
  BY DEF InBuffer
<1>3. it \in 0 .. (Len(buffer) - 1) /\ it + 1 \in 1 .. Len(buffer) /\ pc = "for"
  BY <1>1, <1>2 DEF InLoop
<1>4. taken \in 0 .. 8
  BY <1>1, <1>3, SequenceLength
<1>5. buffer' = buffer
  BY DEF buffer
<1>6. CASE buffer[it + 1] = NUL
  <2>1. it' = it
    BY <1>1, <1>6, LengthTaken
  <2> QED BY <1>3, <1>5, <2>1 DEF LoopInv, AtCharacter
<1>7. CASE buffer[it + 1] # NUL
  <2>1. it' = it + taken
    BY <1>7, LengthTaken
  <2>2. it' \in 0 .. Len(buffer)
    BY <1>1, <1>2, <1>4, <2>1
  <2>3. ASSUME WholeCharacters(buffer)
        PROVE  AtCharacter(it + taken) /\ \A i \in 1 .. (it + taken) : buffer[i] # NUL
    BY <1>1, <1>3, <1>7, <2>3, StepsToCharacter DEF LoopInv
  <2> HIDE DEF taken
  <2> QED BY <1>3, <1>5, <2>1, <2>2, <2>3 DEF LoopInv, AtCharacter
<1> QED BY <1>6, <1>7

LEMMA LoopStep == LoopInv /\ [Next]_vars => LoopInv'
<1> SUFFICES ASSUME LoopInv, [Next]_vars PROVE LoopInv'
  OBVIOUS
<1>1. CASE AppendChar \/ AppendStale
  <2>1. /\ InLoop /\ InBuffer /\ source' = source /\ pc' = pc
        /\ it' = it + utf8_to_utf32(buffer, it).length
    BY <1>1 DEF AppendChar, AppendStale, AppendUnits
  <2> QED BY <2>1, TakesCharacter
<1>2. CASE Exhausted
  <2>1. source' = source /\ it' = it /\ pc' = "terminated"
    BY <1>2 DEF Exhausted
  <2> QED BY <2>1 DEF LoopInv, buffer, AtCharacter
<1>3. CASE Overrun
  <2>1. source' = source /\ it' = it /\ pc' = "undefined" /\ ~ InBuffer
    BY <1>3 DEF Overrun
  <2>2. buffer \in Seq(char8_t) /\ Len(buffer) \in Nat /\ it \in 0 .. Len(buffer)
    BY SourceType DEF LoopInv
  <2>3. ASSUME WholeCharacters(buffer) PROVE it = Len(buffer)
    <3> SUFFICES ASSUME it < Len(buffer) PROVE FALSE
      BY <2>2
    <3>1. it \in 0 .. (Len(buffer) - 1) /\ AtCharacter(it)
      BY <2>2, <2>3 DEF LoopInv
    <3>2. it + utf8_sequence_length(buffer[it + 1]) <= Len(buffer)
      BY <2>2, <2>3, <3>1, NextCharacter
    <3> QED BY <2>1, <3>2 DEF InBuffer
  <2> QED BY <2>1, <2>3 DEF LoopInv, buffer, AtCharacter
<1>4. CASE Return
  <2>1. source' = source /\ it' = it /\ pc' = "return" /\ it = source.size
    BY <1>4 DEF Return
  <2> QED BY <2>1 DEF LoopInv, buffer, AtCharacter
<1>5. CASE UNCHANGED vars
  BY <1>5 DEF vars, LoopInv, buffer, AtCharacter
<1> QED BY <1>1, <1>2, <1>3, <1>4, <1>5 DEF Next

LEMMA LoopCorrect == Spec => []LoopInv
BY LoopInit, LoopStep, PTL DEF Spec

\* decode_from_utf8 reads beyond a NUL-terminated buffer only if what the
\* buffer holds is not made of whole characters.
THEOREM OverrunOnlyTorn == Spec => []OverrunCause
<1>1. LoopInv => OverrunCause
  <2> SUFFICES ASSUME LoopInv, pc = "undefined", WholeCharacters(buffer),
                      buffer # <<>>, buffer[Len(buffer)] = NUL
               PROVE  FALSE
    BY DEF OverrunCause
  <2>1. it = Len(buffer) /\ \A i \in 1 .. it : buffer[i] # NUL
    BY DEF LoopInv
  <2>2. buffer \in Seq(char8_t)
    BY SourceType DEF LoopInv
  <2>3. Len(buffer) \in 1 .. Len(buffer)
    BY <2>2
  <2> QED BY <2>1, <2>3
<1> QED BY <1>1, LoopCorrect, PTL

\* In a buffer of whole characters decode_from_utf8 returns only if the view
\* ends with a character and has no NUL.
THEOREM ReturnMeansWhole == Spec => []ReturnsOnlyWhole
<1>1. LoopInv => ReturnsOnlyWhole
  <2> SUFFICES ASSUME LoopInv, pc = "return", WholeCharacters(buffer)
               PROVE  WholeCharacters(view) /\ ~ HasNul(view)
    BY DEF ReturnsOnlyWhole
  <2>1. /\ buffer \in Seq(char8_t) /\ Len(buffer) \in Nat /\ it \in 0 .. Len(buffer)
        /\ it = source.size /\ AtCharacter(it) /\ \A i \in 1 .. it : buffer[i] # NUL
        /\ \A i \in 1 .. Len(buffer) : buffer[i] \in char8_t
    BY SourceType DEF LoopInv
  <2>2. Len(view) = it /\ \A i \in 1 .. it : view[i] = buffer[i]
    BY <2>1 DEF view
  <2>3. ~ HasNul(view)
    BY <2>1, <2>2 DEF HasNul
  <2>4. ASSUME NEW i \in 1 .. it, IsContinuation(view[i])
        PROVE  \E j \in 1 .. (i - 1) : i < j + utf8_sequence_length(view[j])
    <3>1. i \in 1 .. Len(buffer) /\ IsContinuation(buffer[i])
      BY <2>1, <2>2, <2>4
    <3>2. PICK j \in 1 .. (i - 1) : i < j + utf8_sequence_length(buffer[j])
      BY <3>1 DEF WholeCharacters
    <3>3. j \in 1 .. it
      BY <2>1
    <3> QED BY <2>2, <3>2, <3>3
  <2>5. ASSUME NEW i \in 1 .. it, ~ IsContinuation(view[i])
        PROVE  /\ i + utf8_sequence_length(view[i]) - 1 <= it
               /\ \A k \in (i + 1) .. (i + utf8_sequence_length(view[i]) - 1) :
                    IsContinuation(view[k])
    <3> DEFINE taken == utf8_sequence_length(buffer[i])
    <3>1. i \in 1 .. Len(buffer) /\ ~ IsContinuation(buffer[i]) /\ view[i] = buffer[i]
      BY <2>1, <2>2, <2>5
    <3>2. taken \in 0 .. 8
      BY <2>1, <3>1, SequenceLength
    <3>3. i + taken <= it + 1
      BY <2>1, <3>1 DEF AtCharacter
    <3>4. \A k \in (i + 1) .. (i + taken - 1) : IsContinuation(buffer[k])
      BY <3>1 DEF WholeCharacters
    <3> HIDE DEF taken
    <3>5. \A k \in (i + 1) .. (i + taken - 1) : k \in 1 .. it
      BY <2>1, <3>2, <3>3
    <3>6. i + taken - 1 <= it /\ \A k \in (i + 1) .. (i + taken - 1) : IsContinuation(view[k])
      BY <2>1, <2>2, <3>2, <3>3, <3>4, <3>5
    <3> QED BY <3>1, <3>6 DEF taken
  <2> QED BY <2>2, <2>3, <2>4, <2>5 DEF WholeCharacters
<1> QED BY <1>1, LoopCorrect, PTL

-----------------------------------------------------------------------------
(* What is appended.                                                       *)

\* The units that a character within the buffer becomes.
CharacterUnits ==
  UNION {LET units == utf32_to_utf16(utf8_to_utf32(buffer, i).value)
         IN  {units[k] : k \in 1 .. Len(units)} :
           i \in {n \in 0 .. (Len(buffer) - 1) :
                   n + utf8_sequence_length(buffer[n + 1]) <= Len(buffer)}}

\* Unless the first character has the value 0, nothing is appended before
\* utf32_to_utf16 has written the units.
AppendInv ==
  utf8_to_utf32(buffer, 0).value # 0 =>
    /\ out \in Seq(CharacterUnits)
    /\ it = 0 \/ utf16 \in Seq(CharacterUnits)

\* One unit is written or two.
LEMMA UnitsWritten ==
  ASSUME NEW v
  PROVE  utf32_to_utf16(v) \in Seq({utf32_to_utf16(v)[k] : k \in 1 .. Len(utf32_to_utf16(v))})
<1>1. CASE v > FIRST_PLANE_MAX
  <2> DEFINE a == (v \div 1024 + LEAD_SURROGATE_MIN) % 65536
             b == (v % 1024) + TRAIL_SURROGATE_MIN
  <2>1. utf32_to_utf16(v) = <<a, b>>
    BY <1>1 DEF utf32_to_utf16
  <2> HIDE DEF a, b
  <2> QED BY <2>1
<1>2. CASE ~ (v > FIRST_PLANE_MAX)
  <2>1. utf32_to_utf16(v) = <<v>>
    BY <1>2 DEF utf32_to_utf16
  <2> QED BY <2>1
<1> QED BY <1>1, <1>2

LEMMA AppendInit == Init => AppendInv
BY DEF Init, AppendInv

LEMMA AppendStep == LoopInv /\ AppendInv /\ [Next]_vars => AppendInv'
<1> SUFFICES ASSUME LoopInv, AppendInv, [Next]_vars, (utf8_to_utf32(buffer, 0).value # 0)'
             PROVE  AppendInv'
  BY DEF AppendInv
<1>1. source' = source
  BY DEF Next, vars, AppendChar, AppendStale, AppendUnits, Exhausted, Overrun, Return
<1>2. buffer' = buffer
  BY <1>1 DEF buffer
<1>3. CharacterUnits' = CharacterUnits
  BY <1>2 DEF CharacterUnits
<1>4. /\ utf8_to_utf32(buffer, 0).value # 0
      /\ out \in Seq(CharacterUnits) /\ (it = 0 \/ utf16 \in Seq(CharacterUnits))
  <2>1. utf8_to_utf32(buffer, 0).value # 0
    BY <1>2
  <2> QED BY <2>1 DEF AppendInv
<1>5. CASE AppendChar
  <2> DEFINE units == utf32_to_utf16(utf8_to_utf32(buffer, it).value)
  <2>1. InBuffer /\ utf16' = units /\ out' = out \o units
    BY <1>5 DEF AppendChar, AppendUnits
  <2>2. units \in Seq({units[k] : k \in 1 .. Len(units)})
    BY UnitsWritten
  <2>3. it \in {n \in 0 .. (Len(buffer) - 1) :
                  n + utf8_sequence_length(buffer[n + 1]) <= Len(buffer)}
    <3>1. Len(buffer) \in Nat /\ it \in 0 .. Len(buffer)
      BY SourceType DEF LoopInv
    <3> QED BY <2>1, <3>1 DEF InBuffer
  <2>4. {units[k] : k \in 1 .. Len(units)} \subseteq CharacterUnits
    BY <2>3 DEF CharacterUnits
  <2> HIDE DEF units
  <2>5. units \in Seq(CharacterUnits)
    BY <2>2, <2>4
  <2>6. out \o units \in Seq(CharacterUnits)
    BY <1>4, <2>5
  <2> QED BY <1>3, <2>1, <2>5, <2>6 DEF AppendInv
<1>6. CASE AppendStale
  <2>1. utf8_to_utf32(buffer, it).value = 0 /\ out' = out \o utf16 /\ utf16' = utf16
    BY <1>6 DEF AppendStale, AppendUnits
  <2>2. utf16 \in Seq(CharacterUnits)
    BY <1>4, <2>1
  <2>3. out \o utf16 \in Seq(CharacterUnits)
    BY <1>4, <2>2
  <2> QED BY <1>3, <2>1, <2>2, <2>3 DEF AppendInv
<1>7. CASE Exhausted \/ Overrun \/ Return \/ UNCHANGED vars
  <2>1. it' = it /\ utf16' = utf16 /\ out' = out
    BY <1>7 DEF Exhausted, Overrun, Return, vars
  <2> QED BY <1>3, <1>4, <2>1 DEF AppendInv
<1> QED BY <1>5, <1>6, <1>7 DEF Next

\* What the stack held before the first code point was written gets into the
\* string only by a first character of the value 0.
THEOREM StackOnlyByNul == ASSUME StackUnitsMarked PROVE Spec => []StackUnitsCause
<1>1. Spec => []AppendInv
  BY AppendInit, AppendStep, LoopCorrect, PTL DEF Spec
<1>2. LoopInv /\ AppendInv => StackUnitsCause
  <2> SUFFICES ASSUME LoopInv, AppendInv, utf8_to_utf32(buffer, 0).value # 0,
                      NEW i \in 1 .. Len(out), NEW stale \in StackUnits,
                      NEW k \in 1 .. Len(stale), out[i] = stale[k]
               PROVE  FALSE
    BY DEF StackUnitsCause
  <2>1. out[i] \in CharacterUnits
    <3>1. out \in Seq(CharacterUnits)
      BY DEF AppendInv
    <3> QED BY <3>1
  <2>2. PICK n \in 0 .. (Len(buffer) - 1) :
          /\ n + utf8_sequence_length(buffer[n + 1]) <= Len(buffer)
          /\ out[i] \in LET units == utf32_to_utf16(utf8_to_utf32(buffer, n).value)
                       IN  {units[j] : j \in 1 .. Len(units)}
    BY <2>1 DEF CharacterUnits
  <2> DEFINE units == utf32_to_utf16(utf8_to_utf32(buffer, n).value)
  <2>3. PICK j \in 1 .. Len(units) : out[i] = units[j]
    BY <2>2
  <2>4. units[j] # stale[k]
    BY <2>2 DEF StackUnitsMarked, LoopInv, buffer
  <2> QED BY <2>3, <2>4
<1> QED BY <1>1, <1>2, LoopCorrect, PTL

-----------------------------------------------------------------------------
(* One character.                                                          *)

\* The least byte with n leading ones.
LEMMA Thresholds ==
  /\ 256 - 2 ^ (8 - 0) = 0 /\ 256 - 2 ^ (8 - 1) = 128 /\ 256 - 2 ^ (8 - 2) = 192
  /\ 256 - 2 ^ (8 - 3) = 224 /\ 256 - 2 ^ (8 - 4) = 240 /\ 256 - 2 ^ (8 - 5) = 248
  /\ 256 - 2 ^ (8 - 6) = 252 /\ 256 - 2 ^ (8 - 7) = 254 /\ 256 - 2 ^ (8 - 8) = 255
<1>1. 256 - 2 ^ (8 - 0) = 0 /\ 256 - 2 ^ (8 - 1) = 128 /\ 256 - 2 ^ (8 - 2) = 192
  OBVIOUS
<1>2. 256 - 2 ^ (8 - 3) = 224 /\ 256 - 2 ^ (8 - 4) = 240 /\ 256 - 2 ^ (8 - 5) = 248
  OBVIOUS
<1>3. 256 - 2 ^ (8 - 6) = 252 /\ 256 - 2 ^ (8 - 7) = 254 /\ 256 - 2 ^ (8 - 8) = 255
  OBVIOUS
<1> QED BY <1>1, <1>2, <1>3

\* The leading ones of the bytes that valid UTF-8 has.
LEMMA LeadingOnesIs ==
  ASSUME NEW c \in Nat, c < 248
  PROVE  LeadingOnes(c) = IF c < 128 THEN 0 ELSE IF c < 192 THEN 1
                          ELSE IF c < 224 THEN 2 ELSE IF c < 240 THEN 3 ELSE 4
<1> DEFINE S == {n \in 0 .. 8 : c >= 256 - 2 ^ (8 - n)}
           m == IF c < 128 THEN 0 ELSE IF c < 192 THEN 1
                ELSE IF c < 224 THEN 2 ELSE IF c < 240 THEN 3 ELSE 4
<1>1. /\ 0 \in S
      /\ 1 \in S <=> c >= 128
      /\ 2 \in S <=> c >= 192
      /\ 3 \in S <=> c >= 224
      /\ 4 \in S <=> c >= 240
  BY Thresholds
<1>2. 5 \notin S /\ 6 \notin S /\ 7 \notin S /\ 8 \notin S
  BY Thresholds
<1>3. S \in SUBSET Int /\ \A n \in S : n \in {0, 1, 2, 3, 4, 5, 6, 7, 8}
  OBVIOUS
<1>4. LeadingOnes(c) = Max(S)
  BY DEF LeadingOnes
<1> HIDE DEF S
<1>5. m \in S /\ \A n \in S : n <= m
  BY <1>1, <1>2, <1>3
<1> QED BY <1>3, <1>4, <1>5, MaxIs

\* How many values the bits after them have.
LEMMA PayloadRange ==
  2 ^ (8 - 0) = 256 /\ 2 ^ (8 - 1) = 128 /\ 2 ^ (8 - 2) = 64 /\ 2 ^ (8 - 3) = 32 /\ 2 ^ (8 - 4) = 16
<1>1. 2 ^ (8 - 0) = 256 /\ 2 ^ (8 - 1) = 128 /\ 2 ^ (8 - 2) = 64
  OBVIOUS
<1>2. 2 ^ (8 - 3) = 32 /\ 2 ^ (8 - 4) = 16
  OBVIOUS
<1> QED BY <1>1, <1>2

\* A byte that begins a character of n bytes, with what it carries of the value.
LEMMA FirstByte ==
  ASSUME NEW c \in Nat, NEW x \in Nat
  PROVE  /\ c = x /\ x < 128 => utf8_sequence_length(c) = 1 /\ Payload(c) = x
         /\ c = 192 + x /\ x < 32 => utf8_sequence_length(c) = 2 /\ Payload(c) = x
         /\ c = 224 + x /\ x < 16 => utf8_sequence_length(c) = 3 /\ Payload(c) = x
         /\ c = 240 + x /\ x < 8 => utf8_sequence_length(c) = 4 /\ Payload(c) = x
<1>1. ASSUME c = x, x < 128 PROVE utf8_sequence_length(c) = 1 /\ Payload(c) = x
  <2>1. LeadingOnes(c) = 0
    BY <1>1, LeadingOnesIs
  <2> QED BY <1>1, <2>1, PayloadRange DEF utf8_sequence_length, Payload
<1>2. ASSUME c = 192 + x, x < 32 PROVE utf8_sequence_length(c) = 2 /\ Payload(c) = x
  <2>1. LeadingOnes(c) = 2
    BY <1>2, LeadingOnesIs
  <2>2. Payload(c) = c % 64
    BY <2>1, PayloadRange DEF Payload
  <2>3. c % 64 = x
    BY <1>2
  <2> QED BY <2>1, <2>2, <2>3 DEF utf8_sequence_length
<1>3. ASSUME c = 224 + x, x < 16 PROVE utf8_sequence_length(c) = 3 /\ Payload(c) = x
  <2>1. LeadingOnes(c) = 3
    BY <1>3, LeadingOnesIs
  <2>2. Payload(c) = c % 32
    BY <2>1, PayloadRange DEF Payload
  <2>3. c % 32 = x
    BY <1>3
  <2> QED BY <2>1, <2>2, <2>3 DEF utf8_sequence_length
<1>4. ASSUME c = 240 + x, x < 8 PROVE utf8_sequence_length(c) = 4 /\ Payload(c) = x
  <2>1. LeadingOnes(c) = 4
    BY <1>4, LeadingOnesIs
  <2>2. Payload(c) = c % 16
    BY <2>1, PayloadRange DEF Payload
  <2>3. c % 16 = x
    BY <1>4
  <2> QED BY <2>1, <2>2, <2>3 DEF utf8_sequence_length
<1> QED BY <1>1, <1>2, <1>3, <1>4

\* A continuation byte carries six bits, which are shifted in.
LEMMA SixBitsCarried ==
  ASSUME NEW c \in Nat, 128 <= c, c < 192
  PROVE  Payload(c) = c - 128
<1>1. LeadingOnes(c) = 1
  BY LeadingOnesIs
<1>2. Payload(c) = c % 128
  BY <1>1, PayloadRange DEF Payload
<1>3. c % 128 = c - 128
  OBVIOUS
<1> QED BY <1>2, <1>3

\* So it makes the value 64 times as large, and adds what it carries.
LEMMA ContinuationByte ==
  ASSUME NEW v \in Nat, v < 32768, NEW r \in Nat, r < 64, NEW c, c = 128 + r,
         NEW w, w = 64 * v + r
  PROVE  ShiftIn(v, c) = w
<1>1. Payload(c) = r
  BY SixBitsCarried
<1>2. v % 2 ^ 26 = v
  <2>1. 2 ^ 26 = 67108864
    OBVIOUS
  <2> QED BY <2>1
<1>3. r % 64 = r
  OBVIOUS
<1> QED BY <1>1, <1>2, <1>3 DEF ShiftIn

-----------------------------------------------------------------------------

\* What the loop of utf8_to_utf32 has after the first n continuation bytes.
ValueUpto(f, s, i, n) ==
  f = [k \in 0 .. n |-> IF k = 0 THEN Payload(s[i + 1]) ELSE ShiftIn(f[k - 1], s[i + 1 + k])]

\* There is such a function for every number of bytes.
LEMMA ValueExists ==
  ASSUME NEW s, NEW i, NEW n \in Nat
  PROVE  \E f : ValueUpto(f, s, i, n)
<1> DEFINE S == {m \in Nat : \E f : ValueUpto(f, s, i, m)}
<1>1. 0 \in S
  <2> DEFINE f == [k \in 0 .. 0 |-> Payload(s[i + 1])]
  <2>1. ValueUpto(f, s, i, 0)
    BY DEF ValueUpto
  <2> HIDE DEF f
  <2> QED BY <2>1
<1>2. ASSUME NEW m \in S PROVE m + 1 \in S
  <2>1. PICK f : ValueUpto(f, s, i, m)
    OBVIOUS
  <2>2. m \in Nat /\ (m + 1) - 1 = m /\ m + 1 # 0
    OBVIOUS
  <2> DEFINE g == [k \in 0 .. m + 1 |-> IF k = m + 1 THEN ShiftIn(f[m], s[i + 1 + k]) ELSE f[k]]
  <2>3. \A k \in 0 .. m + 1 :
          g[k] = IF k = 0 THEN Payload(s[i + 1]) ELSE ShiftIn(g[k - 1], s[i + 1 + k])
    <3> SUFFICES ASSUME NEW k \in 0 .. m + 1
                 PROVE  g[k] = IF k = 0 THEN Payload(s[i + 1]) ELSE ShiftIn(g[k - 1], s[i + 1 + k])
      OBVIOUS
    <3>1. CASE k = m + 1
      <4>1. g[m] = f[m] /\ k # 0 /\ k - 1 = m
        BY <2>2, <3>1
      <4> QED BY <3>1, <4>1
    <3>2. CASE k # m + 1
      <4>1. k \in 0 .. m /\ (k # 0 => k - 1 \in 0 .. m + 1 /\ k - 1 # m + 1)
        BY <2>2, <3>2
      <4>2. g[k] = f[k] /\ (k # 0 => g[k - 1] = f[k - 1])
        BY <3>2, <4>1
      <4>3. f[k] = IF k = 0 THEN Payload(s[i + 1]) ELSE ShiftIn(f[k - 1], s[i + 1 + k])
        BY <2>1, <4>1 DEF ValueUpto
      <4> QED BY <4>2, <4>3
    <3> QED BY <3>1, <3>2
  <2>4. ValueUpto(g, s, i, m + 1)
    BY <2>3 DEF ValueUpto
  <2> HIDE DEF g
  <2> QED BY <2>2, <2>4
<1>3. S \in SUBSET Nat
  OBVIOUS
<1> HIDE DEF S
<1>4. S = Nat
  BY <1>1, <1>2, <1>3, SetInduction
<1>5. n \in S
  BY <1>4
<1> QED BY <1>5 DEF S

\* There is only one such function.
LEMMA ValueUnique ==
  ASSUME NEW s, NEW i, NEW m \in Nat, NEW n \in Nat, NEW f, ValueUpto(f, s, i, m),
         NEW g, ValueUpto(g, s, i, n), NEW k \in Nat, k <= m, k <= n
  PROVE  f[k] = g[k]
<1> DEFINE S == {x \in Nat : x <= m /\ x <= n => f[x] = g[x]}
<1>1. \A x \in 0 .. m : f[x] = IF x = 0 THEN Payload(s[i + 1]) ELSE ShiftIn(f[x - 1], s[i + 1 + x])
  BY DEF ValueUpto
<1>2. \A x \in 0 .. n : g[x] = IF x = 0 THEN Payload(s[i + 1]) ELSE ShiftIn(g[x - 1], s[i + 1 + x])
  BY DEF ValueUpto
<1>3. 0 \in S
  BY <1>1, <1>2
<1>4. ASSUME NEW x \in S PROVE x + 1 \in S
  <2> SUFFICES ASSUME x + 1 <= m, x + 1 <= n PROVE f[x + 1] = g[x + 1]
    OBVIOUS
  <2>1. x \in Nat /\ x <= m /\ x <= n /\ (x + 1) - 1 = x /\ x + 1 # 0 /\ x + 1 \in 0 .. m /\ x + 1 \in 0 .. n
    OBVIOUS
  <2>2. f[x] = g[x]
    BY <2>1
  <2>3. f[x + 1] = ShiftIn(f[x], s[i + 1 + (x + 1)])
    BY <1>1, <2>1
  <2>4. g[x + 1] = ShiftIn(g[x], s[i + 1 + (x + 1)])
    BY <1>2, <2>1
  <2> QED BY <2>2, <2>3, <2>4
<1>5. S \in SUBSET Nat
  OBVIOUS
<1> HIDE DEF S
<1>6. S = Nat
  BY <1>3, <1>4, <1>5, SetInduction
<1>7. k \in S
  BY <1>6
<1> QED BY <1>7 DEF S

\* The function that utf8_to_utf32 is defined by.
IsValue(value, s, i) ==
  value = [k \in Nat |-> IF k = 0 THEN Payload(s[i + 1]) ELSE ShiftIn(value[k - 1], s[i + 1 + k])]

\* It exists.
LEMMA ValueIs ==
  ASSUME NEW s, NEW i
  PROVE  \E value : IsValue(value, s, i)
<1> DEFINE f(n) == CHOOSE h : ValueUpto(h, s, i, n)
           value == [n \in Nat |-> f(n)[n]]
<1>1. \A n \in Nat : ValueUpto(f(n), s, i, n)
  BY ValueExists
<1> HIDE DEF f
<1>2. \A n \in Nat :
        value[n] = IF n = 0 THEN Payload(s[i + 1]) ELSE ShiftIn(value[n - 1], s[i + 1 + n])
  <2> SUFFICES ASSUME NEW n \in Nat
               PROVE  value[n] = IF n = 0 THEN Payload(s[i + 1]) ELSE ShiftIn(value[n - 1], s[i + 1 + n])
    OBVIOUS
  <2>1. f(n)[n] = IF n = 0 THEN Payload(s[i + 1]) ELSE ShiftIn(f(n)[n - 1], s[i + 1 + n])
    <3>1. ValueUpto(f(n), s, i, n) /\ n \in 0 .. n
      BY <1>1
    <3> QED BY <3>1 DEF ValueUpto
  <2>2. ASSUME n # 0 PROVE f(n)[n - 1] = value[n - 1]
    <3> DEFINE m == n - 1
               g == f(n)
               h == f(m)
    <3>1. m \in Nat /\ m <= n /\ m <= m
      BY <2>2
    <3>2. ValueUpto(g, s, i, n) /\ ValueUpto(h, s, i, m)
      BY <1>1, <3>1
    <3>3. value[m] = h[m]
      BY <3>1
    <3> HIDE DEF m, g, h
    <3>4. g[m] = h[m]
      BY <3>1, <3>2, ValueUnique
    <3> QED BY <3>3, <3>4 DEF m, g
  <2> QED BY <2>1, <2>2
<1>3. IsValue(value, s, i)
  BY <1>2 DEF IsValue
<1> HIDE DEF value
<1> QED BY <1>3

\* utf8_to_utf32 of something other than NUL.
LEMMA ValueTaken ==
  ASSUME NEW s, NEW i, s[i + 1] # NUL
  PROVE  \E value :
           /\ IsValue(value, s, i)
           /\ utf8_to_utf32(s, i) = [length |-> utf8_sequence_length(s[i + 1]),
                                     value |-> value[Max({1, utf8_sequence_length(s[i + 1])}) - 1]]
<1> DEFINE value == CHOOSE value : IsValue(value, s, i)
<1>1. IsValue(value, s, i)
  BY ValueIs
<1>2. utf8_to_utf32(s, i) = [length |-> utf8_sequence_length(s[i + 1]),
                             value |-> value[Max({1, utf8_sequence_length(s[i + 1])}) - 1]]
  BY DEF utf8_to_utf32, IsValue
<1> HIDE DEF value
<1> QED BY <1>1, <1>2

\* Six bits and those above them.
LEMMA SixBits ==
  ASSUME NEW v \in Nat, NEW a, a = v \div 64, NEW p, p = v % 64
  PROVE  a \in Nat /\ p \in Nat /\ p < 64 /\ v = 64 * a + p
OBVIOUS

\* Twice and three times six bits.
LEMMA SixBitsMore ==
  ASSUME NEW v \in Nat
  PROVE  /\ (v \div 64) \div 64 = v \div 4096
         /\ (v \div 4096) \div 64 = v \div 262144
<1>1. (v \div 64) \div 64 = v \div 4096
  OBVIOUS
<1>2. (v \div 4096) \div 64 = v \div 262144
  OBVIOUS
<1> QED BY <1>1, <1>2

\* A character of n bytes gives the value that the bytes after the first make
\* of what the first carries.
LEMMA ValueOfCharacter ==
  ASSUME NEW s, NEW i \in Nat, s[i + 1] # NUL, NEW n \in 1 .. 4, utf8_sequence_length(s[i + 1]) = n,
         NEW x, Payload(s[i + 1]) = x
  PROVE  LET y == ShiftIn(x, s[i + 2])
             z == ShiftIn(y, s[i + 3])
         IN  utf8_to_utf32(s, i) =
               [length |-> n,
                value  |-> IF n = 1 THEN x ELSE IF n = 2 THEN y ELSE IF n = 3 THEN z ELSE ShiftIn(z, s[i + 4])]
<1> DEFINE y == ShiftIn(x, s[i + 2])
           z == ShiftIn(y, s[i + 3])
<1>1. PICK value :
        /\ IsValue(value, s, i)
        /\ utf8_to_utf32(s, i) = [length |-> n, value |-> value[Max({1, n}) - 1]]
  BY ValueTaken
<1>2. Max({1, n}) = n
  <2>1. {1, n} \in SUBSET Int /\ n \in {1, n} /\ \A m \in {1, n} : m <= n
    OBVIOUS
  <2> QED BY <2>1, MaxIs
<1>3. \A k \in Nat : value[k] = IF k = 0 THEN Payload(s[i + 1]) ELSE ShiftIn(value[k - 1], s[i + 1 + k])
  BY <1>1 DEF IsValue
<1>4. value[0] = x
  BY <1>3
<1>5. value[1] = y
  <2>1. value[1] = ShiftIn(value[0], s[i + 1 + 1]) /\ i + 1 + 1 = i + 2
    BY <1>3
  <2> QED BY <1>4, <2>1
<1>6. value[2] = z
  <2>1. value[2] = ShiftIn(value[1], s[i + 1 + 2]) /\ i + 1 + 2 = i + 3
    BY <1>3
  <2> QED BY <1>5, <2>1
<1>7. value[3] = ShiftIn(z, s[i + 4])
  <2>1. value[3] = ShiftIn(value[2], s[i + 1 + 3]) /\ i + 1 + 3 = i + 4
    BY <1>3
  <2> QED BY <1>6, <2>1
<1> HIDE DEF y, z
<1>8. value[n - 1] = IF n = 1 THEN x ELSE IF n = 2 THEN y ELSE IF n = 3 THEN z ELSE ShiftIn(z, s[i + 4])
  BY <1>4, <1>5, <1>6, <1>7
<1> QED BY <1>1, <1>2, <1>8 DEF y, z

\* utf8_to_utf32 reads UTF-8 (helpers.h:83-100), of up to four bytes.
LEMMA ReadsUTF8 ==
  ASSUME NEW v \in ScalarValue, NEW s, NEW i \in Nat,
         \A j \in 1 .. Len(UTF8(v)) : s[i + j] = UTF8(v)[j]
  PROVE  utf8_to_utf32(s, i) = [length |-> Len(UTF8(v)), value |-> v]
<1>1. v \in Nat /\ 0 < v /\ v <= 1114111
  BY DEF ScalarValue
<1> DEFINE a == v \div 64
           b == v \div 4096
           c == v \div 262144
           p == v % 64
           q == a % 64
           r == b % 64
           bytes == utf32_to_utf8(v)
<1>2. UTF8(v) = bytes
  BY WritesScalarUTF8
<1>3. /\ a \in Nat /\ b \in Nat /\ c \in Nat
      /\ p \in Nat /\ p < 64 /\ q \in Nat /\ q < 64 /\ r \in Nat /\ r < 64
      /\ v = 64 * a + p /\ a = 64 * b + q /\ b = 64 * c + r
  <2>1. b = a \div 64 /\ c = b \div 64
    BY <1>1, SixBitsMore
  <2> HIDE DEF a, b, c, p, q, r
  <2>2. a \in Nat /\ p \in Nat /\ p < 64 /\ v = 64 * a + p
    BY <1>1, SixBits DEF a, p
  <2>3. b \in Nat /\ q \in Nat /\ q < 64 /\ a = 64 * b + q
    BY <2>1, <2>2, SixBits DEF q
  <2>4. c \in Nat /\ r \in Nat /\ r < 64 /\ b = 64 * c + r
    BY <2>1, <2>3, SixBits DEF r
  <2> QED BY <2>2, <2>3, <2>4
<1>4. bytes = IF v < 128 THEN <<v>>
              ELSE IF v < 2048 THEN <<192 + a, 128 + p>>
              ELSE IF v < 65536 THEN <<224 + b, 128 + q, 128 + p>>
              ELSE <<240 + c, 128 + r, 128 + q, 128 + p>>
  <2>1. v \div 64 ^ 0 = v /\ v \div 64 ^ 1 = a /\ v \div 64 ^ 2 = b
    BY <1>1, PowersOfTwo
  <2>2. 65536 <= v => c % 16 = c
    BY <1>1
  <2> QED BY <1>1, <2>1, <2>2 DEF utf32_to_utf8
<1> HIDE DEF a, b, c, p, q, r, bytes
<1>5. \A j \in 1 .. Len(bytes) : s[i + j] = bytes[j]
  BY <1>2
<1>6. CASE v < 128
  <2>1. bytes = <<v>>
    BY <1>4, <1>6
  <2>2. Len(bytes) = 1 /\ s[i + 1] = v
    BY <1>5, <2>1
  <2>3. utf8_sequence_length(s[i + 1]) = 1 /\ Payload(s[i + 1]) = v /\ s[i + 1] # NUL
    BY <1>1, <1>6, <2>2, FirstByte DEF NUL
  <2> QED BY <1>2, <2>2, <2>3, ValueOfCharacter
<1>7. CASE ~ (v < 128) /\ v < 2048
  <2>1. bytes = <<192 + a, 128 + p>>
    BY <1>1, <1>4, <1>7
  <2>2. Len(bytes) = 2 /\ s[i + 1] = 192 + a /\ s[i + 2] = 128 + p
    BY <1>5, <2>1
  <2>3. a < 32
    BY <1>3, <1>7
  <2>4. utf8_sequence_length(s[i + 1]) = 2 /\ Payload(s[i + 1]) = a /\ s[i + 1] # NUL
    BY <1>3, <2>2, <2>3, FirstByte DEF NUL
  <2>5. ShiftIn(a, s[i + 2]) = v
    <3>1. a \in Nat /\ a < 32768 /\ p \in Nat /\ p < 64 /\ v = 64 * a + p
      BY <1>3, <2>3
    <3>2. s[i + 2] = 128 + p
      BY <2>2
    <3> QED BY <3>1, <3>2, ContinuationByte
  <2> QED BY <1>2, <2>2, <2>4, <2>5, ValueOfCharacter
<1>8. CASE ~ (v < 2048) /\ v < 65536
  <2>1. bytes = <<224 + b, 128 + q, 128 + p>>
    BY <1>1, <1>4, <1>8
  <2>2. Len(bytes) = 3 /\ s[i + 1] = 224 + b /\ s[i + 2] = 128 + q /\ s[i + 3] = 128 + p
    BY <1>5, <2>1
  <2>3. b < 16 /\ a < 1024
    BY <1>3, <1>8
  <2>4. utf8_sequence_length(s[i + 1]) = 3 /\ Payload(s[i + 1]) = b /\ s[i + 1] # NUL
    BY <1>3, <2>2, <2>3, FirstByte DEF NUL
  <2>5. ShiftIn(b, s[i + 2]) = a
    <3>1. b \in Nat /\ b < 32768 /\ q \in Nat /\ q < 64 /\ a = 64 * b + q
      BY <1>3, <2>3
    <3>2. s[i + 2] = 128 + q
      BY <2>2
    <3> QED BY <3>1, <3>2, ContinuationByte
  <2>6. ShiftIn(a, s[i + 3]) = v
    <3>1. a \in Nat /\ a < 32768 /\ p \in Nat /\ p < 64 /\ v = 64 * a + p
      BY <1>3, <2>3
    <3>2. s[i + 3] = 128 + p
      BY <2>2
    <3> QED BY <3>1, <3>2, ContinuationByte
  <2> QED BY <1>2, <2>2, <2>4, <2>5, <2>6, ValueOfCharacter
<1>9. CASE ~ (v < 65536)
  <2>1. bytes = <<240 + c, 128 + r, 128 + q, 128 + p>>
    BY <1>1, <1>4, <1>9
  <2>2. Len(bytes) = 4 /\ s[i + 1] = 240 + c /\ s[i + 2] = 128 + r /\ s[i + 3] = 128 + q /\ s[i + 4] = 128 + p
    BY <1>5, <2>1
  <2>3. c < 8 /\ b < 512 /\ a < 32768
    BY <1>1, <1>3
  <2>4. utf8_sequence_length(s[i + 1]) = 4 /\ Payload(s[i + 1]) = c /\ s[i + 1] # NUL
    BY <1>3, <2>2, <2>3, FirstByte DEF NUL
  <2>5. ShiftIn(c, s[i + 2]) = b
    <3>1. c \in Nat /\ c < 32768 /\ r \in Nat /\ r < 64 /\ b = 64 * c + r
      BY <1>3, <2>3
    <3>2. s[i + 2] = 128 + r
      BY <2>2
    <3> QED BY <3>1, <3>2, ContinuationByte
  <2>6. ShiftIn(b, s[i + 3]) = a
    <3>1. b \in Nat /\ b < 32768 /\ q \in Nat /\ q < 64 /\ a = 64 * b + q
      BY <1>3, <2>3
    <3>2. s[i + 3] = 128 + q
      BY <2>2
    <3> QED BY <3>1, <3>2, ContinuationByte
  <2>7. ShiftIn(a, s[i + 4]) = v
    <3>1. a \in Nat /\ a < 32768 /\ p \in Nat /\ p < 64 /\ v = 64 * a + p
      BY <1>3, <2>3
    <3>2. s[i + 4] = 128 + p
      BY <2>2
    <3> QED BY <3>1, <3>2, ContinuationByte
  <2> QED BY <1>2, <2>2, <2>4, <2>5, <2>6, <2>7, ValueOfCharacter
<1> QED BY <1>6, <1>7, <1>8, <1>9

\* utf32_to_utf16 writes UTF-16 (helpers.h:162-183) in the first plane.
LEMMA WritesFirstPlane ==
  ASSUME NEW v \in ScalarValue, v <= FIRST_PLANE_MAX
  PROVE  utf32_to_utf16(v) = UTF16(v)
<1>1. v \in Nat
  BY DEF ScalarValue
<1>2. v < 65536 /\ ~ (v > FIRST_PLANE_MAX)
  BY <1>1 DEF FIRST_PLANE_MAX
<1> QED BY <1>2 DEF utf32_to_utf16, UTF16

-----------------------------------------------------------------------------
(* The refinement.                                                         *)

\* What the refinement needs of LoopInv.
BufferInv == source \in Sources /\ it \in 0 .. Len(buffer)

\* The first n code points of the text have been converted.
Converted(n) ==
  /\ SubSeq(buffer, 1, it) = InUTF8(SubSeq(source.text, 1, n))
  /\ out = InUTF16(SubSeq(source.text, 1, n))

\* What keeps the refinement: some number of whole code points of the text has
\* been taken, and as many written.
TextInv == Text => \E n \in 0 .. Len(source.text) : Converted(n)

\* The texts that are converted are of the first plane.
FirstPlaneTexts ==
  \A s \in Sources : s.text # NoText => \A i \in 1 .. Len(s.text) : s.text[i] <= FIRST_PLANE_MAX

\* What a view on a text is.
LEMMA TextType ==
  ASSUME BufferInv, Text
  PROVE  /\ source.text \in Texts /\ source.text \in Seq(ScalarValue)
         /\ buffer \in Seq(char8_t) /\ Len(buffer) \in Nat
         /\ source.size \in 0 .. Len(buffer)
         /\ SubSeq(buffer, 1, source.size) = InUTF8(source.text)
<1>1. /\ source \in [buffer : Seq(char8_t), size : Nat, text : Texts \cup {NoText}]
      /\ source.size <= Len(source.buffer)
      /\ source.text # NoText => SubSeq(source.buffer, 1, source.size) = InUTF8(source.text)
  BY DecoderAssumption DEF BufferInv, InUTF8
<1>2. source.text \in Texts
  BY <1>1 DEF Text
<1>3. source.text \in Seq(ScalarValue)
  BY <1>2, TextsAssumption
<1>4. buffer \in Seq(char8_t) /\ Len(buffer) \in Nat /\ source.size \in 0 .. Len(buffer)
  BY <1>1 DEF buffer
<1> QED BY <1>1, <1>2, <1>3, <1>4 DEF Text, buffer

\* What the refinement makes of such a state.
LEMMA ConvertedMeans ==
  ASSUME BufferInv, Text, NEW n \in 0 .. Len(source.text), Converted(n)
  PROVE  /\ Rest = SubSeq(source.text, n + 1, Len(source.text))
         /\ Done = SubSeq(source.text, 1, n)
         /\ it = source.size <=> n = Len(source.text)
<1> DEFINE text == source.text
<1>1. text \in Seq(ScalarValue)
  BY TextType
<1>2. PICK f, g : AreEncodings(text, f, g)
  BY <1>1, EncodingsExist
<1>3. SubSeq(buffer, 1, it) = g[n] /\ out = f[n]
  BY <1>1, <1>2, FrontEncoded DEF Converted
<1> DEFINE units == SubSeq(buffer, 1, it)
<1> HIDE DEF text, units
<1>4. /\ CountInUTF8(text, units) = {n} /\ CountInUTF16(text, out) = {n}
      /\ \A m \in 0 .. Len(text) : g[m] = g[n] => m = n
  <2>1. n \in 0 .. Len(text) /\ units = g[n]
    BY <1>3 DEF text, units
  <2>2. CountInUTF8(text, units) = {n}
    BY <1>1, <1>2, <1>3, <2>1, FrontCounted8
  <2>3. CountInUTF16(text, out) = {n}
    BY <1>1, <1>2, <1>3, <2>1, FrontCounted16
  <2>4. \A m \in 0 .. Len(text) : g[m] = g[n] => m = n
    BY <1>1, <1>2, <2>1, FrontTold
  <2> QED BY <2>2, <2>3, <2>4
<1>5. n \in Nat /\ Max({n}) = n
  BY MaxIs
<1>6. {n} # {}
  OBVIOUS
<1>7. Rest = SubSeq(text, n + 1, Len(text))
  BY <1>4, <1>5, <1>6 DEF Rest, text, units, CountInUTF8
<1>8. Done = SubSeq(text, 1, n)
  BY <1>4, <1>5, <1>6 DEF Done, text, CountInUTF16
<1>9. Len(text) \in 0 .. Len(text) /\ SubSeq(text, 1, Len(text)) = text
  BY <1>1, SubSeqFull
<1>10. SubSeq(buffer, 1, source.size) = g[Len(text)]
  <2>1. SubSeq(buffer, 1, source.size) = InUTF8(text)
    BY TextType DEF text
  <2>2. InUTF8(SubSeq(text, 1, Len(text))) = g[Len(text)]
    BY <1>1, <1>2, <1>9, FrontEncoded
  <2> QED BY <1>9, <2>1, <2>2
<1>11. it = source.size => n = Len(text)
  <2> SUFFICES ASSUME it = source.size PROVE n = Len(text)
    OBVIOUS
  <2>1. g[n] = g[Len(text)]
    BY <1>3, <1>10
  <2> QED BY <1>4, <1>9, <2>1
<1>12. n = Len(text) => it = source.size
  <2> SUFFICES ASSUME n = Len(text) PROVE it = source.size
    OBVIOUS
  <2>1. SubSeq(buffer, 1, it) = SubSeq(buffer, 1, source.size)
    BY <1>3, <1>10
  <2> QED BY <2>1, TextType, FrontSize DEF BufferInv
<1> QED BY <1>7, <1>8, <1>11, <1>12 DEF text

\* Nothing has been converted at first.
LEMMA ConvertedInit ==
  ASSUME Init
  PROVE  BufferInv /\ (Text => Converted(0))
<1>1. source \in Sources /\ it = 0 /\ out = <<>>
  BY DEF Init
<1>2. BufferInv
  <2>1. source \in [buffer : Seq(char8_t), size : Nat, text : Texts \cup {NoText}]
    BY <1>1, DecoderAssumption
  <2>2. Len(buffer) \in Nat
    BY <2>1 DEF buffer
  <2> QED BY <1>1, <2>2 DEF BufferInv
<1>3. ASSUME Text PROVE Converted(0)
  <2>1. source.text \in Seq(ScalarValue) /\ buffer \in Seq(char8_t)
    BY <1>2, <1>3, TextType
  <2>2. PICK f, g : AreEncodings(source.text, f, g)
    BY <2>1, EncodingsExist
  <2>3. g[0] = <<>> /\ f[0] = <<>>
    BY <2>2 DEF AreEncodings, JoinsUpto
  <2>4. 0 \in 0 .. Len(source.text)
    BY <2>1
  <2>5. InUTF8(SubSeq(source.text, 1, 0)) = <<>> /\ InUTF16(SubSeq(source.text, 1, 0)) = <<>>
    BY <2>1, <2>2, <2>3, <2>4, FrontEncoded
  <2>6. SubSeq(buffer, 1, 0) = <<>>
    BY <2>1
  <2> QED BY <1>1, <2>5, <2>6 DEF Converted
<1> QED BY <1>2, <1>3

\* An iteration that converts the next code point: what it reads is where the
\* encoding of that begins.
LEMMA NextDecoded ==
  ASSUME FirstPlaneTexts,
         BufferInv, Text, NEW n \in 0 .. Len(source.text), Converted(n), it # source.size,
         NEW k, k = n + 1, NEW c, c = utf8_to_utf32(buffer, it)
  PROVE  /\ k \in 1 .. Len(source.text)
         /\ it + c.length \in 0 .. Len(buffer)
         /\ SubSeq(buffer, 1, it + c.length) = InUTF8(SubSeq(source.text, 1, k))
         /\ out \o utf32_to_utf16(c.value) = InUTF16(SubSeq(source.text, 1, k))
         /\ c.value # 0
<1> DEFINE text == source.text
           size == source.size
           s == buffer
<1>1. /\ text \in Seq(ScalarValue) /\ Len(text) \in Nat
      /\ s \in Seq(char8_t) /\ Len(s) \in Nat /\ size \in 0 .. Len(s)
      /\ it \in 0 .. Len(s) /\ it \in Nat
      /\ SubSeq(s, 1, size) = InUTF8(text)
  BY TextType DEF BufferInv
<1>2. k \in 1 .. Len(text) /\ k \in 0 .. Len(text) /\ n \in 0 .. Len(text)
  BY <1>1, ConvertedMeans
<1>3. text[k] <= FIRST_PLANE_MAX
  BY <1>2 DEF FirstPlaneTexts, BufferInv, Text
<1>4. PICK f, g : AreEncodings(text, f, g)
  BY <1>1, EncodingsExist
<1>5. SubSeq(s, 1, it) = g[n] /\ out = f[n]
  BY <1>1, <1>4, FrontEncoded DEF Converted
<1> HIDE DEF text, size, s
<1>6. SubSeq(s, 1, size) = g[Len(text)]
  <2>1. Len(text) \in 0 .. Len(text) /\ SubSeq(text, 1, Len(text)) = text
    BY <1>1, SubSeqFull
  <2>2. InUTF8(SubSeq(text, 1, Len(text))) = g[Len(text)]
    BY <1>1, <1>4, <2>1, FrontEncoded
  <2> QED BY <1>1, <2>1, <2>2
<1> DEFINE u == UTF8(text[k])
           a == g[n]
           b == g[k]
           w == g[Len(text)]
<1>7. /\ b = a \o u /\ f[k] = f[n] \o utf32_to_utf16(text[k])
      /\ a \in Seq(Nat) /\ u \in Seq(Nat) /\ w \in Seq(Nat)
      /\ BeginsWith(w, b)
  <2>1. k = n + 1
    OBVIOUS
  <2>2. b = a \o u
    BY <1>1, <1>2, <1>4, <2>1, NextPiece
  <2>3. f[k] = f[n] \o utf32_to_utf16(text[k])
    <3>1. f[k] = f[n] \o UTF16(text[k])
      BY <1>1, <1>2, <1>4, <2>1, NextPiece
    <3>2. text[k] \in ScalarValue
      BY <1>1, <1>2
    <3> QED BY <3>1, <3>2, <1>3, WritesFirstPlane
  <2>4. a \in Seq(Nat) /\ u \in Seq(Nat) /\ w \in Seq(Nat)
    BY <1>1, <1>2, <1>4, <2>1, NextPiece
  <2>5. BeginsWith(w, b)
    BY <1>1, <1>2, <1>4, <2>1, NextPiece
  <2> QED BY <2>2, <2>3, <2>4, <2>5
<1>8. SubSeq(s, 1, it) = a /\ SubSeq(s, 1, size) = w
  BY <1>5, <1>6
<1>9. text[k] \in ScalarValue
  BY <1>1, <1>2
<1>10. InUTF8(SubSeq(text, 1, k)) = b /\ InUTF16(SubSeq(text, 1, k)) = f[k]
  BY <1>1, <1>2, <1>4, FrontEncoded
<1> HIDE DEF a, b, w, u
<1>11. Follows(s, it, u, b)
  BY <1>1, <1>7, <1>8, PieceFollows
<1>12. c = [length |-> Len(u), value |-> text[k]]
  <2> DEFINE v == text[k]
  <2>1. v \in ScalarValue /\ it \in Nat
    BY <1>1, <1>9
  <2>2. \A j \in 1 .. Len(UTF8(v)) : s[it + j] = UTF8(v)[j]
    BY <1>11 DEF u, Follows
  <2> HIDE DEF v
  <2>3. utf8_to_utf32(s, it) = [length |-> Len(UTF8(v)), value |-> v]
    BY ONLY <2>1, <2>2, ReadsUTF8
  <2> QED BY <2>3 DEF s, u, v
<1>13. c.length = Len(u) /\ c.value = text[k] /\ c.value # 0
  <2>1. text[k] # 0
    BY <1>9 DEF ScalarValue
  <2> QED BY <1>12, <2>1
<1>14. out \o utf32_to_utf16(c.value) = InUTF16(SubSeq(text, 1, k))
  BY <1>5, <1>7, <1>10, <1>13
<1>15. /\ it + c.length \in 0 .. Len(s)
       /\ SubSeq(s, 1, it + c.length) = InUTF8(SubSeq(text, 1, k))
  BY <1>10, <1>11, <1>13 DEF Follows
<1> QED BY <1>2, <1>13, <1>14, <1>15 DEF text, s

-----------------------------------------------------------------------------

\* The first state of the loop is one of Transcoding.
LEMMA ConvertedInitially ==
  ASSUME Init, BufferInv
  PROVE  TextInv /\ Converter!Init
<1>1. it = 0 /\ pc = "for"
  BY DEF Init
<1>2. CASE ~ Text
  <2>1. TextInv
    BY <1>2 DEF TextInv
  <2>2. Converter!Init
    BY <1>2 DEF Converter!Init
  <2> QED BY <2>1, <2>2
<1>3. CASE Text
  <2>1. Converted(0) /\ 0 \in 0 .. Len(source.text) /\ source.text \in Seq(ScalarValue) /\ source.text \in Texts
    BY <1>3, TextType, ConvertedInit
  <2>2. Rest = SubSeq(source.text, 0 + 1, Len(source.text)) /\ Done = SubSeq(source.text, 1, 0)
    BY <1>3, <2>1, ConvertedMeans
  <2>3. Rest = source.text /\ Done = <<>>
    BY <2>1, <2>2
  <2>4. Converter!Init
    BY <1>1, <1>3, <2>1, <2>3 DEF Converter!Init
  <2> QED BY <2>1, <2>4 DEF TextInv
<1> QED BY <1>2, <1>3

\* n code points handed over, as Transcoding sees it.
MappedBy(n) ==
  /\ Rest = SubSeq(source.text, n + 1, Len(source.text))
  /\ Done = SubSeq(source.text, 1, n)

\* What ConvertedMeans says, as a formula of one state.
LEMMA Mapped ==
  BufferInv /\ Text => \A n \in 0 .. Len(source.text) : Converted(n) => MappedBy(n)
BY ConvertedMeans DEF MappedBy

\* And of the next.
LEMMA MappedNext ==
  (BufferInv /\ Text => \A n \in 0 .. Len(source.text) : Converted(n) => MappedBy(n))'
BY Mapped, PTL

\* Where the iterator and the output stay, so does what the refinement makes of
\* them.
LEMMA StutterStep ==
  ASSUME TextInv, source' = source, it' = it, out' = out,
         Text => (pc' = "return" <=> pc = "return")
  PROVE  TextInv' /\ UNCHANGED Converter!vars
<1>1. (Text' <=> Text) /\ Rest' = Rest /\ Done' = Done /\ buffer' = buffer
  BY DEF Text, Rest, Done, buffer
<1>2. TextInv'
  BY <1>1 DEF TextInv, Converted
<1>3. UNCHANGED Converter!vars
  BY <1>1 DEF Converter!vars
<1> QED BY <1>2, <1>3

\* A step of the loop converts the next code point, returns when none is left,
\* or leaves what Transcoding sees as it is.
LEMMA RefinedStep ==
  ASSUME FirstPlaneTexts, BufferInv, BufferInv', TextInv, [Next]_vars
  PROVE  TextInv' /\ [Converter!Next]_(Converter!vars)
<1>1. Text => ~ AppendStale
  <2> SUFFICES ASSUME Text, AppendStale PROVE FALSE
    OBVIOUS
  <2>1. it # source.size /\ utf8_to_utf32(buffer, it).value = 0
    BY DEF AppendStale, InLoop
  <2>2. PICK n \in 0 .. Len(source.text) : Converted(n)
    BY DEF TextInv
  <2> QED BY <2>1, <2>2, NextDecoded
<1>2. CASE Text /\ AppendChar
  <2> DEFINE c == utf8_to_utf32(buffer, it)
             text == source.text
  <2>1. /\ it # source.size /\ pc = "for" /\ pc' = pc /\ source' = source
        /\ it' = it + c.length /\ out' = out \o utf32_to_utf16(c.value)
    BY <1>2 DEF AppendChar, AppendUnits, InLoop
  <2>2. buffer' = buffer /\ Text' /\ source'.text = text
    BY <1>2, <2>1 DEF buffer, Text
  <2>3. PICK n \in 0 .. Len(text) : Converted(n)
    BY <1>2 DEF TextInv
  <2> DEFINE k == n + 1
  <2>4. /\ k \in 1 .. Len(text)
        /\ SubSeq(buffer, 1, it + c.length) = InUTF8(SubSeq(text, 1, k))
        /\ out \o utf32_to_utf16(c.value) = InUTF16(SubSeq(text, 1, k))
    BY <1>2, <2>1, <2>3, NextDecoded
  <2>5. k = n + 1
    OBVIOUS
  <2> HIDE DEF c, k
  <2>6. Converted(k)'
    BY <2>1, <2>2, <2>4 DEF Converted
  <2>7. k \in 0 .. Len(text) /\ text \in Seq(ScalarValue)
    BY <1>2, <2>4, TextType
  <2>8. TextInv'
    BY <2>2, <2>6, <2>7 DEF TextInv
  <2>9. Rest = SubSeq(text, n + 1, Len(text)) /\ Done = SubSeq(text, 1, n)
    BY <1>2, <2>3, ConvertedMeans
  <2>10. (Rest = SubSeq(source.text, k + 1, Len(source.text)) /\ Done = SubSeq(source.text, 1, k))'
    <3>1. Text' /\ BufferInv' /\ Converted(k)' /\ k \in 0 .. Len(source'.text)
      BY <2>2, <2>6, <2>7
    <3>2. MappedBy(k)'
      BY <3>1, MappedNext
    <3> QED BY <3>2 DEF MappedBy
  <2>11. Rest' = SubSeq(text, k + 1, Len(text)) /\ Done' = SubSeq(text, 1, k)
    BY <2>2, <2>10
  <2>12. Rest \notin {<<>>, NoText} /\ Done' = Append(Done, Head(Rest)) /\ Rest' = Tail(Rest)
    BY <2>4, <2>5, <2>7, <2>9, <2>11, RestOfText, TextsAssumption
  <2>13. Converter!Convert
    BY <1>2, <2>1, <2>2, <2>12 DEF Converter!Convert
  <2> QED BY <2>8, <2>13 DEF Converter!Next
<1>3. CASE Text /\ (Exhausted \/ Overrun)
  <2>1. source' = source /\ it' = it /\ out' = out /\ pc = "for" /\ pc' # "return"
    BY <1>3 DEF Exhausted, Overrun, InLoop
  <2> QED BY <2>1, StutterStep
<1>4. CASE Text /\ Return
  <2>1. /\ source' = source /\ it' = it /\ out' = out /\ pc = "for" /\ pc' = "return"
        /\ it = source.size
    BY <1>4 DEF Return
  <2>2. (Text' <=> Text) /\ Rest' = Rest /\ Done' = Done /\ buffer' = buffer
    BY <2>1 DEF Text, Rest, Done, buffer
  <2>3. TextInv'
    BY <2>1, <2>2 DEF TextInv, Converted
  <2>4. PICK n \in 0 .. Len(source.text) : Converted(n)
    BY <1>4 DEF TextInv
  <2>5. n = Len(source.text) /\ Rest = SubSeq(source.text, n + 1, Len(source.text))
    BY <1>4, <2>1, <2>4, ConvertedMeans
  <2>6. Rest = <<>>
    <3>1. Len(source.text) \in Nat
      BY <1>4, TextType
    <3> QED BY <2>5, <3>1, SubSeqEmpty
  <2>7. Converter!Return
    BY <1>4, <2>1, <2>2, <2>6 DEF Converter!Return
  <2> QED BY <2>3, <2>7 DEF Converter!Next
<1>5. CASE ~ Text /\ Next
  <2>1. source' = source /\ ~ Text'
    BY <1>5 DEF Next, AppendChar, AppendStale, AppendUnits, Exhausted, Overrun, Return, Text
  <2> QED BY <1>5, <2>1 DEF TextInv, Converter!vars
<1>6. CASE UNCHANGED vars
  BY <1>6, StutterStep DEF vars
<1> QED BY <1>1, <1>2, <1>3, <1>4, <1>5, <1>6 DEF Next

\* Text of the first plane is converted code point by code point, in order, and
\* the loop returns only when none is left (coder.cpp:9-22), whatever the stack
\* holds: every step of the loop is a step of Transcoding or leaves its variables
\* as they are. Views that show no text take no part.
THEOREM ConvertsFirstPlane ==
  ASSUME FirstPlaneTexts
  PROVE  Spec => Converter!Init /\ [][Converter!Next]_(Converter!vars)
<1>1. LoopInv => BufferInv
  BY DEF LoopInv, BufferInv
<1>2. Init => TextInv /\ Converter!Init
  BY <1>1, LoopInit, ConvertedInitially
<1>3. LoopInv /\ LoopInv' /\ TextInv /\ [Next]_vars => TextInv' /\ [Converter!Next]_(Converter!vars)
  <2>1. LoopInv' => BufferInv'
    BY <1>1, PTL
  <2> QED BY <1>1, <2>1, RefinedStep
<1> QED BY <1>2, <1>3, LoopCorrect, PTL DEF Spec

\* What decode_from_utf8 returns for a text of the first plane is its UTF-16, as
\* the comment on codepoint::utf8_to_utf16 has it (helpers.h:188).
THEOREM HoldsInFirstPlane == ASSUME FirstPlaneTexts PROVE Spec => []HoldsRealValue
<1>1. LoopInv => BufferInv
  BY DEF LoopInv, BufferInv
<1>2. Init => TextInv
  BY <1>1, LoopInit, ConvertedInitially
<1>3. LoopInv /\ LoopInv' /\ TextInv /\ [Next]_vars => TextInv'
  <2>1. LoopInv' => BufferInv'
    BY <1>1, PTL
  <2> QED BY <1>1, <2>1, RefinedStep
<1>4. LoopInv /\ TextInv => HoldsRealValue
  <2> SUFFICES ASSUME LoopInv, TextInv, pc = "return", Text
               PROVE  out = InUTF16(source.text)
    BY DEF HoldsRealValue, InUTF16
  <2>1. PICK n \in 0 .. Len(source.text) : Converted(n)
    BY DEF TextInv
  <2>2. it = source.size /\ BufferInv
    BY <1>1 DEF LoopInv
  <2>3. n = Len(source.text)
    BY <2>1, <2>2, ConvertedMeans
  <2>4. source.text \in Seq(ScalarValue)
    BY <2>2, TextType
  <2>5. SubSeq(source.text, 1, n) = source.text
    BY <2>3, <2>4, SubSeqFull
  <2> QED BY <2>1, <2>5 DEF Converted
<1> QED BY <1>2, <1>3, <1>4, LoopCorrect, PTL DEF Spec
=============================================================================
