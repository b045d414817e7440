--------------------------- MODULE CodePointCodec ---------------------------
(***************************************************************************)
(* One code point to and from UTF-8 and UTF-16: namespace                  *)
(* helper::codepoint of helpers.h. The functions read from a pointer; here *)
(* they read a sequence s from the offset i, and how far they read is part *)
(* of what they do.                                                        *)
(***************************************************************************)
EXTENDS CodeUnits, SequencesExt


char8_t == 0 .. 255

FIRST_PLANE_MAX     == 65535  \* 0xffff
SUPPLEMENTARY_DELTA == 65536  \* 1 << 16

-----------------------------------------------------------------------------
(* UTF-8.                                                                  *)

LeadingOnes(c) == Max({n \in 0 .. 8 : c >= 256 - 2 ^ (8 - n)})

\* 0 for a continuation byte, up to 8 for a byte that no encoding begins with.
utf8_sequence_length(c) ==
  IF LeadingOnes(c) > 1 THEN LeadingOnes(c) ELSE 1 - LeadingOnes(c)

\* Mutant: six bits are taken of every byte.
payload_six_bits(c) == c % 64

\* The bits that follow the leading ones and the zero after them.
Payload(c) == c % 2 ^ (8 - LeadingOnes(c))

\* v << 6 | Payload(c) in 32 bits. The payload of a byte below 0x80 has a
\* seventh bit, which meets the lowest one of v.
ShiftIn(v, c) ==
  LET carried == IF Payload(c) >= 64 /\ v % 2 = 0 THEN v + 1 ELSE v
  IN  64 * (carried % 2 ^ 26) + (Payload(c) % 64)

\* Mutant: one byte is taken for NUL.
utf8_to_utf32_passes_nul(s, i) ==
  [length |-> utf8_sequence_length(s[i + 1]),
   value  |-> LET value[k \in Nat] ==
                    IF k = 0 THEN Payload(s[i + 1]) ELSE ShiftIn(value[k - 1], s[i + 1 + k])
              IN  value[Max({1, utf8_sequence_length(s[i + 1])}) - 1]]

\* No bytes are taken for NUL. All bytes the first one announces are read,
\* whatever they are.
utf8_to_utf32(s, i) ==
  LET c0     == s[i + 1]
      length == IF c0 = NUL THEN 0 ELSE utf8_sequence_length(c0)
      value[k \in Nat] == IF k = 0 THEN Payload(c0) ELSE ShiftIn(value[k - 1], s[i + 1 + k])
  IN  [length |-> length, value |-> value[Max({1, length}) - 1]]

utf32_to_utf8(v) ==
  LET last(n) == 128 + ((v \div 64 ^ n) % 64)
  IN  IF v < 128 THEN <<v>>
      ELSE IF v < 2048 THEN <<192 + v \div 64, last(0)>>
      ELSE IF v < 65536 THEN <<224 + v \div 4096, last(1), last(0)>>
      ELSE <<240 + ((v \div 262144) % 16), last(2), last(1), last(0)>>

-----------------------------------------------------------------------------
(* UTF-16.                                                                 *)

\* Mutant: the offset of the supplementary planes is not added.
utf16_to_utf32_without_delta(s, i) ==
  LET c0 == s[i + 1]
  IN  IF ~ is_lead_surrogate(c0)
      THEN [length |-> IF c0 = NUL THEN 0 ELSE 1, value |-> c0]
      ELSE LET c1 == s[i + 2]
           IN  IF is_trail_surrogate(c1)
               THEN [length |-> 2,
                     value  |-> (c0 - LEAD_SURROGATE_MIN) * 1024 + (c1 - TRAIL_SURROGATE_MIN)]
               ELSE [length |-> 0, value |-> c0]

\* Mutant: one unit is taken for NUL.
utf16_to_utf32_passes_nul(s, i) ==
  LET c0 == s[i + 1]
  IN  IF ~ is_lead_surrogate(c0)
      THEN [length |-> 1, value |-> c0]
      ELSE LET c1 == s[i + 2]
           IN  IF is_trail_surrogate(c1)
               THEN [length |-> 2,
                     value  |-> (c0 - LEAD_SURROGATE_MIN) * 1024 + (c1 - TRAIL_SURROGATE_MIN)
                                  + SUPPLEMENTARY_DELTA]
               ELSE [length |-> 0, value |-> c0]

\* No units are taken for NUL and for an unpaired lead surrogate, although the
\* latter has a value.
utf16_to_utf32(s, i) ==
  LET c0 == s[i + 1]
  IN  IF ~ is_lead_surrogate(c0)
      THEN [length |-> IF c0 = NUL THEN 0 ELSE 1, value |-> c0]
      ELSE LET c1 == s[i + 2]
           IN  IF is_trail_surrogate(c1)
               THEN [length |-> 2,
                     value  |-> (c0 - LEAD_SURROGATE_MIN) * 1024 + (c1 - TRAIL_SURROGATE_MIN)
                                  + SUPPLEMENTARY_DELTA]
               ELSE [length |-> 0, value |-> c0]

\* The units written for v # 0. Nothing is written for 0. SUPPLEMENTARY_DELTA
\* is not taken off before v is split.
utf32_to_utf16(v) ==
  IF v > FIRST_PLANE_MAX
  THEN <<(v \div 1024 + LEAD_SURROGATE_MIN) % 65536, (v % 1024) + TRAIL_SURROGATE_MIN>>
  ELSE <<v>>

-----------------------------------------------------------------------------
(* The encodings as Unicode defines them.                                  *)

\* The number of bytes of a code point, and the bytes: the first has as many
\* ones in front as there are bytes, the others carry six bits each.
UTF8Size(v) == Cardinality({x \in {0, 128, 2048, 65536} : x <= v})
UTF8(v) ==
  LET n == UTF8Size(v)
  IN  IF n = 1 THEN <<v>>
      ELSE [k \in 1 .. n |-> IF k = 1
                            THEN 256 - 2 ^ (8 - n) + v \div 64 ^ (n - 1)
                            ELSE 128 + ((v \div 64 ^ (n - k)) % 64)]

UTF16(v) ==
  IF v < 65536 THEN <<v>>
  ELSE <<55296 + (v - 65536) \div 1024, 56320 + ((v - 65536) % 1024)>>

\* What a text is made of: Unicode's scalar values but NUL, which ends a string.
ScalarValue ==
  {v \in Nat : 0 < v /\ v <= 1114111 /\ ~ (LEAD_SURROGATE_MIN <= v /\ v <= TRAIL_SURROGATE_MAX)}

\* A sequence of code points in one of them.
Encoded(text, Encoding(_)) == FlattenSeq([i \in 1 .. Len(text) |-> Encoding(text[i])])

\* How many code points of the text have the encoding `units`, if any have.
CodePointsEncoded(text, units, Encoding(_)) ==
  {n \in 0 .. Len(text) : Encoded(SubSeq(text, 1, n), Encoding) = units}

IsContinuation(c) == LeadingOnes(c) = 1

\* Every byte of s that begins a character is followed by as many continuation
\* bytes as it announces, and these are all there are.
WholeCharacters(s) ==
  \A i \in 1 .. Len(s) :
    IF IsContinuation(s[i])
    THEN \E j \in 1 .. (i - 1) : i < j + utf8_sequence_length(s[j])
    ELSE LET end == i + utf8_sequence_length(s[i]) - 1
         IN  end <= Len(s) /\ \A k \in (i + 1) .. end : IsContinuation(s[k])

HasNul(s) == \E i \in 1 .. Len(s) : s[i] = NUL
=============================================================================
