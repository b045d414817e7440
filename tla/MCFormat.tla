------------------------------- MODULE MCFormat -------------------------------
(* Constants of Format for TLC: formats of up to MaxParts parts with every    *)
(* list of arguments, and every view of up to ViewLength units with something *)
(* or nothing behind it.                                                      *)
EXTENDS Format

CONSTANTS MaxParts, Units, ViewLength

Holder(number, width, plus, param) ==
  [kind |-> "placeholder", number |-> number, width |-> width, plus |-> plus, param |-> param]

MCParts ==
  {[kind |-> "text", unit |-> 97], [kind |-> "brace", unit |-> OPEN],
   [kind |-> "brace", unit |-> CLOSE],
   Holder(Automatic, 0, FALSE, <<>>), Holder(0, 0, FALSE, <<>>), Holder(1, 3, FALSE, <<>>),
   Holder(0, -3, FALSE, <<>>), Holder(1, 0, FALSE, <<COLON, 97>>),
   Holder(12, 4, TRUE, <<>>), Holder(0, 12, TRUE, <<COLON>>)}

\* A number after a placeholder without one is an error.
MCPartSequences ==
  {parts \in BoundedSeq(MCParts, MaxParts) :
     \A j, k \in 1 .. Len(parts) :
       j < k /\ parts[j] = Holder(Automatic, 0, FALSE, <<>>) /\ parts[k].kind = "placeholder"
         => parts[k].number = Automatic}

MCIntegers == {INT_MIN, -42, 0, 9, 10, INT_MAX - ZERO, INT_MAX}

MCLists ==
  {<<>>, <<[units |-> <<98>>], [int |-> -7]>>, <<[chars |-> <<98>>]>>}
  \cup {<<[int |-> n]>> : n \in MCIntegers}

\* Integral floats, on either side of the largest int, all with three bits before
\* the point, and all of these bits that are fractions.
MCFloats ==
  LET bits == 0 .. Two[FLT_MANT_DIG] - 1
  IN  {<<f>> : f \in [mantissa : {0, 1, INT_MAX, INT_MAX + 1, Two[FLT_MANT_DIG] - 1}, exponent : {0}]
                \cup [mantissa : bits \ (0 .. Two[FLT_MANT_DIG - 1] - 1), exponent : {FLT_MANT_DIG - 3}]
                \cup [mantissa : bits, exponent : {FLT_MANT_DIG, FLT_MANT_DIG + 2}]}

MCArgumentLists == MCLists \cup MCFloats

\* What lies behind a view: a terminator, a brace, or nothing.
MCBehind == {<<NUL>>, <<OPEN>>, <<CLOSE>>, <<>>}

Ends(parts) == [n \in 1 .. Len(parts) |-> Len(Written(SubSeq(parts, 1, n)))]

\* A string literal, and a view on a part of one.
MCFormats ==
  {[buffer |-> Append(Written(parts), NUL), size |-> Len(Written(parts)), parts |-> parts,
    ends |-> Ends(parts)] : parts \in MCPartSequences}
MCViews ==
  {[buffer |-> s \o behind, size |-> Len(s), parts |-> NoParts, ends |-> <<>>] :
     s \in BoundedSeq(Units, ViewLength) \cup {<<OPEN, COMMA, 49, 49, 49, 49, CLOSE>>},
     behind \in MCBehind}
MCCalls ==
  [fmt : MCFormats, args : MCLists]
  \cup [fmt : {f \in MCFormats : f.parts = <<Holder(Automatic, 0, FALSE, <<>>)>>}, args : MCFloats]
  \cup [fmt : MCViews, args : {<<[units |-> <<98>>], [int |-> -7]>>}]
=============================================================================
