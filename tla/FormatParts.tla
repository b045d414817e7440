------------------------------ MODULE FormatParts ------------------------------
(***************************************************************************)
(* What formats are written from: a unit of text, a brace, or a placeholder*)
(* for an argument, with its number, the width to fill it up to, and a     *)
(* parameter that begins with a colon.                                     *)
(***************************************************************************)
EXTENDS Integers, SequencesExt

Automatic == -1  \* the number of a placeholder without one

\* Parts whose numbers, widths and units are in the sets given. Text has no brace,
\* only a positive width has a sign, a parameter is not closed, and a placeholder
\* without a number is nothing more.
Parts(numbers, widths, units) ==
  [kind : {"text"}, unit : units \ {123, 125}]
  \cup [kind : {"brace"}, unit : {123, 125}]
  \cup {part \in [kind : {"placeholder"}, number : numbers \cup {Automatic}, width : widths,
                  plus : BOOLEAN, param : Seq(units)] :
          /\ part.plus => part.width > 0
          /\ part.param # <<>> => part.param[1] = 58
          /\ \A k \in 1 .. Len(part.param) : part.param[k] # 125
          /\ part.number = Automatic => part.width = 0 /\ part.param = <<>>}

\* After a placeholder without a number none has one.
AutoLast(parts) ==
  \A j, k \in 1 .. Len(parts) :
    /\ j < k /\ parts[j].kind = "placeholder" /\ parts[k].kind = "placeholder"
    /\ parts[j].number = Automatic
    => parts[k].number = Automatic

Decimal[n \in Nat] ==
  IF n < 10 THEN <<48 + n>> ELSE Append(Decimal[n \div 10], 48 + (n % 10))

Numeral(n) == IF n < 0 THEN <<45>> \o Decimal[-n] ELSE Decimal[n]
Signed(n, plus) == IF plus THEN <<43>> \o Decimal[n] ELSE Numeral(n)

\* How a part is written: a brace twice, a width of 0 not at all, and a positive
\* one with a sign or without.
WrittenPart(part) ==
  CASE part.kind = "text"  -> <<part.unit>>
    [] part.kind = "brace" -> <<part.unit, part.unit>>
    [] part.kind = "placeholder" ->
         <<123>> \o (IF part.number = Automatic THEN <<>> ELSE Decimal[part.number])
                 \o (IF part.width = 0 THEN <<>> ELSE <<44>> \o Signed(part.width, part.plus))
                 \o part.param \o <<125>>

Written(parts) == FlattenSeq([k \in 1 .. Len(parts) |-> WrittenPart(parts[k])])

\* Filled up with spaces to |width| units, in front or, if it is negative, behind.
Padded(s, width) ==
  LET size == Max({Len(s), width, -width})
      skip == IF width > 0 THEN size - Len(s) ELSE 0
  IN  [k \in 1 .. size |-> IF k - skip \in 1 .. Len(s) THEN s[k - skip] ELSE 32]
=============================================================================
