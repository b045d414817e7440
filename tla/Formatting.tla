------------------------------ MODULE Formatting ------------------------------
(***************************************************************************)
(* What formatting promises: the parts of a format are answered one after  *)
(* the other, a placeholder by its argument, and placeholders without a    *)
(* number take the arguments in their order. Without any arguments the     *)
(* format is handed out as it is.                                          *)
(***************************************************************************)
EXTENDS FormatParts

CONSTANTS
  PartSequences,  \* formats, as sequences of parts
  NoParts,        \* a format that is not written from parts
  ArgumentLists

VARIABLES
  arguments,  \* integers and strings
  parts,      \* those that are still to be answered
  auto,       \* how many placeholders without a number have been answered
  answer,
  returned

vars == <<arguments, parts, auto, answer, returned>>

\* A number beyond the last argument stands for nothing at all.
Answer(part) ==
  IF part.kind # "placeholder" THEN <<part.unit>>
  ELSE LET number == IF part.number = Automatic THEN auto ELSE part.number
       IN  IF number >= Len(arguments) THEN <<>>
           ELSE LET argument == arguments[number + 1]
                IN  Padded(CASE "int" \in DOMAIN argument   -> Numeral(argument.int)
                             [] "units" \in DOMAIN argument -> argument.units
                             [] "chars" \in DOMAIN argument -> argument.chars, part.width)

-----------------------------------------------------------------------------

Init ==
  /\ arguments \in ArgumentLists
  /\ parts \in PartSequences \cup {NoParts}
  /\ auto = 0
  /\ answer = <<>>
  /\ returned = FALSE

AnswerPart ==
  /\ parts \notin {<<>>, NoParts} /\ arguments # <<>>
  /\ answer' = answer \o Answer(Head(parts))
  /\ auto' = IF Head(parts).kind = "placeholder" /\ Head(parts).number = Automatic THEN auto + 1 ELSE auto
  /\ parts' = Tail(parts)
  /\ UNCHANGED <<arguments, returned>>

Return ==
  /\ parts = <<>> /\ arguments # <<>> /\ ~ returned
  /\ returned' = TRUE
  /\ UNCHANGED <<arguments, parts, auto, answer>>

ReturnVerbatim ==
  /\ parts # NoParts /\ arguments = <<>> /\ ~ returned
  /\ answer' = Written(parts)
  /\ parts' = <<>>
  /\ returned' = TRUE
  /\ UNCHANGED <<arguments, auto>>

Next == AnswerPart \/ Return \/ ReturnVerbatim

Spec == Init /\ [][Next]_vars /\ WF_vars(Next)
=============================================================================
