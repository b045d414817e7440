---------------------------- MODULE Transcoding ----------------------------
(***************************************************************************)
(* What a converter of text promises: it hands the code points over one by *)
(* one, in their order, and returns when there are none left. Of something *)
(* that is no text it promises nothing.                                    *)
(***************************************************************************)
EXTENDS Sequences

CONSTANTS
  Texts,  \* sequences of code points
  NoText

VARIABLES
  rest,     \* the code points to be converted
  done,     \* those that have been written
  returned

vars == <<rest, done, returned>>

Init == rest \in Texts \cup {NoText} /\ done = <<>> /\ returned = FALSE

Convert ==
  /\ rest \notin {<<>>, NoText}
  /\ done' = Append(done, Head(rest))
  /\ rest' = Tail(rest)
  /\ UNCHANGED returned

Return ==
  /\ rest = <<>> /\ ~ returned
  /\ returned' = TRUE
  /\ UNCHANGED <<rest, done>>

Next == Convert \/ Return

Spec == Init /\ [][Next]_vars /\ WF_vars(Next)
=============================================================================
