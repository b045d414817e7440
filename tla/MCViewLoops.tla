----------------------------- MODULE MCViewLoops -----------------------------
(* Views of every size at every place of every buffer of up to a given     *)
(* length over Units, with a terminator behind it or without, and one      *)
(* character sought, or none.                                              *)
EXTENDS ViewLoops, SequencesExt

CONSTANTS Units, BufferLength, Sought

MCBuffers == LET all == BoundedSeq(Units, BufferLength)
             IN  all \cup {Append(s, NUL) : s \in all}

MCWindows == UNION {
  {[buffer |-> s, begin |-> b, size |-> n - b] : b \in 0 .. n} :
    <<s, n>> \in UNION {{<<s, n>> : n \in 0 .. Len(s)} : s \in MCBuffers}}

MCPredicates == {{}} \cup {{c} : c \in Sought}
=============================================================================
