---------------------------- MODULE MCUtf8Encoder ----------------------------
(* Constants of Utf8Encoder for TLC. *)
EXTENDS Utf8Encoder, SequencesExt

CONSTANTS Characters, Units, TextLength, BufferLength

MCTexts == BoundedSeq(Characters, TextLength)

\* A view of every text, in a buffer that ends with it and a NUL.
MCTextSources ==
  {[buffer |-> Append(Encoded(text, UTF16), NUL), size |-> Len(Encoded(text, UTF16)), text |-> text] :
     text \in MCTexts}

\* A view of every size on every sequence of units, with a NUL behind or without.
MCOtherSources ==
  UNION {[buffer : {s, Append(s, NUL)}, size : 0 .. Len(s), text : {NoText}] :
           s \in BoundedSeq(Units, BufferLength)}

MCSources == MCTextSources \cup MCOtherSources
=============================================================================
