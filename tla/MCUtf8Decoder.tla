---------------------------- MODULE MCUtf8Decoder ----------------------------
(* Constants of Utf8Decoder for TLC. *)
EXTENDS Utf8Decoder, SequencesExt

CONSTANTS Characters, Bytes, TextLength, BufferLength

MCTexts == BoundedSeq(Characters, TextLength)

\* A view of every text, in a buffer that ends with it and a NUL.
MCTextSources ==
  {[buffer |-> Append(Encoded(text, UTF8), NUL), size |-> Len(Encoded(text, UTF8)), text |-> text] :
     text \in MCTexts}

\* A view of every size on every sequence of bytes, followed by a NUL.
MCOtherSources ==
  UNION {[buffer : {Append(s, NUL)}, size : 0 .. Len(s), text : {NoText}] :
           s \in BoundedSeq(Bytes, BufferLength)}

MCSources == MCTextSources \cup MCOtherSources

\* Nothing, an unpaired unit, a pair of two units.
MCStackUnits == {<<>>, <<7777>>, <<7777, 7778>>}

ASSUME MarkedAssumption == StackUnitsMarked
=============================================================================
