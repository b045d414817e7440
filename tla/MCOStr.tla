------------------------------- MODULE MCOStr -------------------------------
(* Constants of OStr for TLC. *)
EXTENDS OStr, SequencesExt, TLC

CONSTANTS Units, TextLength, PatternLength, MaxCount

MCTexts    == BoundedSeq(Units, TextLength)
MCPatterns == BoundedSeq(Units, PatternLength)

\* The units one by one, and a surrogate pair.
MCFewTexts == BoundedSeq(Units, 1) \cup {<<55357, 56832>>}

\* The same without a NUL, which no search finds.
MCFewPatterns == MCFewTexts \ {<<NUL>>}

\* Every position up to MaxCount, and the default argument.
MCCounts == 0 .. MaxCount \cup {SIZE_MAX}

MCSymmetry == Permutations(Strings)
=============================================================================
