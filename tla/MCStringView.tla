---------------------------- MODULE MCStringView ----------------------------
(* Views and patterns: every string of up to a given length over Units. *)
EXTENDS StringView, SequencesExt

CONSTANTS Units, ViewLength, PatternLength, HighUnits, HighLength

\* Units above the surrogates are met in short views and patterns only.
MCHigh == BoundedSeq(Units \cup HighUnits, HighLength)

MCViews    == BoundedSeq(Units, ViewLength) \cup MCHigh
MCPatterns == BoundedSeq(Units, PatternLength) \cup MCHigh

\* Every position in a view, one beyond, and the default argument.
MCCounts == 0 .. (ViewLength + 1) \cup {SIZE_MAX}
=============================================================================
