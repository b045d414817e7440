-------------------------------- MODULE MCScans --------------------------------
(* Every string of up to MaxLength units over some kinds of code unit. *)
EXTENDS Scans, SequencesExt

CONSTANTS MaxLength, Units

MCStrings == BoundedSeq(Units, MaxLength)
MCCounts  == 0 .. (MaxLength + 1) \cup {SIZE_MAX - 1, SIZE_MAX}
=============================================================================
