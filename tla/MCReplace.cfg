\* One object; NUL, 'A', 'a', a lead surrogate and a trail surrogate. The strings
\* may grow to twice the length they have at first.
CONSTANTS
  Strings = {s}
  Units = {0, 65, 97, 55357, 56832}
  TextLength = 3
  PatternLength = 2
  MaxCount = 0
  Fills = {}
  MaxSize = 6
  SIZE_MAX = 15
  Texts <- MCTexts
  Patterns <- MCPatterns
  Counts <- MCCounts
SPECIFICATION ReplaceSpec
INVARIANTS SpliceInRange ReplacesAll
PROPERTY ReplaceEnds
CHECK_DEADLOCK FALSE
