\* One object; 'a', a lead surrogate and a trail surrogate.
CONSTANTS
  Strings = {s}
  Units = {97, 55357, 56832}
  TextLength = 3
  PatternLength = 2
  MaxCount = 2
  Fills = {97}
  MaxSize = 5
  SIZE_MAX = 15
  Texts <- MCTexts
  Patterns <- MCPatterns
  Counts <- MCCounts
SPECIFICATION ReplaceSpec
INVARIANT ReplacesEveryOccurrence
CHECK_DEADLOCK FALSE
