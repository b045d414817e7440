\* One object; NUL, 'a', a lead surrogate and a trail surrogate.
CONSTANTS
  Strings = {s}
  Units = {0, 97, 55357, 56832}
  TextLength = 1
  PatternLength = 1
  MaxCount = 2
  Fills = {55357}
  MaxSize = 4
  SIZE_MAX = 9
  Texts <- MCFewTexts
  Patterns <- MCFewPatterns
  Counts <- MCCounts
SPECIFICATION Spec
INVARIANTS TypeOK SubstringExact ReplaceRangeExact
PROPERTY CacheStaysExact
CHECK_DEADLOCK FALSE
