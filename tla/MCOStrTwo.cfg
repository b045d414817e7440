\* Two objects; a space, a lead surrogate and a trail surrogate.
CONSTANTS
  Strings = {s, t}
  Units = {32, 55357, 56832}
  TextLength = 1
  PatternLength = 0
  MaxCount = 1
  Fills = {32, 55357}
  MaxSize = 3
  SIZE_MAX = 7
  Texts <- MCFewTexts
  Patterns <- MCPatterns
  Counts <- MCCounts
SYMMETRY MCSymmetry
SPECIFICATION CallSpec
PROPERTIES CacheStaysExact WellFormedKept
