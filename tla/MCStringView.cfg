\* 'A', 'a', a lead surrogate and a trail surrogate; U+FF5E, above
\* the surrogates, in views and patterns of up to two units.
CONSTANTS
  Units = {65, 97, 55357, 56832}
  ViewLength = 5
  PatternLength = 2
  HighUnits = {65374}
  HighLength = 2
  SIZE_MAX = 63
  Views <- MCViews
  Patterns <- MCPatterns
  Counts <- MCCounts
SPECIFICATION Spec
INVARIANTS CutExact NeverThrows SearchExact SplitExact AffixExact
  ComparesByCodePointBelowSurrogates
PROPERTY SplitShrinks
CHECK_DEADLOCK FALSE
