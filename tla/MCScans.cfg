\* 'a', a lead surrogate, a trail surrogate and U+FF5E, above the surrogates.
CONSTANTS
  Units = {97, 55357, 56832, 65374}
  MaxLength = 6
  SIZE_MAX = 15
  Strings <- MCStrings
  Counts <- MCCounts
SPECIFICATION FairSpec
INVARIANTS ReturnsCount CountsEveryPair ReturnsPosition PositionExact
PROPERTY ScansReturn
CHECK_DEADLOCK FALSE
