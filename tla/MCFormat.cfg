\* Units: the two braces, a comma, a colon, a minus, a digit and a letter.
CONSTANTS
  MaxParts = 3
  Units = {123, 125, 44, 58, 45, 49, 97}
  ViewLength = 4
  SIZE_MAX = 4095
  INT_MAX = 999
  FLT_MANT_DIG = 11
  NoParts = NoParts
  Calls <- MCCalls
  ArgumentLists <- MCArgumentLists
  PartSequences <- MCPartSequences
SPECIFICATION FairSpec
INVARIANTS IntReadsBack FloatReadsBack OutsideCause TextOnce
PROPERTY AnswersParts
CHECK_DEADLOCK FALSE
