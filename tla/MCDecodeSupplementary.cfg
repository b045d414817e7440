\* Texts at the boundaries of the first plane and of the last.
CONSTANTS
  Characters = {36, 65535, 65536, 1114111}
  TextLength = 2
  Bytes = {}
  BufferLength = 0
  Room = 4
  SIZE_MAX = 63
  NoText = NoText
  Texts <- MCTexts
  Sources <- MCSources
  StackUnits <- MCStackUnits
SPECIFICATION FairSpec
INVARIANT HoldsRealValue
CHECK_DEADLOCK FALSE
