\* Texts at the boundaries of one, two and three bytes, and of the surrogates.
\* Bytes: NUL, '$', continuation bytes, and first bytes of two and of three, one
\* of which is overlong.
CONSTANTS
  Characters = {36, 127, 128, 2047, 2048, 55295, 57344, 65535}
  TextLength = 3
  Bytes = {0, 36, 128, 161, 192, 195, 226}
  BufferLength = 4
  Room = 8
  SIZE_MAX = 63
  NoText = NoText
  Texts <- MCTexts
  Sources <- MCSources
  StackUnits <- MCStackUnits
SPECIFICATION FairSpec
INVARIANTS ReturnsOnlyWhole OverrunCause StackUnitsCause
PROPERTIES Converts ReturnsWhole
CHECK_DEADLOCK FALSE
