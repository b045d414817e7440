\* Texts at the boundaries of the lengths of UTF-8, of the surrogates and of the
\* planes. Units: NUL, '$', two lead surrogates and a trail surrogate.
CONSTANTS
  Characters = {36, 127, 128, 2047, 2048, 65535, 65536, 1114111}
  TextLength = 3
  Units = {0, 36, 55296, 56319, 57343}
  BufferLength = 4
  Room = 13
  SIZE_MAX = 63
  NoText = NoText
  Texts <- MCTexts
  Sources <- MCSources
SPECIFICATION FairSpec
INVARIANTS ReturnsOnlyWhole NeverOverruns
PROPERTIES Converts ReturnsWhole
CHECK_DEADLOCK FALSE
