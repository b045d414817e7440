\* NUL, a space, a letter, a lead surrogate and a trail surrogate; the letter
\* and the code point of the surrogates are sought.
CONSTANTS
  Units = {0, 32, 97, 55357, 56832}
  BufferLength = 4
  Sought = {97, 128512}
  SIZE_MAX = 15
  Windows <- MCWindows
  Predicates <- MCPredicates
SPECIFICATION FairSpec
INVARIANTS SearchFinds SearchStays TrimExact BlankCause
PROPERTY SearchReturns
CHECK_DEADLOCK FALSE
