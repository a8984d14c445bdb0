\* A conversion ends.
CHECK_DEADLOCK FALSE
CONSTANTS
  Texts16 <- MCTexts16
  Texts8 <- MCTexts8
  Buffers = {2, 3, 12}
  LargeBuffer = 12
SPECIFICATION ConverterSpec
INVARIANTS
  WritesWellFormedText
  SizeIsEnough
  ReplacesIllFormed
  RoundTrip
