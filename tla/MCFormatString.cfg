SPECIFICATION FormatSpec
CONSTANTS
  Formats <- MCFormats
  Constants <- MCConstants
  Environment <- MCEnvironment
  ParameterBytes <- MCParameterBytes
  IntermediateBytes <- MCIntermediateBytes
  FinalBytes <- MCFinalBytes
  ContinuationBytes <- MCContinuationBytes
  IntMax = 30
  Nothing = Nothing
INVARIANTS
  BlocksRight
  WidthRight
CHECK_DEADLOCK FALSE
