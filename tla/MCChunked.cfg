SPECIFICATION ChunkedSpec
CONSTANTS
  ChunkedResponses <- AllResponses
  Encodings <- AllEncodings
INVARIANTS
  SegmentsDontMatter
  EncodedAccepted
  DecodedRight
CHECK_DEADLOCK FALSE
