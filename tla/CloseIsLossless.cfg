SPECIFICATION EncSpec
CONSTANTS
  MaxU32 = 12
  MaxU64 = 20
  MaxAscii = 2
  CreatedAtLen = 2
  Buffers <- MCBuffers
  MaxWrites = 3
  Metadata <- MCMetadata
  Encodings <- MCEncodings
  NoNonce <- MCNoNonce
  Randoms <- MCRandoms
INVARIANTS CloseIsLossless
CHECK_DEADLOCK FALSE
