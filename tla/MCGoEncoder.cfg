SPECIFICATION EncSpec
CONSTANTS
  MaxU32 = 5
  MaxU64 = 5
  MaxAscii = 2
  CreatedAtLen = 2
  Pieces <- MCPieces
  MaxWrites = 3
  MetadataLists <- MCMetadataLists
  EncodeOptions <- MCEncodeOptions
  NoNonce <- MCNoNonce
  RandomNonces <- MCRandomNonces
  DefaultChunkSize = 2
INVARIANTS SinkIsPrefix CloseIsHonest RoundTrip
PROPERTY ClosedIsFinal
CHECK_DEADLOCK FALSE
