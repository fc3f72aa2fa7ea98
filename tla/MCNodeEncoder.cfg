SPECIFICATION EncFairSpec
CONSTANTS
  MaxU32 = 3
  MaxU64 = 3
  MaxAscii = 2
  CreatedAtLen = 2
  Pieces <- MCPieces
  MaxWrites = 2
  Entries <- MCEntries
  EncodeOptions <- MCEncodeOptions
INVARIANTS FinishIsHonest SpoolIsRemoved
PROPERTY EncoderCloses
CHECK_DEADLOCK FALSE
