SPECIFICATION PythonSpec
CONSTANTS
  MaxU32 = 12
  MaxU64 = 20
  MaxAscii = 2
  CreatedAtLen = 2
  Streams <- MCPyStreams
  Keys <- MCPyKeys
  Options <- MCPyOptions
  MaxRead = 2
  ReadBlock = 1
  MaxFaults = 1
  Made <- MCPyRecipes
  Buffers <- MCPyBuffers
  MaxWrites = 2
  Metadata <- MCPyMetadata
  Encodings <- MCPyEncodings
  NoNonce <- MCPyNoNonce
  Randoms <- MCPyRandoms
INVARIANTS OnlyOriginals SinkHoldsOneContainer CloseWritesAccepted
PROPERTY ImplementsReader
CHECK_DEADLOCK FALSE
