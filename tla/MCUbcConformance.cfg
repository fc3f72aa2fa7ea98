SPECIFICATION TestSpec
CONSTANTS
  Vectors <- vectors
  MaxU32 = 20
  MaxU64 = 40
  MaxAscii = 2
  CreatedAtLen = 2
  ChunkSize = 2
  CapOfChunks = 3
  Streams <- AllStreams
  Tails <- AllTails
  Keys <- AllKeys
  Options <- AllOptions
  Defaults <- AllDefaults
  Entries <- EntryPoints
  Block = 2
  MaxRead = 2
  EntryTags <- MCTags
  EntryValues <- MCValues
  RegionUnits <- MCUnits
  MaxEntries = 3
  MaxData = 7
INVARIANTS EntryPointsAgree ReadersMeetVectors SdkReproducesVectors MetadataIsInverse
CHECK_DEADLOCK FALSE
