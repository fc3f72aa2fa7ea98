SPECIFICATION EntrySpec
CONSTANTS
  Entries <- MCEntries
  MaxU32 = 9
  MaxU64 = 20
  MaxAscii = 2
  CreatedAtLen = 2
  Streams <- MCStreams
  Tails <- MCTails
  Keys <- MCKeys
  Options <- MCOptions
  Defaults <- MCDefaults
  Block <- SampleBlock
  MaxRead = 2
INVARIANT FramingComesFirst
CHECK_DEADLOCK FALSE
