SPECIFICATION MCSpec
CONSTANTS
  MaxU32 = 6
  MaxU64 = 6
  MaxAscii = 2
  CreatedAtLen = 2
  Streams <- AllStreams
  Tails <- MCTails
  Keys <- MCKeys
  Options <- AllOptions
  Defaults <- MCDefaults
  Block <- SampleBlock
  MaxRead = 2
  Made <- MCRecipes
INVARIANTS TypeOK FinalizedIsWhole AcceptedChunksAuthentic WorkIsBounded CleanEndIsExplained
  OnlyOriginals TotalNeverWraps
PROPERTIES ErrorIsFinal ImplementsReader ReadingEnds
CHECK_DEADLOCK FALSE
