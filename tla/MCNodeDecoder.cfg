SPECIFICATION BothSpec
CONSTANTS
  Inspected <- MCInspected
  PrefixPieces <- MCPrefixPieces
  MaxMetaBytes = 4
  MaxU32 = 9
  MaxU64 = 20
  MaxAscii = 2
  CreatedAtLen = 2
  Inputs <- MCInputs
  Tails <- MCTails
  Defaults <- MCDefaults
  Unset <- MCUnset
  Pieces <- MCPieces
  MinCapacity = 2
  HighWaterMark = 2
INVARIANTS SlabHoldsInput BuffersAreBounded CallbacksBalance InspectIsTransparent
PROPERTIES ImplementsReader StreamEnds
CHECK_DEADLOCK FALSE
