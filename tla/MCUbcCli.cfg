SPECIFICATION CliSpec
CONSTANTS
  Procs <- MCProcs
  Requests <- MCRequests
  Names <- MCNames
  Files <- MCFiles
  Disks <- MCDisks
  Keys = {"key"}
  Reads = 2
INVARIANTS StatusIsHonest NothingLeftBehind DecodeFailsClosed
PROPERTIES NamesChangeWhole SourcesSurvive
CHECK_DEADLOCK FALSE
