SPECIFICATION FairSpec
CONSTANTS
  main = main
  Loggers <- MainOnly
  Heart = main
  Capacity = 2
  Chunk = 1
  MaxClient = 2
  MaxUnread = 1
  LastSerial = 4
INVARIANTS
  TypeOK
  WireOrder
  LossOnlyWhenFull
  AsleepOverOldLines
  OneStrayChunk
PROPERTIES
  LogReturns
  DataMoves
  DepartureNoticed
