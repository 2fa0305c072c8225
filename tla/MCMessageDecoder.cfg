SPECIFICATION Spec
CONSTANTS
  Base = 2
  MAGIC_WORD_1 = 0
  MAGIC_WORD_2 = 1
  Type <- TypeSet
  Text <- TextSet
  RecvSize = 7
  MaxMessage = 2
  MaxNoise = 2
INVARIANTS
  TypeOK
  Delivered
  StreamRead
  TextsWhole
CHECK_DEADLOCK FALSE
