SPECIFICATION Spec
CONSTANTS
  Size = 3
  Byte <- ByteSet
  MaxPut = 4
  MaxGet = 4
INVARIANTS
  TypeOK
PROPERTIES
  ImplementsDropOldest
