SPECIFICATION Spec
CONSTANTS
  Numbers <- NumberSet
  NoNumber = NoNumber
  Empty = Empty
  Menus <- MenuSet
  Indexes <- IndexSet
INVARIANTS
  NoneLeaked
  ListKept
