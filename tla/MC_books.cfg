SPECIFICATION Spec
CONSTANTS
  LastTradeId = 3
  Kinds <- SomeKinds
  PageSize = 2
  MaxPages = 2
  MaxMoves = 2
INVARIANTS
  BooksTypeOK
  PassedIsExplained
  RefusedForAReason
  FillsAddUp
  CashConserved
PROPERTIES
  ReadIsAtomic
