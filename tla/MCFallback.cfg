\* Six tables and every surface of up to four characters.
CONSTANTS
  Tables <- SmallTables
  Surfaces <- SmallSurfaces
  Letters = {"s", "c", "h", "o", "x"}
  Fold <- FoldOf
  Inventory <- Symbols
SPECIFICATION Spec
INVARIANTS
  ValidTablesAreTotal
  LongestMatch
