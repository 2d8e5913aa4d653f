CONSTANTS
  Feature = {f1, f2}
  Column = {du}
  Value = {v1, v2}
  Null = Null
  NoRow = NoRow
  MaxBatches = 5
SPECIFICATION Spec
SYMMETRY Symmetry
CHECK_DEADLOCK FALSE
INVARIANTS
  TypeOK
  LogExplainsRows
  UndoWalksBack
  UndoneOnce
