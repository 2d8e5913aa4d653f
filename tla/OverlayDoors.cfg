CONSTANTS
  Feature = {f1, f2}
  Column = {du}
  Value = {v1, v2}
  Null = Null
  NoRow = NoRow
  MaxBatches = 3
  MaxNotes = 1
SPECIFICATION DoorsSpec
CHECK_DEADLOCK FALSE
INVARIANT LogExplainsRows
