CONSTANTS
  Feature = {f1, f2}
  Column = {du}
  Value = {v1, v2}
  Null = Null
  NoRow = NoRow
  Unwritten = Unwritten
  Client = {w1, w2}
  MaxBatches = 3
SPECIFICATION TxnSpec
SYMMETRY Symmetry
CHECK_DEADLOCK FALSE
INVARIANT TxnTypeOK
PROPERTY Atomic
