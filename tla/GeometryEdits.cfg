CONSTANTS
  Unit <- MCUnit
  BaseGround <- MCBaseGround
  Speck <- MCSpeck
  Value = {v1}
  NoRow = NoRow
  Worker = {w1, w2}
  NoPlan = NoPlan
  MaxBatches = 3
  MaxCells = 3
SPECIFICATION Spec
SYMMETRY Symmetry
CHECK_DEADLOCK FALSE
INVARIANTS
  TypeOK
  EditsCompose
  CellsAreNew
PROPERTIES
  EditsConserveValues
  UndoRestoresCanvas
