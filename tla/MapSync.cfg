CONSTANTS
  Page = {p1}
  Writer = {w1, w2}
  Backend = {"martin", "tipg"}
  Kinds <- MCKinds
  MaxRows = 2
  MaxLayers = 1
  MaxDrops = 1
  MaxAsks = 2
SPECIFICATION Spec
CHECK_DEADLOCK FALSE
INVARIANT TypeOK
PROPERTY TilesMirror ListCatchesUp
