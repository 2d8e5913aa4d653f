CONSTANTS
  MaxRuns = 2
  Request = {"yolo", "placer", "poi_east", "poi_west", "tif", "dem", "fill"}
  Kind <- MCKind
  ModelOf <- MCModelOf
  TableOf <- MCTableOf
  Worker = {w1, w2}
  MaxLost = 2
SPECIFICATION Spec
CHECK_DEADLOCK FALSE
INVARIANT TypeOK LayersKeepTheirRows UnstyledIsUnfinished
PROPERTY PageLearnsTheEnd
