CONSTANTS
  Buckets = 5
  Scale = 360360
  Asked <- MCAsked
  MaxValue = 5
  MaxRows = 2
  MaxClasses = 4
  Named = {"a", "b", "c"}
  Module <- MCModule
  OrderProblems <- MCOrderProblems
  Missing = Missing
  Rows <- MCRows
  Trees <- MCTrees
SPECIFICATION Spec
CHECK_DEADLOCK FALSE
INVARIANTS
  NaturalBreaksAreBest
  NoClassIsLost
  MapShowsTheLegend
  DependenciesRunFirst
  FilterDrawsItsTree
