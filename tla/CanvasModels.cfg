CONSTANTS
  r1 = r1
  f1 = f1
  Scenario <- MCScenario
  Run = {r1}
  Filter = {f1}
  Of <- MCOf
  ViewName <- MCViews
  Proc = {p1, p2}
  Autocommits = {"create", "delete"}
SPECIFICATION Spec
INVARIANT TypeOK Settled
PROPERTY NothingLost
VIEW MCView
SYMMETRY MCSymmetry
