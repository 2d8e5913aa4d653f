CONSTANTS
  Run = {r1, r2}
  Slots = 1
  Faults = {"broker", "worker", "publish", "request"}
SPECIFICATION Spec
CHECK_DEADLOCK FALSE
INVARIANTS
  TypeOK
  EveryTaskFindsItsRun
  AnswerIsTrue
PROPERTY PageLearns
