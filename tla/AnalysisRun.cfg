CONSTANTS
  Reader = {p1, p2}
  InRequest = TRUE
  Stale = 4
  Budget = 6
  MaxMissed = 3
  Crashes = TRUE
  NoReading = NoReading
SPECIFICATION FairSpec
INVARIANTS
  TypeOK
  NoFalseAlarm
  OutcomeStands
PROPERTY EveryRunEnds
