CONSTANTS
  Archetypes <- MCArchetypes
  MaxTypes = 3
  Parcels <- MCParcels
  SectorOrder <- MCSectorOrder
  NormalKey <- MCNormalKey
SPECIFICATION Spec
CHECK_DEADLOCK FALSE
INVARIANT TypeOK TwinRulesAgree MatchersAgree
PROPERTY HomesAreHoused MatchSettles FillRepeatsMatch
