SPECIFICATION FairSpec
CONSTANTS
  c1 = c1
  c2 = c2
  Clients = {c1, c2}
  Observations = {"o1", "o2"}
  Plates = {"A"}
  Points = {"in"}
  PointType <- MCPointType
  PointUnit <- MCPointUnit
  ObsPoint <- AtEntry
  ObsPlate <- MCObsPlate
  ObsTime <- AtOnce
  MaxTime = 1
  Window = 1
  MaxMovements = 2
  Enabled = {"register", "auto", "discard", "recalculate"}
  None = None
PROPERTIES EveryRequestEnds ReviewIsFinal
