SPECIFICATION Spec
CONSTANTS
  c1 = c1
  c2 = c2
  Clients = {c1, c2}
  Observations = {"o1", "o2", "o3"}
  Plates = {"A"}
  Points = {"in", "out"}
  PointType <- MCPointType
  PointUnit <- MCPointUnit
  ObsPoint <- InThenOut
  ObsPlate <- MCObsPlate
  ObsTime <- FirstThenLast
  MaxTime = 2
  Window = 1
  MaxMovements = 3
  Enabled = {"register", "auto", "confirm", "recalculate", "reconcile"}
  None = None
SYMMETRY ClientSymmetry
INVARIANTS ClosedEntryWasLeft OneMovementPerObservation
