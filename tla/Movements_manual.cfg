SPECIFICATION Spec
CONSTANTS
  c1 = c1
  c2 = c2
  Clients = {c1, c2}
  Observations = {"o1"}
  Plates = {"A"}
  Points = {"both"}
  PointType <- MCPointType
  PointUnit <- MCPointUnit
  ObsPoint <- AtBoth
  ObsPlate <- MCObsPlate
  ObsTime <- AtOnce
  MaxTime = 1
  Window = 1
  MaxMovements = 2
  Enabled = {"register", "unregister", "create", "update", "remove", "auto", "confirm", "reconcile"}
  None = None
SYMMETRY ClientSymmetry
INVARIANTS TypeOK ReviewMatchesVehicle
PROPERTIES ObservedContextImmutable
