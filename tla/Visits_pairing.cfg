SPECIFICATION VisitsSpec
CONSTANTS
  MaxMovements = 4
  MaxTime = 4
  a = a
  b = b
  Units = {a, b}
  Now = 3
  MaxPassages = 4
  MaxSteps = 5
  Requests <- MCRequests
  Offset = 1
  DayLength = 4
  DefaultRange = 2
  Lookback = 2
  BaselineWindow = 4
  BaselineCache = 2
  OpenDwellAlert = 2
  MinSamples = 1
  P95 = 50
  None = None
SYMMETRY UnitSymmetry
INVARIANTS VisitsNest DwellsCountVisits TimeAddsUp CurrentStateExplained
PROPERTIES ReconcileCountsVisits NothingToReconcile
CHECK_DEADLOCK FALSE
