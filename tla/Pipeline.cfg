SPECIFICATION WatchedSpec
CONSTANTS
  a = a
  b = b
  Cameras = {a, b}
  Points = {"gate"}
  PointOf <- OneGate
  Capacity = 1
  Concurrency = 2
  MaxPending = 2
  MaxEvents = 3
  MaxFaults = 1
  None = None
INVARIANTS NoSilentLoss OneJobPerPoint
PROPERTY EveryStateAttended
