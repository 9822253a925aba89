SPECIFICATION MCRegistrationSpec
CONSTANTS
  Observations = {"o1", "o2"}
  Plates = {"A", "B"}
  ObsPlate <- MCObsPlate
  Sure = {"o1"}
  Cooldown = 1
  CompanySettings <- MCCompanySettings
  PointSettings <- MCPointSettings
  MaxProcessed = 1
  KeptProcessed = 0
  MaxTime = 2
  MaxEvents = 1
  None = None
  ReadTexts <- MCReadTexts
  VisionTexts <- MCVisionTexts
  MaxCrops = 2
  NoPlate = NoPlate
  p = p
  q = q
  PlateTexts = {p, q}
  Nil = Nil
  Cameras = {"camera"}
  Requests = {"request"}
  MaxMonitors = 1
  MaxManual = 1
  StaleAfter = 3
  MaxCreated = 3
  MaxClock = 4
  ConfirmationReads = 2
  Window = 2
INVARIANT CooldownKeptForNewVehicle
SYMMETRY TextSymmetry
CHECK_DEADLOCK FALSE
