SPECIFICATION RecordsSpec
CONSTANTS
  client1 = client1
  client2 = client2
  seen1 = seen1
  seen2 = seen2
  reader1 = reader1
  camera1 = camera1
  camera2 = camera2
  camera3 = camera3
  CompanyIds = {"k", "l"}
  CameraIds = {"cam"}
  Root = "root"
  FirstRows <- MCFirstRows
  Readers = {reader1}
  Points = {"gate"}
  PointOf <- OneGate
  Capacity = 1
  Concurrency = 2
  MaxPending = 1
  None = None
  Null = Null
  Clients = {client1, client2}
  UserIds = {"root", "boss", "joe", "new"}
  UnitIds = {"yard", "dock"}
  PointIds = {"gate", "door"}
  MaxRequests = 3
  Observations = {seen1, seen2}
  Answers = {"success", "low_confidence", "rate_limited"}
  MaxSeen = 2
  MaxMishaps = 2
  Cameras = {camera1, camera2, camera3}
  MaxEvents = 1
  MaxFaults = 0
SYMMETRY RecordsSymmetry
INVARIANTS RecordsTypeOK OneAdministrator ContextsAgree PendingPhotoLoadable PaidCallKept QueueBounded
PROPERTY TenantsKeptApart
CHECK_DEADLOCK FALSE
