SPECIFICATION FairSpec
CONSTANTS
  a = a
  b = b
  w1 = w1
  w2 = w2
  Cameras = {a, b}
  Existing = {a}
  Handlers = {w1}
  Passes = {w2}
  Vendor <- MCVendor
  Hinted = {b}
  MaxMonitors = 1
  MaxRequests = 1
  MaxFaults = 1
  None = None
PROPERTIES PathsFollow MonitorsFollow
