SPECIFICATION FairSpec
CONSTANTS
  r1 = r1
  r2 = r2
  h1 = h1
  h2 = h2
  rpa = rpa
  ee = ee
  none = none
  eridoc = eridoc
  bitbucket = bitbucket
  Jiras = {j1}
  Runs = {r1}
  Tools = {rpa}
  ScannersOf <- BothScanners
  Handlers = {h1}
  Ops = {"cancel"}
  MaxRetries = 1
  Faults = {}
  MaxFaults = 0
  Modes = {FALSE}
PROPERTIES
  TerminateShowsCancelled
CHECK_DEADLOCK FALSE
