SPECIFICATION FairSpec
CONSTANTS
  r1 = r1
  r2 = r2
  h1 = h1
  h2 = h2
  rpa = rpa
  ee = ee
  none = none
  eridoc = eridoc
  bitbucket = bitbucket
  Jiras = {j1}
  Runs = {r1}
  Tools = {rpa}
  ScannersOf <- BothScanners
  Handlers = {h1, h2}
  Ops = {"cancel", "golive"}
  MaxRetries = 1
  Faults = {"abort", "worker", "web"}
  MaxFaults = 1
  Modes = {TRUE, FALSE}
PROPERTIES
  RunSettles
  CancelBeforeVerdictSticks
CHECK_DEADLOCK FALSE
