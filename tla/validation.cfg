SPECIFICATION Spec
CONSTANTS
  r1 = r1
  r2 = r2
  h1 = h1
  h2 = h2
  rpa = rpa
  ee = ee
  none = none
  eridoc = eridoc
  bitbucket = bitbucket
  Jiras = {j1}
  Runs = {r1}
  Tools = {rpa, none}
  ScannersOf <- MixedScanners
  Handlers = {h1, h2}
  Ops = {"cancel", "pdf", "golive"}
  MaxRetries = 1
  Faults = {"abort", "worker", "web"}
  MaxFaults = 2
  Modes = {TRUE, FALSE}
SYMMETRY Requests
INVARIANTS
  TypeOK
  
  
  
CHECK_DEADLOCK FALSE
