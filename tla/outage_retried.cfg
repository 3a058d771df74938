SPECIFICATION Spec
CONSTANTS
  None = None
  d1 = d1
  d2 = d2
  MOP = MOP
  HLD = HLD
  f1 = f1
  f2 = f2
  Demo = {TRUE, FALSE}
  Docs = {d1, d2}
  Keys = {MOP, HLD}
  Checklists <- TwoChecklists
  PassScore = 90
  Files = {f1, f2}
  FailThreshold = "HIGH"
SYMMETRY Anything
INVARIANT OutageIsRetried
CHECK_DEADLOCK FALSE
