SPECIFICATION Spec
CONSTANTS
  m1 = m1
  m2 = m2
  m3 = m3
  m4 = m4
  h1 = h1
  h2 = h2
  v1 = v1
  v2 = v2
  j1 = j1
  j2 = j2
  rpa = rpa
  ee = ee
  s1 = s1
  s2 = s2
  Meetings = {m1}
  Nobody = Nobody
  Handlers = {h1, h2}
  Ops = {"book", "cancel"}
  Runs = {v1, v2}
  Passed = {v1, v2}
  Jiras = {j1, j2}
  Tools = {rpa, ee}
  JiraOf <- SameJira
  ToolOf <- TwoTools
  Slots = {s1}
  Dates = {1, 2}
  Today = 1
  Closed = {}
  MaxAdvanceDays = 60
  FlowOrdered = TRUE
  Faults = {}
  MaxFaults = 0
INVARIANTS
  CancelledLeavesCalendar
CHECK_DEADLOCK FALSE
