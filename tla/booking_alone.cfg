SPECIFICATION Spec
CONSTANTS
  m1 = m1
  m2 = m2
  m3 = m3
  m4 = m4
  h1 = h1
  h2 = h2
  v1 = v1
  v2 = v2
  j1 = j1
  j2 = j2
  rpa = rpa
  ee = ee
  s1 = s1
  s2 = s2
  Meetings = {m1, m2, m3}
  Nobody = Nobody
  Handlers = {h1}
  Ops = {"book", "cancel", "reschedule", "slots"}
  Runs = {v1, v2}
  Passed = {v1, v2}
  Jiras = {j1, j2}
  Tools = {rpa, ee}
  JiraOf <- SameJira
  ToolOf <- TwoTools
  Slots = {s1, s2}
  Dates = {1, 2}
  Today = 1
  Closed = {2}
  MaxAdvanceDays = 60
  FlowOrdered = TRUE
  Faults = {"reschedule mail"}
  MaxFaults = 1
  ann = ann
  bob = bob
  Days = {1, 2, 3}
  People = {ann, bob}
  AttendeesOf <- Invited
  Reporters = {ann}
  DocRuns = {1, 2}
  DocOf <- DocOnly
  Cut = 1
  Views <- Requested
SYMMETRY Anyone
INVARIANTS
  PageAddsUp
  
  
  CalendarMatchesRows
  OneMeetingPerJira
  CalendarTellsTruth
CHECK_DEADLOCK FALSE
