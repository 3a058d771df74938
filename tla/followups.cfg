SPECIFICATION FairSpec
CONSTANTS
  a1 = a1
  a2 = a2
  h1 = h1
  h2 = h2
  Meetings = {a1}
  HandoverDay <- Held
  Configured = {a1}
  HasPolicy = TRUE
  ReminderDays = 1
  EscalationDays = 2
  Handlers = {h1, h2}
  Beat = TRUE
  LastDay = 3
  Faults = {"worker", "notice", "mail"}
  MaxFaults = 1
INVARIANTS
  TypeOK
PROPERTIES
  
  NoMailAfterStamp
  
CHECK_DEADLOCK FALSE
