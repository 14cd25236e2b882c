SPECIFICATION AppFairSpec
CONSTANTS
  main = main  loop = loop
  Clients = {main}
  Loops = {loop}
  None = None
  Uses <- UsesNormal
  Controllers = {main}
  DirectSenders = {main}
  ReentrantCalls = {}
  Faults = {"receive", "thread"}
  EmptyHandlers = FALSE
  StopsBeforeListen = TRUE
  MaxOutages = 2
INVARIANTS ConnectorOutlivesItsLoop LogOutlivesItsUsers
PROPERTY Ends
CHECK_DEADLOCK FALSE
