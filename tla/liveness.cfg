SPECIFICATION FairSpec
CONSTANTS
  c1 = c1  c2 = c2  l1 = l1  l2 = l2
  Clients = {c1, c2}
  Loops = {l1}
  None = None
  Uses <- UsesApart
  Controllers = {c1}
  DirectSenders = {}
  ReentrantCalls = {"register", "unregister", "send", "stopListen"}
  Faults = {"receive", "handler"}
  EmptyHandlers = FALSE
  StopsBeforeListen = TRUE
INVARIANTS ListeningIsTrue
PROPERTIES CallsReturn LoopStops MonitorFairSpec
