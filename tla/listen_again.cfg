SPECIFICATION Spec
CONSTANTS
  c1 = c1  c2 = c2  l1 = l1  l2 = l2
  Clients = {c1, c2}
  Loops = {l1, l2}
  None = None
  Uses <- UsesContest
  Controllers = {c1}
  DirectSenders = {}
  ReentrantCalls = {}
  Faults = {"receive"}
  EmptyHandlers = FALSE
  StopsBeforeListen = FALSE
INVARIANT NeverTerminates
