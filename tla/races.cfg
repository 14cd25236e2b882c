SPECIFICATION Spec
CONSTANTS
  c1 = c1  c2 = c2  l1 = l1  l2 = l2
  Clients = {c1, c2}
  Loops = {l1, l2}
  None = None
  Uses <- UsesContest
  Controllers = {c1, c2}
  DirectSenders = {c1, c2}
  ReentrantCalls = {"register", "unregister", "send", "listen", "stopListen"}
  Faults = {"receive", "handler", "thread"}
  EmptyHandlers = FALSE
  StopsBeforeListen = FALSE
INVARIANTS
  GuardIsConsistent MutualExclusion NormalSendExcludesExclusive
CHECK_DEADLOCK FALSE
SYMMETRY LoopSymmetry
