SPECIFICATION Spec
CONSTANTS
  c1 = c1  c2 = c2  l1 = l1  l2 = l2
  Clients = {c1, c2}
  Loops = {l1, l2}
  None = None
  Uses <- UsesMixed
  Controllers = {c1}
  DirectSenders = {}
  ReentrantCalls = {"send", "stopListen"}
  Faults = {"receive", "handler", "thread"}
  EmptyHandlers = TRUE
  StopsBeforeListen = TRUE
INVARIANTS
  TypeOK RunningHandlerIsRegistered NormalHandlerExcludesExclusive
  OneJoiner OneJoinableLoop NeverTerminates
PROPERTY MonitorSpec
SYMMETRY LoopSymmetry
