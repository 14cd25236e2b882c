SPECIFICATION Spec
CONSTANTS
  loop = loop  app = app
  Threads = {loop, app}
  Listener = loop
  Latency = 8
  MaxOutages = 1
  MaxSegments <- NoSegments
INVARIANT LostMeansReconnecting
