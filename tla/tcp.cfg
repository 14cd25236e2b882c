SPECIFICATION FairSpec
CONSTANTS
  loop = loop  app = app
  Threads = {loop, app}
  Listener = loop
  Latency = 8
  MaxOutages = 2
  MaxSegments <- TwoOrOne
INVARIANTS TypeOK ReadyBetweenCalls FlagHasOwner
PROPERTIES Recovers StreamSpec
