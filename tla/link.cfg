SPECIFICATION MCFairSpec
CONSTANTS
  Payloads <- PlainCrcPayloads
  MaxMessages = 3
  MaxFaults = 2
  Pauses = {0, 3, 4}
  Handling = 1
INVARIANTS TypeOK ReceiverSurvives NothingInvented
PROPERTIES ChannelSpec TimedChannelSpec MessagesArrive ReceiveEnds
CHECK_DEADLOCK FALSE
