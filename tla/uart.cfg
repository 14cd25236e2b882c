SPECIFICATION Spec
CONSTANTS
  owner = owner  other = other
  Threads = {owner, other}
  Owner = owner
  MaxFailures = 2
INVARIANTS
  TypeOK BusesOffWhenGone BusNeedsPower
  PoweredBetweenCalls OneBusBetweenCalls
CHECK_DEADLOCK FALSE
