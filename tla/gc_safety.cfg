SPECIFICATION Spec
CONSTANTS
  events = events
  Events = Events
  main_events = main_events
  Requests = {r1, r2, r3}
  Targets = {events, Events, main_events}
  Fold <- MCFold
  TableOf <- MCTableOf
  Keys = {"k"}
  Faults = {"conflict", "error", "commit"}
  LingerTarget = 2
  NoOne = NoOne
SYMMETRY RequestSymmetry
CHECK_DEADLOCK FALSE
INVARIANTS
  TypeOK
  OneLeaderPerTarget
  ActiveCounts
  QueuedExactlyOnce
  AtMostOnce
  ConnectionsClean
  CreatorHoldsLock
PROPERTIES
  LeaderReturnsResolved
