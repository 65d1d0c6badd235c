SPECIFICATION Spec
CONSTANTS
  events = events
  Events = Events
  main_events = main_events
  Requests = {r1, r2, r3}
  Targets = {events}
  Fold <- MCFold
  TableOf <- MCTableOf
  Keys = {"a", "b"}
  Faults = {}
  LingerTarget = 2
  NoOne = NoOne
CHECK_DEADLOCK FALSE
INVARIANTS
  NothingDropped
