SPECIFICATION Spec
CONSTANTS
  events = events
  Events = Events
  main_events = main_events
  Requests = {r1, r2, r3}
  Targets = {events}
  Fold <- MCFold
  TableOf <- MCTableOf
  Keys = {"k"}
  Faults = {"error"}
  LingerTarget = 2
  NoOne = NoOne
CHECK_DEADLOCK FALSE
INVARIANTS
  AnswerIsTrue
