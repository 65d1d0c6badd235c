SPECIFICATION FairSpec
CONSTANTS
  events = events
  Events = Events
  main_events = main_events
  Requests = {r1, r2, r3}
  Targets = {events, main_events}
  Fold <- MCFold
  TableOf <- MCTableOf
  Keys = {"k"}
  Faults = {"conflict"}
  LingerTarget = 2
  NoOne = NoOne
CHECK_DEADLOCK FALSE
INVARIANTS
  ErrorMeansNotCommitted
PROPERTIES
  ImplementsAtomicIngest
  EveryRequestAnswered
