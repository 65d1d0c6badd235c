SPECIFICATION FairSpec
CONSTANTS
  Payloads = {p1, p2, p3}
  Targets = {"logs", "spans"}
  Callers = {c1}
  Flusher = Flusher
  DueSize = 2
  FlushThreads = 2
  Faults = {"error", "commit"}
CHECK_DEADLOCK FALSE
INVARIANTS
  TypeOK
  PayloadInOnePlace
  FlushEmptiesBuffers
PROPERTIES
  EveryPayloadSettled
  QuietCloseCompletes
