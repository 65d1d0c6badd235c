SPECIFICATION FairSpec
CONSTANTS
  Parsers = {p1}
  Consumers = {c1, c2}
  Reader = Reader
  N = 6
  Capacity = 2
  ShapeOf <- MCShapeOf
  MergeRows = 3
  Native = TRUE
  Faults = {"read", "parse", "ingest", "finish"}
CHECK_DEADLOCK FALSE
INVARIANTS
  TypeOK
  NoBatchLostOrRepeated
  SuccessMeansWholeFile
PROPERTIES
  Terminates
