SPECIFICATION FairSpec
CONSTANTS
  c1 = c1
  c2 = c2
  Consumers = {c1, c2}
  Main = Main
  Workers = {w1, w2}
  None = None
  Batches = {1, 2, 3, 4, 5}
  Content <- MCContent
  Large = {1, 3}
  Malformed = {1, 4}
  Assignments <- MCAssignments
  Tables <- MCTables
  Capacity = 1
  Faults = {"evolve", "append", "worker", "flush"}
CHECK_DEADLOCK FALSE
INVARIANTS
  TypeOK
  BatchInOnePlace
  ColumnsLineUp
  SuccessIsComplete
PROPERTIES
  Terminates
