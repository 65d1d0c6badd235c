SPECIFICATION FairSpec
CONSTANTS
  query = query
  ingest = ingest
  export = export
  s1 = s1
  s2 = s2
  d1 = d1
  d2 = d2
  secret = secret
  none = none
  Http = Http
  Grpc = Grpc
  Sessions = {s1, s2}
  Databases = {d1, d2}
  DatabaseOf <- MCDatabaseOf
  Requests = {query, ingest, export}
  Kind <- MCKind
  Tokens = {secret, none}
  NoToken = none
  Sends <- MCSends
  Modes <- MCModes
  None = None
  MaxCalls = 3
  Faults = {"bind", "ingest", "commit"}
  EarlyStopCounts = TRUE
CHECK_DEADLOCK FALSE
INVARIANTS
  TypeOK
  ServedByItsServer
  AnswerMatchesStore

  
