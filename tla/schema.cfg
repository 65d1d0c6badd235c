SPECIFICATION Spec
CONSTANTS
    s1 = s1
    s2 = s2
    Sessions = {s1, s2}
    None = None
    Payloads <- SomePayloads
    Declared <- UserTables
    MaxTxns = 3
    MaxBatches = 2
INVARIANTS TypeOK CacheSound NothingNulled NoInternalError ColumnsAreJoins
PROPERTIES SchemaOnlyWidens
SYMMETRY Symmetry
CHECK_DEADLOCK FALSE
