SPECIFICATION Spec
CONSTANTS
    c1 = c1
    c2 = c2
    Columns = {1, 2}
    Rows <- TwoRows
    Tables <- Empty
    Queries <- OneQuery
    Calls = {c1}
    Apart <- OneOfEach
    GlobalSettings = {FALSE}
    MaxQueries = 2
    Budgets <- ManyRewrites
    MaxRows = 4
    MaxRestarts = 0
INVARIANTS ServedIsFresh
CHECK_DEADLOCK FALSE
