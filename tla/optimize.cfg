SPECIFICATION Spec
CONSTANTS
    c1 = c1
    c2 = c2
    Columns = {1, 2}
    Rows <- TwoRows
    Tables <- WithHole
    Queries <- TwoQueries
    Calls = {c1, c2}
    Apart <- OneOfEach
    GlobalSettings = {TRUE, FALSE}
    MaxQueries = 2
    Budgets <- ThreeWays
    MaxRows = 3
    MaxRestarts = 1
INVARIANTS TypeOK RowsKept NoopIsOrdered FreshUnlessOvertaken UsageIsObserved
SYMMETRY Symmetry
CHECK_DEADLOCK FALSE
