CONSTANTS
    NumDocs = 4
    Blank <- MCBlank
    Parquets <- MCParquets
    Budgets = {0, 1, 2, 3}
    Limits = {1, 2}
    QueryStores <- MCQueryStores
    ReadStores <- MCReadStores
    MinChars = 6
    MaxChars = 12
    DefaultChars = 10
    DefaultOverlap = 1
    Asked <- MCAsked
    Margins = {0, 3}

SPECIFICATION ToolsSpec

INVARIANTS
    TypeOK
    OutlineIsTheTree
    ResultsAreExact

PROPERTIES
    ReadingMissesNothing
