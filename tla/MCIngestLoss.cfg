CONSTANTS
    Rows <- Corpus6
    BatchSize = 2
    Interval = 1
    Proc = {p1}
    MaxDirs = 1
    MaxResumes = 1
    Others = FALSE
    Absent = Absent
    Writer = {q1}
    Corpora = {}
    Pages = {}
    Dicts = {}
    Catalog <- MCCatalog
    PartRows = 2
    MaxRuns = 0
    Missing = Missing
    BlankLine = BlankLine
    BrokenLine = BrokenLine
SPECIFICATION MCSpec
INVARIANTS
    NothingLost
CHECK_DEADLOCK FALSE
