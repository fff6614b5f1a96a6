CONSTANTS
    Rows <- Corpus3
    BatchSize = 2
    Interval = 1
    Proc = {p1, p2}
    MaxDirs = 2
    MaxResumes = 1
    Others = TRUE
    Absent = Absent
    Writer = {p1, p2}
    Corpora <- MCCorpora
    Pages <- MCPages
    Dicts <- MCDicts
    Catalog <- MCCatalog
    PartRows = 2
    MaxRuns = 3
    Missing = Missing
    BlankLine = BlankLine
    BrokenLine = BrokenLine
SPECIFICATION MCSpec
SYMMETRY ProcSymmetry
CONSTRAINT SharedIsAlone
INVARIANTS
    IngestIsExact
    StoreIsWhatWasIngested

    
CHECK_DEADLOCK FALSE
