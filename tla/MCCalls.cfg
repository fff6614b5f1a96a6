CONSTANTS
    Id = {x, y}
    x = x
    y = y
    NoId = NoId
    Workers = 2
    MaxJobs = 3
    a1 = a1
    a2 = a2
    Client = {a1, a2}
    Configs <- MCConfigs
    Busy <- MCBusy
    Called <- MCCalled
    Recent = 1
    MaxLog = 3
    MaxTears = 1
    c1 = c1
    c2 = c2
    Calls = {c1, c2}
    Requests <- MCRequests
    Disks <- MCDisks
    VectorLists <- MCVectorLists
    LexicalLists <- MCLexicalLists
    Unit = 48
    MaxClock = 3
    MaxChanges = 1
SPECIFICATION AllSpec
INVARIANTS
    MCTypeOK
    DependenciesDecide
    EveryLineReported
    AvailableIsCallable
    SuggestionsAreCallable
    LogIsFaithful
    WorkflowTypeOK
    HonestReport
PROPERTIES
    Terminates
    EveryCallAnswered
