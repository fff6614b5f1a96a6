CONSTANTS
    a = a
    b = b
    t = t1
    Passage = {a, b}
    Text = {t1, t2}
    Tables <- MCTables
    FlushSize = 2
    MaxPieces = 6
    MaxDeaths = 1
    Content = {i1, i2}
    Proc = {p1, p2}
    Caller = {c1, c2}
    Listing <- List3
    Place <- Place3
    Versions <- Versions3
    PayloadOf <- Payload3
    Recordings <- Recorded
    ChunkSize = 2
    LinkLimit = 3
    Absent = Absent
    MaxCalls = 3
    MaxEdits = 1
SPECIFICATION MCSpec
SYMMETRY Sym
INVARIANTS
    TypeOK
    IndexIsOfTheStore
    SettledIsPaired
    RegistryTypeOK
    RowsMatchArtefacts
    FinishedWorkIsLinked
CHECK_DEADLOCK FALSE
