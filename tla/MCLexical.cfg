CONSTANTS
    ru = ru
    shi = shi
    Char = {ru, shi}
    GramLen = 2
    HashSpace = 8
    Hash <- MCHash
    NumDocs = 4
    NoDoc = NoDoc
    PhraseBuckets = 3
    MaxOpen = 2
    ChunkRecords = 2
    Density = 2
    Radix = 2
    MaxLost = 1
    PhraseStores <- MCPhraseStores
    Unit = {1, 2}
    Doc = {0, 1, 2, 3}
    Term = {0, 1, 2, 3}
    Buckets = 2
    MaxThreads = 2
    MinDf = 2
    MaxDf = 3
    MaxFeatures = 2
    Stores <- MCStores
    MaxDeaths = 1
    Changes = 1
    Releases <- MCReleases
    Beside = {{}, {"xml-p5"}}
    MaxMerges = 3
    Files <- MCFiles
    Sidecar <- MCSidecar
    WorkList <- MCWorkList
    NoId = NoId
SPECIFICATION MCSpec
INVARIANTS
    TfidfIsExact
    PhraseIsExact
    XmlIsReadRight
    MergeLosesNothing
