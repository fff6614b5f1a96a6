CONSTANTS
    Passage = {1, 2}
    Partition = {{1}, {2}}
    Version = {v1}
    Proc = {c1, c2}
    Kind = {phrase}
    MaxChain = 2
SPECIFICATION RacingSpec
CONSTRAINT IndexersAreAlone
INVARIANT LineageNamesPredecessor
CHECK_DEADLOCK FALSE
