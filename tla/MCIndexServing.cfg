CONSTANTS
    Passage = {1, 2}
    Partition = {{1}, {2}}
    Version = {v1}
    Proc = {c1}
    Kind = {phrase}
    MaxChain = 2
SPECIFICATION ServingSpec
INVARIANTS
    ServingTypeOK
    ServedWhileAppended
CONSTRAINT StillSteady
CHECK_DEADLOCK FALSE
