CONSTANTS
    Layouts = {"canonical"}
    MaxDeaths = 0
    Wishes = {}
    MaxLag = 1
    MaxWhims = 0
SPECIFICATION MCSpec
INVARIANT ForceReinitializes
CHECK_DEADLOCK FALSE
