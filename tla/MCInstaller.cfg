CONSTANTS
    Layouts = {"canonical", "raw"}
    MaxDeaths = 1
    Wishes = {desktop}
    MaxLag = 1
    MaxWhims = 3
SPECIFICATION MCSpec
INVARIANTS
    MCTypeOK
    InitEndsReady
    InstalledIsUsable
    AdviceIsRunnable
PROPERTIES
    WindowIsHonest
    AdviceLeadsHome
CHECK_DEADLOCK FALSE
