CONSTANTS
    Tabs = {t1, t2}
    Launches = {l1}
    None = None
    MaxIds = 3
    MaxSteps = 5
    MaxFaults = 1
SPECIFICATION BoardSpec
SYMMETRY Symmetry
INVARIANTS OneOfEach LinksResolve CurrentPageHasAll
CHECK_DEADLOCK FALSE
