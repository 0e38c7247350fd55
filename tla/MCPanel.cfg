SPECIFICATION FairPanelSpec
CONSTANTS
    c1 = c1
    c2 = c2
    Scenarios <- MCScenarios
    Captures = {c1, c2}
    Commands = {c1}
    Named = {c1}
    Results = {"done"}
    Texts = {{"failed", "done"}}
    Window = 1
    MaxChanges = 2
    MaxFailures = 1
INVARIANTS
    ReportsAgree
PROPERTIES
    AdviceWasRight
    IdleIsTrue
    HeldUpNoticed
CHECK_DEADLOCK FALSE
