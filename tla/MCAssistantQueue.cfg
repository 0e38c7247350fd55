CONSTANTS
    p1 = p1
    p2 = p2
    u1 = u1
    u2 = u2
    c1 = c1
    c2 = c2
    Tabs <- MCTabs
    Calls <- MCCalls
    Captures <- MCCaptures
    None = None
    MaxErrors = 1
    MaxOperations = 6
SPECIFICATION QueueSpec
SYMMETRY Symmetry
INVARIANTS ToldIsKept MarksKept ImportKept
CHECK_DEADLOCK FALSE
