SPECIFICATION SequentialSpec
CONSTANTS
    Packets = {p1, p2}
    Procs = {w1}
    NoPacket = NoPacket
    Limit = 1
    MaxIssues = 2
    MaxResults = 2
    MaxFaults = 1
INVARIANTS
    KeptOrArchived
    WrapperDelivers
PROPERTIES
    ClosedOnRecord
    CompleteUntilReplaced
