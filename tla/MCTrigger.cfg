SPECIFICATION TriggerSpec
CONSTANTS
    Packets = {1, 2}
    NoPacket = 0
    Jobs = {o1, w1}
    Operators = {o1}
    NoRunner = NoRunner
    Browser = Browser
    MaxAside = 1
    MessageCount = 0
    DetectWindow = 4
    MaxIssues = 2
    MaxThreads = 2
    MaxFaults = 1
    MaxPerHour = 1
    PlanWindow = 1
    ExportWindow = 1
INVARIANTS
    RecordedLinksExist
    TriggerInv
    SummaryHolds
CHECK_DEADLOCK FALSE
