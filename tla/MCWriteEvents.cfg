SPECIFICATION PilotSpec
CONSTANTS
    Packets = {1}
    NoPacket = 0
    Jobs = {w1}
    Operators = {}
    NoRunner = NoRunner
    MessageCount = 1
    DetectWindow = 2
    MaxIssues = 2
    MaxThreads = 2
    MaxFaults = 2
    MaxPerHour = 1
    PlanWindow = 1
    ExportWindow = 1
INVARIANTS
    WriteEventsLimited
CHECK_DEADLOCK FALSE
