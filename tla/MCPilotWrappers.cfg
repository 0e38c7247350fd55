SPECIFICATION FairPilotSpec
CONSTANTS
    Packets = {1, 2}
    NoPacket = 0
    Jobs = {w1, w2}
    Operators = {}
    NoRunner = NoRunner
    MessageCount = 1
    DetectWindow = 4
    MaxIssues = 4
    MaxThreads = 4
    MaxFaults = 2
    MaxPerHour = 1
    PlanWindow = 2
    ExportWindow = 1
INVARIANTS
    OneAwaitedIssue
    DuplicatesBoundedByFaults
    RecordedThreadAnnounced
    WritesBoundedByFaults
PROPERTIES
    LateSpec
    NoLinkForgotten
    RunsEnd
