CONSTANTS
    name1 = name1
    id1 = id1
    id2 = id2
    id3 = id3
    record1 = record1
    capture1 = capture1
    capture2 = capture2
    client1 = client1
    client2 = client2
    NamedIds <- MCNamed
    FreshIds <- MCFresh
    Records <- MCRecords
    Captures <- MCCaptures
    None = None
    Clients <- MCClients
    MaxBatch = 1
    MaxFaults = 1
SPECIFICATION InboxSpec
SYMMETRY Symmetry
INVARIANTS CopiesBounded NoneForgotten
PROPERTIES ImplementsLedger
CHECK_DEADLOCK FALSE
