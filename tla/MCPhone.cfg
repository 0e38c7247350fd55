SPECIFICATION MCSpec
CONSTANTS
    contacts = contacts
    calendar = calendar
    liveCalendar = liveCalendar
    liveNotes = liveNotes
    r1 = r1
    u1 = u1
    b1 = b1
    calls = calls
    photos = photos
    m1 = m1
    template = template
    Files <- MCFiles
    Live <- MCLive
    Name <- MCName
    Transcripts <- MCTranscripts
    Records = {r1, u1, b1}
    Unnamed = {u1}
    Refused = {b1}
    Exports <- MCExports
    TempNames = {1, 2}
    Limit = 2
    Plans <- MCPlans
    Phone = {calls, photos}
    Payloads = {m1}
    Synthetic = template
    Window = 2
INVARIANTS
    NamedOnce
    ReadyIsCurrent
PROPERTIES
    BatchTakesAll
    MissedMeansGone
    RehearsalCovers
CHECK_DEADLOCK FALSE
