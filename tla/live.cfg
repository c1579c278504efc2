SPECIFICATION LiveSpec
CONSTANTS
    Mails = {m1}
    Nobody = Nobody
    Syncs = {s1, s2}
    MailMishaps = 2
    Quotes = {q1, q2}
    Alerts = {a1}
    Digests = {}
    NoticeAttempts = 2
    NoticeTroubles = 1
    CalEvents = 2
    CalBatch = 1
    CalTroubles = 1
    Calls = {c1}
    CallTroubles = 1
    DeskClicks = 1
    Preroll = 2
    Pieces = 3
    LineTools = 2
    LineTurns = 2
    Header = 2
    Records = 2
    PayloadMax = 2
    ReadLen = 2
INVARIANTS
    QuoteStoredOnce AnswerIsFinal
    HandedOverIsRecorded ListenOnlyWhenQuiet
PROPERTIES
    MailDealtWith KeepsLedger RunOutIsTold EventGetsThere
    CallsAreClosed LineListens WireIsRead
CHECK_DEADLOCK FALSE
