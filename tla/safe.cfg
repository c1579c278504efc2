SPECIFICATION SafeSpec
CONSTANTS
    Rfqs = {r1, r2}
    LetterAttempts = 2
    LetterStalls = 0
    SilentStreak = 2
    SupplierTroubles = 2
    SupplierClicks = 1
    Cabinets = {k1}
    Delayed = Delayed
    CabinetTries = 2
    CabinetTroubles = 2
    Files = {f1, f2}
    OcrAttempts = 2
    FileTroubles = 1
    FileHands = 1
    Senders = {j1, j2}
    MinuteMax = 1
    Window = 2
    TokenLife = 3
    ClockMax = 5
    TriageWords = {"rate", "invoice", "unsubscribe", "security", "service", "route", "amount"}
    TriageHeads = {"list"}
    SpeechModels = 2
    StaffDeals = {d1, d2}
    NoDeal = NoDeal
    Lane = {d1}
    Posts = {p1, p2}
    Speech = {{"go"}, {"wait"}, {"both", "scheme"}}
    PeerClosures = 1
    Notes = {n1, n2}
    RoomTexts = {"go", "ok"}
    RobotLike = {"ok"}
    RoomStops = 1
    RoomSyncs = 1
    TopicKinds = {"general", "rfq"}
    TopicStops = 1
    TopicTroubles = 2
    RoomMax = 5
    WrittenBefore = 4
    HistoryLimit = 3
    PageLimit = 2
    FetchTroubles = 2
    DumpFolders = 1
    DumpLetters = 2
    DumpSlice = 1
    FileNames = {"one", "two"}
    NoFile = NoFile
    TornFile = TornFile
    DumpTroubles = 4
    DumpRuns = 2
    ArchLetters = {m1, m2}
    Addresses = {a1}
    Phones = {f1}
    NoContact = NoContact
    ClientIds = 3
    ArchRuns = 3
    ArchTroubles = 1
    ParserTabs = {t1, t2}
    ParserIds = 2
    Weeks = 1
    Toggles = 1
    ParserTroubles = 2
    Accounts = {g1, g2}
    AccountChats = {c1}
    NoAccount = NoAccount
    Routes = 2
    AccountWrites = 2
    AccountTroubles = 1
    AccountStops = 1
    SipUsers = 2
    FrameLen = 256
    Taps = 4
    Spoken = 9
    DeltaMax = 5
INVARIANTS
    SafeTypeOK StreakIsOwed CabinetIsFollowedUp SendingKeepsLimits MailIsSorted WordsGetThrough
    OnlyRacesLoseFiles
    RoomActsOnce TwinsAreBlind HistoryHasNoHole
    CleanReportIsWhole ArchiveIsSound ActiveIsCarried
    AnsweredByItsAccount OneRegisterLoop LevelIsKept DeltasJoin
PROPERTIES
    StaffSilenceKept HoldNeedsWord ClosedIsNotRevived
CHECK_DEADLOCK FALSE
