SPECIFICATION ServicesSpec
CONSTANTS
    Accounts = {x1, x2}
    Requests = {y1, y2}
    MaxOperations = 3
    MaxGrants = 2
    Horizon = 1
    CookieLife = 1
    GrantLife = 1
    Calls = {x1, x2, x3}
    Concurrency = 2
    Limit = 3
    Surplus = 1
    MaxEdits = 1
    Probers = {x1, x2}
    GeoModels = {m1}
    Brands = {n1, n2}
    Towns = {b1}
    Offers = {o1}
    Spoken = {"de"}
    Asked = {"cost", "reputation"}
    Window = 1
    GeoHorizon = 2
    MaxSettings = 3
    Endings = {"mentioned"}
    MaxRuns = 3
    Skipping = FALSE
    Drives = {x1, x2}
    Streams = {s1}
    MaxEmitted = 1
    MaxCalls = 1
    MonthlyCap = 1
    Logins = {x1, x2}
    Logouts = {x1, x2}
    AttemptLimit = 1
    WindowTicks = 2
    HashGate = 2
    SessionAge = 1
    LastTick = 3
    Uploads = {x1, x2}
    Tenants = {b1, b2}
    Texts = {y1, y2}
    MaxPassages = 2
    Chunks = {x1, x2}
    SearchLimit = 1
    MinRelevant = 2
    MaxAttempts = 2
    MaxTraces = 1
    MaxToolRounds = 2
    MaxGrades = 2
    MaxTurns = 2
    MemoryRequests = {x1, x2, x3}
    Keys = {f1, f2, f3}
    TooLong = {f3}
    MAX_PREFERENCES = 2
    MinOccurrences = 1
    Publications = {x1, x2}
    Visitors = {y1}
    Codes = {d1, d2}
    Businesses = {b1, b2}
    MaxCtas = 2
    MAX_CODE_ATTEMPTS = 2
    MaxUrls = 6
    MaxLinks = 6
    MaxPages = 5
    MaxDepth = 3
    MAX_REDIRECTS = 1
    MaxMoved = 1
    Names = {x1, x2}
    Canonical = x1
    Aliases = {x2}
    Unspecified = {}
    HardMax = 4
    MaxTags = 1
    MaxWords = 5
    MaxShared = 2
    MaxPlain = 2
    MaxPosts = 2
    WeeklyCap = 3
    MaxDrives = 2
    Facts = {c1}
    Unknown = c2
    HashtagsMax = 1
    MAX_SAMPLES = 3
    MaxCases = 2
    MaxHashtags = 2
    Bare = {"12"}
    Ranges = {"12-14"}
    Floors = {"3.OG"}
    Wings = {"HH"}
    Variants = {v1, v2}
    WeekDays = {mo}
    Lengths = {0, 30, 55, 150}
    Phrases = {0, 1, 2, 3}
    BodyWords = {0, 30, 125, 250, 400}
    MaxUses = 11
    MaxHeadings = 3
    MaxFlawed = 2
    SitePages = {x1, x2, x3}
    StartPage = x1
    MAX_EXAMPLES = 1
    MaxFaulty = 1
    NewTexts = {y1}
    Patience = 5
    MaxSegments = 2
    MaxParts = 3
INVARIANTS
    ServicesTypeOK
    SentWithALiveCredential
    OvershootIsOneBatch
    RunsAreAWindowApart
    EveryCallIsBookedOnce
    CursorSkipsNothing
    LogoutEndsOlderSessions
    GuessesAreRationed
    SearchFindsWhatWasKept
    CitationsAreVouchedFor
    LeadsReachTheirOwner
    NothingWithinReachIsMissed
    WhatIsOutWasCleared
    ReportIsTrue
    ScoresAreOfTheModelsText
PROPERTIES
    ForgottenStaysForgotten
    WritersKeepTheRest
    HintsHelp
    AdviceHelps
CHECK_DEADLOCK FALSE
